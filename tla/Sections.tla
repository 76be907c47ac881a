------------------------------ MODULE Sections ------------------------------
(***************************************************************************)
(* The data and instruction lines of the assembler: what one of them adds  *)
(* to the section in use, to the symbols and to the errors. A part of a    *)
(* section is its size in bytes and, after linking, the section it was;    *)
(* what the bytes are is left out. An operand is a record of its kind and  *)
(* value:                                                                  *)
(*   "num" n, "word" s (a symbol alone), "sum" s (symbol s and 1),         *)
(*   "section" s (a word that begins with a dot), "here" n (. and n),      *)
(*   "bad" (malformed), "str" n (a quoted text of n characters),           *)
(*   "reg" r (a register), "param" p (a macro's parameter);                *)
(* imm says that a $ stands in front of it.                                *)
(***************************************************************************)
EXTENDS Integers, Sequences, SequencesExt

VARIABLES
    pc,                  \* "skip", "line", "word", ... or an end: see Final
    file, f_line,        \* where the line stands
    symbols,             \* [names -> [section, value, global]]
    section,             \* the name of the section in use
    sections,            \* [names -> [address, parts, expr, bitness]]
    errors               \* where errors were found

cmplVars == <<pc, file, f_line, symbols, section, sections, errors>>

NoSection == "none"      \* the null pointer
Final == {"done", "failed", "undefined", "crashed"}

Here == sections[section].address
Add(s, k) == [i \in 1..Len(s) |-> s[i] + k]
Total(sizes) ==
    LET sum[i \in 0..Len(sizes)] == IF i = 0 THEN 0 ELSE sum[i - 1] + sizes[i]
    IN  sum[Len(sizes)]

\* ERR, and what else a line leaves alone
Place == <<file, f_line>>
Continue == pc' = "line" /\ UNCHANGED <<file, f_line>>
Reported(n) == errors' = errors \o [i \in 1..n |-> Place]
ERR == Continue /\ Reported(1) /\ UNCHANGED <<symbols, section, sections>>
Nothing == Continue /\ UNCHANGED <<symbols, section, sections, errors>>
\* ERR in compile() or link() itself: they return null
Abort ==
    /\ pc' = "failed" /\ Reported(1)
    /\ UNCHANGED <<file, f_line, symbols, section, sections>>
\* The null pointer is read
Crash == pc' = "crashed" /\ UNCHANGED <<file, f_line, symbols, section, sections, errors>>

-----------------------------------------------------------------------------
(* Operands *)

\* strtol
Number(w) == IF w.kind = "num" THEN w.v ELSE 0

\* helper_expr_parse: a number; a value that waits for the linker; an error; or
\* the section of a symbol that has none is read. A symbol alone is a number, 0.
IsAbsolute(s) == s \in DOMAIN symbols /\ symbols[s].section = "absolute"
Crashes(w) == w.kind = "sum" /\ w.v \in DOMAIN symbols /\ symbols[w.v].section = NoSection
Late(w) == w.kind = "sum" /\ ~IsAbsolute(w.v) /\ ~Crashes(w)
Malformed(w) == w.kind \in {"bad", "str", "reg"}
Value(w) ==
    CASE w.kind = "num"                     -> w.v
      [] w.kind = "here"                    -> Here + w.v
      [] w.kind = "sum" /\ IsAbsolute(w.v)  -> symbols[w.v].value + 1
      [] OTHER                              -> 0

\* Where no value can wait
ValueNow(w) == IF Late(w) THEN 0 ELSE Value(w)
ErrorsNow(w) == IF Late(w) \/ Malformed(w) THEN 1 ELSE 0

\* The requests to the linker that the operands ws make, the i-th for `size`
\* bytes at offset[i]
Requests(ws, offset, size) ==
    LET made[i \in 0..Len(ws)] ==
            IF i = 0 THEN <<>>
            ELSE IF Late(ws[i])
            THEN Append(made[i - 1], [address |-> Here, offset |-> offset[i], size |-> size])
            ELSE made[i - 1]
    IN  made[Len(ws)]
ErrorsIn(ws) == Cardinality({i \in 1..Len(ws) : Malformed(ws[i])})

\* _parse_type
IsImm(w) == w.imm
IsReg(w) == ~w.imm /\ w.kind = "reg"
\* _parse_register: a register that is not known has all flags
Known(w) == ~w.imm /\ w.kind = "reg" /\ w.v # "unknown"
Pointer(w) == w.v \in {"pointer", "unknown"}
Extended(w) == w.v \in {"extended", "unknown"}
Fit(a, b) == ~(Pointer(a) /\ Pointer(b)) /\ (Extended(a) <=> Extended(b))

-----------------------------------------------------------------------------
(* Sections and symbols *)

NewSection(bits) == [address |-> 0, parts |-> <<>>, expr |-> <<>>, bitness |-> bits]
\* helper_section_add; bits are those of the section in use, 1 if there is none
WithSection(name, bits) ==
    [s \in DOMAIN sections \cup {name} |->
        IF s \in DOMAIN sections THEN sections[s] ELSE NewSection(bits)]

\* helper_insn_add
Part(size) == [size |-> size, of |-> <<>>]
Added(secs, name, size, advance, requests) ==
    [secs EXCEPT ![name].address = @ + advance,
                 ![name].parts = Append(@, Part(size)),
                 ![name].expr = @ \o requests]

\* A line with operands that adds a part
Emits(ws, size, advance, offset, width) ==
    IF \E i \in 1..Len(ws) : Crashes(ws[i]) THEN Crash
    ELSE /\ Continue
         /\ Reported(ErrorsIn(ws))
         /\ sections' = Added(sections, section, size, advance, Requests(ws, offset, width))
         /\ UNCHANGED <<symbols, section>>
Fills(size) ==
    /\ Continue
    /\ sections' = Added(sections, section, size, size, <<>>)
    /\ UNCHANGED <<symbols, section, errors>>

\* Mutant: the flag of an earlier .globl is lost
SymbolSet_NotGlobal(syms, name, sec, value) ==
    [s \in DOMAIN syms \cup {name} |->
        IF s # name THEN syms[s] ELSE [section |-> sec, value |-> value, global |-> FALSE]]

SymbolSet(syms, name, sec, value) ==
    [s \in DOMAIN syms \cup {name} |->
        IF s # name THEN syms[s]
        ELSE [section |-> sec, value |-> value,
              global |-> name \in DOMAIN syms /\ syms[name].global]]

SymbolGlobal(syms, name) ==
    [s \in DOMAIN syms \cup {name} |->
        IF s # name THEN syms[s]
        ELSE IF name \in DOMAIN syms THEN [syms[name] EXCEPT !.global = TRUE]
        ELSE [section |-> NoSection, value |-> 0, global |-> TRUE]]

\* Mutant: "." may be moved back
Advanced_Back(secs, value) ==
    IF value = Here THEN secs ELSE Added(secs, section, value - Here, value - Here, <<>>)

\* "." moves forward only
Advanced(secs, value) ==
    IF value > Here THEN Added(secs, section, value - Here, value - Here, <<>>) ELSE secs

\* helper_symbol_set with an expression as the value
Assigns(name, w) ==
    IF Crashes(w) THEN Crash
    ELSE /\ Continue
         /\ Reported(ErrorsNow(w))
         /\ IF name = "." THEN sections' = Advanced(sections, ValueNow(w)) /\ UNCHANGED symbols
            ELSE symbols' = SymbolSet(symbols, name, "absolute", ValueNow(w)) /\ UNCHANGED sections
         /\ UNCHANGED section

\* A label keeps its first place
Labelled(labels) ==
    [s \in DOMAIN symbols \cup Range(labels) |->
        IF s \in Range(labels) /\ (s \in DOMAIN symbols => symbols[s].section = NoSection)
        THEN SymbolSet(symbols, s, section, Here)[s]
        ELSE symbols[s]]

-----------------------------------------------------------------------------
(* Directives with operands ws. A missing or superfluous operand is an error *)

Between(ws, min, max) == min <= Len(ws) /\ Len(ws) <= max
Arg(ws, i) == IF i <= Len(ws) THEN Number(ws[i]) ELSE 0

\* Mutant: the section advances by one element only
_parse_int_One(ws, size) ==
    IF ws = <<>> THEN Nothing
    ELSE Emits(ws, Len(ws) * size, size, [i \in 1..Len(ws) |-> (i - 1) * size], size)

_parse_int(ws, size) ==
    IF ws = <<>> THEN Nothing
    ELSE Emits(ws, Len(ws) * size, Len(ws) * size, [i \in 1..Len(ws) |-> (i - 1) * size], size)

\* _parse_float, _parse_double
Reals(ws, size) == IF ws = <<>> THEN Nothing ELSE Fills(Len(ws) * size)

\* _parse_ascii, _parse_asciz, with `end` zeros behind each text
Texts(ws, end) ==
    IF ws = <<>> THEN Nothing ELSE Fills(Total([i \in 1..Len(ws) |-> ws[i].v + end]))

_parse_skip(ws) == IF ~Between(ws, 1, 2) \/ Arg(ws, 1) = 0 THEN ERR ELSE Fills(Arg(ws, 1))

_parse_fill(ws) ==
    LET repeat == Arg(ws, 1)
        size == IF Arg(ws, 2) = 0 THEN 1 ELSE Arg(ws, 2)
    IN  IF ~Between(ws, 1, 3) \/ size > 8 \/ repeat = 0 THEN ERR ELSE Fills(size * repeat)

\* A gap as large as the maximum is too large
_parse_align(ws) ==
    LET align == Arg(ws, 1)
        max == Arg(ws, 3)
        needed == (align - (Here % align)) % align
    IN  IF ~Between(ws, 1, 3) \/ align = 0 THEN ERR
        ELSE IF needed > 0 /\ (max = 0 \/ needed < max) THEN Fills(needed)
        ELSE Nothing

_parse_org(ws) ==
    IF ~Between(ws, 1, 2) \/ Arg(ws, 1) = 0 THEN ERR
    ELSE IF Arg(ws, 1) > Here THEN Fills(Arg(ws, 1) - Here)
    ELSE Nothing

_parse_equ(ws) == IF Len(ws) # 2 THEN ERR ELSE Assigns(ws[1].v, ws[2])
_parse_equiv(ws) ==
    IF Len(ws) # 2 \/ ws[1].v \in DOMAIN symbols THEN ERR ELSE Assigns(ws[1].v, ws[2])

\* The label stands in .bss in front of the bytes.  The name "." moves the section in
\* use to the end of .bss instead.
_parse_lcomm(ws, global) ==
    IF Len(ws) # 2 THEN ERR
    ELSE IF Crashes(ws[2]) THEN Crash
    ELSE LET opened == WithSection(".bss", 1)
             end == opened[".bss"].address
             size == ValueNow(ws[2])
             moves == ws[1].v = "."
             syms == IF moves THEN symbols ELSE SymbolSet(symbols, ws[1].v, ".bss", end)
             secs == IF moves THEN Advanced(opened, end) ELSE opened
         IN  /\ Continue
             /\ Reported(ErrorsNow(ws[2]))
             /\ symbols' = IF global THEN SymbolGlobal(syms, ws[1].v) ELSE syms
             /\ sections' = Added(secs, ".bss", size, size, <<>>)
             /\ UNCHANGED section

_parse_globl(ws) ==
    IF Len(ws) # 1 THEN ERR
    ELSE /\ Continue
         /\ symbols' = SymbolGlobal(symbols, ws[1].v)
         /\ UNCHANGED <<section, sections, errors>>

\* .section, .data, .text
InSection(name) ==
    /\ Continue
    /\ sections' = WithSection(name, sections[section].bitness)
    /\ section' = name
    /\ UNCHANGED <<symbols, errors>>
\* .code16, .code32
Bits(ws, bits) ==
    IF ws # <<>> THEN Abort
    ELSE /\ Continue
         /\ sections' = [sections EXCEPT ![section].bitness = bits]
         /\ UNCHANGED <<symbols, section, errors>>

Directives == {".byte", ".short", ".int", ".long", ".float", ".double", ".ascii", ".asciz",
               ".skip", ".fill", ".align", ".org", ".equ"}
\* What compile() and link() have in common
Directive(op, ws) ==
    CASE op = ".byte"   -> _parse_int(ws, 1)
      [] op = ".short"  -> _parse_int(ws, 2)
      [] op = ".int"    -> _parse_int(ws, 4)
      [] op = ".long"   -> _parse_int(ws, 8)
      [] op = ".float"  -> Reals(ws, 4)
      [] op = ".double" -> Reals(ws, 8)
      [] op = ".ascii"  -> Texts(ws, 0)
      [] op = ".asciz"  -> Texts(ws, 1)
      [] op = ".skip"   -> _parse_skip(ws)
      [] op = ".fill"   -> _parse_fill(ws)
      [] op = ".align"  -> _parse_align(ws)
      [] op = ".org"    -> _parse_org(ws)
      [] op = ".equ"    -> _parse_equ(ws)

CompilerDirectives == {".equiv", ".err", ".section", ".data", ".text", ".code16", ".code32",
                       ".comm", ".lcomm", ".globl"}
CompilerDirective(op, ws) ==
    CASE op = ".equiv"   -> _parse_equiv(ws)
      [] op = ".err"     -> ERR
      [] op = ".section" -> IF Len(ws) = 1 /\ ws[1].kind = "section" THEN InSection(ws[1].v) ELSE Abort
      [] op \in {".data", ".text"} -> IF ws # <<>> THEN Abort ELSE InSection(op)
      [] op = ".code16"  -> Bits(ws, 0)
      [] op = ".code32"  -> Bits(ws, 1)
      [] op = ".comm"    -> _parse_lcomm(ws, TRUE)
      [] op = ".lcomm"   -> _parse_lcomm(ws, FALSE)
      [] op = ".globl"   -> _parse_globl(ws)

-----------------------------------------------------------------------------
(* Instructions, by the forms of their operands *)

\* An instruction of `size` bytes with the value w in the `width` bytes at offset
WithImm(w, size, offset, width) == Emits(<<w>>, size, size, <<offset>>, width)

_parsei_pure(ws) == IF ws # <<>> THEN ERR ELSE Fills(1)
_parsei_1reg(ws) == IF Len(ws) # 1 \/ ~Known(ws[1]) THEN ERR ELSE Fills(2)
_parsei_2reg(ws) ==
    IF Len(ws) # 2 \/ ~Known(ws[1]) \/ ~Known(ws[2]) \/ ~Fit(ws[1], ws[2]) THEN ERR ELSE Fills(3)
_parsei_movcc(ws) ==
    IF Len(ws) # 2 \/ ~Known(ws[1]) \/ ~Known(ws[2]) \/ ~Fit(ws[1], ws[2]) THEN ERR ELSE Fills(4)
_parsei_1imm(ws) == IF Len(ws) # 1 \/ ~IsImm(ws[1]) THEN ERR ELSE WithImm(ws[1], 3, 1, 2)

\* Mutant: the value one byte further
_parsei_jcc_Further(ws) == IF Len(ws) # 1 \/ ~IsImm(ws[1]) THEN ERR ELSE WithImm(ws[1], 4, 3, 2)
_parsei_jcc(ws) == IF Len(ws) # 1 \/ ~IsImm(ws[1]) THEN ERR ELSE WithImm(ws[1], 4, 2, 2)

\* The register is not looked at
_parsei_1reg_imm(ws) ==
    IF Len(ws) # 1 THEN ERR
    ELSE IF IsImm(ws[1]) THEN WithImm(ws[1], 3, 1, 2)
    ELSE IF IsReg(ws[1]) THEN Fills(2)
    ELSE ERR

\* The value is read, and may leave a request, before the register is refused;
\* the first register is not looked at
_parsei_2reg_imm(ws) ==
    IF Len(ws) # 2 \/ ~Known(ws[2]) THEN ERR
    ELSE IF IsImm(ws[1]) /\ Extended(ws[2]) THEN
        IF Crashes(ws[1]) THEN Crash
        ELSE /\ Continue
             /\ Reported(ErrorsIn(<<ws[1]>>) + 1)
             /\ sections' = [sections EXCEPT ![section].expr =
                                @ \o Requests(<<ws[1]>>, <<2>>, 2)]
             /\ UNCHANGED <<symbols, section>>
    ELSE IF IsImm(ws[1]) THEN WithImm(ws[1], 4, 2, 2)
    ELSE IF IsReg(ws[1]) /\ Fit(ws[1], ws[2]) THEN Fills(3)
    ELSE ERR

\* Three bytes are added and the section advances by four
_parsei_1reg_1imm(ws) ==
    IF Len(ws) # 2 \/ ~IsImm(ws[1]) \/ ~Known(ws[2]) THEN ERR
    ELSE Emits(<<ws[1]>>, 3, 4, <<2>>, 1)

Pure     == {"nop", "ret", "sei", "cli", "iret"}
OneReg   == {"gipc", "push", "pop", "inc", "dec", "not"}
TwoReg   == {"swap", "mul", "div", "mod", "fadd", "fsub", "fmul", "fdiv", "i2f", "f2i", "crld", "crst"}
RegOrImm == {"sleep", "jmp", "call", "rjmp", "rcall"}
FromRegOrImm == {"mov", "add", "sub", "xor", "or", "and", "in", "out"}
BitOfReg == {"bts", "btr", "btc", "shl", "shr", "rol", "ror"}
Conditions == {"ae", "nae", "b", "nb", "e", "ne", "ge", "nge", "l", "nl", "c", "nc", "o", "no",
               "s", "ns", "z", "nz"}
Jumps == {"j" \o c : c \in Conditions}
Moves == {"mov" \o c : c \in Conditions}

Instruction(op, ws) ==
    CASE op \in Pure         -> _parsei_pure(ws)
      [] op \in OneReg       -> _parsei_1reg(ws)
      [] op \in TwoReg       -> _parsei_2reg(ws)
      [] op \in RegOrImm     -> _parsei_1reg_imm(ws)
      [] op \in FromRegOrImm -> _parsei_2reg_imm(ws)
      [] op \in BitOfReg     -> _parsei_1reg_1imm(ws)
      [] op = "int"          -> _parsei_1imm(ws)
      [] op \in Jumps        -> _parsei_jcc(ws)
      [] op \in Moves        -> _parsei_movcc(ws)
Instructions == Pure \cup OneReg \cup TwoReg \cup RegOrImm \cup FromRegOrImm \cup BitOfReg
                \cup {"int"} \cup Jumps \cup Moves
=============================================================================
