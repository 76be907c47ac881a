---------------------------- MODULE SourceLines -----------------------------
(***************************************************************************)
(* compile(): the lines of the source, its conditionals, macros, repeats   *)
(* and included files. `files` holds the lists of lines that are still to  *)
(* be read, the active one first; a list begins with the name and the      *)
(* number of the line before its first. A block is kept in `dl` until its  *)
(* end and then put in front of the files as a list of its own.            *)
(***************************************************************************)
EXTENDS Sections, TLC

VARIABLES
    source,      \* get_file: [names -> lines]; a name it does not have stands for
                 \* a file in which a quote or a bracket does not close
    files,
    args,        \* the line in hand
    history,     \* the blocks that are open, the innermost first
    dl,          \* the lines of the outermost
    macros,      \* [names -> list]: operands, name and number, lines
    linking,     \* link() reads its script
    assembled    \* history variable: where each assembled line stood, and the line

blockVars == <<files, args, history, dl, macros>>
sourceVars == <<cmplVars, blockVars, source, linking, assembled>>

\* hm_put
Put(f, x, value) == [y \in DOMAIN f \cup {x} |-> IF y = x THEN value ELSE f[y]]

\* The entries of a list
Name(f) == [is |-> "name", v |-> f]
Number_(n) == [is |-> "number", v |-> n]
Entry(line) == [is |-> "line", v |-> line]
Label(s) == [is |-> "label", v |-> s]
Operands(ws) == [is |-> "operands", v |-> ws]

\* What helper_file_parse returns for a torn file
NullFile == <<[is |-> "null", v |-> 0]>>
IsNull(list) == list # <<>> /\ list[1].is = "null"
NoLine == [labels |-> <<>>, op |-> "", args |-> <<>>]
\* A line taken for a name, and a pointer taken for a number
NoName == "?"
NoNumber == -100

helper_file_parse(f) ==
    IF f \in DOMAIN source
    THEN <<Name(f), Number_(0)>> \o [i \in 1..Len(source[f]) |-> Entry(source[f][i])]
    ELSE NullFile

\* Mutant: the number of the next line
WithPlace_NextLine(list) == <<Name(file), Number_(f_line + 1)>> \o list

\* helper_line_add to a list, helper_reload of the active one
WithPlace(list) == <<Name(file), Number_(f_line)>> \o list
Reloaded == <<WithPlace(Head(files))>> \o Tail(files)

\* helper_file_substitute
Substituted(list, what, with) ==
    LET Word(w) == IF w.kind = "param" /\ w.v = what THEN [with EXCEPT !.imm = w.imm] ELSE w
    IN  [i \in 1..Len(list) |->
            IF list[i].is = "line"
            THEN Entry([list[i].v EXCEPT !.args = [k \in 1..Len(@) |-> Word(@[k])]])
            ELSE list[i]]

\* The beginning of compile()
NewUnit(f) ==
    /\ pc' = "skip" /\ linking' = FALSE
    /\ file' = "" /\ f_line' = 0
    /\ symbols' = <<>>
    /\ section' = ".text" /\ sections' = [s \in {".text"} |-> NewSection(1)]
    /\ files' = <<helper_file_parse(f)>>
    /\ args' = NoLine
    /\ history' = <<>> /\ dl' = <<>> /\ macros' = <<>>

-----------------------------------------------------------------------------
(* The loops over the files and their lines *)

\* The name and the number of the first file are read, or whatever stands there
Open ==
    /\ pc = "skip"
    /\ files # <<>> /\ ~IsNull(Head(files))
    /\ pc' = "line"
    /\ file' = IF files[1] # <<>> /\ files[1][1].is = "name" THEN files[1][1].v ELSE NoName
    /\ f_line' = IF Len(files[1]) < 2 THEN 0
                 ELSE IF files[1][2].is = "number" THEN files[1][2].v ELSE NoNumber
    /\ files' = <<SubSeq(files[1], 3, Len(files[1]))>> \o Tail(files)
    /\ UNCHANGED <<symbols, section, sections, errors, args, history, dl, macros, source,
                   linking, assembled>>

\* A line is taken; outside of blocks its labels are set. The entry may be a name
\* that was put in front of the list by a second .else: memory of another type.
ReadLine ==
    /\ pc = "line"
    /\ Head(files) # <<>>
    /\ files' = <<Tail(files[1])>> \o Tail(files)
    /\ LET entry == files[1][1]
       IN  IF entry.is # "line"
           THEN pc' = "undefined" /\ UNCHANGED <<args, f_line, symbols>>
           ELSE /\ pc' = "word"
                /\ args' = entry.v
                /\ f_line' = f_line + 1
                /\ symbols' = IF history = <<>> THEN Labelled(entry.v.labels) ELSE symbols
    /\ UNCHANGED <<file, section, sections, errors, history, dl, macros, source, linking, assembled>>

EndFile ==
    /\ pc = "line" /\ ~linking
    /\ Head(files) = <<>>
    /\ files' = Tail(files)
    /\ pc' = "skip"
    /\ UNCHANGED <<file, f_line, symbols, section, sections, errors, args, history, dl, macros,
                   source, linking, assembled>>

\* Only labels, or nothing: dropped, in a block also
BlankLine ==
    /\ pc = "word" /\ args.op = ""
    /\ Nothing
    /\ UNCHANGED <<blockVars, source, linking, assembled>>

Outside == pc = "word" /\ ~linking /\ args.op # "" /\ history = <<>>
Inside == pc = "word" /\ args.op # "" /\ history # <<>>
Keep == UNCHANGED <<args, source, linking, assembled>>

\* strncmp with the length of `start'
StartsWith(word, start) == Len(word) >= Len(start) /\ SubSeq(word, 1, Len(start)) = start

\* A macro hides an instruction of its name; what has an = or begins with a dot is
\* never looked up
CallsMacro == args.op \in DOMAIN macros /\ args.op # "=" /\ ~StartsWith(args.op, ".")

\* A line that adds to the sections or the symbols
AssembleLine ==
    /\ Outside /\ ~CallsMacro
    /\ \/ args.op = "=" /\ Assigns(args.args[1].v, args.args[2])
       \/ args.op \in Directives /\ Directive(args.op, args.args)
       \/ args.op \in CompilerDirectives /\ CompilerDirective(args.op, args.args)
       \/ args.op \in Instructions /\ Instruction(args.op, args.args)
    /\ assembled' = Append(assembled, <<file, f_line, args>>)
    /\ UNCHANGED <<blockVars, source, linking>>

Control == {".include", ".ifdef", ".ifndef", ".if", ".macro", ".irp", ".irpc"}
\* Unknown directives and instructions, the end of a block that is not open too
UnknownLine ==
    /\ Outside /\ ~CallsMacro
    /\ args.op \notin {"="} \cup Directives \cup CompilerDirectives \cup Instructions \cup Control
    /\ Abort
    /\ UNCHANGED <<blockVars, source, linking, assembled>>

-----------------------------------------------------------------------------
(* Lines that change what is read next *)

Unchanged == UNCHANGED <<file, f_line, symbols, section, sections>>
\* goto skip after an error: the next two lines are taken for a name and a number
Lost == pc' = "skip" /\ Unchanged /\ Reported(1) /\ UNCHANGED <<files, history, dl>>

_parse_include ==
    /\ Outside /\ args.op = ".include"
    /\ \/ Len(args.args) # 1 /\ Lost
       \/ /\ Len(args.args) = 1
          /\ files' = <<helper_file_parse(args.args[1].v)>> \o Reloaded
          /\ pc' = "skip" /\ Unchanged /\ UNCHANGED <<errors, history, dl>>
    /\ UNCHANGED macros /\ Keep

Holds ==
    CASE args.op = ".ifdef"  -> args.args[1].v \in DOMAIN symbols
      [] args.op = ".ifndef" -> args.args[1].v \notin DOMAIN symbols
      [] args.op = ".if"     -> ValueNow(args.args[1]) # 0

\* _parse_ifdef, _parse_ifndef, _parse_if. Without its operand, the line opens
\* no block.
_parse_if ==
    /\ Outside /\ args.op \in {".ifdef", ".ifndef", ".if"}
    /\ \/ Len(args.args) # 1 /\ ERR /\ UNCHANGED <<files, history, dl>>
       \/ /\ Len(args.args) = 1
          /\ args.op = ".if" /\ Crashes(args.args[1])
          /\ Crash /\ UNCHANGED <<files, history, dl>>
       \/ /\ Len(args.args) = 1
          /\ ~(args.op = ".if" /\ Crashes(args.args[1]))
          /\ Continue
          /\ Reported(IF args.op = ".if" THEN ErrorsNow(args.args[1]) ELSE 0)
          /\ history' = <<IF Holds THEN "i1" ELSE "i0">>
          /\ dl' = IF Holds THEN WithPlace(dl) ELSE dl
          /\ UNCHANGED <<files, symbols, section, sections>>
    /\ UNCHANGED macros /\ Keep

\* _parse_macro, _parse_irp, _parse_irpc. Without its operands, the line opens
\* a block without a head.
_parse_macro ==
    /\ Outside /\ args.op \in {".macro", ".irp", ".irpc"}
    /\ Continue
    /\ LET good == IF args.op = ".irpc" THEN Len(args.args) = 2 ELSE Len(args.args) >= 1
           operands == CASE args.op = ".irp"  -> Reverse(Tail(args.args))
                         [] args.op = ".irpc" -> args.args[2].v
                         [] OTHER             -> Tail(args.args)
       IN  /\ Reported(IF good THEN 0 ELSE 1)
           /\ dl' = IF good THEN <<Label(args.args[1].v), Operands(operands)>> \o WithPlace(dl) ELSE dl
    /\ history' = <<CASE args.op = ".macro" -> "m" [] args.op = ".irp" -> "rn" [] OTHER -> "rc">>
    /\ UNCHANGED <<files, macros, symbols, section, sections>>
    /\ Keep

\* A macro's operand is a name, or a name and the value that it always has
Given(operand) == operand.kind = "given"
With(operand, i) == IF Given(operand) THEN operand.given ELSE args.args[i]
\* One operand after another
Expanded(list, operands) ==
    LET l[i \in 0..Len(operands)] ==
            IF i = 0 THEN list ELSE Substituted(l[i - 1], operands[i].v, With(operands[i], i))
    IN  l[Len(operands)]

\* A call with too few operands takes the macro's own from its list and does not
\* put them back
_parse_macro_sub ==
    /\ Outside /\ CallsMacro
    /\ LET list == macros[args.op]
           operands == list[1].v
           missing == \E i \in 1..Len(operands) : i > Len(args.args) /\ ~Given(operands[i])
       IN  \/ /\ list[1].is # "operands"
              /\ pc' = "undefined" /\ Unchanged /\ UNCHANGED <<errors, files, history, dl, macros>>
           \/ /\ list[1].is = "operands" /\ missing
              /\ Lost /\ macros' = [macros EXCEPT ![args.op] = Tail(list)]
           \/ /\ list[1].is = "operands" /\ ~missing
              /\ files' = <<Expanded(Tail(list), operands)>> \o Reloaded
              /\ pc' = "skip" /\ Unchanged /\ UNCHANGED <<errors, history, dl, macros>>
    /\ Keep

-----------------------------------------------------------------------------
(* Lines of a block *)

Kind(frame) == CASE frame \in {"i0", "i1"} -> "i" [] frame = "m" -> "m" [] OTHER -> "r"
\* Any word that begins like the first word of a block opens another in it, and any
\* that begins like the last one closes that; the outermost takes the word itself
Opens(op) ==
    CASE StartsWith(op, ".if")  -> "i"
      [] op = ".macro"          -> "m"
      [] StartsWith(op, ".irp") -> "r"
      [] OTHER                  -> "-"
EndsInner(op) ==
    CASE StartsWith(op, ".endi") -> "i"
      [] StartsWith(op, ".endm") -> "m"
      [] StartsWith(op, ".endr") -> "r"
      [] OTHER                   -> "-"
Ends(op) == CASE op = ".endif" -> "i" [] op = ".endm" -> "m" [] op = ".endr" -> "r" [] OTHER -> "-"
Else == args.op = ".else" /\ Kind(history[1]) = "i" /\ Len(history) = 1
Closes(frame) == Inside /\ Len(history) = 1 /\ Ends(args.op) = Kind(frame) /\ Kind(frame) = Kind(history[1])

\* Mutant: a block within a block of its kind is not counted
KeepLine_NotNested ==
    /\ Inside /\ ~Else
    /\ Len(history) > 1 \/ Ends(args.op) # Kind(history[1])
    /\ history' = IF Len(history) > 1 /\ EndsInner(args.op) = Kind(history[1])
                    THEN Tail(history) ELSE history
    /\ dl' = Append(dl, Entry(args))
    /\ Continue
    /\ UNCHANGED <<symbols, section, sections, errors, files, macros>>
    /\ Keep

\* Any line is kept, of a condition that does not hold also
KeepLine ==
    /\ Inside /\ ~Else
    /\ Len(history) > 1 \/ Ends(args.op) # Kind(history[1])
    /\ history' = IF Opens(args.op) = Kind(history[1]) THEN <<history[1]>> \o history
                  ELSE IF Len(history) > 1 /\ EndsInner(args.op) = Kind(history[1])
                    THEN Tail(history)
                  ELSE history
    /\ dl' = Append(dl, Entry(args))
    /\ Continue
    /\ UNCHANGED <<symbols, section, sections, errors, files, macros>>
    /\ Keep

\* The place goes in front of what is already there
_parse_else ==
    /\ Inside /\ Else
    /\ history' = IF history = <<"i0">> THEN <<"i1">> ELSE <<"i0">>
    /\ dl' = IF history = <<"i0">> THEN WithPlace(dl) ELSE dl
    /\ Continue
    /\ UNCHANGED <<symbols, section, sections, errors, files, macros>>
    /\ Keep

\* Without a place, the first two lines of dl are read as one
_parse_endif ==
    /\ Closes("i0")
    /\ history' = <<>> /\ dl' = <<>>
    /\ files' = (IF dl = <<>> THEN <<>> ELSE <<dl>>) \o Reloaded
    /\ pc' = "skip" /\ Unchanged /\ UNCHANGED <<errors, macros>>
    /\ Keep

Headless == dl = <<>> \/ dl[1].is # "label"

_parse_endm ==
    /\ Closes("m")
    /\ history' = <<>> /\ dl' = <<>>
    /\ IF Headless THEN pc' = "undefined" /\ Unchanged /\ UNCHANGED <<errors, macros>>
       ELSE /\ Continue
            /\ Reported(IF dl[1].v \in DOMAIN macros THEN 1 ELSE 0)
            /\ macros' = Put(macros, dl[1].v, Tail(dl))
            /\ UNCHANGED <<symbols, section, sections>>
    /\ UNCHANGED files
    /\ Keep

\* The lists for the operands, each put in front of the earlier: those of .irp
\* are kept from last to first, those of .irpc are taken so
Repeated(list, symbol, operands) ==
    LET inOrder == IF history[1] = "rn" THEN Reverse(operands) ELSE operands
    IN  [i \in 1..Len(inOrder) |-> Substituted(list, symbol, inOrder[i])]

_parse_endr ==
    /\ Closes("rn")
    /\ history' = <<>> /\ dl' = <<>>
    /\ IF Headless THEN pc' = "undefined" /\ UNCHANGED files
       ELSE /\ pc' = "skip"
            /\ files' = Repeated(SubSeq(dl, 3, Len(dl)), dl[1].v, dl[2].v) \o Reloaded
    /\ Unchanged /\ UNCHANGED <<errors, macros>>
    /\ Keep

-----------------------------------------------------------------------------
\* The end of compile(): the macros and what is left of a block are freed, a
\* list by the types its head should have, a number as if it were an address
Freed ==
    /\ \A m \in DOMAIN macros : macros[m][1].is = "operands"
    /\ \A i \in 1..Len(dl) : dl[i].is # "number"
AtEnd == pc = "skip" /\ (files # <<>> => IsNull(Head(files)))

LinesNext ==
    \/ Open \/ ReadLine \/ EndFile \/ BlankLine \/ AssembleLine \/ UnknownLine
    \/ _parse_include \/ _parse_if \/ _parse_macro \/ _parse_macro_sub
    \/ KeepLine \/ _parse_else \/ _parse_endif \/ _parse_endm \/ _parse_endr
=============================================================================
