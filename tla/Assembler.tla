----------------------------- MODULE Assembler ------------------------------
(***************************************************************************)
(* The assembler: the compiler and the linker on one of some sources, or   *)
(* an expression by itself. What the source means is stated by Expansion,  *)
(* which replaces text by text from the front, without files, places and   *)
(* lists.                                                                  *)
(***************************************************************************)
EXTENDS Linker, Lexer

CONSTANTS
    Numeral, Absolute, Relocated, Denotes, Width, MaxTokens, MaxBroken,   \* Expression
    Characters     \* the words and characters of expressions

VARIABLES tokens, result, stack, last_val, callback, failed, verdict      \* Expression

E == INSTANCE Expression

expressionVars == <<tokens, result, stack, last_val, callback, failed, verdict>>
assemblerVars == <<linkerVars, expressionVars, lexerVars>>

Init ==
    /\ LinkerInit
    /\ E!ExprInit
    /\ text \in (IF unit = "text" THEN Inputs ELSE {<<>>}) /\ LexerInit

\* An expression or a text by itself
Reads ==
    /\ unit = "expression"
    /\ (\E t \in Characters : E!Read(t)) \/ E!End
    /\ UNCHANGED <<linkerVars, lexerVars>>

Lexes ==
    /\ unit = "text" /\ Read_
    /\ UNCHANGED <<linkerVars, expressionVars>>

Assembles ==
    /\ source # <<>> /\ LinkerNext
    /\ UNCHANGED <<expressionVars, lexerVars>>

Stopped ==
    /\ pc \in Final \/ verdict # "reading" \/ lexed # "reading"
    /\ UNCHANGED assemblerVars

Next == Reads \/ Lexes \/ Assembles \/ Stopped

Spec == Init /\ [][Next]_assemblerVars

-----------------------------------------------------------------------------
(* What the source means *)

Irregular == <<"", 0, NoLine>>
Lines(f) == [i \in 1..Len(source[f]) |-> <<f, i, source[f][i]>>]
Op(l) == l[3].op
Ws(l) == l[3].args
Substitute(q, what, with) ==
    [i \in 1..Len(q) |-> <<q[i][1], q[i][2], Substituted(<<Entry(q[i][3])>>, what, with)[1].v>>]

\* The end of the block that q begins with; Len(q) + 1 if there is none
EndOf(q) ==
    LET kind == Opens(Op(q[1]))
        Level(j) == Cardinality({i \in 1..j : Opens(Op(q[i])) = kind})
                    - Cardinality({i \in 1..j : Ends(Op(q[i])) = kind})
        ends == {j \in 1..Len(q) : Level(j) = 0}
    IN  CHOOSE j \in ends \cup {Len(q) + 1} : \A i \in ends : j <= i
Body(q) == SubSeq(q, 2, EndOf(q) - 1)
After(q) == SubSeq(q, EndOf(q) + 1, Len(q))

\* A block as the code treats it rightly: closed, without .else, without words that
\* only begin like its last one, and without lines that only have labels, which it drops
Sound(q) ==
    /\ EndOf(q) <= Len(q)
    /\ \A i \in 1..Len(Body(q)) :
          /\ Op(Body(q)[i]) # ".else" /\ EndsInner(Op(Body(q)[i])) = Ends(Op(Body(q)[i]))
          /\ Op(Body(q)[i]) = "" => Body(q)[i][3].labels = <<>>
Kept(q) == Len(SelectSeq(Body(q), LAMBDA l : Op(l) # ""))
Decided(l) == Len(Ws(l)) = 1 /\ (Op(l) = ".if" => Ws(l)[1].kind = "num")
IsTrue(l, names) ==
    CASE Op(l) = ".if"     -> Ws(l)[1].v # 0
      [] Op(l) = ".ifdef"  -> Ws(l)[1].v \in names
      [] Op(l) = ".ifndef" -> Ws(l)[1].v \notin names
Enough(ws, operands) == \A i \in 1..Len(operands) : Given(operands[i]) \/ i <= Len(ws)
Defines(l) ==
    Range(l[3].labels) \cup
    (IF Op(l) \in {"=", ".equ", ".equiv", ".comm", ".lcomm", ".globl"} /\ Ws(l) # <<>>
        /\ (Op(l) = ".globl" \/ Len(Ws(l)) = 2)
     THEN {Ws(l)[1].v} ELSE {})

\* The lines that the text q assembles, with the macros ms and the names defined;
\* it ends at the first construct that the code does not treat rightly
RECURSIVE Expand(_, _, _)
Expand(q, ms, names) ==
    IF q = <<>> THEN <<>>
    ELSE
    LET l == Head(q)
        named == names \cup Range(l[3].labels)
        ws == Ws(l)
    IN
    CASE Op(l) = "" -> Expand(Tail(q), ms, named)
      [] Op(l) = ".include" ->
            IF Len(ws) # 1 \/ ws[1].v \notin DOMAIN source THEN <<Irregular>>
            ELSE Expand(Lines(ws[1].v) \o Tail(q), ms, named)
      [] Op(l) \in {".if", ".ifdef", ".ifndef"} ->
            IF ~Sound(q) \/ ~Decided(l) THEN <<Irregular>>
            ELSE IF IsTrue(l, named) THEN Expand(Body(q) \o After(q), ms, named)
            ELSE IF Kept(q) <= 2 THEN Expand(After(q), ms, named)
            ELSE <<Irregular>>
      [] Op(l) = ".macro" ->
            IF ~Sound(q) \/ ws = <<>> THEN <<Irregular>>
            ELSE Expand(After(q), (ws[1].v :> [operands |-> Tail(ws), body |-> Body(q)]) @@ ms, named)
      [] Op(l) \in {".irp", ".irpc"} ->
            IF ~Sound(q) \/ ws = <<>> \/ (Op(l) = ".irpc" /\ Len(ws) # 2) THEN <<Irregular>>
            ELSE LET operands == IF Op(l) = ".irp" THEN Tail(ws) ELSE ws[2].v
                 IN  Expand(FlattenSeq([i \in 1..Len(operands) |->
                                Substitute(Body(q), ws[1].v, operands[i])]) \o After(q), ms, named)
      [] Op(l) \in DOMAIN ms /\ Op(l) # "=" /\ ~StartsWith(Op(l), ".") ->
            LET operands == ms[Op(l)].operands
                Actual(i) == IF Given(operands[i]) THEN operands[i].given ELSE ws[i]
            IN  IF ~Enough(ws, operands) THEN <<Irregular>>
                ELSE Expand(FoldLeft(LAMBDA b, i : Substitute(b, operands[i].v, Actual(i)),
                                     ms[Op(l)].body, [i \in 1..Len(operands) |-> i]) \o Tail(q),
                            ms, named)
      [] Op(l) \in {"="} \cup Directives \cup CompilerDirectives \cup Instructions ->
            <<l>> \o Expand(Tail(q), ms, named \cup Defines(l))
      [] OTHER -> Expand(Tail(q), ms, named)

Expansion == Expand(Lines(unit), <<>>, {})
Regular(e) == \A i \in 1..Len(e) : e[i] # Irregular
\* How far the assembled lines are compared with the expansion
Sure(e) == {i \in 1..Len(e) : i <= Len(assembled) /\ e[i] # Irregular}
SameLine(a, b) ==
    /\ a.op = b.op /\ Len(a.args) = Len(b.args)
    /\ \A i \in 1..Len(a.args) : a.args[i].kind = b.args[i].kind /\ a.args[i].v = b.args[i].v
NoBlankInBlock ==
    \A f \in DOMAIN source : \A i, j, k \in 1..Len(source[f]) :
        i < j /\ j < k => Opens(source[f][i].op) = "-" \/ source[f][j].op # "" \/ Ends(source[f][k].op) = "-"
Compiled == pc \in Final /\ source # <<>> /\ script = "" /\ unit \in DOMAIN source

-----------------------------------------------------------------------------
(* Properties *)

\* What an expression comes to is what its brackets and operators say (Expression).
Grouping == E!Grouping

\* An expression that has a value at once has the value written (Expression).
ValueAsWritten == E!ValueAsWritten

\* compile.c:90-305: reading blocks, macros, repeats and files through lists that
\* are pushed in front of each other assembles the lines of the text with every
\* construct replaced, in their order, none lost and none twice; and it comes to
\* its end, unless a symbol without a section is used.
Expands ==
    Compiled => LET e == Expansion IN
        /\ \A i \in Sure(e) : SameLine(e[i][3], assembled[i][3])
        /\ Regular(e) => /\ pc # "undefined"
                         /\ Len(assembled) <= Len(e)
                         /\ pc = "done" => Len(assembled) = Len(e)

\* cmpl_control.c:71-79: an assembled line is reported at the file and the line
\* where it was written, behind any construct and within it.
Located ==
    Compiled /\ NoBlankInBlock => LET e == Expansion IN
        \A i \in Sure(e) : e[i][1] = assembled[i][1] /\ e[i][2] = assembled[i][2]
=============================================================================
