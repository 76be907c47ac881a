---------------------------- MODULE MCAssembler -----------------------------
(* Sources of one or two fragments before a marked line, pairs of data       *)
(* lines, two units with a script, and expressions.                          *)
EXTENDS Assembler

Num(n) == [kind |-> "num", v |-> n, imm |-> FALSE]
Sum(s) == [kind |-> "sum", v |-> s, imm |-> FALSE]
Wrd(s) == [kind |-> "word", v |-> s, imm |-> FALSE]
Dot(n) == [kind |-> "here", v |-> n, imm |-> FALSE]
Par(p) == [kind |-> "param", v |-> p, imm |-> FALSE]
Str(n) == [kind |-> "str", v |-> n, imm |-> FALSE]
Bad    == [kind |-> "bad", v |-> 0, imm |-> FALSE]
Reg(r) == [kind |-> "reg", v |-> r, imm |-> FALSE]
Imm(w) == [w EXCEPT !.imm = TRUE]
Fix(p, w) == [kind |-> "given", v |-> p, imm |-> FALSE, given |-> w]
Own    == [kind |-> "section", v |-> ".own", imm |-> FALSE]
Txt(ws) == [kind |-> "text", v |-> ws, imm |-> FALSE]

L(op, ws) == [labels |-> <<>>, op |-> op, args |-> ws]
Lab(s) == [labels |-> <<s>>, op |-> "", args |-> <<>>]
Byte(n) == L(".byte", <<Num(n)>>)
If(n) == L(".if", <<Num(n)>>)
EndIf == L(".endif", <<>>)

\* Fragments with blocks, calls, included files and what goes wrong with them
Fragments == <<
    <<Byte(1)>>,
    <<[Lab("x") EXCEPT !.op = ".short", !.args = <<Sum("x")>>]>>,
    <<Lab("y"), L("", <<>>)>>,
    <<L(".equ", <<Wrd("k"), Num(2)>>)>>,
    <<If(1), Byte(2), EndIf>>,
    <<If(0), Byte(3), EndIf, Byte(4)>>,
    <<If(0), Byte(5), Byte(6), EndIf>>,
    <<If(0), EndIf>>,
    <<If(0), Byte(7), Byte(8), Byte(9), EndIf>>,
    <<If(1), If(0), Byte(10), EndIf, Byte(11), If(1), Byte(12), EndIf, EndIf>>,
    <<If(0), Byte(13), L(".else", <<>>), Byte(14), EndIf>>,
    <<If(1), L(".else", <<>>), L(".else", <<>>), Byte(15), EndIf>>,
    <<L(".ifdef", <<Wrd("k")>>), Byte(16), L("f", <<Num(1), Num(2)>>), EndIf>>,
    <<L(".ifndef", <<Wrd("x")>>), Byte(17), L("", <<>>), Byte(18), EndIf>>,
    <<L(".macro", <<Wrd("f"), Wrd("a"), Wrd("b")>>), L(".byte", <<Par("a"), Par("b")>>),
      If(1), L(".short", <<Par("b")>>), EndIf, L(".endm", <<>>)>>,
    <<L(".macro", <<Wrd("f"), Fix("a", Num(9))>>), L(".byte", <<Par("a")>>),
      L("shl", <<Imm(Num(1)), Reg("plain")>>), L(".endm", <<>>)>>,
    <<L("f", <<Num(20), Num(21)>>)>>,
    <<L("f", <<Num(22)>>)>>,
    <<L(".irp", <<Wrd("i"), Num(30), Num(31), Num(32)>>), L(".byte", <<Par("i")>>), L("nop", <<>>), L(".endr", <<>>)>>,
    <<L(".irpc", <<Wrd("i"), Txt(<<Num(3), Num(4)>>)>>), L(".int", <<Par("i"), Par("j")>>), L(".endr", <<>>)>>,
    <<L(".irp", <<Wrd("i"), Num(33)>>), L(".irp", <<Wrd("j"), Num(34), Par("i")>>), L(".byte", <<Par("i"), Par("j")>>),
      L(".endr", <<>>), L(".endr", <<>>)>>,
    <<L(".include", <<Wrd("inc")>>)>>,
    <<L(".include", <<>>), Byte(40), Byte(41)>>,
    <<L(".include", <<Wrd("torn")>>)>>,
    <<L(".macro", <<>>), L("nop", <<>>), L(".endm", <<>>)>>,
    <<If(1), Byte(42)>>,
    <<L(".macro", <<Wrd(".byte")>>), L("nop", <<>>), L(".endm", <<>>), Byte(44)>>,
    <<If(0), L(".iffy", <<>>), Byte(45), L(".endift", <<>>), L(".endift", <<>>), EndIf>>,
    <<L(".ifdef", <<>>), Byte(43), EndIf>>,
    <<L(".err", <<Str(3)>>), L("mov", <<Imm(Sum("x")), Reg("extended")>>)>> >>

Included == <<If(1), Byte(50), EndIf, L(".irp", <<Wrd("i"), Num(51)>>), L(".byte", <<Par("i")>>), L(".endr", <<>>)>>
Source(main) == [main |-> main \o <<L(".long", <<Num(1)>>)>>, inc |-> Included]
Unscripted(main) == [source |-> Source(main), units |-> <<"main">>, script |-> ""]

\* Lines that add to sections and symbols
DataLines == <<
    L(".globl", <<Wrd("x")>>),
    L(".globl", <<Wrd("z")>>),
    Lab("x"),
    [Lab("x") EXCEPT !.op = ".int", !.args = <<Sum("x"), Num(1), Sum("y")>>],
    L(".byte", <<Sum("z"), Bad>>),
    L(".long", <<>>),
    L(".float", <<Num(1), Num(2)>>), L(".double", <<Num(1)>>),
    L(".ascii", <<Str(0), Str(3)>>), L(".asciz", <<Str(0), Str(3)>>),
    L(".skip", <<Num(3)>>), L(".skip", <<Wrd("x")>>),
    L(".fill", <<Num(2), Num(3)>>), L(".fill", <<Num(2), Num(9)>>), L(".fill", <<Num(2)>>),
    L(".align", <<Num(4)>>), L(".align", <<Num(4), Num(0), Num(3)>>),
    L(".org", <<Num(5)>>), L(".org", <<Num(0)>>),
    L("=", <<Wrd("."), Dot(2)>>), L("=", <<Wrd("."), Num(1)>>), L("=", <<Wrd("k"), Num(7)>>),
    L(".equ", <<Wrd("x"), Sum("k")>>), L(".equiv", <<Wrd("k"), Num(1)>>),
    L(".comm", <<Wrd("z"), Num(8)>>), L(".lcomm", <<Wrd("x"), Num(4)>>),
    L(".comm", <<Wrd("."), Num(2)>>),
    L(".section", <<Own>>), L(".section", <<Wrd("own")>>), L(".data", <<>>), L(".text", <<Num(1)>>),
    L(".code16", <<>>), L(".code32", <<>>),
    L("nop", <<>>), L("push", <<Reg("plain")>>), L("push", <<Reg("unknown")>>),
    L("swap", <<Reg("plain"), Reg("pointer")>>), L("swap", <<Reg("pointer"), Reg("pointer")>>),
    L("jmp", <<Imm(Sum("z"))>>), L("jmp", <<Reg("unknown")>>),
    L("mov", <<Imm(Sum("z")), Reg("plain")>>), L("mov", <<Imm(Sum("y")), Reg("extended")>>),
    L("add", <<Reg("extended"), Reg("plain")>>), L("add", <<Reg("unknown"), Reg("extended")>>),
    L("shl", <<Imm(Num(3)), Reg("plain")>>),
    L("int", <<Imm(Sum("y"))>>), L("je", <<Imm(Sum("x"))>>), L("movz", <<Reg("plain"), Reg("plain")>>),
    L("halt", <<>>) >>

\* Two units and the lines of a linker's script
Unit1 == <<L(".byte", <<Sum("u")>>), L(".data", <<>>), L(".short", <<Num(1)>>)>>
Unit2 == <<L(".int", <<Num(1), Num(2)>>), L(".data", <<>>)>>
ScriptLines == <<
    L("file", <<Wrd("a")>>), L("file", <<Wrd("b"), Wrd(".text")>>), L("file", <<Wrd("a"), Wrd(".data")>>),
    L("file", <<Wrd("*")>>), L("file", <<Wrd("*"), Wrd(".data")>>), L("file", <<Wrd("c")>>), L("file", <<>>),
    [Lab("top") EXCEPT !.op = ".align", !.args = <<Num(4)>>],
    L(".byte", <<Sum("top")>>), L("=", <<Wrd("."), Num(9)>>), L("nop", <<>>) >>
Linked(s) == [source |-> [a |-> Unit1, b |-> Unit2, s |-> s], units |-> <<"a", "b">>, script |-> "s"]

Indices(seq) == 1..Len(seq)
\* The first fragment defines something, or nothing follows from it
Firsts == {1, 3, 4, 9, 12, 15, 16, 20, 22, 24, 27, 30}
Setups == {1, 2, 3, 22, 25}
\* <<kind, first, second, third>>, 0 for none
MCProjects == [i \in ({"lines"} \X Firsts \X Indices(Fragments) \X Indices(Fragments))
                 \cup ({"data"} \X Setups \X Indices(DataLines) \X Indices(DataLines))
                 \cup ({"script"} \X Indices(ScriptLines) \X Indices(ScriptLines) \X Indices(ScriptLines))
                 \cup {<<"torn", 0, 0, 0>>, <<"expression", 0, 0, 0>>, <<"text", 0, 0, 0>>} |->
    CASE i[1] = "lines" -> Unscripted(Fragments[i[2]] \o Fragments[i[3]] \o Fragments[i[4]])
      [] i[1] = "data" -> Unscripted(<<DataLines[i[2]], DataLines[i[3]], DataLines[i[4]]>>)
      [] i[1] = "script" -> Linked(<<ScriptLines[i[2]], ScriptLines[i[3]], ScriptLines[i[4]]>>)
      [] i[1] = "torn" -> [source |-> [a |-> Unit1], units |-> <<"a", "b">>, script |-> "s"]
      [] i[1] \in {"expression", "text"} -> [source |-> <<>>, units |-> <<i[1]>>, script |-> ""]]

OnlyExpressions == [i \in {"expression"} |-> [source |-> <<>>, units |-> <<i>>, script |-> ""]]

Threes == {"3"}
Xs == {"x"}
Ks == {"k"}
Values == ("3" :> 3) @@ ("k" :> 5) @@ ("x" :> 2)
MCInputs == UNION {[1..n -> {"a", "b", "n", "q", "e", "#"}] : n \in 0..6}
Chars == {"3", "k", "x", "-", "*", "&", "~", "(", ")"}
=============================================================================
