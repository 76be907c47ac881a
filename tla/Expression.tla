----------------------------- MODULE Expression -----------------------------
(***************************************************************************)
(* helper_expr_parse: an expression is read from left to right, operators  *)
(* wait on a stack until one of lower precedence, a bracket or the end     *)
(* comes. A token is a word or a character. An operand is a text: what it  *)
(* denotes, whether _parse_lit reads a number from it (not from a symbol   *)
(* without an absolute value, nor from a negative number) and whether      *)
(* strtoll does (not from a symbol). The character ^ is not among the      *)
(* tokens: _is_allowed takes it for a part of a word.                      *)
(***************************************************************************)
EXTENDS Integers, Sequences, FiniteSets, SequencesExt, Bitwise

CONSTANTS
    Numeral,     \* words that are numbers
    Absolute,    \* symbols with an absolute value
    Relocated,   \* symbols of sections, or unknown ones
    Denotes,     \* the values of the words, after linking for those in Relocated
    Width,       \* bits of size_t
    MaxTokens,   \* length of an expression (bound)
    MaxBroken    \* length at which a malformed one is not continued (bound)

VARIABLES
    tokens,      \* the characters read
    result,      \* operands, the last one first
    stack,       \* operators and opening brackets, the last one first
    last_val,    \* an operand was read last
    callback,    \* something was deferred
    failed,      \* errors were added
    verdict      \* "reading", "value", "late" or "none"

exprVars == <<tokens, result, stack, last_val, callback, failed, verdict>>

Words == Numeral \cup Absolute \cup Relocated
Unary == {"-", "~", "!", "+"}
Binary == {"+", "-", "*", "/", "&", "<"}
Wrap(n) == n % 2^Width
Negative(n) == n >= 2^(Width - 1)

_parse_prec(op) ==
    CASE op \in {"_", "~", "!"} -> 4
      [] op \in {"*", "/"}      -> 3
      [] op = "<"               -> 2
      [] op = "&"               -> 1
      [] OTHER                  -> 0

\* "_" is the minus sign of one operand
One(op, a) ==
    CASE op = "_" -> Wrap(-a)
      [] op = "~" -> Wrap(-a - 1)
      [] op = "!" -> IF a = 0 THEN 1 ELSE 0
Two(op, a, b) ==
    CASE op = "*" -> Wrap(a * b)
      [] op = "/" -> IF b = 0 THEN 0 ELSE a \div b
      [] op = "<" -> Wrap(a * 2^b)
      [] op = "&" -> a & b
      [] op = "+" -> Wrap(a + b)
      [] op = "-" -> Wrap(a - b)

OperandEnds(t) == t \in Words \cup {")"}
OperandBegins(t) == t \in Words \cup {"(", "-", "~", "!", "+"}
Depth(ts, i) == Cardinality({j \in 1..i : ts[j] = "("}) - Cardinality({j \in 1..i : ts[j] = ")"})

\* An operator with two operands stands at i
Joins(ts, i) == i > 1 /\ ts[i] \in Binary /\ OperandEnds(ts[i - 1])

\* ts is the beginning of an expression in which no group is a left operand:
\* after a group, the code takes every operator for one with one operand
Begins(ts) ==
    /\ \A i \in 1..Len(ts) :
          /\ Depth(ts, i) >= 0
          /\ i > 1 /\ OperandEnds(ts[i - 1]) => ts[i] = ")" \/ (ts[i] \in Binary /\ ts[i - 1] # ")")
          /\ i = 1 \/ ~OperandEnds(ts[i - 1]) => OperandBegins(ts[i])

-----------------------------------------------------------------------------
\* What _parse_op works on
State == [result |-> result, callback |-> callback, failed |-> failed]
Fail(s) == [s EXCEPT !.failed = TRUE]
Push(s, n, rest, known) ==
    [s EXCEPT !.result = <<[denotes |-> n, literal |-> known /\ ~Negative(n),
                            numeral |-> known]>> \o rest,
              !.callback = @ \/ ~known]

\* The operand on top is the first of the two, although it was written second
_parse_op(s, op) ==
    LET a == s.result[1]
        b == s.result[2]
    IN  CASE s.result = <<>> -> Fail(s)
          [] op \in {"_", "~", "!"} /\ s.result # <<>> ->
                Push(s, One(op, a.denotes), Tail(s.result), a.literal)
          [] op \notin {"_", "~", "!"} /\ Len(s.result) = 1 ->
                Fail([s EXCEPT !.result = <<>>, !.callback = @ \/ ~a.literal])
          [] op = "/" /\ Len(s.result) > 1 /\ a.literal /\ b.literal /\ b.denotes = 0 ->
                Fail([s EXCEPT !.result = SubSeq(@, 3, Len(@))])
          [] OTHER ->
                Push(s, Two(op, a.denotes, b.denotes), SubSeq(s.result, 3, Len(s.result)),
                     a.literal /\ b.literal)

\* n operators leave the stack
Applied(n) == FoldLeft(_parse_op, State, SubSeq(stack, 1, n))
Became(s) == result' = s.result /\ callback' = s.callback /\ failed' = s.failed
Dropped(n) == SubSeq(stack, n + 1, Len(stack))

Give(v) == verdict' = v
Give_up == failed' = TRUE /\ Give("none") /\ UNCHANGED <<result, stack, last_val, callback>>

ExprInit ==
    /\ tokens = <<>> /\ result = <<>> /\ stack = <<>> /\ last_val = FALSE
    /\ callback = FALSE /\ failed = FALSE /\ verdict = "reading"

Operand(t) ==
    /\ t \in Words
    /\ result' = <<[denotes |-> Denotes[t], literal |-> t \notin Relocated,
                    numeral |-> t \in Numeral]>> \o result
    /\ last_val' = TRUE
    /\ UNCHANGED <<stack, callback, failed, verdict>>

Opening(t) ==
    /\ t = "("
    /\ stack' = <<t>> \o stack
    /\ last_val' = FALSE
    /\ UNCHANGED <<result, callback, failed, verdict>>

\* The number of operators above the last opening bracket
Above == CHOOSE n \in 0..Len(stack) :
             /\ \A i \in 1..n : stack[i] # "("
             /\ n < Len(stack) => stack[n + 1] = "("

\* The operators back to the bracket are applied; what follows is taken for the
\* beginning of an operand
Closing(t) ==
    /\ t = ")"
    /\ \/ /\ Above < Len(stack)
          /\ Became(Applied(Above))
          /\ stack' = Dropped(Above + 1)
          /\ last_val' = FALSE
          /\ UNCHANGED verdict
       \/ /\ Above = Len(stack)
          /\ Became(Fail(Applied(IF stack = <<>> THEN 0 ELSE Len(stack) - 1)))
          /\ Give("none")
          /\ UNCHANGED <<stack, last_val>>

UnaryOperator(t) ==
    /\ ~last_val
    /\ t \notin Words \cup {"(", ")"}
    /\ \/ /\ t \in Unary
          /\ stack' = CASE t = "+" -> stack [] t = "-" -> <<"_">> \o stack
                        [] OTHER -> <<t>> \o stack
          /\ last_val' = FALSE
          /\ UNCHANGED <<result, callback, failed, verdict>>
       \/ t \notin Unary /\ Give_up

\* Mutant: operators of the same precedence wait
Leaves_OnlyHigher(n, t) ==
    /\ \A i \in 1..n : stack[i] # "(" /\ _parse_prec(stack[i]) > _parse_prec(t)
    /\ n < Len(stack) => stack[n + 1] = "(" \/ _parse_prec(stack[n + 1]) <= _parse_prec(t)

\* The first n operators on the stack are applied before t
Leaves(n, t) ==
    /\ \A i \in 1..n : stack[i] # "(" /\ _parse_prec(stack[i]) >= _parse_prec(t)
    /\ n < Len(stack) => stack[n + 1] = "(" \/ _parse_prec(stack[n + 1]) < _parse_prec(t)

BinaryOperator(t) ==
    /\ last_val
    /\ t \notin Words \cup {"(", ")"}
    /\ \E n \in 0..Len(stack) :
          /\ Leaves(n, t)
          /\ Became(Applied(n))
          /\ stack' = <<t>> \o Dropped(n)
    /\ last_val' = FALSE
    /\ UNCHANGED verdict

\* The value that helper_expr_parse returns for the text that is left
Returned == IF result[1].numeral THEN result[1].denotes ELSE 0

\* The end: size is that of the place for a late value, 0 where none is possible
Finish(size) ==
    LET s == Applied(Above)
        one == Above = Len(stack) /\ Len(s.result) = 1
    IN  /\ stack' = Dropped(Above)
        /\ UNCHANGED last_val
        /\ \/ ~one /\ Became(Fail(s)) /\ Give("none")
           \/ one /\ ~s.callback /\ Became(s) /\ Give("value")
           \/ one /\ s.callback /\ size > 0 /\ Became(s) /\ Give("late")
           \/ one /\ s.callback /\ size = 0 /\ Became(Fail(s)) /\ Give("none")

Read(t) ==
    /\ verdict = "reading"
    /\ Len(tokens) < MaxTokens
    /\ Begins(tokens) \/ Len(tokens) < MaxBroken
    /\ tokens' = Append(tokens, t)
    /\ Operand(t) \/ Opening(t) \/ Closing(t) \/ UnaryOperator(t) \/ BinaryOperator(t)

End == verdict = "reading" /\ (\E size \in {0, 2} : Finish(size)) /\ UNCHANGED tokens
-----------------------------------------------------------------------------
(* What an expression means *)

WellFormed == Begins(tokens) /\ tokens # <<>> /\ OperandEnds(Last(tokens)) /\ Depth(tokens, Len(tokens)) = 0

\* The operator that is applied last: of the lowest precedence, the last of these
Top(ts) ==
    LET joins == {i \in 1..Len(ts) : Joins(ts, i) /\ Depth(ts, i) = 0}
    IN  CHOOSE i \in joins : \A j \in joins :
            \/ _parse_prec(ts[j]) > _parse_prec(ts[i])
            \/ _parse_prec(ts[j]) = _parse_prec(ts[i]) /\ j <= i

\* The value of an expression, each operator with its operands as they are written
\* or reversed; whether it is known and whether all of it is and never negative
RECURSIVE Meaning(_, _)
Meaning(ts, reversed) ==
    IF \E i \in 1..Len(ts) : Joins(ts, i) /\ Depth(ts, i) = 0 THEN
        LET a == Meaning(SubSeq(ts, 1, Top(ts) - 1), reversed)
            b == Meaning(SubSeq(ts, Top(ts) + 1, Len(ts)), reversed)
            n == IF reversed THEN Two(ts[Top(ts)], b.value, a.value)
                             ELSE Two(ts[Top(ts)], a.value, b.value)
        IN  [value |-> n, known |-> a.plain /\ b.plain, plain |-> a.plain /\ b.plain /\ ~Negative(n)]
    ELSE IF Len(ts) = 1 THEN
        [value |-> Denotes[ts[1]], known |-> ts[1] \notin Relocated, plain |-> ts[1] \notin Relocated]
    ELSE IF ts[1] = "(" THEN Meaning(SubSeq(ts, 2, Len(ts) - 1), reversed)
    ELSE IF ts[1] = "+" THEN Meaning(Tail(ts), reversed)
    ELSE LET a == Meaning(Tail(ts), reversed)
             n == One(IF ts[1] = "-" THEN "_" ELSE ts[1], a.value)
         IN  [value |-> n, known |-> a.plain, plain |-> a.plain /\ ~Negative(n)]

-----------------------------------------------------------------------------
(* Properties *)

Operators == {i \in DOMAIN tokens : Joins(tokens, i) \/ tokens[i] \in {"-", "~", "!"}}

\* A symbol and nothing that computes with it
LoneSymbol == Operators = {} /\ Range(tokens) \cap Numeral = {}

\* cmpl_internal.c:172: where the operators wait and for how long, what an
\* expression comes to is what its brackets and the precedence of its operators
\* say, operators of the same precedence from left to right, each with its operands
\* in one order or each in the other.  A well-formed expression is never refused,
\* and it is deferred exactly if a part of it has no value yet or is negative.
\* (The order, and symbols by themselves: ValueAsWritten.)
Grouping ==
    verdict # "reading" /\ WellFormed /\ "/" \notin Range(tokens) /\ ~LoneSymbol =>
        \E reversed \in BOOLEAN :
            LET m == Meaning(tokens, reversed)
            IN  /\ Len(result) = 1 /\ result[1].denotes = m.value
                /\ (verdict = "value") = m.known
                /\ failed => ~m.known
                /\ verdict = "value" => Returned = m.value

\* cmpl_internal.c:238 "all symbols must be absolute", and test/asm/main.s:7 and :13,
\* where `.equ abs, 0x20' is used as `$abs': an expression that is neither refused nor
\* deferred is one of numbers and absolute symbols and has the value they give it.
ValueAsWritten ==
    verdict = "value" /\ WellFormed /\ "/" \notin Range(tokens) =>
        LET m == Meaning(tokens, FALSE) IN m.known /\ Returned = m.value
=============================================================================
