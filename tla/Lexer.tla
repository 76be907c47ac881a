------------------------------- MODULE Lexer --------------------------------
(***************************************************************************)
(* helper_file_parse: a text is cut into lines of words. A word is the     *)
(* pair of its first and its last position. "b" stands for a blank or a    *)
(* comma, "n" for a line break, "q" for a quote (a bracket is like one     *)
(* that closes with another character), "e" for a backslash and "#" for    *)
(* the character that begins a comment.                                    *)
(***************************************************************************)
EXTENDS Integers, Sequences, FiniteSets

CONSTANT Inputs   \* the texts that are read
ASSUME LexerAssumption == Inputs \subseteq Seq(STRING)

VARIABLES
    text,
    at,         \* what is read next
    r_line,     \* the words of the line in hand
    lines,      \* the lines before it
    lexed       \* "reading", "read" or "torn"

lexerVars == <<text, at, r_line, lines, lexed>>

LexerInit == at = 1 /\ r_line = <<>> /\ lines = <<>> /\ lexed = "reading"

Positions == 1..Len(text)
IsSpace(c) == c \in {"b", "n"}
\* The first of the positions ps behind `at`, or the one behind the text
First(ps) ==
    LET found == {p \in ps : p > at} \cup {Len(text) + 1}
    IN  CHOOSE p \in found : \A r \in found : p <= r
Take(last) == r_line' = Append(r_line, <<at, last>>) /\ at' = last + 1 /\ UNCHANGED <<lines, lexed>>

Blank ==
    /\ IsSpace(text[at])
    /\ at' = at + 1
    /\ IF text[at] = "n" THEN lines' = Append(lines, r_line) /\ r_line' = <<>>
       ELSE UNCHANGED <<lines, r_line>>
    /\ UNCHANGED lexed

\* Mutant: the line break is taken with the comment
Comment_TakesBreak ==
    /\ text[at] = "#"
    /\ at' = First({p \in Positions : text[p] = "n"}) + 1
    /\ UNCHANGED <<r_line, lines, lexed>>

Comment ==
    /\ text[at] = "#"
    /\ at' = First({p \in Positions : text[p] = "n"})
    /\ UNCHANGED <<r_line, lines, lexed>>

\* To a quote without a backslash in front of it; without one, there is no result
Quoted ==
    /\ text[at] = "q"
    /\ LET end == First({p \in Positions \ {1} : text[p] = "q" /\ text[p - 1] # "e"})
       IN  \/ end <= Len(text) /\ Take(end)
           \/ end > Len(text) /\ lexed' = "torn" /\ UNCHANGED <<at, r_line, lines>>

Bare ==
    /\ ~IsSpace(text[at]) /\ text[at] \notin {"#", "q"}
    /\ Take(First({p \in Positions : IsSpace(text[p])}) - 1)

Read_ ==
    /\ lexed = "reading"
    /\ \/ at <= Len(text) /\ (Blank \/ Comment \/ Quoted \/ Bare)
       \/ /\ at > Len(text)
          /\ lexed' = "read"
          /\ lines' = Append(lines, r_line) /\ UNCHANGED <<at, r_line>>
    /\ UNCHANGED text

\* The lexer by itself
LexerSpec == text \in Inputs /\ LexerInit /\ [][Read_]_lexerVars

-----------------------------------------------------------------------------
(* Properties *)

Words == UNION {{lines[k][i] : i \in 1..Len(lines[k])} : k \in 1..Len(lines)}
InWord(p) == \E w \in Words : w[1] <= p /\ p <= w[2]
InComment(p) ==
    \E r \in 1..p : text[r] = "#" /\ ~InWord(r) /\ \A i \in r..p : text[i] # "n"
Breaks(p) == Cardinality({i \in 1..(p - 1) : text[i] = "n" /\ ~InWord(i)})

\* cmpl_internal.c:19-50: each character is in one word, or between words and a
\* blank or in a comment; and the line a word is in is one more than the line
\* breaks in front of it, but for those in quotes.
LexesAll ==
    lexed = "read" =>
        /\ \A p \in Positions :
              /\ Cardinality({w \in Words : w[1] <= p /\ p <= w[2]}) <= 1
              /\ InWord(p) \/ IsSpace(text[p]) \/ InComment(p)
              /\ InWord(p) => ~InComment(p)
        /\ \A k \in 1..Len(lines) : \A i \in 1..Len(lines[k]) :
              /\ Breaks(lines[k][i][1]) = k - 1
              /\ i > 1 => lines[k][i - 1][2] < lines[k][i][1]
        /\ Len(lines) = 1 + Breaks(Len(text) + 1)
=============================================================================
