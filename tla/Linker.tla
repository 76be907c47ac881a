------------------------------- MODULE Linker -------------------------------
(***************************************************************************)
(* compile() of each unit in turn, and link() of the results: a script     *)
(* with data lines and lines `file`, which take sections of the units to   *)
(* the address that the linker has reached. The order of a unit's sections *)
(* is that of the buckets of a map: any order.                             *)
(***************************************************************************)
EXTENDS SourceLines, FiniteSets

CONSTANT Projects    \* a function to records [source, units, script]: what is assembled

\* The operands that the sources have: with the kinds that their directives are about.
\* The name of a section begins with a dot
Plain == [kind : {"num", "here", "str", "bad"}, v : Nat, imm : BOOLEAN]
         \cup [kind : {"word", "sum", "reg", "param"}, v : STRING, imm : BOOLEAN]
         \cup [kind : {"section"}, v : STRING \ {"absolute", NoSection}, imm : BOOLEAN]
Text_ == [kind : {"text"}, v : Seq(Plain), imm : BOOLEAN]
Word == Plain \cup Text_ \cup [kind : {"given"}, v : STRING, imm : BOOLEAN, given : Plain]
Line == {l \in [labels : Seq(STRING), op : STRING, args : Seq(Word)] :
            /\ l.op = "=" => Len(l.args) = 2
            /\ l.op = ".irpc" /\ Len(l.args) = 2 => l.args[2] \in Text_
            /\ l.op \in {".ascii", ".asciz"} => \A i \in 1..Len(l.args) : l.args[i].kind = "str"}

ASSUME ProjectAssumption ==
    \A i \in DOMAIN Projects :
        /\ \A f \in DOMAIN Projects[i].source : f \in STRING /\ Projects[i].source[f] \in Seq(Line)
        /\ Projects[i].units \in Seq(STRING) /\ Projects[i].units # <<>>
        /\ Projects[i].script \in STRING

VARIABLES
    unit, todo,   \* the unit that is compiled, and those after it
    script,       \* the linker's script, or "" if nothing is linked
    compiled,     \* [units -> [section names -> [size, data]]]
    linked        \* where the sections are: one map for each key. A key that is a
                  \* word of a line is freed with the line: not alive

linkerVars == <<sourceVars, unit, todo, script, compiled, linked>>

\* The result of compile(): the size of a section is its address
Result == [s \in DOMAIN sections |-> [size |-> sections[s].address, data |-> TRUE]]

EndUnit ==
    /\ AtEnd /\ Freed
    /\ compiled' = Put(compiled, unit, Result)
    /\ \/ /\ todo # <<>>
          /\ NewUnit(Head(todo)) /\ unit' = Head(todo) /\ todo' = Tail(todo)
       \/ /\ todo = <<>> /\ script # "" /\ script \in DOMAIN source
          /\ pc' = "line" /\ linking' = TRUE
          /\ files' = <<SubSeq(helper_file_parse(script), 3, Len(source[script]) + 2)>>
          /\ file' = script /\ f_line' = 0
          /\ symbols' = <<>>
          /\ section' = ".linker" /\ sections' = [s \in {".linker"} |-> NewSection(0)]
          /\ history' = <<>> /\ dl' = <<>> /\ macros' = <<>>
          /\ UNCHANGED <<args, unit, todo>>
       \/ /\ todo = <<>> /\ (script = "" \/ script \notin DOMAIN source)
          /\ pc' = IF script = "" THEN "done" ELSE "crashed"
          /\ UNCHANGED <<file, f_line, symbols, section, sections, blockVars, linking, unit, todo>>
    /\ UNCHANGED <<errors, source, assembled, script, linked>>

BadFree ==
    /\ AtEnd /\ ~Freed
    /\ pc' = "undefined"
    /\ UNCHANGED <<file, f_line, symbols, section, sections, errors, blockVars, source, linking,
                   assembled, unit, todo, script, compiled, linked>>

-----------------------------------------------------------------------------
InScript == pc = "word" /\ linking /\ args.op # ""
Elsewhere == UNCHANGED <<blockVars, source, linking, assembled, unit, todo, script>>

ScriptLine ==
    /\ InScript
    /\ \/ args.op = "=" /\ Assigns(args.args[1].v, args.args[2])
       \/ args.op \in Directives /\ Directive(args.op, args.args)
       \/ args.op \notin Directives \cup {"=", "file"} /\ Abort
    /\ UNCHANGED <<compiled, linked>> /\ Elsewhere

\* What a line `file` asks for, and what of it is not in place yet
Asked ==
    LET units == IF args.args[1].v = "*" THEN DOMAIN compiled ELSE {args.args[1].v} \cap DOMAIN compiled
        Names(u) == IF Len(args.args) = 1 THEN DOMAIN compiled[u]
                    ELSE {args.args[2].v} \cap DOMAIN compiled[u]
    IN  UNION {{<<u, s>> : s \in Names(u)} : u \in units}
Unplaced == {p \in Asked : compiled[p[1]][p[2]].data}

Refused ==
    Between(args.args, 1, 2) =>
        args.args[1].v # "*" /\ (Asked = {} \/ (Len(args.args) = 2 /\ Unplaced = {}))

\* The orders of the maps: the sections of one unit after another
Orders(pairs) ==
    {o \in SetToSeqs(pairs) : \A i, j, k \in 1..Len(o) :
        i < j /\ j < k /\ o[i][1] = o[k][1] => o[j][1] = o[i][1]}

Size(p) == compiled[p[1]][p[2]].size

\* Mutant: the address behind the section
helper_section_link_Behind(st, p) ==
    [sec |-> [st.sec EXCEPT !.address = @ + Size(p),
                            !.parts = Append(@, [size |-> Size(p), of |-> p])],
     at  |-> Put(st.at, p, st.sec.address + Size(p))]

helper_section_link(st, p) ==
    [sec |-> [st.sec EXCEPT !.address = @ + Size(p),
                            !.parts = Append(@, [size |-> Size(p), of |-> p])],
     at  |-> Put(st.at, p, st.sec.address)]

Link(sec, order) ==
    LET st[i \in 0..Len(order)] == IF i = 0 THEN [sec |-> sec, at |-> <<>>]
                                   ELSE helper_section_link(st[i - 1], order[i])
    IN  st[Len(order)]

\* A key that is not alive may still read as it did, or not
Matches(u) == {i \in 1..Len(linked) : linked[i].file = u}
Found(u, i) ==
    \/ i \in Matches(u)
    \/ i = 0 /\ \A k \in Matches(u) : ~linked[k].alive

\* The addresses at which the sections of one unit were placed
Its(u, at) == [s \in {p[2] : p \in {q \in Unplaced : q[1] = u}} |-> at[<<u, s>>]]
\* hm_put of all of g
AllPut(f, g) == [x \in DOMAIN f \cup DOMAIN g |-> IF x \in DOMAIN g THEN g[x] ELSE f[x]]

\* The sections are recorded in the maps that are found for their units, 0 is a new one
Recorded(at, map, alive) ==
    LET new == SetToSeq({u \in DOMAIN map : map[u] = 0})
    IN  [i \in 1..Len(linked) |->
            IF linked[i].file \in DOMAIN map /\ map[linked[i].file] = i
            THEN [linked[i] EXCEPT !.at = AllPut(@, Its(linked[i].file, at))]
            ELSE linked[i]]
        \o [i \in 1..Len(new) |-> [file |-> new[i], alive |-> alive, at |-> Its(new[i], at)]]

FileLine ==
    /\ InScript /\ args.op = "file"
    /\ \/ Refused /\ ERR /\ UNCHANGED <<compiled, linked>>
       \/ /\ ~Refused
          /\ \E order \in Orders(Unplaced), map \in [{p[1] : p \in Unplaced} -> 0..Len(linked)] :
                LET st == Link(sections[section], order)
                IN  /\ \A u \in DOMAIN map : Found(u, map[u])
                    /\ linked' = Recorded(st.at, map, args.args[1].v = "*")
                    /\ sections' = [sections EXCEPT ![section] = st.sec]
          /\ compiled' = [u \in DOMAIN compiled |-> [s \in DOMAIN compiled[u] |->
                 IF <<u, s>> \in Unplaced THEN [compiled[u][s] EXCEPT !.data = FALSE]
                 ELSE compiled[u][s]]]
          /\ Continue
          /\ UNCHANGED <<symbols, section, errors>>
    /\ Elsewhere

EndScript ==
    /\ pc = "line" /\ linking /\ Head(files) = <<>>
    /\ pc' = "done"
    /\ UNCHANGED <<file, f_line, symbols, section, sections, errors, compiled, linked>> /\ Elsewhere

LinkerNext ==
    \/ LinesNext /\ UNCHANGED <<unit, todo, script, compiled, linked>>
    \/ EndUnit \/ BadFree \/ ScriptLine \/ FileLine \/ EndScript

LinkerInit ==
    /\ \E i \in DOMAIN Projects :
          /\ source = Projects[i].source /\ script = Projects[i].script
          /\ unit = Head(Projects[i].units) /\ todo = Tail(Projects[i].units)
    /\ files = <<helper_file_parse(unit)>>
    /\ pc = "skip" /\ linking = FALSE
    /\ file = "" /\ f_line = 0
    /\ symbols = <<>> /\ section = ".text" /\ sections = [s \in {".text"} |-> NewSection(1)]
    /\ errors = <<>> /\ args = NoLine /\ history = <<>> /\ dl = <<>> /\ macros = <<>>
    /\ assembled = <<>> /\ compiled = <<>> /\ linked = <<>>

LinkerSpec == LinkerInit /\ [][LinkerNext]_linkerVars

-----------------------------------------------------------------------------
(* Properties *)

\* A part of a section has a size, also what "." leaves out; a symbol of a section
\* names one that is there; no line is kept outside of a block.
TypeOK ==
    /\ pc \in {"skip", "line", "word"} \cup Final
    /\ section \in DOMAIN sections
    /\ \A s \in DOMAIN sections :
          /\ sections[s].address \in Nat /\ sections[s].bitness \in {0, 1}
          /\ \A i \in 1..Len(sections[s].parts) : sections[s].parts[i].size \in Nat
    /\ \A n \in DOMAIN symbols :
          symbols[n].section \in DOMAIN sections \cup {"absolute", NoSection}
    /\ history = <<>> => dl = <<>>

\* Where the k-th part of a section begins in the result
Begin(s, k) == Total([i \in 1..(k - 1) |-> sections[s].parts[i].size])
Extent(s) == Begin(s, Len(sections[s].parts) + 1)

\* compile.c:326-335: the parts fit into the buffer, which is as large as the
\* section's address.
FitsBuffer == \A s \in DOMAIN sections : Extent(s) <= sections[s].address

\* cmpl_data.c: as long as every line added what it advanced by, and none was
\* refused, a label stands between two parts and a request to the linker lies
\* within one: no address was taken too early or too late.
InPlace ==
    \A s \in DOMAIN sections : Extent(s) = sections[s].address /\ errors = <<>> =>
        /\ \A n \in DOMAIN symbols : symbols[n].section = s =>
              \E k \in 1..(Len(sections[s].parts) + 1) : symbols[n].value = Begin(s, k)
        /\ \A i \in 1..Len(sections[s].expr) : LET r == sections[s].expr[i] IN
              \E k \in 1..Len(sections[s].parts) :
                 /\ Begin(s, k) <= r.address + r.offset
                 /\ r.address + r.offset + r.size <= Begin(s, k + 1)

\* cmpl_data.c:17-24, :40-45: whatever comes first, .globl or what defines the
\* symbol, it stays known and global, and .globl leaves its value alone.
KeepsGlobal == [][todo' = todo /\ linking' = linking =>
    \A n \in DOMAIN symbols :
        /\ n \in DOMAIN symbols'
        /\ symbols[n].global => symbols'[n].global
        /\ symbols'[n].global /\ ~symbols[n].global /\ args.op = ".globl" =>
              symbols'[n].value = symbols[n].value /\ symbols'[n].section = symbols[n].section]_linkerVars

\* compile.c:3-11, :20-67: a section is placed once, by whichever line asks first,
\* it is recorded under its unit, and at the recorded address stand its bytes and
\* not those of another.
Placed ==
    linking =>
        LET parts == sections[".linker"].parts
            theirs == {k \in 1..Len(parts) : parts[k].of # <<>>}
        IN  /\ \A k, m \in theirs : parts[k].of = parts[m].of => k = m
            /\ \A k \in theirs : \E i \in 1..Len(linked) :
                  /\ linked[i].file = parts[k].of[1]
                  /\ parts[k].of[2] \in DOMAIN linked[i].at
                  /\ linked[i].at[parts[k].of[2]] = Begin(".linker", k)
            /\ Cardinality(theirs) = Total([i \in 1..Len(linked) |-> Cardinality(DOMAIN linked[i].at)])
=============================================================================
