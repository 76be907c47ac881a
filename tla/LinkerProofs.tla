---------------------------- MODULE LinkerProofs ----------------------------
(* What the data and instruction lines, the files and the script leave in the  *)
(* sections and the symbols, for all sources.                                  *)
EXTENDS Linker, FiniteSetTheorems, SequenceTheorems, TLAPS

-----------------------------------------------------------------------------
(* Sums of sizes *)

\* The sums of the first sizes, one after another
IsSum(f, n, sizes) ==
    f = [i \in 0..n |-> IF i = 0 THEN 0 ELSE f[i - 1] + sizes[i]]

(* Least elements, in the place of induction on the length of a sequence *)
LEMMA LeastOf ==
    ASSUME NEW S \in SUBSET Nat, S # {}
    PROVE  \E n \in S : \A m \in S : ~(m < n)
<1> DEFINE R == {p \in Nat \X Nat : p[1] < p[2]}
<1>1. IsWellFoundedOn(R, Nat)
  BY NatLessThanWellFounded DEF OpToRel
<1> HIDE DEF R
<1>2. PICK n \in S : \A m \in S : ~(<<m, n>> \in R)
  BY <1>1, WFMin
<1> QED
  BY <1>2 DEF R

\* There is such a function, and its values are numbers
LEMMA SumExists ==
    ASSUME NEW n \in Nat, NEW sizes, \A i \in 1..n : sizes[i] \in Nat
    PROVE  \E f \in [0..n -> Nat] : IsSum(f, n, sizes)
<1> DEFINE Missing == {m \in 0..n : ~\E f \in [0..m -> Nat] : IsSum(f, m, sizes)}
<1>1. ASSUME Missing # {}
      PROVE  FALSE
  <2>1. PICK m \in Missing : \A k \in Missing : ~(k < m)
    <3>1. Missing \in SUBSET Nat
      OBVIOUS
    <3> HIDE DEF Missing
    <3> QED
      BY <1>1, <3>1, LeastOf
  <2>2. m # 0
    <3>1. [i \in 0..0 |-> 0] \in [0..0 -> Nat] /\ IsSum([i \in 0..0 |-> 0], 0, sizes)
      BY DEF IsSum
    <3> QED
      BY <3>1
  <2>3. m - 1 \in 0..n /\ m \in 1..n
    BY <2>2
  <2>4. PICK f \in [0..(m - 1) -> Nat] : IsSum(f, m - 1, sizes)
    <3>1. m - 1 \notin Missing
      <4> HIDE DEF Missing
      <4> QED
        BY <2>1, <2>3
    <3> QED
      BY <2>3, <3>1
  <2> DEFINE g == [i \in 0..m |-> IF i = m THEN f[m - 1] + sizes[m] ELSE f[i]]
  <2>5. g \in [0..m -> Nat]
    BY <2>2, <2>3, <2>4
  <2>6. \A i \in 0..m : g[i] = IF i = 0 THEN 0 ELSE g[i - 1] + sizes[i]
    <3> SUFFICES ASSUME NEW i \in 0..m
                 PROVE  g[i] = IF i = 0 THEN 0 ELSE g[i - 1] + sizes[i]
      OBVIOUS
    <3>1. i # m => i \in 0..(m - 1) /\ f[i] = IF i = 0 THEN 0 ELSE f[i - 1] + sizes[i]
      BY <2>3, <2>4 DEF IsSum
    <3>2. i # 0 => i - 1 \in 0..m /\ i - 1 # m
      BY <2>3
    <3> QED
      BY <2>2, <2>3, <3>1, <3>2
  <2>7. IsSum(g, m, sizes)
    BY <2>5, <2>6 DEF IsSum
  <2> QED
    BY <2>1, <2>5, <2>7
<1>2. n \in 0..n
  OBVIOUS
<1> QED
  BY <1>1, <1>2

\* and no other
LEMMA SumUnique ==
    ASSUME NEW n \in Nat, NEW sizes, NEW f, IsSum(f, n, sizes), NEW g, IsSum(g, n, sizes)
    PROVE  f = g
<1> DEFINE D == {i \in 0..n : f[i] # g[i]}
<1>1. ASSUME D # {}
      PROVE  FALSE
  <2>1. PICK i \in D : \A j \in D : ~(j < i)
    <3>1. D \in SUBSET Nat
      OBVIOUS
    <3> HIDE DEF D
    <3> QED
      BY <1>1, <3>1, LeastOf
  <2>2. f[i] = IF i = 0 THEN 0 ELSE f[i - 1] + sizes[i]
    BY <2>1 DEF IsSum
  <2>3. g[i] = IF i = 0 THEN 0 ELSE g[i - 1] + sizes[i]
    BY <2>1 DEF IsSum
  <2>4. i # 0 => f[i - 1] = g[i - 1]
    BY <2>1
  <2> QED
    BY <2>1, <2>2, <2>3, <2>4
<1>2. f = [i \in 0..n |-> f[i]] /\ g = [i \in 0..n |-> g[i]] /\ \A i \in 0..n : f[i] = g[i]
  BY <1>1 DEF IsSum
<1> QED
  BY <1>2

\* So it is what Total means
LEMMA TotalIs ==
    ASSUME NEW sizes, Len(sizes) \in Nat, NEW f, IsSum(f, Len(sizes), sizes)
    PROVE  Total(sizes) = f[Len(sizes)]
<1>1. Total(sizes) = (CHOOSE g : IsSum(g, Len(sizes), sizes))[Len(sizes)]
  BY DEF Total, IsSum
<1>2. (CHOOSE g : IsSum(g, Len(sizes), sizes)) = f
  BY SumUnique
<1> QED
  BY <1>1, <1>2

LEMMA TotalNat ==
    ASSUME NEW sizes \in Seq(Nat)
    PROVE  Total(sizes) \in Nat
<1>1. Len(sizes) \in Nat /\ \A i \in 1..Len(sizes) : sizes[i] \in Nat
  OBVIOUS
<1>2. PICK f \in [0..Len(sizes) -> Nat] : IsSum(f, Len(sizes), sizes)
  BY <1>1, SumExists
<1> QED
  BY <1>1, <1>2, TotalIs

LEMMA TotalEmpty ==
    ASSUME NEW sizes \in Seq(Nat), Len(sizes) = 0
    PROVE  Total(sizes) = 0
<1>1. 0 \in Nat /\ \A i \in 1..0 : sizes[i] \in Nat
  OBVIOUS
<1>2. PICK f \in [0..0 -> Nat] : IsSum(f, 0, sizes)
  BY <1>1, SumExists
<1> QED
  BY <1>2, TotalIs DEF IsSum

LEMMA TotalAppend ==
    ASSUME NEW sizes \in Seq(Nat), NEW longer \in Seq(Nat),
           Len(longer) = Len(sizes) + 1,
           \A i \in 1..Len(sizes) : longer[i] = sizes[i]
    PROVE  Total(longer) = Total(sizes) + longer[Len(longer)]
<1> DEFINE n == Len(sizes)
<1>1. n \in Nat /\ n + 1 \in Nat /\ \A i \in 1..(n + 1) : longer[i] \in Nat
  OBVIOUS
<1>2. PICK f \in [0..(n + 1) -> Nat] : IsSum(f, n + 1, longer)
  BY <1>1, SumExists
<1>a. \A i \in 0..(n + 1) : f[i] = IF i = 0 THEN 0 ELSE f[i - 1] + longer[i]
  BY <1>2 DEF IsSum
<1> DEFINE g == [i \in 0..n |-> f[i]]
<1>3. IsSum(g, n, sizes)
  <2>1. \A i \in 0..n : g[i] = IF i = 0 THEN 0 ELSE g[i - 1] + sizes[i]
    <3> SUFFICES ASSUME NEW i \in 0..n
                 PROVE  g[i] = IF i = 0 THEN 0 ELSE g[i - 1] + sizes[i]
      OBVIOUS
    <3>1. f[i] = IF i = 0 THEN 0 ELSE f[i - 1] + longer[i]
      BY <1>1, <1>a
    <3>2. i # 0 => i - 1 \in 0..n /\ i \in 1..n
      BY <1>1
    <3> QED
      BY <3>1, <3>2
  <2> QED
    BY <2>1 DEF IsSum
<1>4. Total(sizes) = f[n] /\ Total(longer) = f[n + 1]
  BY <1>1, <1>2, <1>3, TotalIs
<1>5. f[n + 1] = f[n] + longer[n + 1]
  BY <1>1, <1>a
<1> QED
  BY <1>4, <1>5

-----------------------------------------------------------------------------
(* Sections and symbols *)

\* All names; that a literal is a string must be said to the provers
Names == STRING \cup {".text", ".data", ".bss", ".linker", "", NoName}

PartType == [size : Nat, of : {<<>>} \cup (Names \X Names)]
Sizes(parts) == [i \in 1..Len(parts) |-> parts[i].size]

\* A section whose parts fit into its address
SectionOK(s) ==
    /\ s = [address |-> s.address, parts |-> s.parts, expr |-> s.expr, bitness |-> s.bitness]
    /\ s.address \in Nat /\ s.bitness \in {0, 1}
    /\ s.parts \in Seq(PartType)
    /\ Total(Sizes(s.parts)) <= s.address

\* A symbol of one of the sections named
SymbolOK(y, names) ==
    /\ y = [section |-> y.section, value |-> y.value, global |-> y.global]
    /\ y.section \in names \cup {"absolute", NoSection}
    /\ y.value \in Nat /\ y.global \in BOOLEAN

SectionsOK(secs) ==
    /\ IsFiniteSet(DOMAIN secs) /\ DOMAIN secs \subseteq Names
    /\ \A s \in DOMAIN secs : SectionOK(secs[s])
SymbolsOK(syms, names) == \A n \in DOMAIN syms : SymbolOK(syms[n], names)

DataInv ==
    /\ section \in DOMAIN sections
    /\ SectionsOK(sections)
    /\ SymbolsOK(symbols, DOMAIN sections)

LEMMA SizesOf ==
    ASSUME NEW parts \in Seq(PartType)
    PROVE  Sizes(parts) \in Seq(Nat) /\ Len(Sizes(parts)) = Len(parts)
<1>1. Len(parts) \in Nat /\ \A i \in 1..Len(parts) : parts[i] \in PartType
  OBVIOUS
<1>2. \A part \in PartType : part.size \in Nat
  BY DEF PartType
<1> QED
  BY <1>1, <1>2 DEF Sizes

LEMMA PartAdded ==
    ASSUME NEW s, SectionOK(s), NEW part \in PartType, NEW advance \in Nat,
           part.size <= advance, NEW expr
    PROVE  SectionOK([s EXCEPT !.address = @ + advance, !.parts = Append(@, part), !.expr = expr])
<1> DEFINE n == [s EXCEPT !.address = @ + advance, !.parts = Append(@, part), !.expr = expr]
<1>1. /\ s.address \in Nat /\ s.parts \in Seq(PartType)
      /\ Total(Sizes(s.parts)) <= s.address
  BY DEF SectionOK
<1>2. n = [address |-> s.address + advance, parts |-> Append(s.parts, part), expr |-> expr,
           bitness |-> s.bitness]
  <2>1. PICK a, p, e, b : s = [address |-> a, parts |-> p, expr |-> e, bitness |-> b]
    BY DEF SectionOK
  <2>2. s.address = a /\ s.parts = p /\ s.bitness = b
    BY <2>1
  <2>3. PICK q : q = Append(s.parts, part)
    OBVIOUS
  <2>4. PICK s1 : s1 = [s EXCEPT !.address = s.address + advance]
    OBVIOUS
  <2>5. s1 = [address |-> s.address + advance, parts |-> p, expr |-> e, bitness |-> b]
    BY <2>1, <2>4
  <2>6. PICK s2 : s2 = [s1 EXCEPT !.parts = q]
    OBVIOUS
  <2>7. s2 = [address |-> s.address + advance, parts |-> q, expr |-> e, bitness |-> b]
    BY <2>5, <2>6
  <2>8. [s2 EXCEPT !.expr = expr]
          = [address |-> s.address + advance, parts |-> q, expr |-> expr, bitness |-> b]
    BY <2>7
  <2>9. n = [s2 EXCEPT !.expr = expr]
    BY <2>3, <2>4, <2>6, Zenon
  <2> QED
    BY <2>2, <2>3, <2>8, <2>9
<1>3. /\ Append(s.parts, part) \in Seq(PartType)
      /\ Len(Append(s.parts, part)) = Len(s.parts) + 1
      /\ Len(s.parts) \in Nat
      /\ \A i \in 1..(Len(s.parts) + 1) :
            Append(s.parts, part)[i] = IF i = Len(s.parts) + 1 THEN part ELSE s.parts[i]
  BY <1>1, AppendProperties
<1>4. /\ Sizes(s.parts) \in Seq(Nat) /\ Sizes(Append(s.parts, part)) \in Seq(Nat)
      /\ Len(Sizes(s.parts)) = Len(s.parts)
      /\ Len(Sizes(Append(s.parts, part))) = Len(s.parts) + 1
  BY <1>1, <1>3, SizesOf
<1>5. /\ \A i \in 1..Len(s.parts) : Sizes(Append(s.parts, part))[i] = Sizes(s.parts)[i]
      /\ Sizes(Append(s.parts, part))[Len(s.parts) + 1] = part.size
  BY <1>3 DEF Sizes
<1>6. Total(Sizes(Append(s.parts, part))) = Total(Sizes(s.parts)) + part.size
  BY <1>4, <1>5, TotalAppend
<1>7. Total(Sizes(s.parts)) \in Nat /\ part.size \in Nat
  BY <1>4, TotalNat DEF PartType
<1>8. Total(Sizes(Append(s.parts, part))) <= s.address + advance
  BY <1>1, <1>6, <1>7
<1>9. s.bitness \in {0, 1}
  BY DEF SectionOK
<1> HIDE DEF n
<1>10. SectionOK(n)
  BY <1>1, <1>2, <1>3, <1>8, <1>9 DEF SectionOK
<1> QED
  BY <1>10 DEF n

\* What Added makes of a section
IsAdded(t, s, bytes, advance, requests) ==
    t = [s EXCEPT !.address = @ + advance, !.parts = Append(@, Part(bytes)), !.expr = @ \o requests]

LEMMA AddedFields ==
    ASSUME NEW s, SectionOK(s), NEW bytes \in Nat, NEW advance \in Nat, bytes <= advance, NEW requests,
           NEW t, IsAdded(t, s, bytes, advance, requests)
    PROVE  /\ t.address = s.address + advance /\ t.parts = Append(s.parts, Part(bytes))
           /\ t.expr = s.expr \o requests /\ SectionOK(t)
<1>1. PICK a, b, e, w : s = [address |-> a, parts |-> b, expr |-> e, bitness |-> w]
  BY DEF SectionOK
<1>2. PICK part, a1, b1, e1 : /\ part = Part(bytes) /\ a1 = s.address + advance
                              /\ b1 = Append(s.parts, part) /\ e1 = s.expr \o requests
  OBVIOUS
<1>3. PICK s1 : s1 = [s EXCEPT !.address = a1]
  OBVIOUS
<1>4. s1 = [address |-> a1, parts |-> b, expr |-> e, bitness |-> w]
  BY <1>1, <1>3
<1>5. PICK s2 : s2 = [s1 EXCEPT !.parts = b1]
  OBVIOUS
<1>6. s2 = [address |-> a1, parts |-> b1, expr |-> e, bitness |-> w]
  BY <1>4, <1>5
<1>7. PICK s3 : s3 = [s2 EXCEPT !.expr = e1]
  OBVIOUS
<1>8. s3.address = a1 /\ s3.parts = b1 /\ s3.expr = e1
  BY <1>6, <1>7
<1>9. t = s3
  BY <1>2, <1>3, <1>5, <1>7, Zenon DEF IsAdded
<1>10. SectionOK(t)
  <2>1. part \in PartType /\ part.size <= advance
    BY <1>2 DEF Part, PartType
  <2>2. SectionOK([s EXCEPT !.address = @ + advance, !.parts = Append(@, part), !.expr = e1])
    BY <2>1, PartAdded
  <2> QED
    BY <1>2, <2>2, Zenon DEF IsAdded
<1> QED
  BY <1>2, <1>8, <1>9, <1>10

LEMMA AddedKeeps ==
    ASSUME NEW secs, SectionsOK(secs), NEW name, name \in DOMAIN secs,
           NEW bytes \in Nat, NEW advance \in Nat, bytes <= advance, NEW requests
    PROVE  /\ SectionsOK(Added(secs, name, bytes, advance, requests))
           /\ DOMAIN Added(secs, name, bytes, advance, requests) = DOMAIN secs
<1> DEFINE s == secs[name]
           n == [s EXCEPT !.address = @ + advance, !.parts = Append(@, Part(bytes)),
                          !.expr = s.expr \o requests]
<1>1. Part(bytes) \in PartType /\ Part(bytes).size = bytes
  BY DEF Part, PartType
<1>2. SectionOK(s)
  BY DEF SectionsOK
<1>3. SectionOK(n)
  <2> HIDE DEF s
  <2> QED
    BY <1>1, <1>2, PartAdded
<1>4. Added(secs, name, bytes, advance, requests) = [secs EXCEPT ![name] = n]
  BY DEF Added
<1> HIDE DEF n
<1> QED
  BY <1>3, <1>4 DEF SectionsOK

LEMMA NewSectionKeeps ==
    ASSUME NEW bits \in {0, 1}, SectionsOK(sections), NEW name \in Names
    PROVE  /\ SectionOK(NewSection(bits))
           /\ SectionsOK(WithSection(name, bits))
           /\ DOMAIN WithSection(name, bits) = DOMAIN sections \cup {name}
<1>1. Sizes(<<>>) \in Seq(Nat) /\ Len(Sizes(<<>>)) = 0
  BY DEF Sizes
<1>2. Total(Sizes(<<>>)) = 0
  BY <1>1, TotalEmpty
<1>3. SectionOK(NewSection(bits))
  BY <1>2 DEF SectionOK, NewSection
<1>4. IsFiniteSet(DOMAIN sections \cup {name})
  BY FS_AddElement DEF SectionsOK
<1>5. DOMAIN WithSection(name, bits) = DOMAIN sections \cup {name}
  BY DEF WithSection
<1>6. \A s \in DOMAIN sections \cup {name} :
         WithSection(name, bits)[s] = IF s \in DOMAIN sections THEN sections[s] ELSE NewSection(bits)
  BY DEF WithSection
<1> QED
  BY <1>3, <1>4, <1>5, <1>6 DEF SectionsOK

\* What is neither a part nor the address
LEMMA SectionEdited ==
    ASSUME NEW s, SectionOK(s), NEW expr, NEW bits \in {0, 1}
    PROVE  SectionOK([s EXCEPT !.expr = expr]) /\ SectionOK([s EXCEPT !.bitness = bits])
<1>1. PICK a, p, e, b : s = [address |-> a, parts |-> p, expr |-> e, bitness |-> b]
  BY DEF SectionOK
<1>2. /\ [s EXCEPT !.expr = expr] = [address |-> a, parts |-> p, expr |-> expr, bitness |-> b]
      /\ [s EXCEPT !.bitness = bits] = [address |-> a, parts |-> p, expr |-> e, bitness |-> bits]
  BY <1>1
<1>3. a \in Nat /\ b \in {0, 1} /\ p \in Seq(PartType) /\ Total(Sizes(p)) <= a
  BY <1>1 DEF SectionOK
<1> QED
  BY <1>2, <1>3 DEF SectionOK

LEMMA SymbolSetKeeps ==
    ASSUME NEW names, NEW syms, SymbolsOK(syms, names), NEW name, NEW sec, NEW value,
           sec \in names \/ sec = "absolute", value \in Nat,
           NEW s, s = SymbolSet(syms, name, sec, value)
    PROVE  /\ SymbolsOK(s, names)
           /\ \A n \in DOMAIN syms : n \in DOMAIN s /\ s[n].global = syms[n].global
           /\ s[name].section = sec
<1> DEFINE flag == name \in DOMAIN syms /\ syms[name].global
<1>1. DOMAIN s = DOMAIN syms \cup {name}
  BY DEF SymbolSet
<1>2. \A n \in DOMAIN syms : n # name => s[n] = syms[n]
  BY DEF SymbolSet
<1>3. s[name] = [section |-> sec, value |-> value, global |-> flag]
  BY DEF SymbolSet
<1>4. flag \in BOOLEAN /\ (name \in DOMAIN syms => flag = syms[name].global)
  BY DEF SymbolsOK, SymbolOK
<1> HIDE DEF flag
<1>5. SymbolOK(s[name], names)
  BY <1>3, <1>4 DEF SymbolOK
<1> QED
  BY <1>1, <1>2, <1>3, <1>4, <1>5 DEF SymbolsOK

LEMMA SymbolGlobalKeeps ==
    ASSUME NEW names, NEW syms, SymbolsOK(syms, names), NEW name,
           NEW s, s = SymbolGlobal(syms, name)
    PROVE  /\ SymbolsOK(s, names)
           /\ \A n \in DOMAIN syms :
                 /\ n \in DOMAIN s /\ (syms[n].global => s[n].global)
                 /\ s[n].value = syms[n].value /\ s[n].section = syms[n].section
<1>1. DOMAIN s = DOMAIN syms \cup {name}
  BY DEF SymbolGlobal
<1>2. \A n \in DOMAIN syms : n # name => s[n] = syms[n]
  BY DEF SymbolGlobal
<1>3. ASSUME name \notin DOMAIN syms
      PROVE  SymbolOK(s[name], names)
  <2>1. s[name] = [section |-> NoSection, value |-> 0, global |-> TRUE]
    BY <1>3 DEF SymbolGlobal
  <2> QED
    BY <2>1 DEF SymbolOK
<1>4. ASSUME name \in DOMAIN syms
      PROVE  /\ SymbolOK(s[name], names) /\ s[name].global
             /\ s[name].value = syms[name].value /\ s[name].section = syms[name].section
  <2>1. PICK a, b, c : syms[name] = [section |-> a, value |-> b, global |-> c]
    BY <1>4 DEF SymbolsOK, SymbolOK
  <2>2. a \in names \cup {"absolute", NoSection} /\ b \in Nat
    BY <1>4, <2>1 DEF SymbolsOK, SymbolOK
  <2>3. s[name] = [syms[name] EXCEPT !.global = TRUE]
    BY <1>4 DEF SymbolGlobal
  <2>4. s[name] = [section |-> a, value |-> b, global |-> TRUE]
    <3>1. PICK y : y = syms[name]
      OBVIOUS
    <3>2. y = [section |-> a, value |-> b, global |-> c]
      BY <2>1, <3>1
    <3>3. \A v : [y EXCEPT !.global = v] = [section |-> a, value |-> b, global |-> v]
      BY <3>2
    <3>4. PICK v : v = TRUE
      OBVIOUS
    <3>5. s[name] = [y EXCEPT !.global = v]
      BY <2>3, <3>1, <3>4
    <3> QED
      BY <3>3, <3>4, <3>5
  <2> QED
    BY <2>1, <2>2, <2>4 DEF SymbolOK
<1> QED
  BY <1>1, <1>2, <1>3, <1>4 DEF SymbolsOK

-----------------------------------------------------------------------------
(* Operands *)

LEMMA OperandNumbers ==
    ASSUME NEW w \in Word
    PROVE  w.kind \in {"num", "here", "str"} => w.v \in Nat
<1>1. CASE w \in Plain
  BY <1>1 DEF Plain
<1>2. CASE w \in Text_
  BY <1>2 DEF Text_
<1>3. CASE w \in [kind : {"given"}, v : STRING, imm : BOOLEAN, given : Plain]
  BY <1>3
<1> QED
  BY <1>1, <1>2, <1>3 DEF Word

LEMMA OperandValues ==
    ASSUME DataInv, NEW w \in Word
    PROVE  Number(w) \in Nat /\ Value(w) \in Nat /\ ValueNow(w) \in Nat
<1>1. Here \in Nat
  BY DEF DataInv, SectionsOK, SectionOK, Here
<1>2. IsAbsolute(w.v) => symbols[w.v].value \in Nat
  BY DEF DataInv, SymbolsOK, SymbolOK, IsAbsolute
<1>3. w.kind \in {"num", "here"} => w.v \in Nat
  BY OperandNumbers
<1>4. Value(w) \in Nat
  BY <1>1, <1>2, <1>3 DEF Value
<1> QED
  BY <1>3, <1>4 DEF Number, ValueNow

LEMMA ArgNumbers ==
    ASSUME NEW ws \in Seq(Word), NEW i \in Nat \ {0}
    PROVE  Arg(ws, i) \in Nat
<1>1. i <= Len(ws) => ws[i] \in Word
  OBVIOUS
<1> QED
  BY <1>1, OperandNumbers DEF Arg, Number

-----------------------------------------------------------------------------
(* Lines that add to the sections or the symbols *)

\* What no line may do to a symbol, and no line to a section
GlobalKept ==
    \A n \in DOMAIN symbols :
        /\ n \in DOMAIN symbols'
        /\ symbols[n].global => symbols'[n].global
        /\ symbols'[n].global /\ ~symbols[n].global /\ args.op = ".globl" =>
              symbols'[n].value = symbols[n].value /\ symbols'[n].section = symbols[n].section
DataStep == DataInv' /\ GlobalKept

LEMMA SymbolsStay ==
    ASSUME DataInv, UNCHANGED <<symbols, section, sections>>
    PROVE  DataStep
BY DEF DataInv, DataStep, GlobalKept, SectionsOK, SymbolsOK

\* The sections change, but their names do not
LEMMA SectionsStep ==
    ASSUME DataInv, UNCHANGED <<symbols, section>>,
           SectionsOK(sections'), DOMAIN sections \subseteq DOMAIN sections'
    PROVE  DataStep
<1>1. \A n \in DOMAIN symbols : SymbolOK(symbols[n], DOMAIN sections')
  BY DEF DataInv, SymbolsOK, SymbolOK
<1>2. SymbolsOK(symbols', DOMAIN sections')
  BY <1>1 DEF SymbolsOK
<1>3. section' \in DOMAIN sections'
  BY DEF DataInv
<1>4. DataInv'
  BY <1>2, <1>3 DEF DataInv
<1> QED
  BY <1>4 DEF DataStep, GlobalKept

LEMMA FillsStep ==
    ASSUME DataInv, NEW bytes \in Nat, Fills(bytes)
    PROVE  DataStep
<1>1. sections' = Added(sections, section, bytes, bytes, <<>>) /\ UNCHANGED <<symbols, section>>
  BY DEF Fills
<1>2. SectionsOK(sections') /\ DOMAIN sections' = DOMAIN sections
  BY <1>1, AddedKeeps DEF DataInv
<1> QED
  BY <1>1, <1>2, SectionsStep

LEMMA EmitsStep ==
    ASSUME DataInv, NEW ws, NEW bytes \in Nat, NEW advance \in Nat, bytes <= advance,
           NEW offset, NEW width, Emits(ws, bytes, advance, offset, width)
    PROVE  DataStep
<1>1. CASE Crash
  BY <1>1, SymbolsStay DEF Crash
<1>2. CASE /\ sections' = Added(sections, section, bytes, advance, Requests(ws, offset, width))
           /\ UNCHANGED <<symbols, section>>
  <2>1. SectionsOK(sections') /\ DOMAIN sections' = DOMAIN sections
    BY <1>2, AddedKeeps DEF DataInv
  <2> QED
    BY <1>2, <2>1, SectionsStep
<1> QED
  BY <1>1, <1>2 DEF Emits

LEMMA AssignsStep ==
    ASSUME DataInv, NEW name, NEW w \in Word, Assigns(name, w)
    PROVE  DataStep
<1>1. CASE Crash
  BY <1>1, SymbolsStay DEF Crash
<1>2. CASE sections' = Advanced(sections, ValueNow(w)) /\ UNCHANGED <<symbols, section>>
  <2>1. ValueNow(w) \in Nat /\ Here \in Nat
    BY OperandValues DEF DataInv, SectionsOK, SectionOK, Here
  <2>2. CASE ValueNow(w) > Here
    <3>1. ValueNow(w) - Here \in Nat
      BY <2>1, <2>2
    <3>2. sections' = Added(sections, section, ValueNow(w) - Here, ValueNow(w) - Here, <<>>)
      BY <1>2, <2>2 DEF Advanced
    <3>3. SectionsOK(sections') /\ DOMAIN sections' = DOMAIN sections
      BY <3>1, <3>2, AddedKeeps DEF DataInv
    <3> QED
      BY <1>2, <3>3, SectionsStep
  <2>3. CASE ~(ValueNow(w) > Here)
    BY <1>2, <2>3, SymbolsStay DEF Advanced
  <2> QED
    BY <2>2, <2>3
<1>3. CASE /\ symbols' = SymbolSet(symbols, name, "absolute", ValueNow(w))
           /\ UNCHANGED <<section, sections>>
  <2>1. ValueNow(w) \in Nat
    BY OperandValues
  <2>2. /\ SymbolsOK(symbols', DOMAIN sections)
        /\ \A n \in DOMAIN symbols : n \in DOMAIN symbols' /\ symbols'[n].global = symbols[n].global
    <3>1. "absolute" \in DOMAIN sections \cup {"absolute"}
      OBVIOUS
    <3>2. SymbolsOK(symbols, DOMAIN sections)
      BY DEF DataInv
    <3> QED
      BY <1>3, <2>1, <3>1, <3>2, SymbolSetKeeps
  <2> QED
    BY <1>3, <2>2 DEF DataInv, DataStep, GlobalKept
<1> QED
  BY <1>1, <1>2, <1>3 DEF Assigns

\* Moving "." forward keeps the sections and their names
LEMMA AdvancedKeeps ==
    ASSUME NEW secs, SectionsOK(secs), section \in DOMAIN secs, NEW value \in Nat, Here \in Nat
    PROVE  SectionsOK(Advanced(secs, value)) /\ DOMAIN Advanced(secs, value) = DOMAIN secs
<1>1. CASE value > Here
  <2>1. value - Here \in Nat
    BY <1>1
  <2>2. Advanced(secs, value) = Added(secs, section, value - Here, value - Here, <<>>)
    BY <1>1 DEF Advanced
  <2> QED
    BY <2>1, <2>2, AddedKeeps
<1>2. CASE ~(value > Here)
  BY <1>2 DEF Advanced
<1> QED
  BY <1>1, <1>2

LEMMA CommonStep ==
    ASSUME DataInv, NEW ws \in Seq(Word), NEW global \in BOOLEAN, _parse_lcomm(ws, global),
           args.op # ".globl"
    PROVE  DataStep
<1>1. CASE ERR \/ Crash
  BY <1>1, SymbolsStay DEF ERR, Crash
<1>2. CASE /\ Len(ws) = 2 /\ ~ERR /\ ~Crash
  <2> DEFINE opened == WithSection(".bss", 1)
             end == opened[".bss"].address
             bytes == ValueNow(ws[2])
             moves == ws[1].v = "."
             syms == IF moves THEN symbols ELSE SymbolSet(symbols, ws[1].v, ".bss", end)
             secs == IF moves THEN Advanced(opened, end) ELSE opened
  <2>1. /\ symbols' = IF global THEN SymbolGlobal(syms, ws[1].v) ELSE syms
        /\ sections' = Added(secs, ".bss", bytes, bytes, <<>>)
        /\ UNCHANGED section
    BY <1>2 DEF _parse_lcomm
  <2>2. bytes \in Nat
    BY <1>2, OperandValues
  <2>10. /\ SectionsOK(opened) /\ DOMAIN opened = DOMAIN sections \cup {".bss"}
    <3>1. 1 \in {0, 1} /\ ".bss" \in Names /\ SectionsOK(sections)
      BY DEF DataInv, Names
    <3> QED
      BY <3>1, NewSectionKeeps
  <2>4. end \in Nat
    BY <2>10 DEF SectionsOK, SectionOK
  <2> HIDE DEF opened, end, moves
  <2>3. /\ SectionsOK(secs) /\ DOMAIN secs = DOMAIN sections \cup {".bss"}
    <3>1. section \in DOMAIN opened /\ Here \in Nat
      BY <2>10 DEF DataInv, SectionsOK, SectionOK, Here
    <3>2. SectionsOK(Advanced(opened, end)) /\ DOMAIN Advanced(opened, end) = DOMAIN opened
      BY <2>10, <2>4, <3>1, AdvancedKeeps
    <3> QED
      BY <2>10, <3>2
  <2>5. SymbolsOK(symbols, DOMAIN secs)
    BY <2>3 DEF DataInv, SymbolsOK, SymbolOK
  <2> HIDE DEF secs, bytes
  <2>6. /\ SymbolsOK(syms, DOMAIN secs)
        /\ \A n \in DOMAIN symbols : n \in DOMAIN syms /\ syms[n].global = symbols[n].global
    <3>1. ".bss" \in DOMAIN secs \cup {"absolute"}
      BY <2>3
    <3> HIDE DEF syms
    <3>2. syms = symbols \/ syms = SymbolSet(symbols, ws[1].v, ".bss", end)
      BY DEF syms
    <3>3. CASE syms = symbols
      BY <2>5, <3>3
    <3>4. CASE syms = SymbolSet(symbols, ws[1].v, ".bss", end)
      BY <2>4, <2>5, <3>1, <3>4, SymbolSetKeeps
    <3> QED
      BY <3>2, <3>3, <3>4
  <2> HIDE DEF syms
  <2>7. /\ SymbolsOK(SymbolGlobal(syms, ws[1].v), DOMAIN secs)
        /\ \A n \in DOMAIN syms :
              /\ n \in DOMAIN SymbolGlobal(syms, ws[1].v)
              /\ syms[n].global => SymbolGlobal(syms, ws[1].v)[n].global
    BY <2>6, SymbolGlobalKeeps
  <2>8. /\ SymbolsOK(symbols', DOMAIN secs)
        /\ \A n \in DOMAIN symbols :
              n \in DOMAIN symbols' /\ (symbols[n].global => symbols'[n].global)
    BY <2>1, <2>6, <2>7
  <2>9. SectionsOK(sections') /\ DOMAIN sections' = DOMAIN secs
    <3>1. PICK s, b, name : s = secs /\ b = bytes /\ name = ".bss"
      OBVIOUS
    <3>2. name \in DOMAIN s /\ SectionsOK(s) /\ b \in Nat /\ b <= b
      BY <2>2, <2>3, <3>1
    <3>3. sections' = Added(s, name, b, b, <<>>)
      BY <2>1, <3>1
    <3>4. SectionsOK(sections') /\ DOMAIN sections' = DOMAIN s
      BY <3>2, <3>3, AddedKeeps
    <3> QED
      BY <3>1, <3>4
  <2> QED
    BY <2>1, <2>3, <2>8, <2>9 DEF DataInv, DataStep, GlobalKept
<1> QED
  BY <1>1, <1>2 DEF _parse_lcomm

LEMMA GloblStep ==
    ASSUME DataInv, NEW ws, _parse_globl(ws)
    PROVE  DataStep
<1>1. CASE ERR
  BY <1>1, SymbolsStay DEF ERR
<1>2. CASE symbols' = SymbolGlobal(symbols, ws[1].v) /\ UNCHANGED <<section, sections>>
  <2>1. SymbolsOK(symbols, DOMAIN sections)
    BY DEF DataInv
  <2>2. PICK name : name = ws[1].v
    OBVIOUS
  <2>3. /\ SymbolsOK(symbols', DOMAIN sections)
        /\ \A n \in DOMAIN symbols :
              /\ n \in DOMAIN symbols' /\ (symbols[n].global => symbols'[n].global)
              /\ symbols'[n].value = symbols[n].value /\ symbols'[n].section = symbols[n].section
    BY <1>2, <2>1, <2>2, SymbolGlobalKeeps
  <2> QED
    BY <1>2, <2>3 DEF DataInv, DataStep, GlobalKept
<1> QED
  BY <1>1, <1>2 DEF _parse_globl

LEMMA InSectionStep ==
    ASSUME DataInv, NEW name \in Names, InSection(name)
    PROVE  DataStep
<1>1. sections[section].bitness \in {0, 1} /\ SectionsOK(sections)
  BY DEF DataInv, SectionsOK, SectionOK
<1>2. SectionsOK(sections') /\ DOMAIN sections' = DOMAIN sections \cup {name}
  BY <1>1, NewSectionKeeps DEF InSection
<1>3. section' = name /\ UNCHANGED symbols
  BY DEF InSection
<1>4. SymbolsOK(symbols', DOMAIN sections')
  BY <1>2, <1>3 DEF DataInv, SymbolsOK, SymbolOK
<1> QED
  BY <1>2, <1>3, <1>4 DEF DataInv, DataStep, GlobalKept

\* The section in use is another record
LEMMA InUseStep ==
    ASSUME DataInv, NEW s, SectionOK(s), sections' = [sections EXCEPT ![section] = s],
           UNCHANGED <<symbols, section>>
    PROVE  DataStep
<1>1. DOMAIN sections' = DOMAIN sections
  OBVIOUS
<1>2. \A n \in DOMAIN sections : sections'[n] = s \/ sections'[n] = sections[n]
  OBVIOUS
<1>3. SectionsOK(sections')
  BY <1>1, <1>2 DEF DataInv, SectionsOK
<1> QED
  BY <1>1, <1>3, SectionsStep

LEMMA BitsStep ==
    ASSUME DataInv, NEW ws, NEW bits \in {0, 1}, Bits(ws, bits)
    PROVE  DataStep
<1>1. CASE Abort
  BY <1>1, SymbolsStay DEF Abort
<1>2. CASE sections' = [sections EXCEPT ![section].bitness = bits] /\ UNCHANGED <<symbols, section>>
  <2>1. SectionOK(sections[section])
    BY DEF DataInv, SectionsOK
  <2>2. PICK s : s = sections[section]
    OBVIOUS
  <2>3. SectionOK([s EXCEPT !.bitness = bits])
    BY <2>1, <2>2, SectionEdited
  <2>4. PICK n : n = [s EXCEPT !.bitness = bits]
    OBVIOUS
  <2>5. sections' = [sections EXCEPT ![section] = n]
    BY <1>2, <2>2, <2>4, Zenon
  <2> QED
    BY <1>2, <2>3, <2>4, <2>5, InUseStep
<1> QED
  BY <1>1, <1>2 DEF Bits

LEMMA TwoOperandsStep ==
    ASSUME DataInv, NEW ws \in Seq(Word), _parsei_2reg_imm(ws)
    PROVE  DataStep
<1>1. CASE ERR \/ Crash
  BY <1>1, SymbolsStay DEF ERR, Crash
<1>2. CASE /\ sections' = [sections EXCEPT ![section].expr = @ \o Requests(<<ws[1]>>, <<2>>, 2)]
           /\ UNCHANGED <<symbols, section>>
  <2>1. SectionOK(sections[section])
    BY DEF DataInv, SectionsOK
  <2>2. PICK s, e : s = sections[section] /\ e = sections[section].expr \o Requests(<<ws[1]>>, <<2>>, 2)
    OBVIOUS
  <2>3. SectionOK([s EXCEPT !.expr = e])
    <3>1. 0 \in {0, 1} /\ SectionOK(s)
      BY <2>1, <2>2
    <3> QED
      BY <3>1, SectionEdited
  <2>4. PICK n : n = [s EXCEPT !.expr = e]
    OBVIOUS
  <2>5. sections' = [sections EXCEPT ![section] = n]
    BY <1>2, <2>2, <2>4, Zenon
  <2> QED
    BY <1>2, <2>3, <2>4, <2>5, InUseStep
<1>3. CASE WithImm(ws[1], 4, 2, 2)
  <2>1. Emits(<<ws[1]>>, 4, 4, <<2>>, 2)
    BY <1>3 DEF WithImm
  <2> QED
    BY <2>1, EmitsStep
<1>4. CASE Fills(3)
  BY <1>4, FillsStep
<1> QED
  BY <1>1, <1>2, <1>3, <1>4 DEF _parsei_2reg_imm

\* No change at all, or the bytes of Fills
LEMMA FillsOrNothing ==
    ASSUME DataInv, NEW bytes, ERR \/ Nothing \/ (bytes \in Nat /\ Fills(bytes))
    PROVE  DataStep
<1>1. CASE ERR \/ Nothing
  BY <1>1, SymbolsStay DEF ERR, Nothing
<1> QED
  BY <1>1, FillsStep

\* cmpl_data.c: the lines that add data
LEMMA DataLinesStep ==
    ASSUME DataInv, NEW ws \in Seq(Word)
    PROVE  /\ \A k \in {1, 2, 4, 8} : _parse_int(ws, k) \/ Reals(ws, k) => DataStep
           /\ \A k \in {0, 1} :
                 Texts(ws, k) /\ (\A i \in 1..Len(ws) : ws[i].kind = "str") => DataStep
           /\ _parse_skip(ws) \/ _parse_fill(ws) \/ _parse_align(ws) \/ _parse_org(ws) => DataStep
<1>1. ASSUME NEW k \in {1, 2, 4, 8}, _parse_int(ws, k)
      PROVE  DataStep
  <2>1. CASE Nothing
    BY <2>1, FillsOrNothing
  <2>2. CASE Emits(ws, Len(ws) * k, Len(ws) * k, [i \in 1..Len(ws) |-> (i - 1) * k], k)
    <3>1. Len(ws) * k \in Nat /\ Len(ws) * k <= Len(ws) * k
      OBVIOUS
    <3>2. PICK n : n = Len(ws) * k
      OBVIOUS
    <3>3. PICK offset : offset = [i \in 1..Len(ws) |-> (i - 1) * k]
      OBVIOUS
    <3> QED
      BY <2>2, <3>1, <3>2, <3>3, EmitsStep
  <2> QED
    BY <1>1, <2>1, <2>2 DEF _parse_int
<1>2. ASSUME NEW k \in {1, 2, 4, 8}, Reals(ws, k)
      PROVE  DataStep
  <2>1. Len(ws) * k \in Nat
    OBVIOUS
  <2> QED
    BY <1>2, <2>1, FillsOrNothing DEF Reals
<1>3. ASSUME NEW k \in {0, 1}, Texts(ws, k), \A i \in 1..Len(ws) : ws[i].kind = "str"
      PROVE  DataStep
  <2>1. \A i \in 1..Len(ws) : ws[i].v + k \in Nat
    BY <1>3, OperandNumbers
  <2>2. [i \in 1..Len(ws) |-> ws[i].v + k] \in Seq(Nat)
    BY <2>1
  <2>3. Total([i \in 1..Len(ws) |-> ws[i].v + k]) \in Nat
    BY <2>2, TotalNat
  <2> QED
    BY <1>3, <2>3, FillsOrNothing DEF Texts
<1>4. ASSUME _parse_skip(ws)
      PROVE  DataStep
  BY <1>4, ArgNumbers, FillsOrNothing DEF _parse_skip
<1>5. ASSUME _parse_fill(ws)
      PROVE  DataStep
  <2> DEFINE k == IF Arg(ws, 2) = 0 THEN 1 ELSE Arg(ws, 2)
  <2>1. k \in Nat /\ Arg(ws, 1) \in Nat
    BY ArgNumbers
  <2>2. k * Arg(ws, 1) \in Nat
    BY <2>1
  <2>3. ERR \/ Fills(k * Arg(ws, 1))
    BY <1>5 DEF _parse_fill
  <2> QED
    BY <2>2, <2>3, FillsOrNothing
<1>6. ASSUME _parse_align(ws)
      PROVE  DataStep
  <2> DEFINE align == Arg(ws, 1)
             needed == (align - (Here % align)) % align
  <2>1. align \in Nat /\ Here \in Nat
    BY ArgNumbers DEF DataInv, SectionsOK, SectionOK, Here
  <2>2. ERR \/ Nothing \/ (align # 0 /\ Fills(needed))
    BY <1>6 DEF _parse_align
  <2>3. align # 0 => needed \in Nat
    BY <2>1
  <2> QED
    BY <2>2, <2>3, FillsOrNothing
<1>7. ASSUME _parse_org(ws)
      PROVE  DataStep
  <2>1. Arg(ws, 1) \in Nat /\ Here \in Nat
    BY ArgNumbers DEF DataInv, SectionsOK, SectionOK, Here
  <2>2. ERR \/ Nothing \/ (Arg(ws, 1) > Here /\ Fills(Arg(ws, 1) - Here))
    BY <1>7 DEF _parse_org
  <2>3. Arg(ws, 1) > Here => Arg(ws, 1) - Here \in Nat
    BY <2>1
  <2> QED
    BY <2>2, <2>3, FillsOrNothing
<1> QED
  BY <1>1, <1>2, <1>3, <1>4, <1>5, <1>6, <1>7

LEMMA EquStep ==
    ASSUME DataInv, NEW ws \in Seq(Word), _parse_equ(ws) \/ _parse_equiv(ws)
    PROVE  DataStep
<1>1. CASE ERR
  BY <1>1, FillsOrNothing
<1>2. CASE Len(ws) = 2 /\ Assigns(ws[1].v, ws[2])
  <2>1. PICK name, w : name = ws[1].v /\ w = ws[2]
    OBVIOUS
  <2>2. w \in Word /\ Assigns(name, w)
    BY <1>2, <2>1
  <2> QED
    BY <2>2, AssignsStep
<1> QED
  BY <1>1, <1>2 DEF _parse_equ, _parse_equiv

LEMMA DirectiveStep ==
    ASSUME DataInv, NEW op \in Directives, NEW ws \in Seq(Word),
           op \in {".ascii", ".asciz"} => \A i \in 1..Len(ws) : ws[i].kind = "str",
           Directive(op, ws)
    PROVE  DataStep
<1>1. \/ op \in {".byte", ".short", ".int", ".long"} /\ \E k \in {1, 2, 4, 8} : _parse_int(ws, k)
      \/ op \in {".float", ".double"} /\ \E k \in {1, 2, 4, 8} : Reals(ws, k)
      \/ op \in {".ascii", ".asciz"} /\ \E k \in {0, 1} : Texts(ws, k)
      \/ op \in {".skip", ".fill", ".align", ".org"}
         /\ (_parse_skip(ws) \/ _parse_fill(ws) \/ _parse_align(ws) \/ _parse_org(ws))
      \/ op = ".equ" /\ _parse_equ(ws)
  BY DEF Directive, Directives
<1> QED
  BY <1>1, DataLinesStep, EquStep

LEMMA SectionOperands ==
    ASSUME NEW w \in Word, w.kind = "section"
    PROVE  w.v \in Names
<1>1. w \in Plain => w.v \in STRING
  BY DEF Plain
<1>2. w \notin Text_ /\ w \notin [kind : {"given"}, v : STRING, imm : BOOLEAN, given : Plain]
  BY DEF Text_
<1> QED
  BY <1>1, <1>2 DEF Word, Names

LEMMA CompilerDirectiveStep ==
    ASSUME DataInv, NEW op \in CompilerDirectives, op = args.op, NEW ws \in Seq(Word),
           CompilerDirective(op, ws)
    PROVE  DataStep
<1>1. \/ _parse_equiv(ws)
      \/ ERR
      \/ Len(ws) = 1 /\ ws[1].kind = "section" /\ InSection(ws[1].v)
      \/ Abort
      \/ op \in {".data", ".text"} /\ InSection(op)
      \/ Bits(ws, 0) \/ Bits(ws, 1)
      \/ op # ".globl" /\ (_parse_lcomm(ws, TRUE) \/ _parse_lcomm(ws, FALSE))
      \/ _parse_globl(ws)
  BY DEF CompilerDirective, CompilerDirectives
<1>2. ASSUME ERR \/ Abort
      PROVE  DataStep
  BY <1>2, SymbolsStay DEF ERR, Abort
<1>3. ASSUME Len(ws) = 1, ws[1].kind = "section", InSection(ws[1].v)
      PROVE  DataStep
  BY <1>3, SectionOperands, InSectionStep
<1>4. ASSUME op \in {".data", ".text"}, InSection(op)
      PROVE  DataStep
  <2>1. op \in Names
    BY <1>4 DEF Names
  <2> QED
    BY <1>4, <2>1, InSectionStep
<1>5. ASSUME Bits(ws, 0) \/ Bits(ws, 1)
      PROVE  DataStep
  <2>1. 0 \in {0, 1} /\ 1 \in {0, 1}
    OBVIOUS
  <2> QED
    BY <1>5, <2>1, BitsStep
<1>6. ASSUME op # ".globl", _parse_lcomm(ws, TRUE) \/ _parse_lcomm(ws, FALSE)
      PROVE  DataStep
  <2>1. TRUE \in BOOLEAN /\ FALSE \in BOOLEAN
    OBVIOUS
  <2> QED
    BY <1>6, <2>1, CommonStep
<1> QED
  BY <1>1, <1>2, <1>3, <1>4, <1>5, <1>6, EquStep, GloblStep

\* Any form of operands adds no more bytes than it advances by
LEMMA InstructionStep ==
    ASSUME DataInv, NEW op \in Instructions, NEW ws \in Seq(Word), Instruction(op, ws)
    PROVE  DataStep
<1>1. \/ _parsei_pure(ws) \/ _parsei_1reg(ws) \/ _parsei_2reg(ws) \/ _parsei_1reg_imm(ws)
      \/ _parsei_2reg_imm(ws) \/ _parsei_1reg_1imm(ws) \/ _parsei_1imm(ws) \/ _parsei_jcc(ws)
      \/ _parsei_movcc(ws)
  BY DEF Instruction, Instructions
<1>2. ASSUME ERR \/ \E k \in {1, 2, 3, 4} : Fills(k)
      PROVE  DataStep
  BY <1>2, FillsOrNothing
<1>3. ASSUME NEW w, NEW k \in {3, 4}, NEW offset, NEW width, WithImm(w, k, offset, width)
      PROVE  DataStep
  <2>1. Emits(<<w>>, k, k, <<offset>>, width) /\ k \in Nat /\ k <= k
    BY <1>3 DEF WithImm
  <2>2. PICK wide : wide = <<offset>>
    OBVIOUS
  <2> QED
    BY <2>1, <2>2, EmitsStep
<1>4. ASSUME _parsei_1reg_1imm(ws)
      PROVE  DataStep
  <2>1. CASE ERR
    BY <1>2, <2>1
  <2>2. CASE Emits(<<ws[1]>>, 3, 4, <<2>>, 1)
    BY <2>2, EmitsStep
  <2> QED
    BY <1>4, <2>1, <2>2 DEF _parsei_1reg_1imm
<1>5. ASSUME _parsei_pure(ws) \/ _parsei_1reg(ws) \/ _parsei_2reg(ws) \/ _parsei_movcc(ws)
      PROVE  DataStep
  BY <1>2, <1>5 DEF _parsei_pure, _parsei_1reg, _parsei_2reg, _parsei_movcc
<1>6. ASSUME _parsei_1imm(ws) \/ _parsei_jcc(ws) \/ _parsei_1reg_imm(ws)
      PROVE  DataStep
  <2>1. \/ ERR \/ Fills(2)
        \/ WithImm(ws[1], 3, 1, 2) \/ WithImm(ws[1], 4, 2, 2)
    BY <1>6 DEF _parsei_1imm, _parsei_jcc, _parsei_1reg_imm
  <2> QED
    BY <1>2, <1>3, <2>1
<1> QED
  BY <1>1, <1>4, <1>5, <1>6, TwoOperandsStep

\* A label leaves what is known of its symbol
LEMMA LabelledStep ==
    ASSUME DataInv, NEW labels, symbols' = Labelled(labels), UNCHANGED <<section, sections>>
    PROVE  DataStep
<1>1. DOMAIN symbols' = DOMAIN symbols \cup Range(labels)
  BY DEF Labelled
<1>2. SymbolsOK(symbols, DOMAIN sections) /\ section \in DOMAIN sections /\ Here \in Nat
  BY DEF DataInv, SectionsOK, SectionOK, Here
<1>3. ASSUME NEW n \in DOMAIN symbols \cup Range(labels)
      PROVE  /\ SymbolOK(symbols'[n], DOMAIN sections)
             /\ n \in DOMAIN symbols => symbols'[n].global = symbols[n].global
  <2>1. CASE /\ n \in Range(labels) /\ (n \in DOMAIN symbols => symbols[n].section = NoSection)
    <3>1. symbols'[n] = SymbolSet(symbols, n, section, Here)[n]
      BY <1>3, <2>1 DEF Labelled
    <3>2. PICK s, names, sec, at :
             /\ names = DOMAIN sections /\ sec = section /\ at = Here
             /\ s = SymbolSet(symbols, n, sec, at)
      OBVIOUS
    <3>3. /\ SymbolsOK(s, names)
          /\ \A k \in DOMAIN symbols : k \in DOMAIN s /\ s[k].global = symbols[k].global
      BY <1>2, <3>2, SymbolSetKeeps
    <3>4. n \in DOMAIN s
      BY <3>2 DEF SymbolSet
    <3> QED
      BY <3>1, <3>2, <3>3, <3>4 DEF SymbolsOK
  <2>2. CASE ~(n \in Range(labels) /\ (n \in DOMAIN symbols => symbols[n].section = NoSection))
    <3>1. symbols'[n] = symbols[n] /\ n \in DOMAIN symbols
      BY <1>3, <2>2 DEF Labelled
    <3> QED
      BY <1>2, <3>1 DEF SymbolsOK
  <2> QED
    BY <2>1, <2>2
<1> QED
  BY <1>1, <1>2, <1>3 DEF DataInv, SymbolsOK, DataStep, GlobalKept

\* The next line comes, or the assembler ends
Onward == pc' \in {"line", "failed", "crashed"} /\ UNCHANGED <<file, f_line>>

LEMMA OnwardSteps ==
    ASSUME NEW ws, NEW op
    PROVE  /\ ERR \/ Nothing \/ Abort \/ Crash => Onward
           /\ \A name, w : Assigns(name, w) => Onward
           /\ op \in Directives /\ Directive(op, ws) => Onward
           /\ op \in CompilerDirectives /\ CompilerDirective(op, ws) => Onward
           /\ op \in Instructions /\ Instruction(op, ws) => Onward
<1>1. ASSUME ERR \/ Nothing \/ Abort \/ Crash
      PROVE  Onward
  BY <1>1 DEF Onward, ERR, Nothing, Abort, Crash, Continue
<1>2. ASSUME NEW bytes, Fills(bytes)
      PROVE  Onward
  BY <1>2 DEF Onward, Fills, Continue
<1>3. ASSUME NEW xs, NEW bytes, NEW advance, NEW offset, NEW width,
             Emits(xs, bytes, advance, offset, width)
      PROVE  Onward
  BY <1>1, <1>3 DEF Onward, Emits, Continue
<1>4. ASSUME NEW name, NEW w, Assigns(name, w)
      PROVE  Onward
  BY <1>1, <1>4 DEF Onward, Assigns, Continue
<1>5. ASSUME op \in Directives, Directive(op, ws)
      PROVE  Onward
  <2>1. \/ \E k : _parse_int(ws, k) \/ Reals(ws, k) \/ Texts(ws, k)
        \/ _parse_skip(ws) \/ _parse_fill(ws) \/ _parse_align(ws) \/ _parse_org(ws) \/ _parse_equ(ws)
    BY <1>5 DEF Directive, Directives
  <2>2. ASSUME NEW k, _parse_int(ws, k)
        PROVE  Onward
    BY <1>1, <1>3, <2>2 DEF _parse_int
  <2>3. ASSUME NEW k, Reals(ws, k) \/ Texts(ws, k)
        PROVE  Onward
    BY <1>1, <1>2, <2>3 DEF Reals, Texts
  <2>4. ASSUME _parse_skip(ws) \/ _parse_fill(ws)
        PROVE  Onward
    BY <1>1, <1>2, <2>4 DEF _parse_skip, _parse_fill
  <2>5. ASSUME _parse_align(ws) \/ _parse_org(ws)
        PROVE  Onward
    BY <1>1, <1>2, <2>5 DEF _parse_align, _parse_org
  <2>6. ASSUME _parse_equ(ws)
        PROVE  Onward
    BY <1>1, <1>4, <2>6 DEF _parse_equ
  <2> QED
    BY <2>1, <2>2, <2>3, <2>4, <2>5, <2>6
<1>6. ASSUME op \in CompilerDirectives, CompilerDirective(op, ws)
      PROVE  Onward
  <2>1. \/ _parse_equiv(ws) \/ ERR \/ Abort
        \/ \E name : InSection(name)
        \/ \E bits : Bits(ws, bits)
        \/ \E global : _parse_lcomm(ws, global)
        \/ _parse_globl(ws)
    BY <1>6 DEF CompilerDirective, CompilerDirectives
  <2>2. ASSUME _parse_equiv(ws)
        PROVE  Onward
    BY <1>1, <1>4, <2>2 DEF _parse_equiv
  <2>3. ASSUME NEW name, InSection(name)
        PROVE  Onward
    BY <2>3 DEF InSection, Continue, Onward
  <2>4. ASSUME NEW bits, Bits(ws, bits)
        PROVE  Onward
    BY <1>1, <2>4 DEF Bits, Continue, Onward
  <2>5. ASSUME NEW global, _parse_lcomm(ws, global)
        PROVE  Onward
    BY <1>1, <2>5 DEF _parse_lcomm, Continue, Onward
  <2>6. ASSUME _parse_globl(ws)
        PROVE  Onward
    BY <1>1, <2>6 DEF _parse_globl, Continue, Onward
  <2> QED
    BY <1>1, <2>1, <2>2, <2>3, <2>4, <2>5, <2>6
<1>7. ASSUME op \in Instructions, Instruction(op, ws)
      PROVE  Onward
  <2>1. \/ _parsei_pure(ws) \/ _parsei_1reg(ws) \/ _parsei_2reg(ws) \/ _parsei_movcc(ws)
        \/ _parsei_1reg_imm(ws) \/ _parsei_1imm(ws) \/ _parsei_jcc(ws) \/ _parsei_1reg_1imm(ws)
        \/ _parsei_2reg_imm(ws)
    BY <1>7 DEF Instruction, Instructions
  <2>2. ASSUME _parsei_pure(ws) \/ _parsei_1reg(ws) \/ _parsei_2reg(ws) \/ _parsei_movcc(ws)
        PROVE  Onward
    BY <1>1, <1>2, <2>2 DEF _parsei_pure, _parsei_1reg, _parsei_2reg, _parsei_movcc
  <2>3. ASSUME NEW w, NEW bytes, NEW offset, NEW width, WithImm(w, bytes, offset, width)
        PROVE  Onward
    BY <1>3, <2>3 DEF WithImm
  <2>4. ASSUME _parsei_1reg_imm(ws) \/ _parsei_1imm(ws) \/ _parsei_jcc(ws)
        PROVE  Onward
    BY <1>1, <1>2, <2>3, <2>4 DEF _parsei_1reg_imm, _parsei_1imm, _parsei_jcc
  <2>5. ASSUME _parsei_1reg_1imm(ws)
        PROVE  Onward
    BY <1>1, <1>3, <2>5 DEF _parsei_1reg_1imm
  <2>6. ASSUME _parsei_2reg_imm(ws)
        PROVE  Onward
    <3>1. \/ ERR \/ Crash \/ Continue \/ WithImm(ws[1], 4, 2, 2) \/ Fills(3)
      BY <2>6 DEF _parsei_2reg_imm
    <3> QED
      BY <1>1, <1>2, <2>3, <3>1 DEF Continue, Onward
  <2> QED
    BY <2>1, <2>2, <2>4, <2>5, <2>6
<1> QED
  BY <1>1, <1>4, <1>5, <1>6, <1>7

-----------------------------------------------------------------------------
(* The lists of lines *)

Entries ==
    [is : {"line"}, v : Line] \cup [is : {"operands"}, v : Seq(Word)]
    \cup [is : {"name"}, v : Names] \cup [is : {"number"}, v : Int]
    \cup [is : {"label"}, v : Nat \cup STRING \cup Seq(Plain)] \cup [is : {"null"}, v : {0}]
Frames == {"i0", "i1", "m", "rn", "rc"}

\* A block with a label has its operands and its place behind it
Headed(list) ==
    list[1].is = "label" => Len(list) >= 3 /\ list[2].is = "operands" /\ list[3].is = "name"
\* A macro begins with its operands, or, once they were taken, with its place
Defined(list) ==
    list # <<>> /\ (list[1].is = "operands" => Len(list) >= 2 /\ list[2].is = "name")

LinesInv ==
    /\ pc \in {"skip", "line", "word"} \cup Final
    /\ file \in Names /\ f_line \in Int
    /\ DOMAIN source \subseteq STRING /\ \A f \in DOMAIN source : source[f] \in Seq(Line)
    /\ files \in Seq(Seq(Entries)) /\ (pc \in {"line", "word"} => files # <<>>)
    /\ args \in Line \cup {NoLine}
    /\ dl \in Seq(Entries) /\ (dl # <<>> => Headed(dl))
    /\ history \in Seq(Frames) /\ (history = <<>> => dl = <<>>)
    /\ \A m \in DOMAIN macros : macros[m] \in Seq(Entries) /\ Defined(macros[m])

\* What compile() returned for a unit
LinkInv ==
    /\ linking \in BOOLEAN
    /\ linking => history = <<>> /\ pc # "skip"
    /\ unit \in STRING /\ todo \in Seq(STRING) /\ script \in STRING
    /\ IsFiniteSet(DOMAIN compiled) /\ DOMAIN compiled \subseteq STRING
    /\ \A u \in DOMAIN compiled :
          /\ IsFiniteSet(DOMAIN compiled[u]) /\ DOMAIN compiled[u] \subseteq Names
          /\ \A s \in DOMAIN compiled[u] : compiled[u][s] \in [size : Nat, data : BOOLEAN]

LEMMA LineFields ==
    ASSUME NEW l \in Line
    PROVE  /\ l \in [labels : Seq(STRING), op : STRING, args : Seq(Word)]
           /\ l.op = "=" => Len(l.args) = 2
           /\ l.op = ".irpc" /\ Len(l.args) = 2 => l.args[2] \in Text_
           /\ l.op \in {".ascii", ".asciz"} => \A i \in 1..Len(l.args) : l.args[i].kind = "str"
BY DEF Line

LEMMA WordValues ==
    ASSUME NEW w \in Word
    PROVE  /\ w.v \in Nat \cup STRING \cup Seq(Plain)
           /\ w.imm \in BOOLEAN
           /\ w.kind = "given" => w.given \in Word
           /\ w \in Text_ => w.v \in Seq(Word) /\ w.kind = "text"
<1>1. CASE w \in Plain
  BY <1>1 DEF Plain, Text_
<1>2. CASE w \in Text_
  <2>1. w.v \in Seq(Plain) /\ w.imm \in BOOLEAN /\ w.kind = "text"
    BY <1>2 DEF Text_
  <2>2. Len(w.v) \in Nat /\ \A i \in 1..Len(w.v) : w.v[i] \in Word
    BY <2>1 DEF Word
  <2>3. w.v = [i \in 1..Len(w.v) |-> w.v[i]]
    BY <2>1
  <2>4. w.v \in Seq(Word)
    BY <2>2, <2>3
  <2> QED
    BY <2>1, <2>4
<1>3. CASE w \in [kind : {"given"}, v : STRING, imm : BOOLEAN, given : Plain]
  <2>1. w.given \in Word
    BY <1>3 DEF Word
  <2> QED
    BY <1>3, <2>1 DEF Text_
<1> QED
  BY <1>1, <1>2, <1>3 DEF Word

LEMMA Flagged ==
    ASSUME NEW w \in Word, NEW imm \in BOOLEAN
    PROVE  [w EXCEPT !.imm = imm] \in Word
<1>1. CASE w \in [kind : {"num", "here", "str", "bad"}, v : Nat, imm : BOOLEAN]
  BY <1>1 DEF Word, Plain
<1>2. CASE w \in [kind : {"word", "sum", "reg", "param"}, v : STRING, imm : BOOLEAN]
  BY <1>2 DEF Word, Plain
<1>3. CASE w \in [kind : {"section"}, v : STRING \ {"absolute", NoSection}, imm : BOOLEAN]
  BY <1>3 DEF Word, Plain
<1>4. CASE w \in Text_
  BY <1>4 DEF Word, Text_
<1>5. CASE w \in [kind : {"given"}, v : STRING, imm : BOOLEAN, given : Plain]
  BY <1>5 DEF Word
<1> QED
  BY <1>1, <1>2, <1>3, <1>4, <1>5 DEF Word, Plain

\* The kinds of entries
LEMMA EntryKinds ==
    ASSUME NEW e \in Entries
    PROVE  /\ e.is = "line" => e.v \in Line
           /\ e.is = "operands" => e.v \in Seq(Word)
           /\ e.is = "name" => e.v \in Names
           /\ e.is = "number" => e.v \in Int
BY DEF Entries

LEMMA EntryMakers ==
    /\ \A l \in Line : Entry(l) \in Entries
    /\ \A ws \in Seq(Word) : Operands(ws) \in Entries
    /\ \A f \in Names : Name(f) \in Entries
    /\ \A n \in Int : Number_(n) \in Entries
    /\ \A w \in Word : Label(w.v) \in Entries
<1>1. \A w \in Word : w.v \in Nat \cup STRING \cup Seq(Plain)
  BY WordValues
<1> QED
  BY <1>1 DEF Entries, Entry, Operands, Name, Number_, Label

-----------------------------------------------------------------------------
(* Lists and their contents *)

LEMMA LineSubstituted ==
    ASSUME NEW l \in Line, NEW ws \in Seq(Word), Len(ws) = Len(l.args),
           \A i \in 1..Len(ws) : ws[i] = l.args[i] \/ l.args[i].kind = "param"
    PROVE  [l EXCEPT !.args = ws] \in Line
<1>1. /\ l \in [labels : Seq(STRING), op : STRING, args : Seq(Word)]
      /\ l.op = "=" => Len(l.args) = 2
      /\ l.op = ".irpc" /\ Len(l.args) = 2 => l.args[2] \in Text_
      /\ l.op \in {".ascii", ".asciz"} => \A i \in 1..Len(l.args) : l.args[i].kind = "str"
  BY LineFields
<1>2. PICK n : n = [l EXCEPT !.args = ws]
  OBVIOUS
<1>3. n \in [labels : Seq(STRING), op : STRING, args : Seq(Word)] /\ n.op = l.op /\ n.args = ws
  BY <1>1, <1>2
<1>4. l.op = ".irpc" /\ Len(ws) = 2 => ws[2] \in Text_
  <2>1. l.args[2] \in Text_ => l.args[2].kind = "text"
    BY DEF Text_
  <2> QED
    BY <1>1, <2>1
<1>5. l.op \in {".ascii", ".asciz"} => \A i \in 1..Len(ws) : ws[i].kind = "str"
  BY <1>1
<1> QED
  BY <1>1, <1>2, <1>3, <1>4, <1>5 DEF Line

LEMMA SubstitutedList ==
    ASSUME NEW list \in Seq(Entries), NEW what, NEW with \in Word
    PROVE  Substituted(list, what, with) \in Seq(Entries)
<1> DEFINE W(w) == IF w.kind = "param" /\ w.v = what THEN [with EXCEPT !.imm = w.imm] ELSE w
           Ws(l) == [k \in 1..Len(l.args) |-> W(l.args[k])]
           New(e) == IF e.is = "line" THEN Entry([e.v EXCEPT !.args = Ws(e.v)]) ELSE e
<1>1. \A w \in Word : W(w) \in Word
  <2>1. \A w \in Word : [with EXCEPT !.imm = w.imm] \in Word
    BY WordValues, Flagged
  <2> QED
    BY <2>1
<1>2. ASSUME NEW l \in Line
      PROVE  [l EXCEPT !.args = Ws(l)] \in Line
  <2>1. l.args \in Seq(Word)
    BY LineFields
  <2>2. Ws(l) \in Seq(Word) /\ Len(Ws(l)) = Len(l.args)
    <3> HIDE DEF W
    <3> QED
      BY <1>1, <2>1
  <2>3. \A i \in 1..Len(l.args) : Ws(l)[i] = l.args[i] \/ l.args[i].kind = "param"
    OBVIOUS
  <2> HIDE DEF Ws
  <2> QED
    BY <2>2, <2>3, LineSubstituted
<1>3. \A e \in Entries : New(e) \in Entries
  <2> HIDE DEF Ws
  <2> QED
    BY <1>2, EntryKinds, EntryMakers
<1>4. Substituted(list, what, with) = [i \in 1..Len(list) |-> New(list[i])]
  BY DEF Substituted
<1> HIDE DEF New
<1> QED
  BY <1>3, <1>4

LEMMA ReversedList ==
    ASSUME NEW ws \in Seq(Word)
    PROVE  Reverse(ws) \in Seq(Word)
<1>1. \A i \in 1..Len(ws) : ws[(Len(ws) - i) + 1] \in Word
  OBVIOUS
<1> QED
  BY <1>1 DEF Reverse

LEMMA ParsedFile ==
    ASSUME LinesInv, NEW f
    PROVE  helper_file_parse(f) \in Seq(Entries)
<1>1. CASE f \in DOMAIN source
  <2>1. f \in Names /\ source[f] \in Seq(Line)
    BY <1>1 DEF LinesInv, Names
  <2>2. Name(f) \in Entries /\ Number_(0) \in Entries
    BY <2>1, EntryMakers
  <2>3. [i \in 1..Len(source[f]) |-> Entry(source[f][i])] \in Seq(Entries)
    BY <2>1, EntryMakers
  <2>4. <<Name(f), Number_(0)>> \in Seq(Entries)
    BY <2>2
  <2> QED
    BY <1>1, <2>3, <2>4, ConcatProperties DEF helper_file_parse
<1>2. CASE f \notin DOMAIN source
  <2>1. [is |-> "null", v |-> 0] \in Entries
    BY DEF Entries
  <2> QED
    BY <1>2, <2>1 DEF helper_file_parse, NullFile
<1> QED
  BY <1>1, <1>2

LEMMA PlacedList ==
    ASSUME LinesInv, NEW list \in Seq(Entries)
    PROVE  /\ WithPlace(list) \in Seq(Entries)
           /\ Len(WithPlace(list)) = Len(list) + 2
           /\ WithPlace(list)[1].is = "name"
<1>1. Name(file) \in Entries /\ Number_(f_line) \in Entries
  BY EntryMakers DEF LinesInv
<1>2. PICK p : p = <<Name(file), Number_(f_line)>>
  OBVIOUS
<1>3. p \in Seq(Entries) /\ Len(p) = 2 /\ p[1] = Name(file)
  BY <1>1, <1>2
<1>4. /\ p \o list \in Seq(Entries) /\ Len(p \o list) = Len(p) + Len(list)
      /\ \A i \in 1..(Len(p) + Len(list)) : i <= Len(p) => (p \o list)[i] = p[i]
  BY <1>3, ConcatProperties
<1>5. 1 \in 1..(Len(p) + Len(list)) /\ 1 <= Len(p)
  BY <1>3
<1> QED
  BY <1>2, <1>3, <1>4, <1>5 DEF WithPlace, Name

\* The lists after 0, 1, ... n operands
IsExpansion(f, n, list, operands) ==
    f = [i \in 0..n |-> IF i = 0 THEN list
                        ELSE Substituted(f[i - 1], operands[i].v, With(operands[i], i))]

LEMMA ExpansionExists ==
    ASSUME NEW n \in Nat, NEW list, NEW operands
    PROVE  \E f : IsExpansion(f, n, list, operands)
<1> DEFINE Next_(x, i) == Substituted(x, operands[i].v, With(operands[i], i))
           Missing == {m \in 0..n : ~\E f : f = [i \in 0..m |-> IF i = 0 THEN list ELSE Next_(f[i - 1], i)]}
<1>0. Missing \in SUBSET Nat
  OBVIOUS
<1> HIDE DEF Next_
<1>1. ASSUME Missing # {}
      PROVE  FALSE
  <2>1. PICK m \in Missing : \A k \in Missing : ~(k < m)
    <3> HIDE DEF Missing
    <3> QED
      BY <1>0, <1>1, LeastOf
  <2>2. m # 0
    <3>1. PICK f : f = [i \in 0..0 |-> list]
      OBVIOUS
    <3>2. f = [i \in 0..0 |-> IF i = 0 THEN list ELSE Next_(f[i - 1], i)]
      BY <3>1
    <3> QED
      BY <3>2
  <2>3. m - 1 \in 0..n /\ m \in 1..n /\ ~(m - 1 \in Missing)
    <3>1. m - 1 \in 0..n /\ m \in 1..n /\ m - 1 < m
      BY <2>2
    <3> HIDE DEF Missing
    <3> QED
      BY <2>1, <3>1
  <2>4. PICK f : f = [i \in 0..(m - 1) |-> IF i = 0 THEN list ELSE Next_(f[i - 1], i)]
    BY <2>3
  <2>5. PICK g : g = [i \in 0..m |-> IF i = m THEN Next_(f[m - 1], m) ELSE f[i]]
    OBVIOUS
  <2>6. \A i \in 0..m : g[i] = IF i = 0 THEN list ELSE Next_(g[i - 1], i)
    <3> SUFFICES ASSUME NEW i \in 0..m
                 PROVE  g[i] = IF i = 0 THEN list ELSE Next_(g[i - 1], i)
      OBVIOUS
    <3>1. i # m => i \in 0..(m - 1) /\ f[i] = IF i = 0 THEN list ELSE Next_(f[i - 1], i)
      BY <2>3, <2>4
    <3>2. i # 0 => i - 1 \in 0..m /\ i - 1 # m
      BY <2>3
    <3> QED
      BY <2>2, <2>3, <2>5, <3>1, <3>2
  <2>7. g = [i \in 0..m |-> IF i = 0 THEN list ELSE Next_(g[i - 1], i)]
    BY <2>5, <2>6
  <2> QED
    BY <2>1, <2>7
<1>2. n \in 0..n
  OBVIOUS
<1>3. \E f : f = [i \in 0..n |-> IF i = 0 THEN list ELSE Next_(f[i - 1], i)]
  BY <1>1, <1>2
<1> QED
  BY <1>3 DEF Next_, IsExpansion

LEMMA ExpandedList ==
    ASSUME NEW list \in Seq(Entries), NEW operands \in Seq(Word),
           \A i \in 1..Len(operands) : With(operands[i], i) \in Word
    PROVE  Expanded(list, operands) \in Seq(Entries)
<1>0. Len(operands) \in Nat
  OBVIOUS
<1>1. PICK l : IsExpansion(l, Len(operands), list, operands) /\ Expanded(list, operands) = l[Len(operands)]
  <2>1. \E f : IsExpansion(f, Len(operands), list, operands)
    BY <1>0, ExpansionExists
  <2>2. IsExpansion(CHOOSE f : IsExpansion(f, Len(operands), list, operands), Len(operands), list, operands)
    BY <2>1
  <2>3. Expanded(list, operands)
          = (CHOOSE f : IsExpansion(f, Len(operands), list, operands))[Len(operands)]
    BY DEF Expanded, IsExpansion
  <2> QED
    BY <2>2, <2>3
<1>2. \A i \in 0..Len(operands) :
         l[i] = IF i = 0 THEN list ELSE Substituted(l[i - 1], operands[i].v, With(operands[i], i))
  BY <1>1 DEF IsExpansion
<1> DEFINE Bad_ == {i \in 0..Len(operands) : l[i] \notin Seq(Entries)}
<1>3. ASSUME Bad_ # {}
      PROVE  FALSE
  <2>0. Bad_ \in SUBSET Nat
    BY <1>0
  <2>1. PICK i \in Bad_ : \A k \in Bad_ : ~(k < i)
    <3> HIDE DEF Bad_
    <3> QED
      BY <1>3, <2>0, LeastOf
  <2>2. i # 0 /\ i \in 1..Len(operands) /\ i - 1 \in 0..Len(operands) /\ i - 1 < i
    BY <1>0, <1>2, <2>1
  <2>3. l[i - 1] \in Seq(Entries)
    BY <2>1, <2>2
  <2>4. l[i] = Substituted(l[i - 1], operands[i].v, With(operands[i], i))
    BY <1>2, <2>1, <2>2
  <2>5. l[i] \in Seq(Entries)
    BY <2>2, <2>3, <2>4, SubstitutedList
  <2> QED
    BY <2>1, <2>5
<1> QED
  BY <1>0, <1>1, <1>3

-----------------------------------------------------------------------------
(* The sections that a script takes *)

LEMMA UnplacedAre ==
    ASSUME LinkInv, NEW p \in Unplaced
    PROVE  /\ p[1] \in DOMAIN compiled /\ p[2] \in DOMAIN compiled[p[1]] /\ p = <<p[1], p[2]>>
           /\ Size(p) \in Nat /\ p \in Names \X Names
<1>1. \E u, s : u \in DOMAIN compiled /\ s \in DOMAIN compiled[u] /\ p = <<u, s>>
  BY DEF Unplaced, Asked
<1>2. p[1] \in DOMAIN compiled /\ p[2] \in DOMAIN compiled[p[1]] /\ p = <<p[1], p[2]>>
  BY <1>1
<1>3. p[1] \in Names /\ p[2] \in Names
  BY <1>2 DEF LinkInv, Names
<1>4. Size(p) \in Nat
  BY <1>2 DEF LinkInv, Size
<1> QED
  BY <1>2, <1>3, <1>4

LEMMA UnplacedFinite ==
    ASSUME LinkInv
    PROVE  IsFiniteSet(Unplaced)
<1> DEFINE D == DOMAIN compiled
           Doms == {DOMAIN compiled[u] : u \in D}
<1>1. IsFiniteSet(D) /\ \A u \in D : IsFiniteSet(DOMAIN compiled[u])
  BY DEF LinkInv
<1>2. IsFiniteSet(Doms)
  <2>1. [u \in D |-> DOMAIN compiled[u]] \in Surjection(D, Doms)
    BY DEF Surjection
  <2>2. PICK f : f \in Surjection(D, Doms)
    BY <2>1
  <2> HIDE DEF D, Doms
  <2> QED
    BY <1>1, <2>2, FS_Surjection DEF ExistsSurjection
<1>3. IsFiniteSet(UNION Doms)
  BY <1>1, <1>2, FS_UNION
<1>4. IsFiniteSet(D \X UNION Doms)
  <2> HIDE DEF D, Doms
  <2> QED
    BY <1>1, <1>3, FS_Product
<1>5. Unplaced \subseteq D \X UNION Doms
  BY UnplacedAre
<1> HIDE DEF D, Doms
<1> QED
  BY <1>4, <1>5, FS_Subset

\* The section after 0, 1, ... n of those that it takes
IsLinking(f, n, sec, order) ==
    f = [i \in 0..n |-> IF i = 0 THEN [sec |-> sec, at |-> <<>>]
                        ELSE helper_section_link(f[i - 1], order[i])]

LEMMA LinkingExists ==
    ASSUME NEW n \in Nat, NEW sec, NEW order
    PROVE  \E f : IsLinking(f, n, sec, order)
<1> DEFINE Next_(x, i) == helper_section_link(x, order[i])
           Missing == {m \in 0..n : ~\E f : f = [i \in 0..m |->
                          IF i = 0 THEN [sec |-> sec, at |-> <<>>] ELSE Next_(f[i - 1], i)]}
<1>0. Missing \in SUBSET Nat
  OBVIOUS
<1> HIDE DEF Next_
<1>a. PICK first : first = [sec |-> sec, at |-> <<>>]
  OBVIOUS
<1>b. \A m \in 0..n : m \in Missing <=>
        ~\E f : f = [i \in 0..m |-> IF i = 0 THEN first ELSE Next_(f[i - 1], i)]
  BY <1>a
<1> HIDE DEF Missing
<1>1. ASSUME Missing # {}
      PROVE  FALSE
  <2>1. PICK m \in Missing : \A k \in Missing : ~(k < m)
    BY <1>0, <1>1, LeastOf
  <2>0. m \in 0..n
    BY <2>1 DEF Missing
  <2>2. m # 0
    <3>1. PICK f : f = [i \in 0..0 |-> first]
      OBVIOUS
    <3>2. f = [i \in 0..0 |-> IF i = 0 THEN first ELSE Next_(f[i - 1], i)]
      BY <3>1
    <3> QED
      BY <1>b, <2>0, <2>1, <3>2
  <2>3. m - 1 \in 0..n /\ m \in 1..n /\ ~(m - 1 \in Missing)
    <3>1. m - 1 \in 0..n /\ m \in 1..n /\ m - 1 < m
      BY <2>0, <2>2
    <3> QED
      BY <2>1, <3>1
  <2>4. PICK f : f = [i \in 0..(m - 1) |-> IF i = 0 THEN first ELSE Next_(f[i - 1], i)]
    BY <1>b, <2>3
  <2>5. PICK g : g = [i \in 0..m |-> IF i = m THEN Next_(f[m - 1], m) ELSE f[i]]
    OBVIOUS
  <2>6. \A i \in 0..m : g[i] = IF i = 0 THEN first ELSE Next_(g[i - 1], i)
    <3> SUFFICES ASSUME NEW i \in 0..m
                 PROVE  g[i] = IF i = 0 THEN first ELSE Next_(g[i - 1], i)
      OBVIOUS
    <3>1. i # m => i \in 0..(m - 1) /\ f[i] = IF i = 0 THEN first ELSE Next_(f[i - 1], i)
      BY <2>3, <2>4
    <3>2. i # 0 => i - 1 \in 0..m /\ i - 1 # m
      BY <2>3
    <3> QED
      BY <2>2, <2>3, <2>5, <3>1, <3>2
  <2>7. g = [i \in 0..m |-> IF i = 0 THEN first ELSE Next_(g[i - 1], i)]
    BY <2>5, <2>6
  <2> QED
    BY <1>b, <2>0, <2>1, <2>7
<1>2. n \in 0..n
  OBVIOUS
<1>3. \E f : f = [i \in 0..n |-> IF i = 0 THEN first ELSE Next_(f[i - 1], i)]
  BY <1>1, <1>2, <1>b
<1> QED
  BY <1>a, <1>3 DEF Next_, IsLinking

-----------------------------------------------------------------------------
(* Where the sections of the units are placed *)

\* The bytes in front of the k-th part
Before(parts, k) == Total([i \in 1..(k - 1) |-> parts[i].size])
\* The parts that were sections of the units
Theirs(parts) == {k \in 1..Len(parts) : parts[k].of # <<>>}
\* No byte of the address is without a part
Filled(s) == Total(Sizes(s.parts)) = s.address

\* What was placed is of a unit, and is not taken again
Taken(parts, results) ==
    \A k \in Theirs(parts) : LET p == parts[k].of IN
        p[1] \in DOMAIN results /\ p[2] \in DOMAIN results[p[1]] /\ ~results[p[1]][p[2]].data
Once(parts) == \A k, m \in Theirs(parts) : parts[k].of = parts[m].of => k = m

\* The maps, each with the unit that it is for
IsMaps(maps) ==
    /\ Len(maps) \in Nat
    /\ \A i \in 1..Len(maps) :
          maps[i] = [file |-> maps[i].file, alive |-> maps[i].alive, at |-> maps[i].at]
\* Every record is of a section that was placed there, in one map
Rightly(parts, maps) ==
    \A i \in 1..Len(maps) : \A x \in DOMAIN maps[i].at :
        \E k \in Theirs(parts) : parts[k].of = <<maps[i].file, x>> /\ maps[i].at[x] = Before(parts, k)
NotTwice(maps) ==
    \A i, j \in 1..Len(maps) : \A x \in DOMAIN maps[i].at \cap DOMAIN maps[j].at :
        maps[i].file = maps[j].file => i = j
\* and every section is recorded
AllRecorded(parts, maps) ==
    \A k \in Theirs(parts) : \E i \in 1..Len(maps) :
        maps[i].file = parts[k].of[1] /\ parts[k].of[2] \in DOMAIN maps[i].at

\* The parts and the records of the linked section, as every line of the script
\* leaves them; nothing is linked as long as a unit is compiled
PlacedInv ==
    /\ IsMaps(linked)
    /\ ~linking => linked = <<>>
    /\ linking =>
          LET parts == sections[".linker"].parts
          IN  /\ section = ".linker" /\ Filled(sections[".linker"])
              /\ Taken(parts, compiled) /\ Once(parts)
              /\ Rightly(parts, linked) /\ NotTwice(linked) /\ AllRecorded(parts, linked)

LEMMA BeforeSame ==
    ASSUME NEW parts, NEW longer, NEW k \in Nat,
           \A i \in 1..(k - 1) : longer[i] = parts[i]
    PROVE  Before(longer, k) = Before(parts, k)
<1>1. [i \in 1..(k - 1) |-> longer[i].size] = [i \in 1..(k - 1) |-> parts[i].size]
  OBVIOUS
<1> QED
  BY <1>1 DEF Before

\* What an added part changes
LEMMA PartAddedIs ==
    ASSUME NEW s, SectionOK(s), NEW part \in PartType, NEW n,
           n.address = s.address + part.size, n.parts = Append(s.parts, part)
    PROVE  /\ Len(n.parts) = Len(s.parts) + 1 /\ Len(s.parts) \in Nat
           /\ \A i \in 1..Len(s.parts) : n.parts[i] = s.parts[i]
           /\ n.parts[Len(s.parts) + 1] = part
           /\ Filled(s) => Filled(n)
<1>1. s.address \in Nat /\ s.parts \in Seq(PartType)
  BY DEF SectionOK
<1>2. /\ Append(s.parts, part) \in Seq(PartType)
      /\ Len(Append(s.parts, part)) = Len(s.parts) + 1
      /\ Len(s.parts) \in Nat
      /\ \A i \in 1..(Len(s.parts) + 1) :
            Append(s.parts, part)[i] = IF i = Len(s.parts) + 1 THEN part ELSE s.parts[i]
  BY <1>1, AppendProperties
<1>3. /\ Sizes(s.parts) \in Seq(Nat) /\ Sizes(Append(s.parts, part)) \in Seq(Nat)
      /\ Len(Sizes(s.parts)) = Len(s.parts)
      /\ Len(Sizes(Append(s.parts, part))) = Len(s.parts) + 1
  BY <1>1, <1>2, SizesOf
<1>4. /\ \A i \in 1..Len(s.parts) : Sizes(Append(s.parts, part))[i] = Sizes(s.parts)[i]
      /\ Sizes(Append(s.parts, part))[Len(s.parts) + 1] = part.size
  BY <1>2 DEF Sizes
<1>5. Total(Sizes(Append(s.parts, part))) = Total(Sizes(s.parts)) + part.size
  BY <1>3, <1>4, TotalAppend
<1>6. Filled(s) => Filled(n)
  BY <1>5 DEF Filled
<1>7. \A i \in 1..Len(s.parts) : n.parts[i] = s.parts[i]
  BY <1>2
<1> QED
  BY <1>2, <1>6, <1>7

\* The sum of the sizes is what stands in front of the next part
LEMMA FilledBefore ==
    ASSUME NEW s, SectionOK(s), Filled(s)
    PROVE  s.address = Before(s.parts, Len(s.parts) + 1)
<1>1. Len(s.parts) \in Nat
  BY DEF SectionOK
<1>2. (Len(s.parts) + 1) - 1 = Len(s.parts)
  BY <1>1
<1>3. Before(s.parts, Len(s.parts) + 1) = Total(Sizes(s.parts))
  BY <1>2 DEF Before, Sizes
<1> QED
  BY <1>3 DEF Filled

LEMMA SectionWithPart ==
    ASSUME NEW s, SectionOK(s), NEW part \in PartType,
           NEW t, t = [s EXCEPT !.address = @ + part.size, !.parts = Append(@, part)]
    PROVE  /\ t.address = s.address + part.size /\ t.parts = Append(s.parts, part)
           /\ t.expr = s.expr /\ SectionOK(t)
<1>1. PICK a, b, e, w : s = [address |-> a, parts |-> b, expr |-> e, bitness |-> w]
  BY DEF SectionOK
<1>2. PICK a1, b1 : a1 = s.address + part.size /\ b1 = Append(s.parts, part)
  OBVIOUS
<1>3. PICK s1 : s1 = [s EXCEPT !.address = a1]
  OBVIOUS
<1>4. s1 = [address |-> a1, parts |-> b, expr |-> e, bitness |-> w]
  BY <1>1, <1>3
<1>5. PICK s2 : s2 = [s1 EXCEPT !.parts = b1]
  OBVIOUS
<1>6. s2 = [address |-> a1, parts |-> b1, expr |-> e, bitness |-> w]
  BY <1>4, <1>5
<1>7. t = s2
  BY <1>2, <1>3, <1>5, Zenon
<1>8. s2.address = a1 /\ s2.parts = b1 /\ s2.expr = s.expr
  BY <1>1, <1>6
<1>9. [s2 EXCEPT !.expr = e] = s2 /\ s.expr = e
  BY <1>1, <1>6
<1>10. part.size \in Nat /\ part.size <= part.size
  BY DEF PartType
<1>11. SectionOK([s EXCEPT !.address = @ + part.size, !.parts = Append(@, part), !.expr = e])
  <2>1. PICK d : d = part.size
    OBVIOUS
  <2>2. SectionOK([s EXCEPT !.address = @ + d, !.parts = Append(@, part), !.expr = e])
    BY <1>10, <2>1, PartAdded
  <2> QED
    BY <2>1, <2>2, Zenon
<1>12. [s EXCEPT !.address = @ + part.size, !.parts = Append(@, part), !.expr = e] = [s2 EXCEPT !.expr = e]
  BY <1>2, <1>3, <1>5, Zenon
<1>13. SectionOK(t)
  BY <1>7, <1>9, <1>11, <1>12, Zenon
<1> QED
  BY <1>2, <1>7, <1>8, <1>13, Zenon

\* The sections after the first i of an order are linked
LinkedUpTo(i, x, sec, order) ==
    LET n == Len(sec.parts)
    IN  /\ SectionOK(x.sec)
        /\ Filled(sec) => Filled(x.sec)
        /\ x.sec.expr = sec.expr
        /\ Len(x.sec.parts) = n + i
        /\ \A j \in 1..n : x.sec.parts[j] = sec.parts[j]
        /\ \A k \in 1..i :
              /\ x.sec.parts[n + k] = [size |-> Size(order[k]), of |-> order[k]]
              /\ order[k] \in DOMAIN x.at
              /\ Filled(sec) => x.at[order[k]] = Before(x.sec.parts, n + k)

LEMMA LinkPlaces ==
    ASSUME LinkInv, NEW sec, SectionOK(sec), NEW order \in Seq(Unplaced),
           \A i, j \in 1..Len(order) : order[i] = order[j] => i = j
    PROVE  LinkedUpTo(Len(order), Link(sec, order), sec, order)
<1>0. Len(order) \in Nat /\ \A i \in 1..Len(order) : order[i] \in Unplaced
  OBVIOUS
<1>1. PICK st : IsLinking(st, Len(order), sec, order) /\ Link(sec, order) = st[Len(order)]
  <2>1. \E f : IsLinking(f, Len(order), sec, order)
    BY <1>0, LinkingExists
  <2>2. IsLinking(CHOOSE f : IsLinking(f, Len(order), sec, order), Len(order), sec, order)
    BY <2>1
  <2>3. Link(sec, order) = (CHOOSE f : IsLinking(f, Len(order), sec, order))[Len(order)]
    BY DEF Link, IsLinking
  <2> QED
    BY <2>2, <2>3
<1>2. \A i \in 0..Len(order) :
         st[i] = IF i = 0 THEN [sec |-> sec, at |-> <<>>] ELSE helper_section_link(st[i - 1], order[i])
  BY <1>1 DEF IsLinking
<1> DEFINE Bad_ == {i \in 0..Len(order) : ~LinkedUpTo(i, st[i], sec, order)}
<1>3. ASSUME Bad_ # {}
      PROVE  FALSE
  <2>0. Bad_ \in SUBSET Nat
    BY <1>0
  <2>1. PICK i \in Bad_ : \A k \in Bad_ : ~(k < i)
    <3> HIDE DEF Bad_
    <3> QED
      BY <1>3, <2>0, LeastOf
  <2>a. Len(sec.parts) \in Nat
    BY DEF SectionOK
  <2>2. i # 0
    <3>1. ASSUME i = 0
          PROVE  FALSE
      <4>1. st[0].sec = sec
        BY <1>0, <1>2
      <4>2. LinkedUpTo(0, st[0], sec, order)
        BY <2>a, <4>1 DEF LinkedUpTo
      <4> QED
        BY <2>1, <3>1, <4>2
    <3> QED
      BY <3>1
  <2>3. i \in 1..Len(order) /\ i - 1 \in 0..Len(order) /\ i - 1 < i
    BY <1>0, <2>1, <2>2
  <2>4. LinkedUpTo(i - 1, st[i - 1], sec, order)
    BY <2>1, <2>3
  <2>5. PICK p, s, part, n :
           /\ p = order[i] /\ s = st[i - 1].sec /\ part = [size |-> Size(p), of |-> p]
           /\ n = Len(sec.parts)
    OBVIOUS
  <2>6. p \in Unplaced /\ Size(p) \in Nat /\ p \in Names \X Names
    BY <1>0, <2>3, <2>5, UnplacedAre
  <2>7. part \in PartType /\ part.size = Size(p)
    BY <2>5, <2>6 DEF PartType
  <2>8. /\ SectionOK(s) /\ (Filled(sec) => Filled(s)) /\ Len(s.parts) = n + (i - 1)
        /\ s.expr = sec.expr
    BY <2>4, <2>5 DEF LinkedUpTo
  <2>9. PICK t : t = [s EXCEPT !.address = @ + part.size, !.parts = Append(@, part)]
    OBVIOUS
  <2>10. st[i] = [sec |-> t, at |-> Put(st[i - 1].at, p, s.address)]
    <3>1. st[i] = helper_section_link(st[i - 1], p)
      BY <1>2, <2>1, <2>2, <2>5
    <3> QED
      BY <2>5, <2>7, <2>9, <3>1, Zenon DEF helper_section_link
  <2>11. /\ t.address = s.address + part.size /\ t.parts = Append(s.parts, part)
         /\ t.expr = s.expr /\ SectionOK(t)
    <3>1. SectionOK(s) /\ part \in PartType
      BY <2>7, <2>8
    <3> QED
      BY <2>9, <3>1, SectionWithPart
  <2>12. /\ Len(t.parts) = Len(s.parts) + 1 /\ Len(s.parts) \in Nat
         /\ \A k \in 1..Len(s.parts) : t.parts[k] = s.parts[k]
         /\ t.parts[Len(s.parts) + 1] = part
         /\ Filled(sec) => Filled(t)
    BY <2>7, <2>8, <2>11, PartAddedIs
  <2>13. Len(t.parts) = n + i /\ t.parts[n + i] = part /\ n \in Nat /\ i \in Nat
    BY <2>3, <2>5, <2>8, <2>12, <2>a
  <2>14. \A j \in 1..n : t.parts[j] = sec.parts[j]
    <3>1. \A j \in 1..n : j \in 1..Len(s.parts) /\ s.parts[j] = sec.parts[j]
      <4>1. \A j \in 1..n : s.parts[j] = sec.parts[j]
        BY <2>4, <2>5 DEF LinkedUpTo
      <4>2. n + (i - 1) >= n
        BY <2>3, <2>13
      <4> QED
        BY <2>8, <2>13, <4>1, <4>2
    <3> QED
      BY <2>12, <3>1
  <2>15. ASSUME NEW k \in 1..i
         PROVE  /\ t.parts[n + k] = [size |-> Size(order[k]), of |-> order[k]]
                /\ order[k] \in DOMAIN Put(st[i - 1].at, p, s.address)
                /\ Filled(sec) => Put(st[i - 1].at, p, s.address)[order[k]] = Before(t.parts, n + k)
    <3>1. CASE k = i
      <4>1. t.parts[n + k] = [size |-> Size(order[k]), of |-> order[k]]
        BY <2>5, <2>13, <3>1
      <4>2. Filled(sec) => s.address = Before(s.parts, Len(s.parts) + 1)
        BY <2>8, FilledBefore
      <4>3. Before(t.parts, Len(s.parts) + 1) = Before(s.parts, Len(s.parts) + 1)
        <5>1. PICK a, b, m : a = s.parts /\ b = t.parts /\ m = Len(s.parts) + 1
          OBVIOUS
        <5>2. m \in Nat /\ \A j \in 1..(m - 1) : b[j] = a[j]
          BY <2>12, <5>1
        <5> QED
          BY <5>1, <5>2, BeforeSame
      <4>4. p \in DOMAIN Put(st[i - 1].at, p, s.address) /\ Put(st[i - 1].at, p, s.address)[p] = s.address
        BY DEF Put
      <4>5. Len(s.parts) + 1 = n + k
        BY <2>8, <2>13, <3>1
      <4> QED
        BY <2>5, <3>1, <4>1, <4>2, <4>3, <4>4, <4>5
    <3>2. CASE k # i
      <4>1. k \in 1..(i - 1) /\ n + k \in 1..Len(s.parts)
        BY <2>8, <2>13, <3>2
      <4>2. /\ s.parts[n + k] = [size |-> Size(order[k]), of |-> order[k]]
            /\ order[k] \in DOMAIN st[i - 1].at
            /\ Filled(sec) => st[i - 1].at[order[k]] = Before(s.parts, n + k)
        BY <2>4, <2>5, <4>1 DEF LinkedUpTo
      <4>3. order[k] # p
        BY <1>0, <2>3, <2>5, <3>2
      <4>5. /\ order[k] \in DOMAIN Put(st[i - 1].at, p, s.address)
            /\ Put(st[i - 1].at, p, s.address)[order[k]] = st[i - 1].at[order[k]]
        BY <4>2, <4>3 DEF Put
      <4>6. Before(t.parts, n + k) = Before(s.parts, n + k)
        <5>1. PICK a, b, m : a = s.parts /\ b = t.parts /\ m = n + k
          OBVIOUS
        <5>2. m \in Nat /\ \A j \in 1..(m - 1) : b[j] = a[j]
          BY <2>12, <2>13, <4>1, <5>1
        <5> QED
          BY <5>1, <5>2, BeforeSame
      <4>7. t.parts[n + k] = s.parts[n + k]
        BY <2>12, <4>1
      <4> QED
        BY <4>2, <4>5, <4>6, <4>7
    <3> QED
      BY <3>1, <3>2
  <2>16. LinkedUpTo(i, st[i], sec, order)
    <3>1. st[i].sec = t /\ st[i].at = Put(st[i - 1].at, p, s.address)
      BY <2>10
    <3> QED
      BY <2>5, <2>8, <2>11, <2>12, <2>13, <2>14, <2>15, <3>1 DEF LinkedUpTo
  <2> QED
    BY <2>1, <2>16
<1> QED
  BY <1>0, <1>1, <1>3

-----------------------------------------------------------------------------
(* SetToSeq and SetToSeqs: every element once *)
LEMMA EachOnce ==
    ASSUME NEW S, IsFiniteSet(S), NEW f \in [1..Cardinality(S) -> S], IsInjective(f)
    PROVE  /\ f \in Seq(S) /\ \A i, j \in 1..Len(f) : f[i] = f[j] => i = j
           /\ \A x \in S : \E i \in 1..Len(f) : f[i] = x
<1> DEFINE n == Cardinality(S)
<1>1. n \in Nat
  BY FS_CardinalityType
<1>2. IsFiniteSet(1..n) /\ Cardinality(1..n) = n
  BY <1>1, FS_Interval
<1>3. \A a, b \in DOMAIN f : f[a] = f[b] => a = b
  BY DEF IsInjective
<1> HIDE DEF n
<1>a. f \in [1..n -> S]
  BY DEF n
<1>4. f \in Injection(1..n, S)
  BY <1>a, <1>3 DEF Injection, IsInjective
<1>5. f \in Surjection(1..n, S)
  <2>1. Cardinality(1..n) = Cardinality(S)
    BY <1>2 DEF n
  <2> QED
    BY <1>4, <2>1, FS_Injection
<1>6. \A x \in S : \E i \in 1..n : f[i] = x
  BY <1>5 DEF Surjection
<1>7. f \in Seq(S) /\ Len(f) = n
  BY <1>1, <1>a
<1> QED
  BY <1>a, <1>3, <1>6, <1>7

LEMMA SetToSeqIs ==
    ASSUME NEW S, IsFiniteSet(S)
    PROVE  /\ SetToSeq(S) \in Seq(S)
           /\ \A i, j \in 1..Len(SetToSeq(S)) : SetToSeq(S)[i] = SetToSeq(S)[j] => i = j
           /\ \A x \in S : \E i \in 1..Len(SetToSeq(S)) : SetToSeq(S)[i] = x
<1>1. ExistsBijection(1..Cardinality(S), S)
  BY FS_CardinalityType
<1>2. PICK g \in [1..Cardinality(S) -> S] : IsInjective(g)
  BY <1>1 DEF ExistsBijection, Bijection, Injection, IsInjective
<1>3. SetToSeq(S) \in [1..Cardinality(S) -> S] /\ IsInjective(SetToSeq(S))
  BY <1>2 DEF SetToSeq
<1> QED
  BY <1>3, EachOnce

LEMMA OrderTakesEachOnce ==
    ASSUME LinkInv, NEW order \in Orders(Unplaced)
    PROVE  /\ order \in Seq(Unplaced) /\ \A i, j \in 1..Len(order) : order[i] = order[j] => i = j
           /\ \A p \in Unplaced : \E i \in 1..Len(order) : order[i] = p
<1> DEFINE D == 1..Cardinality(Unplaced)
<1>1. order \in [D -> Unplaced] /\ \A i, j \in D : i # j => order[i] # order[j]
  BY DEF Orders, SetToSeqs
<1>2. IsInjective(order)
  BY <1>1 DEF IsInjective
<1>3. PICK S : S = Unplaced
  OBVIOUS
<1>4. IsFiniteSet(S) /\ order \in [1..Cardinality(S) -> S]
  BY <1>1, <1>3, UnplacedFinite
<1>5. /\ order \in Seq(S) /\ \A i, j \in 1..Len(order) : order[i] = order[j] => i = j
      /\ \A p \in S : \E i \in 1..Len(order) : order[i] = p
  BY <1>2, <1>4, EachOnce
<1> QED
  BY <1>3, <1>5

-----------------------------------------------------------------------------
(* The records of the sections that a line of the script takes *)

LEMMA ItsIs ==
    ASSUME LinkInv, NEW u, NEW at
    PROVE  /\ \A x : x \in DOMAIN Its(u, at) <=> <<u, x>> \in Unplaced
           /\ \A x \in DOMAIN Its(u, at) : Its(u, at)[x] = at[<<u, x>>]
<1>1. DOMAIN Its(u, at) = {p[2] : p \in {q \in Unplaced : q[1] = u}}
  BY DEF Its
<1>2. ASSUME NEW x \in DOMAIN Its(u, at)
      PROVE  <<u, x>> \in Unplaced
  <2>1. PICK p \in Unplaced : p[1] = u /\ p[2] = x
    BY <1>1
  <2>2. p = <<p[1], p[2]>>
    BY UnplacedAre
  <2> QED
    BY <2>1, <2>2
<1>3. ASSUME NEW x, <<u, x>> \in Unplaced
      PROVE  x \in DOMAIN Its(u, at)
  <2>1. <<u, x>>[1] = u /\ <<u, x>>[2] = x
    OBVIOUS
  <2> QED
    BY <1>1, <1>3, <2>1
<1>4. \A x \in DOMAIN Its(u, at) : Its(u, at)[x] = at[<<u, x>>]
  BY DEF Its
<1> QED
  BY <1>2, <1>3, <1>4

\* `to` says in which map each unit's sections are recorded
IsRecord(to, units, at, maps) ==
    /\ \A u \in units : maps[to[u]].file = u
    /\ \A i \in 1..Len(maps) : \A x, p : p = <<maps[i].file, x>> =>
          /\ x \in DOMAIN maps[i].at <=>
                \/ i <= Len(linked) /\ x \in DOMAIN linked[i].at
                \/ p \in Unplaced /\ to[p[1]] = i
          /\ x \in DOMAIN maps[i].at =>
                maps[i].at[x] = IF p \in Unplaced /\ to[p[1]] = i THEN at[p] ELSE linked[i].at[x]

LEMMA RecordedIs ==
    ASSUME LinkInv, IsMaps(linked), NEW at, NEW alive,
           NEW map \in [{p[1] : p \in Unplaced} -> 0..Len(linked)],
           \A u \in DOMAIN map : Found(u, map[u]),
           NEW maps, maps = Recorded(at, map, alive)
    PROVE  /\ IsMaps(maps) /\ Len(maps) >= Len(linked)
           /\ \A i \in 1..Len(linked) : maps[i].file = linked[i].file
           /\ \E to \in [DOMAIN map -> 1..Len(maps)] : IsRecord(to, DOMAIN map, at, maps)
<1> DEFINE n == Len(linked)
           units == DOMAIN map
           Z == {u \in units : map[u] = 0}
<1>1. n \in Nat /\ units = {p[1] : p \in Unplaced} /\ \A u \in units : map[u] \in 0..n
  BY DEF IsMaps
<1>2. PICK new : new = SetToSeq(Z)
  OBVIOUS
<1>3. /\ new \in Seq(Z) /\ \A i, j \in 1..Len(new) : new[i] = new[j] => i = j
      /\ \A u \in Z : \E i \in 1..Len(new) : new[i] = u
  <2>1. units \subseteq DOMAIN compiled
    BY <1>1, UnplacedAre
  <2>2. IsFiniteSet(Z)
    <3>1. IsFiniteSet(DOMAIN compiled) /\ Z \in SUBSET DOMAIN compiled
      BY <2>1 DEF LinkInv
    <3> HIDE DEF Z
    <3> QED
      BY <3>1, FS_Subset
  <2> HIDE DEF Z
  <2> QED
    BY <1>2, <2>2, SetToSeqIs
<1> DEFINE Old(i) == IF linked[i].file \in units /\ map[linked[i].file] = i
                     THEN [linked[i] EXCEPT !.at = AllPut(@, Its(linked[i].file, at))]
                     ELSE linked[i]
           More(i) == [file |-> new[i], alive |-> alive, at |-> Its(new[i], at)]
<1>6. maps = [i \in 1..n |-> Old(i)] \o [i \in 1..Len(new) |-> More(i)]
  BY <1>2, Zenon DEF Recorded
<1>a. Len(new) \in Nat /\ \A i \in 1..Len(new) : new[i] \in units /\ map[new[i]] = 0
  BY <1>3
<1>7. /\ Len(maps) = n + Len(new) /\ DOMAIN maps = 1..Len(maps)
      /\ \A i \in 1..n : maps[i] = Old(i)
      /\ \A i \in 1..Len(new) : maps[n + i] = More(i)
  <2> DEFINE S == {Old(i) : i \in 1..n} \cup {More(i) : i \in 1..Len(new)}
  <2>a. \A i \in 1..n : Old(i) \in S
    OBVIOUS
  <2>b. \A i \in 1..Len(new) : More(i) \in S
    OBVIOUS
  <2> HIDE DEF S, Old, More
  <2>1. PICK old, more : old = [i \in 1..n |-> Old(i)] /\ more = [i \in 1..Len(new) |-> More(i)]
    OBVIOUS
  <2>2. old \in Seq(S) /\ Len(old) = n /\ more \in Seq(S) /\ Len(more) = Len(new)
    <3>1. n \in Nat /\ Len(new) \in Nat
      BY <1>1, <1>a
    <3> HIDE DEF n
    <3> QED
      BY <2>1, <2>a, <2>b, <3>1
  <2>c. old \o more \in Seq(S)
    BY <2>2, ConcatProperties
  <2>3. /\ DOMAIN maps = 1..Len(maps) /\ Len(maps) = n + Len(new)
        /\ \A i \in 1..(n + Len(new)) : maps[i] = IF i <= n THEN old[i] ELSE more[i - n]
    <3>1. maps = old \o more
      BY <1>6, <2>1
    <3> QED
      BY <2>2, <2>c, <3>1, ConcatProperties
  <2>4. \A i \in 1..n : i \in 1..(n + Len(new)) /\ i <= n
    BY <1>1, <1>a
  <2>5. \A i \in 1..Len(new) : n + i \in 1..(n + Len(new)) /\ ~(n + i <= n) /\ (n + i) - n = i
    BY <1>1, <1>a
  <2>6. (\A i \in 1..n : old[i] = Old(i)) /\ \A j \in 1..Len(new) : more[j] = More(j)
    BY <2>1
  <2> QED
    BY <2>3, <2>4, <2>5, <2>6
<1>8. ASSUME NEW i \in 1..n
      PROVE  /\ maps[i] = [file |-> maps[i].file, alive |-> maps[i].alive, at |-> maps[i].at]
             /\ maps[i].file = linked[i].file
             /\ maps[i].at = IF linked[i].file \in units /\ map[linked[i].file] = i
                             THEN AllPut(linked[i].at, Its(linked[i].file, at)) ELSE linked[i].at
  <2>1. PICK r : r = linked[i] /\ r = [file |-> r.file, alive |-> r.alive, at |-> r.at]
    BY DEF IsMaps
  <2>2. PICK its : its = AllPut(r.at, Its(r.file, at))
    OBVIOUS
  <2>3. PICK s : s = [r EXCEPT !.at = its]
    OBVIOUS
  <2>4. s = [file |-> r.file, alive |-> r.alive, at |-> its]
    BY <2>1, <2>3
  <2>5. maps[i] = IF r.file \in units /\ map[r.file] = i THEN s ELSE r
    <3>1. maps[i] = IF linked[i].file \in units /\ map[linked[i].file] = i
                    THEN [linked[i] EXCEPT !.at = AllPut(@, Its(linked[i].file, at))]
                    ELSE linked[i]
      BY <1>7
    <3> QED
      BY <2>1, <2>2, <2>3, <3>1, Zenon
  <2> QED
    BY <2>1, <2>2, <2>4, <2>5
<1>9. ASSUME NEW j \in 1..Len(new), NEW i, i = n + j
      PROVE  /\ maps[i] = [file |-> maps[i].file, alive |-> maps[i].alive, at |-> maps[i].at]
             /\ maps[i].file = new[j] /\ maps[i].at = Its(new[j], at)
  <2>1. maps[i] = More(j)
    BY <1>7, <1>9
  <2>2. PICK r : r = [file |-> new[j], alive |-> alive, at |-> Its(new[j], at)]
    OBVIOUS
  <2>3. maps[i] = r
    BY <2>1, <2>2
  <2> QED
    BY <2>2, <2>3
<1> HIDE DEF units, n, Z, Old, More
<1>10. PICK to : to = [u \in units |-> IF map[u] # 0 THEN map[u] ELSE n + (CHOOSE j \in 1..Len(new) : new[j] = u)]
  OBVIOUS
<1>11. ASSUME NEW u \in units
       PROVE  \/ map[u] # 0 /\ to[u] = map[u] /\ to[u] \in 1..n /\ linked[to[u]].file = u
              \/ map[u] = 0 /\ \E j \in 1..Len(new) : to[u] = n + j /\ new[j] = u
  <2>1. CASE map[u] # 0
    <3>1. map[u] \in Matches(u)
      BY <2>1 DEF Found, units
    <3> QED
      BY <1>1, <1>10, <2>1, <3>1 DEF Matches
  <2>2. CASE map[u] = 0
    <3>1. u \in Z
      BY <2>2 DEF Z
    <3>2. \E j \in 1..Len(new) : new[j] = u
      BY <1>3, <3>1
    <3>3. PICK j : j = (CHOOSE k \in 1..Len(new) : new[k] = u)
      OBVIOUS
    <3>4. j \in 1..Len(new) /\ new[j] = u
      BY <3>2, <3>3
    <3>5. to[u] = n + j
      BY <1>10, <2>2, <3>3
    <3> QED
      BY <2>2, <3>4, <3>5
  <2> QED
    BY <2>1, <2>2
<1>12. \A u \in units : to[u] \in 1..Len(maps) /\ maps[to[u]].file = u
  <2>1. ASSUME NEW u \in units, map[u] # 0
        PROVE  to[u] \in 1..Len(maps) /\ maps[to[u]].file = u
    <3>1. to[u] \in 1..n /\ linked[to[u]].file = u
      BY <1>11, <2>1
    <3>2. maps[to[u]].file = u
      BY <1>8, <3>1
    <3>3. Len(maps) = n + Len(new)
      BY <1>7
    <3>4. 1..n \subseteq 1..(n + Len(new))
      BY <1>1, <1>a
    <3> QED
      BY <3>1, <3>2, <3>3, <3>4
  <2>2. ASSUME NEW u \in units, map[u] = 0
        PROVE  to[u] \in 1..Len(maps) /\ maps[to[u]].file = u
    <3>1. PICK j \in 1..Len(new) : to[u] = n + j /\ new[j] = u
      BY <1>11, <2>2
    <3>2. maps[to[u]].file = u
      BY <1>9, <3>1
    <3>3. Len(maps) = n + Len(new)
      BY <1>7
    <3>4. n + j \in 1..(n + Len(new))
      BY <1>1, <1>a
    <3> QED
      BY <3>1, <3>2, <3>3, <3>4
  <2> QED
    BY <2>1, <2>2
<1>13. \A u \in units : \A i \in 1..n : to[u] = i <=> map[u] = i
  BY <1>1, <1>11, <1>a
<1>14. \A j \in 1..Len(new) : new[j] \in units /\ to[new[j]] = n + j
  <2> SUFFICES ASSUME NEW j \in 1..Len(new)
               PROVE  new[j] \in units /\ to[new[j]] = n + j
    OBVIOUS
  <2>1. new[j] \in units /\ map[new[j]] = 0
    BY <1>a
  <2>2. PICK k \in 1..Len(new) : to[new[j]] = n + k /\ new[k] = new[j]
    BY <1>11, <2>1
  <2>3. k = j
    BY <1>3, <2>2
  <2> QED
    BY <2>1, <2>2, <2>3
<1>15. \A p \in Unplaced : p[1] \in units
  BY <1>1
<1>16. ASSUME NEW i \in 1..n, NEW x, NEW p, p = <<maps[i].file, x>>
       PROVE  /\ x \in DOMAIN maps[i].at <=> x \in DOMAIN linked[i].at \/ (p \in Unplaced /\ to[p[1]] = i)
              /\ x \in DOMAIN maps[i].at =>
                    maps[i].at[x] = IF p \in Unplaced /\ to[p[1]] = i THEN at[p] ELSE linked[i].at[x]
  <2>1. PICK u, its : u = linked[i].file /\ its = Its(u, at)
    OBVIOUS
  <2>2. p = <<u, x>> /\ p[1] = u
    BY <1>8, <1>16, <2>1
  <2>3. (x \in DOMAIN its <=> p \in Unplaced) /\ (x \in DOMAIN its => its[x] = at[p])
    BY <2>1, <2>2, ItsIs
  <2>4. CASE u \in units /\ map[u] = i
    <3>1. maps[i].at = AllPut(linked[i].at, its)
      BY <1>8, <2>1, <2>4
    <3>2. to[p[1]] = i
      BY <1>13, <2>2, <2>4
    <3> QED
      BY <2>3, <3>1, <3>2 DEF AllPut
  <2>5. CASE ~(u \in units /\ map[u] = i)
    <3>1. maps[i].at = linked[i].at
      BY <1>8, <2>1, <2>5
    <3>2. ~(p \in Unplaced /\ to[p[1]] = i)
      BY <1>13, <1>15, <2>2, <2>5
    <3> QED
      BY <3>1, <3>2
  <2> QED
    BY <2>4, <2>5
<1>17. ASSUME NEW j \in 1..Len(new), NEW i, i = n + j, NEW x, NEW p, p = <<maps[i].file, x>>
       PROVE  /\ x \in DOMAIN maps[i].at <=> p \in Unplaced /\ to[p[1]] = i
              /\ x \in DOMAIN maps[i].at => maps[i].at[x] = at[p]
  <2>1. maps[i].file = new[j] /\ maps[i].at = Its(new[j], at)
    BY <1>9, <1>17
  <2>2. p = <<new[j], x>> /\ p[1] = new[j]
    BY <1>17, <2>1
  <2> QED
    BY <1>14, <1>17, <2>1, <2>2, ItsIs
<1>18. \A i \in 1..Len(maps) : i \in 1..n \/ \E j \in 1..Len(new) : i = n + j
  <2>1. ASSUME NEW i \in 1..Len(maps), i \notin 1..n
        PROVE  \E j \in 1..Len(new) : i = n + j
    <3>1. i - n \in 1..Len(new) /\ i = n + (i - n)
      BY <1>1, <1>7, <1>a, <2>1
    <3> QED
      BY <3>1
  <2> QED
    BY <2>1
<1>19. ASSUME NEW i \in 1..Len(maps), NEW x, NEW p, p = <<maps[i].file, x>>
       PROVE  /\ x \in DOMAIN maps[i].at <=>
                    (i <= n /\ x \in DOMAIN linked[i].at) \/ (p \in Unplaced /\ to[p[1]] = i)
              /\ x \in DOMAIN maps[i].at =>
                    maps[i].at[x] = IF p \in Unplaced /\ to[p[1]] = i THEN at[p] ELSE linked[i].at[x]
  <2>1. CASE i \in 1..n
    BY <1>1, <1>16, <1>19, <2>1
  <2>2. CASE \E j \in 1..Len(new) : i = n + j
    <3>1. PICK j \in 1..Len(new) : i = n + j
      BY <2>2
    <3>2. ~(i <= n)
      BY <1>1, <1>a, <3>1
    <3> QED
      BY <1>17, <1>19, <3>1, <3>2
  <2> QED
    BY <1>18, <2>1, <2>2
<1>20. IsRecord(to, units, at, maps) /\ to \in [units -> 1..Len(maps)]
  <2>1. to \in [units -> 1..Len(maps)]
    BY <1>10, <1>12
  <2>2. \A u \in units : maps[to[u]].file = u
    BY <1>12
  <2>3. \A i \in 1..Len(maps) : \A x, p : p = <<maps[i].file, x>> =>
          /\ x \in DOMAIN maps[i].at <=>
                (i <= n /\ x \in DOMAIN linked[i].at) \/ (p \in Unplaced /\ to[p[1]] = i)
          /\ x \in DOMAIN maps[i].at =>
                maps[i].at[x] = IF p \in Unplaced /\ to[p[1]] = i THEN at[p] ELSE linked[i].at[x]
    BY <1>19
  <2> QED
    BY <2>1, <2>2, <2>3 DEF IsRecord, n
<1>21. IsMaps(maps)
  <2>1. \A i \in 1..Len(maps) : maps[i] = [file |-> maps[i].file, alive |-> maps[i].alive, at |-> maps[i].at]
    BY <1>8, <1>9, <1>18
  <2>3. Len(maps) \in Nat
    BY <1>1, <1>7, <1>a
  <2> QED
    BY <2>1, <2>3 DEF IsMaps
<1>22. Len(maps) >= n
  BY <1>1, <1>7, <1>a
<1> QED
  BY <1>8, <1>20, <1>21, <1>22 DEF n, units

LEMMA RecordOf ==
    ASSUME NEW to, NEW units, NEW at, NEW maps, IsRecord(to, units, at, maps),
           NEW i \in 1..Len(maps), NEW x, NEW p, p = <<maps[i].file, x>>
    PROVE  /\ x \in DOMAIN maps[i].at <=>
                 \/ i <= Len(linked) /\ x \in DOMAIN linked[i].at
                 \/ p \in Unplaced /\ to[p[1]] = i
           /\ x \in DOMAIN maps[i].at =>
                 maps[i].at[x] = IF p \in Unplaced /\ to[p[1]] = i THEN at[p] ELSE linked[i].at[x]
BY DEF IsRecord

\* A line `file`: its sections are placed behind those that were, and recorded
LEMMA SectionsPlaced ==
    ASSUME LinkInv, IsMaps(linked), NEW alive, NEW sec, SectionOK(sec), Filled(sec),
           Taken(sec.parts, compiled), Once(sec.parts),
           Rightly(sec.parts, linked), NotTwice(linked), AllRecorded(sec.parts, linked),
           NEW order \in Orders(Unplaced), NEW st, st = Link(sec, order),
           NEW map \in [{p[1] : p \in Unplaced} -> 0..Len(linked)],
           \A u \in DOMAIN map : Found(u, map[u]),
           NEW maps, maps = Recorded(st.at, map, alive),
           NEW results, DOMAIN results = DOMAIN compiled,
           \A u \in DOMAIN results : DOMAIN results[u] = DOMAIN compiled[u],
           \A u \in DOMAIN results : \A s \in DOMAIN results[u] :
              results[u][s].data => compiled[u][s].data /\ <<u, s>> \notin Unplaced
    PROVE  /\ IsMaps(maps) /\ Filled(st.sec)
           /\ Taken(st.sec.parts, results) /\ Once(st.sec.parts)
           /\ Rightly(st.sec.parts, maps) /\ NotTwice(maps) /\ AllRecorded(st.sec.parts, maps)
<1>1. /\ order \in Seq(Unplaced) /\ \A i, j \in 1..Len(order) : order[i] = order[j] => i = j
      /\ \A p \in Unplaced : \E i \in 1..Len(order) : order[i] = p
  BY OrderTakesEachOnce
<1>2. LinkedUpTo(Len(order), st, sec, order)
  BY <1>1, LinkPlaces
<1>3. PICK old, parts, n, m : old = sec.parts /\ parts = st.sec.parts /\ n = Len(old) /\ m = Len(order)
  OBVIOUS
<1>4. n \in Nat /\ m \in Nat /\ old \in Seq(PartType)
  BY <1>1, <1>3 DEF SectionOK
<1>5. /\ Filled(st.sec) /\ Len(parts) = n + m
      /\ \A j \in 1..n : parts[j] = old[j]
      /\ \A k \in 1..m : /\ parts[n + k] = [size |-> Size(order[k]), of |-> order[k]]
                         /\ st.at[order[k]] = Before(parts, n + k)
  BY <1>2, <1>3 DEF LinkedUpTo
<1>6. \A k \in 1..m : /\ n + k \in Theirs(parts) /\ parts[n + k].of = order[k]
                      /\ order[k] \in Unplaced /\ order[k] = <<order[k][1], order[k][2]>>
  <2> SUFFICES ASSUME NEW k \in 1..m
               PROVE  /\ n + k \in Theirs(parts) /\ parts[n + k].of = order[k]
                      /\ order[k] \in Unplaced /\ order[k] = <<order[k][1], order[k][2]>>
    OBVIOUS
  <2>1. order[k] \in Unplaced
    BY <1>1, <1>3
  <2>2. order[k] = <<order[k][1], order[k][2]>>
    BY <2>1, UnplacedAre
  <2>3. order[k] # <<>>
    BY <2>2
  <2>4. parts[n + k].of = order[k]
    <3>1. PICK r : r = [size |-> Size(order[k]), of |-> order[k]]
      OBVIOUS
    <3>2. r.of = order[k] /\ parts[n + k] = r
      BY <1>5, <3>1
    <3> QED
      BY <3>2
  <2>5. n + k \in 1..(n + m)
    BY <1>4
  <2> QED
    BY <1>5, <2>1, <2>2, <2>3, <2>4, <2>5 DEF Theirs
<1>7. \A k \in Theirs(old) : /\ k \in Theirs(parts) /\ parts[k] = old[k] /\ k \in 1..n
                             /\ Before(parts, k) = Before(old, k)
  <2> SUFFICES ASSUME NEW k \in Theirs(old)
               PROVE  /\ k \in Theirs(parts) /\ parts[k] = old[k] /\ k \in 1..n
                      /\ Before(parts, k) = Before(old, k)
    OBVIOUS
  <2>1. k \in 1..n /\ old[k].of # <<>>
    BY <1>3 DEF Theirs
  <2>2. parts[k] = old[k] /\ k \in 1..(n + m) /\ k \in Nat
    BY <1>4, <1>5, <2>1
  <2>3. \A j \in 1..(k - 1) : parts[j] = old[j]
    BY <1>4, <1>5, <2>1
  <2>4. Before(parts, k) = Before(old, k)
    BY <2>2, <2>3, BeforeSame
  <2> QED
    BY <1>5, <2>1, <2>2, <2>4 DEF Theirs
<1>8. \A k \in Theirs(parts) : k \in Theirs(old) \/ \E i \in 1..m : k = n + i
  <2> SUFFICES ASSUME NEW k \in Theirs(parts), k \notin Theirs(old)
               PROVE  \E i \in 1..m : k = n + i
    OBVIOUS
  <2>1. k \in 1..(n + m) /\ parts[k].of # <<>>
    BY <1>5 DEF Theirs
  <2>2. k \notin 1..n
    BY <1>3, <1>5, <2>1 DEF Theirs
  <2>3. k - n \in 1..m /\ k = n + (k - n)
    BY <1>4, <2>1, <2>2
  <2> QED
    BY <2>3
<1>9. \A k \in Theirs(old) : old[k].of \notin Unplaced
  BY <1>3 DEF Taken, Unplaced
<1>10. \A k \in Theirs(old) : old[k].of = <<old[k].of[1], old[k].of[2]>>
  <2> SUFFICES ASSUME NEW k \in Theirs(old)
               PROVE  old[k].of = <<old[k].of[1], old[k].of[2]>>
    OBVIOUS
  <2>1. old[k] \in PartType /\ old[k].of # <<>>
    BY <1>4 DEF Theirs
  <2>2. old[k].of \in Names \X Names
    BY <2>1 DEF PartType
  <2> QED
    BY <2>2
<1>a. PICK at, units : at = st.at /\ units = DOMAIN map
  OBVIOUS
<1>11. PICK to : /\ to \in [units -> 1..Len(maps)] /\ IsRecord(to, units, at, maps)
                 /\ IsMaps(maps) /\ Len(maps) >= Len(linked)
                 /\ \A i \in 1..Len(linked) : maps[i].file = linked[i].file
  <2>1. maps = Recorded(at, map, alive)
    BY <1>a
  <2>2. /\ IsMaps(maps) /\ Len(maps) >= Len(linked)
        /\ \A i \in 1..Len(linked) : maps[i].file = linked[i].file
        /\ \E to \in [DOMAIN map -> 1..Len(maps)] : IsRecord(to, DOMAIN map, at, maps)
    BY <2>1, RecordedIs
  <2> QED
    BY <1>a, <2>2, Zenon
<1>12. Len(linked) \in Nat /\ Len(maps) \in Nat
  BY <1>11 DEF IsMaps
\* What a map records: a section placed earlier, or one of this line
<1>13. ASSUME NEW i \in 1..Len(maps), NEW x \in DOMAIN maps[i].at, NEW p, p = <<maps[i].file, x>>
       PROVE  \/ /\ p \in Unplaced /\ to[p[1]] = i /\ maps[i].at[x] = at[p]
              \/ /\ p \notin Unplaced /\ i \in 1..Len(linked) /\ x \in DOMAIN linked[i].at
                 /\ p = <<linked[i].file, x>> /\ maps[i].at[x] = linked[i].at[x]
  <2>1. /\ \/ i <= Len(linked) /\ x \in DOMAIN linked[i].at
           \/ p \in Unplaced /\ to[p[1]] = i
        /\ maps[i].at[x] = IF p \in Unplaced /\ to[p[1]] = i THEN at[p] ELSE linked[i].at[x]
    BY <1>11, <1>13, RecordOf
  <2>2. CASE p \in Unplaced /\ to[p[1]] = i
    BY <2>1, <2>2
  <2>3. CASE ~(p \in Unplaced /\ to[p[1]] = i)
    <3>1. i \in 1..Len(linked) /\ x \in DOMAIN linked[i].at /\ maps[i].at[x] = linked[i].at[x]
      BY <1>12, <2>1, <2>3
    <3>2. p = <<linked[i].file, x>>
      BY <1>11, <1>13, <3>1
    <3>3. \E k \in Theirs(old) : old[k].of = p
      BY <1>3, <3>1, <3>2 DEF Rightly
    <3>4. p \notin Unplaced
      BY <1>9, <3>3
    <3> QED
      BY <3>1, <3>2, <3>4
  <2> QED
    BY <2>2, <2>3
<1>14. Taken(parts, results)
  <2> SUFFICES ASSUME NEW k \in Theirs(parts), NEW p, p = parts[k].of
               PROVE  p[1] \in DOMAIN results /\ p[2] \in DOMAIN results[p[1]] /\ ~results[p[1]][p[2]].data
    BY DEF Taken
  <2>1. CASE k \in Theirs(old)
    <3>1. p = old[k].of
      BY <1>7, <2>1
    <3>2. p[1] \in DOMAIN compiled /\ p[2] \in DOMAIN compiled[p[1]] /\ ~compiled[p[1]][p[2]].data
      BY <1>3, <2>1, <3>1 DEF Taken
    <3> QED
      BY <3>2
  <2>2. CASE \E i \in 1..m : k = n + i
    <3>1. p \in Unplaced
      BY <1>6, <2>2
    <3>2. p[1] \in DOMAIN compiled /\ p[2] \in DOMAIN compiled[p[1]] /\ p = <<p[1], p[2]>>
      BY <3>1, UnplacedAre
    <3>3. <<p[1], p[2]>> \in Unplaced
      BY <3>1, <3>2
    <3>4. p[1] \in DOMAIN results /\ p[2] \in DOMAIN results[p[1]]
      BY <3>2
    <3> QED
      BY <3>3, <3>4
  <2> QED
    BY <1>8, <2>1, <2>2
<1>15. Once(parts)
  <2> SUFFICES ASSUME NEW k \in Theirs(parts), NEW l \in Theirs(parts), parts[k].of = parts[l].of
               PROVE  k = l
    BY DEF Once
  <2>1. CASE k \in Theirs(old) /\ l \in Theirs(old)
    BY <1>3, <1>7, <2>1 DEF Once
  <2>2. CASE k \in Theirs(old) /\ \E i \in 1..m : l = n + i
    <3>1. parts[k].of \notin Unplaced
      BY <1>7, <1>9, <2>2
    <3>2. parts[l].of \in Unplaced
      BY <1>6, <2>2
    <3> QED
      BY <3>1, <3>2
  <2>3. CASE l \in Theirs(old) /\ \E i \in 1..m : k = n + i
    <3>1. parts[l].of \notin Unplaced
      BY <1>7, <1>9, <2>3
    <3>2. parts[k].of \in Unplaced
      BY <1>6, <2>3
    <3> QED
      BY <3>1, <3>2
  <2>4. CASE (\E i \in 1..m : k = n + i) /\ \E i \in 1..m : l = n + i
    <3>1. PICK i \in 1..m, j \in 1..m : k = n + i /\ l = n + j
      BY <2>4
    <3>2. order[i] = order[j]
      BY <1>6, <3>1
    <3> QED
      BY <1>1, <1>3, <3>1, <3>2
  <2> QED
    BY <1>8, <2>1, <2>2, <2>3, <2>4
<1>16. Rightly(parts, maps)
  <2> SUFFICES ASSUME NEW i \in 1..Len(maps), NEW x \in DOMAIN maps[i].at
               PROVE  \E k \in Theirs(parts) :
                         parts[k].of = <<maps[i].file, x>> /\ maps[i].at[x] = Before(parts, k)
    BY DEF Rightly
  <2>0. PICK p : p = <<maps[i].file, x>>
    OBVIOUS
  <2>1. CASE p \in Unplaced /\ to[p[1]] = i /\ maps[i].at[x] = at[p]
    <3>1. PICK k \in 1..m : order[k] = p
      BY <1>1, <1>3, <2>1
    <3>2. n + k \in Theirs(parts) /\ parts[n + k].of = p /\ at[p] = Before(parts, n + k)
      BY <1>5, <1>6, <1>a, <3>1
    <3> QED
      BY <2>0, <2>1, <3>2
  <2>2. CASE /\ i \in 1..Len(linked) /\ x \in DOMAIN linked[i].at
             /\ p = <<linked[i].file, x>> /\ maps[i].at[x] = linked[i].at[x]
    <3>1. PICK k \in Theirs(old) : old[k].of = p /\ linked[i].at[x] = Before(old, k)
      BY <1>3, <2>2 DEF Rightly
    <3>2. k \in Theirs(parts) /\ parts[k].of = p /\ Before(parts, k) = linked[i].at[x]
      BY <1>7, <3>1
    <3> QED
      BY <2>0, <2>2, <3>2
  <2> QED
    BY <1>13, <2>0, <2>1, <2>2
<1>17. NotTwice(maps)
  <2> SUFFICES ASSUME NEW i \in 1..Len(maps), NEW j \in 1..Len(maps),
                      NEW x \in DOMAIN maps[i].at, x \in DOMAIN maps[j].at,
                      maps[i].file = maps[j].file
               PROVE  i = j
    BY DEF NotTwice
  <2>1. PICK p : p = <<maps[i].file, x>> /\ p = <<maps[j].file, x>>
    OBVIOUS
  <2>2. CASE p \in Unplaced
    <3>1. to[p[1]] = i
      BY <1>13, <2>1, <2>2
    <3>2. to[p[1]] = j
      BY <1>13, <2>1, <2>2
    <3> QED
      BY <3>1, <3>2
  <2>3. CASE p \notin Unplaced
    <3>1. i \in 1..Len(linked) /\ x \in DOMAIN linked[i].at
      BY <1>13, <2>1, <2>3
    <3>2. j \in 1..Len(linked) /\ x \in DOMAIN linked[j].at
      BY <1>13, <2>1, <2>3
    <3>3. linked[i].file = linked[j].file
      BY <1>11, <3>1, <3>2
    <3> QED
      BY <3>1, <3>2, <3>3 DEF NotTwice
  <2> QED
    BY <2>2, <2>3
<1>18. AllRecorded(parts, maps)
  <2> SUFFICES ASSUME NEW k \in Theirs(parts), NEW p, p = parts[k].of
               PROVE  \E i \in 1..Len(maps) : maps[i].file = p[1] /\ p[2] \in DOMAIN maps[i].at
    BY DEF AllRecorded
  <2>1. CASE k \in Theirs(old)
    <3>1. p = old[k].of /\ p = <<p[1], p[2]>>
      BY <1>7, <1>10, <2>1
    <3>2. PICK i \in 1..Len(linked) : linked[i].file = p[1] /\ p[2] \in DOMAIN linked[i].at
      BY <1>3, <2>1, <3>1 DEF AllRecorded
    <3>3. i \in 1..Len(maps) /\ maps[i].file = p[1] /\ i <= Len(linked)
      BY <1>11, <1>12, <3>2
    <3>4. p = <<maps[i].file, p[2]>>
      BY <3>1, <3>3
    <3>5. p[2] \in DOMAIN maps[i].at
      <4>1. PICK x : x = p[2] /\ p = <<maps[i].file, x>>
        BY <3>4
      <4>2. x \in DOMAIN linked[i].at
        BY <3>2, <4>1
      <4>3. x \in DOMAIN maps[i].at
        BY <1>11, <3>3, <4>1, <4>2, RecordOf
      <4> QED
        BY <4>1, <4>3
    <3> QED
      BY <3>3, <3>5
  <2>2. CASE \E i \in 1..m : k = n + i
    <3>1. p \in Unplaced /\ p = <<p[1], p[2]>>
      BY <1>6, <2>2
    <3>2. p[1] \in units
      BY <1>a, <3>1
    <3>3. PICK i : i = to[p[1]]
      OBVIOUS
    <3>4. i \in 1..Len(maps) /\ maps[i].file = p[1]
      BY <1>11, <3>2, <3>3 DEF IsRecord
    <3>5. p = <<maps[i].file, p[2]>>
      BY <3>1, <3>4
    <3>6. p[2] \in DOMAIN maps[i].at
      <4>1. PICK x : x = p[2] /\ p = <<maps[i].file, x>>
        BY <3>5
      <4>2. x \in DOMAIN maps[i].at
        BY <1>11, <3>1, <3>3, <3>4, <4>1, RecordOf
      <4> QED
        BY <4>1, <4>2
    <3> QED
      BY <3>4, <3>6
  <2> QED
    BY <1>8, <2>1, <2>2
<1> QED
  BY <1>3, <1>5, <1>11, <1>14, <1>15, <1>16, <1>17, <1>18

-----------------------------------------------------------------------------
(* The lines of the source *)

LEMMA PutFirst ==
    ASSUME NEW S, NEW x \in S, NEW q \in Seq(S)
    PROVE  <<x>> \o q \in Seq(S) /\ <<x>> \o q # <<>>
<1>1. PICK p : p = <<x>>
  OBVIOUS
<1>2. p \in Seq(S) /\ Len(p) = 1
  BY <1>1
<1>3. p \o q \in Seq(S) /\ Len(p \o q) = Len(p) + Len(q)
  BY <1>2, ConcatProperties
<1>5. Len(q) \in Nat
  OBVIOUS
<1>4. p \o q # <<>>
  BY <1>2, <1>3, <1>5
<1> QED
  BY <1>1, <1>3, <1>4

LEMMA FirstFile ==
    ASSUME NEW S, NEW fs \in Seq(S), fs # <<>>
    PROVE  fs[1] \in S /\ Head(fs) = fs[1] /\ Tail(fs) \in Seq(S)
OBVIOUS

LEMMA Behind ==
    ASSUME NEW list \in Seq(Entries), NEW n \in Int, n <= Len(list)
    PROVE  SubSeq(list, 3, n) \in Seq(Entries)
<1>1. CASE n < 3
  BY <1>1
<1>2. CASE n >= 3
  BY <1>2, SubSeqProperties
<1> QED
  BY <1>1, <1>2

LEMMA OpenStep ==
    ASSUME LinesInv, Open
    PROVE  LinesInv'
<1>1. files \in Seq(Seq(Entries)) /\ files # <<>>
  BY DEF LinesInv, Open
<1>2. files[1] \in Seq(Entries) /\ Tail(files) \in Seq(Seq(Entries))
  BY <1>1, FirstFile
<1>3. PICK list : list = files[1]
  OBVIOUS
<1>4. SubSeq(list, 3, Len(list)) \in Seq(Entries)
  BY <1>2, <1>3, Behind
<1>5. files' \in Seq(Seq(Entries)) /\ files' # <<>>
  BY <1>2, <1>3, <1>4, PutFirst DEF Open
<1>6. file' \in Names
  <2>1. list # <<>> => list[1] \in Entries
    BY <1>2, <1>3
  <2>2. NoName \in Names
    BY DEF Names
  <2> QED
    BY <1>3, <2>1, <2>2, EntryKinds DEF Open
<1>7. f_line' \in Int
  <2>1. ~(Len(list) < 2) => list[2] \in Entries
    BY <1>2, <1>3
  <2>2. NoNumber \in Int
    BY DEF NoNumber
  <2>3. \/ f_line' = 0
        \/ ~(Len(list) < 2) /\ list[2].is = "number" /\ f_line' = list[2].v
        \/ f_line' = NoNumber
    BY <1>3 DEF Open
  <2> QED
    BY <2>1, <2>2, <2>3, EntryKinds
<1>8. pc' = "line" /\ UNCHANGED <<args, history, dl, macros, source>>
  BY DEF Open
<1> QED
  BY <1>5, <1>6, <1>7, <1>8 DEF LinesInv

LEMMA ReadLineStep ==
    ASSUME LinesInv, DataInv, ReadLine
    PROVE  LinesInv' /\ DataStep
<1>1. files \in Seq(Seq(Entries)) /\ files # <<>> /\ pc = "line" /\ Head(files) # <<>>
  BY DEF LinesInv, ReadLine
<1>2. files[1] \in Seq(Entries) /\ files[1] # <<>> /\ Tail(files) \in Seq(Seq(Entries))
  BY <1>1, FirstFile
<1>3. files[1][1] \in Entries /\ Tail(files[1]) \in Seq(Entries)
  BY <1>2, FirstFile
<1>4. files' \in Seq(Seq(Entries)) /\ files' # <<>>
  BY <1>2, <1>3, PutFirst DEF ReadLine
<1>5. PICK entry : entry = files[1][1]
  OBVIOUS
<1>6. CASE entry.is # "line"
  <2>1. pc' = "undefined" /\ UNCHANGED <<args, f_line, symbols>>
    BY <1>5, <1>6 DEF ReadLine
  <2>2. UNCHANGED <<file, section, sections, history, dl, macros, source>>
    BY DEF ReadLine
  <2>3. LinesInv'
    BY <1>4, <2>1, <2>2 DEF LinesInv, Final
  <2>4. DataStep
    BY <2>1, <2>2, SymbolsStay
  <2> QED
    BY <2>3, <2>4
<1>7. CASE entry.is = "line"
  <2>1. /\ pc' = "word" /\ args' = entry.v /\ f_line' = f_line + 1
        /\ symbols' = IF history = <<>> THEN Labelled(entry.v.labels) ELSE symbols
    BY <1>5, <1>7 DEF ReadLine
  <2>2. UNCHANGED <<file, section, sections, history, dl, macros, source>>
    BY DEF ReadLine
  <2>3. entry.v \in Line
    BY <1>3, <1>5, <1>7, EntryKinds
  <2>4. LinesInv'
    BY <1>4, <2>1, <2>2, <2>3 DEF LinesInv
  <2>5. DataStep
    BY <2>1, <2>2, SymbolsStay, LabelledStep
  <2> QED
    BY <2>4, <2>5
<1> QED
  BY <1>6, <1>7

\* A line of the section or the symbols
LEMMA OnwardKeeps ==
    ASSUME LinesInv, pc = "word", Onward, UNCHANGED <<blockVars, source>>
    PROVE  LinesInv'
BY DEF LinesInv, Onward, blockVars, Final

LEMMA ArgsAre ==
    ASSUME LinesInv, args.op # ""
    PROVE  args \in Line /\ args.args \in Seq(Word)
<1>1. args \in Line
  <2>1. args \in Line \cup {NoLine} /\ NoLine.op = ""
    BY DEF LinesInv, NoLine
  <2> QED
    BY <2>1
<1> QED
  BY <1>1, LineFields

LEMMA CommonLineStep ==
    ASSUME LinesInv, DataInv, pc = "word", args.op # "",
           \/ args.op = "=" /\ Assigns(args.args[1].v, args.args[2])
           \/ args.op \in Directives /\ Directive(args.op, args.args)
    PROVE  DataStep /\ Onward
<1>1. args \in Line /\ args.args \in Seq(Word)
  BY ArgsAre
<1>2. CASE args.op = "=" /\ Assigns(args.args[1].v, args.args[2])
  <2>1. Len(args.args) = 2
    BY <1>1, <1>2, LineFields
  <2>2. PICK name, w : name = args.args[1].v /\ w = args.args[2]
    OBVIOUS
  <2>3. w \in Word /\ Assigns(name, w)
    BY <1>1, <1>2, <2>1, <2>2
  <2> QED
    BY <2>3, AssignsStep, OnwardSteps
<1>3. CASE args.op \in Directives /\ Directive(args.op, args.args)
  <2>1. args.op \in {".ascii", ".asciz"} => \A i \in 1..Len(args.args) : args.args[i].kind = "str"
    BY <1>1, LineFields
  <2> QED
    BY <1>1, <1>3, <2>1, DirectiveStep, OnwardSteps
<1> QED
  BY <1>2, <1>3

LEMMA AssembleLineStep ==
    ASSUME LinesInv, DataInv, AssembleLine
    PROVE  LinesInv' /\ DataStep
<1>1. pc = "word" /\ args.op # "" /\ UNCHANGED <<blockVars, source>>
  BY DEF AssembleLine, Outside
<1>2. args.args \in Seq(Word)
  BY <1>1, ArgsAre
<1>3. CASE \/ args.op = "=" /\ Assigns(args.args[1].v, args.args[2])
           \/ args.op \in Directives /\ Directive(args.op, args.args)
  BY <1>1, <1>3, CommonLineStep, OnwardKeeps
<1>4. CASE args.op \in CompilerDirectives /\ CompilerDirective(args.op, args.args)
  <2>1. PICK op, ws : op = args.op /\ ws = args.args
    OBVIOUS
  <2>2. DataStep
    BY <1>2, <1>4, <2>1, CompilerDirectiveStep
  <2> QED
    BY <1>1, <1>4, <2>2, OnwardSteps, OnwardKeeps
<1>5. CASE args.op \in Instructions /\ Instruction(args.op, args.args)
  <2>1. PICK op, ws : op = args.op /\ ws = args.args
    OBVIOUS
  <2>2. DataStep
    BY <1>2, <1>5, <2>1, InstructionStep
  <2> QED
    BY <1>1, <1>5, <2>2, OnwardSteps, OnwardKeeps
<1> QED
  BY <1>3, <1>4, <1>5 DEF AssembleLine

LEMMA ReloadedFiles ==
    ASSUME LinesInv, pc = "word"
    PROVE  Reloaded \in Seq(Seq(Entries)) /\ Reloaded # <<>>
<1>1. files \in Seq(Seq(Entries)) /\ files # <<>>
  BY DEF LinesInv
<1>2. Head(files) \in Seq(Entries) /\ Tail(files) \in Seq(Seq(Entries))
  BY <1>1, FirstFile
<1>3. WithPlace(Head(files)) \in Seq(Entries)
  BY <1>2, PlacedList
<1> QED
  BY <1>2, <1>3, PutFirst DEF Reloaded

\* What the lines leave alone that change what is read next
LEMMA ControlKeeps ==
    ASSUME \/ _parse_include \/ _parse_if \/ _parse_macro \/ _parse_macro_sub
           \/ KeepLine \/ _parse_else \/ _parse_endif \/ _parse_endm \/ _parse_endr
    PROVE  UNCHANGED <<symbols, section, sections, file, f_line, args, source>>
<1>1. ASSUME _parse_include \/ _parse_macro_sub
      PROVE  UNCHANGED <<symbols, section, sections, file, f_line, args, source>>
  BY <1>1 DEF _parse_include, _parse_macro_sub, Keep, Lost, Unchanged
<1>2. ASSUME _parse_if \/ _parse_macro
      PROVE  UNCHANGED <<symbols, section, sections, file, f_line, args, source>>
  BY <1>2 DEF _parse_if, _parse_macro, Keep, ERR, Crash, Continue
<1>3. ASSUME KeepLine \/ _parse_else \/ _parse_endif \/ _parse_endm \/ _parse_endr
      PROVE  UNCHANGED <<symbols, section, sections, file, f_line, args, source>>
  BY <1>3 DEF KeepLine, _parse_else, _parse_endif, _parse_endm, _parse_endr, Keep, Continue, Unchanged
<1> QED
  BY <1>1, <1>2, <1>3

LEMMA IncludeStep ==
    ASSUME LinesInv, _parse_include
    PROVE  LinesInv'
<1>1. UNCHANGED <<file, f_line, args, source, dl, history, macros>> /\ pc = "word" /\ pc' = "skip"
  <2>1. UNCHANGED <<file, f_line, args, source>>
    BY ControlKeeps
  <2> QED
    BY <2>1 DEF _parse_include, Lost, Outside
<1>2. files' \in Seq(Seq(Entries))
  <2>1. CASE UNCHANGED files
    BY <2>1 DEF LinesInv
  <2>2. CASE files' = <<helper_file_parse(args.args[1].v)>> \o Reloaded
    BY <1>1, <2>2, ReloadedFiles, ParsedFile, PutFirst
  <2> QED
    BY <2>1, <2>2 DEF _parse_include, Lost
<1> QED
  BY <1>1, <1>2 DEF LinesInv

LEMMA IfStep ==
    ASSUME LinesInv, _parse_if
    PROVE  LinesInv'
<1>1. UNCHANGED <<file, f_line, args, source>>
  BY ControlKeeps
<1>2. /\ pc = "word" /\ pc' \in {"line", "crashed"} /\ UNCHANGED <<files, macros>>
      /\ history = <<>>
  BY DEF _parse_if, Outside, ERR, Crash, Continue
<1>3. CASE UNCHANGED <<dl, history>>
  BY <1>1, <1>2, <1>3 DEF LinesInv, Final
<1>4. CASE /\ history' = <<IF Holds THEN "i1" ELSE "i0">>
           /\ dl' = IF Holds THEN WithPlace(dl) ELSE dl
  <2>1. dl \in Seq(Entries) /\ dl = <<>>
    BY <1>2 DEF LinesInv
  <2>2. WithPlace(dl) \in Seq(Entries) /\ Headed(WithPlace(dl))
    BY <2>1, PlacedList DEF Headed
  <2>3. dl' \in Seq(Entries) /\ (dl' # <<>> => Headed(dl'))
    BY <1>4, <2>1, <2>2
  <2>4. history' \in Seq(Frames) /\ history' # <<>>
    <3>1. PICK f : f = IF Holds THEN "i1" ELSE "i0"
      OBVIOUS
    <3>2. f \in Frames /\ history' = <<f>>
      BY <1>4, <3>1 DEF Frames
    <3> QED
      BY <3>2
  <2> QED
    BY <1>1, <1>2, <2>3, <2>4 DEF LinesInv, Final
<1> QED
  BY <1>3, <1>4 DEF _parse_if

\* The head of a block, in front of its place
LEMMA BlockHead ==
    ASSUME LinesInv, NEW w \in Word, NEW ws \in Seq(Word), NEW list,
           list = <<Label(w.v), Operands(ws)>> \o WithPlace(dl)
    PROVE  list \in Seq(Entries) /\ Headed(list)
<1>1. WithPlace(dl) \in Seq(Entries) /\ Len(WithPlace(dl)) >= 2 /\ WithPlace(dl)[1].is = "name"
  BY PlacedList DEF LinesInv
<1>2. Label(w.v) \in Entries /\ Operands(ws) \in Entries
  BY EntryMakers
<1>3. PICK p, q : p = <<Label(w.v), Operands(ws)>> /\ q = WithPlace(dl)
  OBVIOUS
<1>4. p \in Seq(Entries) /\ Len(p) = 2 /\ p[2] = Operands(ws)
  BY <1>2, <1>3
<1>5. /\ list \in Seq(Entries) /\ Len(list) = Len(p) + Len(q)
      /\ \A i \in 1..(Len(p) + Len(q)) : list[i] = IF i <= Len(p) THEN p[i] ELSE q[i - Len(p)]
  BY <1>1, <1>3, <1>4, ConcatProperties
<1>6. Len(list) >= 3 /\ list[2] = p[2] /\ list[3] = q[1]
  <2>1. Len(q) \in Nat /\ Len(q) >= 2
    BY <1>1, <1>3
  <2> QED
    BY <1>4, <1>5, <2>1
<1> QED
  BY <1>1, <1>3, <1>4, <1>5, <1>6 DEF Headed, Operands

LEMMA MacroStep ==
    ASSUME LinesInv, _parse_macro
    PROVE  LinesInv'
<1>1. UNCHANGED <<file, f_line, args, source>>
  BY ControlKeeps
<1>2. /\ pc = "word" /\ pc' = "line" /\ UNCHANGED <<files, macros>>
      /\ history = <<>> /\ args.op \in {".macro", ".irp", ".irpc"}
  BY DEF _parse_macro, Outside, Continue
<1>3. args \in Line /\ args.args \in Seq(Word)
  BY <1>2, ArgsAre
<1> DEFINE good == IF args.op = ".irpc" THEN Len(args.args) = 2 ELSE Len(args.args) >= 1
           operands == CASE args.op = ".irp"  -> Reverse(Tail(args.args))
                         [] args.op = ".irpc" -> args.args[2].v
                         [] OTHER             -> Tail(args.args)
<1>4. ASSUME good
      PROVE  operands \in Seq(Word) /\ args.args[1] \in Word
  <2>1. args.args # <<>> /\ args.args[1] \in Word /\ Tail(args.args) \in Seq(Word)
    <3>1. Len(args.args) >= 1
      BY <1>4
    <3>2. PICK ws : ws = args.args
      OBVIOUS
    <3>3. ws \in Seq(Word) /\ ws # <<>>
      BY <1>3, <3>1, <3>2
    <3>4. ws[1] \in Word /\ Tail(ws) \in Seq(Word)
      BY <3>3, FirstFile
    <3> QED
      BY <3>2, <3>3, <3>4
  <2>2. Reverse(Tail(args.args)) \in Seq(Word)
    BY <2>1, ReversedList
  <2>3. args.op = ".irpc" => args.args[2] \in Word /\ args.args[2] \in Text_
    BY <1>3, <1>4, LineFields
  <2>4. args.op = ".irpc" => args.args[2].v \in Seq(Word)
    BY <2>3, WordValues
  <2> QED
    BY <1>2, <2>1, <2>2, <2>4
<1>5. dl' = IF good THEN <<Label(args.args[1].v), Operands(operands)>> \o WithPlace(dl) ELSE dl
  BY DEF _parse_macro
<1> HIDE DEF good, operands
<1>6. dl' \in Seq(Entries) /\ (dl' # <<>> => Headed(dl'))
  <2>1. CASE good
    <3>1. PICK w, ws : w = args.args[1] /\ ws = operands
      OBVIOUS
    <3>2. w \in Word /\ ws \in Seq(Word) /\ dl' = <<Label(w.v), Operands(ws)>> \o WithPlace(dl)
      BY <1>4, <1>5, <2>1, <3>1
    <3> QED
      BY <3>2, BlockHead
  <2>2. CASE ~good
    BY <1>5, <2>2 DEF LinesInv
  <2> QED
    BY <2>1, <2>2
<1>7. history' \in Seq(Frames) /\ history' # <<>>
  <2>1. PICK f : f = CASE args.op = ".macro" -> "m" [] args.op = ".irp" -> "rn" [] OTHER -> "rc"
    OBVIOUS
  <2>2. history' = <<f>>
    BY <2>1 DEF _parse_macro
  <2>3. f \in Frames
    BY <1>2, <2>1 DEF Frames
  <2> QED
    BY <2>2, <2>3
<1> QED
  BY <1>1, <1>2, <1>6, <1>7 DEF LinesInv

LEMMA MacroSubStep ==
    ASSUME LinesInv, _parse_macro_sub
    PROVE  LinesInv'
<1>1. UNCHANGED <<file, f_line, args, source, dl, history>>
  <2>1. UNCHANGED <<file, f_line, args, source>>
    BY ControlKeeps
  <2> QED
    BY <2>1 DEF _parse_macro_sub, Lost
<1>2. pc = "word" /\ args.op # "" /\ args.op \in DOMAIN macros
  BY DEF _parse_macro_sub, Outside, CallsMacro
<1>3. PICK list : list = macros[args.op]
  OBVIOUS
<1>4. list \in Seq(Entries) /\ Defined(list)
  BY <1>2, <1>3 DEF LinesInv
<1> DEFINE operands == list[1].v
           missing == \E i \in 1..Len(operands) : i > Len(args.args) /\ ~Given(operands[i])
<1>5. \/ list[1].is # "operands" /\ pc' = "undefined" /\ UNCHANGED <<files, macros>>
      \/ list[1].is = "operands" /\ pc' = "skip" /\ UNCHANGED files
         /\ macros' = [macros EXCEPT ![args.op] = Tail(list)]
      \/ list[1].is = "operands" /\ ~missing /\ pc' = "skip" /\ UNCHANGED macros
         /\ files' = <<Expanded(Tail(list), operands)>> \o Reloaded
  BY <1>3 DEF _parse_macro_sub, Lost
<1>6. CASE pc' = "undefined" /\ UNCHANGED <<files, macros>>
  BY <1>1, <1>6 DEF LinesInv, Final
<1>7. CASE /\ list[1].is = "operands" /\ pc' = "skip" /\ UNCHANGED files
           /\ macros' = [macros EXCEPT ![args.op] = Tail(list)]
  <2>1. /\ list # <<>> /\ Len(list) >= 2 /\ list[2].is = "name"
    BY <1>4, <1>7 DEF Defined
  <2>2. Tail(list) \in Seq(Entries) /\ Tail(list) # <<>> /\ Tail(list)[1] = list[2]
    <3>1. /\ Tail(list) \in Seq(Entries) /\ Len(Tail(list)) = Len(list) - 1
          /\ \A i \in 1..Len(Tail(list)) : Tail(list)[i] = list[i + 1]
      BY <1>4, <2>1, HeadTailProperties
    <3>2. Len(list) \in Nat
      BY <1>4
    <3> QED
      BY <2>1, <3>1, <3>2
  <2>3. Defined(Tail(list))
    BY <2>1, <2>2 DEF Defined
  <2>4. PICK rest : rest = Tail(list)
    OBVIOUS
  <2>5. \A m \in DOMAIN macros' : macros'[m] \in Seq(Entries) /\ Defined(macros'[m])
    <3>1. DOMAIN macros' = DOMAIN macros /\ \A m \in DOMAIN macros : macros'[m] = macros[m] \/ macros'[m] = rest
      BY <1>7, <2>4
    <3> QED
      BY <2>2, <2>3, <2>4, <3>1 DEF LinesInv
  <2> QED
    BY <1>1, <1>7, <2>5 DEF LinesInv
<1>8. CASE /\ list[1].is = "operands" /\ ~missing /\ pc' = "skip" /\ UNCHANGED macros
           /\ files' = <<Expanded(Tail(list), operands)>> \o Reloaded
  <2>1. list # <<>>
    BY <1>4 DEF Defined
  <2>2. list[1] \in Entries /\ Tail(list) \in Seq(Entries)
    BY <1>4, <2>1, FirstFile
  <2>3. operands \in Seq(Word)
    BY <1>8, <2>2, EntryKinds
  <2>4. args.args \in Seq(Word)
    BY <1>2, ArgsAre
  <2>5. \A i \in 1..Len(operands) : With(operands[i], i) \in Word
    <3> SUFFICES ASSUME NEW i \in 1..Len(operands)
                 PROVE  With(operands[i], i) \in Word
      OBVIOUS
    <3>1. PICK w : w = operands[i]
      OBVIOUS
    <3>2. w \in Word
      BY <2>3, <3>1
    <3>3. CASE Given(w)
      BY <3>1, <3>2, <3>3, WordValues DEF With, Given
    <3>4. CASE ~Given(w)
      <4>1. ~(i > Len(args.args))
        BY <1>8, <3>1, <3>4
      <4>2. args.args[i] \in Word
        BY <2>3, <2>4, <4>1
      <4> QED
        BY <3>1, <3>4, <4>2 DEF With
    <3> QED
      BY <3>3, <3>4
  <2>6. PICK ops : ops = operands
    OBVIOUS
  <2>7. Expanded(Tail(list), ops) \in Seq(Entries)
    BY <2>2, <2>3, <2>5, <2>6, ExpandedList
  <2>8. files' \in Seq(Seq(Entries))
    BY <1>2, <1>8, <2>6, <2>7, ReloadedFiles, PutFirst
  <2> QED
    BY <1>1, <1>8, <2>8 DEF LinesInv
<1> QED
  BY <1>5, <1>6, <1>7, <1>8

LEMMA KeepLineStep ==
    ASSUME LinesInv, KeepLine
    PROVE  LinesInv'
<1>1. UNCHANGED <<file, f_line, args, source>>
  BY ControlKeeps
<1>2. /\ pc = "word" /\ pc' = "line" /\ args.op # "" /\ history # <<>>
      /\ UNCHANGED <<files, macros>>
  BY DEF KeepLine, Inside, Continue
<1>3. Entry(args) \in Entries /\ Entry(args).is = "line"
  BY <1>2, ArgsAre, EntryMakers DEF Entry
<1>4. PICK e : e = Entry(args)
  OBVIOUS
<1>5. dl \in Seq(Entries) /\ dl' = Append(dl, e) /\ (dl # <<>> => Headed(dl))
  BY <1>4 DEF LinesInv, KeepLine
<1>6. /\ dl' \in Seq(Entries) /\ Len(dl') = Len(dl) + 1 /\ Len(dl) \in Nat
      /\ \A i \in 1..Len(dl) : dl'[i] = dl[i]
      /\ dl'[Len(dl) + 1] = e
  BY <1>3, <1>4, <1>5, AppendProperties
<1>7. Headed(dl')
  <2>1. CASE dl = <<>>
    BY <1>3, <1>4, <1>6, <2>1 DEF Headed
  <2>2. CASE dl # <<>>
    <3>1. Len(dl) >= 1 /\ dl'[1] = dl[1]
      BY <1>5, <1>6, <2>2
    <3>2. Len(dl) >= 3 => dl'[2] = dl[2] /\ dl'[3] = dl[3] /\ Len(dl') >= 3
      BY <1>6
    <3> QED
      BY <1>5, <2>2, <3>1, <3>2 DEF Headed
  <2> QED
    BY <2>1, <2>2
<1>8. history \in Seq(Frames) /\ history # <<>>
  BY <1>2 DEF LinesInv
<1>9. history' \in Seq(Frames) /\ history' # <<>>
  <2>1. /\ \/ history' = <<history[1]>> \o history
           \/ history' = Tail(history) /\ Len(history) > 1
           \/ history' = history
    BY DEF KeepLine
  <2>2. history[1] \in Frames
    BY <1>8
  <2>3. CASE history' = <<history[1]>> \o history
    BY <1>8, <2>2, <2>3, PutFirst
  <2>4. CASE history' = Tail(history) /\ Len(history) > 1
    <3>1. Tail(history) \in Seq(Frames) /\ Len(Tail(history)) = Len(history) - 1
      BY <1>8, HeadTailProperties
    <3>2. Len(history) \in Nat
      BY <1>8
    <3> QED
      BY <2>4, <3>1, <3>2
  <2>5. CASE history' = history
    BY <1>8, <2>5
  <2> QED
    BY <2>1, <2>3, <2>4, <2>5, Zenon
<1> QED
  BY <1>1, <1>2, <1>6, <1>7, <1>9 DEF LinesInv

LEMMA ElseStep ==
    ASSUME LinesInv, _parse_else
    PROVE  LinesInv'
<1>1. UNCHANGED <<file, f_line, args, source>>
  BY ControlKeeps
<1>2. /\ pc = "word" /\ pc' = "line" /\ UNCHANGED <<files, macros>>
      /\ dl' = IF history = <<"i0">> THEN WithPlace(dl) ELSE dl
  BY DEF _parse_else, Inside, Continue
<1>3. dl \in Seq(Entries)
  BY DEF LinesInv
<1>4. WithPlace(dl) \in Seq(Entries) /\ Headed(WithPlace(dl))
  BY <1>3, PlacedList DEF Headed
<1>5. dl' \in Seq(Entries) /\ (dl' # <<>> => Headed(dl'))
  BY <1>2, <1>4 DEF LinesInv
<1>6. history' \in Seq(Frames) /\ history' # <<>>
  <2>1. PICK f : f \in Frames /\ history' = <<f>>
    BY DEF _parse_else, Frames
  <2> QED
    BY <2>1
<1> QED
  BY <1>1, <1>2, <1>5, <1>6 DEF LinesInv

LEMMA EndifStep ==
    ASSUME LinesInv, _parse_endif
    PROVE  LinesInv'
<1>1. UNCHANGED <<file, f_line, args, source>>
  BY ControlKeeps
<1>2. /\ pc = "word" /\ pc' = "skip" /\ UNCHANGED macros /\ history' = <<>> /\ dl' = <<>>
      /\ files' = (IF dl = <<>> THEN <<>> ELSE <<dl>>) \o Reloaded
  BY DEF _parse_endif, Closes, Inside
<1>3. Reloaded \in Seq(Seq(Entries))
  BY <1>2, ReloadedFiles
<1>4. files' \in Seq(Seq(Entries))
  <2>1. CASE dl = <<>>
    BY <1>2, <1>3, <2>1
  <2>2. CASE dl # <<>>
    <3>1. files' = <<dl>> \o Reloaded /\ dl \in Seq(Entries)
      BY <1>2, <2>2 DEF LinesInv
    <3> QED
      BY <1>3, <3>1, PutFirst
  <2> QED
    BY <2>1, <2>2
<1> QED
  BY <1>1, <1>2, <1>4 DEF LinesInv

LEMMA EndmStep ==
    ASSUME LinesInv, _parse_endm
    PROVE  LinesInv'
<1>1. UNCHANGED <<file, f_line, args, source>>
  BY ControlKeeps
<1>2. pc = "word" /\ history' = <<>> /\ dl' = <<>> /\ UNCHANGED files
  BY DEF _parse_endm, Closes, Inside
<1>3. CASE Headless
  <2>1. pc' = "undefined" /\ UNCHANGED macros
    BY <1>3 DEF _parse_endm
  <2> QED
    BY <1>1, <1>2, <2>1 DEF LinesInv, Final
<1>4. CASE ~Headless
  <2>1. pc' = "line" /\ macros' = Put(macros, dl[1].v, Tail(dl))
    BY <1>4 DEF _parse_endm, Continue
  <2>2. dl \in Seq(Entries) /\ dl # <<>> /\ dl[1].is = "label" /\ Headed(dl)
    BY <1>4 DEF LinesInv, Headless
  <2>3. Len(dl) >= 3 /\ dl[2].is = "operands" /\ dl[3].is = "name"
    BY <2>2 DEF Headed
  <2>4. PICK rest : rest = Tail(dl)
    OBVIOUS
  <2>5. /\ rest \in Seq(Entries) /\ Len(rest) = Len(dl) - 1
        /\ rest[1] = dl[2] /\ rest[2] = dl[3]
    BY <2>2, <2>3, <2>4
  <2>6. Defined(rest)
    <3>1. Len(rest) >= 2
      BY <2>2, <2>3, <2>5
    <3>2. rest # <<>>
      BY <2>5, <3>1
    <3> QED
      BY <2>3, <2>5, <3>1, <3>2 DEF Defined
  <2>7. \A m \in DOMAIN macros' : macros'[m] = rest \/ (m \in DOMAIN macros /\ macros'[m] = macros[m])
    BY <2>1, <2>4 DEF Put
  <2>8. \A m \in DOMAIN macros' : macros'[m] \in Seq(Entries) /\ Defined(macros'[m])
    BY <2>5, <2>6, <2>7 DEF LinesInv
  <2> QED
    BY <1>1, <1>2, <2>1, <2>8 DEF LinesInv
<1> QED
  BY <1>3, <1>4

LEMMA EndrStep ==
    ASSUME LinesInv, _parse_endr
    PROVE  LinesInv'
<1>1. UNCHANGED <<file, f_line, args, source>>
  BY ControlKeeps
<1>2. pc = "word" /\ history' = <<>> /\ dl' = <<>> /\ UNCHANGED macros
  BY DEF _parse_endr, Closes, Inside
<1>3. CASE Headless
  <2>1. pc' = "undefined" /\ UNCHANGED files
    BY <1>3 DEF _parse_endr
  <2> QED
    BY <1>1, <1>2, <2>1 DEF LinesInv, Final
<1>4. CASE ~Headless
  <2>1. dl \in Seq(Entries) /\ dl # <<>> /\ dl[1].is = "label" /\ Headed(dl)
    BY <1>4 DEF LinesInv, Headless
  <2>2. Len(dl) >= 3 /\ dl[2].is = "operands" /\ dl[2] \in Entries
    BY <2>1 DEF Headed
  <2>3. dl[2].v \in Seq(Word)
    BY <2>2, EntryKinds
  <2>4. PICK body, symbol, ops :
           /\ body = SubSeq(dl, 3, Len(dl)) /\ symbol = dl[1].v /\ ops = dl[2].v
    OBVIOUS
  <2>5. body \in Seq(Entries)
    <3>1. PICK n : n = Len(dl)
      OBVIOUS
    <3>2. n \in Int /\ n <= Len(dl)
      BY <2>1, <3>1
    <3>3. SubSeq(dl, 3, n) \in Seq(Entries)
      BY <2>1, <3>2, Behind
    <3> QED
      BY <2>4, <3>1, <3>3
  <2>6. pc' = "skip" /\ files' = Repeated(body, symbol, ops) \o Reloaded
    BY <1>4, <2>4 DEF _parse_endr
  <2>7. Repeated(body, symbol, ops) \in Seq(Seq(Entries))
    <3>1. PICK inOrder : inOrder = IF history[1] = "rn" THEN Reverse(ops) ELSE ops
      OBVIOUS
    <3>2. inOrder \in Seq(Word)
      BY <2>3, <2>4, <3>1, ReversedList
    <3>3. Repeated(body, symbol, ops) = [i \in 1..Len(inOrder) |-> Substituted(body, symbol, inOrder[i])]
      BY <3>1 DEF Repeated
    <3>4. \A i \in 1..Len(inOrder) : Substituted(body, symbol, inOrder[i]) \in Seq(Entries)
      BY <2>5, <3>2, SubstitutedList
    <3> QED
      BY <3>2, <3>3, <3>4
  <2>8. files' \in Seq(Seq(Entries))
    BY <1>2, <2>6, <2>7, ReloadedFiles, ConcatProperties
  <2> QED
    BY <1>1, <1>2, <2>6, <2>8 DEF LinesInv
<1> QED
  BY <1>3, <1>4

-----------------------------------------------------------------------------
(* Every step *)

Inv == DataInv /\ LinesInv /\ LinkInv

LEMMA LinesStep ==
    ASSUME Inv, LinesNext
    PROVE  LinesInv' /\ DataStep
<1>0. LinesInv /\ DataInv
  BY DEF Inv
<1>1. CASE Open
  <2>1. UNCHANGED <<symbols, section, sections>>
    BY <1>1 DEF Open
  <2> QED
    BY <1>0, <1>1, <2>1, OpenStep, SymbolsStay
<1>2. CASE ReadLine
  BY <1>0, <1>2, ReadLineStep
<1>3. CASE EndFile
  <2>1. pc' = "skip" /\ files' = Tail(files) /\ files # <<>>
    BY <1>0, <1>3 DEF EndFile, LinesInv
  <2>2. files' \in Seq(Seq(Entries))
    BY <1>0, <2>1, FirstFile DEF LinesInv
  <2>3. UNCHANGED <<file, f_line, symbols, section, sections, args, history, dl, macros, source>>
    BY <1>3 DEF EndFile
  <2>4. LinesInv'
    BY <1>0, <2>1, <2>2, <2>3 DEF LinesInv
  <2> QED
    BY <1>0, <2>3, <2>4, SymbolsStay
<1>4. CASE BlankLine
  <2>1. Nothing /\ UNCHANGED <<blockVars, source>> /\ pc = "word"
    BY <1>4 DEF BlankLine
  <2>2. Onward
    BY <2>1, OnwardSteps
  <2> QED
    BY <1>0, <2>1, <2>2, OnwardKeeps, FillsOrNothing
<1>5. CASE AssembleLine
  BY <1>0, <1>5, AssembleLineStep
<1>6. CASE UnknownLine
  <2>1. Abort /\ UNCHANGED <<blockVars, source>> /\ pc = "word"
    BY <1>6 DEF UnknownLine, Outside
  <2>2. Onward /\ UNCHANGED <<symbols, section, sections>>
    BY <2>1, OnwardSteps DEF Abort
  <2> QED
    BY <1>0, <2>1, <2>2, OnwardKeeps, SymbolsStay
<1>7. CASE \/ _parse_include \/ _parse_if \/ _parse_macro \/ _parse_macro_sub
           \/ KeepLine \/ _parse_else \/ _parse_endif \/ _parse_endm \/ _parse_endr
  <2>1. DataStep
    BY <1>0, <1>7, ControlKeeps, SymbolsStay
  <2>2. LinesInv'
    BY <1>0, <1>7, IncludeStep, IfStep, MacroStep, MacroSubStep, KeepLineStep, ElseStep, EndifStep,
       EndmStep, EndrStep
  <2> QED
    BY <2>1, <2>2
<1> QED
  BY <1>1, <1>2, <1>3, <1>4, <1>5, <1>6, <1>7 DEF LinesNext

\* While the script is read, no block is open and no file ends
\* The lines of a script are read as those of a unit, and nothing else is done
LEMMA ScriptReads ==
    ASSUME LinkInv, linking, LinesNext
    PROVE  history = <<>> /\ pc # "skip" /\ (ReadLine \/ BlankLine)
<1>1. history = <<>> /\ pc # "skip"
  BY DEF LinkInv
<1>2. ~Open /\ ~EndFile
  BY <1>1 DEF Open, EndFile
<1>3. ~Outside /\ ~Inside
  BY <1>1 DEF Outside, Inside
<1> QED
  BY <1>1, <1>2, <1>3 DEF LinesNext, AssembleLine, UnknownLine, _parse_include, _parse_if, _parse_macro,
     _parse_macro_sub, KeepLine, _parse_else, _parse_endif, _parse_endm, _parse_endr, Closes

LEMMA LinesKeepLink ==
    ASSUME Inv, LinesNext, UNCHANGED <<unit, todo, script, compiled>>
    PROVE  LinkInv' /\ UNCHANGED linking
<1>1. UNCHANGED linking
  <2>1. Open \/ ReadLine \/ EndFile \/ BlankLine \/ AssembleLine \/ UnknownLine => UNCHANGED linking
    BY DEF Open, ReadLine, EndFile, BlankLine, AssembleLine, UnknownLine
  <2>2. _parse_include \/ _parse_if \/ _parse_macro \/ _parse_macro_sub => UNCHANGED linking
    BY DEF _parse_include, _parse_if, _parse_macro, _parse_macro_sub, Keep
  <2>3. KeepLine \/ _parse_else \/ _parse_endif \/ _parse_endm \/ _parse_endr => UNCHANGED linking
    BY DEF KeepLine, _parse_else, _parse_endif, _parse_endm, _parse_endr, Keep
  <2> QED
    BY <2>1, <2>2, <2>3 DEF LinesNext
<1>2. ASSUME linking
      PROVE  history' = <<>> /\ pc' # "skip"
  <2>1. history = <<>> /\ pc # "skip" /\ (ReadLine \/ BlankLine)
    BY <1>2, ScriptReads DEF Inv
  <2>2. UNCHANGED history
    BY <2>1 DEF ReadLine, BlankLine, blockVars
  <2>3. pc' # "skip"
    BY <2>1 DEF ReadLine, BlankLine, Nothing, Continue
  <2> QED
    BY <2>1, <2>2, <2>3
<1> QED
  BY <1>1, <1>2 DEF Inv, LinkInv

LEMMA OneSection ==
    ASSUME NEW name \in Names, NEW bits \in {0, 1},
           section' = name, sections' = [s \in {name} |-> NewSection(bits)], symbols' = <<>>
    PROVE  DataInv'
<1>1. Sizes(<<>>) \in Seq(Nat) /\ Len(Sizes(<<>>)) = 0
  BY DEF Sizes
<1>2. Total(Sizes(<<>>)) = 0
  BY <1>1, TotalEmpty
<1>3. SectionOK(NewSection(bits))
  BY <1>2 DEF SectionOK, NewSection
<1>4. IsFiniteSet({name})
  BY FS_Singleton
<1>5. DOMAIN sections' = {name} /\ sections'[name] = NewSection(bits)
  OBVIOUS
<1>6. SectionsOK(sections')
  BY <1>3, <1>4, <1>5 DEF SectionsOK
<1>7. SymbolsOK(symbols', DOMAIN sections')
  BY DEF SymbolsOK
<1> QED
  BY <1>5, <1>6, <1>7 DEF DataInv

LEMMA EndUnitStep ==
    ASSUME Inv, EndUnit
    PROVE  Inv' /\ (todo' = todo /\ linking' = linking => GlobalKept)
<1>0. DataInv /\ LinesInv /\ LinkInv
  BY DEF Inv
<1>1. /\ pc = "skip" /\ compiled' = Put(compiled, unit, Result)
      /\ UNCHANGED <<source, script>> /\ linking = FALSE
  BY <1>0 DEF EndUnit, AtEnd, LinkInv
<1>2. /\ IsFiniteSet(DOMAIN compiled') /\ DOMAIN compiled' \subseteq STRING
      /\ \A u \in DOMAIN compiled' :
            /\ IsFiniteSet(DOMAIN compiled'[u]) /\ DOMAIN compiled'[u] \subseteq Names
            /\ \A s \in DOMAIN compiled'[u] : compiled'[u][s] \in [size : Nat, data : BOOLEAN]
  <2>1. /\ IsFiniteSet(DOMAIN Result) /\ DOMAIN Result \subseteq Names
        /\ \A s \in DOMAIN Result : Result[s] \in [size : Nat, data : BOOLEAN]
    <3>1. DOMAIN Result = DOMAIN sections
      BY DEF Result
    <3>2. \A s \in DOMAIN sections : sections[s].address \in Nat
      BY <1>0 DEF DataInv, SectionsOK, SectionOK
    <3>3. \A s \in DOMAIN sections : Result[s] = [size |-> sections[s].address, data |-> TRUE]
      BY DEF Result
    <3>4. IsFiniteSet(DOMAIN sections) /\ DOMAIN sections \subseteq Names
      BY <1>0 DEF DataInv, SectionsOK
    <3>5. \A k \in Nat : [size |-> k, data |-> TRUE] \in [size : Nat, data : BOOLEAN]
      OBVIOUS
    <3>6. \A s \in DOMAIN sections : Result[s] \in [size : Nat, data : BOOLEAN]
      BY <3>2, <3>3, <3>5
    <3> QED
      BY <3>1, <3>4, <3>6
  <2>2. PICK r : r = Result
    OBVIOUS
  <2>3. /\ DOMAIN compiled' = DOMAIN compiled \cup {unit}
        /\ \A u \in DOMAIN compiled' :
              compiled'[u] = r \/ (u \in DOMAIN compiled /\ compiled'[u] = compiled[u])
    BY <1>1, <2>2 DEF Put
  <2>4. IsFiniteSet(DOMAIN compiled \cup {unit})
    BY <1>0, FS_AddElement DEF LinkInv
  <2> QED
    BY <1>0, <2>1, <2>2, <2>3, <2>4 DEF LinkInv
<1>3. CASE todo # <<>> /\ NewUnit(Head(todo)) /\ unit' = Head(todo) /\ todo' = Tail(todo)
  <2>1. Head(todo) \in STRING /\ Tail(todo) \in Seq(STRING) /\ Len(Tail(todo)) # Len(todo)
    <3>1. todo \in Seq(STRING) /\ todo # <<>>
      BY <1>0, <1>3 DEF LinkInv
    <3> QED
      BY <3>1
  <2>2. PICK f : f = Head(todo)
    OBVIOUS
  <2>3. /\ pc' = "skip" /\ linking' = FALSE /\ file' = "" /\ f_line' = 0
        /\ symbols' = <<>> /\ section' = ".text" /\ sections' = [s \in {".text"} |-> NewSection(1)]
        /\ files' = <<helper_file_parse(f)>> /\ args' = NoLine
        /\ history' = <<>> /\ dl' = <<>> /\ macros' = <<>>
    BY <1>3, <2>2 DEF NewUnit
  <2>4. DataInv'
    <3>1. ".text" \in Names /\ 1 \in {0, 1}
      BY DEF Names
    <3>2. PICK name, bits : name = ".text" /\ bits = 1
      OBVIOUS
    <3> QED
      BY <2>3, <3>1, <3>2, OneSection
  <2>5. LinesInv'
    <3>1. helper_file_parse(f) \in Seq(Entries)
      BY <1>0, ParsedFile
    <3>2. PICK l : l = helper_file_parse(f)
      OBVIOUS
    <3>3. files' = <<l>> /\ l \in Seq(Entries)
      BY <2>3, <3>1, <3>2
    <3>4. files' \in Seq(Seq(Entries))
      BY <3>3
    <3>a. "" \in Names
      BY DEF Names
    <3>b. f_line' = 0 /\ pc' = "skip" /\ args' = NoLine
      BY <2>3
    <3>c. file' \in Names
      BY <2>3, <3>a, Zenon
    <3>5. f_line' \in Int
      BY <3>b
    <3>6. history' = <<>> /\ dl' = <<>> /\ macros' = <<>>
      BY <2>3
    <3>7. dl' \in Seq(Entries) /\ history' \in Seq(Frames) /\ DOMAIN macros' = {}
      BY <3>6
    <3> QED
      BY <1>0, <1>1, <3>4, <3>b, <3>c, <3>5, <3>6, <3>7 DEF LinesInv
  <2>6. LinkInv'
    BY <1>0, <1>1, <1>2, <1>3, <2>1, <2>3 DEF LinkInv
  <2> QED
    BY <1>3, <2>1, <2>4, <2>5, <2>6 DEF Inv
<1>4. CASE /\ script \in DOMAIN source
           /\ pc' = "line" /\ linking' = TRUE
           /\ files' = <<SubSeq(helper_file_parse(script), 3, Len(source[script]) + 2)>>
           /\ file' = script /\ f_line' = 0
           /\ symbols' = <<>>
           /\ section' = ".linker" /\ sections' = [s \in {".linker"} |-> NewSection(0)]
           /\ history' = <<>> /\ dl' = <<>> /\ macros' = <<>>
           /\ UNCHANGED <<args, unit, todo>>
  <2>1. DataInv'
    <3>1. ".linker" \in Names /\ 0 \in {0, 1}
      BY DEF Names
    <3>2. PICK name, bits : name = ".linker" /\ bits = 0
      OBVIOUS
    <3> QED
      BY <1>4, <3>1, <3>2, OneSection
  <2>2. PICK list, n : list = helper_file_parse(script) /\ n = Len(source[script]) + 2
    OBVIOUS
  <2>3. list \in Seq(Entries)
    BY <1>0, <2>2, ParsedFile
  <2>4. n \in Int /\ n <= Len(list)
    <3>1. source[script] \in Seq(Line)
      BY <1>0, <1>4 DEF LinesInv
    <3>2. Len(source[script]) \in Nat
      BY <3>1
    <3>3. PICK q, p : /\ q = [i \in 1..Len(source[script]) |-> Entry(source[script][i])]
                      /\ p = <<Name(script), Number_(0)>>
      OBVIOUS
    <3>4. q \in Seq(Entries) /\ Len(q) = Len(source[script])
      BY <3>1, <3>2, <3>3, EntryMakers
    <3>5. p \in Seq(Entries) /\ Len(p) = 2
      <4>1. script \in Names
        BY <1>0 DEF LinkInv, Names
      <4> QED
        BY <3>3, <4>1, EntryMakers
    <3>6. list = p \o q
      BY <1>4, <2>2, <3>3 DEF helper_file_parse
    <3>7. Len(p \o q) = Len(p) + Len(q)
      BY <3>4, <3>5, ConcatProperties
    <3>8. Len(list) = 2 + Len(source[script])
      BY <3>4, <3>5, <3>6, <3>7
    <3> QED
      BY <2>2, <3>2, <3>8
  <2>5. SubSeq(list, 3, n) \in Seq(Entries)
    BY <2>3, <2>4, Behind
  <2>6. PICK l : l = SubSeq(list, 3, n)
    OBVIOUS
  <2>7. files' = <<l>> /\ l \in Seq(Entries)
    BY <1>4, <2>2, <2>5, <2>6
  <2>8. LinesInv'
    <3>1. files' \in Seq(Seq(Entries)) /\ files' # <<>>
      BY <2>7
    <3>2. file' \in Names
      BY <1>0, <1>4 DEF LinkInv, Names
    <3>3. dl' \in Seq(Entries) /\ history' \in Seq(Frames) /\ DOMAIN macros' = {}
      BY <1>4
    <3> QED
      BY <1>0, <1>1, <1>4, <3>1, <3>2, <3>3 DEF LinesInv
  <2>9. LinkInv'
    BY <1>0, <1>1, <1>2, <1>4 DEF LinkInv
  <2> QED
    BY <1>1, <1>4, <2>1, <2>8, <2>9 DEF Inv
<1>5. CASE /\ pc' = IF script = "" THEN "done" ELSE "crashed"
           /\ UNCHANGED <<file, f_line, symbols, section, sections, blockVars, linking, unit, todo>>
  <2>1. LinesInv'
    BY <1>0, <1>1, <1>5 DEF LinesInv, blockVars, Final
  <2>2. DataStep
    BY <1>0, <1>5, SymbolsStay
  <2>3. LinkInv'
    BY <1>0, <1>1, <1>2, <1>5 DEF LinkInv
  <2> QED
    BY <2>1, <2>2, <2>3 DEF Inv, DataStep
<1> QED
  BY <1>3, <1>4, <1>5 DEF EndUnit

LEMMA ScriptLineStep ==
    ASSUME Inv, ScriptLine
    PROVE  Inv' /\ GlobalKept
<1>0. DataInv /\ LinesInv /\ LinkInv
  BY DEF Inv
<1>1. /\ pc = "word" /\ args.op # "" /\ linking
      /\ UNCHANGED <<blockVars, source, linking, unit, todo, script, compiled>>
  BY DEF ScriptLine, InScript, Elsewhere
<1>2. DataStep /\ Onward
  <2>1. CASE \/ args.op = "=" /\ Assigns(args.args[1].v, args.args[2])
             \/ args.op \in Directives /\ Directive(args.op, args.args)
    BY <1>0, <1>1, <2>1, CommonLineStep
  <2>2. CASE Abort
    BY <1>0, <2>2, SymbolsStay, OnwardSteps DEF Abort
  <2> QED
    BY <2>1, <2>2 DEF ScriptLine
<1>3. LinesInv'
  BY <1>0, <1>1, <1>2, OnwardKeeps
<1>4. LinkInv'
  BY <1>0, <1>1, <1>2 DEF LinkInv, Onward, blockVars
<1> QED
  BY <1>2, <1>3, <1>4 DEF Inv, DataStep

LEMMA FileLineStep ==
    ASSUME Inv, FileLine
    PROVE  Inv' /\ GlobalKept
<1>0. DataInv /\ LinesInv /\ LinkInv
  BY DEF Inv
<1>1. /\ pc = "word" /\ args.op # "" /\ linking
      /\ UNCHANGED <<blockVars, source, linking, unit, todo, script>>
  BY DEF FileLine, InScript, Elsewhere
<1>2. CASE ERR /\ UNCHANGED compiled
  <2>1. DataStep /\ Onward
    BY <1>0, <1>2, SymbolsStay, OnwardSteps DEF ERR
  <2>2. LinesInv'
    BY <1>0, <1>1, <2>1, OnwardKeeps
  <2>3. LinkInv'
    BY <1>0, <1>1, <1>2, <2>1 DEF LinkInv, Onward, blockVars
  <2> QED
    BY <2>1, <2>2, <2>3 DEF Inv, DataStep
<1>3. CASE /\ \E order \in Orders(Unplaced) :
                 sections' = [sections EXCEPT ![section] = Link(sections[section], order).sec]
           /\ compiled' = [u \in DOMAIN compiled |-> [s \in DOMAIN compiled[u] |->
                 IF <<u, s>> \in Unplaced THEN [compiled[u][s] EXCEPT !.data = FALSE]
                 ELSE compiled[u][s]]]
           /\ Continue
           /\ UNCHANGED <<symbols, section, errors>>
  <2>1. PICK order \in Orders(Unplaced) :
           sections' = [sections EXCEPT ![section] = Link(sections[section], order).sec]
    BY <1>3
  <2>2. SectionOK(sections[section])
    BY <1>0 DEF DataInv, SectionsOK
  <2>3. PICK sec, s : sec = sections[section] /\ s = Link(sec, order).sec
    OBVIOUS
  <2>4. SectionOK(s)
    <3>1. LinkedUpTo(Len(order), Link(sec, order), sec, order)
      BY <1>0, <2>2, <2>3, OrderTakesEachOnce, LinkPlaces
    <3> QED
      BY <2>3, <3>1 DEF LinkedUpTo
  <2>5. DataStep
    BY <1>0, <1>3, <2>1, <2>3, <2>4, InUseStep
  <2>6. Onward
    BY <1>3 DEF Continue, Onward
  <2>7. LinesInv'
    BY <1>0, <1>1, <2>6, OnwardKeeps
  <2>8. /\ DOMAIN compiled' = DOMAIN compiled
        /\ \A u \in DOMAIN compiled :
              /\ DOMAIN compiled'[u] = DOMAIN compiled[u]
              /\ \A n \in DOMAIN compiled[u] : compiled'[u][n] \in [size : Nat, data : BOOLEAN]
    <3>1. DOMAIN compiled' = DOMAIN compiled
      BY <1>3
    <3>2. ASSUME NEW u \in DOMAIN compiled
          PROVE  /\ DOMAIN compiled'[u] = DOMAIN compiled[u]
                 /\ \A n \in DOMAIN compiled[u] : compiled'[u][n] \in [size : Nat, data : BOOLEAN]
      <4>1. compiled'[u] = [n \in DOMAIN compiled[u] |->
               IF <<u, n>> \in Unplaced THEN [compiled[u][n] EXCEPT !.data = FALSE] ELSE compiled[u][n]]
        BY <1>3
      <4>2. \A r \in [size : Nat, data : BOOLEAN] : \A b \in BOOLEAN :
               [r EXCEPT !.data = b] \in [size : Nat, data : BOOLEAN]
        OBVIOUS
      <4>3. FALSE \in BOOLEAN
        OBVIOUS
      <4>4. \A r \in [size : Nat, data : BOOLEAN] :
               [r EXCEPT !.data = FALSE] \in [size : Nat, data : BOOLEAN]
        BY <4>2, <4>3, Zenon
      <4>5. ASSUME NEW n \in DOMAIN compiled[u]
            PROVE  compiled'[u][n] \in [size : Nat, data : BOOLEAN]
        <5>1. compiled[u][n] \in [size : Nat, data : BOOLEAN]
          BY <1>0 DEF LinkInv
        <5>2. \/ compiled'[u][n] = [compiled[u][n] EXCEPT !.data = FALSE]
              \/ compiled'[u][n] = compiled[u][n]
          BY <4>1, Zenon
        <5> QED
          BY <4>4, <5>1, <5>2, Zenon
      <4> QED
        BY <4>1, <4>5
    <3> QED
      BY <3>1, <3>2
  <2>9. LinkInv'
    BY <1>0, <1>1, <2>6, <2>8 DEF LinkInv, Onward, blockVars
  <2> QED
    BY <2>5, <2>7, <2>9 DEF Inv, DataStep
<1> QED
  BY <1>2, <1>3 DEF FileLine

LEMMA InitInv == LinkerInit => Inv
<1> SUFFICES ASSUME LinkerInit
             PROVE  Inv
  OBVIOUS
<1>1. PICK i \in DOMAIN Projects :
         /\ source = Projects[i].source /\ script = Projects[i].script
         /\ unit = Head(Projects[i].units) /\ todo = Tail(Projects[i].units)
  BY DEF LinkerInit
<1>a. /\ section = ".text" /\ sections = [s \in {".text"} |-> NewSection(1)] /\ symbols = <<>>
      /\ history = <<>> /\ dl = <<>> /\ macros = <<>> /\ f_line = 0 /\ pc = "skip" /\ args = NoLine
      /\ linking = FALSE /\ compiled = <<>>
  BY Zenon DEF LinkerInit
<1>2. /\ DOMAIN source \subseteq STRING /\ \A f \in DOMAIN source : source[f] \in Seq(Line)
      /\ script \in STRING
  BY <1>1, ProjectAssumption
<1>3. unit \in STRING /\ todo \in Seq(STRING)
  <2>1. PICK units : units = Projects[i].units
    OBVIOUS
  <2>2. units \in Seq(STRING) /\ units # <<>>
    BY <2>1, ProjectAssumption
  <2>3. Head(units) \in STRING /\ Tail(units) \in Seq(STRING)
    BY <2>2
  <2> QED
    BY <1>1, <2>1, <2>3, Zenon
<1>4. DataInv
  <2>1. Sizes(<<>>) \in Seq(Nat) /\ Len(Sizes(<<>>)) = 0
    BY DEF Sizes
  <2>2. Total(Sizes(<<>>)) = 0
    BY <2>1, TotalEmpty
  <2>3. SectionOK(NewSection(1))
    BY <2>2 DEF SectionOK, NewSection
  <2>4. IsFiniteSet({".text"}) /\ ".text" \in Names
    BY FS_Singleton DEF Names
  <2>5. /\ section = ".text" /\ sections = [s \in {".text"} |-> NewSection(1)]
        /\ DOMAIN symbols = {}
    BY <1>a
  <2>6. DOMAIN sections = {".text"} /\ sections[".text"] = NewSection(1)
    BY <2>5
  <2>7. SectionsOK(sections)
    BY <2>3, <2>4, <2>6 DEF SectionsOK
  <2> QED
    BY <2>5, <2>6, <2>7 DEF DataInv, SymbolsOK
<1>5. LinesInv
  <2>1. helper_file_parse(unit) \in Seq(Entries)
    <3>1. CASE unit \in DOMAIN source
      <4>1. unit \in Names /\ source[unit] \in Seq(Line)
        BY <1>2, <1>3, <3>1 DEF Names
      <4>2. Name(unit) \in Entries /\ Number_(0) \in Entries
        BY <4>1, EntryMakers
      <4>3. [k \in 1..Len(source[unit]) |-> Entry(source[unit][k])] \in Seq(Entries)
        BY <4>1, EntryMakers
      <4>4. <<Name(unit), Number_(0)>> \in Seq(Entries)
        BY <4>2
      <4> QED
        BY <3>1, <4>3, <4>4, ConcatProperties DEF helper_file_parse
    <3>2. CASE unit \notin DOMAIN source
      <4>1. [is |-> "null", v |-> 0] \in Entries
        BY DEF Entries
      <4> QED
        BY <3>2, <4>1 DEF helper_file_parse, NullFile
    <3> QED
      BY <3>1, <3>2
  <2>2. PICK l : l = helper_file_parse(unit)
    OBVIOUS
  <2>3. files = <<l>> /\ l \in Seq(Entries)
    BY <2>1, <2>2 DEF LinkerInit
  <2>4. files \in Seq(Seq(Entries))
    BY <2>3
  <2>5. "" \in Names
    BY DEF Names
  <2>6. file \in Names
    BY <2>5, Zenon DEF LinkerInit
  <2>7. history = <<>> /\ dl = <<>> /\ DOMAIN macros = {} /\ f_line = 0 /\ pc = "skip" /\ args = NoLine
    BY <1>a
  <2>8. history \in Seq(Frames) /\ dl \in Seq(Entries) /\ f_line \in Int
    BY <2>7
  <2> QED
    BY <1>2, <2>4, <2>6, <2>7, <2>8 DEF LinesInv
<1>6. LinkInv
  <2>1. linking = FALSE /\ DOMAIN compiled = {}
    BY <1>a
  <2>2. IsFiniteSet({})
    BY FS_EmptySet
  <2> QED
    BY <1>2, <1>3, <2>1, <2>2 DEF LinkInv
<1> QED
  BY <1>4, <1>5, <1>6 DEF Inv

LEMMA StepInv ==
    ASSUME Inv, [LinkerNext]_linkerVars
    PROVE  Inv' /\ (todo' = todo /\ linking' = linking => GlobalKept)
<1>0. DataInv /\ LinesInv /\ LinkInv
  BY DEF Inv
<1>1. CASE LinesNext /\ UNCHANGED <<unit, todo, script, compiled, linked>>
  BY <1>1, LinesStep, LinesKeepLink DEF Inv, DataStep
<1>2. CASE EndUnit
  BY <1>2, EndUnitStep
<1>3. CASE BadFree
  <2>1. pc' = "undefined" /\ UNCHANGED <<file, f_line, symbols, section, sections, blockVars, source,
                                         linking, unit, todo, script, compiled>>
    BY <1>3 DEF BadFree
  <2>2. LinesInv'
    BY <1>0, <2>1 DEF LinesInv, blockVars, Final
  <2>3. DataStep
    BY <1>0, <2>1, SymbolsStay
  <2>4. LinkInv'
    BY <1>0, <2>1 DEF LinkInv, blockVars
  <2> QED
    BY <2>2, <2>3, <2>4 DEF Inv, DataStep
<1>4. CASE ScriptLine
  BY <1>4, ScriptLineStep
<1>5. CASE FileLine
  BY <1>5, FileLineStep
<1>6. CASE EndScript
  <2>1. pc' = "done" /\ UNCHANGED <<file, f_line, symbols, section, sections, compiled, blockVars, source,
                                    linking, unit, todo, script>>
    BY <1>6 DEF EndScript, Elsewhere
  <2>2. LinesInv'
    BY <1>0, <2>1 DEF LinesInv, blockVars, Final
  <2>3. DataStep
    BY <1>0, <2>1, SymbolsStay
  <2>4. LinkInv'
    BY <1>0, <2>1 DEF LinkInv, blockVars
  <2> QED
    BY <2>2, <2>3, <2>4 DEF Inv, DataStep
<1>7. CASE UNCHANGED linkerVars
  <2>1. UNCHANGED <<pc, file, f_line, symbols, section, sections, compiled, blockVars, source,
                    linking, unit, todo, script>>
    BY <1>7 DEF linkerVars, sourceVars, cmplVars
  <2>2. LinesInv'
    BY <1>0, <2>1 DEF LinesInv, blockVars
  <2>3. DataStep
    BY <1>0, <2>1, SymbolsStay
  <2>4. LinkInv'
    BY <1>0, <2>1 DEF LinkInv, blockVars
  <2> QED
    BY <2>2, <2>3, <2>4 DEF Inv, DataStep
<1> QED
  BY <1>1, <1>2, <1>3, <1>4, <1>5, <1>6, <1>7 DEF LinkerNext

-----------------------------------------------------------------------------
(* The other lines of the script *)

\* What a line adds is as long as it advances by
Adds ==
    \/ UNCHANGED sections
    \/ \E bytes \in Nat : \E requests : sections' = Added(sections, section, bytes, bytes, requests)

LEMMA FillsAdds ==
    ASSUME NEW bytes, ERR \/ Nothing \/ Crash \/ Abort \/ (bytes \in Nat /\ Fills(bytes))
    PROVE  Adds /\ UNCHANGED section
BY DEF ERR, Nothing, Crash, Abort, Fills, Adds

LEMMA AssignsAdds ==
    ASSUME DataInv, NEW name, NEW w \in Word, Assigns(name, w)
    PROVE  Adds /\ UNCHANGED section
<1>1. CASE Crash
  BY <1>1, FillsAdds
<1>2. CASE sections' = Advanced(sections, ValueNow(w)) /\ UNCHANGED section
  <2>1. ValueNow(w) \in Nat /\ Here \in Nat
    BY OperandValues DEF DataInv, SectionsOK, SectionOK, Here
  <2>2. CASE ValueNow(w) > Here
    <3>1. ValueNow(w) - Here \in Nat
      BY <2>1, <2>2
    <3>2. sections' = Added(sections, section, ValueNow(w) - Here, ValueNow(w) - Here, <<>>)
      BY <1>2, <2>2 DEF Advanced
    <3> QED
      BY <1>2, <3>1, <3>2 DEF Adds
  <2>3. CASE ~(ValueNow(w) > Here)
    BY <1>2, <2>3 DEF Advanced, Adds
  <2> QED
    BY <2>2, <2>3
<1>3. CASE UNCHANGED <<section, sections>>
  BY <1>3 DEF Adds
<1> QED
  BY <1>1, <1>2, <1>3 DEF Assigns

LEMMA DirectiveAdds ==
    ASSUME DataInv, NEW op \in Directives, NEW ws \in Seq(Word),
           op \in {".ascii", ".asciz"} => \A i \in 1..Len(ws) : ws[i].kind = "str",
           Directive(op, ws)
    PROVE  Adds /\ UNCHANGED section
<1>1. ASSUME NEW k \in {1, 2, 4, 8}, _parse_int(ws, k)
      PROVE  Adds /\ UNCHANGED section
  <2>1. CASE Nothing
    BY <2>1, FillsAdds
  <2>2. CASE Emits(ws, Len(ws) * k, Len(ws) * k, [i \in 1..Len(ws) |-> (i - 1) * k], k)
    <3>1. PICK n, offset : n = Len(ws) * k /\ offset = [i \in 1..Len(ws) |-> (i - 1) * k]
      OBVIOUS
    <3>2. n \in Nat
      BY <3>1
    <3>3. Emits(ws, n, n, offset, k)
      BY <2>2, <3>1
    <3>4. CASE Crash
      BY <3>4, FillsAdds
    <3>5. CASE sections' = Added(sections, section, n, n, Requests(ws, offset, k)) /\ UNCHANGED section
      BY <3>2, <3>5 DEF Adds
    <3> QED
      BY <3>3, <3>4, <3>5 DEF Emits
  <2> QED
    BY <1>1, <2>1, <2>2 DEF _parse_int
<1>2. ASSUME NEW k \in {1, 2, 4, 8}, Reals(ws, k)
      PROVE  Adds /\ UNCHANGED section
  <2>1. Len(ws) * k \in Nat
    OBVIOUS
  <2> QED
    BY <1>2, <2>1, FillsAdds DEF Reals
<1>3. ASSUME NEW k \in {0, 1}, Texts(ws, k), \A i \in 1..Len(ws) : ws[i].kind = "str"
      PROVE  Adds /\ UNCHANGED section
  <2>1. \A i \in 1..Len(ws) : ws[i].v + k \in Nat
    BY <1>3, OperandNumbers
  <2>2. [i \in 1..Len(ws) |-> ws[i].v + k] \in Seq(Nat)
    BY <2>1
  <2>3. Total([i \in 1..Len(ws) |-> ws[i].v + k]) \in Nat
    BY <2>2, TotalNat
  <2> QED
    BY <1>3, <2>3, FillsAdds DEF Texts
<1>4. ASSUME _parse_skip(ws)
      PROVE  Adds /\ UNCHANGED section
  BY <1>4, ArgNumbers, FillsAdds DEF _parse_skip
<1>5. ASSUME _parse_fill(ws)
      PROVE  Adds /\ UNCHANGED section
  <2> DEFINE k == IF Arg(ws, 2) = 0 THEN 1 ELSE Arg(ws, 2)
  <2>1. k \in Nat /\ Arg(ws, 1) \in Nat
    BY ArgNumbers
  <2>2. k * Arg(ws, 1) \in Nat
    BY <2>1
  <2>3. ERR \/ Fills(k * Arg(ws, 1))
    BY <1>5 DEF _parse_fill
  <2> QED
    BY <2>2, <2>3, FillsAdds
<1>6. ASSUME _parse_align(ws)
      PROVE  Adds /\ UNCHANGED section
  <2> DEFINE align == Arg(ws, 1)
             needed == (align - (Here % align)) % align
  <2>1. align \in Nat /\ Here \in Nat
    BY ArgNumbers DEF DataInv, SectionsOK, SectionOK, Here
  <2>2. ERR \/ Nothing \/ (align # 0 /\ Fills(needed))
    BY <1>6 DEF _parse_align
  <2>3. align # 0 => needed \in Nat
    BY <2>1
  <2> QED
    BY <2>2, <2>3, FillsAdds
<1>7. ASSUME _parse_org(ws)
      PROVE  Adds /\ UNCHANGED section
  <2>1. Arg(ws, 1) \in Nat /\ Here \in Nat
    BY ArgNumbers DEF DataInv, SectionsOK, SectionOK, Here
  <2>2. ERR \/ Nothing \/ (Arg(ws, 1) > Here /\ Fills(Arg(ws, 1) - Here))
    BY <1>7 DEF _parse_org
  <2>3. Arg(ws, 1) > Here => Arg(ws, 1) - Here \in Nat
    BY <2>1
  <2> QED
    BY <2>2, <2>3, FillsAdds
<1>8. ASSUME _parse_equ(ws)
      PROVE  Adds /\ UNCHANGED section
  <2>1. CASE ERR
    BY <2>1, FillsAdds
  <2>2. CASE Len(ws) = 2 /\ Assigns(ws[1].v, ws[2])
    <3>1. PICK name, w : name = ws[1].v /\ w = ws[2]
      OBVIOUS
    <3>2. w \in Word
      BY <2>2, <3>1
    <3>3. Assigns(name, w)
      BY <2>2, <3>1
    <3> QED
      BY <3>2, <3>3, AssignsAdds
  <2> QED
    BY <1>8, <2>1, <2>2 DEF _parse_equ
<1>9. \/ op \in {".byte", ".short", ".int", ".long"} /\ \E k \in {1, 2, 4, 8} : _parse_int(ws, k)
      \/ op \in {".float", ".double"} /\ \E k \in {1, 2, 4, 8} : Reals(ws, k)
      \/ op \in {".ascii", ".asciz"} /\ \E k \in {0, 1} : Texts(ws, k)
      \/ op \in {".skip", ".fill", ".align", ".org"}
         /\ (_parse_skip(ws) \/ _parse_fill(ws) \/ _parse_align(ws) \/ _parse_org(ws))
      \/ op = ".equ" /\ _parse_equ(ws)
  BY DEF Directive, Directives
<1> QED
  BY <1>1, <1>2, <1>3, <1>4, <1>5, <1>6, <1>7, <1>8, <1>9

LEMMA PlacesStay ==
    ASSUME NEW old, NEW parts, NEW results, NEW maps, Theirs(parts) = Theirs(old),
           \A k \in Theirs(old) : parts[k] = old[k] /\ Before(parts, k) = Before(old, k),
           Taken(old, results), Once(old), Rightly(old, maps), AllRecorded(old, maps)
    PROVE  Taken(parts, results) /\ Once(parts) /\ Rightly(parts, maps) /\ AllRecorded(parts, maps)
<1>1. Taken(parts, results)
  BY DEF Taken
<1>2. Once(parts)
  BY DEF Once
<1>3. Rightly(parts, maps)
  <2> SUFFICES ASSUME NEW i \in 1..Len(maps), NEW x \in DOMAIN maps[i].at
               PROVE  \E k \in Theirs(parts) :
                         parts[k].of = <<maps[i].file, x>> /\ maps[i].at[x] = Before(parts, k)
    BY DEF Rightly
  <2>1. PICK k \in Theirs(old) : old[k].of = <<maps[i].file, x>> /\ maps[i].at[x] = Before(old, k)
    BY DEF Rightly
  <2> QED
    BY <2>1
<1>4. AllRecorded(parts, maps)
  BY DEF AllRecorded
<1> QED
  BY <1>1, <1>2, <1>3, <1>4

LEMMA ScriptLinePlaces ==
    ASSUME Inv, PlacedInv, ScriptLine
    PROVE  PlacedInv'
<1>1. /\ pc = "word" /\ args.op # "" /\ linking
      /\ UNCHANGED <<linking, compiled, linked>>
  BY DEF ScriptLine, InScript, Elsewhere
<1>2. DataInv /\ LinesInv
  BY DEF Inv
<1>3. Adds /\ UNCHANGED section
  <2>1. args \in Line /\ args.args \in Seq(Word)
    BY <1>1, <1>2, ArgsAre
  <2>2. CASE args.op = "=" /\ Assigns(args.args[1].v, args.args[2])
    <3>1. Len(args.args) = 2
      BY <2>1, <2>2, LineFields
    <3>2. PICK name, w : name = args.args[1].v /\ w = args.args[2]
      OBVIOUS
    <3>3. w \in Word
      BY <2>1, <3>1, <3>2
    <3>4. Assigns(name, w)
      BY <2>2, <3>2
    <3> QED
      BY <1>2, <3>3, <3>4, AssignsAdds
  <2>3. CASE args.op \in Directives /\ Directive(args.op, args.args)
    <3>1. args.op \in {".ascii", ".asciz"} => \A i \in 1..Len(args.args) : args.args[i].kind = "str"
      BY <2>1, LineFields
    <3> QED
      BY <1>2, <2>1, <2>3, <3>1, DirectiveAdds
  <2>4. CASE Abort
    BY <2>4, FillsAdds
  <2> QED
    BY <2>2, <2>3, <2>4 DEF ScriptLine
<1>4. CASE UNCHANGED sections
  BY <1>1, <1>3, <1>4 DEF PlacedInv
<1>5. ASSUME NEW bytes \in Nat, NEW requests,
             sections' = Added(sections, section, bytes, bytes, requests)
      PROVE  PlacedInv'
  <2>1. section = ".linker" /\ ".linker" \in DOMAIN sections
    BY <1>1, <1>2 DEF PlacedInv, DataInv
  <2>2. PICK s, t : s = sections[".linker"] /\ t = sections'[".linker"]
    OBVIOUS
  <2>3. SectionOK(s)
    BY <1>2, <2>1, <2>2 DEF DataInv, SectionsOK
  <2>4. PICK part : part = Part(bytes)
    OBVIOUS
  <2>5. part \in PartType /\ part.size = bytes /\ part.of = <<>>
    BY <2>4 DEF Part, PartType
  <2>6. t.address = s.address + part.size /\ t.parts = Append(s.parts, part)
    <3>1. PICK u : u = [s EXCEPT !.address = @ + bytes, !.parts = Append(@, Part(bytes)), !.expr = @ \o requests]
      OBVIOUS
    <3>2. sections' = [sections EXCEPT ![".linker"] = u]
      BY <1>5, <2>1, <2>2, <3>1, Zenon DEF Added
    <3>3. t = u
      BY <2>1, <2>2, <3>2
    <3>4. IsAdded(t, s, bytes, bytes, requests)
      BY <3>1, <3>3 DEF IsAdded
    <3>5. bytes <= bytes
      OBVIOUS
    <3>6. t.address = s.address + bytes /\ t.parts = Append(s.parts, Part(bytes))
      BY <2>3, <3>4, <3>5, AddedFields
    <3> QED
      BY <2>4, <2>5, <3>6
  <2>7. /\ Len(t.parts) = Len(s.parts) + 1 /\ Len(s.parts) \in Nat
        /\ \A i \in 1..Len(s.parts) : t.parts[i] = s.parts[i]
        /\ t.parts[Len(s.parts) + 1] = part
        /\ Filled(s) => Filled(t)
    BY <2>3, <2>5, <2>6, PartAddedIs
  <2>8. Theirs(t.parts) = Theirs(s.parts)
    BY <2>5, <2>7 DEF Theirs
  <2>9. \A k \in Theirs(s.parts) : t.parts[k] = s.parts[k] /\ Before(t.parts, k) = Before(s.parts, k)
    <3> SUFFICES ASSUME NEW k \in Theirs(s.parts)
                 PROVE  t.parts[k] = s.parts[k] /\ Before(t.parts, k) = Before(s.parts, k)
      OBVIOUS
    <3>1. k \in 1..Len(s.parts)
      BY DEF Theirs
    <3>2. PICK a, b : a = s.parts /\ b = t.parts
      OBVIOUS
    <3>3. k \in Nat /\ \A i \in 1..(k - 1) : b[i] = a[i]
      BY <2>7, <3>1, <3>2
    <3>4. Before(b, k) = Before(a, k)
      BY <3>3, BeforeSame
    <3> QED
      BY <2>7, <3>1, <3>2, <3>4
  <2>10. /\ IsMaps(linked) /\ Filled(s) /\ Taken(s.parts, compiled) /\ Once(s.parts)
         /\ Rightly(s.parts, linked) /\ NotTwice(linked) /\ AllRecorded(s.parts, linked)
    BY <1>1, <2>2 DEF PlacedInv
  <2>11. PICK old, parts : old = s.parts /\ parts = t.parts
    OBVIOUS
  <2>12. Taken(parts, compiled) /\ Once(parts) /\ Rightly(parts, linked) /\ AllRecorded(parts, linked)
    <3>1. /\ Theirs(parts) = Theirs(old)
          /\ \A k \in Theirs(old) : parts[k] = old[k] /\ Before(parts, k) = Before(old, k)
      BY <2>8, <2>9, <2>11
    <3>2. Taken(old, compiled) /\ Once(old) /\ Rightly(old, linked) /\ AllRecorded(old, linked)
      BY <2>10, <2>11
    <3> QED
      BY <3>1, <3>2, PlacesStay
  <2>13. /\ section' = ".linker" /\ linking' /\ IsMaps(linked') /\ Filled(t) /\ parts = sections'[".linker"].parts
         /\ compiled' = compiled /\ linked' = linked
    BY <1>1, <1>3, <2>1, <2>2, <2>7, <2>10, <2>11
  <2> QED
    BY <2>2, <2>10, <2>12, <2>13 DEF PlacedInv
<1> QED
  BY <1>3, <1>4, <1>5 DEF Adds

LEMMA FileLinePlaces ==
    ASSUME Inv, PlacedInv, FileLine
    PROVE  PlacedInv'
<1>1. pc = "word" /\ args.op # "" /\ linking /\ UNCHANGED linking
  BY DEF FileLine, InScript, Elsewhere
<1>2. DataInv /\ LinkInv
  BY DEF Inv
<1>3. section = ".linker" /\ ".linker" \in DOMAIN sections
  BY <1>1, <1>2 DEF PlacedInv, DataInv
<1>4. CASE ERR /\ UNCHANGED <<compiled, linked>>
  BY <1>1, <1>4 DEF PlacedInv, ERR
<1>5. ASSUME ~Refused, UNCHANGED <<symbols, section, errors>>,
             NEW order \in Orders(Unplaced), NEW map \in [{p[1] : p \in Unplaced} -> 0..Len(linked)],
             NEW st, st = Link(sections[section], order), \A u \in DOMAIN map : Found(u, map[u]),
             linked' = Recorded(st.at, map, args.args[1].v = "*"),
             sections' = [sections EXCEPT ![section] = st.sec],
             compiled' = [u \in DOMAIN compiled |-> [s \in DOMAIN compiled[u] |->
                 IF <<u, s>> \in Unplaced THEN [compiled[u][s] EXCEPT !.data = FALSE]
                 ELSE compiled[u][s]]]
      PROVE  PlacedInv'
  <2>1. PICK sec, alive, maps, results :
           /\ sec = sections[".linker"] /\ alive = (args.args[1].v = "*")
           /\ maps = linked' /\ results = compiled'
    OBVIOUS
  <2>2. SectionOK(sec)
    BY <1>2, <1>3, <2>1 DEF DataInv, SectionsOK
  <2>3. /\ IsMaps(linked) /\ Filled(sec) /\ Taken(sec.parts, compiled) /\ Once(sec.parts)
        /\ Rightly(sec.parts, linked) /\ NotTwice(linked) /\ AllRecorded(sec.parts, linked)
    BY <1>1, <2>1 DEF PlacedInv
  <2>4. DOMAIN results = DOMAIN compiled
    BY <1>5, <2>1
  <2>5. \A u \in DOMAIN compiled :
           results[u] = [n \in DOMAIN compiled[u] |->
               IF <<u, n>> \in Unplaced THEN [compiled[u][n] EXCEPT !.data = FALSE] ELSE compiled[u][n]]
    BY <1>5, <2>1
  <2>6. \A u \in DOMAIN results : DOMAIN results[u] = DOMAIN compiled[u]
    BY <2>4, <2>5
  <2>7. ASSUME NEW u \in DOMAIN results, NEW n \in DOMAIN results[u], results[u][n].data
        PROVE  compiled[u][n].data /\ <<u, n>> \notin Unplaced
    <3>1. u \in DOMAIN compiled /\ n \in DOMAIN compiled[u]
      BY <2>4, <2>6
    <3>2. PICK c : c = compiled[u][n]
      OBVIOUS
    <3>3. results[u][n] = IF <<u, n>> \in Unplaced THEN [c EXCEPT !.data = FALSE] ELSE c
      BY <2>5, <3>1, <3>2, Zenon
    <3>4. c \in [size : Nat, data : BOOLEAN]
      BY <1>2, <3>1, <3>2 DEF LinkInv
    <3>5. PICK d : d = [c EXCEPT !.data = FALSE]
      OBVIOUS
    <3>6. d.data = FALSE
      BY <3>4, <3>5
    <3>7. <<u, n>> \notin Unplaced
      BY <2>7, <3>3, <3>5, <3>6
    <3> QED
      BY <2>7, <3>2, <3>3, <3>7
  <2>8. st = Link(sec, order) /\ maps = Recorded(st.at, map, alive)
    BY <1>3, <1>5, <2>1, Zenon
  <2>9. /\ IsMaps(maps) /\ Filled(st.sec)
        /\ Taken(st.sec.parts, results) /\ Once(st.sec.parts)
        /\ Rightly(st.sec.parts, maps) /\ NotTwice(maps) /\ AllRecorded(st.sec.parts, maps)
    <3>1. \A u \in DOMAIN results : \A n \in DOMAIN results[u] :
             results[u][n].data => compiled[u][n].data /\ <<u, n>> \notin Unplaced
      BY <2>7
    <3>2. \A u \in DOMAIN map : Found(u, map[u])
      BY <1>5
    <3> QED
      BY <1>2, <2>2, <2>3, <2>4, <2>6, <2>8, <3>1, <3>2, SectionsPlaced
  <2>10. sections'[".linker"] = st.sec /\ section' = ".linker" /\ linking' /\ linking' = TRUE
    BY <1>1, <1>3, <1>5
  <2> QED
    BY <2>1, <2>9, <2>10 DEF PlacedInv
<1> QED
  BY <1>4, <1>5 DEF FileLine

LEMMA EndUnitPlaces ==
    ASSUME Inv, PlacedInv, EndUnit
    PROVE  PlacedInv'
<1>1. ~linking /\ linked' = <<>> /\ linked = <<>>
  BY DEF EndUnit, AtEnd, Inv, LinkInv, PlacedInv
<1>2. IsMaps(<<>>)
  BY DEF IsMaps
<1>3. CASE ~linking'
  BY <1>1, <1>2, <1>3 DEF PlacedInv
<1>4. CASE section' = ".linker" /\ sections' = [s \in {".linker"} |-> NewSection(0)]
  <2>1. PICK s : s = sections'[".linker"]
    OBVIOUS
  <2>2. s = NewSection(0)
    BY <1>4, <2>1
  <2>3. s.parts = <<>> /\ s.address = 0
    BY <2>2 DEF NewSection
  <2>4. Filled(s)
    <3>1. Sizes(<<>>) \in Seq(Nat) /\ Len(Sizes(<<>>)) = 0
      BY DEF Sizes
    <3>2. Total(Sizes(<<>>)) = 0
      BY <3>1, TotalEmpty
    <3> QED
      BY <2>3, <3>2 DEF Filled
  <2>5. Theirs(<<>>) = {}
    BY DEF Theirs
  <2>6. Taken(<<>>, compiled') /\ Once(<<>>) /\ AllRecorded(<<>>, <<>>)
    BY <2>5 DEF Taken, Once, AllRecorded
  <2>7. Rightly(<<>>, <<>>) /\ NotTwice(<<>>)
    BY DEF Rightly, NotTwice
  <2> QED
    BY <1>1, <1>2, <1>4, <2>1, <2>3, <2>4, <2>6, <2>7 DEF PlacedInv
<1>5. \/ UNCHANGED linking
      \/ linking' = FALSE
      \/ section' = ".linker" /\ sections' = [s \in {".linker"} |-> NewSection(0)]
  <2>1. CASE todo # <<>> /\ NewUnit(Head(todo))
    BY <2>1 DEF NewUnit
  <2>2. CASE section' = ".linker" /\ sections' = [s \in {".linker"} |-> NewSection(0)]
    BY <2>2
  <2>3. CASE UNCHANGED linking
    BY <2>3
  <2> QED
    BY <2>1, <2>2, <2>3, Zenon DEF EndUnit
<1> QED
  BY <1>1, <1>3, <1>4, <1>5

LEMMA PlacesUnchanged ==
    ASSUME PlacedInv, UNCHANGED <<linking, linked>>,
           linking => UNCHANGED <<section, sections, compiled>>
    PROVE  PlacedInv'
BY DEF PlacedInv

LEMMA LinesPlace ==
    ASSUME Inv, PlacedInv, LinesNext, UNCHANGED <<unit, todo, script, compiled, linked>>
    PROVE  PlacedInv'
<1>1. UNCHANGED linking
  BY LinesKeepLink
<1>2. ASSUME linking
      PROVE  UNCHANGED <<section, sections>>
  <2>1. ReadLine \/ BlankLine
    BY <1>2, ScriptReads DEF Inv
  <2> QED
    BY <2>1 DEF ReadLine, BlankLine, Nothing
<1> QED
  BY <1>1, <1>2, PlacesUnchanged

LEMMA StepPlaces ==
    ASSUME Inv, PlacedInv, [LinkerNext]_linkerVars
    PROVE  PlacedInv'
<1>1. CASE LinesNext /\ UNCHANGED <<unit, todo, script, compiled, linked>>
  BY <1>1, LinesPlace
<1>2. CASE EndUnit
  BY <1>2, EndUnitPlaces
<1>3. CASE BadFree
  BY <1>3, PlacesUnchanged DEF BadFree
<1>4. CASE ScriptLine
  BY <1>4, ScriptLinePlaces
<1>5. CASE FileLine
  BY <1>5, FileLinePlaces
<1>6. CASE EndScript
  BY <1>6, PlacesUnchanged DEF EndScript, Elsewhere
<1>7. CASE UNCHANGED linkerVars
  BY <1>7, PlacesUnchanged DEF linkerVars, sourceVars, cmplVars
<1> QED
  BY <1>1, <1>2, <1>3, <1>4, <1>5, <1>6, <1>7 DEF LinkerNext

LEMMA InitPlaces == LinkerInit => PlacedInv
<1> SUFFICES ASSUME LinkerInit
             PROVE  PlacedInv
  OBVIOUS
<1>1. linking = FALSE /\ linked = <<>>
  BY Zenon DEF LinkerInit
<1> QED
  BY <1>1 DEF PlacedInv, IsMaps

-----------------------------------------------------------------------------
(* As many records as parts *)

\* The sum of the sizes of disjoint sets is the size of all of them
LEMMA DisjointSizes ==
    ASSUME NEW n \in Nat, NEW S, \A i \in 1..n : IsFiniteSet(S[i]),
           \A i, j \in 1..n : S[i] \cap S[j] # {} => i = j,
           NEW sizes, Len(sizes) = n, \A i \in 1..n : sizes[i] = Cardinality(S[i])
    PROVE  Cardinality(UNION {S[i] : i \in 1..n}) = Total(sizes)
<1> DEFINE U(m) == UNION {S[i] : i \in 1..m}
<1>1. \A i \in 1..n : sizes[i] \in Nat
  BY FS_CardinalityType
<1>2. PICK f \in [0..n -> Nat] : IsSum(f, n, sizes)
  BY <1>1, SumExists
<1>3. \A i \in 0..n : f[i] = IF i = 0 THEN 0 ELSE f[i - 1] + sizes[i]
  BY <1>2 DEF IsSum
<1> DEFINE Bad_ == {m \in 0..n : ~(IsFiniteSet(U(m)) /\ Cardinality(U(m)) = f[m])}
<1>4. ASSUME Bad_ # {}
      PROVE  FALSE
  <2>1. PICK m \in Bad_ : \A k \in Bad_ : ~(k < m)
    <3>1. Bad_ \in SUBSET Nat
      OBVIOUS
    <3> HIDE DEF Bad_
    <3> QED
      BY <1>4, <3>1, LeastOf
  <2>2. m # 0
    <3>1. U(0) = {}
      OBVIOUS
    <3>2. f[0] = 0
      BY <1>3
    <3>3. IsFiniteSet(U(0)) /\ Cardinality(U(0)) = f[0]
      BY <3>1, <3>2, FS_EmptySet
    <3> QED
      BY <2>1, <3>3
  <2>3. m \in 1..n /\ m - 1 \in 0..n /\ m - 1 < m
    BY <2>1, <2>2
  <2>4. IsFiniteSet(U(m - 1)) /\ Cardinality(U(m - 1)) = f[m - 1]
    BY <2>1, <2>3
  <2>5. U(m) = U(m - 1) \cup S[m]
    <3>1. \A i : i \in 1..m <=> (i \in 1..(m - 1) \/ i = m)
      BY <2>3
    <3> QED
      BY <3>1
  <2>6. U(m - 1) \cap S[m] = {}
    <3>1. \A i \in 1..(m - 1) : i \in 1..n /\ i # m
      BY <2>3
    <3>2. \A i \in 1..(m - 1) : S[i] \cap S[m] = {}
      BY <2>3, <3>1
    <3> QED
      BY <3>2
  <2>7. PICK A, B, C : A = U(m - 1) /\ B = S[m] /\ C = U(m)
    OBVIOUS
  <2>8. IsFiniteSet(A) /\ IsFiniteSet(B) /\ C = A \cup B /\ A \cap B = {}
    <3>1. IsFiniteSet(A) /\ C = A \cup B /\ A \cap B = {}
      BY <2>4, <2>5, <2>6, <2>7, Zenon
    <3>2. IsFiniteSet(B)
      BY <2>3, <2>7
    <3> QED
      BY <3>1, <3>2
  <2>9. IsFiniteSet(C) /\ Cardinality(C) = Cardinality(A) + Cardinality(B)
    <3>1. IsFiniteSet(C) /\ Cardinality(C) = Cardinality(A) + Cardinality(B) - Cardinality(A \cap B)
      BY <2>8, FS_Union
    <3>2. Cardinality(A \cap B) = 0
      BY <2>8, FS_EmptySet
    <3>3. Cardinality(A) \in Nat /\ Cardinality(B) \in Nat
      BY <2>8, FS_CardinalityType
    <3> QED
      BY <3>1, <3>2, <3>3
  <2>10. Cardinality(A) = f[m - 1] /\ Cardinality(B) = sizes[m]
    <3>1. Cardinality(A) = f[m - 1]
      BY <2>4, <2>7, Zenon
    <3>2. Cardinality(B) = sizes[m]
      BY <2>3, <2>7
    <3> QED
      BY <3>1, <3>2
  <2>11. f[m] = f[m - 1] + sizes[m]
    BY <1>3, <2>2, <2>3
  <2>12. IsFiniteSet(U(m)) /\ Cardinality(U(m)) = f[m]
    <3>1. Cardinality(C) = f[m]
      BY <2>9, <2>10, <2>11
    <3> QED
      BY <2>7, <2>9, <3>1, Zenon
  <2> QED
    BY <2>1, <2>12
<1>5. Cardinality(U(n)) = f[n]
  <2>1. n \in 0..n
    OBVIOUS
  <2>2. n \notin Bad_
    <3> HIDE DEF Bad_
    <3> QED
      BY <1>4
  <2> QED
    BY <2>1, <2>2
<1>6. Total(sizes) = f[n]
  BY <1>2, TotalIs
<1> QED
  BY <1>5, <1>6

LEMMA RecordsCounted ==
    ASSUME NEW parts \in Seq(PartType), NEW maps, IsMaps(maps),
           Once(parts), Rightly(parts, maps), NotTwice(maps), AllRecorded(parts, maps)
    PROVE  Cardinality(Theirs(parts)) = Total([i \in 1..Len(maps) |-> Cardinality(DOMAIN maps[i].at)])
<1> DEFINE T == Theirs(parts)
           Of(i) == {k \in T : parts[k].of[1] = maps[i].file /\ parts[k].of[2] \in DOMAIN maps[i].at}
<1>1. Len(parts) \in Nat /\ Len(maps) \in Nat
  BY DEF IsMaps
<1>2. \A k \in T : parts[k].of = <<parts[k].of[1], parts[k].of[2]>>
  <2> SUFFICES ASSUME NEW k \in T
               PROVE  parts[k].of = <<parts[k].of[1], parts[k].of[2]>>
    OBVIOUS
  <2>1. parts[k] \in PartType /\ parts[k].of # <<>>
    BY DEF Theirs
  <2>2. parts[k].of \in Names \X Names
    BY <2>1 DEF PartType
  <2> QED
    BY <2>2
<1>3. IsFiniteSet(T)
  <2>1. IsFiniteSet(1..Len(parts))
    BY <1>1, FS_Interval
  <2>2. T \in SUBSET (1..Len(parts))
    BY DEF Theirs
  <2> QED
    BY <2>1, <2>2, FS_Subset
<1>4. ASSUME NEW i \in 1..Len(maps)
      PROVE  IsFiniteSet(Of(i)) /\ Cardinality(DOMAIN maps[i].at) = Cardinality(Of(i))
  <2>1. IsFiniteSet(Of(i))
    <3>1. Of(i) \in SUBSET T
      OBVIOUS
    <3> HIDE DEF T, Of
    <3> QED
      BY <1>3, <3>1, FS_Subset
  <2>2. PICK A, D : A = Of(i) /\ D = DOMAIN maps[i].at
    OBVIOUS
  <2>3. PICK g : g = [k \in A |-> parts[k].of[2]]
    OBVIOUS
  <2>4. \A k \in A : g[k] = parts[k].of[2] /\ k \in T /\ parts[k].of = <<maps[i].file, g[k]>> /\ g[k] \in D
    BY <1>2, <2>2, <2>3
  <2>5. g \in [A -> D]
    BY <2>3, <2>4
  <2>6. \A k, m \in A : g[k] = g[m] => k = m
    BY <2>4 DEF Once
  <2>7. \A x \in D : \E k \in A : g[k] = x
    <3> SUFFICES ASSUME NEW x \in D
                 PROVE  \E k \in A : g[k] = x
      OBVIOUS
    <3>1. PICK k \in T : parts[k].of = <<maps[i].file, x>>
      BY <2>2 DEF Rightly
    <3>2. k \in A
      BY <2>2, <3>1
    <3> QED
      BY <2>4, <3>1, <3>2
  <2>8. g \in Bijection(A, D)
    BY <2>5, <2>6, <2>7 DEF Bijection, Injection, Surjection, IsInjective
  <2>9. ExistsBijection(A, D)
    BY <2>8 DEF ExistsBijection
  <2>10. Cardinality(D) = Cardinality(A)
    <3>1. IsFiniteSet(A)
      BY <2>1, <2>2
    <3> QED
      BY <2>9, <3>1, FS_Bijection
  <2> QED
    BY <2>1, <2>2, <2>10
<1>5. ASSUME NEW i \in 1..Len(maps), NEW j \in 1..Len(maps), Of(i) \cap Of(j) # {}
      PROVE  i = j
  <2>1. PICK k : k \in Of(i) /\ k \in Of(j)
    BY <1>5
  <2>2. maps[i].file = maps[j].file /\ parts[k].of[2] \in DOMAIN maps[i].at \cap DOMAIN maps[j].at
    BY <2>1
  <2> QED
    BY <2>2 DEF NotTwice
<1>6. UNION {Of(i) : i \in 1..Len(maps)} = T
  <2>1. \A k \in T : \E i \in 1..Len(maps) : k \in Of(i)
    BY DEF AllRecorded
  <2> QED
    BY <2>1
<1> HIDE DEF T, Of
<1>7. PICK n, S, sizes : /\ n = Len(maps) /\ S = [i \in 1..n |-> Of(i)]
                         /\ sizes = [i \in 1..n |-> Cardinality(DOMAIN maps[i].at)]
  OBVIOUS
<1>8. n \in Nat /\ Len(sizes) = n
  BY <1>1, <1>7
<1>9. /\ \A i \in 1..n : IsFiniteSet(S[i]) /\ sizes[i] = Cardinality(S[i])
      /\ \A i, j \in 1..n : S[i] \cap S[j] # {} => i = j
  BY <1>4, <1>5, <1>7
<1>10. UNION {S[i] : i \in 1..n} = T
  BY <1>6, <1>7
<1>11. Cardinality(UNION {S[i] : i \in 1..n}) = Total(sizes)
  <2>1. \A i \in 1..n : IsFiniteSet(S[i])
    BY <1>9
  <2>2. \A i, j \in 1..n : S[i] \cap S[j] # {} => i = j
    BY <1>9
  <2>3. \A i \in 1..n : sizes[i] = Cardinality(S[i])
    BY <1>9
  <2> QED
    BY <1>8, <2>1, <2>2, <2>3, DisjointSizes
<1> QED
  BY <1>7, <1>10, <1>11 DEF T

LEMMA PlacedInvPlaced ==
    ASSUME Inv, PlacedInv
    PROVE  Placed
<1> SUFFICES ASSUME linking
             PROVE  Placed
  BY DEF Placed
<1>1. PICK parts : parts = sections[".linker"].parts
  OBVIOUS
<1>2. parts \in Seq(PartType)
  <2>1. SectionOK(sections[".linker"])
    BY DEF PlacedInv, Inv, DataInv, SectionsOK
  <2> QED
    BY <1>1, <2>1 DEF SectionOK
<1>3. /\ IsMaps(linked) /\ Once(parts) /\ Rightly(parts, linked)
      /\ NotTwice(linked) /\ AllRecorded(parts, linked)
  BY <1>1 DEF PlacedInv
<1>4. \A k : Begin(".linker", k) = Before(parts, k)
  BY <1>1 DEF Begin, Before
<1>5. \A k \in Theirs(parts) : \E i \in 1..Len(linked) :
         /\ linked[i].file = parts[k].of[1]
         /\ parts[k].of[2] \in DOMAIN linked[i].at
         /\ linked[i].at[parts[k].of[2]] = Begin(".linker", k)
  <2> SUFFICES ASSUME NEW k \in Theirs(parts)
               PROVE  \E i \in 1..Len(linked) :
                         /\ linked[i].file = parts[k].of[1]
                         /\ parts[k].of[2] \in DOMAIN linked[i].at
                         /\ linked[i].at[parts[k].of[2]] = Begin(".linker", k)
    OBVIOUS
  <2>1. PICK i \in 1..Len(linked) : linked[i].file = parts[k].of[1] /\ parts[k].of[2] \in DOMAIN linked[i].at
    BY <1>3 DEF AllRecorded
  <2>2. PICK x : x = parts[k].of[2]
    OBVIOUS
  <2>3. PICK m \in Theirs(parts) : parts[m].of = <<linked[i].file, x>> /\ linked[i].at[x] = Before(parts, m)
    BY <1>3, <2>1, <2>2 DEF Rightly
  <2>4. parts[k].of = <<linked[i].file, x>>
    <3>1. parts[k] \in PartType /\ parts[k].of # <<>>
      BY <1>2 DEF Theirs
    <3>2. parts[k].of \in Names \X Names
      BY <3>1 DEF PartType
    <3> QED
      BY <2>1, <2>2, <3>2
  <2>5. m = k
    BY <1>3, <2>3, <2>4 DEF Once
  <2> QED
    BY <1>4, <2>1, <2>2, <2>3, <2>5
<1>6. Cardinality(Theirs(parts)) = Total([i \in 1..Len(linked) |-> Cardinality(DOMAIN linked[i].at)])
  BY <1>2, <1>3, RecordsCounted
<1>7. \A k, m \in Theirs(parts) : parts[k].of = parts[m].of => k = m
  BY <1>3 DEF Once
<1> QED
  BY <1>1, <1>5, <1>6, <1>7 DEF Placed, Theirs

-----------------------------------------------------------------------------
(* Labels and requests *)

\* A request to the linker
RequestType == [address : Nat, offset : Nat, size : Nat]

\* The requests of the first n operands
IsMaking(f, n, ws, offset, size) ==
    f = [i \in 0..n |->
            IF i = 0 THEN <<>>
            ELSE IF Late(ws[i])
            THEN Append(f[i - 1], [address |-> Here, offset |-> offset[i], size |-> size])
            ELSE f[i - 1]]
\* Each is of an operand
MadeOf(q, n, offset, size) ==
    /\ q \in Seq(RequestType)
    /\ \A k \in 1..Len(q) : \E j \in 1..n :
          q[k] = [address |-> Here, offset |-> offset[j], size |-> size]

LEMMA MakingExists ==
    ASSUME NEW ws, NEW offset, NEW size \in Nat, NEW n \in Nat,
           Here \in Nat, \A i \in 1..n : offset[i] \in Nat
    PROVE  \E f : IsMaking(f, n, ws, offset, size) /\ MadeOf(f[n], n, offset, size)
<1> DEFINE Missing == {m \in 0..n : ~\E f : IsMaking(f, m, ws, offset, size) /\ MadeOf(f[m], m, offset, size)}
<1>1. ASSUME Missing # {}
      PROVE  FALSE
  <2>1. PICK m \in Missing : \A k \in Missing : ~(k < m)
    <3>1. Missing \in SUBSET Nat
      OBVIOUS
    <3> HIDE DEF Missing
    <3> QED
      BY <1>1, <3>1, LeastOf
  <2>2. m # 0
    <3>1. PICK f : f = [i \in 0..0 |-> <<>>]
      OBVIOUS
    <3>2. IsMaking(f, 0, ws, offset, size) /\ f[0] = <<>>
      BY <3>1 DEF IsMaking
    <3>3. MadeOf(<<>>, 0, offset, size)
      BY DEF MadeOf
    <3> QED
      BY <2>1, <3>2, <3>3
  <2>3. m - 1 \in 0..n /\ m \in 1..n /\ m - 1 \notin Missing
    <3>1. m - 1 \in 0..n /\ m \in 1..n /\ m - 1 < m
      BY <2>1, <2>2
    <3> HIDE DEF Missing
    <3> QED
      BY <2>1, <3>1
  <2>4. PICK f : IsMaking(f, m - 1, ws, offset, size) /\ MadeOf(f[m - 1], m - 1, offset, size)
    BY <2>3
  <2>5. PICK r, q : /\ r = [address |-> Here, offset |-> offset[m], size |-> size]
                    /\ q = IF Late(ws[m]) THEN Append(f[m - 1], r) ELSE f[m - 1]
    OBVIOUS
  <2>6. PICK g : g = [i \in 0..m |-> IF i = m THEN q ELSE f[i]]
    OBVIOUS
  <2>7. \A i \in 0..(m - 1) : f[i] =
           IF i = 0 THEN <<>>
           ELSE IF Late(ws[i])
           THEN Append(f[i - 1], [address |-> Here, offset |-> offset[i], size |-> size])
           ELSE f[i - 1]
    BY <2>4 DEF IsMaking
  <2>8. ASSUME NEW i \in 0..m
        PROVE  g[i] = IF i = 0 THEN <<>>
                      ELSE IF Late(ws[i])
                      THEN Append(g[i - 1], [address |-> Here, offset |-> offset[i], size |-> size])
                      ELSE g[i - 1]
    <3>1. CASE i = m
      <4>1. i # 0 /\ g[i] = q /\ g[i - 1] = f[i - 1]
        BY <2>2, <2>3, <2>6, <3>1
      <4> QED
        BY <2>5, <3>1, <4>1
    <3>2. CASE i # m
      <4>1. i \in 0..(m - 1) /\ g[i] = f[i]
        BY <2>3, <2>6, <3>2
      <4>2. i # 0 => g[i - 1] = f[i - 1]
        BY <2>3, <2>6, <3>2
      <4> QED
        BY <2>7, <4>1, <4>2
    <3> QED
      BY <3>1, <3>2
  <2>9. IsMaking(g, m, ws, offset, size)
    BY <2>6, <2>8 DEF IsMaking
  <2>10. MadeOf(q, m, offset, size)
    <3>1. PICK p : p = f[m - 1]
      OBVIOUS
    <3>2. p \in Seq(RequestType) /\ Len(p) \in Nat
      BY <2>4, <3>1 DEF MadeOf
    <3>3. \A k \in 1..Len(p) : \E j \in 1..m :
             p[k] = [address |-> Here, offset |-> offset[j], size |-> size]
      <4>1. \A j \in 1..(m - 1) : j \in 1..m
        BY <2>3
      <4> QED
        BY <2>4, <3>1, <4>1 DEF MadeOf
    <3>4. CASE q = p
      BY <3>2, <3>3, <3>4 DEF MadeOf
    <3>5. CASE q = Append(p, r)
      <4>1. r \in RequestType
        BY <2>3, <2>5 DEF RequestType
      <4>2. /\ q \in Seq(RequestType) /\ Len(q) = Len(p) + 1
            /\ \A k \in 1..(Len(p) + 1) : q[k] = IF k = Len(p) + 1 THEN r ELSE p[k]
        BY <3>2, <3>5, <4>1, AppendProperties
      <4>3. ASSUME NEW k \in 1..Len(q)
            PROVE  \E j \in 1..m : q[k] = [address |-> Here, offset |-> offset[j], size |-> size]
        <5>1. CASE k = Len(p) + 1
          <6>1. q[k] = r /\ m \in 1..m
            BY <2>3, <4>2, <5>1
          <6> QED
            BY <2>5, <6>1
        <5>2. CASE k # Len(p) + 1
          <6>1. k \in 1..Len(p) /\ q[k] = p[k]
            BY <3>2, <4>2, <5>2
          <6> QED
            BY <3>3, <6>1
        <5> QED
          BY <5>1, <5>2
      <4> QED
        BY <4>2, <4>3 DEF MadeOf
    <3> QED
      BY <2>5, <3>1, <3>4, <3>5
  <2>11. g[m] = q
    BY <2>3, <2>6
  <2> QED
    BY <2>1, <2>9, <2>10, <2>11
<1>2. n \in 0..n /\ n \notin Missing
  <2>1. n \in 0..n
    OBVIOUS
  <2> HIDE DEF Missing
  <2> QED
    BY <1>1, <2>1
<1> QED
  BY <1>2

LEMMA MakingUnique ==
    ASSUME NEW ws, NEW offset, NEW size, NEW n \in Nat,
           NEW f, IsMaking(f, n, ws, offset, size), NEW g, IsMaking(g, n, ws, offset, size)
    PROVE  f = g
<1> DEFINE D == {i \in 0..n : f[i] # g[i]}
<1>1. ASSUME D # {}
      PROVE  FALSE
  <2>1. PICK i \in D : \A j \in D : ~(j < i)
    <3>1. D \in SUBSET Nat
      OBVIOUS
    <3> HIDE DEF D
    <3> QED
      BY <1>1, <3>1, LeastOf
  <2>2. i # 0 => f[i - 1] = g[i - 1]
    BY <2>1
  <2>3. f[i] = IF i = 0 THEN <<>>
               ELSE IF Late(ws[i])
               THEN Append(f[i - 1], [address |-> Here, offset |-> offset[i], size |-> size])
               ELSE f[i - 1]
    BY <2>1 DEF IsMaking
  <2>4. g[i] = IF i = 0 THEN <<>>
               ELSE IF Late(ws[i])
               THEN Append(g[i - 1], [address |-> Here, offset |-> offset[i], size |-> size])
               ELSE g[i - 1]
    BY <2>1 DEF IsMaking
  <2> QED
    BY <2>1, <2>2, <2>3, <2>4
<1>2. f = [i \in 0..n |-> f[i]] /\ g = [i \in 0..n |-> g[i]] /\ \A i \in 0..n : f[i] = g[i]
  BY <1>1 DEF IsMaking
<1> QED
  BY <1>2

LEMMA RequestsAre ==
    ASSUME NEW ws, Len(ws) \in Nat, NEW offset, NEW size \in Nat,
           Here \in Nat, \A i \in 1..Len(ws) : offset[i] \in Nat
    PROVE  MadeOf(Requests(ws, offset, size), Len(ws), offset, size)
<1>1. PICK f : IsMaking(f, Len(ws), ws, offset, size) /\ MadeOf(f[Len(ws)], Len(ws), offset, size)
  BY MakingExists
<1>2. Requests(ws, offset, size) = (CHOOSE g : IsMaking(g, Len(ws), ws, offset, size))[Len(ws)]
  BY Zenon DEF Requests, IsMaking
<1>3. (CHOOSE g : IsMaking(g, Len(ws), ws, offset, size)) = f
  BY <1>1, MakingUnique
<1> QED
  BY <1>1, <1>2, <1>3

-----------------------------------------------------------------------------
(* Sections with their labels and requests *)

\* A request lies within one part
Within(s, r) ==
    \E k \in 1..Len(s.parts) :
        /\ Before(s.parts, k) <= r.address + r.offset
        /\ r.address + r.offset + r.size <= Before(s.parts, k + 1)
RequestsIn(s) == \A i \in 1..Len(s.expr) : Within(s, s.expr[i])
\* A label stands between two parts
LabelsIn(syms, name, s) ==
    \A n \in DOMAIN syms : syms[n].section = name =>
        \E k \in 1..(Len(s.parts) + 1) : syms[n].value = Before(s.parts, k)

\* As long as no line was refused: found are the errors
SectionIn(syms, name, s, found) ==
    /\ s.expr \in Seq(RequestType) /\ name \notin {"absolute", NoSection}
    /\ found = <<>> /\ Filled(s) => RequestsIn(s) /\ LabelsIn(syms, name, s)
AllIn(syms, secs, found) == \A name \in DOMAIN secs : SectionIn(syms, name, secs[name], found)

\* A section that has become longer
LEMMA LongerIn ==
    ASSUME NEW syms, NEW name, NEW s, SectionOK(s), NEW found, SectionIn(syms, name, s, found),
           NEW t, SectionOK(t), t.expr \in Seq(RequestType), Len(s.parts) <= Len(t.parts),
           \A i \in 1..Len(s.parts) : t.parts[i] = s.parts[i],
           Filled(t) => Filled(s),
           Filled(t) => \A i \in 1..Len(t.expr) :
              \/ i \in 1..Len(s.expr) /\ t.expr[i] = s.expr[i]
              \/ Within(t, t.expr[i]),
           NEW after, after = <<>> => found = <<>>
    PROVE  SectionIn(syms, name, t, after)
<1> SUFFICES ASSUME after = <<>>, Filled(t)
             PROVE  RequestsIn(t) /\ LabelsIn(syms, name, t)
  BY DEF SectionIn
<1>1. RequestsIn(s) /\ LabelsIn(syms, name, s)
  BY DEF SectionIn
<1>2. PICK old, new, n, m : old = s.parts /\ new = t.parts /\ n = Len(old) /\ m = Len(new)
  OBVIOUS
<1>3. n \in Nat /\ m \in Nat /\ n <= m
  BY <1>2 DEF SectionOK
<1>4. ASSUME NEW k \in 1..(n + 1)
      PROVE  k \in 1..(m + 1) /\ Before(new, k) = Before(old, k)
  <2>1. k \in Nat /\ \A i \in 1..(k - 1) : new[i] = old[i]
    BY <1>2, <1>3
  <2>2. Before(new, k) = Before(old, k)
    BY <2>1, BeforeSame
  <2> QED
    BY <1>3, <2>2
<1>5. ASSUME NEW i \in 1..Len(t.expr)
      PROVE  Within(t, t.expr[i])
  <2>1. CASE i \in 1..Len(s.expr) /\ t.expr[i] = s.expr[i]
    <3>1. PICK r : r = s.expr[i]
      OBVIOUS
    <3>2. PICK k \in 1..n : /\ Before(old, k) <= r.address + r.offset
                            /\ r.address + r.offset + r.size <= Before(old, k + 1)
      BY <1>1, <1>2, <2>1, <3>1 DEF RequestsIn, Within
    <3>3. k \in 1..(n + 1) /\ k + 1 \in 1..(n + 1) /\ k \in 1..m
      BY <1>3
    <3>4. Before(new, k) = Before(old, k) /\ Before(new, k + 1) = Before(old, k + 1)
      BY <1>4, <3>3
    <3> QED
      BY <1>2, <2>1, <3>1, <3>2, <3>3, <3>4 DEF Within
  <2> QED
    BY <2>1
<1>6. ASSUME NEW l \in DOMAIN syms, syms[l].section = name
      PROVE  \E k \in 1..(m + 1) : syms[l].value = Before(new, k)
  <2>1. PICK k \in 1..(n + 1) : syms[l].value = Before(old, k)
    BY <1>1, <1>2, <1>6 DEF LabelsIn
  <2> QED
    BY <1>4, <2>1
<1> QED
  BY <1>2, <1>5, <1>6 DEF RequestsIn, LabelsIn

\* A line that adds a part with the requests for its operands
LEMMA AddedIn ==
    ASSUME NEW syms, NEW name, NEW s, SectionOK(s), NEW found, SectionIn(syms, name, s, found),
           NEW bytes \in Nat, NEW advance \in Nat, bytes <= advance, NEW requests \in Seq(RequestType),
           bytes = advance => \A i \in 1..Len(requests) :
              /\ requests[i].address = s.address
              /\ requests[i].offset + requests[i].size <= bytes,
           NEW t, IsAdded(t, s, bytes, advance, requests),
           NEW after, after = <<>> => found = <<>>
    PROVE  SectionIn(syms, name, t, after)
<1>1. PICK part, old, new, n, expr :
         part = Part(bytes) /\ old = s.parts /\ new = t.parts /\ n = Len(old) /\ expr = s.expr
  OBVIOUS
<1>2. /\ t.address = s.address + advance /\ new = Append(old, part)
      /\ t.expr = expr \o requests /\ SectionOK(t)
  <2>1. /\ t.address = s.address + advance /\ t.parts = Append(s.parts, Part(bytes))
        /\ t.expr = s.expr \o requests /\ SectionOK(t)
    BY AddedFields
  <2> QED
    BY <1>1, <2>1
<1>3. part \in PartType /\ part.size = bytes
  BY <1>1 DEF Part, PartType
<1>4. n \in Nat /\ s.address \in Nat /\ old \in Seq(PartType) /\ Total(Sizes(old)) <= s.address
  BY <1>1 DEF SectionOK
<1>5. expr \in Seq(RequestType)
  BY <1>1 DEF SectionIn
<1>6. /\ new \in Seq(PartType) /\ Len(new) = n + 1
      /\ \A i \in 1..(n + 1) : new[i] = IF i = n + 1 THEN part ELSE old[i]
  <2>1. new = Append(old, part) /\ old \in Seq(PartType) /\ part \in PartType /\ n = Len(old)
    BY <1>1, <1>2, <1>3, <1>4, Zenon
  <2>2. \A seq \in Seq(PartType), elt \in PartType :
           /\ Append(seq, elt) \in Seq(PartType) /\ Len(Append(seq, elt)) = Len(seq) + 1
           /\ \A i \in 1..(Len(seq) + 1) :
                 Append(seq, elt)[i] = IF i = Len(seq) + 1 THEN elt ELSE seq[i]
    BY AppendProperties
  <2> QED
    BY <2>1, <2>2
<1>7. /\ Sizes(old) \in Seq(Nat) /\ Sizes(new) \in Seq(Nat)
      /\ Len(Sizes(old)) = n /\ Len(Sizes(new)) = n + 1
  BY <1>1, <1>4, <1>6, SizesOf
<1>8. /\ \A i \in 1..n : Sizes(new)[i] = Sizes(old)[i]
      /\ Sizes(new)[n + 1] = bytes
  <2>1. n = Len(old) /\ n \in Nat /\ part.size = bytes
    BY <1>1, <1>3, <1>4
  <2>2. /\ \A i \in 1..n : Sizes(old)[i] = old[i].size
        /\ \A i \in 1..(n + 1) : Sizes(new)[i] = new[i].size
    BY <2>1, <1>6 DEF Sizes
  <2> QED
    BY <1>6, <2>1, <2>2
<1>9. Total(Sizes(new)) = Total(Sizes(old)) + bytes /\ Total(Sizes(old)) \in Nat
  BY <1>7, <1>8, TotalAppend, TotalNat
<1>10. Filled(t) => Filled(s) /\ bytes = advance
  BY <1>1, <1>2, <1>4, <1>9 DEF Filled
<1>11. /\ t.expr \in Seq(RequestType) /\ Len(t.expr) = Len(expr) + Len(requests)
       /\ \A i \in 1..(Len(expr) + Len(requests)) :
             t.expr[i] = IF i <= Len(expr) THEN expr[i] ELSE requests[i - Len(expr)]
       /\ Len(expr) \in Nat /\ Len(requests) \in Nat
  <2>1. PICK c : c = expr \o requests
    OBVIOUS
  <2>2. /\ c \in Seq(RequestType) /\ Len(c) = Len(expr) + Len(requests)
        /\ \A i \in 1..(Len(expr) + Len(requests)) :
              c[i] = IF i <= Len(expr) THEN expr[i] ELSE requests[i - Len(expr)]
    BY <1>5, <2>1, ConcatProperties
  <2>3. Len(expr) \in Nat /\ Len(requests) \in Nat
    BY <1>5
  <2> QED
    BY <1>2, <2>1, <2>2, <2>3
<1>12. ASSUME Filled(t), NEW i \in 1..Len(t.expr), i \notin 1..Len(expr)
       PROVE  Within(t, t.expr[i])
  <2>1. PICK k, r : k = i - Len(expr) /\ r = requests[k]
    OBVIOUS
  <2>2. k \in 1..Len(requests) /\ t.expr[i] = r
    BY <1>11, <1>12, <2>1
  <2>3. r \in RequestType /\ r.address = s.address /\ r.offset + r.size <= bytes
    BY <1>10, <1>12, <2>1, <2>2
  <2>4. r.address \in Nat /\ r.offset \in Nat /\ r.size \in Nat
    BY <2>3 DEF RequestType
  <2>5. Before(new, n + 1) = s.address
    <3>1. Before(old, n + 1) = s.address
      BY <1>1, <1>10, <1>12, FilledBefore
    <3>2. n + 1 \in Nat /\ \A j \in 1..((n + 1) - 1) : new[j] = old[j]
      BY <1>4, <1>6
    <3>3. Before(new, n + 1) = Before(old, n + 1)
      BY <3>2, BeforeSame
    <3> QED
      BY <3>1, <3>3
  <2>6. Before(new, n + 1 + 1) = s.address + bytes
    <3>1. t.address = Before(new, Len(new) + 1)
      BY <1>1, <1>2, <1>12, FilledBefore
    <3>2. t.address = s.address + bytes
      BY <1>2, <1>10, <1>12
    <3> QED
      BY <1>6, <3>1, <3>2
  <2>7. n + 1 \in 1..Len(t.parts)
    BY <1>1, <1>4, <1>6
  <2>8. /\ Before(new, n + 1) <= r.address + r.offset
        /\ r.address + r.offset + r.size <= Before(new, n + 1 + 1)
    BY <1>4, <2>3, <2>4, <2>5, <2>6
  <2> QED
    BY <1>1, <2>2, <2>7, <2>8 DEF Within
<1>13. \A i \in 1..Len(expr) : i \in 1..Len(t.expr) /\ t.expr[i] = expr[i]
  BY <1>11
<1>14. \A i \in 1..n : new[i] = old[i]
  BY <1>4, <1>6
<1>15. /\ Len(s.parts) <= Len(t.parts)
       /\ \A i \in 1..Len(s.parts) : t.parts[i] = s.parts[i]
       /\ Filled(t) => Filled(s)
       /\ Filled(t) => \A i \in 1..Len(t.expr) :
             \/ i \in 1..Len(s.expr) /\ t.expr[i] = s.expr[i]
             \/ Within(t, t.expr[i])
  BY <1>1, <1>4, <1>6, <1>10, <1>12, <1>13, <1>14
<1> QED
  BY <1>2, <1>11, <1>15, LongerIn

-----------------------------------------------------------------------------
(* All sections *)

LEMMA AllAdded ==
    ASSUME NEW syms, NEW secs, NEW found, SectionsOK(secs), AllIn(syms, secs, found),
           NEW name \in DOMAIN secs,
           NEW bytes \in Nat, NEW advance \in Nat, bytes <= advance, NEW requests \in Seq(RequestType),
           bytes = advance => \A i \in 1..Len(requests) :
              /\ requests[i].address = secs[name].address
              /\ requests[i].offset + requests[i].size <= bytes,
           NEW t, t = Added(secs, name, bytes, advance, requests),
           NEW after, after = <<>> => found = <<>>
    PROVE  AllIn(syms, t, after)
<1>1. PICK s : s = secs[name]
  OBVIOUS
<1>2. PICK u : u = [s EXCEPT !.address = @ + advance, !.parts = Append(@, Part(bytes)),
                              !.expr = @ \o requests]
  OBVIOUS
<1>3. t = [secs EXCEPT ![name] = u]
  BY <1>1, <1>2, Zenon DEF Added
<1>4. IsAdded(u, s, bytes, advance, requests)
  BY <1>2 DEF IsAdded
<1>5. SectionOK(s) /\ SectionIn(syms, name, s, found)
  BY <1>1 DEF SectionsOK, AllIn
<1>6. SectionIn(syms, name, u, after)
  <2>1. bytes = advance => \A i \in 1..Len(requests) :
              /\ requests[i].address = s.address
              /\ requests[i].offset + requests[i].size <= bytes
    BY <1>1
  <2> QED
    BY <1>4, <1>5, <2>1, AddedIn
<1>7. \A n \in DOMAIN secs : n # name => SectionIn(syms, n, secs[n], after)
  BY DEF AllIn, SectionIn
<1> QED
  BY <1>3, <1>6, <1>7 DEF AllIn

LEMMA AllFilled ==
    ASSUME NEW syms, NEW secs, NEW found, SectionsOK(secs), AllIn(syms, secs, found),
           NEW name \in DOMAIN secs, NEW bytes \in Nat,
           NEW t, t = Added(secs, name, bytes, bytes, <<>>),
           NEW after, after = <<>> => found = <<>>
    PROVE  AllIn(syms, t, after)
<1>1. PICK requests : requests = <<>>
  OBVIOUS
<1>2. requests \in Seq(RequestType) /\ bytes <= bytes
  BY <1>1
<1>3. \A i \in 1..Len(requests) :
         /\ requests[i].address = secs[name].address
         /\ requests[i].offset + requests[i].size <= bytes
  BY <1>1
<1>4. t = Added(secs, name, bytes, bytes, requests)
  BY <1>1
<1> QED
  BY <1>2, <1>3, <1>4, AllAdded

LEMMA NewIn ==
    ASSUME NEW syms, NEW names, SymbolsOK(syms, names), NEW found,
           NEW name \in Names \ {"absolute", NoSection}, name \notin names, NEW bits
    PROVE  SectionIn(syms, name, NewSection(bits), found)
<1>1. PICK s : s = NewSection(bits)
  OBVIOUS
<1>2. s.expr = <<>>
  BY <1>1 DEF NewSection
<1>3. LabelsIn(syms, name, s)
  BY DEF LabelsIn, SymbolsOK, SymbolOK
<1>4. RequestsIn(s) /\ s.expr \in Seq(RequestType)
  BY <1>2 DEF RequestsIn
<1> QED
  BY <1>1, <1>3, <1>4 DEF SectionIn

LEMMA AllWithSection ==
    ASSUME DataInv, NEW found, AllIn(symbols, sections, found),
           NEW name \in Names \ {"absolute", NoSection}, NEW bits,
           NEW t, t = WithSection(name, bits)
    PROVE  AllIn(symbols, t, found)
<1>1. DOMAIN t = DOMAIN sections \cup {name}
  BY DEF WithSection
<1>2. \A s \in DOMAIN sections : t[s] = sections[s]
  BY DEF WithSection
<1>3. name \notin DOMAIN sections => SectionIn(symbols, name, t[name], found)
  <2>1. name \notin DOMAIN sections => t[name] = NewSection(bits)
    BY DEF WithSection
  <2> QED
    BY <2>1, NewIn DEF DataInv
<1> QED
  BY <1>1, <1>2, <1>3 DEF AllIn

\* The end of a section is where a label may stand
LEMMA LabelAtEnd ==
    ASSUME NEW s, SectionOK(s), Filled(s)
    PROVE  \E k \in 1..(Len(s.parts) + 1) : s.address = Before(s.parts, k)
<1>1. s.address = Before(s.parts, Len(s.parts) + 1)
  BY FilledBefore
<1>2. Len(s.parts) + 1 \in 1..(Len(s.parts) + 1)
  BY DEF SectionOK
<1> QED
  BY <1>1, <1>2

LEMMA AllSymbols ==
    ASSUME NEW syms, NEW secs, NEW found, SectionsOK(secs), AllIn(syms, secs, found), NEW new,
           \A n \in DOMAIN new :
              \/ n \in DOMAIN syms /\ new[n].section = syms[n].section /\ new[n].value = syms[n].value
              \/ new[n].section \notin DOMAIN secs
              \/ new[n].value = secs[new[n].section].address
    PROVE  AllIn(new, secs, found)
<1> SUFFICES ASSUME NEW name \in DOMAIN secs
             PROVE  SectionIn(new, name, secs[name], found)
  BY DEF AllIn
<1>1. PICK s : s = secs[name]
  OBVIOUS
<1>2. SectionOK(s) /\ SectionIn(syms, name, s, found)
  BY <1>1 DEF SectionsOK, AllIn
<1>3. ASSUME found = <<>>, Filled(s)
      PROVE  RequestsIn(s) /\ LabelsIn(new, name, s)
  <2>1. RequestsIn(s) /\ LabelsIn(syms, name, s)
    BY <1>2, <1>3 DEF SectionIn
  <2>2. ASSUME NEW n \in DOMAIN new, new[n].section = name
        PROVE  \E k \in 1..(Len(s.parts) + 1) : new[n].value = Before(s.parts, k)
    <3>1. CASE n \in DOMAIN syms /\ new[n].section = syms[n].section /\ new[n].value = syms[n].value
      BY <2>1, <2>2, <3>1 DEF LabelsIn
    <3>2. CASE new[n].value = s.address
      BY <1>2, <1>3, <3>2, LabelAtEnd
    <3> QED
      BY <1>1, <2>2, <3>1, <3>2
  <2> QED
    BY <2>1, <2>2 DEF LabelsIn
<1> QED
  BY <1>1, <1>2, <1>3 DEF SectionIn

LEMMA AllSet ==
    ASSUME NEW syms, NEW secs, NEW found, SectionsOK(secs), AllIn(syms, secs, found),
           NEW name, NEW sec, NEW value,
           sec = "absolute" \/ (sec \in DOMAIN secs /\ value = secs[sec].address),
           NEW new, new = SymbolSet(syms, name, sec, value)
    PROVE  AllIn(new, secs, found)
<1>1. DOMAIN new = DOMAIN syms \cup {name}
  BY DEF SymbolSet
<1>2. \A n \in DOMAIN syms : n # name => new[n] = syms[n]
  BY DEF SymbolSet
<1>3. new[name].section = sec /\ new[name].value = value
  <2> DEFINE flag == name \in DOMAIN syms /\ syms[name].global
  <2>1. new[name] = [section |-> sec, value |-> value, global |-> flag]
    BY DEF SymbolSet
  <2> HIDE DEF flag
  <2> QED
    BY <2>1
<1>4. "absolute" \notin DOMAIN secs
  BY DEF AllIn, SectionIn
<1> QED
  BY <1>1, <1>2, <1>3, <1>4, AllSymbols

LEMMA AllGlobal ==
    ASSUME NEW syms, NEW secs, NEW found, SectionsOK(secs), AllIn(syms, secs, found),
           NEW names, SymbolsOK(syms, names), NEW name,
           NEW new, new = SymbolGlobal(syms, name)
    PROVE  AllIn(new, secs, found)
<1>1. DOMAIN new = DOMAIN syms \cup {name}
  BY DEF SymbolGlobal
<1>2. \A n \in DOMAIN syms : new[n].section = syms[n].section /\ new[n].value = syms[n].value
  BY SymbolGlobalKeeps
<1>3. name \notin DOMAIN syms => new[name].section = NoSection
  <2>1. name \notin DOMAIN syms => new[name] = [section |-> NoSection, value |-> 0, global |-> TRUE]
    BY DEF SymbolGlobal
  <2> QED
    BY <2>1
<1>4. NoSection \notin DOMAIN secs
  BY DEF AllIn, SectionIn
<1> QED
  BY <1>1, <1>2, <1>3, <1>4, AllSymbols

\* What holds of the labels, the requests and the errors
InPlaceInv == errors \in Seq(Names \X Int) /\ AllIn(symbols, sections, errors)

LEMMA ErrorsReported ==
    ASSUME LinesInv, InPlaceInv, NEW n \in Nat, Reported(n)
    PROVE  /\ errors' \in Seq(Names \X Int)
           /\ errors' = <<>> => errors = <<>>
           /\ n > 0 => errors' # <<>>
<1>1. Place \in Names \X Int
  BY DEF LinesInv, Place
<1>2. PICK more : more = [i \in 1..n |-> Place]
  OBVIOUS
<1>3. more \in Seq(Names \X Int) /\ Len(more) = n
  BY <1>1, <1>2
<1>4. /\ errors' \in Seq(Names \X Int) /\ Len(errors') = Len(errors) + Len(more)
      /\ Len(errors) \in Nat
  <2>1. errors' = errors \o more /\ errors \in Seq(Names \X Int)
    BY <1>2 DEF Reported, InPlaceInv
  <2>2. Len(errors) \in Nat
    BY <2>1
  <2> QED
    BY <1>3, <2>1, <2>2, ConcatProperties
<1>5. errors' = <<>> => Len(errors) = 0
  BY <1>3, <1>4
<1>6. Len(errors) = 0 => errors = <<>>
  BY EmptySeq DEF InPlaceInv
<1>7. n > 0 => errors' # <<>>
  BY <1>3, <1>4
<1> QED
  BY <1>4, <1>5, <1>6, <1>7

LEMMA ErrorsInNat ==
    ASSUME NEW ws, Len(ws) \in Nat
    PROVE  ErrorsIn(ws) \in Nat
<1>1. PICK A : A = {i \in 1..Len(ws) : Malformed(ws[i])}
  OBVIOUS
<1>2. A \in SUBSET (1..Len(ws))
  BY <1>1
<1>3. IsFiniteSet(A)
  <2>1. IsFiniteSet(1..Len(ws))
    BY FS_Interval
  <2> QED
    BY <1>2, <2>1, FS_Subset
<1> QED
  BY <1>1, <1>3, FS_CardinalityType DEF ErrorsIn

\* No section and no symbol changes, but a line may be refused
LEMMA StayInPlace ==
    ASSUME LinesInv, InPlaceInv, UNCHANGED <<symbols, sections>>,
           UNCHANGED errors \/ \E n \in Nat : Reported(n)
    PROVE  InPlaceInv'
<1>1. errors' \in Seq(Names \X Int) /\ (errors' = <<>> => errors = <<>>)
  BY ErrorsReported DEF InPlaceInv
<1> QED
  BY <1>1 DEF InPlaceInv, AllIn, SectionIn, LabelsIn

LEMMA FillsIn ==
    ASSUME DataInv, LinesInv, InPlaceInv, NEW bytes \in Nat, Fills(bytes)
    PROVE  InPlaceInv'
<1>1. sections' = Added(sections, section, bytes, bytes, <<>>) /\ UNCHANGED <<symbols, errors>>
  BY DEF Fills
<1>2. AllIn(symbols, sections', errors')
  <2>1. section \in DOMAIN sections /\ SectionsOK(sections) /\ AllIn(symbols, sections, errors)
    BY DEF DataInv, InPlaceInv
  <2>2. errors' = <<>> => errors = <<>>
    BY <1>1
  <2> QED
    BY <1>1, <2>1, <2>2, AllFilled
<1> QED
  BY <1>1, <1>2 DEF InPlaceInv

LEMMA EmitsIn ==
    ASSUME DataInv, LinesInv, InPlaceInv, NEW ws, Len(ws) \in Nat,
           NEW bytes \in Nat, NEW advance \in Nat, bytes <= advance,
           NEW offset, NEW width \in Nat, \A i \in 1..Len(ws) : offset[i] \in Nat,
           bytes = advance => \A i \in 1..Len(ws) : offset[i] + width <= bytes,
           Emits(ws, bytes, advance, offset, width)
    PROVE  InPlaceInv'
<1>1. CASE Crash
  BY <1>1, StayInPlace DEF Crash
<1>2. CASE /\ Reported(ErrorsIn(ws))
           /\ sections' = Added(sections, section, bytes, advance, Requests(ws, offset, width))
           /\ UNCHANGED symbols
  <2>1. errors' \in Seq(Names \X Int) /\ (errors' = <<>> => errors = <<>>)
    BY <1>2, ErrorsInNat, ErrorsReported
  <2>2. PICK requests, n : requests = Requests(ws, offset, width) /\ n = Len(ws)
    OBVIOUS
  <2>3. Here \in Nat /\ Here = sections[section].address
    BY DEF DataInv, SectionsOK, SectionOK, Here
  <2>4. MadeOf(requests, n, offset, width)
    BY <2>2, <2>3, RequestsAre
  <2>5. requests \in Seq(RequestType)
    BY <2>4 DEF MadeOf
  <2>a. bytes = advance => \A i \in 1..Len(requests) :
              /\ requests[i].address = sections[section].address
              /\ requests[i].offset + requests[i].size <= bytes
    <3> SUFFICES ASSUME bytes = advance, NEW i \in 1..Len(requests)
                 PROVE  /\ requests[i].address = sections[section].address
                        /\ requests[i].offset + requests[i].size <= bytes
      OBVIOUS
    <3>1. PICK j \in 1..n : requests[i] = [address |-> Here, offset |-> offset[j], size |-> width]
      BY <2>4 DEF MadeOf
    <3>2. offset[j] + width <= bytes
      BY <2>2
    <3> QED
      BY <2>3, <3>1, <3>2
  <2>6. AllIn(symbols, sections', errors')
    <3>1. sections' = Added(sections, section, bytes, advance, requests)
      BY <1>2, <2>2
    <3>2. section \in DOMAIN sections /\ SectionsOK(sections) /\ AllIn(symbols, sections, errors)
      BY DEF DataInv, InPlaceInv
    <3> QED
      BY <2>1, <2>5, <2>a, <3>1, <3>2, AllAdded
  <2> QED
    BY <1>2, <2>1, <2>6 DEF InPlaceInv
<1> QED
  BY <1>1, <1>2 DEF Emits

LEMMA AssignsIn ==
    ASSUME DataInv, LinesInv, InPlaceInv, NEW name, NEW w \in Word, Assigns(name, w)
    PROVE  InPlaceInv'
<1>1. CASE Crash
  BY <1>1, StayInPlace DEF Crash
<1>2. CASE ~Crash
  <2>1. Reported(ErrorsNow(w)) /\ ErrorsNow(w) \in Nat
    BY <1>2 DEF Assigns, ErrorsNow
  <2>2. errors' \in Seq(Names \X Int) /\ (errors' = <<>> => errors = <<>>)
    BY <2>1, ErrorsReported
  <2>3. CASE sections' = Advanced(sections, ValueNow(w)) /\ UNCHANGED symbols
    <3>1. ValueNow(w) \in Nat /\ Here \in Nat
      BY OperandValues DEF DataInv, SectionsOK, SectionOK, Here
    <3>2. CASE ValueNow(w) > Here
      <4>1. PICK bytes : bytes = ValueNow(w) - Here
        OBVIOUS
      <4>2. bytes \in Nat
        BY <3>1, <3>2, <4>1
      <4>3. sections' = Added(sections, section, bytes, bytes, <<>>)
        BY <2>3, <3>2, <4>1 DEF Advanced
      <4>4. AllIn(symbols, sections', errors')
        <5>1. section \in DOMAIN sections /\ SectionsOK(sections) /\ AllIn(symbols, sections, errors)
          BY DEF DataInv, InPlaceInv
        <5> QED
          BY <2>2, <4>2, <4>3, <5>1, AllFilled
      <4> QED
        BY <2>2, <2>3, <4>4 DEF InPlaceInv
    <3>3. CASE ~(ValueNow(w) > Here)
      <4>1. UNCHANGED <<symbols, sections>>
        BY <2>3, <3>3 DEF Advanced
      <4> QED
        BY <2>1, <4>1, StayInPlace
    <3> QED
      BY <3>2, <3>3
  <2>4. CASE symbols' = SymbolSet(symbols, name, "absolute", ValueNow(w)) /\ UNCHANGED sections
    <3>1. PICK sec, value : sec = "absolute" /\ value = ValueNow(w)
      OBVIOUS
    <3>2. symbols' = SymbolSet(symbols, name, sec, value)
      BY <2>4, <3>1
    <3>3. AllIn(symbols', sections, errors)
      BY <3>1, <3>2, AllSet DEF DataInv, InPlaceInv
    <3>4. AllIn(symbols', sections', errors')
      BY <2>2, <2>4, <3>3 DEF AllIn, SectionIn
    <3> QED
      BY <2>2, <3>4 DEF InPlaceInv
  <2> QED
    BY <1>2, <2>3, <2>4 DEF Assigns
<1> QED
  BY <1>1, <1>2

LEMMA CommonIn ==
    ASSUME DataInv, LinesInv, InPlaceInv, NEW ws \in Seq(Word), NEW global \in BOOLEAN,
           _parse_lcomm(ws, global)
    PROVE  InPlaceInv'
<1>1. CASE ERR
  BY <1>1, StayInPlace DEF ERR
<1>2. CASE Crash
  BY <1>2, StayInPlace DEF Crash
<1>3. CASE Len(ws) = 2 /\ ~ERR /\ ~Crash
  <2>1. PICK name, w, opened, bytes, bss, one : /\ name = ws[1].v /\ w = ws[2] /\ bss = ".bss" /\ one = 1
                                      /\ opened = WithSection(bss, one) /\ bytes = ValueNow(w)
    OBVIOUS
  <2>2. PICK at, syms, secs :
            /\ at = opened[bss].address
            /\ syms = IF name = "." THEN symbols ELSE SymbolSet(symbols, name, bss, at)
            /\ secs = IF name = "." THEN Advanced(opened, at) ELSE opened
    OBVIOUS
  <2>3. PICK none : none = <<>>
    OBVIOUS
  <2>4. /\ symbols' = IF global THEN SymbolGlobal(syms, name) ELSE syms
        /\ sections' = Added(secs, bss, bytes, bytes, none)
        /\ Reported(ErrorsNow(w))
    BY <1>3, <2>1, <2>2, <2>3 DEF _parse_lcomm
  <2>5. w \in Word /\ bytes \in Nat /\ bytes <= bytes
    <3>1. w \in Word
      BY <1>3, <2>1
    <3> QED
      BY <2>1, <3>1, OperandValues
  <2>6. errors' \in Seq(Names \X Int) /\ (errors' = <<>> => errors = <<>>)
    <3>1. ErrorsNow(w) \in Nat
      BY DEF ErrorsNow
    <3> QED
      BY <2>4, <3>1, ErrorsReported
  <2>7. bss \in Names \ {"absolute", NoSection} /\ one \in {0, 1}
    BY <2>1 DEF Names, NoSection
  <2>14. AllIn(symbols, opened, errors)
    BY <2>1, <2>7, AllWithSection DEF InPlaceInv
  <2>15. SectionsOK(opened) /\ DOMAIN opened = DOMAIN sections \cup {bss}
    BY <2>1, <2>7, NewSectionKeeps DEF DataInv
  <2>16. at \in Nat /\ Here \in Nat /\ section \in DOMAIN opened
    BY <2>2, <2>15 DEF SectionsOK, SectionOK, DataInv, Here
  <2>9. SectionsOK(secs) /\ DOMAIN secs = DOMAIN sections \cup {bss}
    BY <2>2, <2>15, <2>16, AdvancedKeeps
  <2>8. AllIn(symbols, secs, errors)
    <3>1. CASE secs = opened
      BY <2>14, <3>1
    <3>2. CASE secs # opened
      <4>1. secs = Added(opened, section, at - Here, at - Here, <<>>) /\ at - Here \in Nat
        BY <2>2, <2>16, <3>2 DEF Advanced
      <4>2. PICK gap \in Nat : secs = Added(opened, section, gap, gap, <<>>)
        BY <4>1
      <4> QED
        BY <2>14, <2>15, <2>16, <4>2, AllFilled
    <3> QED
      BY <3>1, <3>2
  <2>10. AllIn(syms, secs, errors)
    <3>1. CASE syms = symbols
      BY <2>8, <3>1
    <3>2. CASE syms = SymbolSet(symbols, name, bss, at) /\ secs = opened
      BY <2>2, <2>14, <2>15, <3>2, AllSet
    <3> QED
      BY <2>2, <3>1, <3>2
  <2>11. SymbolsOK(syms, DOMAIN secs)
    <3>1. SymbolsOK(symbols, DOMAIN secs)
      BY <2>9 DEF DataInv, SymbolsOK, SymbolOK
    <3>3. PICK names : names = DOMAIN secs
      OBVIOUS
    <3>4. bss \in names
      BY <2>9, <3>3
    <3>5. SymbolsOK(SymbolSet(symbols, name, bss, at), names)
      BY <2>16, <3>1, <3>3, <3>4, SymbolSetKeeps
    <3> QED
      BY <2>2, <3>1, <3>3, <3>5
  <2>12. AllIn(symbols', secs, errors)
    <3>1. AllIn(SymbolGlobal(syms, name), secs, errors)
      BY <2>9, <2>10, <2>11, AllGlobal
    <3> QED
      BY <2>4, <2>10, <3>1
  <2>13. AllIn(symbols', sections', errors')
    <3>1. bss \in DOMAIN secs
      BY <2>9
    <3>2. sections' = Added(secs, bss, bytes, bytes, <<>>)
      BY <2>3, <2>4
    <3> QED
      BY <2>5, <2>6, <2>9, <2>12, <3>1, <3>2, AllFilled
  <2> QED
    BY <2>6, <2>13 DEF InPlaceInv
<1> QED
  BY <1>1, <1>2, <1>3 DEF _parse_lcomm

LEMMA GloblIn ==
    ASSUME DataInv, LinesInv, InPlaceInv, NEW ws, _parse_globl(ws)
    PROVE  InPlaceInv'
<1>1. CASE ERR
  BY <1>1, StayInPlace DEF ERR
<1>2. CASE symbols' = SymbolGlobal(symbols, ws[1].v) /\ UNCHANGED <<sections, errors>>
  <2>1. PICK name : name = ws[1].v
    OBVIOUS
  <2>2. AllIn(symbols', sections, errors)
    BY <1>2, <2>1, AllGlobal DEF DataInv, InPlaceInv
  <2> QED
    BY <1>2, <2>2 DEF InPlaceInv
<1> QED
  BY <1>1, <1>2 DEF _parse_globl

LEMMA InSectionIn ==
    ASSUME DataInv, LinesInv, InPlaceInv, NEW name \in Names \ {"absolute", NoSection}, InSection(name)
    PROVE  InPlaceInv'
<1>1. PICK bits : bits = sections[section].bitness
  OBVIOUS
<1>2. sections' = WithSection(name, bits) /\ UNCHANGED <<symbols, errors>>
  BY <1>1 DEF InSection
<1>3. AllIn(symbols, sections', errors)
  BY <1>2, AllWithSection DEF InPlaceInv
<1> QED
  BY <1>2, <1>3 DEF InPlaceInv

\* The section in use is another record
LEMMA InUseIn ==
    ASSUME InPlaceInv, NEW s, sections' = [sections EXCEPT ![section] = s], UNCHANGED symbols,
           errors' \in Seq(Names \X Int), errors' = <<>> => errors = <<>>,
           SectionIn(symbols, section, s, errors')
    PROVE  InPlaceInv'
<1>1. \A name \in DOMAIN sections : SectionIn(symbols, name, sections[name], errors')
  BY DEF InPlaceInv, AllIn, SectionIn
<1>2. AllIn(symbols', sections', errors')
  BY <1>1 DEF AllIn
<1> QED
  BY <1>2 DEF InPlaceInv

LEMMA BitsIn ==
    ASSUME DataInv, LinesInv, InPlaceInv, NEW ws, NEW bits \in {0, 1}, Bits(ws, bits)
    PROVE  InPlaceInv'
<1>1. CASE Abort
  BY <1>1, StayInPlace DEF Abort
<1>2. CASE /\ sections' = [sections EXCEPT ![section].bitness = bits]
           /\ UNCHANGED <<symbols, errors>>
  <2>1. PICK s, n : s = sections[section] /\ n = [s EXCEPT !.bitness = bits]
    OBVIOUS
  <2>2. sections' = [sections EXCEPT ![section] = n]
    BY <1>2, <2>1, Zenon
  <2>3. SectionOK(s) /\ SectionIn(symbols, section, s, errors)
    BY <2>1 DEF DataInv, SectionsOK, InPlaceInv, AllIn
  <2>4. n.address = s.address /\ n.parts = s.parts /\ n.expr = s.expr
    <3>1. PICK a, p, e, b : s = [address |-> a, parts |-> p, expr |-> e, bitness |-> b]
      BY <2>3 DEF SectionOK
    <3> QED
      BY <2>1, <3>1
  <2>5. SectionIn(symbols, section, n, errors')
    BY <1>2, <2>3, <2>4 DEF SectionIn, Filled, RequestsIn, Within, LabelsIn
  <2> QED
    BY <1>2, <2>2, <2>5, InUseIn DEF InPlaceInv
<1> QED
  BY <1>1, <1>2 DEF Bits

LEMMA TwoOperandsIn ==
    ASSUME DataInv, LinesInv, InPlaceInv, NEW ws \in Seq(Word), _parsei_2reg_imm(ws)
    PROVE  InPlaceInv'
<1>1. CASE ERR
  BY <1>1, StayInPlace DEF ERR
<1>2. CASE Crash
  BY <1>2, StayInPlace DEF Crash
<1>3. CASE /\ Reported(ErrorsIn(<<ws[1]>>) + 1)
           /\ sections' = [sections EXCEPT ![section].expr = @ \o Requests(<<ws[1]>>, <<2>>, 2)]
           /\ UNCHANGED symbols
  <2>1. PICK one, offset, width : one = <<ws[1]>> /\ offset = <<2>> /\ width = 2
    OBVIOUS
  <2>2. Len(one) = 1 /\ Len(one) \in Nat /\ width \in Nat /\ \A i \in 1..Len(one) : offset[i] \in Nat
    BY <2>1
  <2>3. errors' \in Seq(Names \X Int) /\ errors' # <<>>
    <3>1. ErrorsIn(one) \in Nat
      BY <2>2, ErrorsInNat
    <3>2. PICK k : k = ErrorsIn(one) + 1
      OBVIOUS
    <3>3. k \in Nat /\ k > 0 /\ Reported(k)
      BY <1>3, <2>1, <3>1, <3>2
    <3> QED
      BY <3>3, ErrorsReported
  <2>4. PICK s, requests, e : /\ s = sections[section] /\ requests = Requests(one, offset, width)
                              /\ e = s.expr \o requests
    OBVIOUS
  <2>5. PICK n : n = [s EXCEPT !.expr = e]
    OBVIOUS
  <2>6. sections' = [sections EXCEPT ![section] = n]
    BY <1>3, <2>1, <2>4, <2>5, Zenon
  <2>7. SectionOK(s) /\ SectionIn(symbols, section, s, errors)
    BY <2>4 DEF DataInv, SectionsOK, InPlaceInv, AllIn
  <2>8. Here \in Nat
    BY DEF DataInv, SectionsOK, SectionOK, Here
  <2>9. MadeOf(requests, Len(one), offset, width)
    BY <2>2, <2>4, <2>8, RequestsAre
  <2>10. e \in Seq(RequestType)
    BY <2>4, <2>7, <2>9, ConcatProperties DEF SectionIn, MadeOf
  <2>11. n.expr = e
    <3>1. PICK a, p, x, b : s = [address |-> a, parts |-> p, expr |-> x, bitness |-> b]
      BY <2>7 DEF SectionOK
    <3> QED
      BY <2>5, <3>1
  <2>12. SectionIn(symbols, section, n, errors')
    BY <2>3, <2>7, <2>10, <2>11 DEF SectionIn
  <2> QED
    BY <1>3, <2>3, <2>6, <2>12, InUseIn
<1>4. CASE WithImm(ws[1], 4, 2, 2)
  <2>1. PICK one, offset : one = <<ws[1]>> /\ offset = <<2>>
    OBVIOUS
  <2>2. /\ Len(one) \in Nat /\ \A i \in 1..Len(one) : offset[i] \in Nat
        /\ \A i \in 1..Len(one) : offset[i] + 2 <= 4
    BY <2>1
  <2>3. Emits(one, 4, 4, offset, 2)
    BY <1>4, <2>1 DEF WithImm
  <2> QED
    BY <2>2, <2>3, EmitsIn
<1>5. CASE Fills(3)
  BY <1>5, FillsIn
<1> QED
  BY <1>1, <1>2, <1>3, <1>4, <1>5 DEF _parsei_2reg_imm

LEMMA FillsOrNothingIn ==
    ASSUME DataInv, LinesInv, InPlaceInv, NEW bytes, ERR \/ Nothing \/ (bytes \in Nat /\ Fills(bytes))
    PROVE  InPlaceInv'
<1>1. CASE ERR
  BY <1>1, StayInPlace DEF ERR
<1>2. CASE Nothing
  BY <1>2, StayInPlace DEF Nothing
<1> QED
  BY <1>1, <1>2, FillsIn

LEMMA DataLinesIn ==
    ASSUME DataInv, LinesInv, InPlaceInv, NEW ws \in Seq(Word)
    PROVE  /\ \A k \in {1, 2, 4, 8} : _parse_int(ws, k) \/ Reals(ws, k) => InPlaceInv'
           /\ \A k \in {0, 1} :
                 Texts(ws, k) /\ (\A i \in 1..Len(ws) : ws[i].kind = "str") => InPlaceInv'
           /\ _parse_skip(ws) \/ _parse_fill(ws) \/ _parse_align(ws) \/ _parse_org(ws) => InPlaceInv'
<1>1. ASSUME NEW k \in {1, 2, 4, 8}, _parse_int(ws, k)
      PROVE  InPlaceInv'
  <2>1. CASE Nothing
    BY <2>1, FillsOrNothingIn
  <2>2. CASE Emits(ws, Len(ws) * k, Len(ws) * k, [i \in 1..Len(ws) |-> (i - 1) * k], k)
    <3>1. PICK n, bytes, offset : /\ n = Len(ws) /\ bytes = n * k
                                  /\ offset = [i \in 1..n |-> (i - 1) * k]
      OBVIOUS
    <3>2. n \in Nat /\ k \in Nat
      BY <3>1
    <3>3. bytes \in Nat /\ bytes <= bytes
      BY <3>1, <3>2
    <3>4. \A i \in 1..n : offset[i] \in Nat /\ offset[i] + k <= bytes
      <4>1. CASE k = 1
        BY <3>1, <3>2, <4>1
      <4>2. CASE k = 2
        BY <3>1, <3>2, <4>2
      <4>3. CASE k = 4
        BY <3>1, <3>2, <4>3
      <4>4. CASE k = 8
        BY <3>1, <3>2, <4>4
      <4> QED
        BY <4>1, <4>2, <4>3, <4>4
    <3>5. Emits(ws, bytes, bytes, offset, k)
      BY <2>2, <3>1
    <3> QED
      BY <3>1, <3>2, <3>3, <3>4, <3>5, EmitsIn
  <2> QED
    BY <1>1, <2>1, <2>2 DEF _parse_int
<1>2. ASSUME NEW k \in {1, 2, 4, 8}, Reals(ws, k)
      PROVE  InPlaceInv'
  <2>1. Len(ws) * k \in Nat
    OBVIOUS
  <2> QED
    BY <1>2, <2>1, FillsOrNothingIn DEF Reals
<1>3. ASSUME NEW k \in {0, 1}, Texts(ws, k), \A i \in 1..Len(ws) : ws[i].kind = "str"
      PROVE  InPlaceInv'
  <2>1. \A i \in 1..Len(ws) : ws[i].v + k \in Nat
    BY <1>3, OperandNumbers
  <2>2. [i \in 1..Len(ws) |-> ws[i].v + k] \in Seq(Nat)
    BY <2>1
  <2>3. Total([i \in 1..Len(ws) |-> ws[i].v + k]) \in Nat
    BY <2>2, TotalNat
  <2> QED
    BY <1>3, <2>3, FillsOrNothingIn DEF Texts
<1>4. ASSUME _parse_skip(ws)
      PROVE  InPlaceInv'
  BY <1>4, ArgNumbers, FillsOrNothingIn DEF _parse_skip
<1>5. ASSUME _parse_fill(ws)
      PROVE  InPlaceInv'
  <2> DEFINE k == IF Arg(ws, 2) = 0 THEN 1 ELSE Arg(ws, 2)
  <2>1. k \in Nat /\ Arg(ws, 1) \in Nat
    BY ArgNumbers
  <2>2. k * Arg(ws, 1) \in Nat
    BY <2>1
  <2>3. ERR \/ Fills(k * Arg(ws, 1))
    BY <1>5 DEF _parse_fill
  <2> QED
    BY <2>2, <2>3, FillsOrNothingIn
<1>6. ASSUME _parse_align(ws)
      PROVE  InPlaceInv'
  <2> DEFINE align == Arg(ws, 1)
             needed == (align - (Here % align)) % align
  <2>1. align \in Nat /\ Here \in Nat
    BY ArgNumbers DEF DataInv, SectionsOK, SectionOK, Here
  <2>2. ERR \/ Nothing \/ (align # 0 /\ Fills(needed))
    BY <1>6 DEF _parse_align
  <2>3. align # 0 => needed \in Nat
    BY <2>1
  <2> QED
    BY <2>2, <2>3, FillsOrNothingIn
<1>7. ASSUME _parse_org(ws)
      PROVE  InPlaceInv'
  <2>1. Arg(ws, 1) \in Nat /\ Here \in Nat
    BY ArgNumbers DEF DataInv, SectionsOK, SectionOK, Here
  <2>2. ERR \/ Nothing \/ (Arg(ws, 1) > Here /\ Fills(Arg(ws, 1) - Here))
    BY <1>7 DEF _parse_org
  <2>3. Arg(ws, 1) > Here => Arg(ws, 1) - Here \in Nat
    BY <2>1
  <2> QED
    BY <2>2, <2>3, FillsOrNothingIn
<1> QED
  BY <1>1, <1>2, <1>3, <1>4, <1>5, <1>6, <1>7

LEMMA EquIn ==
    ASSUME DataInv, LinesInv, InPlaceInv, NEW ws \in Seq(Word), _parse_equ(ws) \/ _parse_equiv(ws)
    PROVE  InPlaceInv'
<1>1. CASE ERR
  BY <1>1, FillsOrNothingIn
<1>2. CASE Len(ws) = 2 /\ Assigns(ws[1].v, ws[2])
  <2>1. PICK name, w : name = ws[1].v /\ w = ws[2]
    OBVIOUS
  <2>2. w \in Word /\ Assigns(name, w)
    BY <1>2, <2>1
  <2> QED
    BY <2>2, AssignsIn
<1> QED
  BY <1>1, <1>2 DEF _parse_equ, _parse_equiv

LEMMA DirectiveIn ==
    ASSUME DataInv, LinesInv, InPlaceInv, NEW op \in Directives, NEW ws \in Seq(Word),
           op \in {".ascii", ".asciz"} => \A i \in 1..Len(ws) : ws[i].kind = "str",
           Directive(op, ws)
    PROVE  InPlaceInv'
<1>1. \/ op \in {".byte", ".short", ".int", ".long"} /\ \E k \in {1, 2, 4, 8} : _parse_int(ws, k)
      \/ op \in {".float", ".double"} /\ \E k \in {1, 2, 4, 8} : Reals(ws, k)
      \/ op \in {".ascii", ".asciz"} /\ \E k \in {0, 1} : Texts(ws, k)
      \/ op \in {".skip", ".fill", ".align", ".org"}
         /\ (_parse_skip(ws) \/ _parse_fill(ws) \/ _parse_align(ws) \/ _parse_org(ws))
      \/ op = ".equ" /\ _parse_equ(ws)
  BY DEF Directive, Directives
<1> QED
  BY <1>1, DataLinesIn, EquIn

LEMMA SectionNames ==
    ASSUME NEW w \in Word, w.kind = "section"
    PROVE  w.v \in Names \ {"absolute", NoSection}
<1>1. w \in Plain => w.v \in STRING \ {"absolute", NoSection}
  BY DEF Plain
<1>2. w \notin Text_ /\ w \notin [kind : {"given"}, v : STRING, imm : BOOLEAN, given : Plain]
  BY DEF Text_
<1> QED
  BY <1>1, <1>2 DEF Word, Names

LEMMA CompilerDirectiveIn ==
    ASSUME DataInv, LinesInv, InPlaceInv, NEW op \in CompilerDirectives, NEW ws \in Seq(Word),
           CompilerDirective(op, ws)
    PROVE  InPlaceInv'
<1>1. \/ _parse_equiv(ws)
      \/ ERR
      \/ Len(ws) = 1 /\ ws[1].kind = "section" /\ InSection(ws[1].v)
      \/ Abort
      \/ op \in {".data", ".text"} /\ InSection(op)
      \/ Bits(ws, 0) \/ Bits(ws, 1)
      \/ _parse_lcomm(ws, TRUE) \/ _parse_lcomm(ws, FALSE)
      \/ _parse_globl(ws)
  BY DEF CompilerDirective, CompilerDirectives
<1>2. ASSUME ERR
      PROVE  InPlaceInv'
  BY <1>2, FillsOrNothingIn
<1>3. ASSUME Abort
      PROVE  InPlaceInv'
  BY <1>3, StayInPlace DEF Abort
<1>4. ASSUME Len(ws) = 1, ws[1].kind = "section", InSection(ws[1].v)
      PROVE  InPlaceInv'
  <2>1. PICK w, name : w = ws[1] /\ name = w.v
    OBVIOUS
  <2>2. w \in Word /\ w.kind = "section" /\ InSection(name)
    BY <1>4, <2>1
  <2>3. name \in Names \ {"absolute", NoSection}
    BY <2>1, <2>2, SectionNames
  <2> QED
    BY <2>2, <2>3, InSectionIn
<1>5. ASSUME op \in {".data", ".text"}, InSection(op)
      PROVE  InPlaceInv'
  <2>1. op \in Names \ {"absolute", NoSection}
    BY <1>5 DEF Names, NoSection
  <2> QED
    BY <1>5, <2>1, InSectionIn
<1>6. ASSUME Bits(ws, 0) \/ Bits(ws, 1)
      PROVE  InPlaceInv'
  <2>1. 0 \in {0, 1} /\ 1 \in {0, 1}
    OBVIOUS
  <2> QED
    BY <1>6, <2>1, BitsIn
<1>7. ASSUME _parse_lcomm(ws, TRUE) \/ _parse_lcomm(ws, FALSE)
      PROVE  InPlaceInv'
  <2>1. TRUE \in BOOLEAN /\ FALSE \in BOOLEAN
    OBVIOUS
  <2> QED
    BY <1>7, <2>1, CommonIn
<1> QED
  BY <1>1, <1>2, <1>3, <1>4, <1>5, <1>6, <1>7, EquIn, GloblIn

LEMMA InstructionIn ==
    ASSUME DataInv, LinesInv, InPlaceInv, NEW op \in Instructions, NEW ws \in Seq(Word),
           Instruction(op, ws)
    PROVE  InPlaceInv'
<1>1. \/ _parsei_pure(ws) \/ _parsei_1reg(ws) \/ _parsei_2reg(ws) \/ _parsei_1reg_imm(ws)
      \/ _parsei_2reg_imm(ws) \/ _parsei_1reg_1imm(ws) \/ _parsei_1imm(ws) \/ _parsei_jcc(ws)
      \/ _parsei_movcc(ws)
  BY DEF Instruction, Instructions
<1>2. ASSUME ERR \/ \E k \in {1, 2, 3, 4} : Fills(k)
      PROVE  InPlaceInv'
  BY <1>2, FillsOrNothingIn
<1>3. ASSUME NEW w, NEW bytes \in Nat, NEW advance \in Nat, bytes <= advance,
             NEW at \in Nat, NEW width \in Nat, bytes = advance => at + width <= bytes,
             Emits(<<w>>, bytes, advance, <<at>>, width)
      PROVE  InPlaceInv'
  <2>1. PICK one, offset : one = <<w>> /\ offset = <<at>>
    OBVIOUS
  <2>2. Len(one) = 1 /\ Len(one) \in Nat /\ offset[1] = at
    BY <2>1
  <2>3. /\ \A i \in 1..Len(one) : offset[i] \in Nat
        /\ bytes = advance => \A i \in 1..Len(one) : offset[i] + width <= bytes
    BY <1>3, <2>2
  <2>4. Emits(one, bytes, advance, offset, width)
    BY <1>3, <2>1
  <2> QED
    BY <1>3, <2>2, <2>3, <2>4, EmitsIn
<1>4. ASSUME _parsei_1reg_1imm(ws)
      PROVE  InPlaceInv'
  <2>1. CASE ERR
    BY <1>2, <2>1
  <2>2. CASE Emits(<<ws[1]>>, 3, 4, <<2>>, 1)
    BY <1>3, <2>2
  <2> QED
    BY <1>4, <2>1, <2>2 DEF _parsei_1reg_1imm
<1>5. ASSUME _parsei_pure(ws) \/ _parsei_1reg(ws) \/ _parsei_2reg(ws) \/ _parsei_movcc(ws)
      PROVE  InPlaceInv'
  BY <1>2, <1>5 DEF _parsei_pure, _parsei_1reg, _parsei_2reg, _parsei_movcc
<1>6. ASSUME _parsei_1imm(ws) \/ _parsei_jcc(ws) \/ _parsei_1reg_imm(ws)
      PROVE  InPlaceInv'
  <2>1. \/ ERR \/ Fills(2)
        \/ WithImm(ws[1], 3, 1, 2) \/ WithImm(ws[1], 4, 2, 2)
    BY <1>6 DEF _parsei_1imm, _parsei_jcc, _parsei_1reg_imm
  <2>2. CASE WithImm(ws[1], 3, 1, 2)
    BY <1>3, <2>2 DEF WithImm
  <2>3. CASE WithImm(ws[1], 4, 2, 2)
    BY <1>3, <2>3 DEF WithImm
  <2> QED
    BY <1>2, <2>1, <2>2, <2>3
<1> QED
  BY <1>1, <1>4, <1>5, <1>6, TwoOperandsIn

\* A label is set to the end of the section in use
LEMMA LabelledIn ==
    ASSUME DataInv, InPlaceInv, NEW labels, symbols' = Labelled(labels), UNCHANGED <<sections, errors>>
    PROVE  InPlaceInv'
<1>1. DOMAIN symbols' = DOMAIN symbols \cup Range(labels)
  BY DEF Labelled
<1>2. ASSUME NEW n \in DOMAIN symbols'
      PROVE  \/ n \in DOMAIN symbols /\ symbols'[n].section = symbols[n].section /\ symbols'[n].value = symbols[n].value
             \/ symbols'[n].value = sections[symbols'[n].section].address
  <2>1. CASE n \in Range(labels) /\ (n \in DOMAIN symbols => symbols[n].section = NoSection)
    <3>1. symbols'[n] = SymbolSet(symbols, n, section, Here)[n]
      BY <1>1, <1>2, <2>1 DEF Labelled
    <3> DEFINE flag == n \in DOMAIN symbols /\ symbols[n].global
    <3>2. symbols'[n] = [section |-> section, value |-> Here, global |-> flag]
      BY <3>1 DEF SymbolSet
    <3> HIDE DEF flag
    <3>3. symbols'[n].section = section /\ symbols'[n].value = Here
      BY <3>2
    <3> QED
      BY <3>3 DEF Here
  <2>2. CASE ~(n \in Range(labels) /\ (n \in DOMAIN symbols => symbols[n].section = NoSection))
    <3>1. symbols'[n] = symbols[n] /\ n \in DOMAIN symbols
      BY <1>1, <1>2, <2>2 DEF Labelled
    <3> QED
      BY <3>1
  <2> QED
    BY <2>1, <2>2
<1>3. AllIn(symbols', sections, errors)
  BY <1>2, AllSymbols DEF DataInv, InPlaceInv
<1> QED
  BY <1>3 DEF InPlaceInv

-----------------------------------------------------------------------------
(* All lines *)

LEMMA CommonLineIn ==
    ASSUME LinesInv, DataInv, InPlaceInv, args.op # "",
           \/ args.op = "=" /\ Assigns(args.args[1].v, args.args[2])
           \/ args.op \in Directives /\ Directive(args.op, args.args)
    PROVE  InPlaceInv'
<1>1. args \in Line /\ args.args \in Seq(Word)
  BY ArgsAre
<1>2. CASE args.op = "=" /\ Assigns(args.args[1].v, args.args[2])
  <2>1. Len(args.args) = 2
    BY <1>1, <1>2, LineFields
  <2>2. PICK name, w : name = args.args[1].v /\ w = args.args[2]
    OBVIOUS
  <2>3. w \in Word /\ Assigns(name, w)
    BY <1>1, <1>2, <2>1, <2>2
  <2> QED
    BY <2>3, AssignsIn
<1>3. CASE args.op \in Directives /\ Directive(args.op, args.args)
  <2>1. args.op \in {".ascii", ".asciz"} => \A i \in 1..Len(args.args) : args.args[i].kind = "str"
    BY <1>1, LineFields
  <2> QED
    BY <1>1, <1>3, <2>1, DirectiveIn
<1> QED
  BY <1>2, <1>3

LEMMA AssembleLineIn ==
    ASSUME LinesInv, DataInv, InPlaceInv, AssembleLine
    PROVE  InPlaceInv'
<1>1. args.op # ""
  BY DEF AssembleLine, Outside
<1>2. PICK op, ws : op = args.op /\ ws = args.args
  OBVIOUS
<1>3. ws \in Seq(Word)
  BY <1>1, <1>2, ArgsAre
<1>4. CASE \/ args.op = "=" /\ Assigns(args.args[1].v, args.args[2])
           \/ args.op \in Directives /\ Directive(args.op, args.args)
  BY <1>1, <1>4, CommonLineIn
<1>5. CASE op \in CompilerDirectives /\ CompilerDirective(op, ws)
  BY <1>3, <1>5, CompilerDirectiveIn
<1>6. CASE op \in Instructions /\ Instruction(op, ws)
  BY <1>3, <1>6, InstructionIn
<1> QED
  BY <1>2, <1>4, <1>5, <1>6 DEF AssembleLine

LEMMA ControlIn ==
    ASSUME LinesInv, InPlaceInv,
           \/ _parse_include \/ _parse_if \/ _parse_macro \/ _parse_macro_sub
           \/ KeepLine \/ _parse_else \/ _parse_endif \/ _parse_endm \/ _parse_endr
    PROVE  InPlaceInv'
<1>1. UNCHANGED <<symbols, sections>>
  BY DEF _parse_include, _parse_if, _parse_macro, _parse_macro_sub, KeepLine, _parse_else,
     _parse_endif, _parse_endm, _parse_endr, Lost, Unchanged, ERR, Crash
<1>2. UNCHANGED errors \/ \E n \in {0, 1} : Reported(n)
  <2>1. CASE KeepLine \/ _parse_else \/ _parse_endif \/ _parse_endr
    BY <2>1 DEF KeepLine, _parse_else, _parse_endif, _parse_endr
  <2>2. CASE _parse_include \/ _parse_macro_sub
    BY <2>2 DEF _parse_include, _parse_macro_sub, Lost
  <2>3. CASE _parse_if
    <3>1. CASE ERR \/ Crash
      BY <3>1 DEF ERR, Crash
    <3>2. PICK n : n = IF args.op = ".if" THEN ErrorsNow(args.args[1]) ELSE 0
      OBVIOUS
    <3>3. n \in {0, 1}
      BY <3>2 DEF ErrorsNow
    <3>4. ~ERR /\ ~Crash => Reported(n)
      BY <2>3, <3>2, Zenon DEF _parse_if
    <3> QED
      BY <3>1, <3>3, <3>4
  <2>4. CASE _parse_macro
    <3> DEFINE good == IF args.op = ".irpc" THEN Len(args.args) = 2 ELSE Len(args.args) >= 1
    <3>1. Reported(IF good THEN 0 ELSE 1)
      BY <2>4, Zenon DEF _parse_macro
    <3> HIDE DEF good
    <3>2. PICK n : n = IF good THEN 0 ELSE 1
      OBVIOUS
    <3>3. n \in {0, 1} /\ Reported(n)
      BY <3>1, <3>2
    <3> QED
      BY <3>3
  <2>5. CASE _parse_endm
    <3>1. PICK n : n = IF dl[1].v \in DOMAIN macros THEN 1 ELSE 0
      OBVIOUS
    <3>2. n \in {0, 1}
      BY <3>1
    <3>3. UNCHANGED errors \/ Reported(n)
      BY <2>5, <3>1, Zenon DEF _parse_endm
    <3> QED
      BY <3>2, <3>3
  <2> QED
    BY <2>1, <2>2, <2>3, <2>4, <2>5
<1>3. \A n \in {0, 1} : n \in Nat
  OBVIOUS
<1> QED
  BY <1>1, <1>2, <1>3, StayInPlace

LEMMA LinesIn ==
    ASSUME Inv, InPlaceInv, LinesNext
    PROVE  InPlaceInv'
<1>0. LinesInv /\ DataInv
  BY DEF Inv
<1>1. CASE Open \/ EndFile
  BY <1>0, <1>1, StayInPlace DEF Open, EndFile
<1>2. CASE ReadLine
  <2>1. UNCHANGED <<sections, errors>> /\ (UNCHANGED symbols \/ \E labels : symbols' = Labelled(labels))
    BY <1>2 DEF ReadLine
  <2> QED
    BY <1>0, <2>1, StayInPlace, LabelledIn
<1>3. CASE BlankLine
  BY <1>0, <1>3, FillsOrNothingIn DEF BlankLine
<1>4. CASE AssembleLine
  BY <1>0, <1>4, AssembleLineIn
<1>5. CASE UnknownLine
  BY <1>0, <1>5, StayInPlace DEF UnknownLine, Abort
<1>6. CASE \/ _parse_include \/ _parse_if \/ _parse_macro \/ _parse_macro_sub
           \/ KeepLine \/ _parse_else \/ _parse_endif \/ _parse_endm \/ _parse_endr
  BY <1>0, <1>6, ControlIn
<1> QED
  BY <1>1, <1>2, <1>3, <1>4, <1>5, <1>6 DEF LinesNext

LEMMA OneSectionIn ==
    ASSUME NEW name \in Names \ {"absolute", NoSection}, NEW bits, NEW secs, NEW syms, NEW found,
           secs = [s \in {name} |-> NewSection(bits)], syms = <<>>
    PROVE  AllIn(syms, secs, found)
<1>1. DOMAIN syms = {} /\ DOMAIN secs = {name} /\ secs[name] = NewSection(bits)
  OBVIOUS
<1>2. SymbolsOK(syms, {})
  BY <1>1 DEF SymbolsOK
<1>3. SectionIn(syms, name, secs[name], found)
  BY <1>1, <1>2, NewIn
<1> QED
  BY <1>1, <1>3 DEF AllIn

LEMMA EndUnitIn ==
    ASSUME Inv, InPlaceInv, EndUnit
    PROVE  InPlaceInv'
<1>1. UNCHANGED errors
  BY DEF EndUnit
<1>2. CASE symbols' = <<>> /\ sections' = [s \in {".text"} |-> NewSection(1)]
  <2>1. ".text" \in Names \ {"absolute", NoSection}
    BY DEF Names, NoSection
  <2>2. AllIn(symbols', sections', errors')
    BY <1>2, <2>1, OneSectionIn
  <2> QED
    BY <1>1, <2>2 DEF InPlaceInv
<1>3. CASE symbols' = <<>> /\ sections' = [s \in {".linker"} |-> NewSection(0)]
  <2>1. ".linker" \in Names \ {"absolute", NoSection}
    BY DEF Names, NoSection
  <2>2. AllIn(symbols', sections', errors')
    BY <1>3, <2>1, OneSectionIn
  <2> QED
    BY <1>1, <2>2 DEF InPlaceInv
<1>4. CASE UNCHANGED <<symbols, sections>>
  BY <1>1, <1>4, StayInPlace DEF Inv
<1> QED
  <2>1. CASE todo # <<>> /\ NewUnit(Head(todo))
    BY <1>2, <2>1 DEF NewUnit
  <2> QED
    BY <1>3, <1>4, <2>1, Zenon DEF EndUnit

LEMMA FileLineIn ==
    ASSUME Inv, PlacedInv, InPlaceInv, FileLine
    PROVE  InPlaceInv'
<1>0. DataInv /\ LinesInv /\ LinkInv
  BY DEF Inv
<1>1. CASE ERR
  BY <1>0, <1>1, FillsOrNothingIn
<1>2. ASSUME NEW order \in Orders(Unplaced), NEW st, st = Link(sections[section], order),
             sections' = [sections EXCEPT ![section] = st.sec], UNCHANGED <<symbols, errors>>
      PROVE  InPlaceInv'
  <2>1. PICK s, t : s = sections[section] /\ t = st.sec
    OBVIOUS
  <2>2. SectionOK(s) /\ SectionIn(symbols, section, s, errors)
    BY <1>0, <2>1 DEF DataInv, SectionsOK, InPlaceInv, AllIn
  <2>3. /\ order \in Seq(Unplaced) /\ \A i, j \in 1..Len(order) : order[i] = order[j] => i = j
    BY <1>0, OrderTakesEachOnce
  <2>4. LinkedUpTo(Len(order), st, s, order)
    BY <1>0, <1>2, <2>1, <2>2, <2>3, LinkPlaces
  <2>5. Filled(s)
    <3>1. linking
      BY DEF FileLine, InScript
    <3> QED
      BY <2>1, <3>1 DEF PlacedInv
  <2>6. Len(order) \in Nat /\ Len(s.parts) \in Nat
    BY <2>2, <2>3 DEF SectionOK
  <2>7. /\ SectionOK(t) /\ t.expr = s.expr /\ Len(t.parts) = Len(s.parts) + Len(order)
        /\ \A i \in 1..Len(s.parts) : t.parts[i] = s.parts[i]
    BY <2>1, <2>4 DEF LinkedUpTo
  <2>8. t.expr \in Seq(RequestType)
    BY <2>2, <2>7 DEF SectionIn
  <2>9. Len(s.parts) <= Len(t.parts)
    BY <2>6, <2>7
  <2>10. \A i \in 1..Len(t.expr) : i \in 1..Len(s.expr) /\ t.expr[i] = s.expr[i]
    BY <2>7
  <2>11. SectionIn(symbols, section, t, errors)
    BY <2>2, <2>5, <2>7, <2>8, <2>9, <2>10, LongerIn
  <2>12. sections' = [sections EXCEPT ![section] = t]
    BY <1>2, <2>1
  <2> QED
    BY <1>2, <2>11, <2>12, InUseIn DEF InPlaceInv
<1>3. CASE ~Refused /\ ~ERR
  <2>1. PICK order \in Orders(Unplaced), map \in [{p[1] : p \in Unplaced} -> 0..Len(linked)] :
           sections' = [sections EXCEPT ![section] = Link(sections[section], order).sec]
    BY <1>3, Zenon DEF FileLine
  <2>2. UNCHANGED <<symbols, errors>>
    BY <1>3 DEF FileLine
  <2> QED
    BY <1>2, <2>1, <2>2
<1> QED
  BY <1>1, <1>3 DEF FileLine

LEMMA StepIn ==
    ASSUME Inv, PlacedInv, InPlaceInv, [LinkerNext]_linkerVars
    PROVE  InPlaceInv'
<1>0. DataInv /\ LinesInv
  BY DEF Inv
<1>1. CASE LinesNext
  BY <1>1, LinesIn
<1>2. CASE EndUnit
  BY <1>2, EndUnitIn
<1>3. CASE ScriptLine
  <2>1. args.op # ""
    BY <1>3 DEF ScriptLine, InScript
  <2>2. CASE Abort
    BY <1>0, <2>2, StayInPlace DEF Abort
  <2> QED
    BY <1>0, <1>3, <2>1, <2>2, CommonLineIn DEF ScriptLine
<1>4. CASE FileLine
  BY <1>4, FileLineIn
<1>5. CASE BadFree \/ EndScript
  BY <1>0, <1>5, StayInPlace DEF BadFree, EndScript
<1>6. CASE UNCHANGED linkerVars
  BY <1>0, <1>6, StayInPlace DEF linkerVars, sourceVars, cmplVars
<1> QED
  BY <1>1, <1>2, <1>3, <1>4, <1>5, <1>6 DEF LinkerNext

LEMMA InitIn == LinkerInit => InPlaceInv
<1> SUFFICES ASSUME LinkerInit
             PROVE  InPlaceInv
  OBVIOUS
<1>1. symbols = <<>> /\ sections = [s \in {".text"} |-> NewSection(1)] /\ errors = <<>>
  BY Zenon DEF LinkerInit
<1>2. ".text" \in Names \ {"absolute", NoSection}
  BY DEF Names, NoSection
<1>3. AllIn(symbols, sections, errors)
  BY <1>1, <1>2, OneSectionIn
<1> QED
  BY <1>1, <1>3 DEF InPlaceInv

LEMMA InPlaceInvInPlace ==
    ASSUME Inv, InPlaceInv
    PROVE  InPlace
<1> SUFFICES ASSUME NEW s \in DOMAIN sections, Extent(s) = sections[s].address, errors = <<>>
             PROVE  /\ \A n \in DOMAIN symbols : symbols[n].section = s =>
                          \E k \in 1..(Len(sections[s].parts) + 1) : symbols[n].value = Begin(s, k)
                    /\ \A i \in 1..Len(sections[s].expr) : LET r == sections[s].expr[i] IN
                          \E k \in 1..Len(sections[s].parts) :
                             /\ Begin(s, k) <= r.address + r.offset
                             /\ r.address + r.offset + r.size <= Begin(s, k + 1)
  BY Zenon DEF InPlace
<1>1. PICK t : t = sections[s]
  OBVIOUS
<1>2. SectionOK(t) /\ SectionIn(symbols, s, t, errors)
  BY <1>1 DEF Inv, DataInv, SectionsOK, InPlaceInv, AllIn
<1>3. \A k : Begin(s, k) = Before(t.parts, k)
  BY <1>1 DEF Begin, Before
<1>4. Filled(t)
  <2>1. (Len(t.parts) + 1) - 1 = Len(t.parts)
    BY <1>2 DEF SectionOK
  <2>2. Before(t.parts, Len(t.parts) + 1) = Total(Sizes(t.parts))
    BY <2>1 DEF Before, Sizes
  <2> QED
    BY <1>1, <1>3, <2>2 DEF Extent, Filled
<1>5. RequestsIn(t) /\ LabelsIn(symbols, s, t)
  BY <1>2, <1>4 DEF SectionIn
<1>6. \A n \in DOMAIN symbols : symbols[n].section = s =>
         \E k \in 1..(Len(t.parts) + 1) : symbols[n].value = Begin(s, k)
  BY <1>3, <1>5 DEF LabelsIn
<1>7. \A i \in 1..Len(t.expr) : \E k \in 1..Len(t.parts) :
         /\ Begin(s, k) <= t.expr[i].address + t.expr[i].offset
         /\ t.expr[i].address + t.expr[i].offset + t.expr[i].size <= Begin(s, k + 1)
  BY <1>3, <1>5 DEF RequestsIn, Within
<1> QED
  BY <1>1, <1>6, <1>7

-----------------------------------------------------------------------------
(* What is shown *)

\* The sections, the symbols and every list that is still to be read keep the form
\* that the next line relies on.
THEOREM AssemblerInvariant == LinkerSpec => []Inv
<1>1. LinkerInit => Inv
  BY InitInv
<1>2. Inv /\ [LinkerNext]_linkerVars => Inv'
  BY StepInv
<1> QED
  BY <1>1, <1>2, PTL DEF LinkerSpec

\* compile.c, cmpl_data.c: a section in use is there, sizes and addresses are not
\* negative, a symbol is of a section that is there, and no line is left outside of
\* a block, for all sources and scripts.
THEOREM AssemblerTypeCorrect == LinkerSpec => []TypeOK
<1>1. Inv => TypeOK
  <2> SUFFICES ASSUME Inv
               PROVE  TypeOK
    OBVIOUS
  <2>1. DataInv /\ LinesInv
    BY DEF Inv
  <2>2. \A s \in DOMAIN sections :
           /\ sections[s].address \in Nat /\ sections[s].bitness \in {0, 1}
           /\ \A i \in 1..Len(sections[s].parts) : sections[s].parts[i].size \in Nat
    <3> SUFFICES ASSUME NEW s \in DOMAIN sections
                 PROVE  /\ sections[s].address \in Nat /\ sections[s].bitness \in {0, 1}
                        /\ \A i \in 1..Len(sections[s].parts) : sections[s].parts[i].size \in Nat
      OBVIOUS
    <3>1. SectionOK(sections[s])
      BY <2>1 DEF DataInv, SectionsOK
    <3>2. /\ sections[s].address \in Nat /\ sections[s].bitness \in {0, 1}
          /\ sections[s].parts \in Seq(PartType)
      BY <3>1 DEF SectionOK
    <3>3. \A part \in PartType : part.size \in Nat
      BY DEF PartType
    <3> QED
      BY <3>2, <3>3
  <2>3. \A n \in DOMAIN symbols : symbols[n].section \in DOMAIN sections \cup {"absolute", NoSection}
    BY <2>1 DEF DataInv, SymbolsOK, SymbolOK
  <2> QED
    BY <2>1, <2>2, <2>3 DEF TypeOK, DataInv, LinesInv
<1> QED
  BY <1>1, AssemblerInvariant, PTL

\* compile.c:326-335: the parts of a section, also of the linked one, never take more
\* bytes than its address says, which is the size of the buffer they are copied to.
THEOREM PartsFitBuffer == LinkerSpec => []FitsBuffer
<1>1. Inv => FitsBuffer
  <2> SUFFICES ASSUME Inv, NEW s \in DOMAIN sections
               PROVE  Extent(s) <= sections[s].address
    BY DEF FitsBuffer
  <2>1. SectionOK(sections[s])
    BY DEF Inv, DataInv, SectionsOK
  <2>2. PICK parts : parts = sections[s].parts
    OBVIOUS
  <2>3. parts \in Seq(PartType) /\ Total(Sizes(parts)) <= sections[s].address
    BY <2>1, <2>2 DEF SectionOK
  <2>4. (Len(parts) + 1) - 1 = Len(parts)
    BY <2>3
  <2>5. Extent(s) = Total([i \in 1..((Len(parts) + 1) - 1) |-> parts[i].size])
    BY <2>2 DEF Extent, Begin
  <2>6. Extent(s) = Total(Sizes(parts))
    BY <2>4, <2>5 DEF Sizes
  <2> QED
    BY <2>3, <2>6
<1> QED
  BY <1>1, AssemblerInvariant, PTL

\* cmpl_data.c:17-24, :40-45: no line of a unit or of the script takes away a symbol or
\* its global flag, and .globl leaves the place of a symbol as it was.
THEOREM SymbolsStayGlobal == LinkerSpec => KeepsGlobal
<1>1. Inv /\ [LinkerNext]_linkerVars => [todo' = todo /\ linking' = linking => GlobalKept]_linkerVars
  BY StepInv
<1> QED
  BY <1>1, AssemblerInvariant, PTL DEF LinkerSpec, KeepsGlobal, GlobalKept

\* compile.c:3-11, :20-67: in every script, a section of a unit is copied to one place
\* only, it is recorded under its unit at the address of its bytes, in one map, and
\* nothing is recorded that was not copied.
THEOREM SectionsPlacedOnce == LinkerSpec => []Placed
<1>1. LinkerInit => Inv /\ PlacedInv
  BY InitInv, InitPlaces
<1>2. Inv /\ PlacedInv /\ [LinkerNext]_linkerVars => (Inv /\ PlacedInv)'
  BY StepInv, StepPlaces
<1>3. Inv /\ PlacedInv => Placed
  BY PlacedInvPlaced
<1> QED
  BY <1>1, <1>2, <1>3, PTL DEF LinkerSpec

\* cmpl_data.c: in every source and script, as long as every line added what it advanced
\* by and none was refused, a label stands between two parts of its section, and what
\* the linker is asked to fill in lies within one.
THEOREM LabelsAndRequestsInPlace == LinkerSpec => []InPlace
<1>1. LinkerInit => Inv /\ PlacedInv /\ InPlaceInv
  BY InitInv, InitPlaces, InitIn
<1>2. Inv /\ PlacedInv /\ InPlaceInv /\ [LinkerNext]_linkerVars => (Inv /\ PlacedInv /\ InPlaceInv)'
  BY StepInv, StepPlaces, StepIn
<1>3. Inv /\ InPlaceInv => InPlace
  BY InPlaceInvInPlace
<1> QED
  BY <1>1, <1>2, <1>3, PTL DEF LinkerSpec

=============================================================================
