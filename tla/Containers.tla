----------------------------- MODULE Containers -----------------------------
(***************************************************************************)
(* The containers of util.c in the hands of one client: a list, a map or a *)
(* set, one at a time. A map may be turned into a list of its entries, a   *)
(* list into an array; each may be freed with or without what it holds.    *)
(* `place` says who answers for each block of memory put into them.        *)
(***************************************************************************)
EXTENDS LinkedList, FiniteSets, Functions

CONSTANTS
    Block,                      \* memory that the client stores
    String, Text(_), Hash(_),
    MapCapacity, SetCapacity,   \* of a new map and a new set, 8 in the code
    MaxPuts                     \* puts into one set (bound)

ASSUME TableAssumption ==
    /\ MapCapacity \in Nat \ {0} /\ SetCapacity \in Nat \ {0}
    /\ \A s \in String : Hash(Text(s)) \in Nat

\* The null pointer is neither memory nor what a map keeps of a string
ASSUME BlockAssumption == Null \notin Block \cup [str : String, value : Block]

VARIABLES
    kind,                       \* the container in use
    buckets, capacity, filled,  \* a map or a set
    array,                      \* the elements of an array
    place

tableVars == <<buckets, capacity, filled>>
containerVars == <<listVars, kind, tableVars, array, place>>

Map == INSTANCE HashMap WITH
           Value <- Block, None <- Null, FirstCapacity <- MapCapacity, size <- filled
Set == INSTANCE HashSet WITH
           None <- Null, FirstCapacity <- SetCapacity, size <- filled

Place == {"client", "container", "freed", "leaked"}
\* A list that was a map holds lists of a string and a value
BlockOf(value) == IF kind = "entries" THEN value[2] ELSE value
Contents ==
    CASE kind \in {"list", "entries"} -> {BlockOf(cell[n].value) : n \in Allocated}
      [] kind = "map"   -> {e.value : e \in Map!Held}
      [] kind = "array" -> Range(array)
      [] OTHER          -> {}
Clients == {b \in Block : place[b] = "client"}
Moved(blocks, to) == [b \in Block |-> IF b \in blocks THEN to ELSE place[b]]

\* The i-th node, as the loops over a list find it
Nth[i \in 1..size] == IF i = 1 THEN data ELSE cell[Nth[i - 1]].next
NoList == Becomes(NewList) /\ result' = Null

Init ==
    /\ ll_make
    /\ \/ kind \in {"list", "map"} /\ Map!hm_make
       \/ kind = "set" /\ Set!hs_make
    /\ array = <<>>
    /\ place = [b \in Block |-> "client"]

-----------------------------------------------------------------------------
ListPuts ==
    /\ kind = "list"
    /\ \E b \in Clients, n \in Node \ Allocated :
          /\ ll_append(n, b) \/ ll_prepend(n, b)
          /\ place' = Moved({b}, "container")
    /\ UNCHANGED <<kind, tableVars, array>>

ListTakes ==
    /\ kind \in {"list", "entries"}
    /\ \/ (ll_pop \/ ll_shift) /\ place' = Moved({BlockOf(result')}, "client")
       \/ TakesNothing /\ UNCHANGED place
    /\ UNCHANGED <<kind, tableVars, array>>

MapCalls ==
    /\ kind = "map"
    /\ \E s \in String :
          \/ Map!hm_get(s) /\ UNCHANGED place
          \/ Map!hm_erase(s) /\ place' = Moved(IF result'.is = Null THEN {} ELSE {result'.is.value}, "client")
          \/ \E b \in Clients :
                /\ Map!hm_put(s, b)
                /\ place' = [Moved({result'.is}, "client") EXCEPT ![b] = "container"]
    /\ UNCHANGED <<kind, cell, data, last, size, array>>

SetCalls ==
    /\ kind = "set"
    /\ \E s \in String :
          \/ filled < MaxPuts /\ Set!hs_put(s)
          \/ Set!hs_erase(s)
          \/ Set!hs_contains(s)
    /\ UNCHANGED <<kind, cell, data, last, size, array, place>>

Listed(order, node) ==
    LET lists[k \in 0..Len(order)] ==
            IF k = 0 THEN NewList
            ELSE Appended(lists[k - 1], node[k], <<order[k].str, order[k].value>>)
    IN  lists[Len(order)]

\* hm_free_to: each entry that the loops come to is appended, in a node of its own
MapToList ==
    /\ kind = "map"
    /\ kind' = "entries"
    /\ LET order == Map!Walk(buckets, capacity)
       IN  \E node \in [1..Len(order) -> Node] :
              IsInjective(node) /\ Becomes(Listed(order, node))
    /\ result' = Null
    /\ UNCHANGED <<tableVars, array, place>>

\* ll_free_to
ListToArray ==
    /\ kind = "list"
    /\ kind' = "array"
    /\ array' = [i \in 1..size |-> cell[Nth[i]].value]
    /\ NoList
    /\ UNCHANGED <<tableVars, place>>

\* An index behind the end writes nothing
ar_set(i, b) ==
    \/ i >= Len(array) /\ result' = Null /\ UNCHANGED <<array, place>>
    \/ /\ i < Len(array)
       /\ result' = array[i + 1]
       /\ array' = [array EXCEPT ![i + 1] = b]
       /\ place' = [place EXCEPT ![b] = "container", ![array[i + 1]] = "client"]

\* Mutant: one element too few is kept
ar_cutout_OneLess(start, end) ==
    /\ end <= Len(array)
    /\ array' = SubSeq(array, start + 1, end)
    /\ place' = Moved({array[i] : i \in 1..Len(array) \ (start + 1)..(end - 1)}, "freed")

\* The elements from start up to end stay, the others are freed; an end behind
\* the array leaves all as it is
ar_cutout(start, end) ==
    \/ end > Len(array) /\ UNCHANGED <<array, place>>
    \/ /\ end <= Len(array)
       /\ array' = SubSeq(array, start + 1, end)
       /\ place' = Moved({array[i] : i \in 1..Len(array) \ (start + 1)..end}, "freed")

ArrayCalls ==
    /\ kind = "array"
    /\ \/ \E i \in 0..Len(array), b \in Clients : ar_set(i, b)
       \/ \E i \in 0..Len(array) :
             \/ i < Len(array) /\ result' = array[i + 1] /\ UNCHANGED <<array, place>>
             \/ \E end \in i..(Len(array) + 1) : ar_cutout(i, end) /\ UNCHANGED result
    /\ UNCHANGED <<cell, data, last, size, kind, tableVars>>

\* ll_free, hm_free, hs_free, ar_free, or the same with _val, which frees what
\* is held: of a list of entries, the lists and not what they hold
Release ==
    /\ kind # "none"
    /\ \/ place' = Moved(Contents, "leaked")
       \/ kind # "entries" /\ place' = Moved(Contents, "freed")
    /\ kind' = "none"
    /\ NoList
    /\ array' = <<>>
    /\ UNCHANGED tableVars

Next ==
    \/ ListPuts \/ ListTakes \/ MapCalls \/ SetCalls
    \/ MapToList \/ ListToArray \/ ArrayCalls \/ Release

Spec == Init /\ [][Next]_containerVars

-----------------------------------------------------------------------------
(* Properties *)

Values == Block \cup (String \X Block)

\* The fields of every container have their types, whatever it was turned into.
TypeOK ==
    /\ kind \in {"list", "map", "set", "entries", "array", "none"}
    /\ DOMAIN cell \subseteq Node
    /\ \A n \in Allocated : cell[n].value \in Values /\ cell[n].next \in Pointer
    /\ kind = "map" => Map!MapTypeOK
    /\ kind = "set" => Set!SetTypeOK
    /\ place \in [Block -> Place]

\* util.c:245, :255, :265, :277: after any calls, also when the list became empty,
\* `last` is the link behind the last node, and size is the number of nodes.
ListWellFormed == kind \in {"list", "entries"} => WellFormed

\* util.h:62, :69, :80: what a container holds is not freed while it holds it,
\* through every conversion and cutout, and each block has one place.
Accounted ==
    /\ Contents = {b \in Block : place[b] = "container"}
    /\ kind \in {"list", "entries"} => Cardinality(Contents) = size
    /\ kind = "map" => Cardinality(Contents) = filled
    /\ kind = "array" => Cardinality(Contents) = Len(array)

\* util.c:47: a set gets new buckets in time, although erasing does not count.
SetNotCrowded == kind = "set" => Set!NotCrowded

\* The nodes implement a sequence that is read and written at both ends.
Sequence == INSTANCE SequenceSpec WITH Value <- Block, None <- Null,
    items  <- IF kind = "list" THEN [i \in 1..size |-> cell[Nth[i]].value] ELSE <<>>,
    result <- IF kind = "list" THEN result ELSE Null
ImplementsSequence == Sequence!Spec

\* The buckets implement a dictionary: rehashing moves every entry along its
\* chain to where it is looked for, and the old value of a text comes back to the caller.
Dictionary == INSTANCE DictionarySpec WITH Value <- Block, None <- Null,
    entries <- IF kind = "map" THEN Map!Held ELSE {},
    result  <- IF kind = "map" THEN result ELSE Null
ImplementsDictionary == Dictionary!Spec

\* util.c:31-80: the chains implement a set that holds a string as often as it was
\* put and not erased: hs_contains finds every string with such a text and no
\* other, and a rehash loses no link and doubles none.
Bag == INSTANCE SetSpec WITH None <- Null,
    members <- [s \in String |->
                   IF kind = "set" THEN Cardinality({l \in Set!Held : l.str = s}) ELSE 0],
    result  <- IF kind = "set" THEN result ELSE Null
ImplementsSet == Bag!Spec
=============================================================================
