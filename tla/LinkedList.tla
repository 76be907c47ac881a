----------------------------- MODULE LinkedList -----------------------------
(***************************************************************************)
(* llist_t: singly linked nodes, a pointer to the first, and `last`, the   *)
(* address of the link where the next node goes. That address is either    *)
(* that of the list's own field `data` (Front) or of a node's `next`.      *)
(***************************************************************************)
EXTENDS Integers, Sequences

CONSTANTS
    Node,        \* addresses that the allocator hands out
    Value,
    Null,        \* the null pointer
    Front        \* &list->data

ASSUME ListAssumption == Null \notin Node /\ Front \notin Node

VARIABLES
    cell,        \* the nodes allocated and not freed
    data, last, size,
    result       \* what the last call returned

listVars == <<cell, data, last, size, result>>

Pointer == Node \cup {Null}
Cell == [value : Value, next : Pointer]
Allocated == DOMAIN cell

\* A write through a link: *link = p
Linked(cells, link, p) ==
    [n \in DOMAIN cells |-> IF n = link THEN [cells[n] EXCEPT !.next = p] ELSE cells[n]]
With(cells, n, c) == [m \in DOMAIN cells \cup {n} |-> IF m = n THEN c ELSE cells[m]]
Without(cells, n) == [m \in DOMAIN cells \ {n} |-> cells[m]]

ll_make == cell = <<>> /\ data = Null /\ last = Front /\ size = 0 /\ result = Null

\* A list apart from the one in use, which takes its place in the end
NewList == [cell |-> <<>>, data |-> Null, last |-> Front, size |-> 0]
Becomes(list) ==
    cell' = list.cell /\ data' = list.data /\ last' = list.last /\ size' = list.size

\* The list with v behind its end, in the new node n
Appended(list, n, v) ==
    [cell |-> With(Linked(list.cell, list.last, n), n, [value |-> v, next |-> Null]),
     data |-> IF list.last = Front THEN n ELSE list.data,
     last |-> n,
     size |-> list.size + 1]

-----------------------------------------------------------------------------
ll_append(n, v) ==
    /\ Becomes(Appended([cell |-> cell, data |-> data, last |-> last, size |-> size], n, v))
    /\ result' = Null

\* The new node is the last one when the link at `last` leads to it: when that
\* link is the list's own.
ll_prepend(n, v) ==
    /\ cell' = With(cell, n, [value |-> v, next |-> data])
    /\ data' = n
    /\ last' = IF last = Front THEN n ELSE last
    /\ size' = size + 1
    /\ result' = Null

Target(link) == IF link = Front THEN data ELSE cell[link].next
\* The search for the last node finds the link that leads to it
LastLink == CHOOSE link \in Allocated \cup {Front} :
                Target(link) \in Allocated /\ cell[Target(link)].next = Null

\* Mutant: the value returned is that of the first node
ll_pop_First ==
    /\ size > 0
    /\ size' = size - 1
    /\ result' = cell[data].value
    /\ last' = LastLink
    /\ cell' = Without(Linked(cell, LastLink, Null), Target(LastLink))
    /\ data' = IF LastLink = Front THEN Null ELSE data

ll_pop ==
    /\ size > 0
    /\ size' = size - 1
    /\ result' = cell[Target(LastLink)].value
    /\ last' = LastLink
    /\ cell' = Without(Linked(cell, LastLink, Null), Target(LastLink))
    /\ data' = IF LastLink = Front THEN Null ELSE data

\* Mutant: `last` is not put back when the list becomes empty
ll_shift_LastStays ==
    /\ size > 0
    /\ size' = size - 1
    /\ last' = last
    /\ result' = cell[data].value
    /\ data' = cell[data].next
    /\ cell' = Without(cell, data)

ll_shift ==
    /\ size > 0
    /\ size' = size - 1
    /\ last' = IF size = 1 THEN Front ELSE last
    /\ result' = cell[data].value
    /\ data' = cell[data].next
    /\ cell' = Without(cell, data)

TakesNothing == size = 0 /\ result' = Null /\ UNCHANGED <<cell, data, last, size>>

-----------------------------------------------------------------------------
(* Properties *)

\* s is the list's nodes in their order
IsChain(s) ==
    /\ \A i, j \in 1..size : s[i] = s[j] => i = j
    /\ Allocated = {s[i] : i \in 1..size}
    /\ data = IF size = 0 THEN Null ELSE s[1]
    /\ last = IF size = 0 THEN Front ELSE s[size]
    /\ \A i \in 1..size : cell[s[i]].next = IF i = size THEN Null ELSE s[i + 1]

\* util.c:245, :255, :265, :277: the nodes form one chain from `data` to the link
\* that `last` points to, and the list counts them.
WellFormed == size \in Nat /\ \E s \in [1..size -> Node] : IsChain(s)
=============================================================================
