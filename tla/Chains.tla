------------------------------- MODULE Chains --------------------------------
(***************************************************************************)
(* What struct _lke and struct _lkee have in common: links in chains, one  *)
(* chain to a bucket. A table is a function on 0..n-1; a chain is the      *)
(* sequence of its links, the first being the one that the bucket points   *)
(* to. A new link comes to the front; a loop over a table goes through the *)
(* chains in the order of the buckets.                                     *)
(***************************************************************************)
EXTENDS Integers, Sequences, Functions

Empty(n) == [i \in 0..(n - 1) |-> <<>>]
LinksOf(table) == UNION {Range(table[i]) : i \in DOMAIN table}

\* The first of some positions, where a search along a chain ends
First(positions) == {j \in positions : \A k \in positions : j <= k}

\* link->next = table[i]; table[i] = link
Pushed(table, i, link) == [table EXCEPT ![i] = <<link>> \o @]

\* *place = (*place)->next, for the j-th place of the chain
Unlinked(table, i, j) ==
    [table EXCEPT ![i] = SubSeq(@, 1, j - 1) \o SubSeq(@, j + 1, Len(@))]

\* The links of a table of n buckets, as two nested loops come to them
Walk(table, n) ==
    LET walked[i \in 0..n] == IF i = 0 THEN <<>> ELSE walked[i - 1] \o table[i - 1]
    IN  walked[n]

\* Every link on the way is moved to the front of a chain among n new ones,
\* the k-th link to the chain of its slot
Relinked(order, slot, n) ==
    LET moved[k \in 0..Len(order)] ==
            IF k = 0 THEN Empty(n) ELSE Pushed(moved[k - 1], slot[k], order[k])
    IN  moved[Len(order)]
=============================================================================
