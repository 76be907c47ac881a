------------------------------ MODULE HashSet -------------------------------
(***************************************************************************)
(* hashset_t: the buckets of HashMap without values. hs_put does not look  *)
(* for the string first, so a chain may hold it several times; hs_erase    *)
(* takes one of them and leaves the count as it is. A link is named by the *)
(* put that allocated it.                                                  *)
(***************************************************************************)
EXTENDS Chains, FiniteSets

CONSTANTS String, Text(_), Hash(_), None, FirstCapacity   \* as in HashMap

VARIABLES buckets, capacity, size, result

Link == [str : String, put : Nat]
Index(s, n) == Hash(Text(s)) % n
Held == LinksOf(buckets)

hs_make ==
    /\ buckets = Empty(FirstCapacity)
    /\ capacity = FirstCapacity
    /\ size = 0
    /\ result = None

Bucket(s) == buckets[Index(s, capacity)]

hs_contains(s) ==
    /\ result' = [str |-> s, is |-> \E j \in DOMAIN Bucket(s) : Text(Bucket(s)[j].str) = Text(s)]
    /\ UNCHANGED <<buckets, capacity, size>>

GrownCapacity(n) == (n * 4) \div 3

\* Mutant: the rest of the chain is read after its first link was moved
hs_rehash_Torn(table) ==
    LET first == [i \in DOMAIN table |-> IF table[i] = <<>> THEN <<>> ELSE <<Head(table[i])>>]
        order == Walk(first, capacity)
        n     == GrownCapacity(size')
    IN  /\ buckets' = Relinked(order, [k \in DOMAIN order |-> Index(order[k].str, n)], n)
        /\ capacity' = n

\* The new capacity is that for the puts counted so far
hs_rehash(table) ==
    LET order == Walk(table, capacity)
        n     == GrownCapacity(size')
    IN  /\ buckets' = Relinked(order, [k \in DOMAIN order |-> Index(order[k].str, n)], n)
        /\ capacity' = n

Added(s) == Pushed(buckets, Index(s, capacity), [str |-> s, put |-> size + 1])

\* Mutant: the rehash waits for a third entry to each bucket
hs_put_Late(s) ==
    /\ size' = size + 1
    /\ result' = None
    /\ \/ size + 1 > 3 * capacity /\ hs_rehash(Added(s))
       \/ size + 1 <= 3 * capacity /\ buckets' = Added(s) /\ UNCHANGED capacity

hs_put(s) ==
    /\ size' = size + 1
    /\ result' = None
    /\ \/ size + 1 > 2 * capacity /\ hs_rehash(Added(s))
       \/ size + 1 <= 2 * capacity /\ buckets' = Added(s) /\ UNCHANGED capacity

\* The first link that holds this very string
hs_erase(s) ==
    LET places == First({j \in DOMAIN Bucket(s) : Bucket(s)[j].str = s})
    IN  /\ \/ \E j \in places : buckets' = Unlinked(buckets, Index(s, capacity), j)
           \/ places = {} /\ UNCHANGED buckets
        /\ result' = None
        /\ UNCHANGED <<capacity, size>>

-----------------------------------------------------------------------------
(* Properties *)

SetTypeOK ==
    /\ capacity \in Nat \ {0}
    /\ buckets \in [0..(capacity - 1) -> Seq(Link)]
    /\ size \in Nat

\* util.c:47: chains stay short on average although erasing does not count down
NotCrowded == Cardinality(Held) <= 2 * capacity
=============================================================================
