------------------------------ MODULE HashMap -------------------------------
(***************************************************************************)
(* hashmap_t. An entry is found by the hash of its text, in the bucket     *)
(* hash % capacity; a map with more than two entries to a bucket gets new  *)
(* buckets.                                                                *)
(***************************************************************************)
EXTENDS Chains, FiniteSets

CONSTANTS
    String,        \* addresses of strings
    Text(_),       \* what stands there
    Hash(_),       \* hash() of a text
    Value,
    None,          \* the null pointer
    FirstCapacity  \* 8

VARIABLES buckets, capacity, size, result

Entry == [str : String, value : Value]
Index(s, n) == Hash(Text(s)) % n
\* What a call returns, and for which string
Return(s, r) == result' = [str |-> s, is |-> r]
Held == LinksOf(buckets)

hm_make ==
    /\ buckets = Empty(FirstCapacity)
    /\ capacity = FirstCapacity
    /\ size = 0
    /\ result = None

\* The chain where s is looked for, and the place where it is found by its text
\* or by its address
Bucket(s) == buckets[Index(s, capacity)]
ByText(s) == First({j \in DOMAIN Bucket(s) : Text(Bucket(s)[j].str) = Text(s)})
ByAddress(s) == First({j \in DOMAIN Bucket(s) : Bucket(s)[j].str = s})

hm_get(s) ==
    /\ \/ \E j \in ByText(s) : Return(s, Bucket(s)[j])
       \/ ByText(s) = {} /\ Return(s, None)
    /\ UNCHANGED <<buckets, capacity, size>>

GrownCapacity(n) == (n * 4) \div 3

\* Mutant: the capacity stays
hm_rehash_KeepsCapacity(table) ==
    LET order == Walk(table, capacity)
        n     == GrownCapacity(size')
    IN  /\ buckets' = Relinked(order, [k \in DOMAIN order |-> Index(order[k].str, n)], n)
        /\ capacity' = capacity

\* Mutant: the links keep the indices that they have
hm_rehash_OldIndex(table) ==
    LET order == Walk(table, capacity)
        n     == GrownCapacity(size')
    IN  /\ buckets' = Relinked(order, [k \in DOMAIN order |-> Index(order[k].str, capacity)], n)
        /\ capacity' = n

\* The new capacity is that for the entries counted so far
hm_rehash(table) ==
    LET order == Walk(table, capacity)
        n     == GrownCapacity(size')
    IN  /\ buckets' = Relinked(order, [k \in DOMAIN order |-> Index(order[k].str, n)], n)
        /\ capacity' = n

\* An entry that is there keeps its string
Replace(s, v) ==
    \E j \in ByText(s) :
        /\ buckets' = [buckets EXCEPT ![Index(s, capacity)][j].value = v]
        /\ Return(s, Bucket(s)[j].value)
        /\ UNCHANGED <<capacity, size>>

Added(s, v) == Pushed(buckets, Index(s, capacity), [str |-> s, value |-> v])

Insert(s, v) ==
    /\ ByText(s) = {}
    /\ size' = size + 1
    /\ Return(s, None)
    /\ \/ size + 1 > 2 * capacity /\ hm_rehash(Added(s, v))
       \/ size + 1 <= 2 * capacity /\ buckets' = Added(s, v) /\ capacity' = capacity

hm_put(s, v) == Replace(s, v) \/ Insert(s, v)

\* An entry is erased by the string it holds, not by an equal one
hm_erase(s) ==
    \/ \E j \in ByAddress(s) :
          /\ buckets' = Unlinked(buckets, Index(s, capacity), j)
          /\ size' = size - 1
          /\ Return(s, Bucket(s)[j])
          /\ UNCHANGED capacity
    \/ /\ ByAddress(s) = {}
       /\ Return(s, None)
       /\ UNCHANGED <<buckets, capacity, size>>

-----------------------------------------------------------------------------
(* Properties *)

MapTypeOK ==
    /\ capacity \in Nat \ {0}
    /\ buckets \in [0..(capacity - 1) -> Seq(Entry)]
    /\ size \in Nat

\* util.c:33, :123: an entry that is in the map is in the bucket where it is
\* looked for, also after the buckets were exchanged for others.
InItsBucket ==
    \A i \in 0..(capacity - 1) : \A e \in Range(buckets[i]) : Index(e.str, capacity) = i

\* util.c:130: a text has one entry, which every string with that text finds
OneEntryEach == \A e, f \in Held : Text(e.str) = Text(f.str) => e = f

\* util.c:144-155: the count that decides when to rehash is that of the entries
SizeCounts == size = Cardinality(Held)
=============================================================================
