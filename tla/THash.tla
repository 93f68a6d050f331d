-------------------------------- MODULE THash --------------------------------
(***************************************************************************)
(* THash (sh_tinyhash.h): a hash table that doubles its buckets when three  *)
(* quarters of them have a list.  A bucket's list of nodes is a sequence    *)
(* here, as module List shows it may be.  HashFunction is the identity on   *)
(* natural numbers, so that bounded keys collide and part again.            *)
(***************************************************************************)
EXTENDS Calls
LOCAL INSTANCE SequencesExt
LOCAL INSTANCE FiniteSets
LOCAL INSTANCE TLC

CONSTANTS HashKeys, HashVals,
          DefaultVal,   \* V()
          InitBuckets,  \* _T_INIT_HASH_SIZE (32)
          MaxBuckets    \* bound: buckets of a table that is copied

ASSUME HashAssumption == /\ HashKeys \subseteq Nat /\ HashVals \subseteq Nat
                         /\ DefaultVal \in HashVals /\ InitBuckets \in Nat \ {0}
                         /\ MaxBuckets \in Nat

VARIABLE hash    \* [h: a hash table, call, met: the nodes a walk over it then meets]

NoList == <<Garbage>>

HashFunction(key) == key
Place(key, num)   == HashFunction(key) % num

\* m_percentUsed is the number of lists (lists) over that of buckets: it changes by
\* 1/m_numBuckets and starts again from 0 whenever m_numBuckets changes.
EmptyBuckets(num) == [b \in 0..(num - 1) |-> NoList]
NewHash == [num |-> InitBuckets, buckets |-> EmptyBuckets(InitBuckets), lists |-> 0,
            node |-> <<>>]

\* node: what is allocated, from node ids to key and val.
WithNode(nodes, id, key, val) == (id :> [key |-> key, val |-> val]) @@ nodes
WithoutNodes(nodes, ids) == [n \in DOMAIN nodes \ ids |-> nodes[n]]

\* A node put at the end of the bucket of its key, which gets a list if need be.
Bucketed(h, id) ==
    LET place == Place(h.node[id].key, h.num) IN
    IF h.buckets[place] = NoList
    THEN [h EXCEPT !.buckets[place] = <<id>>, !.lists = @ + 1]
    ELSE [h EXCEPT !.buckets[place] = Append(@, id)]

\* The nodes of the buckets from one on, in the order of the table.
RECURSIVE NodesFrom(_, _)
NodesFrom(h, b) ==
    IF b >= h.num THEN <<>>
    ELSE (IF h.buckets[b] = NoList THEN <<>> ELSE h.buckets[b]) \o NodesFrom(h, b + 1)

_Refactor(h) ==
    IF h.num = 0 THEN [NewHash EXCEPT !.node = h.node]
    ELSE FoldLeft(Bucketed, [h EXCEPT !.num = 2 * @, !.lists = 0,
                                      !.buckets = EmptyBuckets(2 * h.num)], NodesFrom(h, 0))

_Clear(h) ==
    [h EXCEPT !.buckets = EmptyBuckets(0), !.num = 0,
              !.node = WithoutNodes(@, ToSet(NodesFrom(h, 0)))]

HashClear(h) == _Refactor(_Clear(h))

\* [h, id]: the table with the node of a key in it.
InList(h, key) ==
    LET list == h.buckets[Place(key, h.num)] IN
    IF list = NoList THEN {} ELSE {id \in ToSet(list) : h.node[id].key = key}

_FindOrInsert(h, key) ==
    LET id    == FreshId(DOMAIN h.node)
        added == Bucketed([h EXCEPT !.node = WithNode(@, id, key, DefaultVal)], id)
    IN IF InList(h, key) # {} THEN [h |-> h, id |-> CHOOSE n \in InList(h, key) : TRUE]
       ELSE [h |-> IF 4 * added.lists > 3 * added.num THEN _Refactor(added) ELSE added, id |-> id]

\* AltFindOrInsert: the same for a key of another type; HashAlt and CompareAlt
\* agree with HashFunction and Compare.
AltFindOrInsert(h, ukey) == _FindOrInsert(h, ukey)

\* hash[key] = val, through the reference operator[] returns.
Set(h, key, val) == LET f == _FindOrInsert(h, key) IN [f.h EXCEPT !.node[f.id].val = val]

-----------------------------------------------------------------------------
\* iterator: a bucket and a place in its list, or the end.
EndIter == [curbucket |-> -1, iter |-> 0, end |-> TRUE]

\* The first element of the first list after a bucket that has one.
NextBucket(h, after) ==
    LET full == {b \in (after + 1)..(h.num - 1) : h.buckets[b] \notin {NoList, <<>>}} IN
    IF full = {} THEN EndIter
    ELSE [curbucket |-> CHOOSE b \in full : \A c \in full : b <= c, iter |-> 1, end |-> FALSE]

_Inc(h, it) ==
    IF it.end THEN it
    ELSE IF it.curbucket >= 0 /\ it.iter < Len(h.buckets[it.curbucket])
         THEN [it EXCEPT !.iter = @ + 1]
    ELSE NextBucket(h, it.curbucket)

Begin(h) == _Inc(h, [EndIter EXCEPT !.end = FALSE])

NodeAt(h, it) == h.buckets[it.curbucket][it.iter]

\* erase moves an iterator on and deletes the node it was at.  An iterator that
\* is after that node in the same list then is one place nearer to its beginning.
EraseAt(h, it) ==
    LET next == _Inc(h, it) IN
    IF it.end THEN [h |-> h, it |-> it]
    ELSE [h  |-> [h EXCEPT !.buckets[it.curbucket] = RemoveAt(@, it.iter),
                           !.node = WithoutNodes(@, {NodeAt(h, it)})],
          it |-> IF next.curbucket = it.curbucket THEN it ELSE next]

RECURSIVE WalkFrom(_, _)
WalkFrom(h, it) == IF it.end THEN <<>> ELSE <<NodeAt(h, it)>> \o WalkFrom(h, _Inc(h, it))
Walk(h) == WalkFrom(h, Begin(h))

\* for (it = begin(); it != end(); ) erases the entries with one value.
RECURSIVE SweepFrom(_, _, _)
SweepFrom(h, it, val) ==
    IF it.end THEN h
    ELSE IF h.node[NodeAt(h, it)].val = val
         THEN LET erased == EraseAt(h, it) IN SweepFrom(erased.h, erased.it, val)
         ELSE SweepFrom(h, _Inc(h, it), val)
Sweep(h, val) == SweepFrom(h, Begin(h), val)

\* find walks the whole table.
RECURSIVE FindFrom(_, _, _)
FindFrom(h, it, key) ==
    IF it.end \/ h.node[NodeAt(h, it)].key = key THEN it ELSE FindFrom(h, _Inc(h, it), key)
HashFind(h, key) == FindFrom(h, Begin(h), key)

HashErase(h, key) == EraseAt(h, HashFind(h, key)).h

\* The copy starts with the percentage of the other and counts its lists again.
HashCopy(other) ==
    LET Insert(h, id) == Set(h, other.node[id].key, other.node[id].val)
    IN FoldLeft(Insert, [NewHash EXCEPT !.num = other.num, !.lists = other.lists,
                                        !.buckets = EmptyBuckets(other.num)], Walk(other))

HashAssign(h, other) ==
    LET Insert(g, id) == Set(g, other.node[id].key, other.node[id].val)
    IN FoldLeft(Insert, HashClear(h), Walk(other))

-----------------------------------------------------------------------------
\* The nodes of a walk, by value.
Met(h) == LET ids == Walk(h) IN [k \in DOMAIN ids |-> h.node[ids[k]]]

HashInit == hash = [h |-> NewHash, call |-> Call("new", 0, 0), met |-> <<>>]

HashDo(op, key, val, h) == hash' = [h |-> h, call |-> Call(op, key, val), met |-> Met(h)]

AnyKey == CHOOSE k \in HashKeys : TRUE

HashNext ==
    \/ \E k \in HashKeys, v \in HashVals : HashDo("set", k, v, Set(hash.h, k, v))
    \/ \E k \in HashKeys : HashDo("get", k, DefaultVal, AltFindOrInsert(hash.h, k).h)
    \/ \E k \in HashKeys : HashDo("erase", k, DefaultVal, HashErase(hash.h, k))
    \/ \E v \in HashVals : HashDo("sweep", AnyKey, v, Sweep(hash.h, v))
    \/ HashDo("clear", AnyKey, DefaultVal, HashClear(hash.h))
    \/ hash.h.num <= MaxBuckets /\ HashDo("copy", AnyKey, DefaultVal, HashCopy(hash.h))
    \/ HashDo("copy", AnyKey, DefaultVal, HashAssign(NewHash, hash.h))

HashSpec == HashInit /\ [][HashNext]_hash

HashAsDictionary == INSTANCE Dictionary WITH Keys <- HashKeys, Values <- HashVals,
    DefaultValue <- DefaultVal, count <- Len(hash.met), call <- hash.call,
    dict <- [k \in {n.key : n \in ToSet(hash.met)} |->
               (CHOOSE n \in ToSet(hash.met) : n.key = k).val]
HashIsADictionary == HashAsDictionary!DictionarySpec

\* A reference hash[key] gave out is good until the entry is erased, whatever is
\* added: the nodes move between buckets, not in memory.
HashStaysPut ==
    hash'.call.op \in {"set", "get", "erase", "sweep"} =>
      \A id \in DOMAIN hash.h.node :
        LET key == hash.h.node[id].key IN
        key \in {hash'.h.node[n].key : n \in DOMAIN hash'.h.node} =>
          id \in DOMAIN hash'.h.node /\ hash'.h.node[id].key = key
=============================================================================
