--------------------------------- MODULE List ---------------------------------
(***************************************************************************)
(* List (sh_list.h): a circular, doubly linked list with one sentinel node. *)
(* An iterator is a node; it stays good until its node is erased.           *)
(***************************************************************************)
EXTENDS Calls
LOCAL INSTANCE SequencesExt

CONSTANTS Objs,      \* elements, in the order push_sorted keeps
          MaxNodes   \* bound: nodes of a list

ASSUME ListAssumption == Objs \subseteq Nat /\ MaxNodes \in Nat

VARIABLE lst    \* [l: a list, call, ret]

Sentinel == 0
Freed    == -1
Nodes    == 1..MaxNodes

EmptyList ==
    [next |-> [n \in {Sentinel} \cup Nodes |-> IF n = Sentinel THEN Sentinel ELSE Freed],
     prev |-> [n \in {Sentinel} \cup Nodes |-> IF n = Sentinel THEN Sentinel ELSE Freed],
     obj  |-> [n \in Nodes |-> Garbage],
     size |-> 0]

\* The nodes from n to the sentinel along a link; fuel stops a torn list.
RECURSIVE Along(_, _, _)
Along(link, n, fuel) ==
    IF n = Sentinel THEN <<>>
    ELSE IF n = Freed \/ fuel = 0 THEN Torn
    ELSE <<n>> \o Along(link, link[n], fuel - 1)

Forward(l)  == Along(l.next, l.next[Sentinel], MaxNodes)
Backward(l) == Along(l.prev, l.prev[Sentinel], MaxNodes)

ListContents(l) ==
    LET nodes == Forward(l) IN
    IF Backward(l) = Reverse(nodes) /\ nodes # Torn
    THEN [k \in DOMAIN nodes |-> l.obj[nodes[k]]] ELSE Torn

\* begin() advanced at times; the sentinel is end().
IterAt(l, at) == IF at < l.size THEN Forward(l)[at + 1] ELSE Sentinel

NewNode(l) == FreshId({n \in Nodes : l.next[n] # Freed})

ListPushBack(l, obj) ==
    LET node == NewNode(l)  last == l.prev[Sentinel] IN
    [obj  |-> [l.obj EXCEPT ![node] = obj],
     prev |-> [l.prev EXCEPT ![node] = last, ![Sentinel] = node],
     next |-> [[l.next EXCEPT ![node] = Sentinel] EXCEPT ![last] = node],
     size |-> l.size + 1]

\* insert: obj right before where.
ListInsertNextOnly(l, where, obj) ==                            \* mutant
    LET node == NewNode(l) IN
    [obj  |-> [l.obj EXCEPT ![node] = obj],
     prev |-> [l.prev EXCEPT ![node] = l.prev[where]],
     next |-> [[l.next EXCEPT ![l.prev[where]] = node] EXCEPT ![node] = where],
     size |-> l.size + 1]

ListInsert(l, where, obj) ==
    LET node == NewNode(l) IN
    [obj  |-> [l.obj EXCEPT ![node] = obj],
     prev |-> [l.prev EXCEPT ![node] = l.prev[where], ![where] = node],
     next |-> [[l.next EXCEPT ![l.prev[where]] = node] EXCEPT ![node] = where],
     size |-> l.size + 1]

ListPushFront(l, obj) == ListInsert(l, l.next[Sentinel], obj)

\* Before the first larger element, at the end if there is none.
ListPushSorted(l, obj) ==
    LET nodes == Forward(l)
        k == SelectInSeq(nodes, LAMBDA n : obj < l.obj[n])
    IN IF k = 0 THEN ListPushBack(l, obj) ELSE ListInsert(l, nodes[k], obj)

ListErase(l, node) ==
    [obj  |-> [l.obj EXCEPT ![node] = Garbage],
     next |-> [[l.next EXCEPT ![l.prev[node]] = l.next[node]] EXCEPT ![node] = Freed],
     prev |-> [[l.prev EXCEPT ![l.next[node]] = l.prev[node]] EXCEPT ![node] = Freed],
     size |-> l.size - 1]

ListFind(l, obj) ==
    LET nodes == Forward(l)  k == SelectInSeq(nodes, LAMBDA n : l.obj[n] = obj)
    IN IF k = 0 THEN Sentinel ELSE nodes[k]

\* remove: the first element equal to obj.
ListRemove(l, obj) == IF ListFind(l, obj) = Sentinel THEN l ELSE ListErase(l, ListFind(l, obj))

\* clear closes the sentinel, then deletes the nodes it led to.
ListClear(l) ==
    [next |-> [n \in DOMAIN l.next |-> IF n = Sentinel THEN Sentinel
                                       ELSE IF Contains(Forward(l), n) THEN Freed ELSE l.next[n]],
     prev |-> [n \in DOMAIN l.prev |-> IF n = Sentinel THEN Sentinel
                                       ELSE IF Contains(Forward(l), n) THEN Freed ELSE l.prev[n]],
     obj  |-> [n \in Nodes |-> IF Contains(Forward(l), n) THEN Garbage ELSE l.obj[n]],
     size |-> 0]

ListCopy(src) == FoldLeft(ListPushBack, EmptyList, ListContents(src))

ListAssign(l, src) == FoldLeft(ListPushBack, ListClear(l), ListContents(src))

-----------------------------------------------------------------------------
ListInit == lst = [l |-> EmptyList, call |-> Call("new", 0, 0), ret |-> NoIter]

ListDid(call, l, ret) == lst' = [l |-> l, call |-> call, ret |-> ret]
ListDo(op, at, val, l, ret) == ListDid(Call(op, at, val), l, ret)

ListHasRoom == lst.l.size < MaxNodes

\* The position of the node an iterator refers to.
PositionOf(l, node) == LET k == SelectInSeq(Forward(l), LAMBDA n : n = node)
                       IN IF k = 0 THEN l.size ELSE k - 1

ListNext ==
    \/ ListHasRoom /\ \E o \in Objs :
         \/ ListDo("push_back", 0, o, ListPushBack(lst.l, o), NoIter)
         \/ ListDo("push_front", 0, o, ListPushFront(lst.l, o), NoIter)
         \/ ListDo("push_sorted", 0, o, ListPushSorted(lst.l, o), NoIter)
         \/ \E at \in 0..lst.l.size :
              LET node == NewNode(lst.l)  l == ListInsert(lst.l, IterAt(lst.l, at), o)
              IN ListDo("insert", at, o, l, PositionOf(l, node))
    \/ \E at \in 0..(lst.l.size - 1) :
         LET node == IterAt(lst.l, at)  l == ListErase(lst.l, node)
         IN ListDo("erase", at, 0, l, PositionOf(l, lst.l.next[node]))
    \/ \E o \in Objs : ListDo("remove", 0, o, ListRemove(lst.l, o), NoIter)
    \/ ListDo("clear", 0, 0, ListClear(lst.l), NoIter)
    \/ ListDo("copy", 0, 0, ListCopy(lst.l), NoIter)
    \/ \E o \in Objs :
         LET src == ListPushBack(ListPushBack(EmptyList, o), o)
         IN ListDid(Assignment(ListContents(src)), ListAssign(lst.l, src), NoIter)

ListSpec == ListInit /\ [][ListNext]_lst

ListAsCollection == INSTANCE Collection WITH Values <- Objs \cup {0},
    contents <- ListContents(lst.l), size <- lst.l.size, call <- lst.call, ret <- lst.ret
ListIsASequence == ListAsCollection!CollectionSpec

\* A node that is in the list before and after a call keeps its element.
ListStaysPut ==
    lst'.call.op \notin {"clear", "copy", "assign"} =>
      \A n \in Nodes : Contains(Forward(lst.l), n) /\ Contains(Forward(lst'.l), n) =>
        lst'.l.obj[n] = lst.l.obj[n]
=============================================================================
