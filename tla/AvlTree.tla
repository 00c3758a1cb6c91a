------------------------------- MODULE AvlTree -------------------------------
(***************************************************************************)
(* The AVL trees of libavl (avl.c).  A node is a record with its data, its *)
(* balance factor and its two subtrees; what the code does for the left    *)
(* and the right in turn is written once, for a side.                      *)
(***************************************************************************)
EXTENDS Integers, SequencesExt, FiniteSetsExt

CONSTANTS Keys,     \* the keys of the data
          Doubled,  \* those that two data have
          None      \* a null pointer

(* Data are records [key, tag], compared by their keys. *)
Data == [key : Keys, tag : {1}] \cup [key : Doubled, tag : {2}]

VARIABLES root,     \* the tree
          list,     \* avl_list, empty when there is none
          nextlist, \* avl_nextlist
          result    \* of the last call

vars == <<root, list, nextlist, result>>

LH == -1
EH == 0
RH == 1

Leaf(d) == [data |-> d, bf |-> EH, left |-> [data |-> None], right |-> [data |-> None]]
Null    == [data |-> None]
Other(side) == IF side = "left" THEN "right" ELSE "left"
High(side)  == IF side = "left" THEN LH ELSE RH
Cmp(d, e)   == IF d.key < e.key THEN "left" ELSE IF d.key > e.key THEN "right" ELSE "equal"

(* ROTATELEFT and ROTATERIGHT: the subtree of a side comes to the top *)
Rotate(t, side) ==
    LET c == t[side] IN [c EXCEPT ![Other(side)] = [t EXCEPT ![side] = c[Other(side)]]]

RebalanceMut(t, side) ==
    LET o == Other(side)
        c == t[side]
        g == c[o]
        t1 == [t EXCEPT !.bf = EH]
    IN  IF c.bf = High(side) THEN Rotate([t EXCEPT !.bf = EH, ![side].bf = EH], side)
        ELSE Rotate([t EXCEPT !.bf = EH,
                              ![side] = Rotate([c EXCEPT !.bf = IF g.bf = High(o) THEN High(side) ELSE EH, ![o].bf = EH], o)], side)

(* a tree that is two higher on a side: one rotation, or two if the        *)
(* subtree is higher on the other side *)
Rebalance(t, side) ==
    LET o == Other(side)
        c == t[side]
        g == c[o]
    IN  IF c.bf = High(side) THEN Rotate([t EXCEPT !.bf = EH, ![side].bf = EH], side)
        ELSE Rotate([t EXCEPT !.bf = IF g.bf = High(side) THEN High(o) ELSE EH,
                              ![side] = Rotate([c EXCEPT !.bf = IF g.bf = High(o) THEN High(side) ELSE EH, ![o].bf = EH], o)], side)

(* what ravl_insert does after a subtree has become taller; that the       *)
(* subtree is even then "should never happen" *)
Grown(t, side) ==
    CASE t.bf = High(Other(side)) -> [root |-> [t EXCEPT !.bf = EH], taller |-> FALSE]
      [] t.bf = EH                -> [root |-> [t EXCEPT !.bf = High(side)], taller |-> TRUE]
      [] t.bf = High(side)        -> [root |-> IF t[side].bf = EH THEN t ELSE Rebalance(t, side), taller |-> FALSE]

RECURSIVE RavlInsert(_, _, _)
RavlInsert(t, d, dup) ==
    IF t = Null THEN [root |-> Leaf(d), taller |-> TRUE, rc |-> 0]
    ELSE LET side == Cmp(d, t.data)
             sub  == RavlInsert(t[side], d, dup)
             with == [t EXCEPT ![side] = sub.root]
         IN  IF side = "equal" THEN [root |-> t, taller |-> FALSE, rc |-> dup]
             ELSE (IF sub.taller THEN Grown(with, side) ELSE [root |-> with, taller |-> FALSE]) @@ [rc |-> sub.rc]

(* left_balance, right_balance: the subtree of a side has become shorter *)
Shrunk(t, side) ==
    LET o == Other(side)
    IN  CASE t.bf = High(side) -> [root |-> [t EXCEPT !.bf = EH], shorter |-> TRUE]
          [] t.bf = EH         -> [root |-> [t EXCEPT !.bf = High(o)], shorter |-> FALSE]
          [] t.bf = High(o)    ->
               IF t[o].bf = EH
               THEN [root |-> Rotate([t EXCEPT !.bf = High(o), ![o].bf = High(side)], o), shorter |-> FALSE]
               ELSE [root |-> Rebalance(t, o), shorter |-> TRUE]

RECURSIVE LeftMost(_), SwapLeftMost(_, _), RavlDelete(_, _)
LeftMost(t) == IF t.left = Null THEN t.data ELSE LeftMost(t.left)
SwapLeftMost(t, d) == IF t.left = Null THEN [t EXCEPT !.data = d] ELSE [t EXCEPT !.left = SwapLeftMost(t.left, d)]

(* a node with two subtrees swaps its data with the smallest of the right  *)
(* one, from which it is then deleted *)
RavlDelete(t, d) ==
    IF t = Null THEN [root |-> t, shorter |-> FALSE, data |-> None]
    ELSE LET cmp   == Cmp(d, t.data)
             two   == cmp = "equal" /\ t.left # Null /\ t.right # Null
             side  == IF cmp = "equal" THEN "right" ELSE cmp
             from  == IF two THEN [t EXCEPT !.data = LeftMost(t.right), !.right = SwapLeftMost(t.right, t.data)] ELSE t
             sub   == RavlDelete(from[side], d)
             with  == [from EXCEPT ![side] = sub.root]
         IN  IF cmp = "equal" /\ t.left = Null THEN [root |-> t.right, shorter |-> TRUE, data |-> t.data]
             ELSE IF cmp = "equal" /\ t.right = Null THEN [root |-> t.left, shorter |-> TRUE, data |-> t.data]
             ELSE (IF sub.shorter THEN Shrunk(with, side) ELSE [root |-> with, shorter |-> FALSE]) @@ [data |-> sub.data]

-----------------------------------------------------------------------------
(* Walks: the data that are visited before and including one that says     *)
(* stop *)
Then(a, b)     == IF a.stopped THEN a ELSE [seen |-> a.seen \o b.seen, stopped |-> b.stopped]

Visit(d, stop) == [seen |-> <<d>>, stopped |-> d \in stop]
NoMore         == [seen |-> <<>>, stopped |-> FALSE]

RECURSIVE Apply(_, _, _), PrefixApply(_, _, _), Find(_, _), FindLin(_, _), Free(_)
(* avl_apply *)
Apply(t, order, stop) ==
    IF t = Null THEN NoMore
    ELSE LET l == Apply(t.left, order, stop)
             v == Visit(t.data, stop)
             r == Apply(t.right, order, stop)
         IN  CASE order = "in"   -> Then(Then(l, v), r)
               [] order = "pre"  -> Then(Then(v, l), r)
               [] order = "post" -> Then(Then(l, r), v)

(* avl_prefixapply: cmp tells where from a node the matching data are *)
PrefixApply(t, cmp, stop) ==
    IF t = Null THEN NoMore
    ELSE LET l == PrefixApply(t.left, cmp, stop)
             r == PrefixApply(t.right, cmp, stop)
         IN  CASE cmp[t.data] = "equal" -> Then(Then(Visit(t.data, stop), l), r)
               [] cmp[t.data] = "left"  -> l
               [] cmp[t.data] = "right" -> r

(* avl_find, avl_find_lin, avl_free *)
Find(t, d) == IF t = Null THEN None
              ELSE IF Cmp(d, t.data) = "equal" THEN t.data ELSE Find(t[Cmp(d, t.data)], d)

FindLin(t, d) == IF t = Null THEN None
                 ELSE IF Cmp(d, t.data) = "equal" THEN t.data
                 ELSE IF FindLin(t.left, d) # None THEN FindLin(t.left, d) ELSE FindLin(t.right, d)

Free(t) == IF t = Null THEN 0 ELSE Free(t.left) + Free(t.right) + 1

-----------------------------------------------------------------------------
Init == root = Null /\ list = <<>> /\ nextlist = 0 /\ result = None

(* avl_insert, avl_delete.  "The tree should not be messed with while being *)
(* traversed": the caller has come to the end of its list. *)
Insert(d, dup) ==
    /\ list = <<>>
    /\ root' = RavlInsert(root, d, dup).root
    /\ result' = [rc |-> RavlInsert(root, d, dup).rc]
    /\ UNCHANGED <<list, nextlist>>

Delete(d) ==
    /\ list = <<>>
    /\ root' = RavlDelete(root, d).root
    /\ result' = RavlDelete(root, d).data
    /\ UNCHANGED <<list, nextlist>>

(* avl_getfirst, avl_getnext *)
GetFirst ==
    /\ list' = Apply(root, "in", {}).seen
    /\ IF root = Null THEN nextlist' = 0 /\ result' = None
       ELSE nextlist' = 1 /\ result' = list'[1]
    /\ UNCHANGED root

GetNextMut ==
    /\ IF list = <<>> \/ nextlist + 1 >= Len(list)
       THEN list' = <<>> /\ result' = None /\ UNCHANGED nextlist
       ELSE nextlist' = nextlist + 1 /\ result' = list[nextlist'] /\ UNCHANGED list
    /\ UNCHANGED root

GetNext ==
    /\ IF list = <<>> \/ nextlist = Len(list)
       THEN list' = <<>> /\ result' = None /\ UNCHANGED nextlist
       ELSE nextlist' = nextlist + 1 /\ result' = list[nextlist'] /\ UNCHANGED list
    /\ UNCHANGED root

Next == \/ \E d \in Data : (\E dup \in {0, -1} : Insert(d, dup)) \/ Delete(d)
        \/ GetFirst \/ GetNext

Spec == Init /\ [][Next]_vars
-----------------------------------------------------------------------------
RECURSIVE Height(_), Elements(_), FactorsExact(_)
Height(t)   == IF t = Null THEN 0 ELSE 1 + Max({Height(t.left), Height(t.right)})
Elements(t) == IF t = Null THEN {} ELSE Elements(t.left) \cup {t.data} \cup Elements(t.right)
FactorsExact(t) == t = Null \/ /\ t.bf = Height(t.right) - Height(t.left) /\ t.bf \in {LH, EH, RH}
                               /\ FactorsExact(t.left) /\ FactorsExact(t.right)

(* Each balance factor is the difference of the heights below it, at most  *)
(* one, after any sequence of insertions and deletions: the rotations of   *)
(* ravl_insert, left_balance and right_balance.                            *)
Balanced == FactorsExact(root)

(* The searches and walks through the tree agree with its set: each finds  *)
(* a key wherever it is, a walk visits every datum once, in order, up to   *)
(* the one that stops it, and a walk by prefix those that match.           *)
Range2(lo, hi) == [d \in Data |-> IF hi < d.key THEN "left" ELSE IF lo > d.key THEN "right" ELSE "equal"]
FindsExact ==
    LET all == Elements(root)
        has(d) == {e \in all : e.key = d.key}
        first(s, stop) == {i \in DOMAIN s : \A j \in 1..i - 1 : s[j] \notin stop}
    IN  /\ \A d \in Data : /\ Find(root, d) = FindLin(root, d)
                           /\ Find(root, d) \in IF has(d) = {} THEN {None} ELSE has(d)
        /\ \A order \in {"in", "pre", "post"} :
             LET walk == Apply(root, order, {}).seen
             IN  /\ Range(walk) = all /\ Len(walk) = Free(root)
                 /\ \A d \in all : Apply(root, order, {d}).seen = SubSeq(walk, 1, Cardinality(first(walk, {d})))
        /\ \A d, e \in all :
             LET walk == PrefixApply(root, Range2(d.key, e.key), {}).seen
             IN  /\ IsInjective(walk)
                 /\ Range(walk) = {x \in all : d.key <= x.key /\ x.key <= e.key}

(* What a tree promises after any sequence of operations: avl.c.           *)
TreeExact == Balanced /\ FindsExact

(* The tree is a set that is walked through in order: SortedSet. *)
Sorted == INSTANCE SortedSet WITH
              contents <- Elements(root),
              ahead <- {list[i] : i \in nextlist + 1..Len(list)},
              walking <- list # <<>>
SortedSpec == Sorted!Spec
=============================================================================
