------------------------------ MODULE SortedSet ------------------------------
(***************************************************************************)
(* What an AVL tree promises: a set of data with distinct keys, which can  *)
(* be walked through in their order while nobody changes it.               *)
(***************************************************************************)
EXTENDS Integers, FiniteSets

CONSTANTS Data,     \* records [key, tag]: data of one key are duplicates
          None

VARIABLES contents, \* the data that are in it
          ahead,    \* those the walk has still to show
          walking,
          result    \* of the last call

Least(S) == CHOOSE d \in S : \A e \in S : d.key <= e.key

Init == contents = {} /\ ahead = {} /\ walking = FALSE /\ result = None

(* a duplicate changes nothing: the caller says whether it is an error     *)
Insert(d, dup) ==
    /\ ~walking
    /\ IF \E e \in contents : e.key = d.key
       THEN result' = [rc |-> dup] /\ UNCHANGED contents
       ELSE result' = [rc |-> 0] /\ contents' = contents \cup {d}
    /\ UNCHANGED <<ahead, walking>>

Delete(d) ==
    /\ ~walking
    /\ IF \E e \in contents : e.key = d.key
       THEN result' = (CHOOSE e \in contents : e.key = d.key) /\ contents' = contents \ {result'}
       ELSE result' = None /\ UNCHANGED contents
    /\ UNCHANGED <<ahead, walking>>

First ==
    /\ walking' = (contents # {})
    /\ IF contents = {} THEN ahead' = {} /\ result' = None
       ELSE result' = Least(contents) /\ ahead' = contents \ {result'}
    /\ UNCHANGED contents

Following ==
    /\ IF ahead = {} THEN result' = None ELSE result' = Least(ahead)
    /\ ahead' = ahead \ {result'}
    /\ walking' = (ahead # {})
    /\ UNCHANGED contents

Next == \/ \E d \in Data : (\E dup \in {0, -1} : Insert(d, dup)) \/ Delete(d)
        \/ First \/ Following

Spec == Init /\ [][Next]_<<contents, ahead, walking, result>>
=============================================================================
