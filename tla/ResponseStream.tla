--------------------------- MODULE ResponseStream ---------------------------
(***************************************************************************)
(* What ldap_result promises about the responses of an operation: they are *)
(* a stream.  Responses join it in the order in which the server sends     *)
(* them, the application takes them from its head, one or all at a time,   *)
(* and once the operation is gone (abandoned, or the session closed) it    *)
(* gets no more of them.                                                   *)
(***************************************************************************)
EXTENDS Integers, Sequences

CONSTANT Ops

VARIABLES
    box,      \* per operation: the responses sent and not yet handed out
    handed,   \* per operation: the responses handed out
    gone      \* the operations that are over for the application

vars == <<box, handed, gone>>

Init ==
    /\ box = [op \in Ops |-> <<>>] /\ handed = [op \in Ops |-> <<>>]
    /\ gone = {}

Arrive(op) ==
    /\ op \notin gone
    /\ box' = [box EXCEPT ![op] = Append(@, Len(handed[op]) + Len(@) + 1)]
    /\ UNCHANGED <<handed, gone>>

Hand(op, count) ==
    /\ op \notin gone /\ count \in {1, Len(box[op])} /\ count <= Len(box[op])
    /\ handed' = [handed EXCEPT ![op] = @ \o SubSeq(box[op], 1, count)]
    /\ box' = [box EXCEPT ![op] = SubSeq(@, count + 1, Len(@))]
    /\ UNCHANGED gone

Drop(ops) ==
    /\ gone' = gone \cup ops
    /\ box' = [op \in Ops |-> IF op \in ops THEN <<>> ELSE box[op]]
    /\ UNCHANGED handed

Next ==
    \/ \E op \in Ops : Arrive(op) \/ \E count \in 1..Len(box[op]) : Hand(op, count)
    \/ \E op \in Ops : Drop({op})
    \/ Drop(Ops)

Spec == Init /\ [][Next]_vars
=============================================================================
