----------------------------- MODULE TaskQueue ------------------------------
(***************************************************************************)
(* What a pool of libldap_r promises its users, whatever its threads do:   *)
(* tasks are taken in the order they were accepted, each once; a pool that *)
(* is destroyed with run_pending runs everything it accepted; no task is   *)
(* running when the pool is gone.                                          *)
(***************************************************************************)
EXTENDS Sequences, SequencesExt

CONSTANT Tasks

VARIABLES
    life,      \* "running", "finishing", "stopping" or "freed"
    queue,     \* the accepted tasks, first come first
    busy,      \* the tasks being run
    finished   \* the tasks that have been run

vars == <<life, queue, busy, finished>>

Init == life = "running" /\ queue = <<>> /\ busy = {} /\ finished = {}

Accept(t) ==
    /\ life = "running" /\ t \notin ToSet(queue) \cup busy \cup finished
    /\ queue' = Append(queue, t)
    /\ UNCHANGED <<life, busy, finished>>

Start ==
    /\ queue # <<>> /\ life \in {"running", "finishing"}
    /\ queue' = Tail(queue)
    /\ busy' = busy \cup {Head(queue)}
    /\ UNCHANGED <<life, finished>>

Finish(t) ==
    /\ t \in busy
    /\ busy' = busy \ {t}
    /\ finished' = finished \cup {t}
    /\ UNCHANGED <<life, queue>>

Close ==
    /\ life = "running"
    /\ life' \in {"finishing", "stopping"}
    /\ UNCHANGED <<queue, busy, finished>>

(* Only a pool that stops drops the tasks it has not run. *)
Free ==
    /\ life \in {"finishing", "stopping"} /\ busy = {}
    /\ life = "finishing" => queue = <<>>
    /\ life' = "freed" /\ queue' = <<>>
    /\ UNCHANGED <<busy, finished>>

Next ==
    \/ \E t \in Tasks : Accept(t) \/ Finish(t)
    \/ Start \/ Close \/ Free

Spec == Init /\ [][Next]_vars
=============================================================================
