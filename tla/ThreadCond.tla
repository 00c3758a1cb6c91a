----------------------------- MODULE ThreadCond -----------------------------
(***************************************************************************)
(* Condition variables as libldap_r's thread layer provides them.          *)
(*                                                                         *)
(* With POSIX threads (thr_posix.c) a signal wakes one sleeper, a          *)
(* broadcast all of them, and neither is remembered.  With NT threads      *)
(* (thr_nt.c) a condition variable is an auto-reset event: signal and      *)
(* broadcast are both SetEvent, which releases one sleeper or, if there is *)
(* none, stays set until the next wait.                                    *)
(*                                                                         *)
(* A condition variable is [asleep |-> its sleepers, set |-> the event].   *)
(* A thread that is no longer in asleep has been woken: cond_wait returns  *)
(* when it gets the mutex again.                                           *)
(***************************************************************************)
EXTENDS FiniteSets

CONSTANT EventCond     \* TRUE: NT events; FALSE: POSIX condition variables

ASSUME EventAssumption == EventCond \in BOOLEAN

NewCond == [asleep |-> {}, set |-> FALSE]

CondVar(threads) == [asleep : SUBSET threads, set : BOOLEAN]

(* cond_wait: the states of cv when thread t has given up the mutex. *)
Waited(cv, t) ==
    IF cv.set THEN [cv EXCEPT !.set = FALSE]
              ELSE [cv EXCEPT !.asleep = @ \cup {t}]

(* cond_signal: the possible states of cv after it. *)
Signalled(cv) ==
    IF cv.asleep = {} THEN {[cv EXCEPT !.set = EventCond]}
    ELSE {[cv EXCEPT !.asleep = @ \ {t}] : t \in cv.asleep}

(* cond_broadcast. *)
Broadcast(cv) ==
    IF EventCond THEN Signalled(cv) ELSE {[cv EXCEPT !.asleep = {}]}
=============================================================================
