----------------------------- MODULE ThreadPool -----------------------------
(***************************************************************************)
(* The thread pool of libldap_r (tpool.c): a list of pending contexts      *)
(* under one mutex and one condition variable, served by threads that are  *)
(* created by the submissions that find too few of them.                   *)
(*                                                                         *)
(* Each critical section of ltp_mutex is one action.  A submission that    *)
(* needs a thread gives up the mutex, creates the thread and takes the     *)
(* mutex again, so it is three steps.  A thread goes round the loop of     *)
(* ldap_int_thread_pool_wrapper inside one critical section, from where it *)
(* gets the mutex to where it runs a task, sleeps or leaves.               *)
(*                                                                         *)
(* Tasks are submitted by the application's own threads (Clients) and by   *)
(* the tasks that the pool runs.  An application does not destroy a pool   *)
(* while one of its own threads is inside a submission; a task may be.     *)
(***************************************************************************)
EXTENDS ThreadCond, Integers, Sequences, SequencesExt

CONSTANTS
    Clients, Workers, Tasks,
    Ctxs,            \* addresses malloc can give a context
    MaxPending,      \* ltp_max_pending; 0 is no limit
    Limits,          \* the values ltp_max_count is given; 0 is no limit
    CreateMayFail,   \* whether ldap_pvt_thread_create may fail
    None

Callers == Clients \cup Workers

ASSUME PoolAssumption ==
    /\ IsFiniteSet(Callers) /\ Clients \cap Workers = {}
    /\ MaxPending \in Nat /\ Limits \subseteq Nat /\ CreateMayFail \in BOOLEAN
    /\ None \notin Tasks \cup Ctxs

VARIABLES
    state, max_count,
    pending,                                   \* ltp_pending_list
    pending_count, active_count, open_count, starting,
    cond,
    thread,    \* per worker: "none", "begin", "wait", "run" or "back"
    job,       \* per worker: the task it runs
    call,      \* per caller: where its submission is: "out", "create", "created"
    mine,      \* per caller: the task and the context of that submission
    status,    \* per task: "new", "queued", "running", "done", "dropped"
    result,    \* per task: what its submission returned: "none", "ok", "error"
    addr       \* per task: the address of its context while it has one

counts  == <<pending_count, active_count, open_count, starting>>
threads == <<cond, thread, job>>
subs    == <<call, mine, result>>
vars    == <<state, max_count, pending, counts, threads, subs, status, addr>>

(* ldap_pvt_thread_pool_init; the application picks the first limit. *)
Init ==
    /\ state = "running" /\ max_count \in Limits
    /\ pending = <<>>
    /\ pending_count = 0 /\ active_count = 0 /\ open_count = 0 /\ starting = 0
    /\ cond = NewCond
    /\ thread = [w \in Workers |-> "none"] /\ job = [w \in Workers |-> None]
    /\ call = [c \in Callers |-> "out"]
    /\ mine = [c \in Callers |-> [task |-> None, ctx |-> None]]
    /\ status = [t \in Tasks |-> "new"] /\ result = [t \in Tasks |-> "none"]
    /\ addr = [t \in Tasks |-> None]

-----------------------------------------------------------------------------
(* ldap_pvt_thread_pool_submit                                             *)

MayCall(c) ==
    /\ state # "freed" /\ call[c] = "out"
    /\ c \in Workers => thread[c] = "run"

Full == MaxPending > 0 /\ pending_count >= MaxPending

(* The pool is being destroyed, or too much is pending. *)
Refuse(c, t) ==
    /\ MayCall(c) /\ status[t] = "new" /\ result[t] = "none"
    /\ state # "running" \/ Full
    /\ result' = [result EXCEPT ![t] = "error"]
    /\ UNCHANGED <<state, max_count, pending, counts, threads, call, mine, status, addr>>

(* Called with the new context already counted as pending. *)
NeedThread ==
    /\ open_count = 0 \/ pending_count + 1 > 1 \/ open_count = active_count
    /\ max_count = 0 \/ open_count < max_count

Enlist(t, a) ==
    /\ pending' = Append(pending, t)
    /\ pending_count' = pending_count + 1
    /\ status' = [status EXCEPT ![t] = "queued"]
    /\ addr' = [addr EXCEPT ![t] = a]

(* Mutant: no sleeping thread is signalled. *)
WakeMut == UNCHANGED cond

Wake == cond' \in Signalled(cond)

Submit(c, t) ==
    /\ MayCall(c) /\ status[t] = "new" /\ result[t] = "none"
    /\ state = "running" /\ ~Full
    /\ Wake
    /\ \E a \in Ctxs \ {addr[u] : u \in Tasks} :
        /\ Enlist(t, a)
        /\ IF NeedThread
           THEN /\ open_count' = open_count + 1 /\ starting' = starting + 1
                /\ call' = [call EXCEPT ![c] = "create"]
                /\ mine' = [mine EXCEPT ![c] = [task |-> t, ctx |-> a]]
                /\ UNCHANGED result
           ELSE /\ result' = [result EXCEPT ![t] = "ok"]
                /\ UNCHANGED <<open_count, starting, call, mine>>
    /\ UNCHANGED <<state, max_count, active_count, thread, job>>

(* The thread is created, without the mutex. *)
Created(c, w) ==
    /\ call[c] = "create" /\ thread[w] = "none"
    /\ thread' = [thread EXCEPT ![w] = "begin"]
    /\ call' = [call EXCEPT ![c] = "created"]
    /\ UNCHANGED <<state, max_count, pending, counts, cond, job, mine, result, status, addr>>

Returns(c, value) ==
    /\ call' = [call EXCEPT ![c] = "out"]
    /\ mine' = [mine EXCEPT ![c] = [task |-> None, ctx |-> None]]
    /\ result' = [result EXCEPT ![mine[c].task] = value]

(* ... and the mutex taken again. *)
Started(c) ==
    /\ call[c] = "created"
    /\ starting' = starting - 1
    /\ Returns(c, "ok")
    /\ UNCHANGED <<state, max_count, pending, pending_count, active_count, open_count,
                   threads, status, addr>>

(* Mutant: a thread that could not be created stays counted as open. *)
CreateFailedMut(c) ==
    /\ CreateMayFail /\ call[c] = "create"
    /\ starting' = starting - 1
    /\ Returns(c, "ok")
    /\ UNCHANGED <<state, max_count, pending, pending_count, active_count, open_count,
                   threads, status, addr>>

(* Where the context that has the address of c's is on the list. *)
Listed(c) == {i \in 1..Len(pending) : addr[pending[i]] = mine[c].ctx}

(* The thread could not be created.  Without any other thread, the context *)
(* at that address is taken off the list, and the count of pending ones is *)
(* raised, not lowered.                                                    *)
CreateFailed(c) ==
    /\ CreateMayFail /\ call[c] = "create"
    /\ open_count' = open_count - 1 /\ starting' = starting - 1
    /\ IF open_count' = 0 /\ Listed(c) # {}
       THEN \E i \in Listed(c) :
            /\ pending' = RemoveAt(pending, i)
            /\ pending_count' = pending_count + 1
            /\ status' = [status EXCEPT ![pending[i]] = "dropped"]
            /\ addr' = [addr EXCEPT ![pending[i]] = None]
            /\ Returns(c, "error")
       ELSE Returns(c, "ok") /\ UNCHANGED <<pending, pending_count, status, addr>>
    /\ UNCHANGED <<state, max_count, active_count, threads>>

-----------------------------------------------------------------------------
(* ldap_int_thread_pool_wrapper                                            *)

(* Mutant: the thread that leaves stays counted as open. *)
LeaveMut(w) ==
    /\ thread' = [thread EXCEPT ![w] = "none"]
    /\ UNCHANGED <<open_count, pending, pending_count, cond>>

Leave(w) ==
    /\ open_count' = open_count - 1
    /\ thread' = [thread EXCEPT ![w] = "none"]
    /\ UNCHANGED <<pending, pending_count, cond>>

TooMany == max_count > 0 /\ open_count > max_count

Sleep(w) ==
    /\ cond' = Waited(cond, w)
    /\ thread' = [thread EXCEPT ![w] = "wait"]
    /\ UNCHANGED <<pending, pending_count, open_count>>

Take(w) ==
    /\ pending' = Tail(pending)
    /\ pending_count' = pending_count - 1
    /\ thread' = [thread EXCEPT ![w] = "run"]
    /\ UNCHANGED <<open_count, cond>>

(* Mutant: a thread leaves a pool that finishes before the list is empty.  *)
LoopMut(w) ==
    IF state # "running" THEN Leave(w)
    ELSE IF pending # <<>> THEN Take(w)
    ELSE IF TooMany THEN Leave(w)
    ELSE Sleep(w)

(* The loop, once round. *)
Loop(w) ==
    IF state = "stopping" THEN Leave(w)
    ELSE IF pending # <<>> THEN Take(w)
    ELSE IF state = "finishing" \/ TooMany THEN Leave(w)
    ELSE Sleep(w)

Takes(w) == thread'[w] = "run"

(* A thread that gets the mutex: it begins, is woken from cond_wait, or is *)
(* back from a task and no longer active.                                  *)
Look(w) ==
    /\ \/ thread[w] \in {"begin", "back"}
       \/ thread[w] = "wait" /\ w \notin cond.asleep
    /\ Loop(w)
    /\ active_count' = active_count + (IF Takes(w) THEN 1 ELSE 0)
                                    - (IF thread[w] = "back" THEN 1 ELSE 0)
    /\ IF Takes(w)
       THEN /\ job' = [job EXCEPT ![w] = Head(pending)]
            /\ status' = [status EXCEPT ![Head(pending)] = "running"]
       ELSE UNCHANGED <<job, status>>
    /\ UNCHANGED <<state, max_count, starting, subs, addr>>

(* The task returns and its context is freed, without the mutex. *)
Done(w) ==
    /\ thread[w] = "run" /\ call[w] = "out"
    /\ thread' = [thread EXCEPT ![w] = "back"]
    /\ job' = [job EXCEPT ![w] = None]
    /\ status' = [status EXCEPT ![job[w]] = "done"]
    /\ addr' = [addr EXCEPT ![job[w]] = None]
    /\ UNCHANGED <<state, max_count, pending, counts, cond, subs>>

-----------------------------------------------------------------------------
(* ldap_pvt_thread_pool_maxthreads *)
MaxThreads(n) ==
    /\ state = "running" /\ n # max_count
    /\ max_count' = n
    /\ UNCHANGED <<state, pending, counts, threads, subs, status, addr>>

(* ldap_pvt_thread_pool_destroy takes the pool off the list of pools, so   *)
(* that a second call finds none, and signals once for each open thread.   *)
Destroy ==
    /\ state = "running" /\ \A c \in Clients : call[c] = "out"
    /\ state' \in {"finishing", "stopping"}
    /\ cond' = [asleep |-> {},
                set |-> EventCond /\ (cond.set \/ open_count > Cardinality(cond.asleep))]
    /\ UNCHANGED <<max_count, pending, counts, thread, job, subs, status, addr>>

(* Mutant: the pool is freed when no task runs any more. *)
UnusedMut == active_count = 0

Unused == open_count = 0

(* ... waits for the threads to leave and frees the pool. *)
Free ==
    /\ state \in {"finishing", "stopping"} /\ Unused
    /\ state' = "freed"
    /\ pending' = <<>>
    /\ status' = [t \in Tasks |-> IF status[t] = "queued" THEN "dropped" ELSE status[t]]
    /\ addr' = [t \in Tasks |-> IF status[t] = "queued" THEN None ELSE addr[t]]
    /\ UNCHANGED <<max_count, counts, threads, subs>>

(* There is nothing left to do. *)
Gone == state = "freed" /\ UNCHANGED vars

(* cond_wait may return without having been signalled. *)
Spurious(w) ==
    /\ ~EventCond /\ w \in cond.asleep
    /\ cond' = [cond EXCEPT !.asleep = @ \ {w}]
    /\ UNCHANGED <<state, max_count, pending, counts, thread, job, subs, status, addr>>

CallerStep(c) ==
    \/ \E t \in Tasks : Submit(c, t) \/ Refuse(c, t)
    \/ \E w \in Workers : Created(c, w)
    \/ Started(c) \/ CreateFailed(c)

WorkerStep(w) == Look(w) \/ Done(w) \/ Spurious(w)

Next ==
    \/ \E c \in Callers : CallerStep(c)
    \/ \E w \in Workers : WorkerStep(w)
    \/ \E n \in Limits : MaxThreads(n)
    \/ Destroy \/ Free \/ Gone

Spec == Init /\ [][Next]_vars

(* The scheduler runs every thread that can run, tasks return, submissions *)
(* complete and destroy's wait ends when it can.                           *)
Fairness ==
    /\ \A w \in Workers : WF_vars(Look(w)) /\ WF_vars(Done(w))
    /\ \A c \in Callers :
        WF_vars(\E w \in Workers : Created(c, w)) /\ WF_vars(Started(c))
    /\ WF_vars(Free)

FairSpec == Spec /\ Fairness

-----------------------------------------------------------------------------
Being(places) == {w \in Workers : thread[w] \in places}
Calling(places) == {c \in Callers : call[c] \in places}

(* The threads that are about to look at the list. *)
Awake == Being({"begin", "back"}) \cup (Being({"wait"}) \ cond.asleep)

(* Type invariant of the pool. *)
TypeOK ==
    /\ state \in {"running", "finishing", "stopping", "freed"} /\ max_count \in Limits
    /\ pending \in Seq(Tasks)
    /\ pending_count \in Nat /\ active_count \in Nat /\ open_count \in Nat /\ starting \in Nat
    /\ cond \in CondVar(Workers)
    /\ thread \in [Workers -> {"none", "begin", "wait", "run", "back"}]
    /\ job \in [Workers -> Tasks \cup {None}]
    /\ call \in [Callers -> {"out", "create", "created"}]
    /\ mine \in [Callers -> [task : Tasks \cup {None}, ctx : Ctxs \cup {None}]]
    /\ status \in [Tasks -> {"new", "queued", "running", "done", "dropped"}]
    /\ result \in [Tasks -> {"none", "ok", "error"}]
    /\ addr \in [Tasks -> Ctxs \cup {None}]

(* ltp_open_count counts the threads and those being created, and          *)
(* ltp_active_count the running ones, also when a creation fails: destroy  *)
(* waits for the one, submit compares the two.                             *)
CountsExact ==
    /\ open_count = Cardinality(Being({"begin", "wait", "run", "back"})) + Cardinality(Calling({"create"}))
    /\ active_count = Cardinality(Being({"run", "back"}))
    /\ starting = Cardinality(Calling({"create", "created"}))

(* ltp_pending_count is the length of the list (tpool.c:218: when a thread *)
(* cannot be created "back out of ltp_pending_count").                     *)
PendingExact == state # "freed" => pending_count = Len(pending)

(* No thread sleeps over a task: each pending one has been signalled to a  *)
(* thread of its own before any thread is left asleep.                     *)
NoIdleBacklog == cond.asleep # {} => Len(pending) <= Cardinality(Awake)

(* The pool is not freed under a thread of it or a submission to it.       *)
FreedUnused ==
    state = "freed" => Being({"none"}) = Workers /\ Calling({"out"}) = Callers

(* Every accepted task is run in the end, or dropped with its pool.        *)
EveryTaskEnds == \A t \in Tasks : status[t] = "queued" ~> status[t] \in {"done", "dropped"}

(* destroy returns. *)
DestroyEnds == state \in {"finishing", "stopping"} ~> state = "freed"

(* The pool is a queue of tasks. *)
Queue == INSTANCE TaskQueue WITH
    life <- state, queue <- pending,
    busy <- {t \in Tasks : status[t] = "running"},
    finished <- {t \in Tasks : status[t] = "done"}

QueueSpec == Queue!Spec
=============================================================================
