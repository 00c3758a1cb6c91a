-------------------------------- MODULE Rdwr --------------------------------
(***************************************************************************)
(* The reader/writer lock of libldap_r (rdwr.c): four counters under one   *)
(* mutex and two condition variables.  Every operation is one critical     *)
(* section of ltrw_mutex, or two when it waits: up to cond_wait, and from  *)
(* the return of cond_wait on.  Each critical section is one action.       *)
(*                                                                         *)
(* The lock prefers readers: a reader is admitted whenever no writer is    *)
(* active, also while writers wait.                                        *)
(***************************************************************************)
EXTENDS ThreadCond, Integers

CONSTANT Threads

ASSUME ThreadsAssumption == IsFiniteSet(Threads)

VARIABLES
    ltrw_valid,
    r_active, w_active, r_wait, w_wait,   \* ltrw_r_active, ...
    read, write,                          \* ltrw_read, ltrw_write
    pc      \* per thread: "out", "reading", "writing", or waiting inside
            \* rlock ("rwait") or wlock ("wwait")

counters == <<r_active, w_active, r_wait, w_wait>>
conds    == <<read, write>>
vars     == <<ltrw_valid, counters, conds, pc>>

(* ldap_pvt_thread_rdwr_init *)
Init ==
    /\ ltrw_valid = TRUE
    /\ r_active = 0 /\ w_active = 0 /\ r_wait = 0 /\ w_wait = 0
    /\ read = NewCond /\ write = NewCond
    /\ pc = [t \in Threads |-> "out"]

Goes(t, place) == pc' = [pc EXCEPT ![t] = place]
Calls(t) == ltrw_valid /\ pc[t] = "out"

-----------------------------------------------------------------------------
MayRead  == w_active = 0
MayWrite == w_active = 0 /\ r_active = 0

(* rlock without waiting, and rtrylock, which returns EBUSY instead of     *)
(* waiting.                                                                *)
Rlock(t) ==
    /\ Calls(t) /\ MayRead
    /\ r_active' = r_active + 1
    /\ Goes(t, "reading")
    /\ UNCHANGED <<ltrw_valid, w_active, r_wait, w_wait, conds>>

RlockWait(t) ==
    /\ Calls(t) /\ ~MayRead
    /\ r_wait' = r_wait + 1
    /\ read' = Waited(read, t)
    /\ Goes(t, "rwait")
    /\ UNCHANGED <<ltrw_valid, r_active, w_active, w_wait, write>>

(* The wait loop of rlock. *)
RlockWoken(t) ==
    /\ pc[t] = "rwait" /\ t \notin read.asleep
    /\ \/ /\ MayRead
          /\ r_wait' = r_wait - 1 /\ r_active' = r_active + 1
          /\ Goes(t, "reading")
          /\ UNCHANGED read
       \/ /\ ~MayRead
          /\ read' = Waited(read, t)
          /\ UNCHANGED <<r_wait, r_active, pc>>
    /\ UNCHANGED <<ltrw_valid, w_active, w_wait, write>>

(* Mutant: the reader leaves without looking for waiting writers. *)
RunlockMut(t) ==
    /\ pc[t] = "reading"
    /\ r_active' = r_active - 1
    /\ Goes(t, "out")
    /\ UNCHANGED <<ltrw_valid, w_active, r_wait, w_wait, conds>>

(* The last reader signals a waiting writer. *)
Runlock(t) ==
    /\ pc[t] = "reading"
    /\ r_active' = r_active - 1
    /\ IF r_active' = 0 /\ w_wait > 0 THEN write' \in Signalled(write)
                                      ELSE UNCHANGED write
    /\ Goes(t, "out")
    /\ UNCHANGED <<ltrw_valid, w_active, r_wait, w_wait, read>>

-----------------------------------------------------------------------------
(* wlock without waiting, and wtrylock. *)
Wlock(t) ==
    /\ Calls(t) /\ MayWrite
    /\ w_active' = w_active + 1
    /\ Goes(t, "writing")
    /\ UNCHANGED <<ltrw_valid, r_active, r_wait, w_wait, conds>>

WlockWait(t) ==
    /\ Calls(t) /\ ~MayWrite
    /\ w_wait' = w_wait + 1
    /\ write' = Waited(write, t)
    /\ Goes(t, "wwait")
    /\ UNCHANGED <<ltrw_valid, r_active, w_active, r_wait, read>>

(* Mutant: the wait is not a loop. *)
WlockWokenMut(t) ==
    /\ pc[t] = "wwait" /\ t \notin write.asleep
    /\ w_wait' = w_wait - 1 /\ w_active' = w_active + 1
    /\ Goes(t, "writing")
    /\ UNCHANGED <<ltrw_valid, r_active, r_wait, conds>>

(* Mutant: the writer that got the lock still counts as waiting. *)
WlockWokenMut2(t) ==
    /\ pc[t] = "wwait" /\ t \notin write.asleep
    /\ \/ /\ MayWrite
          /\ w_active' = w_active + 1
          /\ Goes(t, "writing")
          /\ UNCHANGED <<write, w_wait>>
       \/ /\ ~MayWrite
          /\ write' = Waited(write, t)
          /\ UNCHANGED <<w_wait, w_active, pc>>
    /\ UNCHANGED <<ltrw_valid, r_active, r_wait, read>>

WlockWoken(t) ==
    /\ pc[t] = "wwait" /\ t \notin write.asleep
    /\ \/ /\ MayWrite
          /\ w_wait' = w_wait - 1 /\ w_active' = w_active + 1
          /\ Goes(t, "writing")
          /\ UNCHANGED write
       \/ /\ ~MayWrite
          /\ write' = Waited(write, t)
          /\ UNCHANGED <<w_wait, w_active, pc>>
    /\ UNCHANGED <<ltrw_valid, r_active, r_wait, read>>

(* The writer broadcasts to the readers if any wait, or signals a writer. *)
Wunlock(t) ==
    /\ pc[t] = "writing"
    /\ w_active' = w_active - 1
    /\ IF r_wait > 0 THEN read' \in Broadcast(read) /\ UNCHANGED write
       ELSE IF w_wait > 0 THEN write' \in Signalled(write) /\ UNCHANGED read
       ELSE UNCHANGED conds
    /\ Goes(t, "out")
    /\ UNCHANGED <<ltrw_valid, r_active, r_wait, w_wait>>

-----------------------------------------------------------------------------
(* Mutant: waiting threads do not keep the lock from being destroyed. *)
InUseMut == r_active > 0 \/ w_active > 0

InUse == r_active > 0 \/ w_active > 0 \/ r_wait > 0 \/ w_wait > 0

(* destroy; a lock in use is left alone (EBUSY). *)
Destroy ==
    /\ ltrw_valid /\ ~InUse
    /\ ltrw_valid' = FALSE
    /\ UNCHANGED <<counters, conds, pc>>

(* The application makes a new lock in its place. *)
Create ==
    /\ ~ltrw_valid /\ ltrw_valid' = TRUE
    /\ r_active' = 0 /\ w_active' = 0 /\ r_wait' = 0 /\ w_wait' = 0
    /\ read' = NewCond /\ write' = NewCond
    /\ UNCHANGED pc

(* pthread_cond_wait may return without having been signalled. *)
Spurious(t) ==
    /\ ~EventCond
    /\ \/ t \in read.asleep /\ read' = [read EXCEPT !.asleep = @ \ {t}] /\ UNCHANGED write
       \/ t \in write.asleep /\ write' = [write EXCEPT !.asleep = @ \ {t}] /\ UNCHANGED read
    /\ UNCHANGED <<ltrw_valid, counters, pc>>

ThreadStep(t) ==
    \/ Rlock(t) \/ RlockWait(t) \/ RlockWoken(t) \/ Runlock(t)
    \/ Wlock(t) \/ WlockWait(t) \/ WlockWoken(t) \/ Wunlock(t)
    \/ Spurious(t)

Next == (\E t \in Threads : ThreadStep(t)) \/ Destroy \/ Create

Spec == Init /\ [][Next]_vars

(* The scheduler runs a woken thread, and a thread that holds the lock     *)
(* releases it; nothing makes a thread ask for the lock.                   *)
Fairness ==
    \A t \in Threads :
        WF_vars(RlockWoken(t)) /\ WF_vars(WlockWoken(t)) /\ WF_vars(Runlock(t)) /\ WF_vars(Wunlock(t))

FairSpec == Spec /\ Fairness

-----------------------------------------------------------------------------
At(place) == {t \in Threads : pc[t] = place}

(* Type invariant of the lock; the assertions of rdwr.c are that the       *)
(* counters are never negative.                                            *)
TypeOK ==
    /\ ltrw_valid \in BOOLEAN
    /\ r_active \in Nat /\ w_active \in Nat /\ r_wait \in Nat /\ w_wait \in Nat
    /\ read \in CondVar(Threads) /\ write \in CondVar(Threads)
    /\ pc \in [Threads -> {"out", "reading", "writing", "rwait", "wwait"}]

(* The counters count the threads that hold the lock and that wait for it, *)
(* through every wait, wakeup and retry.                                   *)
CountsExact ==
    /\ r_active = Cardinality(At("reading")) /\ w_active = Cardinality(At("writing"))
    /\ r_wait = Cardinality(At("rwait"))     /\ w_wait = Cardinality(At("wwait"))

(* A writer is alone. *)
Exclusion ==
    \A t, u \in Threads : pc[t] = "writing" /\ u # t => pc[u] \notin {"reading", "writing"}

(* No wakeup is lost: when nobody holds the lock and threads wait for it,  *)
(* one of them has been woken and is about to look again.                  *)
NoneForgotten ==
    r_active = 0 /\ w_active = 0 /\ (r_wait > 0 \/ w_wait > 0) =>
        \/ \E t \in At("rwait") : t \notin read.asleep
        \/ \E t \in At("wwait") : t \notin write.asleep

(* A reader sleeps only while a writer is active: the readers a writer     *)
(* kept out are all woken when it leaves, and no waiting writer keeps      *)
(* them out (rdwr.c: "any new reader will get the lock before the writer").*)
ReadersPreferred == read.asleep # {} => w_active > 0

(* A lock is never destroyed under a thread that is inside it.             *)
DestroyedUnused == ~ltrw_valid => \A t \in Threads : pc[t] = "out"

(* When the threads stop asking for the lock, every one that waits gets    *)
(* it, readers and writers: nobody is starved but by newcomers.            *)
EveryWaiterServed ==
    <>[][\A t \in Threads : pc[t] = "out" => pc'[t] = "out"]_vars
        => \A t \in Threads : pc[t] \in {"rwait", "wwait"} ~> pc[t] \in {"reading", "writing"}

(* It is a reader/writer lock. *)
Lock == INSTANCE ReadWriteLock WITH
    exists <- ltrw_valid, readers <- At("reading"), writers <- At("writing")

LockSpec == Lock!Spec
=============================================================================
