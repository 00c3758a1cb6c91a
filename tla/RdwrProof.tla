------------------------------ MODULE RdwrProof ------------------------------
(***************************************************************************)
(* Proofs about the reader/writer lock, for any finite set of threads.     *)
(* The counters, mutual exclusion and the refinement of ReadWriteLock hold *)
(* with both kinds of condition variables; that no wakeup is lost is       *)
(* proved for POSIX ones.                                                  *)
(*                                                                         *)
(* The counters decide who may enter, so exclusion is inductive only       *)
(* together with CountsExact, and the wakeup argument needs to know that   *)
(* whoever sleeps on a condition variable is counted as waiting for it.    *)
(***************************************************************************)
EXTENDS Rdwr, FiniteSetTheorems, TLAPS

(* Sleepers are waiting threads; a destroyed lock has no one inside. *)
Sleepers ==
    /\ read.asleep \subseteq At("rwait")
    /\ write.asleep \subseteq At("wwait")

IInv == TypeOK /\ CountsExact /\ Exclusion /\ Sleepers /\ DestroyedUnused

-----------------------------------------------------------------------------
(* The threads at a place form a finite set. *)
LEMMA AtFinite ==
    ASSUME NEW place
    PROVE  IsFiniteSet(At(place)) /\ Cardinality(At(place)) \in Nat
<1>1. At(place) \subseteq Threads
  BY DEF At
<1>2. IsFiniteSet(At(place))
  BY <1>1, ThreadsAssumption, FS_Subset
<1>3. QED BY <1>2, FS_CardinalityType

(* A counter is zero exactly when no thread is at its place. *)
LEMMA AtEmpty ==
    ASSUME NEW place
    PROVE  Cardinality(At(place)) = 0 <=> \A t \in Threads : pc[t] # place
<1>1. Cardinality(At(place)) = 0 <=> At(place) = {}
  BY AtFinite, FS_EmptySet
<1>2. At(place) = {} <=> \A t \in Threads : pc[t] # place
  BY DEF At
<1>3. QED BY <1>1, <1>2

(* A thread that goes from one place to another moves one count. *)
LEMMA MoveCount ==
    ASSUME TypeOK, NEW t \in Threads, NEW a, NEW b, a # b, pc[t] = a, Goes(t, b)
    PROVE  /\ Cardinality(At(b)') = Cardinality(At(b)) + 1
           /\ Cardinality(At(a)') = Cardinality(At(a)) - 1
           /\ Cardinality(At(a)') \in Nat
           /\ At(b)' = At(b) \cup {t} /\ At(a)' = At(a) \ {t}
           /\ \A c : c # a /\ c # b => At(c)' = At(c)
<1>0. \A u \in Threads : pc'[u] = IF u = t THEN b ELSE pc[u]
  BY DEF TypeOK, Goes
<1>1. At(b)' = At(b) \cup {t} /\ t \notin At(b)
  BY <1>0 DEF At
<1>2. At(a)' = At(a) \ {t} /\ t \in At(a)
  BY <1>0 DEF At
<1>3. \A c : c # a /\ c # b => At(c)' = At(c)
  BY <1>0 DEF At
<1>4. Cardinality(At(b) \cup {t}) = Cardinality(At(b)) + 1
  BY <1>1, AtFinite, FS_AddElement
<1>5. Cardinality(At(a) \ {t}) = Cardinality(At(a)) - 1
  BY <1>2, AtFinite, FS_RemoveElement
<1>6. Cardinality(At(a) \ {t}) \in Nat
  BY AtFinite, FS_Subset, FS_CardinalityType
<1>7. QED BY <1>1, <1>2, <1>3, <1>4, <1>5, <1>6

(* What waiting and waking do to a condition variable. *)
LEMMA WaitedType ==
    ASSUME NEW cv \in CondVar(Threads), NEW t \in Threads
    PROVE  /\ Waited(cv, t) \in CondVar(Threads)
           /\ Waited(cv, t).asleep \subseteq cv.asleep \cup {t}
BY DEF Waited, CondVar

LEMMA WokenType ==
    ASSUME NEW cv \in CondVar(Threads), NEW new \in Signalled(cv) \cup Broadcast(cv)
    PROVE  new \in CondVar(Threads) /\ new.asleep \subseteq cv.asleep
BY EventAssumption DEF Signalled, Broadcast, CondVar

-----------------------------------------------------------------------------
LEMMA InitInv == Init => IInv
<1>. SUFFICES ASSUME Init PROVE IInv
  OBVIOUS
<1>1. TypeOK
  BY DEF Init, TypeOK, CondVar, NewCond
<1>2. \A t \in Threads : pc[t] = "out"
  BY DEF Init
<1>3. CountsExact
  BY <1>2, AtEmpty DEF Init, CountsExact
<1>4. Exclusion /\ Sleepers /\ DestroyedUnused
  BY <1>2 DEF Exclusion, Sleepers, DestroyedUnused, Init, NewCond
<1>5. QED BY <1>1, <1>3, <1>4 DEF IInv

(* Who may enter, in terms of the threads. *)
LEMMA MayMeaning ==
    ASSUME IInv
    PROVE  /\ MayRead <=> \A t \in Threads : pc[t] # "writing"
           /\ MayWrite <=> \A t \in Threads : pc[t] \notin {"reading", "writing"}
BY AtEmpty DEF IInv, CountsExact, MayRead, MayWrite

LEMMA NextInv == IInv /\ [Next]_vars => IInv'
<1>. SUFFICES ASSUME IInv, [Next]_vars PROVE IInv'
  OBVIOUS
<1>. USE DEF counters, conds
<1>0. TypeOK /\ CountsExact /\ Exclusion /\ Sleepers /\ DestroyedUnused
  BY DEF IInv
<1>1. ASSUME NEW t \in Threads, Rlock(t) PROVE IInv'
  <2>1. pc[t] = "out" /\ Goes(t, "reading") /\ ltrw_valid
    BY <1>1 DEF Rlock, Calls
  <2>2. Cardinality(At("reading")') = Cardinality(At("reading")) + 1
        /\ At("writing")' = At("writing") /\ At("rwait")' = At("rwait") /\ At("wwait")' = At("wwait")
    BY <1>0, <2>1, MoveCount
  <2>3. TypeOK'
    BY <1>0, <1>1 DEF Rlock, Goes, TypeOK
  <2>4. CountsExact'
    BY <1>0, <1>1, <2>2 DEF Rlock, CountsExact
  <2>5. Exclusion'
    BY <1>0, <1>1, <2>1, MayMeaning DEF Rlock, Exclusion, Goes, TypeOK
  <2>6. Sleepers' /\ DestroyedUnused'
    BY <1>0, <1>1, <2>1, <2>2 DEF Rlock, Sleepers, DestroyedUnused
  <2>7. QED BY <2>3, <2>4, <2>5, <2>6 DEF IInv
<1>2. ASSUME NEW t \in Threads, RlockWait(t) PROVE IInv'
  <2>1. pc[t] = "out" /\ Goes(t, "rwait") /\ ltrw_valid
    BY <1>2 DEF RlockWait, Calls
  <2>2. Cardinality(At("rwait")') = Cardinality(At("rwait")) + 1
        /\ At("writing")' = At("writing") /\ At("reading")' = At("reading") /\ At("wwait")' = At("wwait")
        /\ At("rwait")' = At("rwait") \cup {t}
    BY <1>0, <2>1, MoveCount
  <2>3. read' \in CondVar(Threads) /\ read'.asleep \subseteq read.asleep \cup {t}
    BY <1>0, <1>2, WaitedType DEF RlockWait, TypeOK
  <2>4. TypeOK'
    BY <1>0, <1>2, <2>3 DEF RlockWait, Goes, TypeOK
  <2>5. CountsExact'
    BY <1>0, <1>2, <2>2 DEF RlockWait, CountsExact
  <2>6. Exclusion'
    BY <1>0, <2>1 DEF Exclusion, Goes, TypeOK
  <2>7. Sleepers' /\ DestroyedUnused'
    BY <1>0, <1>2, <2>1, <2>2, <2>3 DEF RlockWait, Sleepers, DestroyedUnused
  <2>8. QED BY <2>4, <2>5, <2>6, <2>7 DEF IInv
<1>3. ASSUME NEW t \in Threads, RlockWoken(t) PROVE IInv'
  <2>1. CASE MayRead
    <3>1. pc[t] = "rwait" /\ Goes(t, "reading") /\ r_wait' = r_wait - 1 /\ r_active' = r_active + 1
          /\ UNCHANGED <<ltrw_valid, w_active, w_wait, read, write>> /\ t \notin read.asleep
      BY <1>3, <2>1 DEF RlockWoken
    <3>2. Cardinality(At("reading")') = Cardinality(At("reading")) + 1
          /\ Cardinality(At("rwait")') = Cardinality(At("rwait")) - 1
          /\ Cardinality(At("rwait")') \in Nat
          /\ At("rwait")' = At("rwait") \ {t}
          /\ At("writing")' = At("writing") /\ At("wwait")' = At("wwait")
      BY <1>0, <3>1, MoveCount
    <3>3. CountsExact'
      BY <1>0, <3>1, <3>2 DEF CountsExact
    <3>4. TypeOK'
      BY <1>0, <3>1, <3>2, <3>3 DEF Goes, TypeOK, CountsExact
    <3>5. Exclusion'
      BY <1>0, <2>1, <3>1, MayMeaning DEF Exclusion, Goes, TypeOK
    <3>6. Sleepers' /\ DestroyedUnused'
      BY <1>0, <3>1, <3>2 DEF Sleepers, DestroyedUnused
    <3>7. QED BY <3>3, <3>4, <3>5, <3>6 DEF IInv
  <2>2. CASE ~MayRead
    <3>1. pc[t] = "rwait" /\ read' = Waited(read, t)
          /\ UNCHANGED <<ltrw_valid, counters, write, pc>>
      BY <1>3, <2>2 DEF RlockWoken
    <3>2. read' \in CondVar(Threads) /\ read'.asleep \subseteq read.asleep \cup {t}
      BY <1>0, <3>1, WaitedType DEF TypeOK
    <3>3. TypeOK' /\ CountsExact' /\ Exclusion' /\ Sleepers' /\ DestroyedUnused'
      BY <1>0, <3>1, <3>2 DEF TypeOK, CountsExact, Exclusion, Sleepers, DestroyedUnused, At
    <3>4. QED BY <3>3 DEF IInv
  <2>3. QED BY <2>1, <2>2
<1>4. ASSUME NEW t \in Threads, Runlock(t) PROVE IInv'
  <2>1. pc[t] = "reading" /\ Goes(t, "out") /\ r_active' = r_active - 1
        /\ UNCHANGED <<ltrw_valid, w_active, r_wait, w_wait, read>>
    BY <1>4 DEF Runlock
  <2>2. Cardinality(At("reading")') = Cardinality(At("reading")) - 1
        /\ Cardinality(At("reading")') \in Nat
        /\ At("writing")' = At("writing") /\ At("rwait")' = At("rwait") /\ At("wwait")' = At("wwait")
    BY <1>0, <2>1, MoveCount
  <2>3. write' \in CondVar(Threads) /\ write'.asleep \subseteq write.asleep
    BY <1>0, <1>4, WokenType DEF Runlock, TypeOK
  <2>4. CountsExact'
    BY <1>0, <2>1, <2>2 DEF CountsExact
  <2>5. TypeOK'
    BY <1>0, <2>1, <2>2, <2>3, <2>4 DEF Goes, TypeOK, CountsExact
  <2>6. Exclusion' /\ Sleepers' /\ DestroyedUnused'
    BY <1>0, <2>1, <2>2, <2>3 DEF Exclusion, Sleepers, DestroyedUnused, Goes, TypeOK
  <2>7. QED BY <2>4, <2>5, <2>6 DEF IInv
<1>5. ASSUME NEW t \in Threads, Wlock(t) PROVE IInv'
  <2>1. pc[t] = "out" /\ Goes(t, "writing") /\ ltrw_valid
    BY <1>5 DEF Wlock, Calls
  <2>2. Cardinality(At("writing")') = Cardinality(At("writing")) + 1
        /\ At("reading")' = At("reading") /\ At("rwait")' = At("rwait") /\ At("wwait")' = At("wwait")
    BY <1>0, <2>1, MoveCount
  <2>3. TypeOK'
    BY <1>0, <1>5 DEF Wlock, Goes, TypeOK
  <2>4. CountsExact'
    BY <1>0, <1>5, <2>2 DEF Wlock, CountsExact
  <2>5. Exclusion'
    BY <1>0, <1>5, <2>1, MayMeaning DEF Wlock, Exclusion, Goes, TypeOK
  <2>6. Sleepers' /\ DestroyedUnused'
    BY <1>0, <1>5, <2>1, <2>2 DEF Wlock, Sleepers, DestroyedUnused
  <2>7. QED BY <2>3, <2>4, <2>5, <2>6 DEF IInv
<1>6. ASSUME NEW t \in Threads, WlockWait(t) PROVE IInv'
  <2>1. pc[t] = "out" /\ Goes(t, "wwait") /\ ltrw_valid
    BY <1>6 DEF WlockWait, Calls
  <2>2. Cardinality(At("wwait")') = Cardinality(At("wwait")) + 1
        /\ At("writing")' = At("writing") /\ At("reading")' = At("reading") /\ At("rwait")' = At("rwait")
        /\ At("wwait")' = At("wwait") \cup {t}
    BY <1>0, <2>1, MoveCount
  <2>3. write' \in CondVar(Threads) /\ write'.asleep \subseteq write.asleep \cup {t}
    BY <1>0, <1>6, WaitedType DEF WlockWait, TypeOK
  <2>4. TypeOK'
    BY <1>0, <1>6, <2>3 DEF WlockWait, Goes, TypeOK
  <2>5. CountsExact'
    BY <1>0, <1>6, <2>2 DEF WlockWait, CountsExact
  <2>6. Exclusion'
    BY <1>0, <2>1 DEF Exclusion, Goes, TypeOK
  <2>7. Sleepers' /\ DestroyedUnused'
    BY <1>0, <1>6, <2>1, <2>2, <2>3 DEF WlockWait, Sleepers, DestroyedUnused
  <2>8. QED BY <2>4, <2>5, <2>6, <2>7 DEF IInv
<1>7. ASSUME NEW t \in Threads, WlockWoken(t) PROVE IInv'
  <2>1. CASE MayWrite
    <3>1. pc[t] = "wwait" /\ Goes(t, "writing") /\ w_wait' = w_wait - 1 /\ w_active' = w_active + 1
          /\ UNCHANGED <<ltrw_valid, r_active, r_wait, read, write>> /\ t \notin write.asleep
      BY <1>7, <2>1 DEF WlockWoken
    <3>2. Cardinality(At("writing")') = Cardinality(At("writing")) + 1
          /\ Cardinality(At("wwait")') = Cardinality(At("wwait")) - 1
          /\ Cardinality(At("wwait")') \in Nat
          /\ At("wwait")' = At("wwait") \ {t}
          /\ At("reading")' = At("reading") /\ At("rwait")' = At("rwait")
      BY <1>0, <3>1, MoveCount
    <3>3. CountsExact'
      BY <1>0, <3>1, <3>2 DEF CountsExact
    <3>4. TypeOK'
      BY <1>0, <3>1, <3>2, <3>3 DEF Goes, TypeOK, CountsExact
    <3>5. Exclusion'
      BY <1>0, <2>1, <3>1, MayMeaning DEF Exclusion, Goes, TypeOK
    <3>6. Sleepers' /\ DestroyedUnused'
      BY <1>0, <3>1, <3>2 DEF Sleepers, DestroyedUnused
    <3>7. QED BY <3>3, <3>4, <3>5, <3>6 DEF IInv
  <2>2. CASE ~MayWrite
    <3>1. pc[t] = "wwait" /\ write' = Waited(write, t)
          /\ UNCHANGED <<ltrw_valid, counters, read, pc>>
      BY <1>7, <2>2 DEF WlockWoken
    <3>2. write' \in CondVar(Threads) /\ write'.asleep \subseteq write.asleep \cup {t}
      BY <1>0, <3>1, WaitedType DEF TypeOK
    <3>3. TypeOK' /\ CountsExact' /\ Exclusion' /\ Sleepers' /\ DestroyedUnused'
      BY <1>0, <3>1, <3>2 DEF TypeOK, CountsExact, Exclusion, Sleepers, DestroyedUnused, At
    <3>4. QED BY <3>3 DEF IInv
  <2>3. QED BY <2>1, <2>2
<1>8. ASSUME NEW t \in Threads, Wunlock(t) PROVE IInv'
  <2>1. pc[t] = "writing" /\ Goes(t, "out") /\ w_active' = w_active - 1
        /\ UNCHANGED <<ltrw_valid, r_active, r_wait, w_wait>>
    BY <1>8 DEF Wunlock
  <2>2. Cardinality(At("writing")') = Cardinality(At("writing")) - 1
        /\ Cardinality(At("writing")') \in Nat
        /\ At("reading")' = At("reading") /\ At("rwait")' = At("rwait") /\ At("wwait")' = At("wwait")
    BY <1>0, <2>1, MoveCount
  <2>3. read' \in CondVar(Threads) /\ read'.asleep \subseteq read.asleep
        /\ write' \in CondVar(Threads) /\ write'.asleep \subseteq write.asleep
    BY <1>0, <1>8, WokenType DEF Wunlock, TypeOK
  <2>4. CountsExact'
    BY <1>0, <2>1, <2>2 DEF CountsExact
  <2>5. TypeOK'
    BY <1>0, <2>1, <2>2, <2>3, <2>4 DEF Goes, TypeOK, CountsExact
  <2>6. Exclusion' /\ Sleepers' /\ DestroyedUnused'
    BY <1>0, <2>1, <2>2, <2>3 DEF Exclusion, Sleepers, DestroyedUnused, Goes, TypeOK
  <2>7. QED BY <2>4, <2>5, <2>6 DEF IInv
<1>9. ASSUME NEW t \in Threads, Spurious(t) PROVE IInv'
  <2>1. UNCHANGED <<ltrw_valid, counters, pc>>
    BY <1>9 DEF Spurious
  <2>2. read' \in CondVar(Threads) /\ read'.asleep \subseteq read.asleep
        /\ write' \in CondVar(Threads) /\ write'.asleep \subseteq write.asleep
    BY <1>0, <1>9 DEF Spurious, TypeOK, CondVar
  <2>3. TypeOK' /\ CountsExact' /\ Exclusion' /\ Sleepers' /\ DestroyedUnused'
    BY <1>0, <2>1, <2>2 DEF TypeOK, CountsExact, Exclusion, Sleepers, DestroyedUnused, At
  <2>4. QED BY <2>3 DEF IInv
<1>10. CASE Destroy
  <2>1. \A t \in Threads : pc[t] = "out"
    BY <1>0, <1>10, AtEmpty DEF Destroy, InUse, CountsExact, TypeOK
  <2>2. TypeOK' /\ CountsExact' /\ Exclusion' /\ Sleepers' /\ DestroyedUnused'
    BY <1>0, <1>10, <2>1 DEF Destroy, TypeOK, CountsExact, Exclusion, Sleepers, DestroyedUnused, At
  <2>3. QED BY <2>2 DEF IInv
<1>11. CASE Create
  <2>1. \A t \in Threads : pc[t] = "out"
    BY <1>0, <1>11 DEF Create, DestroyedUnused
  <2>2. At("reading") = {} /\ At("writing") = {} /\ At("rwait") = {} /\ At("wwait") = {}
    BY <2>1 DEF At
  <2>3. UNCHANGED <<At("reading"), At("writing"), At("rwait"), At("wwait")>>
    BY <1>11 DEF Create, At
  <2>4. CountsExact'
    BY <1>11, <2>2, <2>3, FS_EmptySet DEF Create, CountsExact
  <2>5. TypeOK' /\ Exclusion' /\ Sleepers' /\ DestroyedUnused'
    BY <1>0, <1>11, <2>1 DEF Create, TypeOK, Exclusion, Sleepers, DestroyedUnused, NewCond, CondVar
  <2>6. QED BY <2>4, <2>5 DEF IInv
<1>12. CASE UNCHANGED vars
  BY <1>0, <1>12 DEF vars, IInv, TypeOK, CountsExact, Exclusion, Sleepers, DestroyedUnused, At
<1>13. QED
  BY <1>1, <1>2, <1>3, <1>4, <1>5, <1>6, <1>7, <1>8, <1>9, <1>10, <1>11, <1>12
  DEF Next, ThreadStep

-----------------------------------------------------------------------------
(* Type correctness; the counters of rdwr.c are never negative.            *)
THEOREM TypeCorrect == Spec => []TypeOK
<1>1. Spec => []IInv
  BY InitInv, NextInv, PTL DEF Spec
<1>2. IInv => TypeOK
  BY DEF IInv
<1>3. QED BY <1>1, <1>2, PTL

(* The counters of rdwr.c count the threads inside the lock.               *)
THEOREM CountsTheorem == Spec => []CountsExact
<1>1. Spec => []IInv
  BY InitInv, NextInv, PTL DEF Spec
<1>2. IInv => CountsExact
  BY DEF IInv
<1>3. QED BY <1>1, <1>2, PTL

(* Mutual exclusion: whoever writes is alone.                              *)
THEOREM ExclusionTheorem == Spec => []Exclusion
<1>1. Spec => []IInv
  BY InitInv, NextInv, PTL DEF Spec
<1>2. IInv => Exclusion
  BY DEF IInv
<1>3. QED BY <1>1, <1>2, PTL

(* ldap_pvt_thread_rdwr_destroy destroys no lock that has a thread inside. *)
THEOREM DestroyTheorem == Spec => []DestroyedUnused
<1>1. Spec => []IInv
  BY InitInv, NextInv, PTL DEF Spec
<1>2. IInv => DestroyedUnused
  BY DEF IInv
<1>3. QED BY <1>1, <1>2, PTL

-----------------------------------------------------------------------------
(* The wakeups, with POSIX condition variables: readers sleep only while a *)
(* writer is active, and the one who leaves a lock free wakes someone.     *)
WInv == ReadersPreferred /\ NoneForgotten

(* Somebody waits who does not sleep.                                      *)
LEMMA WaiterExists ==
    ASSUME TypeOK, CountsExact
    PROVE  /\ r_wait > 0 => \E t \in Threads : pc[t] = "rwait"
           /\ w_wait > 0 => \E t \in Threads : pc[t] = "wwait"
BY AtEmpty DEF CountsExact, TypeOK

LEMMA WakeStep ==
    ASSUME ~EventCond, IInv, WInv, Next
    PROVE  WInv'
<1>. USE DEF counters, conds
<1>0. TypeOK /\ CountsExact /\ Sleepers
  BY DEF IInv
<1>1. ASSUME NEW t \in Threads, Rlock(t) \/ Wlock(t) PROVE WInv'
  BY <1>0, <1>1 DEF Rlock, Wlock, MayRead, MayWrite, WInv, ReadersPreferred, NoneForgotten, TypeOK
<1>2. ASSUME NEW t \in Threads, RlockWait(t) PROVE WInv'
  BY <1>0, <1>2 DEF RlockWait, MayRead, WInv, ReadersPreferred, NoneForgotten, TypeOK
<1>3. ASSUME NEW t \in Threads, RlockWoken(t) PROVE WInv'
  BY <1>0, <1>3 DEF RlockWoken, MayRead, WInv, ReadersPreferred, NoneForgotten, TypeOK
<1>4. ASSUME NEW t \in Threads, Runlock(t) PROVE WInv'
  <2>1. /\ pc[t] = "reading" /\ pc' = [pc EXCEPT ![t] = "out"]
        /\ r_active' = r_active - 1 /\ UNCHANGED <<w_active, r_wait, w_wait, read>>
    BY <1>4 DEF Runlock, Goes
  <2>2. ReadersPreferred'
    BY <2>1 DEF WInv, ReadersPreferred
  <2>3. ASSUME r_active' = 0, w_active = 0, w_wait > 0
        PROVE  \E u \in At("wwait")' : u \notin write'.asleep
    <3>1. PICK u \in Threads : pc[u] = "wwait" /\ u \notin write'.asleep
      <4>1. write' \in Signalled(write)
        BY <1>4, <2>3 DEF Runlock
      <4>2. CASE write.asleep = {}
        BY <1>0, <2>3, <4>1, <4>2, WaiterExists DEF Signalled, TypeOK, CondVar
      <4>3. CASE write.asleep # {}
        <5>1. PICK u \in write.asleep : write' = [write EXCEPT !.asleep = @ \ {u}]
          BY <4>1, <4>3 DEF Signalled
        <5>2. u \in Threads /\ pc[u] = "wwait"
          BY <1>0 DEF Sleepers, At
        <5>3. u \notin write'.asleep
          BY <1>0, <5>1 DEF TypeOK, CondVar
        <5>4. QED BY <5>2, <5>3
      <4>4. QED BY <4>2, <4>3
    <3>2. pc'[u] = "wwait"
      BY <1>0, <2>1, <3>1 DEF TypeOK
    <3>3. QED BY <3>1, <3>2 DEF At
  <2>4. ASSUME r_active' = 0, w_active = 0, r_wait > 0
        PROVE  \E u \in At("rwait")' : u \notin read'.asleep
    <3>1. read.asleep = {}
      BY <2>4 DEF WInv, ReadersPreferred
    <3>2. PICK u \in Threads : pc[u] = "rwait"
      BY <1>0, <2>4, WaiterExists
    <3>3. pc'[u] = "rwait" /\ u \notin read'.asleep
      BY <1>0, <2>1, <3>1, <3>2 DEF TypeOK
    <3>4. QED BY <3>3 DEF At
  <2>5. NoneForgotten'
    BY <2>1, <2>3, <2>4 DEF NoneForgotten
  <2>6. QED BY <2>2, <2>5 DEF WInv
<1>5. ASSUME NEW t \in Threads, WlockWait(t) PROVE WInv'
  BY <1>0, <1>5 DEF WlockWait, MayWrite, WInv, ReadersPreferred, NoneForgotten, TypeOK
<1>6. ASSUME NEW t \in Threads, WlockWoken(t) PROVE WInv'
  BY <1>0, <1>6 DEF WlockWoken, MayWrite, WInv, ReadersPreferred, NoneForgotten, TypeOK
<1>7. ASSUME NEW t \in Threads, Wunlock(t) PROVE WInv'
  <2>1. /\ pc[t] = "writing" /\ pc' = [pc EXCEPT ![t] = "out"]
        /\ UNCHANGED <<r_active, r_wait, w_wait>>
    BY <1>7 DEF Wunlock, Goes
  <2>2. CASE r_wait > 0
    <3>1. read'.asleep = {}
      BY <1>0, <1>7, <2>2 DEF Wunlock, Broadcast, TypeOK, CondVar
    <3>2. PICK u \in Threads : pc[u] = "rwait"
      BY <1>0, <2>2, WaiterExists
    <3>3. u \in At("rwait")' /\ u \notin read'.asleep
      BY <1>0, <2>1, <3>1, <3>2 DEF TypeOK, At
    <3>4. QED BY <3>1, <3>3 DEF WInv, ReadersPreferred, NoneForgotten
  <2>3. CASE r_wait = 0
    <3>1. \A u \in Threads : pc[u] # "rwait"
      BY <1>0, <2>3, AtEmpty DEF CountsExact
    <3>2. read.asleep = {} /\ read' = read
      BY <1>0, <1>7, <2>3, <3>1 DEF Wunlock, Sleepers, At
    <3>3. ASSUME w_wait > 0
          PROVE  \E u \in At("wwait")' : u \notin write'.asleep
      <4>1. write' \in Signalled(write)
        BY <1>7, <2>3, <3>3 DEF Wunlock
      <4>2. PICK u \in Threads : pc[u] = "wwait" /\ u \notin write'.asleep
        <5>1. CASE write.asleep = {}
          BY <1>0, <3>3, <4>1, <5>1, WaiterExists DEF Signalled, TypeOK, CondVar
        <5>2. CASE write.asleep # {}
          <6>1. PICK u \in write.asleep : write' = [write EXCEPT !.asleep = @ \ {u}]
            BY <4>1, <5>2 DEF Signalled
          <6>2. u \in Threads /\ pc[u] = "wwait"
            BY <1>0 DEF Sleepers, At
          <6>3. u \notin write'.asleep
            BY <1>0, <6>1 DEF TypeOK, CondVar
          <6>4. QED BY <6>2, <6>3
        <5>3. QED BY <5>1, <5>2
      <4>3. pc'[u] = "wwait"
        BY <1>0, <2>1, <4>2 DEF TypeOK
      <4>4. QED BY <4>2, <4>3 DEF At
    <3>4. QED BY <2>1, <2>3, <3>2, <3>3 DEF WInv, ReadersPreferred, NoneForgotten
  <2>4. QED BY <1>0, <2>2, <2>3 DEF TypeOK
<1>8. ASSUME NEW t \in Threads, Spurious(t) PROVE WInv'
  <2>1. UNCHANGED <<counters, pc>> /\ read'.asleep \subseteq read.asleep
        /\ write'.asleep \subseteq write.asleep
    BY <1>0, <1>8 DEF Spurious, TypeOK, CondVar
  <2>2. QED BY <2>1 DEF WInv, ReadersPreferred, NoneForgotten, At
<1>9. CASE Destroy
  BY <1>0, <1>9 DEF Destroy, InUse, WInv, ReadersPreferred, NoneForgotten, TypeOK
<1>10. CASE Create
  BY <1>10 DEF Create, NewCond, WInv, ReadersPreferred, NoneForgotten
<1>11. QED
  BY <1>1, <1>2, <1>3, <1>4, <1>5, <1>6, <1>7, <1>8, <1>9, <1>10 DEF Next, ThreadStep

LEMMA WakeInv == ~EventCond => (Spec => []WInv)
<1>. SUFFICES ASSUME ~EventCond PROVE Spec => []WInv
  OBVIOUS
<1>1. Init => WInv
  BY DEF Init, WInv, ReadersPreferred, NoneForgotten, NewCond
<1>2. IInv /\ WInv /\ [Next]_vars => WInv'
  <2>1. WInv /\ UNCHANGED vars => WInv'
    BY DEF vars, counters, conds, WInv, ReadersPreferred, NoneForgotten, At
  <2>2. QED BY <2>1, WakeStep
<1>3. Spec => []IInv
  BY InitInv, NextInv, PTL DEF Spec
<1>4. QED BY <1>1, <1>2, <1>3, PTL DEF Spec

(* With POSIX condition variables no wakeup of rdwr.c is lost: a free lock *)
(* that threads wait for has a woken one among them.                       *)
THEOREM NoWakeupLost == ~EventCond => (Spec => []NoneForgotten)
<1>1. WInv => NoneForgotten
  BY DEF WInv
<1>2. QED BY <1>1, WakeInv, PTL

(* With POSIX condition variables readers sleep only while a writer is     *)
(* active, however many writers wait.                                      *)
THEOREM ReadersFirst == ~EventCond => (Spec => []ReadersPreferred)
<1>1. WInv => ReadersPreferred
  BY DEF WInv
<1>2. QED BY <1>1, WakeInv, PTL

-----------------------------------------------------------------------------
(* rdwr.c implements the abstract reader/writer lock.                      *)
THEOREM Refinement == Spec => LockSpec
<1>. USE DEF counters, conds
<1>1. Init => Lock!Init
  BY DEF Init, Lock!Init, At
<1>2. ASSUME IInv, [Next]_vars PROVE [Lock!Next]_(Lock!vars)
  <2>0. TypeOK /\ CountsExact /\ DestroyedUnused
    BY <1>2 DEF IInv
  <2>1. ASSUME NEW t \in Threads, Rlock(t) PROVE Lock!Read(t)
    <3>1. pc[t] = "out" /\ Goes(t, "reading") /\ ltrw_valid /\ UNCHANGED ltrw_valid
      BY <2>1 DEF Rlock, Calls
    <3>2. At("reading")' = At("reading") \cup {t} /\ At("writing")' = At("writing")
      BY <2>0, <3>1, MoveCount
    <3>3. At("writing") = {} /\ t \notin At("reading")
      BY <1>2, <2>1, <3>1, MayMeaning DEF Rlock, At
    <3>4. QED BY <3>1, <3>2, <3>3 DEF Lock!Read
  <2>2. ASSUME NEW t \in Threads, RlockWoken(t), MayRead PROVE Lock!Read(t)
    <3>1. pc[t] = "rwait" /\ Goes(t, "reading") /\ UNCHANGED ltrw_valid
      BY <2>2 DEF RlockWoken
    <3>2. At("reading")' = At("reading") \cup {t} /\ At("writing")' = At("writing")
      BY <2>0, <3>1, MoveCount
    <3>3. At("writing") = {} /\ t \notin At("reading") /\ ltrw_valid
      BY <1>2, <2>0, <2>2, <3>1, MayMeaning DEF At, DestroyedUnused, TypeOK
    <3>4. QED BY <3>1, <3>2, <3>3 DEF Lock!Read
  <2>3. ASSUME NEW t \in Threads, Wlock(t) PROVE Lock!Write(t)
    <3>1. pc[t] = "out" /\ Goes(t, "writing") /\ ltrw_valid /\ UNCHANGED ltrw_valid
      BY <2>3 DEF Wlock, Calls
    <3>2. At("writing")' = At("writing") \cup {t} /\ At("reading")' = At("reading")
      BY <2>0, <3>1, MoveCount
    <3>3. At("writing") = {} /\ At("reading") = {}
      BY <1>2, <2>3, MayMeaning DEF Wlock, At
    <3>4. QED BY <3>1, <3>2, <3>3 DEF Lock!Write
  <2>4. ASSUME NEW t \in Threads, WlockWoken(t), MayWrite PROVE Lock!Write(t)
    <3>1. pc[t] = "wwait" /\ Goes(t, "writing") /\ UNCHANGED ltrw_valid
      BY <2>4 DEF WlockWoken
    <3>2. At("writing")' = At("writing") \cup {t} /\ At("reading")' = At("reading")
      BY <2>0, <3>1, MoveCount
    <3>3. At("writing") = {} /\ At("reading") = {} /\ ltrw_valid
      BY <1>2, <2>0, <2>4, <3>1, MayMeaning DEF At, DestroyedUnused, TypeOK
    <3>4. QED BY <3>1, <3>2, <3>3 DEF Lock!Write
  <2>5. ASSUME NEW t \in Threads, Runlock(t) PROVE Lock!Release(t)
    <3>1. pc[t] = "reading" /\ Goes(t, "out") /\ UNCHANGED ltrw_valid
      BY <2>5 DEF Runlock
    <3>2. At("reading")' = At("reading") \ {t} /\ At("writing")' = At("writing")
      BY <2>0, <3>1, MoveCount
    <3>3. t \in At("reading") /\ t \notin At("writing")
      BY <3>1 DEF At
    <3>4. QED BY <3>1, <3>2, <3>3 DEF Lock!Release
  <2>6. ASSUME NEW t \in Threads, Wunlock(t) PROVE Lock!Release(t)
    <3>1. pc[t] = "writing" /\ Goes(t, "out") /\ UNCHANGED ltrw_valid
      BY <2>6 DEF Wunlock
    <3>2. At("writing")' = At("writing") \ {t} /\ At("reading")' = At("reading")
      BY <2>0, <3>1, MoveCount
    <3>3. t \in At("writing") /\ t \notin At("reading")
      BY <3>1 DEF At
    <3>4. QED BY <3>1, <3>2, <3>3 DEF Lock!Release
  <2>7. ASSUME NEW t \in Threads, RlockWait(t) \/ WlockWait(t) PROVE UNCHANGED Lock!vars
    <3>1. PICK place \in {"rwait", "wwait"} : pc[t] = "out" /\ Goes(t, place) /\ UNCHANGED ltrw_valid
      BY <2>7 DEF RlockWait, WlockWait, Calls
    <3>2. At("reading")' = At("reading") /\ At("writing")' = At("writing")
      BY <2>0, <3>1, MoveCount
    <3>3. QED BY <3>1, <3>2 DEF Lock!vars
  <2>8. ASSUME NEW t \in Threads,
               (RlockWoken(t) /\ ~MayRead) \/ (WlockWoken(t) /\ ~MayWrite) \/ Spurious(t)
        PROVE  UNCHANGED Lock!vars
    <3>1. UNCHANGED <<ltrw_valid, pc>>
      BY <2>8 DEF RlockWoken, WlockWoken, Spurious
    <3>2. QED BY <3>1 DEF Lock!vars, At
  <2>9. CASE Destroy \/ Create
    <3>1. \A t \in Threads : pc[t] = "out"
      BY <2>0, <2>9, AtEmpty
      DEF Destroy, Create, InUse, CountsExact, TypeOK, DestroyedUnused
    <3>2. At("reading") = {} /\ At("writing") = {} /\ pc' = pc /\ ltrw_valid' = ~ltrw_valid
      BY <2>0, <2>9, <3>1 DEF Destroy, Create, At, TypeOK
    <3>3. At("reading")' = At("reading") /\ At("writing")' = At("writing")
      BY <3>2 DEF At
    <3>4. QED BY <3>2, <3>3 DEF Lock!Next, Lock!Remake
  <2>10. CASE UNCHANGED vars
    BY <2>10 DEF vars, Lock!vars, At
  <2>11. QED
    BY <1>2, <2>1, <2>2, <2>3, <2>4, <2>5, <2>6, <2>7, <2>8, <2>9, <2>10
    DEF Next, ThreadStep, Lock!Next
<1>3. Spec => []IInv
  BY InitInv, NextInv, PTL DEF Spec
<1>4. QED BY <1>1, <1>2, <1>3, PTL DEF Spec, LockSpec, Lock!Spec
=============================================================================
