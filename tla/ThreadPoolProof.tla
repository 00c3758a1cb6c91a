--------------------------- MODULE ThreadPoolProof ---------------------------
(***************************************************************************)
(* Proofs about the thread pool, for any finite sets of threads, any list  *)
(* length and limits, and also when threads cannot be created.             *)
(*                                                                         *)
(* destroy looks at ltp_open_count only.  That nobody uses a freed pool    *)
(* follows because the count is exact and because a task's submission is   *)
(* inside the task (InTask), so that the thread that runs it is open; the  *)
(* submissions of the application's own threads end before destroy begins  *)
(* (ClientsOut).                                                           *)
(***************************************************************************)
EXTENDS ThreadPool, FiniteSetTheorems, SequenceTheorems, TLAPS

Open == Being({"begin", "wait", "run", "back"})
Active == Being({"run", "back"})
Creating == Calling({"create"})
Starting == Calling({"create", "created"})

(* A submission has its task and context, and a running worker its task. *)
Owned ==
    /\ \A c \in Starting : mine[c].task \in Tasks /\ mine[c].ctx \in Ctxs
    /\ \A w \in Workers : thread[w] = "run" => job[w] \in Tasks

(* A worker submits only from inside a task. *)
InTask == \A w \in Workers : w \in Starting => thread[w] = "run"

(* No thread of the application is submitting while the pool is destroyed. *)
ClientsOut == state # "running" => \A c \in Clients : call[c] = "out"

Sleepers == cond.asleep \subseteq Being({"wait"})

(* The pending count is the length of the list, or above it once the back- *)
(* out of a submission has raised it.                                      *)
PendingBound ==
    /\ pending_count >= Len(pending)
    /\ ~CreateMayFail => PendingExact

IInv ==
    /\ TypeOK /\ CountsExact /\ PendingBound
    /\ Owned /\ InTask /\ ClientsOut /\ Sleepers /\ FreedUnused

-----------------------------------------------------------------------------
LEMMA Finite ==
    ASSUME NEW places
    PROVE  /\ IsFiniteSet(Being(places)) /\ Cardinality(Being(places)) \in Nat
           /\ IsFiniteSet(Calling(places)) /\ Cardinality(Calling(places)) \in Nat
<1>1. Being(places) \subseteq Callers /\ Calling(places) \subseteq Callers
  BY DEF Being, Calling, Callers
<1>2. IsFiniteSet(Being(places)) /\ IsFiniteSet(Calling(places))
  BY <1>1, PoolAssumption, FS_Subset
<1>3. QED BY <1>2, FS_CardinalityType

(* What one thread's or one caller's step does to the counts. *)
LEMMA Counted ==
    ASSUME NEW S, NEW T, NEW x, IsFiniteSet(S)
    PROVE  /\ T = S \cup {x} /\ x \notin S => Cardinality(T) = Cardinality(S) + 1
           /\ T = S \ {x} /\ x \in S => Cardinality(T) = Cardinality(S) - 1 /\ Cardinality(S) > 0
<1>1. ASSUME x \notin S PROVE Cardinality(S \cup {x}) = Cardinality(S) + 1
  BY <1>1, FS_AddElement
<1>2. ASSUME x \in S
      PROVE  Cardinality(S \ {x}) = Cardinality(S) - 1 /\ Cardinality(S) > 0
  <2>1. Cardinality(S \ {x}) = Cardinality(S) - 1
    BY <1>2, FS_RemoveElement
  <2>2. Cardinality(S) \in Nat /\ Cardinality(S) # 0
    BY <1>2, FS_CardinalityType, FS_EmptySet
  <2>3. QED BY <2>1, <2>2
<1>3. QED BY <1>1, <1>2

(* Condition variables. *)
LEMMA SignalledType ==
    ASSUME NEW cv \in CondVar(Workers), NEW new \in Signalled(cv)
    PROVE  new \in CondVar(Workers) /\ new.asleep \subseteq cv.asleep
BY EventAssumption DEF Signalled, CondVar

LEMMA WaitedType ==
    ASSUME NEW cv \in CondVar(Workers), NEW w \in Workers
    PROVE  Waited(cv, w) \in CondVar(Workers) /\ Waited(cv, w).asleep \subseteq cv.asleep \cup {w}
BY DEF Waited, CondVar

(* The counts, in terms of the four sets. *)
LEMMA CountsMeaning ==
    /\ CountsExact <=> /\ open_count = Cardinality(Open) + Cardinality(Creating)
                       /\ active_count = Cardinality(Active)
                       /\ starting = Cardinality(Starting)
    /\ CountsExact' <=> /\ open_count' = Cardinality(Open') + Cardinality(Creating')
                        /\ active_count' = Cardinality(Active')
                        /\ starting' = Cardinality(Starting')
BY DEF CountsExact, Open, Active, Creating, Starting

LEMMA InitInv == Init => IInv
<1>. SUFFICES ASSUME Init PROVE IInv
  OBVIOUS
<1>1. TypeOK
  BY DEF Init, TypeOK, CondVar, NewCond
<1>2. \A places : "none" \notin places => Being(places) = {}
  BY DEF Init, Being
<1>3. \A places : "out" \notin places => Calling(places) = {}
  BY DEF Init, Calling
<1>4. CountsExact
  <2>1. Open = {} /\ Active = {} /\ Creating = {} /\ Starting = {}
    BY <1>2, <1>3 DEF Open, Active, Creating, Starting
  <2>2. Cardinality({}) = 0
    BY FS_EmptySet
  <2>3. QED
    BY <2>1, <2>2, CountsMeaning DEF Init
<1>5. Owned /\ InTask /\ ClientsOut /\ Sleepers /\ FreedUnused
  BY <1>3 DEF Init, Owned, InTask, ClientsOut, Sleepers, FreedUnused, Starting, NewCond
<1>6. PendingBound
  BY DEF Init, PendingBound, PendingExact
<1>7. QED BY <1>1, <1>4, <1>5, <1>6 DEF IInv

-----------------------------------------------------------------------------
(* A pool that has been freed has no thread and no submission. *)
LEMMA FreeInv ==
    ASSUME IInv, Free PROVE IInv'
<1>0. TypeOK /\ CountsExact /\ Owned /\ InTask /\ ClientsOut /\ Sleepers
  BY DEF IInv
<1>1. Open = {} /\ Creating = {}
  <2>1. Cardinality(Open) + Cardinality(Creating) = 0
    BY <1>0, CountsMeaning DEF Free, Unused
  <2>2. Cardinality(Open) = 0 /\ Cardinality(Creating) = 0
    BY <2>1, Finite DEF Open, Creating
  <2>3. QED
    BY <2>2, Finite, FS_EmptySet DEF Open, Creating
<1>2. Being({"none"}) = Workers
  BY <1>0, <1>1 DEF Open, Being, TypeOK
<1>3. \A c \in Callers : call[c] = "out"
  <2>1. \A c \in Clients : call[c] = "out"
    BY <1>0 DEF ClientsOut, Free
  <2>2. \A w \in Workers : call[w] = "out"
    BY <1>0, <1>2 DEF InTask, Starting, Calling, Being, TypeOK, Callers
  <2>3. QED
    BY <2>1, <2>2 DEF Callers
<1>4. TypeOK'
  <2>1. pending' \in Seq(Tasks)
    BY DEF Free
  <2>2. QED
    BY <1>0, <2>1 DEF Free, TypeOK, counts, threads, subs
<1>5. CountsExact'
  BY <1>0 DEF Free, CountsExact, Being, Calling, counts, threads, subs
<1>6. Owned' /\ InTask' /\ ClientsOut' /\ Sleepers'
  BY <1>0, <1>3 DEF Free, Owned, InTask, ClientsOut, Sleepers, Starting, Being, Calling, counts, threads, subs
<1>7. FreedUnused'
  BY <1>2, <1>3 DEF Free, FreedUnused, Being, Calling, threads, subs
<1>8. PendingBound'
  BY <1>0 DEF Free, PendingBound, PendingExact, TypeOK, counts
<1>9. QED BY <1>4, <1>5, <1>6, <1>7, <1>8 DEF IInv

LEMMA DestroyInv ==
    ASSUME IInv, Destroy PROVE IInv'
<1>0. TypeOK /\ CountsExact /\ Owned /\ InTask /\ Sleepers
  BY DEF IInv
<1>1. TypeOK'
  <2>1. cond' \in CondVar(Workers)
    BY <1>0, EventAssumption DEF Destroy, CondVar, TypeOK
  <2>2. QED
    BY <1>0, <2>1 DEF Destroy, TypeOK, counts, subs
<1>2. CountsExact'
  BY <1>0 DEF Destroy, CountsExact, Being, Calling, counts, subs
<1>3. Owned' /\ InTask' /\ ClientsOut' /\ Sleepers' /\ FreedUnused'
  BY <1>0 DEF Destroy, Owned, InTask, ClientsOut, Sleepers, FreedUnused, Starting, Being, Calling, counts, subs
<1>4. PendingBound'
  BY DEF IInv, Destroy, PendingBound, PendingExact, counts
<1>5. QED BY <1>1, <1>2, <1>3, <1>4 DEF IInv

LEMMA QuietInv ==
    ASSUME IInv,
           \/ \E n \in Limits : MaxThreads(n)
           \/ \E w \in Workers : Spurious(w)
           \/ \E c \in Callers, t \in Tasks : Refuse(c, t)
           \/ UNCHANGED vars
    PROVE  IInv'
<1>0. TypeOK /\ CountsExact /\ Owned /\ InTask /\ ClientsOut /\ Sleepers /\ FreedUnused
  BY DEF IInv
<1>. USE DEF counts, threads, subs, vars
<1>1. TypeOK'
  BY <1>0 DEF MaxThreads, Spurious, Refuse, TypeOK, CondVar
<1>2. thread' = thread /\ call' = call
      /\ UNCHANGED <<open_count, active_count, starting, mine, job, pending, pending_count>>
      /\ state' = state /\ cond'.asleep \subseteq cond.asleep
  BY <1>0 DEF MaxThreads, Spurious, Refuse, TypeOK, CondVar
<1>3. CountsExact'
  BY <1>0, <1>2 DEF CountsExact, Being, Calling
<1>4. Owned' /\ InTask' /\ ClientsOut' /\ Sleepers' /\ FreedUnused'
  BY <1>0, <1>2 DEF Owned, InTask, ClientsOut, Sleepers, FreedUnused, Starting, Being, Calling
<1>5. PendingBound'
  BY <1>2 DEF IInv, PendingBound, PendingExact
<1>6. QED BY <1>1, <1>3, <1>4, <1>5 DEF IInv

-----------------------------------------------------------------------------
(* The submissions. *)

(* While a submission is under way the pool is not freed. *)
LEMMA NotFreed ==
    ASSUME IInv, NEW c \in Callers, call[c] # "out"
    PROVE  state # "freed"
BY DEF IInv, FreedUnused, Calling, Callers

(* An accepted submission that asks for a thread. *)
LEMMA SubmitInv ==
    ASSUME IInv, NEW c \in Callers, NEW t \in Tasks, Submit(c, t)
    PROVE  IInv'
<1>0. TypeOK /\ CountsExact /\ Owned /\ InTask /\ ClientsOut /\ Sleepers
  BY DEF IInv
<1>1. PICK a \in Ctxs : Enlist(t, a)
  BY DEF Submit
<1>2. pending' \in Seq(Tasks) /\ pending_count' \in Nat
      /\ status' \in [Tasks -> {"new", "queued", "running", "done", "dropped"}]
      /\ addr' \in [Tasks -> Ctxs \cup {None}]
  BY <1>0, <1>1 DEF Enlist, TypeOK
<1>3. cond' \in CondVar(Workers) /\ cond'.asleep \subseteq cond.asleep
  BY <1>0, SignalledType DEF Submit, Wake, TypeOK
<1>4. call[c] = "out" /\ state = "running" /\ state' = state
  BY DEF Submit, MayCall
<1>5. Open' = Open /\ Active' = Active /\ Sleepers' /\ FreedUnused' /\ ClientsOut'
  BY <1>0, <1>3, <1>4 DEF Submit, Open, Active, Being, Sleepers, FreedUnused, ClientsOut
<1>6. PendingBound'
  BY <1>0, <1>1, <1>4 DEF IInv, Enlist, PendingBound, PendingExact, TypeOK
<1>7. CASE NeedThread
  <2>1. /\ open_count' = open_count + 1 /\ starting' = starting + 1
        /\ call' = [call EXCEPT ![c] = "create"]
        /\ \E b \in Ctxs : mine' = [mine EXCEPT ![c] = [task |-> t, ctx |-> b]]
        /\ UNCHANGED result
    BY <1>7 DEF Submit
  <2>2. TypeOK'
    BY <1>0, <1>2, <1>3, <2>1 DEF Submit, TypeOK
  <2>3. Creating' = Creating \cup {c} /\ c \notin Creating
        /\ Starting' = Starting \cup {c} /\ c \notin Starting
    BY <1>0, <1>4, <2>1 DEF Creating, Starting, Calling, TypeOK
  <2>4. Cardinality(Creating') = Cardinality(Creating) + 1
        /\ Cardinality(Starting') = Cardinality(Starting) + 1
    BY <2>3, Finite, Counted DEF Creating, Starting
  <2>5. CountsExact'
    BY <1>0, <1>5, <2>1, <2>4, Finite, CountsMeaning DEF Submit, Open, Active, Creating, Starting
  <2>6. Owned'
    BY <1>0, <2>1, <2>3 DEF Owned, Submit, TypeOK
  <2>7. InTask'
    BY <1>0, <2>3 DEF InTask, Submit, MayCall
  <2>8. QED
    BY <1>5, <1>6, <2>2, <2>5, <2>6, <2>7 DEF IInv
<1>8. CASE ~NeedThread
  <2>1. /\ result' = [result EXCEPT ![t] = "ok"]
        /\ UNCHANGED <<open_count, starting, call, mine>>
    BY <1>8 DEF Submit
  <2>2. TypeOK'
    BY <1>0, <1>2, <1>3, <2>1 DEF Submit, TypeOK
  <2>3. Creating' = Creating /\ Starting' = Starting
    BY <2>1 DEF Creating, Starting, Calling
  <2>4. CountsExact'
    BY <1>0, <1>5, <2>1, <2>3, CountsMeaning DEF Submit
  <2>5. Owned' /\ InTask'
    BY <1>0, <2>1, <2>3 DEF Owned, InTask, Submit
  <2>6. QED
    BY <1>5, <1>6, <2>2, <2>4, <2>5 DEF IInv
<1>9. QED BY <1>7, <1>8

(* The thread is created. *)
LEMMA CreatedInv ==
    ASSUME IInv, NEW c \in Callers, NEW w \in Workers, Created(c, w)
    PROVE  IInv'
<1>0. TypeOK /\ CountsExact /\ Owned /\ InTask /\ ClientsOut /\ Sleepers
  BY DEF IInv
<1>1. /\ call[c] = "create" /\ thread[w] = "none"
      /\ thread' = [thread EXCEPT ![w] = "begin"] /\ call' = [call EXCEPT ![c] = "created"]
  BY DEF Created
<1>2. TypeOK'
  BY <1>0, <1>1 DEF Created, TypeOK, counts
<1>3. Open' = Open \cup {w} /\ w \notin Open /\ Active' = Active
  <2>1. Open' = Open \cup {w} /\ w \notin Open
    BY <1>0, <1>1 DEF Open, Being, TypeOK
  <2>2. Active' = Active \ {w} /\ w \notin Active
    BY <1>0, <1>1 DEF Active, Being, TypeOK
  <2>3. QED
    BY <2>1, <2>2
<1>4. Creating' = Creating \ {c} /\ c \in Creating /\ Starting' = Starting
  <2>1. Creating' = Creating \ {c} /\ c \in Creating
    BY <1>0, <1>1 DEF Creating, Calling, TypeOK
  <2>2. Starting' = Starting \cup {c} /\ c \in Starting
    BY <1>0, <1>1 DEF Starting, Calling, TypeOK
  <2>3. QED
    BY <2>1, <2>2
<1>5. CountsExact'
  <2>1. Cardinality(Open') = Cardinality(Open) + 1
    BY <1>3, Finite, Counted DEF Open
  <2>2. Cardinality(Creating') = Cardinality(Creating) - 1
    BY <1>4, Finite, Counted DEF Creating
  <2>3. Cardinality(Open) \in Nat /\ Cardinality(Creating) \in Nat
    BY Finite DEF Open, Creating
  <2>4. QED
    BY <1>0, <1>3, <1>4, <2>1, <2>2, <2>3, CountsMeaning DEF Created, counts
<1>6. Owned' /\ InTask'
  BY <1>0, <1>1, <1>4 DEF Owned, InTask, Created, TypeOK
<1>7. ClientsOut'
  BY <1>0, <1>1 DEF ClientsOut, Created, Callers, TypeOK
<1>8. Sleepers' /\ FreedUnused'
  BY <1>0, <1>1, NotFreed DEF Sleepers, FreedUnused, Being, Created, TypeOK
<1>9. PendingBound'
  BY DEF IInv, Created, PendingBound, PendingExact, counts
<1>10. QED BY <1>2, <1>5, <1>6, <1>7, <1>8, <1>9 DEF IInv

(* A submission that needed a thread returns. *)
LEMMA ReturnsInv ==
    ASSUME IInv, NEW c \in Callers, NEW value \in {"ok", "error"},
           c \in Starting, Returns(c, value), starting' = starting - 1,
           UNCHANGED <<state, thread>>
    PROVE  /\ starting' \in Nat /\ starting' = Cardinality(Starting')
           /\ Creating' = Creating \ {c} /\ Starting' = Starting \ {c}
           /\ Open' = Open /\ Active' = Active
           /\ call' \in [Callers -> {"out", "create", "created"}]
           /\ mine' \in [Callers -> [task : Tasks \cup {None}, ctx : Ctxs \cup {None}]]
           /\ result' \in [Tasks -> {"none", "ok", "error"}]
           /\ \A d \in Starting' : mine'[d].task \in Tasks /\ mine'[d].ctx \in Ctxs
           /\ InTask' /\ ClientsOut' /\ FreedUnused'
<1>0. TypeOK /\ CountsExact /\ Owned /\ InTask /\ ClientsOut
  BY DEF IInv
<1>1. call' = [call EXCEPT ![c] = "out"]
      /\ mine' = [mine EXCEPT ![c] = [task |-> None, ctx |-> None]]
      /\ result' = [result EXCEPT ![mine[c].task] = value]
  BY DEF Returns
<1>2. Creating' = Creating \ {c}
  BY <1>0, <1>1 DEF Creating, Calling, TypeOK
<1>3. Starting' = Starting \ {c}
  BY <1>0, <1>1 DEF Starting, Calling, TypeOK
<1>4. starting' \in Nat /\ starting' = Cardinality(Starting')
  <2>1. Cardinality(Starting') = Cardinality(Starting) - 1 /\ Cardinality(Starting) > 0
    BY <1>3, Finite, Counted DEF Starting
  <2>2. Cardinality(Starting) \in Nat
    BY Finite DEF Starting
  <2>3. QED
    BY <1>0, <2>1, <2>2, CountsMeaning
<1>5. Open' = Open /\ Active' = Active
  BY DEF Open, Active, Being
<1>6. call' \in [Callers -> {"out", "create", "created"}]
      /\ mine' \in [Callers -> [task : Tasks \cup {None}, ctx : Ctxs \cup {None}]]
      /\ result' \in [Tasks -> {"none", "ok", "error"}]
  BY <1>0, <1>1 DEF TypeOK
<1>7. \A d \in Starting' : mine'[d].task \in Tasks /\ mine'[d].ctx \in Ctxs
  BY <1>0, <1>1, <1>3 DEF Owned, TypeOK, Starting, Calling
<1>8. InTask'
  BY <1>0, <1>3 DEF InTask
<1>9. ClientsOut'
  BY <1>0, <1>1 DEF ClientsOut, Callers, TypeOK
<1>10. FreedUnused'
  <2>1. call[c] # "out"
    BY DEF Starting, Calling
  <2>2. QED
    BY <2>1, NotFreed DEF FreedUnused
<1>11. QED
  BY <1>2, <1>3, <1>4, <1>5, <1>6, <1>7, <1>8, <1>9, <1>10

LEMMA StartedInv ==
    ASSUME IInv, NEW c \in Callers, Started(c)
    PROVE  IInv'
<1>0. TypeOK /\ CountsExact /\ Owned /\ Sleepers /\ PendingBound
  BY DEF IInv
<1>1. c \in Starting /\ c \notin Creating /\ Returns(c, "ok") /\ starting' = starting - 1
      /\ UNCHANGED <<state, max_count, pending, pending_count, active_count, open_count,
                     cond, thread, job, status, addr>>
  BY DEF Started, Starting, Creating, Calling, threads
<1>2. /\ starting' \in Nat /\ starting' = Cardinality(Starting')
      /\ Creating' = Creating \ {c} /\ Open' = Open /\ Active' = Active
      /\ call' \in [Callers -> {"out", "create", "created"}]
      /\ mine' \in [Callers -> [task : Tasks \cup {None}, ctx : Ctxs \cup {None}]]
      /\ result' \in [Tasks -> {"none", "ok", "error"}]
      /\ \A d \in Starting' : mine'[d].task \in Tasks /\ mine'[d].ctx \in Ctxs
      /\ InTask' /\ ClientsOut' /\ FreedUnused'
  BY <1>1, ReturnsInv
<1>3. TypeOK'
  BY <1>0, <1>1, <1>2 DEF TypeOK
<1>4. CountsExact'
  <2>1. Creating' = Creating
    BY <1>1, <1>2
  <2>2. QED
    BY <1>0, <1>1, <1>2, <2>1, CountsMeaning
<1>5. Owned' /\ Sleepers' /\ PendingBound'
  BY <1>0, <1>1, <1>2 DEF Owned, Sleepers, PendingBound, PendingExact, Being
<1>6. QED BY <1>2, <1>3, <1>4, <1>5 DEF IInv

(* Taking one element off a list. *)
LEMMA Removed ==
    ASSUME NEW s \in Seq(Tasks), NEW i \in 1..Len(s)
    PROVE  RemoveAt(s, i) \in Seq(Tasks) /\ Len(RemoveAt(s, i)) = Len(s) - 1
<1>. DEFINE front == SubSeq(s, 1, i - 1)
            back == SubSeq(s, i + 1, Len(s))
<1>1. RemoveAt(s, i) = front \o back
  BY DEF RemoveAt
<1>2. Len(s) \in Nat /\ i \in Nat /\ i <= Len(s)
  OBVIOUS
<1>3. front \in Seq(Tasks) /\ Len(front) = i - 1
  BY <1>2, SubSeqProperties
<1>4. back \in Seq(Tasks) /\ Len(back) = Len(s) - i
  BY <1>2, SubSeqProperties
<1>. HIDE DEF front, back
<1>5. front \o back \in Seq(Tasks) /\ Len(front \o back) = Len(front) + Len(back)
  BY <1>3, <1>4, ConcatProperties
<1>6. QED BY <1>1, <1>2, <1>3, <1>4, <1>5

(* The thread could not be created. *)
LEMMA CreateFailedInv ==
    ASSUME IInv, NEW c \in Callers, CreateFailed(c)
    PROVE  IInv'
<1>0. TypeOK /\ CountsExact /\ Owned /\ Sleepers /\ PendingBound
  BY DEF IInv
<1>1. CreateMayFail /\ c \in Starting /\ c \in Creating
      /\ open_count' = open_count - 1 /\ starting' = starting - 1
      /\ UNCHANGED <<state, max_count, active_count, cond, thread, job>>
      /\ \E value \in {"ok", "error"} : Returns(c, value)
  BY DEF CreateFailed, Starting, Creating, Calling, threads
<1>2. /\ starting' \in Nat /\ starting' = Cardinality(Starting')
      /\ Creating' = Creating \ {c} /\ Open' = Open /\ Active' = Active
      /\ call' \in [Callers -> {"out", "create", "created"}]
      /\ mine' \in [Callers -> [task : Tasks \cup {None}, ctx : Ctxs \cup {None}]]
      /\ result' \in [Tasks -> {"none", "ok", "error"}]
      /\ \A d \in Starting' : mine'[d].task \in Tasks /\ mine'[d].ctx \in Ctxs
      /\ InTask' /\ ClientsOut' /\ FreedUnused'
  BY <1>1, ReturnsInv
<1>3. open_count' \in Nat /\ CountsExact'
  <2>1. Cardinality(Creating') = Cardinality(Creating) - 1 /\ Cardinality(Creating) > 0
    BY <1>1, <1>2, Finite, Counted DEF Creating
  <2>2. Cardinality(Open) \in Nat /\ Cardinality(Creating) \in Nat
    BY Finite DEF Open, Creating
  <2>3. QED
    BY <1>0, <1>1, <1>2, <2>1, <2>2, CountsMeaning
<1>4. /\ pending' \in Seq(Tasks) /\ pending_count' \in Nat /\ pending_count' >= Len(pending')
      /\ status' \in [Tasks -> {"new", "queued", "running", "done", "dropped"}]
      /\ addr' \in [Tasks -> Ctxs \cup {None}]
  <2>1. CASE UNCHANGED <<pending, pending_count, status, addr>>
    BY <1>0, <2>1 DEF TypeOK, PendingBound
  <2>2. CASE \E i \in Listed(c) :
                /\ pending' = RemoveAt(pending, i)
                /\ pending_count' = pending_count + 1
                /\ status' = [status EXCEPT ![pending[i]] = "dropped"]
                /\ addr' = [addr EXCEPT ![pending[i]] = None]
    <3>1. PICK i \in Listed(c) :
                /\ pending' = RemoveAt(pending, i)
                /\ pending_count' = pending_count + 1
                /\ status' = [status EXCEPT ![pending[i]] = "dropped"]
                /\ addr' = [addr EXCEPT ![pending[i]] = None]
      BY <2>2
    <3>2. i \in 1..Len(pending) /\ pending \in Seq(Tasks)
      BY <1>0 DEF Listed, TypeOK
    <3>3. pending' \in Seq(Tasks) /\ Len(pending') = Len(pending) - 1
      BY <3>1, <3>2, Removed
    <3>4. status' \in [Tasks -> {"new", "queued", "running", "done", "dropped"}]
          /\ addr' \in [Tasks -> Ctxs \cup {None}]
      BY <1>0, <3>1 DEF TypeOK
    <3>5. Len(pending) \in Nat /\ pending_count \in Nat /\ pending_count >= Len(pending)
      BY <1>0 DEF TypeOK, PendingBound
    <3>6. QED
      BY <3>1, <3>3, <3>4, <3>5
  <2>3. QED
    BY <2>1, <2>2 DEF CreateFailed
<1>5. TypeOK'
  BY <1>0, <1>1, <1>2, <1>3, <1>4 DEF TypeOK
<1>6. Owned' /\ Sleepers' /\ PendingBound'
  BY <1>0, <1>1, <1>2, <1>4 DEF Owned, Sleepers, PendingBound, Being
<1>7. QED BY <1>2, <1>3, <1>5, <1>6 DEF IInv

-----------------------------------------------------------------------------
(* The threads. *)

(* A task returns. *)
LEMMA DoneInv ==
    ASSUME IInv, NEW w \in Workers, Done(w)
    PROVE  IInv'
<1>0. TypeOK /\ CountsExact /\ Owned /\ InTask /\ ClientsOut /\ Sleepers /\ FreedUnused
  BY DEF IInv
<1>1. /\ thread[w] = "run" /\ call[w] = "out" /\ thread' = [thread EXCEPT ![w] = "back"]
      /\ UNCHANGED <<state, max_count, pending, pending_count, active_count, open_count,
                     starting, cond, call, mine, result>>
  BY DEF Done, counts, subs
<1>2. TypeOK'
  <2>1. job' \in [Workers -> Tasks \cup {None}] /\ addr' \in [Tasks -> Ctxs \cup {None}]
        /\ status' \in [Tasks -> {"new", "queued", "running", "done", "dropped"}]
    BY <1>0 DEF Done, TypeOK
  <2>2. QED
    BY <1>0, <1>1, <2>1 DEF TypeOK
<1>3. Open' = Open /\ Active' = Active
  BY <1>0, <1>1 DEF Open, Active, Being, TypeOK
<1>4. Creating' = Creating /\ Starting' = Starting
  BY <1>1 DEF Creating, Starting, Calling
<1>5. CountsExact'
  BY <1>0, <1>1, <1>3, <1>4, CountsMeaning
<1>6. Owned'
  BY <1>0, <1>1, <1>4 DEF Done, Owned, TypeOK
<1>7. InTask'
  BY <1>0, <1>1, <1>4 DEF InTask, Starting, Calling, TypeOK
<1>8. ClientsOut' /\ Sleepers' /\ FreedUnused'
  BY <1>0, <1>1 DEF ClientsOut, Sleepers, FreedUnused, Being, Calling, TypeOK
<1>9. PendingBound'
  BY <1>1 DEF IInv, PendingBound, PendingExact
<1>10. QED BY <1>2, <1>5, <1>6, <1>7, <1>8, <1>9 DEF IInv

(* The parts of the invariant that do not depend on what a thread that     *)
(* gets the mutex finds.                                                   *)
LEMMA LookFrame ==
    ASSUME IInv, NEW w \in Workers, Look(w)
    PROVE  /\ w \in Open /\ (w \in Active <=> thread[w] = "back")
           /\ w \notin cond.asleep /\ w \notin Starting /\ state # "freed"
           /\ UNCHANGED <<state, max_count, starting, call, mine, result, addr>>
           /\ Creating' = Creating /\ Starting' = Starting /\ ClientsOut'
           /\ thread' \in [Workers -> {"none", "begin", "wait", "run", "back"}]
           /\ \A v \in Workers : v # w => thread'[v] = thread[v]
           /\ InTask' /\ FreedUnused'
<1>0. TypeOK /\ InTask /\ ClientsOut /\ Sleepers /\ FreedUnused
  BY DEF IInv
<1>1. thread[w] \in {"begin", "wait", "back"} /\ w \notin cond.asleep
  BY <1>0 DEF Look, Sleepers, Being
<1>2. w \in Open /\ (w \in Active <=> thread[w] = "back")
  BY <1>1 DEF Open, Active, Being
<1>3. w \notin Starting
  BY <1>0, <1>1 DEF InTask
<1>4. state # "freed"
  BY <1>0, <1>1 DEF FreedUnused, Being
<1>5. UNCHANGED <<state, max_count, starting, call, mine, result, addr>>
  BY DEF Look, subs
<1>6. Creating' = Creating /\ Starting' = Starting /\ ClientsOut'
  BY <1>0, <1>5 DEF Creating, Starting, Calling, ClientsOut
<1>7. \E place \in {"none", "wait", "run"} : thread' = [thread EXCEPT ![w] = place]
  BY DEF Look, Loop, Leave, Take, Sleep
<1>8. thread' \in [Workers -> {"none", "begin", "wait", "run", "back"}]
      /\ \A v \in Workers : v # w => thread'[v] = thread[v]
  BY <1>0, <1>7 DEF TypeOK
<1>9. InTask' /\ FreedUnused'
  BY <1>0, <1>3, <1>4, <1>5, <1>6, <1>8 DEF InTask, FreedUnused
<1>10. QED
  BY <1>1, <1>2, <1>3, <1>4, <1>5, <1>6, <1>8, <1>9

(* A thread that leaves. *)
LEMMA LeaveInv ==
    ASSUME IInv, NEW w \in Workers, Look(w), Leave(w)
    PROVE  IInv'
<1>0. TypeOK /\ CountsExact /\ Owned /\ Sleepers /\ PendingBound
  BY DEF IInv
<1>. USE LookFrame
<1>1. thread' = [thread EXCEPT ![w] = "none"] /\ ~Takes(w)
  BY <1>0 DEF Leave, Takes, TypeOK
<1>2. /\ open_count' = open_count - 1
      /\ active_count' = active_count - (IF thread[w] = "back" THEN 1 ELSE 0)
      /\ UNCHANGED <<pending, pending_count, cond, job, status>>
  BY <1>0, <1>1 DEF Look, Leave, TypeOK
<1>3. Open' = Open \ {w}
  BY <1>0, <1>1 DEF Open, Being, TypeOK
<1>4. Active' = Active \ {w}
  BY <1>0, <1>1 DEF Active, Being, TypeOK
<1>5. open_count' = Cardinality(Open') + Cardinality(Creating') /\ open_count' \in Nat
  <2>1. Cardinality(Open') = Cardinality(Open) - 1 /\ Cardinality(Open) > 0
    BY <1>3, Finite, Counted DEF Open
  <2>2. Cardinality(Open) \in Nat /\ Cardinality(Creating) \in Nat
    BY Finite DEF Open, Creating
  <2>3. QED
    BY <1>0, <1>2, <2>1, <2>2, CountsMeaning
<1>6. active_count' = Cardinality(Active') /\ active_count' \in Nat
  <2>1. CASE thread[w] = "back"
    <3>1. Cardinality(Active') = Cardinality(Active) - 1 /\ Cardinality(Active) > 0
      BY <1>4, <2>1, Finite, Counted DEF Active
    <3>2. Cardinality(Active) \in Nat
      BY Finite DEF Active
    <3>3. QED
      BY <1>0, <1>2, <2>1, <3>1, <3>2, CountsMeaning
  <2>2. CASE thread[w] # "back"
    <3>1. Active' = Active
      BY <1>4, <2>2
    <3>2. QED
      BY <1>0, <1>2, <2>2, <3>1, CountsMeaning DEF TypeOK
  <2>3. QED BY <2>1, <2>2
<1>7. CountsExact'
  BY <1>0, <1>5, <1>6, CountsMeaning
<1>8. TypeOK'
  BY <1>0, <1>2, <1>5, <1>6 DEF TypeOK
<1>9. Owned' /\ Sleepers' /\ PendingBound'
  BY <1>0, <1>1, <1>2 DEF Owned, Sleepers, PendingBound, PendingExact, Being, TypeOK
<1>10. QED BY <1>7, <1>8, <1>9 DEF IInv

(* A thread that goes to sleep. *)
LEMMA SleepInv ==
    ASSUME IInv, NEW w \in Workers, Look(w), Sleep(w)
    PROVE  IInv'
<1>0. TypeOK /\ CountsExact /\ Owned /\ Sleepers /\ PendingBound
  BY DEF IInv
<1>. USE LookFrame
<1>1. thread' = [thread EXCEPT ![w] = "wait"] /\ ~Takes(w)
  BY <1>0 DEF Sleep, Takes, TypeOK
<1>2. /\ active_count' = active_count - (IF thread[w] = "back" THEN 1 ELSE 0)
      /\ UNCHANGED <<pending, pending_count, open_count, job, status>>
      /\ cond' = Waited(cond, w)
  BY <1>0, <1>1 DEF Look, Sleep, TypeOK
<1>3. Open' = Open
  BY <1>0, <1>1 DEF Open, Being, TypeOK
<1>4. Active' = Active \ {w}
  BY <1>0, <1>1 DEF Active, Being, TypeOK
<1>5. active_count' = Cardinality(Active') /\ active_count' \in Nat
  <2>1. CASE thread[w] = "back"
    <3>1. Cardinality(Active') = Cardinality(Active) - 1 /\ Cardinality(Active) > 0
      BY <1>4, <2>1, Finite, Counted DEF Active
    <3>2. Cardinality(Active) \in Nat
      BY Finite DEF Active
    <3>3. QED
      BY <1>0, <1>2, <2>1, <3>1, <3>2, CountsMeaning
  <2>2. CASE thread[w] # "back"
    <3>1. Active' = Active
      BY <1>4, <2>2
    <3>2. QED
      BY <1>0, <1>2, <2>2, <3>1, CountsMeaning DEF TypeOK
  <2>3. QED BY <2>1, <2>2
<1>6. CountsExact'
  BY <1>0, <1>2, <1>3, <1>5, CountsMeaning
<1>7. cond' \in CondVar(Workers) /\ cond'.asleep \subseteq cond.asleep \cup {w}
  BY <1>0, <1>2, WaitedType DEF TypeOK
<1>8. TypeOK'
  BY <1>0, <1>2, <1>5, <1>7 DEF TypeOK
<1>9. Sleepers'
  BY <1>0, <1>1, <1>7 DEF Sleepers, Being, TypeOK
<1>10. Owned' /\ PendingBound'
  BY <1>0, <1>1, <1>2 DEF Owned, PendingBound, PendingExact, TypeOK
<1>11. QED BY <1>6, <1>8, <1>9, <1>10 DEF IInv

(* A thread that takes the first task. *)
LEMMA TakeInv ==
    ASSUME IInv, NEW w \in Workers, Look(w), Take(w), pending # <<>>
    PROVE  IInv'
<1>0. TypeOK /\ CountsExact /\ Owned /\ Sleepers /\ PendingBound
  BY DEF IInv
<1>. USE LookFrame
<1>1. thread' = [thread EXCEPT ![w] = "run"] /\ Takes(w)
  BY <1>0 DEF Take, Takes, TypeOK
<1>2. /\ active_count' = active_count + 1 - (IF thread[w] = "back" THEN 1 ELSE 0)
      /\ UNCHANGED <<open_count, cond>>
      /\ job' = [job EXCEPT ![w] = Head(pending)]
      /\ status' = [status EXCEPT ![Head(pending)] = "running"]
      /\ pending' = Tail(pending) /\ pending_count' = pending_count - 1
  BY <1>0, <1>1 DEF Look, Take, TypeOK
<1>3. Open' = Open
  BY <1>0, <1>1 DEF Open, Being, TypeOK
<1>4. Active' = Active \cup {w}
  BY <1>0, <1>1 DEF Active, Being, TypeOK
<1>5. active_count' = Cardinality(Active') /\ active_count' \in Nat
  <2>1. CASE thread[w] # "back"
    <3>1. Cardinality(Active') = Cardinality(Active) + 1
      BY <1>4, <2>1, Finite, Counted DEF Active
    <3>2. Cardinality(Active) \in Nat
      BY Finite DEF Active
    <3>3. QED
      BY <1>0, <1>2, <2>1, <3>1, <3>2, CountsMeaning
  <2>2. CASE thread[w] = "back"
    <3>1. Active' = Active
      BY <1>4, <2>2
    <3>2. QED
      BY <1>0, <1>2, <2>2, <3>1, CountsMeaning DEF TypeOK
  <2>3. QED BY <2>1, <2>2
<1>6. CountsExact'
  BY <1>0, <1>2, <1>3, <1>5, CountsMeaning
<1>7. Head(pending) \in Tasks /\ Tail(pending) \in Seq(Tasks)
      /\ Len(Tail(pending)) = Len(pending) - 1
  BY <1>0, HeadTailProperties DEF TypeOK
<1>8. pending_count' \in Nat /\ pending_count' >= Len(pending')
      /\ (pending_count = Len(pending) => pending_count' = Len(pending'))
  <2>1. pending_count \in Nat /\ Len(pending) \in Nat /\ Len(pending') \in Nat
        /\ pending_count >= Len(pending)
    BY <1>0, <1>2, <1>7 DEF TypeOK, PendingBound
  <2>2. Len(pending') = Len(pending) - 1 /\ pending_count' = pending_count - 1
    BY <1>2, <1>7
  <2>3. QED
    BY <2>1, <2>2
<1>9. job' \in [Workers -> Tasks \cup {None}]
      /\ status' \in [Tasks -> {"new", "queued", "running", "done", "dropped"}]
  BY <1>0, <1>2, <1>7 DEF TypeOK
<1>10. TypeOK'
  BY <1>0, <1>2, <1>5, <1>7, <1>8, <1>9 DEF TypeOK
<1>11. Owned'
  BY <1>0, <1>1, <1>2, <1>7 DEF Owned, TypeOK
<1>12. Sleepers' /\ PendingBound'
  BY <1>0, <1>1, <1>2, <1>8 DEF Sleepers, PendingBound, PendingExact, Being, TypeOK
<1>13. QED BY <1>6, <1>10, <1>11, <1>12 DEF IInv

LEMMA NextInv == IInv /\ [Next]_vars => IInv'
<1>. SUFFICES ASSUME IInv, [Next]_vars PROVE IInv'
  OBVIOUS
<1>1. ASSUME NEW c \in Callers, CallerStep(c) PROVE IInv'
  BY <1>1, SubmitInv, QuietInv, CreatedInv, StartedInv, CreateFailedInv DEF CallerStep
<1>2. ASSUME NEW w \in Workers, WorkerStep(w) PROVE IInv'
  <2>1. CASE Look(w)
    <3>1. Leave(w) \/ Sleep(w) \/ (pending # <<>> /\ Take(w))
      BY <2>1 DEF Look, Loop
    <3>2. QED
      BY <2>1, <3>1, LeaveInv, SleepInv, TakeInv
  <2>2. CASE Done(w)
    BY <2>2, DoneInv
  <2>3. CASE Spurious(w)
    BY <2>3, QuietInv
  <2>4. QED
    BY <1>2, <2>1, <2>2, <2>3 DEF WorkerStep
<1>3. CASE \E n \in Limits : MaxThreads(n)
  BY <1>3, QuietInv
<1>4. CASE Destroy \/ Free
  BY <1>4, DestroyInv, FreeInv
<1>5. CASE Gone \/ UNCHANGED vars
  BY <1>5, QuietInv DEF Gone
<1>6. QED
  BY <1>1, <1>2, <1>3, <1>4, <1>5 DEF Next

-----------------------------------------------------------------------------
THEOREM Invariant == Spec => []IInv
BY InitInv, NextInv, PTL DEF Spec

(* The pool's state is well typed; in particular no count becomes negative *)
(* (tpool.c keeps them in plain ints and never tests for it).              *)
THEOREM TypeCorrect == Spec => []TypeOK
<1>1. IInv => TypeOK
  BY DEF IInv
<1>2. QED BY <1>1, Invariant, PTL

(* ltp_open_count, ltp_active_count and ltp_starting count the threads and *)
(* submissions they stand for, through every failed creation.              *)
THEOREM CountsTheorem == Spec => []CountsExact
<1>1. IInv => CountsExact
  BY DEF IInv
<1>2. QED BY <1>1, Invariant, PTL

(* ldap_pvt_thread_pool_destroy frees a pool that nobody uses any more. *)
THEOREM FreedTheorem == Spec => []FreedUnused
<1>1. IInv => FreedUnused
  BY DEF IInv
<1>2. QED BY <1>1, Invariant, PTL

(* As long as threads can be created, ltp_pending_count is the length of   *)
(* ltp_pending_list.                                                       *)
THEOREM PendingTheorem == ASSUME ~CreateMayFail PROVE Spec => []PendingExact
<1>1. IInv => PendingExact
  BY DEF IInv, PendingBound
<1>2. QED BY <1>1, Invariant, PTL

-----------------------------------------------------------------------------
(* No wakeup is lost.  The strengthening says that nobody sleeps any more  *)
(* once destroy has begun: only then may a thread leave tasks behind.      *)
DestroyWakes == state # "running" => cond.asleep = {}

Backlog == NoIdleBacklog /\ DestroyWakes

LEMMA AwakeFinite ==
    /\ IsFiniteSet(Awake) /\ Cardinality(Awake) \in Nat
    /\ IsFiniteSet(Awake') /\ Cardinality(Awake') \in Nat
<1>1. Awake \subseteq Workers /\ Awake' \subseteq Workers
  BY DEF Awake, Being
<1>2. IsFiniteSet(Workers)
  BY PoolAssumption, FS_Subset DEF Callers
<1>3. QED BY <1>1, <1>2, FS_Subset, FS_CardinalityType

(* A step that makes the list no longer, and no awake thread leave. *)
LEMMA NoMoreWork ==
    ASSUME TypeOK, TypeOK', Backlog, state' = state,
           Len(pending') <= Len(pending), Awake \subseteq Awake',
           cond'.asleep \subseteq cond.asleep
    PROVE  Backlog'
<1>1. Cardinality(Awake) <= Cardinality(Awake')
  BY AwakeFinite, FS_Subset
<1>2. Len(pending) \in Nat /\ Len(pending') \in Nat
  BY DEF TypeOK
<1>3. QED
  BY <1>1, <1>2, AwakeFinite DEF Backlog, NoIdleBacklog, DestroyWakes

(* A submission signals one sleeper, if there is any. *)
LEMMA SubmitWakes ==
    ASSUME TypeOK, Sleepers, Backlog, NEW c \in Callers, NEW t \in Tasks, Submit(c, t)
    PROVE  Backlog'
<1>1. cond' \in Signalled(cond) /\ thread' = thread /\ state' = state /\ state = "running"
      /\ pending' = Append(pending, t)
  BY DEF Submit, Wake, Enlist
<1>2. CASE cond.asleep = {}
  <2>1. cond'.asleep = {}
    BY <1>1, <1>2 DEF TypeOK, Signalled, CondVar
  <2>2. QED
    BY <2>1 DEF Backlog, NoIdleBacklog, DestroyWakes
<1>3. CASE cond.asleep # {}
  <2>1. PICK v \in cond.asleep : cond' = [cond EXCEPT !.asleep = @ \ {v}]
    BY <1>1, <1>3 DEF Signalled
  <2>2. v \in Being({"wait"})
    BY DEF Sleepers
  <2>3. cond'.asleep = cond.asleep \ {v}
    BY <2>1 DEF TypeOK, CondVar
  <2>4. Awake' = Awake \cup {v} /\ v \notin Awake
    BY <1>1, <2>2, <2>3 DEF Awake, Being
  <2>5. Cardinality(Awake') = Cardinality(Awake) + 1
    BY <2>4, AwakeFinite, Counted
  <2>6. Len(pending') = Len(pending) + 1 /\ Len(pending) \in Nat
    BY <1>1 DEF TypeOK
  <2>7. QED
    BY <1>1, <1>3, <2>5, <2>6, AwakeFinite DEF Backlog, NoIdleBacklog, DestroyWakes
<1>4. QED BY <1>2, <1>3

(* A thread that gets the mutex leaves or sleeps only when there is        *)
(* nothing to do, unless destroy has woken everybody.                      *)
LEMMA LookBacklog ==
    ASSUME IInv, Backlog, NEW w \in Workers, Look(w)
    PROVE  Backlog'
<1>0. TypeOK /\ Sleepers /\ state' = state
  BY DEF IInv, Look
<1>1. CASE state # "running"
  <2>1. cond'.asleep = {}
    <3>1. state \in {"finishing", "stopping"}
      BY <1>0, <1>1, LookFrame DEF TypeOK
    <3>2. cond' = cond
      BY <3>1 DEF Look, Loop, Leave, Take
    <3>3. QED
      BY <1>1, <3>2 DEF Backlog, DestroyWakes
  <2>2. QED
    BY <2>1 DEF Backlog, NoIdleBacklog, DestroyWakes
<1>2. CASE state = "running" /\ pending = <<>>
  <2>1. pending' = <<>>
    BY <1>2 DEF Look, Loop, Leave, Sleep
  <2>2. Len(pending') = 0
    BY <2>1
  <2>3. QED
    BY <1>0, <1>2, <2>2, AwakeFinite DEF Backlog, NoIdleBacklog, DestroyWakes
<1>3. CASE state = "running" /\ pending # <<>>
  <2>1. Take(w)
    BY <1>3 DEF Look, Loop
  <2>2. w \in Awake /\ thread' = [thread EXCEPT ![w] = "run"] /\ cond' = cond
        /\ pending' = Tail(pending)
    BY <2>1 DEF Look, Take, Awake, Being
  <2>3. Awake' = Awake \ {w}
    BY <1>0, <2>2 DEF Awake, Being, TypeOK
  <2>4. Cardinality(Awake') = Cardinality(Awake) - 1
    BY <2>2, <2>3, AwakeFinite, Counted
  <2>5. Len(pending') = Len(pending) - 1 /\ Len(pending) \in Nat
    BY <1>0, <1>3, <2>2, HeadTailProperties DEF TypeOK
  <2>6. QED
    BY <1>0, <1>3, <2>2, <2>4, <2>5, AwakeFinite DEF Backlog, NoIdleBacklog, DestroyWakes
<1>4. QED BY <1>1, <1>2, <1>3

LEMMA NextBacklog == IInv /\ Backlog /\ [Next]_vars => Backlog'
<1>. SUFFICES ASSUME IInv, Backlog, [Next]_vars PROVE Backlog'
  OBVIOUS
<1>0. TypeOK /\ TypeOK' /\ Sleepers /\ Sleepers'
  BY NextInv DEF IInv
<1>1. CASE \E c \in Callers, t \in Tasks : Submit(c, t)
  BY <1>0, <1>1, SubmitWakes
<1>2. CASE \E w \in Workers : Look(w)
  BY <1>2, LookBacklog
<1>3. CASE Destroy
  <2>1. cond'.asleep = {}
    BY <1>3 DEF Destroy
  <2>2. QED
    BY <2>1 DEF Backlog, NoIdleBacklog, DestroyWakes
<1>4. CASE Free
  <2>1. cond.asleep = {} /\ cond' = cond
    BY <1>4 DEF Free, Backlog, DestroyWakes, threads
  <2>2. QED
    BY <2>1 DEF Backlog, NoIdleBacklog, DestroyWakes
<1>5. CASE \/ \E n \in Limits : MaxThreads(n)
           \/ \E c \in Callers, t \in Tasks : Refuse(c, t)
           \/ \E c \in Callers : Started(c)
           \/ Gone \/ UNCHANGED vars
  <2>1. UNCHANGED <<state, pending, cond, thread>>
    BY <1>5 DEF MaxThreads, Refuse, Started, Gone, vars, threads
  <2>2. Awake' = Awake
    BY <2>1 DEF Awake, Being
  <2>3. QED
    BY <1>0, <2>1, <2>2, NoMoreWork DEF TypeOK
<1>6. CASE \E c \in Callers : CreateFailed(c)
  <2>1. UNCHANGED <<state, cond, thread>>
    BY <1>6 DEF CreateFailed, threads
  <2>2. Awake' = Awake
    BY <2>1 DEF Awake, Being
  <2>3. Len(pending') <= Len(pending)
    <3>1. pending' = pending \/ \E i \in 1..Len(pending) : pending' = RemoveAt(pending, i)
      BY <1>6 DEF CreateFailed, Listed
    <3>2. \A i \in 1..Len(pending) : Len(RemoveAt(pending, i)) = Len(pending) - 1
      BY <1>0, Removed DEF TypeOK
    <3>3. Len(pending) \in Nat
      BY <1>0 DEF TypeOK
    <3>4. QED
      BY <3>1, <3>2, <3>3
  <2>4. QED
    BY <1>0, <2>1, <2>2, <2>3, NoMoreWork
<1>7. CASE \E w \in Workers : Done(w) \/ Spurious(w) \/ \E c \in Callers : Created(c, w)
  <2>1. PICK w \in Workers : Done(w) \/ Spurious(w) \/ \E c \in Callers : Created(c, w)
    BY <1>7
  <2>2. pending' = pending /\ state' = state
    BY <2>1 DEF Done, Spurious, Created
  <2>3. cond'.asleep \subseteq cond.asleep
    BY <1>0, <2>1 DEF Done, Spurious, Created, TypeOK, CondVar
  <2>4. \A v \in Workers : v # w => thread'[v] = thread[v]
    BY <1>0, <2>1 DEF Done, Spurious, Created, TypeOK
  <2>5. \/ w \notin Awake
        \/ thread'[w] = thread[w]
    BY <1>0, <2>1 DEF Done, Spurious, Created, Awake, Being
  <2>6. Awake \subseteq Awake'
    BY <2>3, <2>4, <2>5 DEF Awake, Being
  <2>7. Len(pending') <= Len(pending)
    BY <1>0, <2>2 DEF TypeOK
  <2>8. QED
    BY <1>0, <2>2, <2>3, <2>6, <2>7, NoMoreWork
<1>8. QED
  BY <1>1, <1>2, <1>3, <1>4, <1>5, <1>6, <1>7 DEF Next, CallerStep, WorkerStep

(* With either kind of condition variable, and also when threads cannot be *)
(* created, no thread sleeps over a task: cond_signal in submit and the    *)
(* loop that looks at the list before every wait are enough.               *)
THEOREM BacklogTheorem == Spec => []NoIdleBacklog
<1>1. Init => Backlog
  BY DEF Init, Backlog, NoIdleBacklog, DestroyWakes, NewCond
<1>2. Backlog => NoIdleBacklog
  BY DEF Backlog
<1>3. QED BY <1>1, <1>2, Invariant, NextBacklog, PTL DEF Spec

-----------------------------------------------------------------------------
(* The pool implements the queue of tasks, as long as threads can be       *)
(* created (a submission that is backed out takes a task off the middle).  *)
(* The strengthening says which tasks the list and the threads have, and   *)
(* that there is a thread as long as there is work: a thread leaves only a *)
(* list that is empty, and a submission that finds no thread creates one.  *)
Running(t) == \E w \in Workers : thread[w] = "run" /\ job[w] = t

Listing ==
    /\ \A i \in DOMAIN pending : status[pending[i]] = "queued"
    /\ \A i, j \in DOMAIN pending : pending[i] = pending[j] => i = j

Jobs ==
    /\ \A t \in Tasks : status[t] = "running" <=> Running(t)
    /\ \A v, w \in Workers : thread[v] = "run" /\ thread[w] = "run" /\ job[v] = job[w] => v = w

WorkHasThread == state \in {"running", "finishing"} /\ pending # <<>> => open_count > 0

QInv == Listing /\ Jobs /\ WorkHasThread

(* A submission adds one task to the end of the list.                      *)
LEMMA SubmitQueue ==
    ASSUME IInv, QInv, NEW c \in Callers, NEW t \in Tasks, Submit(c, t)
    PROVE  QInv' /\ Queue!Accept(t)
<1>0. TypeOK /\ status[t] = "new" /\ state = "running" /\ UNCHANGED <<state, max_count, thread, job>>
  BY DEF Submit, IInv
<1>1. pending' = Append(pending, t) /\ status' = [status EXCEPT ![t] = "queued"]
  BY DEF Submit, Enlist
<1>2. pending \in Seq(Tasks) /\ Len(pending') = Len(pending) + 1
      /\ \A i \in 1..Len(pending) : pending'[i] = pending[i] /\ pending[i] # t /\ pending[i] \in Tasks
      /\ pending'[Len(pending) + 1] = t
  BY <1>0, <1>1 DEF TypeOK, QInv, Listing
<1>3. Listing'
  <2>1. \A i \in DOMAIN pending' : status'[pending'[i]] = "queued"
    BY <1>0, <1>1, <1>2 DEF QInv, Listing, TypeOK
  <2>2. \A i, j \in DOMAIN pending' : pending'[i] = pending'[j] => i = j
    BY <1>0, <1>1, <1>2 DEF QInv, Listing, TypeOK
  <2>3. QED BY <2>1, <2>2 DEF Listing
<1>4. ~Running(t)
  BY <1>0 DEF QInv, Jobs
<1>5. Jobs'
  BY <1>0, <1>1, <1>4 DEF QInv, Jobs, Running, TypeOK
<1>6. open_count' > 0
  BY <1>0, PoolAssumption DEF Submit, NeedThread, TypeOK
<1>7. t \notin {pending[i] : i \in DOMAIN pending}
  BY <1>0 DEF QInv, Listing
<1>8. {u \in Tasks : status'[u] = "running"} = {u \in Tasks : status[u] = "running"}
      /\ {u \in Tasks : status'[u] = "done"} = {u \in Tasks : status[u] = "done"}
  BY <1>0, <1>1 DEF TypeOK
<1>9. Queue!Accept(t)
  BY <1>0, <1>1, <1>7, <1>8 DEF Queue!Accept, Queue!ToSet
<1>10. QED BY <1>3, <1>5, <1>6, <1>9 DEF QInv, WorkHasThread

(* A thread that looks at the list takes its first task, or leaves it as   *)
(* it is, and leaves for good only when it is empty or given up.           *)
LEMMA LookQueue ==
    ASSUME IInv, QInv, NEW w \in Workers, Look(w)
    PROVE  QInv' /\ (Queue!Start \/ UNCHANGED Queue!vars)
<1>0. /\ TypeOK /\ thread[w] # "run" /\ state # "freed" /\ state' = state
      /\ thread' \in [Workers -> {"none", "begin", "wait", "run", "back"}]
      /\ \A v \in Workers : v # w => thread'[v] = thread[v]
  BY LookFrame DEF Look, IInv
<1>1. CASE pending # <<>> /\ Take(w)
  <2>. DEFINE h == Head(pending)
  <2>1. /\ thread' = [thread EXCEPT ![w] = "run"] /\ pending' = Tail(pending)
        /\ UNCHANGED open_count
    BY <1>1 DEF Take
  <2>2. Takes(w)
    BY <1>0, <2>1 DEF Takes, TypeOK
  <2>3. job' = [job EXCEPT ![w] = h] /\ status' = [status EXCEPT ![h] = "running"]
    BY <2>2 DEF Look
  <2>4. /\ h \in Tasks /\ status[h] = "queued" /\ Len(pending') = Len(pending) - 1
        /\ \A i \in DOMAIN pending' : /\ i + 1 \in DOMAIN pending /\ pending'[i] = pending[i + 1]
                                      /\ pending'[i] # h /\ pending'[i] \in Tasks
    BY <1>0, <1>1, <2>1 DEF TypeOK, QInv, Listing
  <2>5. Listing'
    <3>1. \A i \in DOMAIN pending' : status'[pending'[i]] = "queued"
      BY <1>0, <2>3, <2>4 DEF QInv, Listing, TypeOK
    <3>2. ASSUME NEW i \in DOMAIN pending', NEW j \in DOMAIN pending', pending'[i] = pending'[j]
          PROVE  i = j
      <4>1. i + 1 = j + 1
        BY <2>4, <3>2 DEF QInv, Listing
      <4>2. i \in Int /\ j \in Int
        BY <1>0, <1>1, <2>1 DEF TypeOK
      <4>3. QED BY <4>1, <4>2
    <3>3. QED BY <3>1, <3>2 DEF Listing
  <2>6. \A v \in Workers : thread[v] = "run" => job[v] # h
    BY <2>4 DEF QInv, Jobs, Running
  <2>7. Jobs'
    BY <1>0, <2>1, <2>3, <2>4, <2>6 DEF QInv, Jobs, Running, TypeOK
  <2>8. WorkHasThread'
    BY <1>0, <1>1, <2>1 DEF QInv, WorkHasThread
  <2>9. state \in {"running", "finishing"}
    <3>1. state # "stopping"
      BY <1>1, <2>1, <2>2, <1>0 DEF Look, Loop, Leave, Takes, TypeOK
    <3>2. QED BY <1>0, <3>1 DEF TypeOK
  <2>10. {u \in Tasks : status'[u] = "running"} = {u \in Tasks : status[u] = "running"} \cup {h}
         /\ {u \in Tasks : status'[u] = "done"} = {u \in Tasks : status[u] = "done"}
    BY <1>0, <2>3, <2>4 DEF TypeOK
  <2>11. Queue!Start
    BY <1>0, <1>1, <2>1, <2>9, <2>10 DEF Queue!Start
  <2>12. QED BY <2>5, <2>7, <2>8, <2>11 DEF QInv
<1>2. CASE Leave(w) \/ Sleep(w)
  <2>1. thread'[w] \in {"none", "wait"} /\ pending' = pending
    BY <1>0, <1>2 DEF Leave, Sleep, TypeOK
  <2>2. UNCHANGED <<job, status>>
    BY <2>1 DEF Look, Takes
  <2>3. Listing' /\ Jobs'
    BY <1>0, <2>1, <2>2 DEF QInv, Listing, Jobs, Running
  <2>4. WorkHasThread'
    <3>1. CASE Sleep(w)
      BY <1>0, <2>1, <3>1 DEF Sleep, QInv, WorkHasThread
    <3>2. CASE Leave(w)
      <4>1. thread'[w] = "none"
        BY <1>0, <3>2 DEF Leave, TypeOK
      <4>2. state = "stopping" \/ pending = <<>>
        BY <1>0, <4>1 DEF Look, Loop, Take, Sleep, TypeOK
      <4>3. QED BY <1>0, <2>1, <4>2 DEF WorkHasThread
    <3>3. QED BY <1>2, <3>1, <3>2
  <2>5. UNCHANGED Queue!vars
    BY <1>0, <2>1, <2>2 DEF Queue!vars
  <2>6. QED BY <2>3, <2>4, <2>5 DEF QInv
<1>3. QED BY <1>1, <1>2 DEF Look, Loop

(* A task that returns is finished.                                        *)
LEMMA DoneQueue ==
    ASSUME IInv, QInv, NEW w \in Workers, Done(w)
    PROVE  QInv' /\ \E t \in Tasks : Queue!Finish(t)
<1>0. /\ TypeOK /\ Owned /\ thread[w] = "run" /\ UNCHANGED <<state, pending, open_count>>
      /\ thread' = [thread EXCEPT ![w] = "back"] /\ job' = [job EXCEPT ![w] = None]
      /\ status' = [status EXCEPT ![job[w]] = "done"]
  BY DEF Done, IInv, counts
<1>1. PICK t \in Tasks : t = job[w] /\ status[t] = "running"
  BY <1>0 DEF Owned, QInv, Jobs, Running
<1>2. \A v \in Workers : v # w /\ thread[v] = "run" => job[v] # t
  BY <1>0, <1>1 DEF QInv, Jobs
<1>3. Listing'
  BY <1>0, <1>1 DEF QInv, Listing, TypeOK
<1>4. Jobs'
  BY <1>0, <1>1, <1>2 DEF QInv, Jobs, Running, TypeOK
<1>5. WorkHasThread'
  BY <1>0 DEF QInv, WorkHasThread
<1>6. {u \in Tasks : status'[u] = "running"} = {u \in Tasks : status[u] = "running"} \ {t}
      /\ {u \in Tasks : status'[u] = "done"} = {u \in Tasks : status[u] = "done"} \cup {t}
  BY <1>0, <1>1 DEF TypeOK
<1>7. Queue!Finish(t)
  BY <1>0, <1>1, <1>6 DEF Queue!Finish
<1>8. QED BY <1>1, <1>3, <1>4, <1>5, <1>7 DEF QInv

(* When the pool is freed nothing runs, and a pool that was to finish has  *)
(* nothing pending.                                                        *)
LEMMA FreeQueue ==
    ASSUME IInv, QInv, Free
    PROVE  QInv' /\ Queue!Free
<1>0. TypeOK /\ CountsExact
  BY DEF IInv
<1>1. /\ state \in {"finishing", "stopping"} /\ open_count = 0
      /\ state' = "freed" /\ pending' = <<>> /\ UNCHANGED <<thread, job>>
      /\ status' = [u \in Tasks |-> IF status[u] = "queued" THEN "dropped" ELSE status[u]]
  BY DEF Free, Unused, threads
<1>2. Being({"begin", "wait", "run", "back"}) = {}
  <2>1. Cardinality(Being({"begin", "wait", "run", "back"})) = 0
    BY <1>0, <1>1, Finite DEF CountsExact
  <2>2. QED BY <2>1, Finite, FS_EmptySet
<1>3. \A v \in Workers : thread[v] # "run"
  BY <1>2 DEF Being
<1>4. \A u \in Tasks : status[u] # "running"
  BY <1>3 DEF QInv, Jobs, Running
<1>5. QInv'
  BY <1>1, <1>3, <1>4 DEF QInv, Listing, Jobs, Running, WorkHasThread
<1>6. state = "finishing" => pending = <<>>
  BY <1>1 DEF QInv, WorkHasThread
<1>7. {u \in Tasks : status'[u] = "running"} = {u \in Tasks : status[u] = "running"}
      /\ {u \in Tasks : status'[u] = "done"} = {u \in Tasks : status[u] = "done"}
      /\ {u \in Tasks : status[u] = "running"} = {}
  BY <1>1, <1>4
<1>8. QED BY <1>1, <1>5, <1>6, <1>7 DEF Queue!Free

(* The steps of which the queue of tasks sees nothing.                     *)
LEMMA QuietQueue ==
    ASSUME IInv, QInv,
           \/ \E c \in Callers : \/ \E t \in Tasks : Refuse(c, t)
                                 \/ \E w \in Workers : Created(c, w)
                                 \/ Started(c)
           \/ \E w \in Workers : Spurious(w)
           \/ \E n \in Limits : MaxThreads(n)
           \/ Gone \/ UNCHANGED vars
    PROVE  QInv' /\ UNCHANGED Queue!vars
<1>1. UNCHANGED <<state, pending, open_count, status, job>>
  BY DEF Refuse, Created, Started, Spurious, MaxThreads, Gone, vars, counts, threads
<1>2. \A v \in Workers : thread'[v] = "run" <=> thread[v] = "run"
  <2>1. TypeOK
    BY DEF IInv
  <2>2. ASSUME NEW c \in Callers, NEW w \in Workers, Created(c, w)
        PROVE  \A v \in Workers : thread'[v] = "run" <=> thread[v] = "run"
    BY <2>1, <2>2 DEF Created, TypeOK
  <2>3. QED
    BY <2>2 DEF Refuse, Started, Spurious, MaxThreads, Gone, vars, threads
<1>3. QInv'
  BY <1>1, <1>2 DEF QInv, Listing, Jobs, Running, WorkHasThread
<1>4. QED BY <1>1, <1>3 DEF Queue!vars

(* As long as threads can be created the pool runs its tasks in the order  *)
(* in which it accepted them, each once, and is not gone before a task     *)
(* that runs, nor when run_pending was asked for before those that wait.   *)
THEOREM QueueTheorem == ASSUME ~CreateMayFail PROVE Spec => QueueSpec
<1>1. Init => Queue!Init /\ QInv
  BY DEF Init, Queue!Init, QInv, Listing, Jobs, Running, WorkHasThread
<1>2. ASSUME IInv, QInv, [Next]_vars
      PROVE  QInv' /\ [Queue!Next]_(Queue!vars)
  <2>1. ASSUME NEW c \in Callers, NEW t \in Tasks, Submit(c, t)
        PROVE  QInv' /\ [Queue!Next]_(Queue!vars)
    BY <1>2, <2>1, SubmitQueue DEF Queue!Next
  <2>2. ASSUME NEW w \in Workers, Look(w) PROVE QInv' /\ [Queue!Next]_(Queue!vars)
    BY <1>2, <2>2, LookQueue DEF Queue!Next
  <2>3. ASSUME NEW w \in Workers, Done(w) PROVE QInv' /\ [Queue!Next]_(Queue!vars)
    BY <1>2, <2>3, DoneQueue DEF Queue!Next
  <2>4. CASE Free
    BY <1>2, <2>4, FreeQueue DEF Queue!Next
  <2>5. CASE Destroy
    <3>1. /\ state = "running" /\ state' \in {"finishing", "stopping"}
          /\ UNCHANGED <<pending, open_count, status, thread, job>>
      BY <2>5 DEF Destroy, counts
    <3>2. QInv'
      BY <1>2, <3>1 DEF QInv, Listing, Jobs, Running, WorkHasThread
    <3>3. Queue!Close
      BY <3>1 DEF Queue!Close
    <3>4. QED BY <3>2, <3>3 DEF Queue!Next
  <2>6. ASSUME NEW c \in Callers, CallerStep(c) PROVE QInv' /\ [Queue!Next]_(Queue!vars)
    <3>1. ~CreateFailed(c)
      BY DEF CreateFailed
    <3>2. CASE \E t \in Tasks : Submit(c, t)
      BY <2>1, <3>2
    <3>3. CASE (\E t \in Tasks : Refuse(c, t)) \/ (\E w \in Workers : Created(c, w)) \/ Started(c)
      BY <1>2, <3>3, QuietQueue
    <3>4. QED BY <2>6, <3>1, <3>2, <3>3 DEF CallerStep
  <2>7. ASSUME NEW w \in Workers, WorkerStep(w) PROVE QInv' /\ [Queue!Next]_(Queue!vars)
    BY <1>2, <2>2, <2>3, <2>7, QuietQueue DEF WorkerStep
  <2>8. CASE (\E n \in Limits : MaxThreads(n)) \/ Gone \/ UNCHANGED vars
    BY <1>2, <2>8, QuietQueue
  <2>9. QED
    BY <1>2, <2>4, <2>5, <2>6, <2>7, <2>8 DEF Next
<1>3. QED BY <1>1, <1>2, Invariant, PTL DEF Spec, QueueSpec, Queue!Spec
=============================================================================
