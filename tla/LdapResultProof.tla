--------------------------- MODULE LdapResultProof ---------------------------
(* Proofs about LdapResult, for every value of its constants.              *)
EXTENDS LdapResult, FiniteSetTheorems, SequenceTheorems, WellFoundedInduction, TLAPS

-----------------------------------------------------------------------------
(* Lemmas about the operators of ResponseList. *)

(* Min of a non-empty set of natural numbers is its least element.         *)
LEMMA MinNat ==
    ASSUME NEW T, T \subseteq Nat, T # {}
    PROVE  Min(T) \in T /\ \A y \in T : Min(T) <= y
<1>1. PICK x \in T : \A y \in T : ~(<<y, x>> \in OpToRel(<, Nat))
  BY WFMin, NatLessThanWellFounded, Zenon
<1>2. \A y \in T : <<y, x>> \in OpToRel(<, Nat) <=> y < x
  <2>1. TAKE y \in T
  <2>2. <<y, x>> \in Nat \X Nat /\ <<y, x>>[1] = y /\ <<y, x>>[2] = x
    OBVIOUS
  <2>3. QED BY <2>2, Zenon DEF OpToRel
<1>3. \A y \in T : ~(y < x)
  BY <1>1, <1>2, Zenon
<1>4. \A y \in T : x <= y
  BY <1>3
<1>5. QED BY <1>4 DEF Min

(* What RemoveAt leaves of a sequence.                                     *)
LEMMA RemoveAtSeq ==
    ASSUME NEW S, NEW q \in Seq(S), NEW k \in 1..Len(q)
    PROVE  /\ RemoveAt(q, k) \in Seq(S)
           /\ Len(RemoveAt(q, k)) = Len(q) - 1
           /\ \A i \in 1..(Len(q) - 1) : RemoveAt(q, k)[i] = IF i < k THEN q[i] ELSE q[i + 1]
<1>. DEFINE s1 == SubSeq(q, 1, k - 1)
            s2 == SubSeq(q, k + 1, Len(q))
<1>1. s1 \in Seq(S) /\ Len(s1) = k - 1 /\ \A i \in 1..(k - 1) : s1[i] = q[i]
  OBVIOUS
<1>2. s2 \in Seq(S) /\ Len(s2) = Len(q) - k /\ \A i \in 1..(Len(q) - k) : s2[i] = q[i + k]
  OBVIOUS
<1>3. RemoveAt(q, k) = s1 \o s2
  BY DEF RemoveAt
<1>. HIDE DEF s1, s2
<1>4. s1 \o s2 \in Seq(S) /\ Len(s1 \o s2) = Len(q) - 1
  <2>1. s1 \o s2 \in Seq(S) /\ Len(s1 \o s2) = Len(s1) + Len(s2)
    BY <1>1, <1>2, ConcatProperties
  <2>2. Len(s1) + Len(s2) = Len(q) - 1
    BY <1>1, <1>2
  <2>3. QED BY <2>1, <2>2
<1>5. ASSUME NEW i \in 1..(Len(q) - 1)
      PROVE  (s1 \o s2)[i] = IF i < k THEN q[i] ELSE q[i + 1]
  <2>1. CASE i < k
    BY <2>1, <1>1, <1>2
  <2>2. CASE ~(i < k)
    <3>1. i - (k - 1) \in 1..(Len(q) - k) /\ (i - (k - 1)) + k = i + 1
      BY <2>2
    <3>2. (s1 \o s2)[i] = s2[i - (k - 1)]
      BY <2>2, <1>1, <1>2
    <3>3. s2[i - (k - 1)] = q[i + 1]
      BY <3>1, <1>2
    <3>4. QED BY <2>2, <3>2, <3>3
  <2>3. QED BY <2>1, <2>2
<1>6. QED BY <1>3, <1>4, <1>5

(* Unlinking a node removes that operation and no other from ld_responses. *)
LEMMA UnlinkedQueue ==
    ASSUME NEW S, NEW q \in Seq(S), NEW id \in S,
           \A i, j \in DOMAIN q : q[i] = q[j] => i = j
    PROVE  /\ Unlinked(q, id) \in Seq(S)
           /\ \A i, j \in DOMAIN Unlinked(q, id) :
                 Unlinked(q, id)[i] = Unlinked(q, id)[j] => i = j
           /\ \A x \in S : Contains(Unlinked(q, id), x) <=> Contains(q, x) /\ x # id
<1>1. CASE ~Contains(q, id)
  BY <1>1 DEF Unlinked, Contains
<1>2. CASE Contains(q, id)
  <2>. DEFINE k == CHOOSE i \in DOMAIN q : q[i] = id
              r == RemoveAt(q, k)
  <2>1. k \in 1..Len(q) /\ q[k] = id
    BY <1>2 DEF Contains
  <2>2. Unlinked(q, id) = r
    BY <1>2 DEF Unlinked
  <2>. HIDE DEF k
  <2>3. /\ r \in Seq(S) /\ Len(r) = Len(q) - 1
        /\ \A i \in 1..Len(r) : r[i] = IF i < k THEN q[i] ELSE q[i + 1]
    BY <2>1, RemoveAtSeq
  <2>. HIDE DEF r
  <2>4. \A i, j \in DOMAIN r : r[i] = r[j] => i = j
    <3>1. TAKE i, j \in DOMAIN r
    <3>2. i \in 1..(Len(q) - 1) /\ j \in 1..(Len(q) - 1)
      BY <2>3
    <3>3. HAVE r[i] = r[j]
    <3>. DEFINE at(x) == IF x < k THEN x ELSE x + 1
    <3>4. at(i) \in DOMAIN q /\ at(j) \in DOMAIN q /\ q[at(i)] = q[at(j)]
      BY <2>1, <2>3, <3>2, <3>3
    <3>5. at(i) = at(j)
      BY <3>4
    <3>6. QED BY <2>1, <3>2, <3>5
  <2>5. \A x \in S : Contains(r, x) <=> Contains(q, x) /\ x # id
    <3>1. ASSUME NEW x \in S, Contains(r, x) PROVE Contains(q, x) /\ x # id
      <4>1. PICK i \in 1..Len(r) : r[i] = x
        BY <3>1 DEF Contains
      <4>2. PICK j \in 1..Len(q) : q[j] = x /\ j # k
        <5>1. CASE i < k
          BY <5>1, <4>1, <2>1, <2>3
        <5>2. CASE ~(i < k)
          <6>1. i + 1 \in 1..Len(q) /\ i + 1 # k /\ q[i + 1] = x
            BY <5>2, <4>1, <2>1, <2>3
          <6>2. QED BY <6>1
        <5>3. QED BY <5>1, <5>2
      <4>3. QED BY <4>2, <2>1 DEF Contains
    <3>2. ASSUME NEW x \in S, Contains(q, x), x # id PROVE Contains(r, x)
      <4>1. PICK i \in 1..Len(q) : q[i] = x
        BY <3>2 DEF Contains
      <4>2. i # k
        BY <4>1, <3>2, <2>1
      <4>3. CASE i < k
        BY <4>1, <4>3, <2>1, <2>3 DEF Contains
      <4>4. CASE i > k
        <5>1. i - 1 \in 1..Len(r) /\ r[i - 1] = q[i]
          BY <4>4, <2>1, <2>3
        <5>2. QED BY <5>1, <4>1 DEF Contains
      <4>5. QED BY <4>2, <4>3, <4>4, <2>1
    <3>3. QED BY <3>1, <3>2
  <2>6. QED BY <2>2, <2>3, <2>4, <2>5
<1>3. QED BY <1>1, <1>2

(* A message read is queued at the front when its operation has no node.   *)
LEMMA QueuedQueue ==
    ASSUME NEW S, NEW q \in Seq(S), NEW id \in S,
           \A i, j \in DOMAIN q : q[i] = q[j] => i = j
    PROVE  /\ Queued(q, id) \in Seq(S)
           /\ \A i, j \in DOMAIN Queued(q, id) :
                 Queued(q, id)[i] = Queued(q, id)[j] => i = j
           /\ \A x \in S : Contains(Queued(q, id), x) <=> Contains(q, x) \/ x = id
<1>1. CASE Contains(q, id)
  BY <1>1 DEF Queued, Contains
<1>2. CASE ~Contains(q, id)
  <2>. DEFINE r == <<id>> \o q
  <2>1. Queued(q, id) = r
    BY <1>2 DEF Queued
  <2>2. /\ r \in Seq(S) /\ Len(r) = Len(q) + 1 /\ r[1] = id
        /\ \A i \in 2..Len(r) : r[i] = q[i - 1]
    OBVIOUS
  <2>3. \A i \in 1..Len(q) : q[i] # id /\ r[i + 1] = q[i]
    BY <1>2 DEF Contains
  <2>. HIDE DEF r
  <2>4. \A i, j \in DOMAIN r : r[i] = r[j] => i = j
    <3>1. TAKE i, j \in DOMAIN r
    <3>2. CASE i = 1 \/ j = 1
      BY <3>2, <2>2, <2>3
    <3>3. CASE i # 1 /\ j # 1
      <4>1. /\ i - 1 \in DOMAIN q /\ r[i] = q[i - 1]
            /\ j - 1 \in DOMAIN q /\ r[j] = q[j - 1]
        BY <3>3, <2>2
      <4>2. r[i] = r[j] => i - 1 = j - 1
        BY <4>1
      <4>3. QED BY <4>2, <2>2
    <3>4. QED BY <3>2, <3>3
  <2>5. \A x \in S : Contains(r, x) <=> Contains(q, x) \/ x = id
    <3>1. ASSUME NEW x \in S, Contains(q, x) PROVE Contains(r, x)
      <4>1. PICK i \in 1..Len(q) : q[i] = x
        BY <3>1 DEF Contains
      <4>2. i + 1 \in 1..Len(r) /\ r[i + 1] = x
        BY <4>1, <2>2, <2>3
      <4>3. QED BY <4>2 DEF Contains
    <3>2. ASSUME NEW x \in S, Contains(r, x) PROVE Contains(q, x) \/ x = id
      BY <3>2, <2>2 DEF Contains
    <3>3. Contains(r, id)
      BY <2>2 DEF Contains
    <3>4. QED BY <3>1, <3>2, <3>3
  <2>6. QED BY <2>1, <2>2, <2>4, <2>5
<1>3. QED BY <1>1, <1>2

(* A chain with a message added is a non-empty chain.                      *)
LEMMA ChainedType ==
    ASSUME NEW S, NEW ch \in Seq(S), NEW m \in S
    PROVE  Chained(ch, m) \in Seq(S) /\ Chained(ch, m) # <<>>
<1>. DEFINE cut == {i \in 2..Len(ch) : ~NonFinal(ch[i])}
<1>1. Chained(ch, m) = Append(IF cut = {} THEN ch ELSE SubSeq(ch, 1, Min(cut) - 1), m)
  BY DEF Chained
<1>2. cut \subseteq 2..Len(ch)
  OBVIOUS
<1>. HIDE DEF cut
<1>3. CASE cut = {}
  BY <1>1, <1>3
<1>4. CASE cut # {}
  <2>0. cut \subseteq Nat
    BY <1>2
  <2>1. Min(cut) \in cut
    BY <2>0, <1>4, MinNat, Zenon
  <2>2. PICK k \in 2..Len(ch) : Min(cut) = k
    BY <2>1, <1>2, Zenon
  <2>3. Chained(ch, m) = Append(SubSeq(ch, 1, k - 1), m)
    BY <1>1, <1>4, <2>2, Zenon
  <2>4. SubSeq(ch, 1, k - 1) \in Seq(S)
    OBVIOUS
  <2>5. QED BY <2>3, <2>4
<1>5. QED BY <1>3, <1>4

(* The walk along ld_responses stops, if at all, at a node of the list     *)
(* whose operation is not abandoned.                                       *)
LEMMA FoundQueued ==
    ASSUME NEW q \in Seq(MsgIds), NEW ch, NEW ab, NEW msgid, NEW one,
           ChkResponseList(q, ch, ab, msgid, one) # 0
    PROVE  LET id == ChkResponseList(q, ch, ab, msgid, one)
           IN  id \in MsgIds /\ Contains(q, id) /\ ab[id] = 0
<1>. DEFINE cand == Candidates(q, ab, msgid)
<1>1. /\ cand # {}
      /\ ChkResponseList(q, ch, ab, msgid, one) = q[Min(cand)]
  BY DEF ChkResponseList
<1>2. cand \subseteq 1..Len(q) /\ \A i \in cand : ab[q[i]] = 0
  BY DEF Candidates
<1>. HIDE DEF cand
<1>3. cand \subseteq Nat
  BY <1>2
<1>4. PICK k \in cand : Min(cand) = k
  BY <1>1, <1>3, MinNat, Zenon
<1>5. ChkResponseList(q, ch, ab, msgid, one) = q[k]
  BY <1>1, <1>4, Zenon
<1>6. k \in 1..Len(q) /\ ab[q[k]] = 0 /\ q[k] \in MsgIds
  BY <1>2
<1>7. Contains(q, q[k])
  BY <1>6 DEF Contains
<1>8. QED BY <1>5, <1>6, <1>7

(* A walk along nodes of which none is abandoned purges nothing.           *)
LEMMA NothingPurged ==
    ASSUME NEW q \in Seq(MsgIds), NEW ab \in [MsgIds -> Nat], NEW msgid,
           \A id \in MsgIds : Contains(q, id) => ab[id] = 0
    PROVE  Purged(q, ab, msgid) = {}
<1>. DEFINE cand == Candidates(q, ab, msgid)
            last == IF cand = {} THEN Len(q) ELSE Min(cand) - 1
<1>1. Purged(q, ab, msgid) = {q[i] : i \in {j \in 1..last : ab[q[j]] > 0}}
  BY DEF Purged
<1>2. cand \subseteq 1..Len(q)
  BY DEF Candidates
<1>. HIDE DEF cand
<1>3. last \in 0..Len(q)
  <2>1. CASE cand = {}
    BY <2>1
  <2>2. CASE cand # {}
    <3>1. cand \subseteq Nat
      BY <1>2
    <3>2. PICK k \in cand : Min(cand) = k
      BY <3>1, <2>2, MinNat, Zenon
    <3>3. last = k - 1
      BY <2>2, <3>2, Zenon
    <3>4. QED BY <3>3, <1>2
  <2>3. QED BY <2>1, <2>2
<1>. HIDE DEF last
<1>4. \A j \in 1..last : ab[q[j]] = 0
  BY <1>3 DEF Contains
<1>5. QED BY <1>1, <1>4

(* What is left of a chain of which something was taken, and the positions *)
(* of what was taken.                                                      *)
LEMMA TakenType ==
    ASSUME NEW ch \in Seq(Message), ch # <<>>, NEW one
    PROVE  Left(ch, one) \in Seq(Message) /\ Taken(ch, one) \in Seq(Message)
BY DEF Left, Taken

LEMMA PositionsType ==
    ASSUME NEW ms \in Seq(Message)
    PROVE  Positions(ms) \in Seq(Nat)
<1>. DEFINE M == Message
<1>1. \A m \in M : m.n \in Nat
  BY DEF Message
<1>2. \A i \in 1..Len(ms) : ms[i] \in M
  OBVIOUS
<1>. HIDE DEF M
<1>3. \A i \in 1..Len(ms) : ms[i].n \in Nat
  BY <1>1, <1>2
<1>4. QED BY <1>3 DEF Positions

-----------------------------------------------------------------------------
(* The inductive invariant. *)

(* Every id in use was drawn: the next one is fresh.                       *)
Fresh ==
    /\ \A id \in requests : id <= ld_msgid
    /\ \A id \in MsgIds : ops[id] # "none" => id <= ld_msgid

IInv == TypeOK /\ QueueExact /\ AbandonedOutOfReach /\ RefcntExact /\ Fresh

(* The session starts in the invariant.                                    *)
LEMMA InitInv == Init => IInv
<1>. SUFFICES ASSUME Init PROVE IInv
  OBVIOUS
<1>1. TypeOK
  BY BoundsAssumption DEF Init, TypeOK, MsgIds
<1>2. QueueExact
  BY DEF Init, QueueExact, Contains
<1>3. RefcntExact
  BY FS_EmptySet DEF Init, RefcntExact
<1>4. AbandonedOutOfReach /\ Fresh
  BY DEF Init, AbandonedOutOfReach, Fresh
<1>5. QED BY <1>1, <1>2, <1>3, <1>4 DEF IInv

(* The message at the head of the wire, when try_read1msg wants it, is of  *)
(* an operation in progress.                                               *)
LEMMA WantedMessage ==
    ASSUME TypeOK, wire # <<>>, Wanted(Head(wire))
    PROVE  /\ Head(wire) \in Message /\ Head(wire).id \in MsgIds
           /\ Head(wire).id \in requests /\ abandoned[Head(wire).id] = 0
<1>1. Head(wire) \in Message
  BY DEF TypeOK
<1>2. QED BY <1>1 DEF TypeOK, Wanted

(* Handing out messages keeps the type of delivered.                       *)
LEMMA HandType ==
    ASSUME TypeOK, NEW id \in MsgIds, NEW ms \in Seq(Message), Hand(id, ms)
    PROVE  /\ delivered' \in [MsgIds -> Seq(Nat)]
           /\ \A x \in MsgIds \ {id} : delivered'[x] = delivered[x]
<1>1. delivered[id] \o Positions(ms) \in Seq(Nat)
  BY PositionsType, ConcatProperties DEF TypeOK
<1>2. QED BY <1>1 DEF Hand, TypeOK

(* An operation that is in the list has a chain; under the invariant the   *)
(* purge of chkResponseList is empty.                                      *)
LEMMA PurgeEmpty ==
    ASSUME IInv, NEW msgid
    PROVE  Purged(queue, abandoned, msgid) = {}
<1>1. \A id \in MsgIds : Contains(queue, id) => abandoned[id] = 0
  BY DEF IInv, QueueExact, AbandonedOutOfReach, TypeOK
<1>2. QED BY <1>1, NothingPurged DEF IInv, TypeOK

(* What a look through ld_responses does: it takes messages of one queued  *)
(* operation that is not abandoned, or it changes nothing.                 *)
LEMMA CheckEffect ==
    ASSUME IInv, Check
    PROVE  /\ abandoned' = abandoned
           /\ \/ /\ call' = [call EXCEPT !.pc = "select"]
                 /\ UNCHANGED <<chain, queue, delivered>>
              \/ \E id \in MsgIds :
                    /\ Contains(queue, id) /\ chain[id] # <<>> /\ abandoned[id] = 0
                    /\ chain' = [chain EXCEPT ![id] = Left(chain[id], call.one)]
                    /\ queue' = IF Left(chain[id], call.one) = <<>> THEN Unlinked(queue, id)
                                ELSE queue
                    /\ Hand(id, Taken(chain[id], call.one))
                    /\ call' = NoCall
<1>. DEFINE purged == Purged(queue, abandoned, call.msgid)
            found  == ChkResponseList(queue, chain, abandoned, call.msgid, call.one)
<1>1. purged = {}
  BY PurgeEmpty
<1>2. /\ Purge(purged)
      /\ IF found # 0 THEN TakeFrom(found, purged) ELSE FindNothing(purged)
  BY DEF Check
<1>. HIDE DEF purged
<1>3. Discard(queue, purged) = queue
  BY <1>1 DEF Discard
<1>4. abandoned' = abandoned
  BY <1>1, <1>2 DEF Purge, IInv, TypeOK
<1>5. CASE found = 0
  <2>1. FindNothing(purged)
    BY <1>2, <1>5
  <2>2. chain' = chain
    BY <1>1, <2>1 DEF FindNothing, IInv, TypeOK
  <2>3. QED BY <1>3, <1>4, <2>1, <2>2 DEF FindNothing
<1>6. CASE found # 0
  <2>1. found \in MsgIds /\ Contains(queue, found) /\ abandoned[found] = 0
    BY <1>6, FoundQueued DEF IInv, TypeOK
  <2>. HIDE DEF found
  <2>2. chain[found] # <<>>
    BY <2>1 DEF IInv, QueueExact
  <2>3. TakeFrom(found, purged)
    BY <1>2, <1>6
  <2>4. chain' = [chain EXCEPT ![found] = Left(chain[found], call.one)]
    BY <1>1, <2>1, <2>3 DEF TakeFrom, IInv, TypeOK
  <2>5. QED BY <1>3, <1>4, <2>1, <2>2, <2>3, <2>4 DEF TakeFrom
<1>7. QED BY <1>5, <1>6

-----------------------------------------------------------------------------
(* What reading a message does to ld_responses and to the requests.        *)

(* A request that try_read1msg completes gives its reference back.         *)
LEMMA ReleaseEffect ==
    ASSUME IInv, NEW m \in Message, m.id \in requests, Release(m)
    PROVE  /\ requests' \subseteq requests
           /\ refcnt' \in Int
           /\ refcnt = 1 + Cardinality(requests) => refcnt' = 1 + Cardinality(requests')
<1>1. IsFiniteSet(requests)
  <2>1. IsFiniteSet(1..MaxMsgid) /\ requests \in SUBSET (1..MaxMsgid)
    BY FS_Interval, BoundsAssumption DEF IInv, TypeOK, MsgIds
  <2>2. QED BY <2>1, FS_Subset
<1>2. Cardinality(requests) \in Nat /\ Cardinality(requests \ {m.id}) = Cardinality(requests) - 1
  BY <1>1, FS_CardinalityType, FS_RemoveElement
<1>3. CASE Completes(m)
  <2>1. requests' = requests \ {m.id} /\ refcnt' = refcnt - 1
    BY <1>3 DEF Release
  <2>2. refcnt \in Int
    BY DEF IInv, TypeOK
  <2>. HIDE DEF IInv
  <2>3. QED BY <1>2, <2>1, <2>2
<1>4. CASE ~Completes(m)
  BY <1>4 DEF Release, IInv, TypeOK
<1>5. QED BY <1>3, <1>4

(* A message read adds to the chain of its operation, or takes that chain  *)
(* out of the list, or leaves the list alone.                              *)
LEMMA ReadEffect ==
    ASSUME IInv, Read
    PROVE  /\ wire' = Tail(wire) /\ wire' \in Seq(Message)
           /\ call' \in Calls \cup {NoCall}
           /\ \/ UNCHANGED <<requests, refcnt, queue, chain, delivered>>
              \/ \E id \in requests :
                    /\ abandoned[id] = 0
                    /\ \E m \in Message : m.id = id /\ Release(m)
                    /\ \/ /\ UNCHANGED <<queue, chain>>
                          /\ \E ms \in Seq(Message) : Hand(id, ms)
                       \/ /\ chain' = [chain EXCEPT ![id] = <<>>]
                          /\ queue' = Unlinked(queue, id)
                          /\ \E ms \in Seq(Message) : Hand(id, ms)
                       \/ /\ \E c \in Seq(Message) : c # <<>> /\ chain' = [chain EXCEPT ![id] = c]
                          /\ queue' = Queued(queue, id)
                          /\ UNCHANGED delivered
<1>. DEFINE m == Head(wire)
<1>1. wire # <<>> /\ wire' = Tail(wire)
  BY DEF Read
<1>2. m \in Message /\ wire' \in Seq(Message)
  BY <1>1 DEF IInv, TypeOK
<1>3. call # NoCall /\ call \in Calls
  BY DEF Read, NoCall, IInv, TypeOK
<1>4. call' \in Calls \cup {NoCall}
  <2>1. [call EXCEPT !.pc = "check"] \in Calls
    BY <1>3 DEF Calls
  <2>2. GoOn \/ call' = NoCall
    BY DEF Read
  <2>3. QED BY <2>1, <2>2 DEF GoOn
<1>5. Toss(m) \/ Enqueue(m) \/ HandOver(m) \/ HandChain(m)
  BY DEF Read
<1>6. CASE Toss(m)
  BY <1>1, <1>2, <1>4, <1>6 DEF Toss
<1>7. CASE ~Toss(m)
  <2>1. Wanted(m) /\ Release(m)
    BY <1>5, <1>7 DEF Enqueue, HandOver, HandChain
  <2>2. m.id \in MsgIds /\ m.id \in requests /\ abandoned[m.id] = 0
    BY <1>1, <2>1, WantedMessage DEF IInv
  <2>3. chain[m.id] \in Seq(Message)
    BY <2>2 DEF IInv, TypeOK
  <2>4. Chained(chain[m.id], m) \in Seq(Message) /\ Chained(chain[m.id], m) # <<>>
    BY <1>2, <2>3, ChainedType
  <2>5. <<m>> \in Seq(Message)
    BY <1>2
  <2>. HIDE DEF m
  <2>6. \/ /\ UNCHANGED <<queue, chain>>
           /\ \E ms \in Seq(Message) : Hand(m.id, ms)
        \/ /\ chain' = [chain EXCEPT ![m.id] = <<>>]
           /\ queue' = Unlinked(queue, m.id)
           /\ \E ms \in Seq(Message) : Hand(m.id, ms)
        \/ /\ \E c \in Seq(Message) : c # <<>> /\ chain' = [chain EXCEPT ![m.id] = c]
           /\ queue' = Queued(queue, m.id)
           /\ UNCHANGED delivered
    <3>1. CASE HandOver(m)
      BY <3>1, <2>5 DEF HandOver
    <3>2. CASE HandChain(m)
      BY <3>2, <2>4 DEF HandChain
    <3>3. CASE Enqueue(m)
      BY <3>3, <2>4 DEF Enqueue
    <3>4. QED BY <1>5, <1>7, <3>1, <3>2, <3>3
  <2>7. QED BY <1>1, <1>2, <1>4, <2>1, <2>2, <2>6
<1>8. QED BY <1>6, <1>7
-----------------------------------------------------------------------------
(* One lemma per action that touches ld_responses, ld_requests or the      *)
(* reference count.                                                        *)

(* A request is linked with a fresh id and a reference of its own.         *)
LEMMA SendStep ==
    ASSUME IInv, NEW kind \in Kinds, Send(kind)
    PROVE  IInv'
<1>1. ld_msgid' \in MsgIds /\ ld_msgid' = ld_msgid + 1 /\ ld_msgid \in Nat
  BY BoundsAssumption DEF Send, IInv, TypeOK, MsgIds
<1>2. UNCHANGED <<queue, chain, abandoned, call, session, wire, server, sent, finished,
                  delivered, aborted>>
  BY DEF Send, env
<1>3. \/ /\ requests' = requests \cup {ld_msgid'}
         /\ refcnt' = refcnt + 1
         /\ ops' = [ops EXCEPT ![ld_msgid'] = kind]
      \/ UNCHANGED <<requests, refcnt, ops>>
  BY DEF Send
<1>4. TypeOK'
  <2>1. ops' \in [MsgIds -> {"none", "search", "other"}]
    BY <1>1, <1>3, KindsAssumption DEF IInv, TypeOK
  <2>2. requests' \subseteq MsgIds /\ refcnt' \in Int
    <3>1. requests \subseteq MsgIds /\ refcnt \in Int
      BY DEF IInv, TypeOK
    <3>2. CASE requests' = requests \cup {ld_msgid'} /\ refcnt' = refcnt + 1
      BY <1>1, <3>1, <3>2
    <3>3. CASE UNCHANGED <<requests, refcnt>>
      BY <3>1, <3>3
    <3>4. QED BY <1>3, <3>2, <3>3
  <2>3. ld_msgid' \in 0..MaxMsgid
    BY <1>1 DEF MsgIds
  <2>4. QED BY <1>2, <2>1, <2>2, <2>3 DEF IInv, TypeOK
<1>5. QueueExact'
  BY <1>2 DEF IInv, QueueExact
<1>6. Fresh'
  <2>1. Fresh /\ requests \subseteq MsgIds /\ MsgIds \subseteq Nat
    BY DEF IInv, TypeOK, MsgIds
  <2>2. requests' \subseteq requests \cup {ld_msgid'}
    BY <1>3
  <2>3. \A id \in requests' : id <= ld_msgid'
    BY <1>1, <2>1, <2>2 DEF Fresh
  <2>4. \A id \in MsgIds : ops'[id] # "none" => id = ld_msgid' \/ ops[id] # "none"
    BY <1>1, <1>3 DEF IInv, TypeOK
  <2>5. \A id \in MsgIds : ops'[id] # "none" => id <= ld_msgid'
    BY <1>1, <2>1, <2>4 DEF Fresh
  <2>6. QED BY <2>3, <2>5 DEF Fresh
<1>7. AbandonedOutOfReach'
  BY <1>1, <1>2, <1>3 DEF IInv, AbandonedOutOfReach, TypeOK, MsgIds
<1>8. RefcntExact'
  <2>1. IsFiniteSet(requests)
    <3>1. IsFiniteSet(1..MaxMsgid) /\ requests \in SUBSET (1..MaxMsgid)
      BY FS_Interval, BoundsAssumption DEF IInv, TypeOK, MsgIds
    <3>2. QED BY <3>1, FS_Subset
  <2>2. ld_msgid' \notin requests
    BY <1>1 DEF IInv, Fresh, TypeOK, MsgIds
  <2>3. Cardinality(requests) \in Nat
        /\ Cardinality(requests \cup {ld_msgid'}) = Cardinality(requests) + 1
    BY <2>1, <2>2, FS_AddElement, FS_CardinalityType
  <2>4. refcnt \in Int /\ (session = "open" => refcnt = 1 + Cardinality(requests))
    BY DEF IInv, TypeOK, RefcntExact
  <2>5. QED BY <1>2, <1>3, <2>3, <2>4 DEF RefcntExact
<1>9. QED BY <1>4, <1>5, <1>6, <1>7, <1>8 DEF IInv

(* Looking through ld_responses.                                           *)
LEMMA CheckStep ==
    ASSUME IInv, Check
    PROVE  IInv'
<1>0. /\ abandoned' = abandoned
      /\ UNCHANGED <<ld_msgid, requests, refcnt, session, wire, server, sent, finished, ops, aborted>>
  BY CheckEffect DEF Check, env
<1>1. CASE call' = [call EXCEPT !.pc = "select"] /\ UNCHANGED <<chain, queue, delivered>>
  <2>1. call # NoCall /\ call \in Calls
    BY DEF Check, NoCall, IInv, TypeOK
  <2>2. call' \in Calls
    BY <1>1, <2>1 DEF Calls
  <2>3. TypeOK'
    BY <1>0, <1>1, <2>2 DEF IInv, TypeOK
  <2>4. QED
    BY <1>0, <1>1, <2>3 DEF IInv, QueueExact, AbandonedOutOfReach, RefcntExact, Fresh
<1>2. CASE \E id \in MsgIds :
              /\ Contains(queue, id) /\ chain[id] # <<>> /\ abandoned[id] = 0
              /\ chain' = [chain EXCEPT ![id] = Left(chain[id], call.one)]
              /\ queue' = IF Left(chain[id], call.one) = <<>> THEN Unlinked(queue, id)
                          ELSE queue
              /\ Hand(id, Taken(chain[id], call.one))
              /\ call' = NoCall
  <2>1. PICK id \in MsgIds :
              /\ Contains(queue, id) /\ chain[id] # <<>> /\ abandoned[id] = 0
              /\ chain' = [chain EXCEPT ![id] = Left(chain[id], call.one)]
              /\ queue' = IF Left(chain[id], call.one) = <<>> THEN Unlinked(queue, id)
                          ELSE queue
              /\ Hand(id, Taken(chain[id], call.one))
              /\ call' = NoCall
    BY <1>2
  <2>. DEFINE left == Left(chain[id], call.one)
  <2>2. left \in Seq(Message) /\ Taken(chain[id], call.one) \in Seq(Message)
    BY <2>1, TakenType DEF IInv, TypeOK
  <2>3. delivered' \in [MsgIds -> Seq(Nat)]
    BY <2>1, <2>2, HandType DEF IInv
  <2>4. /\ queue \in Seq(MsgIds)
        /\ \A i, j \in DOMAIN queue : queue[i] = queue[j] => i = j
    BY DEF IInv, TypeOK, QueueExact
  <2>5. /\ Unlinked(queue, id) \in Seq(MsgIds)
        /\ \A i, j \in DOMAIN Unlinked(queue, id) :
              Unlinked(queue, id)[i] = Unlinked(queue, id)[j] => i = j
        /\ \A x \in MsgIds : Contains(Unlinked(queue, id), x) <=> Contains(queue, x) /\ x # id
    BY <2>4, UnlinkedQueue
  <2>. HIDE DEF left
  <2>6. chain' = [chain EXCEPT ![id] = left]
        /\ queue' = IF left = <<>> THEN Unlinked(queue, id) ELSE queue
    BY <2>1 DEF left
  <2>7. TypeOK'
    BY <1>0, <2>1, <2>2, <2>3, <2>4, <2>5, <2>6 DEF IInv, TypeOK
  <2>8. QueueExact'
    <3>1. \A x \in MsgIds : chain'[x] = IF x = id THEN left ELSE chain[x]
      BY <2>6 DEF IInv, TypeOK
    <3>2. CASE left = <<>>
      BY <2>5, <2>6, <3>1, <3>2 DEF IInv, QueueExact
    <3>3. CASE left # <<>>
      BY <2>1, <2>6, <3>1, <3>3 DEF IInv, QueueExact
    <3>4. QED BY <3>2, <3>3
  <2>9. AbandonedOutOfReach' /\ RefcntExact' /\ Fresh'
    BY <1>0, <2>1, <2>6 DEF IInv, TypeOK, AbandonedOutOfReach, RefcntExact, Fresh
  <2>10. QED BY <2>7, <2>8, <2>9 DEF IInv
<1>3. QED BY <1>1, <1>2, CheckEffect

(* Reading a message.                                                      *)
LEMMA ReadStep ==
    ASSUME IInv, Read
    PROVE  IInv'
<1>0. UNCHANGED <<ld_msgid, abandoned, session, server, ops, sent, finished, aborted>>
  BY DEF Read
<1>1. wire' \in Seq(Message) /\ call' \in Calls \cup {NoCall}
  BY ReadEffect
<1>2. CASE UNCHANGED <<requests, refcnt, queue, chain, delivered>>
  BY <1>0, <1>1, <1>2 DEF IInv, TypeOK, QueueExact, AbandonedOutOfReach, RefcntExact, Fresh
<1>3. CASE ~UNCHANGED <<requests, refcnt, queue, chain, delivered>>
  <2>1. PICK id \in requests :
          /\ abandoned[id] = 0
          /\ \E m \in Message : m.id = id /\ Release(m)
          /\ \/ /\ UNCHANGED <<queue, chain>>
                /\ \E ms \in Seq(Message) : Hand(id, ms)
             \/ /\ chain' = [chain EXCEPT ![id] = <<>>]
                /\ queue' = Unlinked(queue, id)
                /\ \E ms \in Seq(Message) : Hand(id, ms)
             \/ /\ \E c \in Seq(Message) : c # <<>> /\ chain' = [chain EXCEPT ![id] = c]
                /\ queue' = Queued(queue, id)
                /\ UNCHANGED delivered
    BY <1>3, ReadEffect
  <2>2. id \in MsgIds
    BY DEF IInv, TypeOK
  <2>3. /\ requests' \subseteq requests
        /\ refcnt' \in Int
        /\ refcnt = 1 + Cardinality(requests) => refcnt' = 1 + Cardinality(requests')
    BY <2>1, ReleaseEffect
  <2>4. /\ queue \in Seq(MsgIds)
        /\ \A i, j \in DOMAIN queue : queue[i] = queue[j] => i = j
        /\ \A x \in MsgIds : Contains(queue, x) <=> chain[x] # <<>>
    BY DEF IInv, TypeOK, QueueExact
  <2>5. delivered' \in [MsgIds -> Seq(Nat)]
    BY <2>1, <2>2, HandType DEF IInv, TypeOK
  <2>6. /\ chain' \in [MsgIds -> Seq(Message)] /\ queue' \in Seq(MsgIds) /\ QueueExact'
        /\ \A x \in MsgIds \ {id} : chain'[x] = chain[x]
    <3>1. CASE UNCHANGED <<queue, chain>>
      BY <3>1 DEF IInv, TypeOK, QueueExact
    <3>2. CASE chain' = [chain EXCEPT ![id] = <<>>] /\ queue' = Unlinked(queue, id)
      <4>1. /\ Unlinked(queue, id) \in Seq(MsgIds)
            /\ \A i, j \in DOMAIN Unlinked(queue, id) :
                  Unlinked(queue, id)[i] = Unlinked(queue, id)[j] => i = j
            /\ \A x \in MsgIds : Contains(Unlinked(queue, id), x) <=> Contains(queue, x) /\ x # id
        BY <2>2, <2>4, UnlinkedQueue
      <4>2. QED BY <2>2, <2>4, <3>2, <4>1 DEF IInv, TypeOK, QueueExact
    <3>3. CASE (\E c \in Seq(Message) : c # <<>> /\ chain' = [chain EXCEPT ![id] = c])
                 /\ queue' = Queued(queue, id)
      <4>1. /\ Queued(queue, id) \in Seq(MsgIds)
            /\ \A i, j \in DOMAIN Queued(queue, id) :
                  Queued(queue, id)[i] = Queued(queue, id)[j] => i = j
            /\ \A x \in MsgIds : Contains(Queued(queue, id), x) <=> Contains(queue, x) \/ x = id
        BY <2>2, <2>4, QueuedQueue
      <4>2. QED BY <2>2, <2>4, <3>3, <4>1 DEF IInv, TypeOK, QueueExact
    <3>4. QED BY <2>1, <3>1, <3>2, <3>3
  <2>7. TypeOK'
    BY <1>0, <1>1, <2>3, <2>5, <2>6 DEF IInv, TypeOK
  <2>8. AbandonedOutOfReach' /\ Fresh'
    BY <1>0, <2>1, <2>2, <2>3, <2>6 DEF IInv, AbandonedOutOfReach, Fresh
  <2>9. RefcntExact'
    BY <1>0, <2>3 DEF IInv, RefcntExact
  <2>10. QED BY <2>6, <2>7, <2>8, <2>9 DEF IInv
<1>4. QED BY <1>2, <1>3

(* Abandoning an operation.                                                *)
LEMMA AbandonStep ==
    ASSUME IInv, NEW id \in MsgIds, Abandon(id)
    PROVE  IInv'
<1>0. /\ UNCHANGED <<call, session, wire, server, sent, finished, ops, delivered>>
      /\ chain' = [chain EXCEPT ![id] = <<>>] /\ queue' = Unlinked(queue, id)
      /\ id <= ld_msgid /\ ld_msgid \in 0..MaxMsgid
  BY DEF Abandon, DropQueued, IInv, Fresh, TypeOK, env
<1>1. /\ queue \in Seq(MsgIds)
      /\ \A i, j \in DOMAIN queue : queue[i] = queue[j] => i = j
      /\ \A x \in MsgIds : Contains(queue, x) <=> chain[x] # <<>>
  BY DEF IInv, TypeOK, QueueExact
<1>2. /\ Unlinked(queue, id) \in Seq(MsgIds)
      /\ \A i, j \in DOMAIN Unlinked(queue, id) :
            Unlinked(queue, id)[i] = Unlinked(queue, id)[j] => i = j
      /\ \A x \in MsgIds : Contains(Unlinked(queue, id), x) <=> Contains(queue, x) /\ x # id
  BY <1>1, UnlinkedQueue
<1>3. chain' \in [MsgIds -> Seq(Message)] /\ queue' \in Seq(MsgIds) /\ QueueExact'
  BY <1>0, <1>1, <1>2 DEF IInv, TypeOK, QueueExact
<1>4. CASE AbandonQueued(id)
  BY <1>0, <1>3, <1>4
  DEF AbandonQueued, IInv, TypeOK, AbandonedOutOfReach, RefcntExact, Fresh
<1>5. CASE AbandonRunning(id)
  <2>1. ld_msgid' \in 0..MaxMsgid /\ ld_msgid' = ld_msgid + 1
    BY <1>0, <1>5, BoundsAssumption DEF AbandonRunning
  <2>2. /\ requests' = requests \ {id}
        /\ refcnt' = IF id \in requests THEN refcnt - 1 ELSE refcnt
        /\ abandoned' = [abandoned EXCEPT ![id] = @ + 1]
        /\ aborted' \in {aborted, aborted \cup {id}}
    BY <1>5 DEF AbandonRunning
  <2>3. TypeOK'
    BY <1>0, <1>3, <2>1, <2>2 DEF IInv, TypeOK
  <2>4. AbandonedOutOfReach'
    BY <1>0, <2>1, <2>2 DEF IInv, TypeOK, AbandonedOutOfReach, MsgIds
  <2>5. Fresh'
    BY <1>0, <2>1, <2>2 DEF IInv, TypeOK, Fresh, MsgIds
  <2>6. RefcntExact'
    <3>1. IsFiniteSet(1..MaxMsgid) /\ requests \in SUBSET (1..MaxMsgid)
      BY FS_Interval, BoundsAssumption DEF IInv, TypeOK, MsgIds
    <3>2. IsFiniteSet(requests)
      BY <3>1, FS_Subset
    <3>3. /\ Cardinality(requests) \in Nat
          /\ Cardinality(requests \ {id}) =
               IF id \in requests THEN Cardinality(requests) - 1 ELSE Cardinality(requests)
      BY <3>2, FS_CardinalityType, FS_RemoveElement
    <3>4. refcnt \in Int /\ (session = "open" => refcnt = 1 + Cardinality(requests))
      BY DEF IInv, TypeOK, RefcntExact
    <3>5. QED BY <1>0, <2>2, <3>3, <3>4 DEF RefcntExact
  <2>7. QED BY <1>3, <2>3, <2>4, <2>5, <2>6 DEF IInv
<1>6. QED BY <1>4, <1>5 DEF Abandon

(* Unbinding frees everything.                                             *)
LEMMA UnbindStep ==
    ASSUME IInv, Unbind
    PROVE  IInv'
<1>1. TypeOK'
  BY DEF IInv, TypeOK, Unbind
<1>2. QueueExact'
  BY DEF QueueExact, Unbind, Contains
<1>3. AbandonedOutOfReach' /\ RefcntExact' /\ Fresh'
  BY DEF IInv, Unbind, AbandonedOutOfReach, RefcntExact, Fresh
<1>4. QED BY <1>1, <1>2, <1>3 DEF IInv

(* The steps that leave the session's lists alone.                         *)
LEMMA OtherStep ==
    ASSUME IInv,
           \/ \E msgid \in Asked, one, timed \in BOOLEAN : ResultCall(msgid, one, timed)
           \/ ReadError \/ Timeout
           \/ \E id \in MsgIds, type \in MsgTypes : ServerReply(id, type)
           \/ \E id \in MsgIds, ref \in BOOLEAN : ServerFinal(id, ref)
           \/ ServerNotice \/ ServerCrash
           \/ UNCHANGED vars
    PROVE  IInv'
<1>1. UNCHANGED <<ld_msgid, requests, refcnt, queue, chain, abandoned, session, ops, delivered, aborted>>
  BY DEF ResultCall, ReadError, Timeout, ServerReply, ServerFinal, ServerNotice, ServerCrash,
         vars, client
<1>2. call' \in Calls \cup {NoCall}
  <2>1. ASSUME NEW msgid \in Asked, NEW one \in BOOLEAN, NEW timed \in BOOLEAN,
               ResultCall(msgid, one, timed)
        PROVE  call' \in Calls
    <3>1. [msgid |-> msgid, one |-> one, timed |-> timed, pc |-> "check"] \in Calls
      BY DEF Calls
    <3>2. QED BY <2>1, <3>1 DEF ResultCall
  <2>2. CASE ReadError \/ Timeout
    BY <2>2 DEF ReadError, Timeout
  <2>3. ASSUME call' = call PROVE call' \in Calls \cup {NoCall}
    BY <2>3 DEF IInv, TypeOK
  <2>4. QED
    BY <2>1, <2>2, <2>3 DEF ServerReply, ServerFinal, ServerNotice, ServerCrash, vars
<1>3. wire' \in Seq(Message)
  <2>1. ASSUME NEW m \in Message, Put(m) PROVE wire' \in Seq(Message)
    BY <2>1 DEF Put, IInv, TypeOK
  <2>2. ASSUME NEW id \in MsgIds, NEW type \in MsgTypes, ServerReply(id, type)
        PROVE  wire' \in Seq(Message)
    <3>1. [id |-> id, type |-> type, n |-> sent[id] + 1, ref |-> FALSE] \in Message
      BY DEF Message, IInv, TypeOK
    <3>2. QED BY <2>1, <2>2, <3>1 DEF ServerReply
  <2>3. ASSUME NEW id \in MsgIds, NEW ref \in BOOLEAN, ServerFinal(id, ref)
        PROVE  wire' \in Seq(Message)
    <3>1. [id |-> id, type |-> IF ops[id] = "search" THEN "result" ELSE "status",
           n |-> sent[id] + 1, ref |-> ref] \in Message
      BY DEF Message, MsgTypes, IInv, TypeOK
    <3>2. QED BY <2>1, <2>3, <3>1 DEF ServerFinal
  <2>4. ASSUME ServerNotice PROVE wire' \in Seq(Message)
    <3>1. [id |-> 0, type |-> "status", n |-> 1, ref |-> FALSE] \in Message
      BY DEF Message, MsgTypes
    <3>2. QED BY <2>1, <2>4, <3>1 DEF ServerNotice
  <2>5. QED
    BY <2>2, <2>3, <2>4 DEF ResultCall, ReadError, Timeout, ServerCrash, vars, env, IInv, TypeOK
<1>4. server' \in {"up", "down"} /\ sent' \in [MsgIds -> Nat] /\ finished' \subseteq MsgIds
  <2>1. ASSUME NEW id \in MsgIds, NEW type \in MsgTypes, ServerReply(id, type)
        PROVE  sent' \in [MsgIds -> Nat] /\ UNCHANGED <<server, finished>>
    BY <2>1 DEF ServerReply, IInv, TypeOK
  <2>2. ASSUME NEW id \in MsgIds, NEW ref \in BOOLEAN, ServerFinal(id, ref)
        PROVE  finished' \subseteq MsgIds /\ UNCHANGED <<server, sent>>
    BY <2>2 DEF ServerFinal, IInv, TypeOK
  <2>3. ASSUME ServerNotice \/ ServerCrash
        PROVE  server' = "down" /\ UNCHANGED <<sent, finished>>
    BY <2>3 DEF ServerNotice, ServerCrash
  <2>4. ASSUME NEW msgid \in Asked, NEW one \in BOOLEAN, NEW timed \in BOOLEAN,
               ResultCall(msgid, one, timed)
        PROVE  UNCHANGED <<server, sent, finished>>
    BY <2>4 DEF ResultCall, env
  <2>5. ASSUME ReadError \/ Timeout \/ UNCHANGED vars
        PROVE  UNCHANGED <<server, sent, finished>>
    BY <2>5 DEF ReadError, Timeout, vars, env
  <2>6. QED
    BY <2>1, <2>2, <2>3, <2>4, <2>5 DEF IInv, TypeOK
<1>5. TypeOK'
  BY <1>1, <1>2, <1>3, <1>4 DEF IInv, TypeOK
<1>6. QED
  BY <1>1, <1>5 DEF IInv, QueueExact, AbandonedOutOfReach, RefcntExact, Fresh

(* The invariant is inductive.                                             *)
LEMMA NextInv == IInv /\ [Next]_vars => IInv'
BY SendStep, CheckStep, ReadStep, AbandonStep, UnbindStep, OtherStep DEF Next, Library

-----------------------------------------------------------------------------
(* Type correctness of the session.                                        *)
THEOREM TypeCorrect == Spec => []TypeOK
<1>1. Spec => []IInv
  BY InitInv, NextInv, PTL DEF Spec
<1>2. IInv => TypeOK
  BY DEF IInv
<1>3. QED BY <1>1, <1>2, PTL

(* ld_responses has one node for each operation with queued responses.     *)
THEOREM QueueTheorem == Spec => []QueueExact
<1>1. Spec => []IInv
  BY InitInv, NextInv, PTL DEF Spec
<1>2. IInv => QueueExact
  BY DEF IInv
<1>3. QED BY <1>1, <1>2, PTL

(* An abandoned id has neither a request nor a queued response; it is not  *)
(* the id of a later request.                                              *)
THEOREM AbandonedTheorem == Spec => []AbandonedOutOfReach
<1>1. Spec => []IInv
  BY InitInv, NextInv, PTL DEF Spec
<1>2. IInv => AbandonedOutOfReach
  BY DEF IInv
<1>3. QED BY <1>1, <1>2, PTL

(* The reference count of the connection is exact.                         *)
THEOREM RefcntTheorem == Spec => []RefcntExact
<1>1. Spec => []IInv
  BY InitInv, NextInv, PTL DEF Spec
<1>2. IInv => RefcntExact
  BY DEF IInv
<1>3. QED BY <1>1, <1>2, PTL

(* Nothing of an abandoned operation is handed out.                        *)
THEOREM AbandonedQuietTheorem == Spec => AbandonedQuiet
<1>1. ASSUME IInv, [Next]_vars, NEW id \in MsgIds, abandoned[id] > 0
      PROVE  delivered'[id] = delivered[id]
  <2>0. delivered \in [MsgIds -> Seq(Nat)]
    BY <1>1 DEF IInv, TypeOK
  <2>1. CASE Check
    <3>1. CASE delivered' = delivered
      BY <3>1
    <3>2. CASE \E it \in MsgIds : abandoned[it] = 0 /\ \E ms : Hand(it, ms)
      <4>1. PICK it \in MsgIds : abandoned[it] = 0 /\ \E ms : Hand(it, ms)
        BY <3>2
      <4>2. PICK ms : Hand(it, ms)
        BY <4>1
      <4>3. id # it
        BY <1>1, <4>1
      <4>4. QED BY <2>0, <4>2, <4>3 DEF Hand
    <3>3. QED BY <1>1, <2>1, <3>1, <3>2, CheckEffect
  <2>2. CASE Read
    <3>1. CASE delivered' = delivered
      BY <3>1
    <3>2. CASE \E it \in MsgIds : abandoned[it] = 0 /\ \E ms \in Seq(Message) : Hand(it, ms)
      <4>1. PICK it \in MsgIds : abandoned[it] = 0 /\ \E ms \in Seq(Message) : Hand(it, ms)
        BY <3>2
      <4>2. PICK ms \in Seq(Message) : Hand(it, ms)
        BY <4>1
      <4>3. id # it
        BY <1>1, <4>1
      <4>4. QED BY <2>0, <4>1, <4>2, <4>3 DEF Hand
    <3>3. requests \subseteq MsgIds
      BY <1>1 DEF IInv, TypeOK
    <3>4. QED BY <1>1, <2>2, <3>1, <3>2, <3>3, ReadEffect
  <2>3. CASE delivered' = delivered
    BY <2>3
  <2>4. QED
    BY <1>1, <2>1, <2>2, <2>3 DEF Next, Library, Send, ResultCall, ReadError, Timeout, Abandon,
       Unbind, ServerReply, ServerFinal, ServerNotice, ServerCrash, vars
<1>2. IInv /\ [Next]_vars =>
        [\A id \in MsgIds : abandoned[id] > 0 => delivered'[id] = delivered[id]]_vars
  BY <1>1
<1>3. Spec => []IInv
  BY InitInv, NextInv, PTL DEF Spec
<1>4. QED BY <1>2, <1>3, PTL DEF Spec, AbandonedQuiet

-----------------------------------------------------------------------------
(***************************************************************************)
(* The streams of responses: what the application got of an operation,     *)
(* what is queued and what is on its way.                                  *)
(***************************************************************************)

(* Sequences of messages. *)

(* The places of the messages of an operation, and their positions in the  *)
(* stream of that operation.                                               *)
At(ms, id)   == {j \in DOMAIN ms : ms[j].id = id}
Nums(ms, id) == {ms[j].n : j \in At(ms, id)}

Rising(ms, id) == \A i, j \in At(ms, id) : i < j => ms[i].n < ms[j].n

(* Positions, element by element.                                          *)
LEMMA PositionsAre ==
    ASSUME NEW ms \in Seq(Message)
    PROVE  /\ Positions(ms) \in Seq(Nat) /\ Len(Positions(ms)) = Len(ms)
           /\ \A i \in 1..Len(ms) : Positions(ms)[i] = ms[i].n
BY PositionsType DEF Positions

(* Taking the head off: only its operation has one message less, and that  *)
(* was the least.                                                          *)
LEMMA TailNums ==
    ASSUME NEW w \in Seq(Message), w # <<>>, NEW id, Rising(w, id)
    PROVE  /\ Rising(Tail(w), id)
           /\ Head(w).id # id => Nums(Tail(w), id) = Nums(w, id)
           /\ Head(w).id = id =>
                 /\ Nums(w, id) = {Head(w).n} \cup Nums(Tail(w), id)
                 /\ \A n \in Nums(Tail(w), id) : Head(w).n < n
<1>. DEFINE t == Tail(w)
<1>1. /\ Len(t) = Len(w) - 1 /\ Len(w) \in Nat \ {0} /\ DOMAIN t = 1..Len(t) /\ DOMAIN w = 1..Len(w)
      /\ \A i \in 1..Len(t) : t[i] = w[i + 1]
      /\ Head(w) = w[1]
  OBVIOUS
<1>. HIDE DEF t
<1>2. At(t, id) = {j \in 1..(Len(w) - 1) : w[j + 1].id = id}
  BY <1>1 DEF At
<1>3. At(w, id) = {j \in 1..Len(w) : w[j].id = id}
  BY <1>1 DEF At
<1>4. \A j \in At(t, id) : j + 1 \in At(w, id) /\ t[j] = w[j + 1] /\ j + 1 > 1
  BY <1>1, <1>2, <1>3
<1>5. \A j \in At(w, id) : j = 1 \/ (j - 1 \in At(t, id) /\ t[j - 1] = w[j])
  BY <1>1, <1>2, <1>3
<1>6. Rising(t, id)
  <2>1. SUFFICES ASSUME NEW i \in At(t, id), NEW j \in At(t, id)
                 PROVE  i < j => t[i].n < t[j].n
    BY DEF Rising
  <2>2. i \in Int /\ j \in Int
    BY <1>2
  <2>3. HAVE i < j
  <2>4. i + 1 < j + 1
    BY <2>2, <2>3
  <2>5. QED BY <1>4, <2>4 DEF Rising
<1>7. Head(w).id # id => Nums(t, id) = Nums(w, id)
  <2>1. HAVE Head(w).id # id
  <2>2. \A j \in At(w, id) : j # 1
    BY <1>1, <1>3, <2>1
  <2>3. Nums(t, id) \subseteq Nums(w, id)
    BY <1>4 DEF Nums
  <2>4. Nums(w, id) \subseteq Nums(t, id)
    BY <1>5, <2>2 DEF Nums
  <2>5. QED BY <2>3, <2>4
<1>8. ASSUME Head(w).id = id
      PROVE  /\ Nums(w, id) = {Head(w).n} \cup Nums(t, id)
             /\ \A n \in Nums(t, id) : Head(w).n < n
  <2>1. 1 \in At(w, id)
    BY <1>1, <1>3, <1>8
  <2>2. Nums(t, id) \subseteq Nums(w, id)
    BY <1>4 DEF Nums
  <2>3. Nums(w, id) \subseteq {Head(w).n} \cup Nums(t, id)
    BY <1>1, <1>5 DEF Nums
  <2>4. Head(w).n \in Nums(w, id)
    BY <1>1, <2>1 DEF Nums
  <2>5. ASSUME NEW n \in Nums(t, id) PROVE Head(w).n < n
    <3>1. PICK j \in At(t, id) : n = t[j].n
      BY <2>5 DEF Nums
    <3>2. j + 1 \in At(w, id) /\ n = w[j + 1].n /\ 1 < j + 1
      BY <1>4, <3>1, <1>2
    <3>3. QED BY <1>1, <2>1, <3>2 DEF Rising
  <2>6. QED BY <2>2, <2>3, <2>4, <2>5
<1>9. QED BY <1>6, <1>7, <1>8 DEF t

(* Putting a message at the end.                                           *)
LEMMA AppendNums ==
    ASSUME NEW w \in Seq(Message), NEW m \in Message, NEW id, Rising(w, id),
           m.id = id => \A n \in Nums(w, id) : n < m.n
    PROVE  /\ Rising(Append(w, m), id)
           /\ m.id # id => Nums(Append(w, m), id) = Nums(w, id)
           /\ m.id = id => Nums(Append(w, m), id) = Nums(w, id) \cup {m.n}
<1>. DEFINE a == Append(w, m)
            k == Len(w) + 1
<1>1. /\ k = Len(w) + 1 /\ Len(w) \in Nat /\ DOMAIN a = 1..k /\ DOMAIN w = 1..Len(w)
      /\ \A i \in 1..Len(w) : a[i] = w[i]
      /\ a[k] = m
  OBVIOUS
<1>. HIDE DEF a, k
<1>2. At(w, id) \subseteq 1..Len(w) /\ At(w, id) \subseteq At(a, id)
      /\ \A i \in At(w, id) : a[i] = w[i]
  BY <1>1 DEF At
<1>3. \A j \in At(a, id) : j \in At(w, id) \/ (j = k /\ m.id = id)
  BY <1>1 DEF At
<1>4. m.id = id => k \in At(a, id)
  BY <1>1 DEF At
<1>5. Rising(a, id)
  <2>1. SUFFICES ASSUME NEW i \in At(a, id), NEW j \in At(a, id)
                 PROVE  i < j => a[i].n < a[j].n
    BY DEF Rising
  <2>2. HAVE i < j
  <2>3. CASE i \in At(w, id) /\ j \in At(w, id)
    BY <1>2, <2>2, <2>3 DEF Rising
  <2>4. CASE i \in At(w, id) /\ j = k /\ m.id = id
    BY <1>1, <1>2, <2>4 DEF Nums
  <2>5. CASE i = k
    BY <1>1, <1>2, <1>3, <2>2, <2>5
  <2>6. QED BY <1>3, <2>3, <2>4, <2>5
<1>6. m.id # id => Nums(a, id) = Nums(w, id)
  <2>1. HAVE m.id # id
  <2>2. At(a, id) = At(w, id)
    BY <1>2, <1>3, <2>1
  <2>3. QED BY <1>2, <2>2 DEF Nums
<1>7. m.id = id => Nums(a, id) = Nums(w, id) \cup {m.n}
  BY <1>1, <1>2, <1>3, <1>4 DEF Nums
<1>8. QED BY <1>5, <1>6, <1>7 DEF a

(* The messages of an operation, when their positions rise through g+1 to  *)
(* t, are those positions in order.                                        *)
LEMMA InOrderPositions ==
    ASSUME NEW ms \in Seq(Message), NEW id, NEW g \in Nat, NEW t \in Nat, g <= t,
           Rising(ms, id), Nums(ms, id) = (g + 1)..t
    PROVE  Positions(InOrder(id, ms)) = [i \in 1..(t - g) |-> g + i]
<1>. DEFINE at     == At(ms, id)
            upto(i) == {j \in at : j <= i}
            nth(k) == CHOOSE i \in at : Cardinality(upto(i)) = k
<1>1. at \subseteq 1..Len(ms) /\ Len(ms) \in Nat
  BY DEF At
<1>2. \A i \in at : ms[i].n \in (g + 1)..t
  BY DEF Nums
<1>3. \A i, j \in at : (j <= i <=> ms[j].n <= ms[i].n) /\ (j = i <=> ms[j].n = ms[i].n)
  <2>1. TAKE i, j \in at
  <2>2. i \in Int /\ j \in Int /\ ms[i].n \in Int /\ ms[j].n \in Int
    BY <1>1, <1>2
  <2>3. (i < j => ms[i].n < ms[j].n) /\ (j < i => ms[j].n < ms[i].n)
    BY DEF Rising
  <2>4. QED BY <2>2, <2>3
<1>4. \A n \in (g + 1)..t : \E i \in at : ms[i].n = n
  BY DEF Nums
<1>. HIDE DEF at
<1>5. ASSUME NEW i \in at PROVE IsFiniteSet(upto(i)) /\ Cardinality(upto(i)) = ms[i].n - g
  <2>. DEFINE T == (g + 1)..(ms[i].n)
              f == [j \in upto(i) |-> ms[j].n]
  <2>1. ms[i].n \in (g + 1)..t
    BY <1>2
  <2>2. f \in [upto(i) -> T]
    BY <1>2, <1>3, <2>1
  <2>3. \A a, b \in upto(i) : f[a] = f[b] => a = b
    BY <1>3
  <2>4. \A n \in T : \E a \in upto(i) : f[a] = n
    <3>1. TAKE n \in T
    <3>2. PICK a \in at : ms[a].n = n
      BY <1>4, <2>1
    <3>3. a \in upto(i)
      BY <1>3, <3>2, <2>1
    <3>4. QED BY <3>2, <3>3
  <2>5. IsFiniteSet(upto(i))
    <3>1. upto(i) \subseteq 1..Len(ms)
      BY <1>1
    <3>. HIDE DEF upto
    <3>2. IsFiniteSet(1..Len(ms))
      BY <1>1, FS_Interval
    <3>3. QED BY <3>1, <3>2, FS_Subset
  <2>. HIDE DEF f
  <2>6. ExistsBijection(upto(i), T)
    BY <2>2, <2>3, <2>4 DEF ExistsBijection, Bijection, Injection, Surjection, IsInjective
  <2>. HIDE DEF upto
  <2>7. Cardinality(T) = Cardinality(upto(i))
    BY <2>5, <2>6, FS_Bijection
  <2>8. Cardinality(T) = ms[i].n - g
    BY <2>1, FS_Interval
  <2>9. QED BY <2>5, <2>7, <2>8
<1>6. Cardinality(at) = t - g
  <2>1. CASE g = t
    <3>1. at = {}
      BY <1>2, <2>1
    <3>2. QED BY <2>1, <3>1, FS_EmptySet
  <2>2. CASE g < t
    <3>1. PICK i \in at : ms[i].n = t
      BY <1>4, <2>2
    <3>2. upto(i) = at
      BY <1>2, <1>3, <3>1
    <3>3. QED BY <1>5, <3>1, <3>2
  <2>3. QED BY <2>1, <2>2
<1>7. ASSUME NEW k \in 1..(t - g) PROVE nth(k) \in at /\ ms[nth(k)].n = g + k
  <2>1. PICK i \in at : ms[i].n = g + k
    BY <1>4
  <2>. HIDE DEF upto
  <2>2. Cardinality(upto(i)) = k
    <3>1. Cardinality(upto(i)) = ms[i].n - g
      BY <1>5, <2>1
    <3>2. QED BY <2>1, <3>1
  <2>3. nth(k) \in at /\ Cardinality(upto(nth(k))) = k
    BY <2>2
  <2>. HIDE DEF nth
  <2>4. ms[nth(k)].n - g = k /\ ms[nth(k)].n \in (g + 1)..t
    BY <1>2, <1>5, <2>3
  <2>5. QED BY <2>3, <2>4
<1>8. InOrder(id, ms) = [k \in 1..(t - g) |-> ms[nth(k)]]
  BY <1>6 DEF InOrder, at, At
<1>. HIDE DEF nth
<1>9. QED BY <1>7, <1>8 DEF Positions

-----------------------------------------------------------------------------
(* The operators of ResponseList. *)

(* Behind non-final messages a message is simply added.                    *)
LEMMA ChainedNonFinal ==
    ASSUME NEW ch, NEW m, \A i \in DOMAIN ch : NonFinal(ch[i]), ch \in Seq(Message)
    PROVE  Chained(ch, m) = Append(ch, m)
<1>1. {i \in 2..Len(ch) : ~NonFinal(ch[i])} = {}
  OBVIOUS
<1>2. QED BY <1>1 DEF Chained

(* The walk finds nothing when the chain it stops at, if there is one, is  *)
(* not acceptable; what it finds is the acceptable chain it stops at.      *)
LEMMA Walk ==
    ASSUME NEW q \in Seq(MsgIds), NEW ch, NEW ab, NEW msgid, NEW one
    PROVE  LET cand     == Candidates(q, ab, msgid)
               first(i) == \A j \in cand : i <= j
               found    == ChkResponseList(q, ch, ab, msgid, one)
           IN  /\ found = 0 <=>
                    \A i \in cand : first(i) => ~Acceptable(ch[q[i]], msgid, one)
               /\ found # 0 =>
                    \E i \in cand : first(i) /\ found = q[i] /\ Acceptable(ch[q[i]], msgid, one)
<1>. DEFINE cand     == Candidates(q, ab, msgid)
            first(i) == \A j \in cand : i <= j
            found    == ChkResponseList(q, ch, ab, msgid, one)
<1>1. cand \subseteq 1..Len(q)
  BY DEF Candidates
<1>2. found = IF cand # {} /\ Acceptable(ch[q[Min(cand)]], msgid, one) THEN q[Min(cand)] ELSE 0
  BY DEF ChkResponseList
<1>. HIDE DEF cand, found
<1>3. /\ found = 0 <=> \A i \in cand : first(i) => ~Acceptable(ch[q[i]], msgid, one)
      /\ found # 0 =>
           \E i \in cand : first(i) /\ found = q[i] /\ Acceptable(ch[q[i]], msgid, one)
  <2>1. CASE cand = {}
    BY <1>2, <2>1
  <2>2. CASE cand # {}
    <3>1. cand \subseteq Nat
      BY <1>1
    <3>2. Min(cand) \in cand /\ first(Min(cand))
      BY <2>2, <3>1, MinNat, Zenon
    <3>3. PICK k \in cand : k = Min(cand)
      BY <3>2
    <3>4. first(k) /\ found = IF Acceptable(ch[q[k]], msgid, one) THEN q[k] ELSE 0
      BY <1>2, <2>2, <3>2, <3>3
    <3>5. \A i \in cand : first(i) <=> i = k
      BY <3>1, <3>4
    <3>6. q[k] # 0
      <4>1. q[k] \in MsgIds
        BY <1>1
      <4>2. QED BY <4>1 DEF MsgIds
    <3>. HIDE DEF first
    <3>7. QED BY <3>4, <3>5, <3>6
  <2>3. QED BY <2>1, <2>2
<1>4. QED BY <1>3 DEF cand, found

(* Taking messages from a chain splits it.                                 *)
LEMMA TakenLeft ==
    ASSUME NEW ch \in Seq(Message), ch # <<>>, NEW one \in BOOLEAN
    PROVE  /\ Taken(ch, one) \in Seq(Message) /\ Left(ch, one) \in Seq(Message)
           /\ Taken(ch, one) \o Left(ch, one) = ch
           /\ \E k \in 1..Len(ch) :
                 /\ k \in {1, Len(ch)} /\ Len(Taken(ch, one)) = k
                 /\ ~one => k = Len(ch)
                 /\ Len(Left(ch, one)) = Len(ch) - k
                 /\ \A i \in 1..(Len(ch) - k) : Left(ch, one)[i] = ch[i + k]
<1>1. CASE one
  <2>1. Taken(ch, one) = <<Head(ch)>> /\ Left(ch, one) = Tail(ch)
    BY <1>1 DEF Taken, Left
  <2>2. /\ <<Head(ch)>> \in Seq(Message) /\ Tail(ch) \in Seq(Message)
        /\ Len(<<Head(ch)>>) = 1 /\ Len(Tail(ch)) = Len(ch) - 1
        /\ \A i \in 1..(Len(ch) - 1) : Tail(ch)[i] = ch[i + 1]
        /\ Len(ch) \in Nat \ {0}
    OBVIOUS
  <2>3. <<Head(ch)>> \o Tail(ch) = ch
    OBVIOUS
  <2>4. \E k \in 1..Len(ch) :
          /\ k \in {1, Len(ch)} /\ Len(Taken(ch, one)) = k
          /\ ~one => k = Len(ch)
          /\ Len(Left(ch, one)) = Len(ch) - k
          /\ \A i \in 1..(Len(ch) - k) : Left(ch, one)[i] = ch[i + k]
    <3>1. 1 \in 1..Len(ch)
      BY <2>2
    <3>2. WITNESS 1 \in 1..Len(ch)
    <3>3. QED BY <1>1, <2>1, <2>2
  <2>5. QED BY <2>1, <2>2, <2>3, <2>4
<1>2. CASE ~one
  <2>1. Taken(ch, one) = ch /\ Left(ch, one) = <<>>
    BY <1>2 DEF Taken, Left
  <2>2. ch \o <<>> = ch /\ <<>> \in Seq(Message) /\ Len(ch) \in Nat \ {0}
    OBVIOUS
  <2>3. QED BY <1>2, <2>1, <2>2
<1>3. QED BY <1>1, <1>2

(* Positions of messages one after the other.                              *)
LEMMA PositionsConcat ==
    ASSUME NEW a \in Seq(Message), NEW b \in Seq(Message)
    PROVE  Positions(a \o b) = Positions(a) \o Positions(b)
<1>1. /\ a \o b \in Seq(Message) /\ Len(a \o b) = Len(a) + Len(b)
      /\ \A i \in 1..(Len(a) + Len(b)) : (a \o b)[i] = IF i <= Len(a) THEN a[i] ELSE b[i - Len(a)]
      /\ Len(a) \in Nat /\ Len(b) \in Nat
  BY ConcatProperties
<1>2. /\ Positions(a \o b) \in Seq(Nat) /\ Len(Positions(a \o b)) = Len(a) + Len(b)
      /\ \A i \in 1..(Len(a) + Len(b)) : Positions(a \o b)[i] = (a \o b)[i].n
  BY <1>1, PositionsAre
<1>3. /\ Positions(a) \in Seq(Nat) /\ Len(Positions(a)) = Len(a)
      /\ \A i \in 1..Len(a) : Positions(a)[i] = a[i].n
      /\ Positions(b) \in Seq(Nat) /\ Len(Positions(b)) = Len(b)
      /\ \A i \in 1..Len(b) : Positions(b)[i] = b[i].n
  BY PositionsAre
<1>. DEFINE c == Positions(a) \o Positions(b)
<1>4. /\ c \in Seq(Nat) /\ Len(c) = Len(a) + Len(b)
      /\ \A i \in 1..(Len(a) + Len(b)) :
            c[i] = IF i <= Len(a) THEN Positions(a)[i] ELSE Positions(b)[i - Len(a)]
  BY <1>3, ConcatProperties
<1>. HIDE DEF c
<1>5. ASSUME NEW i \in 1..(Len(a) + Len(b)) PROVE Positions(a \o b)[i] = c[i]
  <2>1. CASE i <= Len(a)
    <3>1. i \in 1..Len(a)
      BY <1>1, <2>1
    <3>2. QED BY <1>1, <1>2, <1>3, <1>4, <2>1, <3>1
  <2>2. CASE ~(i <= Len(a))
    <3>1. i - Len(a) \in 1..Len(b)
      BY <1>1, <2>2
    <3>2. QED BY <1>1, <1>2, <1>3, <1>4, <2>2, <3>1
  <2>3. QED BY <2>1, <2>2
<1>6. Positions(a \o b) = c
  BY <1>2, <1>4, <1>5
<1>7. QED BY <1>6 DEF c

-----------------------------------------------------------------------------
(* The inductive invariant. *)

(* How many responses of an operation the server has sent, and how many of *)
(* them have been read.                                                    *)
Total(id)  == sent[id] + (IF id \in finished THEN 1 ELSE 0)
Length(id) == Len(Got(id))

Lost(id) == id \in aborted \/ abandoned[id] > 0

(* A message is one of the first t responses of an operation, of which s   *)
(* are not final: it has a type the operation has.                         *)
Fits(m, op, s, t) ==
    /\ op # "none"
    /\ m.n \in 1..t
    /\ NonFinal(m) <=> m.n <= s
    /\ NonFinal(m) => m.type \in Responses(op) /\ ~m.ref
    /\ ~NonFinal(m) => m.type = IF op = "search" THEN "result" ELSE "status"

ChainsGenuine ==
    \A id \in MsgIds : \A i \in DOMAIN chain[id] :
        chain[id][i].id = id /\ Fits(chain[id][i], ops[id], sent[id], Total(id))

WireGenuine ==
    \A id \in MsgIds : \A j \in At(wire, id) : Fits(wire[j], ops[id], sent[id], Total(id))

(* The server has answered only what was started.                          *)
NothingUnasked ==
    \A id \in MsgIds : ops[id] = "none" => sent[id] = 0 /\ id \notin finished

(* The responses of an operation that are queued come before those on the  *)
(* wire, and both are in order.                                            *)
Ordered(id) ==
    /\ \A i, j \in DOMAIN chain[id] : i < j => chain[id][i].n < chain[id][j].n
    /\ Rising(wire, id)
    /\ \A i \in DOMAIN chain[id] : \A n \in Nums(wire, id) : chain[id][i].n < n

(* The application has an initial part of what the server sent, the rest   *)
(* is on the wire, and the request is there to receive it.                 *)
Whole(id) ==
    /\ Length(id) <= Total(id)
    /\ Got(id) = [i \in 1..Length(id) |-> i]
    /\ Nums(wire, id) = (Length(id) + 1)..Total(id)
    /\ ops[id] # "none" /\ Length(id) <= sent[id] => id \in requests
    /\ ops[id] = "other" /\ sent[id] > 0 => Got(id) = <<>>

(* The first of the partial responses was taken for the final one.         *)
Cut(id) ==
    ops[id] = "other" /\ sent[id] > 0 /\ Got(id) = <<1>> /\ id \notin requests

Part(id) == Ordered(id) /\ (Lost(id) \/ Cut(id) \/ Whole(id))

(* A caller in select has nothing to find in ld_responses.                 *)
Looked ==
    call.pc = "select" =>
        ChkResponseList(queue, chain, abandoned, call.msgid, call.one) = 0

SInv ==
    IF session = "closed" THEN call = NoCall
    ELSE /\ ChainsGenuine /\ WireGenuine /\ NothingUnasked /\ Looked
         /\ \A id \in MsgIds : Part(id)

(* The session starts in it.                                               *)
LEMMA InitStream == Init => SInv
<1>. SUFFICES ASSUME Init PROVE SInv
  OBVIOUS
<1>1. ChainsGenuine /\ WireGenuine /\ NothingUnasked /\ Looked /\ session = "open"
  BY DEF Init, ChainsGenuine, WireGenuine, NothingUnasked, Looked, NoCall, At
<1>2. ASSUME NEW id \in MsgIds PROVE Part(id)
  <2>1. /\ chain[id] = <<>> /\ delivered[id] = <<>> /\ wire = <<>> /\ ops[id] = "none"
        /\ sent[id] = 0 /\ id \notin finished
    BY DEF Init
  <2>2. Got(id) = <<>> /\ Length(id) = 0 /\ Total(id) = 0
    BY <2>1 DEF Got, Length, Total, Positions
  <2>3. At(wire, id) = {} /\ Nums(wire, id) = {}
    BY <2>1 DEF At, Nums
  <2>4. Ordered(id)
    BY <2>1, <2>3 DEF Ordered, Rising
  <2>5. Whole(id)
    BY <2>1, <2>2, <2>3 DEF Whole
  <2>6. QED BY <2>4, <2>5 DEF Part
<1>3. QED BY <1>1, <1>2 DEF SInv

(* What the server has sent before still fits when it has sent more.       *)
LEMMA FitsKept ==
    ASSUME NEW m \in Message, NEW op, NEW s \in Nat, NEW t \in Nat, NEW s2 \in Nat, NEW t2 \in Nat,
           Fits(m, op, s, t), s <= s2, t <= t2, t = s \/ s2 = s
    PROVE  Fits(m, op, s2, t2)
<1>1. m.n \in Nat
  BY DEF Message
<1>2. QED BY <1>1 DEF Fits

(* An operation that a step does not concern.                              *)
LEMMA SamePart ==
    ASSUME NEW id \in MsgIds, Part(id),
           Rising(wire', id), Nums(wire', id) = Nums(wire, id),
           UNCHANGED <<chain[id], delivered[id], ops[id], sent[id]>>,
           id \in finished' <=> id \in finished,
           id \in requests' <=> id \in requests,
           Lost(id) => Lost(id)'
    PROVE  Part(id)'
<1>1. Got(id)' = Got(id) /\ Length(id)' = Length(id) /\ Total(id)' = Total(id)
  BY DEF Got, Length, Total
<1>2. Ordered(id)'
  BY DEF Part, Ordered
<1>3. Cut(id) => Cut(id)'
  BY <1>1 DEF Cut
<1>4. Whole(id) => Whole(id)'
  BY <1>1 DEF Whole
<1>5. QED BY <1>2, <1>3, <1>4 DEF Part

(* The streams do not change when none of their parts does.                *)
LEMMA SameStreams ==
    ASSUME IInv, IInv', SInv, session = "open", session' = "open", Looked',
           UNCHANGED <<chain, wire, delivered, requests, ops, sent, finished, abandoned, aborted>>
    PROVE  SInv'
<1>1. ChainsGenuine' /\ WireGenuine' /\ NothingUnasked'
  BY DEF SInv, ChainsGenuine, WireGenuine, NothingUnasked, Total
<1>2. ASSUME NEW id \in MsgIds PROVE Part(id)'
  <2>1. Part(id)
    BY DEF SInv
  <2>2. Rising(wire', id)
    BY <2>1 DEF Part, Ordered
  <2>3. Lost(id) => Lost(id)'
    BY DEF Lost
  <2>4. QED BY <2>1, <2>2, <2>3, SamePart
<1>3. QED BY <1>1, <1>2 DEF SInv

(* The server sends a response: it joins the end of its operation's        *)
(* stream.                                                                 *)
LEMMA ServerStep ==
    ASSUME IInv, IInv', SInv, session = "open", session' = "open",
           NEW m \in Message, m.id \in MsgIds, m.id \notin finished, m.n = sent[m.id] + 1,
           Put(m), Fits(m, ops[m.id], sent'[m.id], Total(m.id)'),
           \/ sent' = [sent EXCEPT ![m.id] = @ + 1] /\ finished' = finished
           \/ sent' = sent /\ finished' = finished \cup {m.id},
           UNCHANGED <<client, call, ops, delivered, aborted>>
    PROVE  SInv'
<1>0. /\ UNCHANGED <<requests, queue, chain, abandoned>> /\ wire' = Append(wire, m)
      /\ wire \in Seq(Message) /\ sent \in [MsgIds -> Nat] /\ chain \in [MsgIds -> Seq(Message)]
  BY DEF client, Put, IInv, TypeOK
<1>1. ASSUME NEW id \in MsgIds
      PROVE  \/ id # m.id /\ sent'[id] = sent[id] /\ (id \in finished' <=> id \in finished)
             \/ /\ id = m.id /\ id \notin finished /\ Total(id) = sent[id]
                /\ Total(id)' = sent[id] + 1
                /\ \/ sent'[id] = sent[id] + 1 /\ id \notin finished'
                   \/ sent'[id] = sent[id] /\ id \in finished'
  BY <1>0 DEF Total
<1>2. ASSUME NEW id \in MsgIds, NEW x \in Message, Fits(x, ops[id], sent[id], Total(id))
      PROVE  Fits(x, ops[id], sent'[id], Total(id)')
  <2>1. /\ sent[id] \in Nat /\ sent'[id] \in Nat /\ Total(id) \in Nat /\ Total(id)' \in Nat
        /\ sent[id] <= sent'[id] /\ Total(id) <= Total(id)'
        /\ Total(id) = sent[id] \/ sent'[id] = sent[id]
    <3>1. sent[id] \in Nat
      BY <1>0
    <3>2. QED BY <3>1, <1>1 DEF Total
  <2>2. QED BY <1>2, <2>1, FitsKept
<1>3. ChainsGenuine'
  <2>1. ASSUME NEW id \in MsgIds, NEW i \in DOMAIN chain[id]
        PROVE  chain[id][i].id = id /\ Fits(chain[id][i], ops[id], sent'[id], Total(id)')
    <3>1. /\ chain[id][i] \in Message /\ chain[id][i].id = id
          /\ Fits(chain[id][i], ops[id], sent[id], Total(id))
      BY <1>0 DEF SInv, ChainsGenuine
    <3>2. QED BY <1>2, <3>1
  <2>2. QED BY <1>0, <2>1 DEF ChainsGenuine
<1>4. WireGenuine'
  <2>1. ASSUME NEW id \in MsgIds, NEW j \in At(wire, id)
        PROVE  Fits(wire[j], ops[id], sent'[id], Total(id)')
    <3>1. wire[j] \in Message /\ Fits(wire[j], ops[id], sent[id], Total(id))
      BY <1>0 DEF SInv, WireGenuine, At
    <3>2. QED BY <1>2, <3>1
  <2>2. /\ DOMAIN wire = 1..Len(wire) /\ DOMAIN wire' = 1..(Len(wire) + 1) /\ Len(wire) \in Nat
        /\ \A j \in 1..Len(wire) : wire'[j] = wire[j]
        /\ wire'[Len(wire) + 1] = m
    BY <1>0
  <2>3. ASSUME NEW id \in MsgIds, NEW j \in At(wire', id)
        PROVE  Fits(wire'[j], ops[id], sent'[id], Total(id)')
    <3>1. CASE j \in DOMAIN wire
      <4>1. j \in At(wire, id) /\ wire'[j] = wire[j]
        BY <2>2, <3>1 DEF At
      <4>2. QED BY <2>1, <4>1
    <3>2. CASE j = Len(wire) + 1
      <4>1. wire'[j] = m /\ m.id = id
        BY <2>2, <3>2 DEF At
      <4>2. QED BY <4>1
    <3>3. QED BY <2>2, <3>1, <3>2 DEF At
  <2>4. QED BY <2>3 DEF WireGenuine
<1>5. NothingUnasked'
  <2>1. ops[m.id] # "none"
    BY DEF Fits
  <2>2. QED BY <1>1, <2>1 DEF SInv, NothingUnasked
<1>6. Looked'
  BY <1>0 DEF SInv, Looked
<1>7. ASSUME NEW id \in MsgIds PROVE Part(id)'
  <2>1. Part(id) /\ Rising(wire, id)
    BY DEF SInv, Part, Ordered
  <2>2. CASE id # m.id
    <3>1. Rising(wire', id) /\ Nums(wire', id) = Nums(wire, id)
      BY <1>0, <2>1, <2>2, AppendNums
    <3>2. Lost(id) => Lost(id)'
      BY <1>0 DEF Lost
    <3>3. QED BY <1>0, <1>1, <2>1, <2>2, <3>1, <3>2, SamePart
  <2>3. CASE id = m.id
    <3>1. \A j \in At(wire, id) : wire[j].n \in 1..sent[id]
      BY <1>1, <2>3 DEF SInv, WireGenuine, Fits
    <3>2. \A n \in Nums(wire, id) : n \in 1..sent[id]
      BY <3>1 DEF Nums
    <3>3. \A i \in DOMAIN chain[id] : chain[id][i].n \in 1..sent[id]
      BY <1>1, <2>3 DEF SInv, ChainsGenuine, Fits
    <3>4. sent[id] \in Nat /\ m.n = sent[id] + 1
      BY <1>0, <2>3
    <3>5. Rising(wire', id) /\ Nums(wire', id) = Nums(wire, id) \cup {sent[id] + 1}
      BY <1>0, <2>1, <2>3, <3>2, <3>4, AppendNums
    <3>6. Ordered(id)'
      BY <1>0, <2>1, <3>3, <3>4, <3>5 DEF Part, Ordered
    <3>7. Got(id)' = Got(id) /\ Length(id)' = Length(id)
      BY <1>0 DEF Got, Length
    <3>8. Lost(id) => Lost(id)'
      BY <1>0 DEF Lost
    <3>9. Cut(id) => Cut(id)'
      BY <1>0, <1>1, <2>3, <3>4, <3>7 DEF Cut
    <3>10. Whole(id) => Whole(id)'
      <4>1. HAVE Whole(id)
      <4>2. Length(id) \in Nat /\ Length(id) <= sent[id]
        <5>1. Got(id) \in Seq(Nat)
          BY PositionsType, ConcatProperties DEF Got, IInv, TypeOK
        <5>2. QED BY <1>1, <2>3, <4>1, <5>1 DEF Whole, Length
      <4>3. Nums(wire', id) = (Length(id) + 1)..(sent[id] + 1)
        BY <1>1, <2>3, <3>4, <3>5, <4>1, <4>2 DEF Whole
      <4>4. ops[id] # "none" /\ id \in requests
        BY <2>3, <4>1, <4>2 DEF Whole, Fits
      <4>5. ops[id] = "other" /\ sent'[id] > 0 => Got(id) = <<>>
        <5>1. CASE sent[id] > 0
          BY <4>1, <5>1 DEF Whole
        <5>2. CASE sent[id] = 0
          <6>1. Length(id) = 0 /\ Got(id) = [i \in 1..Length(id) |-> i]
            BY <4>1, <4>2, <5>2 DEF Whole
          <6>2. QED BY <6>1
        <5>3. QED BY <3>4, <5>1, <5>2
      <4>6. QED BY <1>0, <1>1, <2>3, <3>4, <3>7, <4>1, <4>2, <4>3, <4>4, <4>5 DEF Whole
    <3>11. QED BY <2>1, <3>6, <3>8, <3>9, <3>10 DEF Part
  <2>4. QED BY <2>2, <2>3
<1>8. QED BY <1>3, <1>4, <1>5, <1>6, <1>7 DEF SInv

-----------------------------------------------------------------------------
(* Reading a message. *)

GotType == \A id \in MsgIds : Got(id) \in Seq(Nat) /\ Length(id) \in Nat /\ Total(id) \in Nat

LEMMA GotIsType == IInv => GotType
<1>. SUFFICES ASSUME IInv, NEW id \in MsgIds
              PROVE  Got(id) \in Seq(Nat) /\ Length(id) \in Nat /\ Total(id) \in Nat
  BY DEF GotType
<1>1. delivered[id] \in Seq(Nat) /\ Positions(chain[id]) \in Seq(Nat)
  BY PositionsType DEF IInv, TypeOK
<1>2. Got(id) \in Seq(Nat)
  BY <1>1, ConcatProperties, Zenon DEF Got
<1>. HIDE DEF Got
<1>3. Length(id) \in Nat
  BY <1>2 DEF Length
<1>4. Total(id) \in Nat
  BY DEF Total, IInv, TypeOK
<1>5. QED BY <1>2, <1>3, <1>4

(* A message that is wanted comes next in the stream of its operation, of  *)
(* which no final response was read.                                       *)
LEMMA WantedNext ==
    ASSUME IInv, SInv, session = "open", wire # <<>>, wire' = Tail(wire), NEW m, m = Head(wire),
           Wanted(m)
    PROVE  /\ m \in Message /\ m.id \in MsgIds /\ m.id \in requests /\ abandoned[m.id] = 0
           /\ Fits(m, ops[m.id], sent[m.id], Total(m.id))
           /\ \A i \in DOMAIN chain[m.id] : chain[m.id][i].n < m.n /\ NonFinal(chain[m.id][i])
           /\ Chained(chain[m.id], m) = Append(chain[m.id], m)
           /\ Rising(wire', m.id) /\ \A n \in Nums(wire', m.id) : m.n < n
           /\ Lost(m.id) \/ Whole(m.id)
           /\ Whole(m.id) =>
                 /\ m.n = Length(m.id) + 1
                 /\ Nums(wire', m.id) = (Length(m.id) + 2)..Total(m.id)
<1>. DEFINE id == m.id
<1>1. m \in Message /\ id \in MsgIds /\ id \in requests /\ abandoned[id] = 0
  BY WantedMessage DEF IInv
<1>2. wire \in Seq(Message) /\ chain[id] \in Seq(Message) /\ 1 \in At(wire, id) /\ m = wire[1]
  BY <1>1 DEF IInv, TypeOK, At
<1>3. Fits(m, ops[id], sent[id], Total(id))
  BY <1>1, <1>2 DEF SInv, WireGenuine
<1>4. Part(id)
  BY <1>1 DEF SInv
<1>5. /\ Rising(wire', id) /\ Nums(wire, id) = {m.n} \cup Nums(wire', id)
      /\ \A n \in Nums(wire', id) : m.n < n
  BY <1>2, <1>4, TailNums DEF Part, Ordered
<1>6. sent[id] \in Nat /\ Total(id) \in Nat /\ Length(id) \in Nat /\ Total(id) <= sent[id] + 1
  <2>1. sent[id] \in Nat
    BY <1>1 DEF IInv, TypeOK
  <2>2. QED BY <1>1, <2>1, GotIsType DEF GotType, Total
<1>7. ASSUME NEW i \in DOMAIN chain[id]
      PROVE  chain[id][i].n < m.n /\ NonFinal(chain[id][i])
  <2>1. chain[id][i].n < m.n
    BY <1>4, <1>5 DEF Part, Ordered
  <2>2. Fits(chain[id][i], ops[id], sent[id], Total(id))
    BY <1>1 DEF SInv, ChainsGenuine
  <2>3. QED BY <1>3, <1>6, <2>1, <2>2 DEF Fits
<1>8. Chained(chain[id], m) = Append(chain[id], m)
  BY <1>2, <1>7, ChainedNonFinal
<1>9. ~Cut(id)
  BY <1>1 DEF Cut
<1>10. ASSUME Whole(id)
       PROVE  m.n = Length(id) + 1 /\ Nums(wire', id) = (Length(id) + 2)..Total(id)
  <2>1. {m.n} \cup Nums(wire', id) = (Length(id) + 1)..Total(id)
    BY <1>5, <1>10 DEF Whole
  <2>2. m.n \in (Length(id) + 1)..Total(id)
    BY <2>1
  <2>3. Length(id) + 1 \in {m.n} \cup Nums(wire', id)
    <3>1. Length(id) + 1 \in (Length(id) + 1)..Total(id)
      BY <1>6, <2>2
    <3>2. QED BY <2>1, <3>1
  <2>4. m.n = Length(id) + 1
    BY <1>5, <1>6, <2>2, <2>3
  <2>5. \A n : n \in Nums(wire', id) <=> n \in (Length(id) + 1)..Total(id) /\ n # m.n
    BY <1>5, <2>1, <2>2
  <2>6. \A n : n \in (Length(id) + 2)..Total(id) <=>
                n \in (Length(id) + 1)..Total(id) /\ n # Length(id) + 1
    BY <1>6
  <2>7. QED BY <2>4, <2>5, <2>6
<1>11. QED BY <1>1, <1>3, <1>4, <1>5, <1>7, <1>8, <1>9, <1>10 DEF Part

(* When it is received the stream is whole with one message more, or it    *)
(* is a partial response and ends there.                                   *)
LEMMA Received ==
    ASSUME IInv, NEW m \in Message, m.id \in MsgIds, m.id \in requests,
           Fits(m, ops[m.id], sent[m.id], Total(m.id)), Whole(m.id), m.n = Length(m.id) + 1,
           Nums(wire', m.id) = (Length(m.id) + 2)..Total(m.id),
           Release(m), UNCHANGED <<ops, sent, finished>>,
           Got(m.id)' = Append(Got(m.id), m.n)
    PROVE  Cut(m.id)' \/ Whole(m.id)'
<1>. DEFINE id == m.id
            g  == Got(id)
            n  == Length(id)
<1>1. /\ g \in Seq(Nat) /\ n \in Nat /\ n = Len(g) /\ Total(id) \in Nat /\ sent[id] \in Nat
      /\ g = [i \in 1..n |-> i] /\ Total(id) <= sent[id] + 1
      /\ ops[id] \in {"none", "search", "other"}
  BY GotIsType DEF GotType, Length, Whole, Total, IInv, TypeOK
<1>2. Length(id)' = n + 1 /\ Got(id)' = [i \in 1..(n + 1) |-> i] /\ Total(id)' = Total(id)
  <2>1. Append(g, n + 1) = [i \in 1..(n + 1) |-> i]
    BY <1>1
  <2>2. Len(Append(g, n + 1)) = n + 1
    BY <1>1
  <2>3. QED BY <2>1, <2>2 DEF Length, Total
<1>3. n + 1 <= Total(id) /\ (NonFinal(m) <=> n + 1 <= sent[id])
  BY <1>1 DEF Fits
<1>4. \A x : x # id /\ x \in requests => x \in requests'
  BY DEF Release
<1>5. CASE ops[id] = "search" \/ ~NonFinal(m)
  <2>1. ASSUME n + 1 <= sent[id] PROVE id \in requests'
    <3>1. NonFinal(m) /\ ops[id] = "search" /\ m.type \in Responses("search")
      BY <1>3, <1>5, <2>1 DEF Fits
    <3>2. m.type = "entry" \/ (Version = 3 /\ m.type = "reference")
      BY <3>1 DEF Responses
    <3>3. ~Completes(m)
      BY <3>2 DEF Completes, Unchased
    <3>4. QED BY <3>3 DEF Release
  <2>2. ASSUME ops[id] = "other" PROVE sent[id] = 0
    <3>1. ~NonFinal(m) /\ ~(n + 1 <= sent[id])
      BY <1>3, <1>5, <2>2
    <3>2. ASSUME sent[id] > 0 PROVE FALSE
      <4>1. g = <<>>
        BY <2>2, <3>2 DEF Whole
      <4>2. n = 0
        BY <1>1, <4>1
      <4>3. QED BY <1>1, <3>1, <3>2, <4>2
    <3>3. QED BY <1>1, <3>2
  <2>3. Whole(id)'
    <3>1. Nums(wire', id) = (Length(id)' + 1)..Total(id)'
      <4>1. Length(id)' + 1 = n + 2
        BY <1>1, <1>2
      <4>2. QED BY <1>2, <4>1
    <3>2. Length(id)' <= Total(id)' /\ Got(id)' = [i \in 1..(Length(id)') |-> i]
      BY <1>2, <1>3
    <3>3. ops'[id] # "none" /\ Length(id)' <= sent'[id] => id \in requests'
      BY <1>2, <2>1
    <3>4. ~(ops'[id] = "other" /\ sent'[id] > 0)
      BY <1>1, <2>2
    <3>. HIDE DEF id, n, g
    <3>5. QED BY <3>1, <3>2, <3>3, <3>4 DEF Whole
  <2>4. QED BY <2>3
<1>6. CASE ops[id] = "other" /\ NonFinal(m)
  <2>1. n + 1 <= sent[id] /\ m.type \in Responses("other") /\ ~m.ref
    BY <1>3, <1>6 DEF Fits
  <2>2. m.type = "partial"
    BY <2>1 DEF Responses
  <2>3. Completes(m)
    BY <2>1, <2>2 DEF Completes, Unchased
  <2>4. id \notin requests'
    BY <2>3 DEF Release
  <2>5. g = <<>> /\ n = 0
    <3>1. sent[id] > 0
      BY <1>1, <2>1
    <3>2. g = <<>>
      BY <1>6, <3>1 DEF Whole
    <3>. HIDE DEF n
    <3>3. QED BY <1>1, <3>2
  <2>6. Got(id)' = <<1>>
    BY <1>2, <2>5
  <2>7. ops'[id] = "other" /\ sent'[id] > 0
    BY <1>1, <1>6, <2>1
  <2>8. QED BY <2>4, <2>6, <2>7 DEF Cut
<1>7. ops[id] # "none"
  BY DEF Fits
<1>8. QED BY <1>1, <1>5, <1>6, <1>7

(* A caller that reads is in select of an open session.                    *)
LEMMA ReadOpen ==
    ASSUME SInv, Read \/ ReadError \/ Timeout \/ Check, TypeOK
    PROVE  session = "open" /\ call # NoCall /\ call \in Calls
BY DEF SInv, Read, ReadError, Timeout, Check, NoCall, TypeOK

(* A message is handed over past an empty chain.                           *)
LEMMA NothingBefore ==
    ASSUME IInv, SInv, session = "open", call.pc = "select", call \in Calls,
           NEW m \in Message, m.id \in MsgIds, abandoned[m.id] = 0, Direct(m), Whole(m.id),
           Fits(m, ops[m.id], sent[m.id], Total(m.id)), m.n = Length(m.id) + 1
    PROVE  chain[m.id] = <<>>
<1>. DEFINE id == m.id
<1>1. queue \in Seq(MsgIds) /\ (Contains(queue, id) <=> chain[id] # <<>>)
  BY DEF IInv, TypeOK, QueueExact
<1>2. CASE call.one
  <2>. DEFINE cand == Candidates(queue, abandoned, call.msgid)
  <2>1. ASSUME NEW i \in DOMAIN queue, queue[i] = id PROVE FALSE
    <3>1. i \in cand
      BY <2>1 DEF Direct, Candidates
    <3>2. cand \subseteq Nat /\ cand # {}
      BY <1>1, <3>1 DEF Candidates
    <3>3. ChkResponseList(queue, chain, abandoned, call.msgid, call.one) = 0
      BY DEF SInv, Looked
    <3>4. \A k \in cand : (\A j \in cand : k <= j) =>
                              ~Acceptable(chain[queue[k]], call.msgid, call.one)
      BY <1>1, <3>3, Walk
    <3>. HIDE DEF cand
    <3>5. Min(cand) \in cand /\ \A j \in cand : Min(cand) <= j
      BY <3>2, MinNat, Zenon
    <3>6. QED BY <1>2, <3>4, <3>5 DEF Acceptable
  <2>2. QED BY <1>1, <2>1 DEF Contains
<1>3. CASE ~call.one
  <2>1. m.type \notin {"result", "entry", "reference"}
    BY <1>3 DEF Direct
  <2>2. ops[id] = "other"
    <3>1. ops[id] \in {"none", "search", "other"} /\ ops[id] # "none"
      BY DEF Fits, IInv, TypeOK
    <3>2. ASSUME ops[id] = "search" PROVE FALSE
      BY <2>1, <3>2 DEF Fits, Responses
    <3>3. QED BY <3>1, <3>2
  <2>3. sent[id] \in Nat /\ Length(id) \in Nat /\ m.n <= Total(id) /\ Got(id) \in Seq(Nat)
    BY GotIsType DEF GotType, Fits, IInv, TypeOK
  <2>4. Got(id) = <<>>
    <3>1. CASE sent[id] > 0
      BY <2>2, <3>1 DEF Whole
    <3>2. CASE sent[id] = 0
      <4>1. Total(id) <= 1
        BY <3>2 DEF Total
      <4>2. Length(id) = 0
        <5>1. Total(id) \in Nat
          BY GotIsType DEF GotType
        <5>2. QED BY <2>3, <4>1, <5>1
      <4>3. QED BY <2>3, <4>2 DEF Length
    <3>3. QED BY <2>3, <3>1, <3>2
  <2>5. /\ delivered[id] \in Seq(Nat) /\ Positions(chain[id]) \in Seq(Nat)
        /\ Len(Positions(chain[id])) = Len(chain[id]) /\ chain[id] \in Seq(Message)
    BY PositionsAre DEF IInv, TypeOK
  <2>. DEFINE a == delivered[id]
              b == Positions(chain[id])
  <2>6. a \o b = <<>>
    BY <2>4 DEF Got
  <2>7. Len(chain[id]) = 0
    <3>. HIDE DEF a, b
    <3>1. Len(a \o b) = Len(a) + Len(b)
      BY <2>5, ConcatProperties, Zenon DEF a, b
    <3>2. Len(a) \in Nat /\ Len(b) = Len(chain[id]) /\ Len(b) \in Nat
      BY <2>5 DEF a, b
    <3>3. Len(a \o b) = 0
      BY <2>6
    <3>4. QED BY <3>1, <3>2, <3>3
  <2>8. QED BY <2>5, <2>7
<1>4. QED BY <1>2, <1>3

(* What a message that is wanted does to the stream of its operation.      *)
LEMMA ReadWanted ==
    ASSUME IInv, SInv, Read, NEW m, m = Head(wire), Wanted(m)
    PROVE  /\ Release(m) /\ m \in Message /\ m.id \in MsgIds
           /\ chain' = [chain EXCEPT ![m.id] = chain'[m.id]]
           /\ delivered' = [delivered EXCEPT ![m.id] = delivered'[m.id]]
           /\ \/ chain'[m.id] = chain[m.id] \/ chain'[m.id] = <<>>
              \/ chain'[m.id] = Append(chain[m.id], m)
           /\ Whole(m.id) => Got(m.id)' = Append(Got(m.id), m.n)
<1>. DEFINE id == m.id
            ch == chain[id]
<1>0. session = "open" /\ call \in Calls /\ call.pc = "select" /\ wire # <<>> /\ wire' = Tail(wire)
  BY ReadOpen DEF Read, IInv
<1>1. /\ m \in Message /\ id \in MsgIds /\ abandoned[id] = 0
      /\ Fits(m, ops[id], sent[id], Total(id))
      /\ Chained(ch, m) = Append(ch, m)
      /\ Whole(id) => m.n = Length(id) + 1
  BY <1>0, WantedNext
<1>2. /\ chain \in [MsgIds -> Seq(Message)] /\ delivered \in [MsgIds -> Seq(Nat)]
      /\ ch \in Seq(Message) /\ delivered[id] \in Seq(Nat)
  BY <1>1 DEF IInv, TypeOK
<1>3. HandOver(m) \/ HandChain(m) \/ Enqueue(m)
  BY DEF Read, Toss
<1>4. m.n \in Nat /\ <<m>> \in Seq(Message) /\ Append(ch, m) = ch \o <<m>>
      /\ Positions(<<m>>) = <<m.n>>
  <2>1. m.n \in Nat
    BY <1>1 DEF Message
  <2>2. <<m>> \in Seq(Message)
    BY <1>1
  <2>3. Append(ch, m) = ch \o <<m>>
    BY <1>1, <1>2, AppendIsConcat
  <2>4. /\ Positions(<<m>>) \in Seq(Nat) /\ Len(Positions(<<m>>)) = 1
        /\ Positions(<<m>>)[1] = m.n
    <3>. DEFINE o == <<m>>
    <3>1. Len(o) = 1 /\ o[1] = m /\ o \in Seq(Message)
      BY <2>2
    <3>. HIDE DEF o
    <3>2. /\ Positions(o) \in Seq(Nat) /\ Len(Positions(o)) = Len(o)
          /\ \A i \in 1..Len(o) : Positions(o)[i] = o[i].n
      BY <3>1, PositionsAre
    <3>3. 1 \in 1..Len(o)
      BY <3>1
    <3>4. QED BY <3>1, <3>2, <3>3 DEF o
  <2>5. Positions(<<m>>) = <<m.n>>
    BY <2>1, <2>4
  <2>6. QED BY <2>1, <2>2, <2>3, <2>5
<1>5. /\ Positions(Append(ch, m)) = Positions(ch) \o <<m.n>>
      /\ Positions(ch) \in Seq(Nat)
  BY <1>2, <1>4, PositionsConcat, PositionsAre
<1>. DEFINE p == Positions(ch)
            d == delivered[id]
<1>6. /\ Append(d \o p, m.n) = d \o (p \o <<m.n>>)
      /\ Append(d \o p, m.n) = (d \o (p \o <<m.n>>)) \o <<>>
      /\ p = <<>> => Append(d \o p, m.n) = (d \o <<m.n>>) \o p
  <2>. HIDE DEF p, d
  <2>1. d \in Seq(Nat) /\ p \in Seq(Nat) /\ m.n \in Nat
    BY <1>2, <1>4, <1>5 DEF p, d
  <2>2. /\ Append(d \o p, m.n) = d \o (p \o <<m.n>>)
        /\ d \o (p \o <<m.n>>) \in Seq(Nat)
    <3>1. <<m.n>> \in Seq(Nat) /\ d \o p \in Seq(Nat)
      BY <2>1
    <3>2. Append(d \o p, m.n) = (d \o p) \o <<m.n>>
      BY <2>1, <3>1, AppendIsConcat
    <3>3. (d \o p) \o <<m.n>> = d \o (p \o <<m.n>>)
      BY <2>1, <3>1, ConcatAssociative, SMTT(30)
    <3>4. p \o <<m.n>> \in Seq(Nat)
      BY <2>1, <3>1
    <3>5. QED BY <2>1, <3>2, <3>3, <3>4
  <2>3. (d \o (p \o <<m.n>>)) \o <<>> = d \o (p \o <<m.n>>)
    BY <2>2, ConcatEmptySeq, Zenon
  <2>4. p = <<>> => Append(d \o p, m.n) = (d \o <<m.n>>) \o p
    BY <2>1
  <2>5. QED BY <2>2, <2>3, <2>4
<1>7. CASE HandOver(m)
  <2>1. Release(m) /\ chain' = chain /\ delivered' = [delivered EXCEPT ![id] = d \o <<m.n>>]
        /\ Direct(m)
    BY <1>4, <1>7 DEF HandOver, Hand
  <2>2. ASSUME Whole(id) PROVE Got(id)' = Append(Got(id), m.n)
    <3>1. ch = <<>>
      BY <1>0, <1>1, <2>1, <2>2, NothingBefore
    <3>2. p = <<>>
      BY <3>1 DEF Positions
    <3>3. Got(id)' = (d \o <<m.n>>) \o p /\ Got(id) = d \o p
      BY <1>1, <1>2, <2>1 DEF Got
    <3>4. QED BY <1>6, <3>2, <3>3
  <2>3. QED BY <1>1, <1>2, <2>1, <2>2
<1>8. CASE HandChain(m)
  <2>1. /\ Release(m) /\ chain' = [chain EXCEPT ![id] = <<>>]
        /\ delivered' = [delivered EXCEPT ![id] = d \o (p \o <<m.n>>)]
    BY <1>1, <1>5, <1>8 DEF HandChain, Hand
  <2>2. Positions(<<>>) = <<>>
    BY DEF Positions
  <2>3. Got(id)' = (d \o (p \o <<m.n>>)) \o <<>> /\ Got(id) = d \o p
    BY <1>1, <1>2, <2>1, <2>2 DEF Got
  <2>4. QED BY <1>1, <1>2, <1>6, <2>1, <2>3
<1>9. CASE Enqueue(m)
  <2>1. Release(m) /\ chain' = [chain EXCEPT ![id] = Append(ch, m)] /\ delivered' = delivered
    BY <1>1, <1>9 DEF Enqueue
  <2>2. Got(id)' = d \o (p \o <<m.n>>) /\ Got(id) = d \o p
    BY <1>1, <1>2, <1>5, <2>1 DEF Got
  <2>3. QED BY <1>1, <1>2, <1>6, <2>1, <2>2
<1>10. QED BY <1>3, <1>7, <1>8, <1>9

(* Reading a message keeps the invariant.                                  *)
LEMMA ReadStream ==
    ASSUME IInv, IInv', SInv, Read
    PROVE  SInv'
<1>m. PICK m : m = Head(wire)
  OBVIOUS
<1>0. /\ session = "open" /\ session' = "open" /\ call \in Calls /\ call.pc = "select"
      /\ wire # <<>> /\ wire' = Tail(wire) /\ wire \in Seq(Message) /\ m \in Message
      /\ UNCHANGED <<ops, sent, finished, abandoned, aborted>>
      /\ chain \in [MsgIds -> Seq(Message)] /\ delivered \in [MsgIds -> Seq(Nat)]
  BY <1>m, ReadOpen DEF Read, IInv, TypeOK
<1>1. call' = NoCall \/ call'.pc = "check"
  BY <1>0 DEF Read, GoOn, Calls
<1>2. Looked'
  BY <1>1 DEF Looked, NoCall
<1>3. NothingUnasked'
  BY <1>0 DEF SInv, NothingUnasked
<1>4. \A id \in MsgIds : Total(id)' = Total(id) /\ (Lost(id) => Lost(id)')
  BY <1>0 DEF Total, Lost
<1>5. WireGenuine'
  <2>1. /\ DOMAIN wire' = 1..(Len(wire) - 1) /\ DOMAIN wire = 1..Len(wire) /\ Len(wire) \in Nat
        /\ \A j \in 1..(Len(wire) - 1) : wire'[j] = wire[j + 1]
    BY <1>0
  <2>2. ASSUME NEW id \in MsgIds, NEW j \in At(wire', id)
        PROVE  Fits(wire'[j], ops[id], sent[id], Total(id))
    <3>1. j + 1 \in At(wire, id) /\ wire'[j] = wire[j + 1]
      BY <2>1, <2>2 DEF At
    <3>2. QED BY <1>0, <3>1 DEF SInv, WireGenuine
  <2>3. QED BY <1>0, <1>4, <2>2 DEF WireGenuine
<1>6. ASSUME NEW id \in MsgIds PROVE Part(id) /\ Rising(wire, id) /\ Rising(wire', id)
  BY <1>0, TailNums DEF SInv, Part, Ordered
<1>7. ASSUME NEW id \in MsgIds, id # m.id PROVE Nums(wire', id) = Nums(wire, id)
  BY <1>m, <1>0, <1>6, <1>7, TailNums
<1>8. CASE ~Wanted(m)
  <2>1. Toss(m)
    BY <1>m, <1>8 DEF Read, HandOver, HandChain, Enqueue
  <2>2. UNCHANGED <<requests, chain, delivered>>
    BY <2>1 DEF Toss
  <2>3. ChainsGenuine'
    BY <1>0, <1>4, <2>2 DEF SInv, ChainsGenuine
  <2>4. ASSUME NEW id \in MsgIds PROVE Part(id)'
    <3>1. CASE id # m.id
      BY <1>0, <1>4, <1>6, <1>7, <2>2, <3>1, SamePart
    <3>2. CASE id = m.id
      <4>1. /\ Nums(wire, id) = {m.n} \cup Nums(wire', id)
            /\ \A n \in Nums(wire', id) : m.n < n
        BY <1>m, <1>0, <1>6, <3>2, TailNums
      <4>2. Ordered(id)'
        BY <1>6, <2>2, <4>1 DEF Part, Ordered
      <4>3. id \notin requests \/ abandoned[id] > 0
        <5>1. abandoned[id] \in Nat
          BY DEF IInv, TypeOK
        <5>2. QED BY <1>8, <3>2, <5>1 DEF Wanted
      <4>4. ASSUME Whole(id), id \notin requests PROVE FALSE
        <5>1. m.n \in (Length(id) + 1)..Total(id)
          BY <4>1, <4>4 DEF Whole
        <5>2. Length(id) \in Nat /\ sent[id] \in Nat
          BY GotIsType DEF GotType, IInv, TypeOK
        <5>3. Total(id) <= sent[id] + 1
          BY <5>2 DEF Total
        <5>4. 1 \in At(wire, id)
          BY <1>m, <1>0, <3>2 DEF At
        <5>5. ops[id] # "none"
          BY <1>0, <5>4 DEF SInv, WireGenuine, Fits
        <5>6. Length(id) <= sent[id]
          BY <5>1, <5>2, <5>3 DEF Total
        <5>7. QED BY <4>4, <5>5, <5>6 DEF Whole
      <4>5. Lost(id) \/ Cut(id)
        BY <1>6, <4>3, <4>4 DEF Part, Lost
      <4>6. Cut(id) => Cut(id)'
        BY <1>0, <2>2 DEF Cut, Got
      <4>7. QED BY <1>4, <4>2, <4>5, <4>6 DEF Part
    <3>3. QED BY <3>1, <3>2
  <2>5. QED BY <1>0, <1>2, <1>3, <1>5, <2>3, <2>4 DEF SInv
<1>9. CASE Wanted(m)
  <2>1. /\ m.id \in MsgIds /\ m.id \in requests /\ abandoned[m.id] = 0
        /\ Fits(m, ops[m.id], sent[m.id], Total(m.id))
        /\ \A i \in DOMAIN chain[m.id] : chain[m.id][i].n < m.n /\ NonFinal(chain[m.id][i])
        /\ Rising(wire', m.id) /\ \A n \in Nums(wire', m.id) : m.n < n
        /\ Lost(m.id) \/ Whole(m.id)
        /\ Whole(m.id) =>
              /\ m.n = Length(m.id) + 1
              /\ Nums(wire', m.id) = (Length(m.id) + 2)..Total(m.id)
    BY <1>m, <1>0, <1>9, WantedNext
  <2>2. /\ Release(m)
        /\ chain' = [chain EXCEPT ![m.id] = chain'[m.id]]
        /\ delivered' = [delivered EXCEPT ![m.id] = delivered'[m.id]]
        /\ \/ chain'[m.id] = chain[m.id] \/ chain'[m.id] = <<>>
           \/ chain'[m.id] = Append(chain[m.id], m)
        /\ Whole(m.id) => Got(m.id)' = Append(Got(m.id), m.n)
    BY <1>m, <1>9, ReadWanted
  <2>3. \A id \in MsgIds : id # m.id => chain'[id] = chain[id] /\ delivered'[id] = delivered[id]
    BY <1>0, <2>2
  <2>4. /\ chain[m.id] \in Seq(Message) /\ chain'[m.id] \in Seq(Message)
        /\ \A i \in DOMAIN chain'[m.id] :
              \/ i \in DOMAIN chain[m.id] /\ chain'[m.id][i] = chain[m.id][i]
              \/ i = Len(chain[m.id]) + 1 /\ chain'[m.id][i] = m
    <3>1. chain[m.id] \in Seq(Message) /\ m \in Message
      BY <1>0, <2>1
    <3>2. CASE chain'[m.id] = chain[m.id]
      BY <3>1, <3>2
    <3>3. CASE chain'[m.id] = <<>>
      BY <3>1, <3>3
    <3>4. CASE chain'[m.id] = Append(chain[m.id], m)
      BY <3>1, <3>4
    <3>5. QED BY <2>2, <3>2, <3>3, <3>4
  <2>5. ChainsGenuine'
    <3>1. ASSUME NEW id \in MsgIds, NEW i \in DOMAIN chain'[id]
          PROVE  chain'[id][i].id = id /\ Fits(chain'[id][i], ops[id], sent[id], Total(id))
      <4>1. ASSUME NEW k \in DOMAIN chain[id]
            PROVE  chain[id][k].id = id /\ Fits(chain[id][k], ops[id], sent[id], Total(id))
        BY <1>0 DEF SInv, ChainsGenuine
      <4>2. QED BY <2>1, <2>3, <2>4, <3>1, <4>1
    <3>2. QED BY <1>0, <1>4, <3>1 DEF ChainsGenuine
  <2>6. ASSUME NEW id \in MsgIds PROVE Part(id)'
    <3>1. CASE id # m.id
      <4>1. id \in requests' <=> id \in requests
        BY <2>2, <3>1 DEF Release
      <4>2. Nums(wire', id) = Nums(wire, id)
        BY <1>m, <1>7, <3>1
      <4>3. QED BY <1>0, <1>4, <1>6, <2>3, <3>1, <4>1, <4>2, SamePart
    <3>2. CASE id = m.id
      <4>1. Ordered(id)'
        <5>1. \A i, j \in DOMAIN chain[id] : i < j => chain[id][i].n < chain[id][j].n
          BY <1>6 DEF Part, Ordered
        <5>2. Nums(wire', id) \subseteq Nums(wire, id)
          BY <1>m, <1>0, <1>6, <3>2, TailNums
        <5>3. \A i \in DOMAIN chain[id] : \A n \in Nums(wire', id) : chain[id][i].n < n
          BY <1>6, <5>2 DEF Part, Ordered
        <5>4. DOMAIN chain[id] = 1..Len(chain[id]) /\ Len(chain[id]) \in Nat
          BY <2>4, <3>2
        <5>5. \A i, j \in DOMAIN chain'[id] : i < j => chain'[id][i].n < chain'[id][j].n
          <6>1. TAKE i, j \in DOMAIN chain'[id]
          <6>2. HAVE i < j
          <6>3. i \in DOMAIN chain[id]
            BY <2>4, <3>2, <5>4, <6>2
          <6>4. CASE j \in DOMAIN chain[id]
            BY <2>4, <3>2, <5>1, <5>4, <6>2, <6>3, <6>4
          <6>5. CASE j = Len(chain[id]) + 1
            BY <2>1, <2>4, <3>2, <5>4, <6>3, <6>5
          <6>6. QED BY <2>4, <3>2, <6>4, <6>5
        <5>6. \A i \in DOMAIN chain'[id] : \A n \in Nums(wire', id) : chain'[id][i].n < n
          BY <2>1, <2>4, <3>2, <5>3
        <5>7. QED BY <1>6, <5>5, <5>6 DEF Ordered
      <4>2. CASE Lost(id)
        BY <1>4, <4>1, <4>2 DEF Part
      <4>3. CASE Whole(id)
        <5>1. Cut(m.id)' \/ Whole(m.id)'
          BY <1>m, <1>0, <2>1, <2>2, <3>2, <4>3, Received
        <5>2. QED BY <3>2, <4>1, <5>1 DEF Part
      <4>4. QED BY <2>1, <3>2, <4>2, <4>3
    <3>3. QED BY <3>1, <3>2
  <2>7. QED BY <1>0, <1>2, <1>3, <1>5, <2>5, <2>6 DEF SInv
<1>10. QED BY <1>8, <1>9

-----------------------------------------------------------------------------
(* Looking through ld_responses. *)

(* The look takes an acceptable chain, or its first message, or finds      *)
(* nothing and changes nothing.                                            *)
LEMMA LookEffect ==
    ASSUME IInv, Check
    PROVE  \/ /\ call' = [call EXCEPT !.pc = "select"]
              /\ UNCHANGED <<chain, queue, delivered, abandoned>>
              /\ ChkResponseList(queue, chain, abandoned, call.msgid, call.one) = 0
           \/ \E id \in MsgIds :
                 /\ chain[id] # <<>> /\ abandoned[id] = 0
                 /\ Acceptable(chain[id], call.msgid, call.one) /\ call.msgid \in {RES_ANY, id}
                 /\ chain' = [chain EXCEPT ![id] = Left(chain[id], call.one)]
                 /\ Hand(id, Taken(chain[id], call.one))
                 /\ call' = NoCall
<1>. DEFINE purged == Purged(queue, abandoned, call.msgid)
            found  == ChkResponseList(queue, chain, abandoned, call.msgid, call.one)
            cand   == Candidates(queue, abandoned, call.msgid)
<1>1. purged = {}
  BY PurgeEmpty
<1>2. /\ Purge(purged)
      /\ IF found # 0 THEN TakeFrom(found, purged) ELSE FindNothing(purged)
  BY DEF Check
<1>3. queue \in Seq(MsgIds) /\ chain \in [MsgIds -> Seq(Message)]
  BY DEF IInv, TypeOK
<1>4. abandoned' = abandoned
  BY CheckEffect
<1>. HIDE DEF purged
<1>5. CASE found = 0
  <2>1. FindNothing(purged) /\ Discard(queue, purged) = queue
    BY <1>1, <1>2, <1>5 DEF Discard
  <2>2. chain' = chain
    BY <1>1, <1>3, <2>1 DEF FindNothing
  <2>3. QED BY <1>4, <1>5, <2>1, <2>2 DEF FindNothing
<1>6. CASE found # 0
  <2>1. \E i \in cand : found = queue[i] /\ Acceptable(chain[queue[i]], call.msgid, call.one)
    BY <1>3, <1>6, Walk
  <2>2. /\ found \in MsgIds /\ Contains(queue, found) /\ abandoned[found] = 0
        /\ Acceptable(chain[found], call.msgid, call.one) /\ call.msgid \in {RES_ANY, found}
    <3>1. PICK i \in cand : found = queue[i] /\ Acceptable(chain[queue[i]], call.msgid, call.one)
      BY <2>1
    <3>2. i \in 1..Len(queue) /\ abandoned[queue[i]] = 0 /\ call.msgid \in {RES_ANY, queue[i]}
      BY <1>3 DEF Candidates
    <3>. HIDE DEF found
    <3>3. QED BY <1>3, <3>1, <3>2 DEF Contains
  <2>. HIDE DEF found
  <2>3. chain[found] # <<>>
    BY <2>2 DEF IInv, QueueExact
  <2>4. TakeFrom(found, purged)
    BY <1>2, <1>6 DEF found
  <2>5. chain' = [chain EXCEPT ![found] = Left(chain[found], call.one)]
    BY <1>1, <1>3, <2>2, <2>4 DEF TakeFrom
  <2>6. QED BY <2>2, <2>3, <2>4, <2>5 DEF TakeFrom
<1>7. QED BY <1>5, <1>6

(* What is taken is handed out in order, what is left stays queued.        *)
LEMMA CheckStream ==
    ASSUME IInv, IInv', SInv, Check
    PROVE  SInv'
<1>0. /\ session = "open" /\ session' = "open" /\ call \in Calls
      /\ UNCHANGED <<requests, wire, ops, sent, finished, aborted, abandoned>>
      /\ chain \in [MsgIds -> Seq(Message)] /\ delivered \in [MsgIds -> Seq(Nat)]
  BY ReadOpen, CheckEffect DEF Check, IInv, TypeOK, env
<1>1. CASE /\ call' = [call EXCEPT !.pc = "select"]
           /\ UNCHANGED <<chain, queue, delivered, abandoned>>
           /\ ChkResponseList(queue, chain, abandoned, call.msgid, call.one) = 0
  <2>1. call'.msgid = call.msgid /\ call'.one = call.one
    BY <1>0, <1>1 DEF Calls
  <2>2. Looked'
    BY <1>1, <2>1 DEF Looked
  <2>3. QED BY <1>0, <1>1, <2>2, SameStreams
<1>2. ASSUME NEW it \in MsgIds, chain[it] # <<>>,
             chain' = [chain EXCEPT ![it] = Left(chain[it], call.one)],
             Hand(it, Taken(chain[it], call.one)), call' = NoCall
      PROVE  SInv'
  <2>. DEFINE ch == chain[it]
              tk == Taken(ch, call.one)
              lf == Left(ch, call.one)
  <2>1. /\ ch \in Seq(Message) /\ tk \in Seq(Message) /\ lf \in Seq(Message)
        /\ tk \o lf = ch
        /\ \E k \in 1..Len(ch) :
              /\ Len(lf) = Len(ch) - k
              /\ \A i \in 1..(Len(ch) - k) : lf[i] = ch[i + k]
    <3>1. call.one \in BOOLEAN /\ ch \in Seq(Message)
      BY <1>0 DEF Calls
    <3>2. QED BY <1>2, <3>1, TakenLeft
  <2>2. PICK k \in 1..Len(ch) :
              /\ Len(lf) = Len(ch) - k
              /\ \A i \in 1..(Len(ch) - k) : lf[i] = ch[i + k]
    BY <2>1
  <2>3. chain'[it] = lf /\ \A id \in MsgIds : id # it => chain'[id] = chain[id]
    BY <1>0, <1>2
  <2>4. /\ delivered'[it] = delivered[it] \o Positions(tk)
        /\ \A id \in MsgIds : id # it => delivered'[id] = delivered[id]
    BY <1>0, <1>2 DEF Hand
  <2>. HIDE DEF lf, tk
  <2>5. Got(it)' = Got(it)
    <3>1. Positions(ch) = Positions(tk) \o Positions(lf)
      BY <2>1, PositionsConcat
    <3>2. Positions(tk) \in Seq(Nat) /\ Positions(lf) \in Seq(Nat) /\ delivered[it] \in Seq(Nat)
      BY <1>0, <2>1, PositionsAre
    <3>3. (delivered[it] \o Positions(tk)) \o Positions(lf) =
              delivered[it] \o (Positions(tk) \o Positions(lf))
      <4>. DEFINE d == delivered[it]
                  a == Positions(tk)
                  b == Positions(lf)
      <4>1. a \in Seq(Nat) /\ b \in Seq(Nat) /\ d \in Seq(Nat)
        BY <3>2
      <4>. HIDE DEF a, b, d
      <4>2. (d \o a) \o b = d \o (a \o b)
        BY <4>1, ConcatAssociative, SMTT(30)
      <4>3. QED BY <4>2 DEF a, b, d
    <3>4. QED BY <2>3, <2>4, <3>1, <3>3 DEF Got
  <2>6. \A i \in DOMAIN lf : i + k \in DOMAIN ch /\ lf[i] = ch[i + k] /\ i \in Nat
    <3>1. DOMAIN lf = 1..(Len(ch) - k) /\ DOMAIN ch = 1..Len(ch) /\ Len(ch) \in Nat /\ k \in Nat
      BY <2>1, <2>2
    <3>2. \A i \in 1..(Len(ch) - k) : i + k \in 1..Len(ch) /\ i \in Nat
      BY <3>1
    <3>3. QED BY <2>2, <3>1, <3>2
  <2>7. \A id \in MsgIds : Total(id)' = Total(id) /\ (Lost(id) => Lost(id)')
    BY <1>0 DEF Total, Lost
  <2>8. ChainsGenuine'
    <3>1. ASSUME NEW id \in MsgIds, NEW i \in DOMAIN chain'[id]
          PROVE  chain'[id][i].id = id /\ Fits(chain'[id][i], ops[id], sent[id], Total(id))
      <4>1. ASSUME NEW n \in DOMAIN chain[id]
            PROVE  chain[id][n].id = id /\ Fits(chain[id][n], ops[id], sent[id], Total(id))
        BY <1>0 DEF SInv, ChainsGenuine
      <4>2. QED BY <2>3, <2>6, <3>1, <4>1
    <3>2. QED BY <1>0, <2>7, <3>1 DEF ChainsGenuine
  <2>9. WireGenuine' /\ NothingUnasked' /\ Looked'
    BY <1>0, <1>2, <2>7 DEF SInv, WireGenuine, NothingUnasked, Looked, NoCall
  <2>10. ASSUME NEW id \in MsgIds PROVE Part(id)'
    <3>1. Part(id) /\ Rising(wire', id)
      BY <1>0 DEF SInv, Part, Ordered
    <3>2. CASE id # it
      BY <1>0, <2>3, <2>4, <2>7, <3>1, <3>2, SamePart
    <3>3. CASE id = it
      <4>1. \A i, j \in DOMAIN lf : i < j => lf[i].n < lf[j].n
        <5>1. TAKE i, j \in DOMAIN lf
        <5>2. HAVE i < j
        <5>3. i + k < j + k
          BY <2>6, <5>2
        <5>4. QED BY <2>6, <3>1, <3>3, <5>3 DEF Part, Ordered
      <4>2. \A i \in DOMAIN lf : \A n \in Nums(wire, id) : lf[i].n < n
        BY <2>6, <3>1, <3>3 DEF Part, Ordered
      <4>3. Ordered(id)'
        BY <1>0, <2>3, <3>1, <3>3, <4>1, <4>2 DEF Ordered
      <4>4. Length(id)' = Length(id)
        BY <2>5, <3>3 DEF Length
      <4>5. Cut(id) => Cut(id)'
        BY <1>0, <2>5, <3>3 DEF Cut
      <4>6. Whole(id) => Whole(id)'
        BY <1>0, <2>5, <2>7, <3>3, <4>4 DEF Whole
      <4>7. QED BY <2>7, <3>1, <4>3, <4>5, <4>6 DEF Part
    <3>4. QED BY <3>2, <3>3
  <2>11. QED BY <1>0, <2>8, <2>9, <2>10 DEF SInv
<1>3. QED BY <1>1, <1>2, LookEffect

-----------------------------------------------------------------------------
(* The other calls of the application.                                     *)

(* A request is sent: its stream is still empty.                           *)
LEMMA SendStream ==
    ASSUME IInv, IInv', SInv, NEW kind \in Kinds, Send(kind)
    PROVE  SInv'
<1>0. /\ session = "open" /\ session' = "open" /\ call = NoCall /\ call' = NoCall
      /\ UNCHANGED <<queue, chain, abandoned, wire, sent, finished, delivered, aborted>>
      /\ ld_msgid' = ld_msgid + 1 /\ ld_msgid' \in MsgIds /\ ld_msgid \in Nat
  BY BoundsAssumption DEF Send, Idle, env, IInv, TypeOK, MsgIds
<1>. DEFINE new == ld_msgid'
<1>1. CASE UNCHANGED <<requests, refcnt, ops>>
  <2>1. Looked'
    BY <1>0 DEF Looked, NoCall
  <2>2. QED BY <1>0, <1>1, <2>1, SameStreams
<1>2. CASE requests' = requests \cup {new} /\ ops' = [ops EXCEPT ![new] = kind]
  <2>1. ops[new] = "none" /\ ops'[new] # "none"
        /\ \A id \in MsgIds : id # new => ops'[id] = ops[id]
    BY <1>0, <1>2, KindsAssumption DEF IInv, TypeOK, Fresh
  <2>2. sent[new] = 0 /\ new \notin finished
    BY <1>0, <2>1 DEF SInv, NothingUnasked
  <2>3. \A id \in MsgIds : Total(id)' = Total(id) /\ Got(id)' = Got(id)
                           /\ Length(id)' = Length(id) /\ (Lost(id) => Lost(id)')
    BY <1>0 DEF Total, Got, Length, Lost
  <2>4. DOMAIN chain[new] = {} /\ At(wire, new) = {}
    BY <1>0, <2>1 DEF SInv, ChainsGenuine, WireGenuine, Fits
  <2>5. ChainsGenuine' /\ WireGenuine' /\ NothingUnasked' /\ Looked'
    <3>1. ChainsGenuine'
      BY <1>0, <2>1, <2>3, <2>4 DEF SInv, ChainsGenuine
    <3>2. WireGenuine'
      BY <1>0, <2>1, <2>3, <2>4 DEF SInv, WireGenuine
    <3>3. NothingUnasked'
      BY <1>0, <2>1 DEF SInv, NothingUnasked
    <3>4. Looked'
      BY <1>0 DEF Looked, NoCall
    <3>5. QED BY <3>1, <3>2, <3>3, <3>4
  <2>6. ASSUME NEW id \in MsgIds PROVE Part(id)'
    <3>1. Part(id) /\ Rising(wire', id)
      BY <1>0 DEF SInv, Part, Ordered
    <3>2. CASE id # new
      BY <1>0, <1>2, <2>1, <2>3, <3>1, <3>2, SamePart
    <3>3. CASE id = new
      <4>1. Ordered(id)'
        BY <1>0, <3>1 DEF Part, Ordered
      <4>2. ~Cut(id)
        BY <2>2, <3>3 DEF Cut
      <4>3. Whole(id) => Whole(id)'
        <5>1. id \in requests' /\ sent'[id] = 0 /\ wire' = wire
          BY <1>0, <1>2, <2>2, <3>3
        <5>2. /\ Total(id)' = Total(id) /\ Got(id)' = Got(id) /\ Length(id)' = Length(id)
          BY <2>3
        <5>3. ~(sent'[id] > 0)
          BY <5>1
        <5>4. QED BY <5>1, <5>2, <5>3 DEF Whole
      <4>4. QED BY <2>3, <3>1, <4>1, <4>2, <4>3 DEF Part
    <3>4. QED BY <3>2, <3>3
  <2>7. QED BY <1>0, <2>5, <2>6 DEF SInv
<1>3. QED BY <1>1, <1>2 DEF Send

(* An operation is abandoned: nothing is claimed of its stream any more.   *)
LEMMA AbandonStream ==
    ASSUME IInv, IInv', SInv, NEW it \in MsgIds, Abandon(it)
    PROVE  SInv'
<1>0. /\ session = "open" /\ session' = "open" /\ call' = NoCall
      /\ UNCHANGED <<wire, sent, finished, delivered, ops>>
      /\ chain' = [chain EXCEPT ![it] = <<>>]
      /\ chain \in [MsgIds -> Seq(Message)] /\ abandoned \in [MsgIds -> Nat]
  BY DEF Abandon, DropQueued, Idle, env, IInv, TypeOK
<1>1. /\ Lost(it)' /\ \A id \in MsgIds : Lost(id) => Lost(id)'
      /\ \A id \in MsgIds : id # it => (id \in requests' <=> id \in requests)
  <2>1. CASE AbandonQueued(it)
    BY <1>0, <2>1 DEF AbandonQueued, Lost
  <2>2. CASE AbandonRunning(it)
    <3>1. /\ requests' = requests \ {it} /\ aborted \subseteq aborted'
          /\ abandoned'[it] > 0 /\ \A id \in MsgIds : id # it => abandoned'[id] = abandoned[id]
      BY <1>0, <2>2 DEF AbandonRunning
    <3>2. QED BY <3>1 DEF Lost
  <2>3. QED BY <2>1, <2>2 DEF Abandon
<1>2. chain'[it] = <<>> /\ \A id \in MsgIds : id # it => chain'[id] = chain[id]
  BY <1>0
<1>3. \A id \in MsgIds : Total(id)' = Total(id)
  BY <1>0 DEF Total
<1>4. ChainsGenuine'
  <2>1. ASSUME NEW id \in MsgIds, NEW i \in DOMAIN chain'[id]
        PROVE  chain'[id][i].id = id /\ Fits(chain'[id][i], ops[id], sent[id], Total(id))
    BY <1>0, <1>2, <2>1 DEF SInv, ChainsGenuine
  <2>2. QED BY <1>0, <1>3, <2>1 DEF ChainsGenuine
<1>5. WireGenuine' /\ NothingUnasked' /\ Looked'
  BY <1>0, <1>3 DEF SInv, WireGenuine, NothingUnasked, Looked, NoCall
<1>6. ASSUME NEW id \in MsgIds PROVE Part(id)'
  <2>1. Part(id) /\ Rising(wire', id)
    BY <1>0 DEF SInv, Part, Ordered
  <2>2. CASE id # it
    BY <1>0, <1>1, <1>2, <2>1, <2>2, SamePart
  <2>3. CASE id = it
    BY <1>1, <1>2, <2>1, <2>3 DEF Part, Ordered
  <2>4. QED BY <2>2, <2>3
<1>7. QED BY <1>0, <1>4, <1>5, <1>6 DEF SInv

(* After ldap_unbind nothing is called.                                    *)
LEMMA UnbindStream == SInv /\ Unbind => SInv'
BY DEF SInv, Unbind, Idle

(* The steps that touch no list.                                           *)
LEMMA OtherStream ==
    ASSUME IInv, IInv', SInv,
           \/ \E msgid \in Asked, one, timed \in BOOLEAN : ResultCall(msgid, one, timed)
           \/ ReadError \/ Timeout \/ ServerCrash
    PROVE  SInv'
<1>1. /\ session = "open" /\ session' = "open"
      /\ UNCHANGED <<queue, chain, wire, delivered, requests, ops, sent, finished, abandoned, aborted>>
  <2>1. CASE ReadError \/ Timeout
    <3>1. session = "open"
      BY <2>1, ReadOpen DEF IInv
    <3>2. QED BY <2>1, <3>1 DEF ReadError, Timeout, client, env
  <2>2. CASE \E msgid \in Asked, one, timed \in BOOLEAN : ResultCall(msgid, one, timed)
    BY <2>2 DEF ResultCall, Idle, client, env
  <2>3. CASE ServerCrash
    BY <2>3 DEF ServerCrash, client
  <2>4. QED BY <2>1, <2>2, <2>3
<1>2. call' = call \/ call'.pc # "select"
  BY DEF ResultCall, ReadError, Timeout, ServerCrash, NoCall
<1>3. Looked'
  BY <1>1, <1>2 DEF SInv, Looked
<1>4. QED BY <1>1, <1>3, SameStreams

(* The server's messages.                                                  *)
LEMMA ServerStream ==
    ASSUME IInv, IInv', SInv,
           \/ \E id \in MsgIds, type \in MsgTypes : ServerReply(id, type)
           \/ \E id \in MsgIds, ref \in BOOLEAN : ServerFinal(id, ref)
           \/ ServerNotice
    PROVE  SInv'
<1>0. sent \in [MsgIds -> Nat] /\ ops \in [MsgIds -> {"none", "search", "other"}]
  BY DEF IInv, TypeOK
<1>1. ASSUME NEW id \in MsgIds, NEW type \in MsgTypes, ServerReply(id, type) PROVE SInv'
  <2>. DEFINE m == [id |-> id, type |-> type, n |-> sent[id] + 1, ref |-> FALSE]
  <2>1. /\ session = "open" /\ session' = "open" /\ ops[id] # "none" /\ id \notin finished
        /\ type \in Responses(ops[id])
        /\ sent' = [sent EXCEPT ![id] = @ + 1] /\ finished' = finished /\ Put(m)
        /\ UNCHANGED <<client, call, ops, delivered, aborted>>
    BY <1>1 DEF ServerReply, Running
  <2>2. m \in Message /\ m.id = id /\ m.n = sent[id] + 1 /\ m.type = type /\ ~m.ref
    BY <1>0 DEF Message
  <2>3. NonFinal(m)
    BY <2>1 DEF NonFinal, Responses
  <2>4. sent'[id] = sent[id] + 1 /\ Total(id)' = sent[id] + 1 /\ sent[id] \in Nat
    BY <1>0, <2>1 DEF Total
  <2>. HIDE DEF m
  <2>5. PICK x \in Message : x = m
    BY <2>2
  <2>6. /\ x.id = id /\ x.n = sent[x.id] + 1 /\ Put(x)
        /\ Fits(x, ops[x.id], sent'[x.id], Total(x.id)')
    <3>1. x.id = id /\ x.n = sent[id] + 1 /\ Put(x)
      BY <2>1, <2>2, <2>5
    <3>2. Fits(x, ops[id], sent'[id], Total(id)')
      BY <2>1, <2>2, <2>3, <2>4, <2>5 DEF Fits
    <3>3. QED BY <3>1, <3>2
  <2>7. QED BY <2>1, <2>6, ServerStep
<1>2. ASSUME NEW id \in MsgIds, NEW ref \in BOOLEAN, ServerFinal(id, ref) PROVE SInv'
  <2>. DEFINE ty == IF ops[id] = "search" THEN "result" ELSE "status"
              m  == [id |-> id, type |-> ty, n |-> sent[id] + 1, ref |-> ref]
  <2>1. /\ session = "open" /\ session' = "open" /\ ops[id] # "none" /\ id \notin finished
        /\ sent' = sent /\ finished' = finished \cup {id} /\ Put(m)
        /\ UNCHANGED <<client, call, ops, delivered, aborted>>
    BY <1>2 DEF ServerFinal, Running
  <2>2. m \in Message /\ m.id = id /\ m.n = sent[id] + 1 /\ m.type = ty /\ ~NonFinal(m)
    BY <1>0 DEF Message, MsgTypes, NonFinal
  <2>3. sent'[id] = sent[id] /\ Total(id)' = sent[id] + 1 /\ sent[id] \in Nat
    BY <1>0, <2>1 DEF Total
  <2>4. PICK x \in Message : x = m
    BY <2>2
  <2>. HIDE DEF m
  <2>5. x.id = id /\ x.n = sent[id] + 1 /\ Put(x) /\ x.type = ty /\ ~NonFinal(x)
    BY <2>1, <2>2, <2>4
  <2>6. Fits(x, ops[id], sent'[id], Total(id)')
    BY <2>1, <2>3, <2>5 DEF Fits
  <2>7. QED BY <2>1, <2>5, <2>6, ServerStep
<1>3. ASSUME ServerNotice PROVE SInv'
  <2>1. PICK x : x = [id |-> 0, type |-> "status", n |-> 1, ref |-> FALSE]
    OBVIOUS
  <2>2. /\ session = "open" /\ session' = "open" /\ wire' = Append(wire, x)
        /\ UNCHANGED <<client, call, sent, finished, ops, delivered, aborted>>
    BY <1>3, <2>1 DEF ServerNotice, Put
  <2>3. x \in Message /\ x.id = 0 /\ wire \in Seq(Message) /\ \A id \in MsgIds : id # 0
    BY <2>1 DEF Message, MsgTypes, IInv, TypeOK, MsgIds
  <2>4. /\ DOMAIN wire = 1..Len(wire) /\ DOMAIN wire' = 1..(Len(wire) + 1) /\ Len(wire) \in Nat
        /\ \A j \in 1..Len(wire) : wire'[j] = wire[j]
        /\ wire'[Len(wire) + 1] = x
    BY <2>2, <2>3
  <2>5. \A id \in MsgIds : Total(id)' = Total(id) /\ (Lost(id) => Lost(id)')
    BY <2>2 DEF Total, Lost, client
  <2>6. ASSUME NEW id \in MsgIds, NEW j \in At(wire', id)
        PROVE  j \in At(wire, id) /\ wire'[j] = wire[j]
    BY <2>3, <2>4, <2>6 DEF At
  <2>7. WireGenuine'
    BY <2>2, <2>5, <2>6 DEF SInv, WireGenuine
  <2>8. ChainsGenuine' /\ NothingUnasked' /\ Looked'
    BY <2>2, <2>5 DEF SInv, ChainsGenuine, NothingUnasked, Looked, client
  <2>9. ASSUME NEW id \in MsgIds PROVE Part(id)'
    <3>1. Part(id) /\ Rising(wire, id)
      BY <2>2 DEF SInv, Part, Ordered
    <3>2. Rising(wire', id) /\ Nums(wire', id) = Nums(wire, id)
      BY <2>2, <2>3, <3>1, AppendNums
    <3>3. QED BY <2>2, <2>5, <3>1, <3>2, SamePart DEF client
  <2>10. QED BY <2>2, <2>7, <2>8, <2>9 DEF SInv
<1>4. QED BY <1>1, <1>2, <1>3

(* The streams are kept by every step.                                     *)
LEMMA NextStream == IInv /\ SInv /\ [Next]_vars => SInv'
<1>. SUFFICES ASSUME IInv, SInv, [Next]_vars PROVE SInv'
  OBVIOUS
<1>1. IInv'
  BY NextInv
<1>2. CASE UNCHANGED vars
  <2>1. SInv' <=> SInv
    BY <1>2 DEF vars, client, env, SInv, ChainsGenuine, WireGenuine, NothingUnasked, Looked, Part,
       Ordered, Lost, Cut, Whole, Got, Length, Total
  <2>2. QED BY <2>1
<1>3. CASE Next
  BY <1>1, <1>3, SendStream, CheckStream, ReadStream, AbandonStream, UnbindStream, OtherStream,
     ServerStream
  DEF Next, Library
<1>4. QED BY <1>2, <1>3

-----------------------------------------------------------------------------
LEMMA StreamInvariant == Spec => [](IInv /\ SInv)
<1>1. Init => IInv /\ SInv
  BY InitInv, InitStream
<1>2. (IInv /\ SInv) /\ [Next]_vars => (IInv /\ SInv)'
  BY NextInv, NextStream
<1>3. QED BY <1>1, <1>2, PTL DEF Spec

(* What the rest of a whole stream looks like.                             *)
LEMMA WholeStream ==
    ASSUME IInv, NEW id \in MsgIds, Whole(id), Ordered(id)
    PROVE  /\ Positions(InOrder(id, wire)) =
                 [i \in 1..(Total(id) - Length(id)) |-> Length(id) + i]
           /\ Got(id) \o Positions(InOrder(id, wire)) = [i \in 1..Total(id) |-> i]
<1>. DEFINE g == Length(id)
            t == Total(id)
            r == [i \in 1..(t - g) |-> g + i]
<1>1. g \in Nat /\ t \in Nat /\ g <= t /\ wire \in Seq(Message)
  BY GotIsType DEF GotType, Whole, IInv, TypeOK
<1>2. Positions(InOrder(id, wire)) = r
  BY <1>1, InOrderPositions DEF Whole, Ordered
<1>3. Got(id) = [i \in 1..g |-> i]
  BY DEF Whole
<1>. HIDE DEF g, t
<1>4. [i \in 1..g |-> i] \o r = [i \in 1..t |-> i]
  <2>. DEFINE a == [i \in 1..g |-> i]
  <2>1. a \in Seq(Nat) /\ Len(a) = g /\ r \in Seq(Nat) /\ Len(r) = t - g
    BY <1>1
  <2>2. /\ a \o r \in Seq(Nat) /\ Len(a \o r) = t
        /\ \A i \in 1..t : (a \o r)[i] = IF i <= g THEN a[i] ELSE r[i - g]
    <3>. HIDE DEF a, r
    <3>1. /\ a \o r \in Seq(Nat) /\ Len(a \o r) = Len(a) + Len(r)
          /\ \A i \in 1..(Len(a) + Len(r)) :
                (a \o r)[i] = IF i <= Len(a) THEN a[i] ELSE r[i - Len(a)]
      BY <2>1, ConcatProperties, Zenon
    <3>2. Len(a) + Len(r) = t
      BY <1>1, <2>1
    <3>3. QED BY <2>1, <3>1, <3>2
  <2>3. \A i \in 1..t : (a \o r)[i] = i
    <3>1. TAKE i \in 1..t
    <3>2. CASE i <= g
      BY <1>1, <2>2, <3>2
    <3>3. CASE ~(i <= g)
      <4>1. i - g \in 1..(t - g) /\ g + (i - g) = i
        BY <1>1, <3>3
      <4>2. QED BY <2>2, <3>3, <4>1
    <3>4. QED BY <3>2, <3>3
  <2>. DEFINE c == a \o r
  <2>4. c = [i \in 1..t |-> i]
    <3>1. c \in Seq(Nat) /\ Len(c) = t /\ \A i \in 1..t : c[i] = i
      BY <2>2, <2>3
    <3>. HIDE DEF c
    <3>2. QED BY <3>1
  <2>5. QED BY <2>4
<1>5. QED BY <1>2, <1>3, <1>4 DEF g, t

(* Nothing is lost, repeated or reordered between the server and the       *)
(* application, whatever the application calls.                            *)
THEOREM StreamTheorem == Spec => []StreamIntact
<1>1. IInv /\ SInv => StreamIntact
  <2>. SUFFICES ASSUME IInv, SInv, session = "open", NEW id \in MsgIds, ~Lost(id)
                PROVE  \/ ops[id] = "other" /\ sent[id] > 0 /\ Got(id) = <<1>>
                       \/ Got(id) \o Positions(InOrder(id, wire)) = [i \in 1..Total(id) |-> i]
    BY DEF StreamIntact, Lost, Total
  <2>1. Ordered(id) /\ (Cut(id) \/ Whole(id))
    BY DEF SInv, Part
  <2>2. QED BY <2>1, WholeStream DEF Cut
<1>2. QED BY <1>1, StreamInvariant, PTL

-----------------------------------------------------------------------------
(* What a step hands out: one message, or with all set everything up to    *)
(* the final response.                                                     *)

HandsOne(id) == Len(delivered'[id]) = Len(delivered[id]) + 1

HandsAll(id) ==
    /\ id \in finished /\ chain'[id] = <<>>
    /\ Len(delivered'[id]) > Len(delivered[id])
    /\ delivered'[id][Len(delivered'[id])] = sent[id] + 1

LEMMA ConcatEnd ==
    ASSUME NEW a \in Seq(Nat), NEW b \in Seq(Nat), Len(b) # 0
    PROVE  Len(a \o b) = Len(a) + Len(b) /\ (a \o b)[Len(a \o b)] = b[Len(b)]
OBVIOUS

LEMMA HandedOut ==
    ASSUME IInv, SInv, Check \/ Read, NEW id \in MsgIds, delivered'[id] # delivered[id]
    PROVE  /\ session = "open" /\ abandoned[id] = 0
           /\ chain[id] # <<>> \/ At(wire, id) # {}
           /\ ((call.one \/ ops[id] = "other") /\ HandsOne(id)) \/ HandsAll(id)
           /\ \A x \in MsgIds : x # id => chain'[x] = chain[x] /\ delivered'[x] = delivered[x]
<1>0. /\ session = "open" /\ call \in Calls /\ wire \in Seq(Message) /\ sent[id] \in Nat
      /\ chain \in [MsgIds -> Seq(Message)] /\ delivered \in [MsgIds -> Seq(Nat)]
      /\ Total(id) <= sent[id] + 1 /\ (id \notin finished => Total(id) = sent[id])
      /\ call.one \in BOOLEAN /\ Total(id) \in Nat
  <2>1. session = "open" /\ call \in Calls
    BY ReadOpen DEF IInv
  <2>2. sent[id] \in Nat
    BY DEF IInv, TypeOK
  <2>3. /\ Total(id) <= sent[id] + 1 /\ (id \notin finished => Total(id) = sent[id])
        /\ Total(id) \in Nat
    BY <2>2 DEF Total
  <2>4. QED BY <2>1, <2>2, <2>3 DEF IInv, TypeOK, Calls
<1>. DEFINE ch == chain[id]
            d  == delivered[id]
<1>1. CASE Check
  <2>1. PICK it \in MsgIds :
            /\ chain[it] # <<>> /\ abandoned[it] = 0
            /\ Acceptable(chain[it], call.msgid, call.one) /\ call.msgid \in {RES_ANY, it}
            /\ chain' = [chain EXCEPT ![it] = Left(chain[it], call.one)]
            /\ Hand(it, Taken(chain[it], call.one))
            /\ call' = NoCall
    BY <1>1, LookEffect
  <2>2. id = it
    BY <1>0, <2>1 DEF Hand
  <2>3. /\ delivered' = [delivered EXCEPT ![id] = d \o Positions(Taken(ch, call.one))]
        /\ chain' = [chain EXCEPT ![id] = Left(ch, call.one)]
        /\ ch \in Seq(Message) /\ ch # <<>> /\ d \in Seq(Nat)
    BY <1>0, <2>1, <2>2 DEF Hand
  <2>4. PICK k \in 1..Len(ch) :
            /\ Taken(ch, call.one) \in Seq(Message) /\ Len(Taken(ch, call.one)) = k
    BY <1>0, <2>3, TakenLeft
  <2>5. CASE call.one
    <3>1. Taken(ch, call.one) = <<Head(ch)>>
      BY <2>5 DEF Taken
    <3>2. Len(Taken(ch, call.one)) = 1
      BY <3>1
    <3>. DEFINE p == Positions(Taken(ch, call.one))
    <3>3. p \in Seq(Nat) /\ Len(p) = 1
      BY <2>4, <3>2, PositionsAre
    <3>. HIDE DEF p
    <3>4. Len(d \o p) = Len(d) + 1
      <4>1. Len(p) # 0 /\ d \in Seq(Nat)
        BY <2>3, <3>3
      <4>. HIDE DEF d
      <4>2. QED BY <3>3, <4>1, ConcatEnd
    <3>5. HandsOne(id)
      BY <1>0, <2>3, <3>4 DEF HandsOne, p
    <3>6. QED BY <1>0, <2>1, <2>2, <2>3, <2>5, <3>5
  <2>6. CASE ~call.one
    <3>1. Taken(ch, call.one) = ch /\ Left(ch, call.one) = <<>>
      BY <2>6 DEF Taken, Left
    <3>2. PICK i \in DOMAIN ch : ~NonFinal(ch[i])
      <4>1. id # 0
        BY DEF MsgIds
      <4>2. QED BY <2>1, <2>2, <2>6, <4>1 DEF Acceptable, RES_ANY, RES_UNSOLICITED
    <3>3. \A n \in DOMAIN ch : Fits(ch[n], ops[id], sent[id], Total(id))
      BY <1>0 DEF SInv, ChainsGenuine
    <3>4. \A n, l \in DOMAIN ch : n < l => ch[n].n < ch[l].n
      BY <1>0 DEF SInv, Part, Ordered
    <3>5. DOMAIN ch = 1..Len(ch) /\ Len(ch) \in Nat \ {0}
      BY <2>3
    <3>6. ch[i].n = sent[id] + 1 /\ id \in finished /\ Total(id) = sent[id] + 1
      BY <1>0, <3>2, <3>3 DEF Fits
    <3>7. i = Len(ch)
      <4>1. ASSUME i < Len(ch) PROVE FALSE
        BY <3>3, <3>4, <3>5, <3>6, <4>1 DEF Fits
      <4>2. QED BY <3>5, <4>1
    <3>. DEFINE p == Positions(ch)
    <3>8. p \in Seq(Nat) /\ Len(p) = Len(ch) /\ p[Len(ch)] = sent[id] + 1
      BY <2>3, <3>5, <3>6, <3>7, PositionsAre
    <3>. HIDE DEF p
    <3>9. (d \o p)[Len(d \o p)] = sent[id] + 1 /\ Len(d \o p) > Len(d)
      <4>1. Len(p) # 0 /\ p[Len(p)] = sent[id] + 1
        BY <3>5, <3>8
      <4>2. QED BY <2>3, <3>8, <4>1, ConcatEnd
    <3>10. HandsAll(id)
      BY <1>0, <2>3, <3>1, <3>6, <3>9 DEF HandsAll, p
    <3>11. QED BY <1>0, <2>1, <2>2, <2>3, <3>10
  <2>7. QED BY <2>5, <2>6
<1>2. CASE Read
  <2>1. PICK m : m = Head(wire)
    OBVIOUS
  <2>2. wire # <<>> /\ wire' = Tail(wire) /\ (Toss(m) \/ Enqueue(m) \/ HandOver(m) \/ HandChain(m))
    BY <1>2, <2>1 DEF Read
  <2>3. HandOver(m) \/ HandChain(m)
    BY <2>2 DEF Toss, Enqueue
  <2>4. Wanted(m)
    BY <2>3 DEF HandOver, HandChain
  <2>5. /\ m \in Message /\ m.id \in MsgIds /\ abandoned[m.id] = 0
        /\ Fits(m, ops[m.id], sent[m.id], Total(m.id))
        /\ Chained(chain[m.id], m) = Append(chain[m.id], m)
    BY <1>0, <2>1, <2>2, <2>4, WantedNext
  <2>6. id = m.id
    BY <1>0, <2>3 DEF HandOver, HandChain, Hand
  <2>7. At(wire, id) # {}
    BY <1>0, <2>1, <2>2, <2>6 DEF At
  <2>8. ch \in Seq(Message) /\ d \in Seq(Nat) /\ m.n \in Nat
    BY <1>0, <2>5 DEF Message
  <2>9. CASE HandOver(m)
    <3>1. chain' = chain /\ delivered' = [delivered EXCEPT ![id] = d \o Positions(<<m>>)] /\ Direct(m)
      BY <2>6, <2>9 DEF HandOver, Hand
    <3>2. Positions(<<m>>) \in Seq(Nat) /\ Len(Positions(<<m>>)) = 1
      <4>1. <<m>> \in Seq(Message) /\ Len(<<m>>) = 1
        BY <2>5
      <4>2. QED BY <4>1, PositionsAre
    <3>. DEFINE p == Positions(<<m>>)
    <3>3. HandsOne(id)
      <4>1. p \in Seq(Nat) /\ Len(p) = 1
        BY <3>2
      <4>2. delivered'[id] = d \o p
        BY <1>0, <3>1
      <4>. HIDE DEF p
      <4>3. Len(d \o p) = Len(d) + 1
        <5>1. Len(p) # 0 /\ d \in Seq(Nat)
          BY <2>8, <4>1
        <5>. HIDE DEF d
        <5>2. QED BY <4>1, <5>1, ConcatEnd
      <4>4. QED BY <4>2, <4>3 DEF HandsOne
    <3>4. call.one \/ ops[id] = "other"
      <4>1. SUFFICES ASSUME ~call.one PROVE ops[id] = "other"
        OBVIOUS
      <4>2. m.type \notin {"result", "entry", "reference"}
        BY <3>1, <4>1 DEF Direct
      <4>3. ops[id] \in {"none", "search", "other"} /\ ops[id] # "none"
        BY <2>5, <2>6 DEF Fits, IInv, TypeOK
      <4>4. QED BY <2>5, <2>6, <4>2, <4>3 DEF Fits, Responses
    <3>5. QED BY <1>0, <2>5, <2>6, <2>7, <3>1, <3>3, <3>4
  <2>10. CASE HandChain(m)
    <3>1. /\ chain' = [chain EXCEPT ![id] = <<>>] /\ EndsSearch(m)
          /\ delivered' = [delivered EXCEPT ![id] = d \o Positions(Append(ch, m))]
      BY <2>5, <2>6, <2>10 DEF HandChain, Hand
    <3>2. m.n = sent[id] + 1 /\ id \in finished
      <4>1. ~NonFinal(m)
        BY <3>1 DEF EndsSearch, NonFinal
      <4>2. QED BY <1>0, <2>5, <2>6, <2>8, <4>1 DEF Fits
    <3>. DEFINE a == Append(ch, m)
                p == Positions(a)
    <3>3. a \in Seq(Message) /\ Len(a) = Len(ch) + 1 /\ a[Len(a)] = m /\ Len(a) \in Nat \ {0}
      BY <2>5, <2>8
    <3>4. delivered'[id] = d \o p /\ chain'[id] = <<>>
      BY <1>0, <3>1
    <3>. HIDE DEF a
    <3>5. p \in Seq(Nat) /\ Len(p) = Len(a) /\ p[Len(a)] = m.n
      BY <3>3, PositionsAre
    <3>. HIDE DEF p
    <3>6. (d \o p)[Len(d \o p)] = sent[id] + 1 /\ Len(d \o p) > Len(d)
      <4>1. Len(p) # 0 /\ p[Len(p)] = sent[id] + 1
        BY <3>2, <3>3, <3>5
      <4>2. QED BY <2>8, <3>5, <4>1, ConcatEnd
    <3>7. HandsAll(id)
      BY <3>2, <3>4, <3>6 DEF HandsAll
    <3>8. QED BY <1>0, <2>5, <2>6, <2>7, <3>1, <3>7
  <2>11. QED BY <2>3, <2>9, <2>10
<1>3. QED BY <1>1, <1>2

(* Only ldap_result hands messages out.                                    *)
LEMMA OnlyResult ==
    ASSUME [Next]_vars, ~Check, ~Read
    PROVE  delivered' = delivered
BY DEF Next, Library, Send, ResultCall, ReadError, Timeout, Abandon, Unbind, ServerReply, ServerFinal,
   ServerNotice, ServerCrash, vars

(* With all set, a search response is handed out in its entirety only.     *)
THEOREM AllIsWholeTheorem == Spec => AllIsWhole
<1>1. ASSUME IInv, SInv, [Next]_vars, NEW id \in MsgIds,
             ops[id] = "search", delivered'[id] # delivered[id], ~call.one
      PROVE  /\ id \in finished /\ chain'[id] = <<>>
             /\ delivered'[id][Len(delivered'[id])] = sent[id] + 1
  <2>1. Check \/ Read
    BY <1>1, OnlyResult
  <2>2. QED BY <1>1, <2>1, HandedOut DEF HandsAll
<1>2. IInv /\ SInv /\ [Next]_vars =>
        [\A id \in MsgIds :
            ops[id] = "search" /\ delivered'[id] # delivered[id] /\ ~call.one =>
                /\ id \in finished /\ chain'[id] = <<>>
                /\ delivered'[id][Len(delivered'[id])] = sent[id] + 1]_vars
  BY <1>1
<1>3. QED BY <1>2, StreamInvariant, PTL DEF Spec, AllIsWhole

-----------------------------------------------------------------------------
(* A message that is not for the caller adds nothing to ld_responses that  *)
(* the caller would accept.                                                *)
LEMMA QueuedNothing ==
    ASSUME IInv, SInv, Read, NEW m, m = Head(wire), Enqueue(m)
    PROVE  ChkResponseList(queue', chain', abandoned', call.msgid, call.one) = 0
<1>0. /\ session = "open" /\ wire # <<>> /\ wire' = Tail(wire) /\ abandoned' = abandoned
      /\ queue \in Seq(MsgIds) /\ chain \in [MsgIds -> Seq(Message)]
      /\ call.pc = "select"
  BY ReadOpen DEF Read, IInv, TypeOK
<1>1. /\ m \in Message /\ m.id \in MsgIds /\ abandoned[m.id] = 0
      /\ \A i \in DOMAIN chain[m.id] : NonFinal(chain[m.id][i])
      /\ Chained(chain[m.id], m) = Append(chain[m.id], m)
  BY <1>0, WantedNext DEF Enqueue
<1>2. /\ ~Direct(m) /\ ~EndsSearch(m) /\ queue' = Queued(queue, m.id)
      /\ chain' = [chain EXCEPT ![m.id] = Append(chain[m.id], m)]
  BY <1>0, <1>1 DEF Enqueue
<1>. DEFINE cand  == Candidates(queue, abandoned, call.msgid)
            after == Candidates(queue', abandoned, call.msgid)
<1>3. queue' \in Seq(MsgIds)
  BY <1>0, <1>1, <1>2 DEF Queued
<1>4. /\ \A i \in cand : (\A j \in cand : i <= j) =>
              ~Acceptable(chain[queue[i]], call.msgid, call.one)
  <2>1. ChkResponseList(queue, chain, abandoned, call.msgid, call.one) = 0
    BY <1>0 DEF SInv, Looked
  <2>2. QED BY <1>0, <2>1, Walk
<1>5. ASSUME NEW i \in after, \A j \in after : i <= j
      PROVE  ~Acceptable(chain'[queue'[i]], call.msgid, call.one)
  <2>1. /\ i \in DOMAIN queue' /\ queue'[i] \in MsgIds /\ abandoned[queue'[i]] = 0
        /\ call.msgid \in {RES_ANY, queue'[i]}
    BY <1>3 DEF Candidates
  <2>2. CASE queue'[i] = m.id
    <3>1. ~call.one /\ NonFinal(m)
      BY <1>2, <2>1, <2>2 DEF Direct, EndsSearch, NonFinal
    <3>2. call.msgid # RES_UNSOLICITED
      BY <2>1 DEF RES_ANY, RES_UNSOLICITED, MsgIds
    <3>3. \A k \in DOMAIN chain'[m.id] : NonFinal(chain'[m.id][k])
      <4>1. chain'[m.id] = Append(chain[m.id], m) /\ chain[m.id] \in Seq(Message)
        BY <1>0, <1>1, <1>2
      <4>2. \A k \in DOMAIN chain'[m.id] :
                \/ k \in DOMAIN chain[m.id] /\ chain'[m.id][k] = chain[m.id][k]
                \/ chain'[m.id][k] = m
        BY <1>1, <4>1
      <4>3. QED BY <1>1, <3>1, <4>2
    <3>4. QED BY <2>2, <3>1, <3>2, <3>3 DEF Acceptable
  <2>3. CASE queue'[i] # m.id
    <3>1. chain'[queue'[i]] = chain[queue'[i]]
      BY <1>0, <1>2, <2>1, <2>3
    <3>2. CASE Contains(queue, m.id)
      <4>1. queue' = queue
        BY <1>2, <3>2 DEF Queued
      <4>2. QED BY <1>4, <1>5, <3>1, <4>1
    <3>3. CASE ~Contains(queue, m.id)
      <4>1. queue' = <<m.id>> \o queue
        BY <1>2, <3>3 DEF Queued
      <4>2. /\ DOMAIN queue' = 1..(Len(queue) + 1) /\ DOMAIN queue = 1..Len(queue)
            /\ Len(queue) \in Nat /\ queue'[1] = m.id
            /\ \A k \in 1..Len(queue) : queue'[k + 1] = queue[k]
        BY <1>0, <1>1, <4>1
      <4>3. i - 1 \in DOMAIN queue /\ queue'[i] = queue[i - 1]
        <5>1. i \in 1..(Len(queue) + 1) /\ i # 1
          BY <2>1, <2>3, <4>2
        <5>2. i - 1 \in 1..Len(queue) /\ (i - 1) + 1 = i
          BY <4>2, <5>1
        <5>3. QED BY <4>2, <5>2
      <4>4. i - 1 \in cand
        BY <2>1, <4>3 DEF Candidates
      <4>5. \A j \in cand : j + 1 \in after /\ j \in Nat
        BY <4>2 DEF Candidates
      <4>6. i \in Nat
        BY <2>1, <4>2
      <4>. HIDE DEF cand, after
      <4>7. \A j \in cand : i - 1 <= j
        BY <1>5, <4>5, <4>6
      <4>8. ~Acceptable(chain[queue[i - 1]], call.msgid, call.one)
        BY <1>4, <4>4, <4>7
      <4>9. QED BY <3>1, <4>3, <4>8
    <3>4. QED BY <3>2, <3>3
  <2>4. QED BY <2>2, <2>3
<1>. DEFINE q2 == queue'
            c2 == chain'
<1>6. q2 \in Seq(MsgIds) /\ \A i \in Candidates(q2, abandoned, call.msgid) :
         (\A j \in Candidates(q2, abandoned, call.msgid) : i <= j) =>
             ~Acceptable(c2[q2[i]], call.msgid, call.one)
  BY <1>3, <1>5
<1>. HIDE DEF q2, c2
<1>7. ChkResponseList(q2, c2, abandoned, call.msgid, call.one) = 0
  BY <1>6, Walk
<1>8. QED BY <1>0, <1>7 DEF q2, c2

(* A call that returns 0 leaves nothing behind that it would have          *)
(* accepted.                                                               *)
THEOREM TimeoutTheorem == Spec => TimeoutMissesNothing
<1>1. ASSUME IInv, SInv, [Next]_vars, call # NoCall, call' = NoCall, delivered' = delivered
      PROVE  ChkResponseList(queue', chain', abandoned', call.msgid, call.one) = 0
  <2>1. ASSUME NEW a \in Seq(Nat), NEW b \in Seq(Nat), Len(b) # 0 PROVE a \o b # a
    <3>1. Len(a \o b) = Len(a) + Len(b) /\ Len(b) # 0 /\ Len(a) \in Nat /\ Len(b) \in Nat
      BY <2>1, ConcatEnd
    <3>2. QED BY <3>1
  <2>2. ASSUME NEW id \in MsgIds, NEW ms \in Seq(Message), ms # <<>>, Hand(id, ms) PROVE FALSE
    <3>1. delivered[id] \in Seq(Nat) /\ delivered[id] = delivered[id] \o Positions(ms)
      BY <1>1, <2>2 DEF Hand, IInv, TypeOK
    <3>2. Positions(ms) \in Seq(Nat) /\ Len(Positions(ms)) # 0
      <4>1. Len(ms) # 0
        BY <2>2
      <4>2. Positions(ms) \in Seq(Nat) /\ Len(Positions(ms)) = Len(ms)
        BY PositionsAre
      <4>3. QED BY <4>1, <4>2
    <3>3. delivered[id] \o Positions(ms) # delivered[id]
      BY <2>1, <3>1, <3>2
    <3>4. QED BY <3>1, <3>3
  <2>3. CASE ReadError \/ Timeout
    <3>1. /\ UNCHANGED <<queue, chain, abandoned>> /\ call.pc = "select" /\ session = "open"
      BY <1>1, <2>3, ReadOpen DEF ReadError, Timeout, client, IInv
    <3>2. QED BY <1>1, <3>1 DEF SInv, Looked
  <2>4. CASE Check
    <3>1. call' # [call EXCEPT !.pc = "select"]
      BY <1>1, <2>4 DEF NoCall, IInv, TypeOK, Calls
    <3>2. PICK id \in MsgIds : chain[id] # <<>> /\ Hand(id, Taken(chain[id], call.one))
      BY <1>1, <2>4, <3>1, LookEffect
    <3>3. Taken(chain[id], call.one) \in Seq(Message) /\ Taken(chain[id], call.one) # <<>>
      <4>1. chain[id] \in Seq(Message)
        BY <1>1 DEF IInv, TypeOK
      <4>2. QED BY <3>2, <4>1 DEF Taken
    <3>4. QED BY <2>2, <3>2, <3>3
  <2>5. CASE Read
    <3>1. PICK m : m = Head(wire)
      OBVIOUS
    <3>2. wire # <<>> /\ wire' = Tail(wire) /\ abandoned' = abandoned
          /\ (Toss(m) \/ Enqueue(m) \/ HandOver(m) \/ HandChain(m)) /\ call.pc = "select"
      BY <2>5, <3>1 DEF Read
    <3>3. session = "open"
      BY <1>1, <2>5, ReadOpen DEF IInv
    <3>4. CASE Toss(m)
      BY <1>1, <3>2, <3>3, <3>4 DEF Toss, SInv, Looked
    <3>5. CASE Enqueue(m)
      BY <1>1, <2>5, <3>1, <3>5, QueuedNothing
    <3>6. CASE HandOver(m) \/ HandChain(m)
      <4>1. /\ m \in Message /\ m.id \in MsgIds
            /\ Chained(chain[m.id], m) = Append(chain[m.id], m)
        BY <1>1, <3>1, <3>2, <3>3, <3>6, WantedNext DEF HandOver, HandChain
      <4>2. chain[m.id] \in Seq(Message)
        BY <1>1, <4>1 DEF IInv, TypeOK
      <4>3. Hand(m.id, <<m>>) \/ Hand(m.id, Append(chain[m.id], m))
        BY <3>6, <4>1 DEF HandOver, HandChain
      <4>4. <<m>> \in Seq(Message) /\ <<m>> # <<>>
        BY <4>1
      <4>5. Append(chain[m.id], m) \in Seq(Message) /\ Append(chain[m.id], m) # <<>>
        BY <4>1, <4>2, AppendProperties
      <4>6. QED BY <2>2, <4>1, <4>3, <4>4, <4>5
    <3>7. QED BY <3>2, <3>4, <3>5, <3>6
  <2>6. QED
    BY <1>1, <2>3, <2>4, <2>5 DEF Next, Library, Send, ResultCall, Abandon, Unbind, Idle, ServerReply,
       ServerFinal, ServerNotice, ServerCrash, vars
<1>2. IInv /\ SInv /\ [Next]_vars =>
        [call # NoCall /\ call' = NoCall /\ delivered' = delivered =>
            ChkResponseList(queue', chain', abandoned', call.msgid, call.one) = 0]_vars
  BY <1>1
<1>3. QED BY <1>2, StreamInvariant, PTL DEF Spec, TimeoutMissesNothing

-----------------------------------------------------------------------------
(* The session implements a stream per operation, version 2: there are no  *)
(* partial responses, and an operation that was abandoned without a word   *)
(* to the server has ended.                                                *)

NoPartials == \A id \in MsgIds : ops[id] = "other" => sent[id] = 0

Over ==
    session = "open" => \A id \in aborted : abandoned[id] = 0 =>
        id \in finished /\ chain[id] = <<>> /\ At(wire, id) = {}

(* An operation that is not gone: what was handed out and what is to come. *)
View ==
    \A id \in MsgIds \ Gone :
        LET d == Len(delivered[id])
        IN  /\ d \in 0..Total(id)
            /\ delivered[id] = [i \in 1..d |-> i]
            /\ Box[id] = [i \in 1..(Total(id) - d) |-> d + i]

(* When two sequences together count up to t, each counts its part.        *)
LEMMA Counting ==
    ASSUME NEW d \in Seq(Nat), NEW b \in Seq(Nat), NEW t \in Nat,
           DOMAIN (d \o b) = 1..t, \A i \in 1..t : (d \o b)[i] = i
    PROVE  /\ Len(d) \in 0..t /\ Len(b) = t - Len(d)
           /\ \A i \in 1..Len(d) : d[i] = i
           /\ \A i \in 1..Len(b) : b[i] = Len(d) + i
<1>1. /\ Len(d) \in Nat /\ Len(b) \in Nat /\ Len(d \o b) = Len(d) + Len(b)
      /\ \A i \in 1..(Len(d) + Len(b)) :
            (d \o b)[i] = IF i <= Len(d) THEN d[i] ELSE b[i - Len(d)]
  <2>1. /\ Len(d \o b) = Len(d) + Len(b)
        /\ \A i \in 1..(Len(d) + Len(b)) :
              (d \o b)[i] = IF i <= Len(d) THEN d[i] ELSE b[i - Len(d)]
    BY ConcatProperties, Zenon
  <2>2. Len(d) \in Nat /\ Len(b) \in Nat
    OBVIOUS
  <2>3. QED BY <2>1, <2>2
<1>2. d \o b \in Seq(Nat)
  BY ConcatProperties, Zenon
<1>. DEFINE c == d \o b
<1>3. c \in Seq(Nat) /\ DOMAIN c = 1..t /\ Len(c) = Len(d) + Len(b)
  BY <1>1, <1>2
<1>. HIDE DEF c
<1>4. Len(c) = t
  BY <1>3
<1>5. Len(d) \in 0..t /\ Len(b) = t - Len(d)
  BY <1>1, <1>3, <1>4
<1>6. \A i \in 1..t : c[i] = IF i <= Len(d) THEN d[i] ELSE b[i - Len(d)]
  BY <1>1, <1>3, <1>4 DEF c
<1>7. \A i \in 1..t : c[i] = i
  BY DEF c
<1>8. \A i \in 1..Len(d) : d[i] = i
  <2>1. TAKE i \in 1..Len(d)
  <2>2. i \in 1..t /\ i <= Len(d)
    BY <1>5
  <2>3. QED BY <1>6, <1>7, <2>2
<1>9. \A i \in 1..Len(b) : b[i] = Len(d) + i
  <2>1. TAKE i \in 1..Len(b)
  <2>2. /\ Len(d) + i \in 1..t /\ ~(Len(d) + i <= Len(d)) /\ (Len(d) + i) - Len(d) = i
    BY <1>1, <1>5
  <2>3. QED BY <1>6, <1>7, <2>2
<1>10. QED BY <1>5, <1>8, <1>9

LEMMA ViewIs == IInv /\ SInv /\ NoPartials => View
<1>. SUFFICES ASSUME IInv, SInv, NoPartials, NEW id \in MsgIds, id \notin Gone
              PROVE  /\ Len(delivered[id]) \in 0..Total(id)
                     /\ delivered[id] = [i \in 1..Len(delivered[id]) |-> i]
                     /\ Box[id] = [i \in 1..(Total(id) - Len(delivered[id])) |->
                                      Len(delivered[id]) + i]
  BY Zenon DEF View
<1>. DEFINE d == delivered[id]
            p == Positions(chain[id])
            r == Positions(InOrder(id, wire))
            t == Total(id)
            g == Length(id)
<1>1. session = "open" /\ ~Lost(id)
  BY DEF Gone, Lost, IInv, TypeOK
<1>2. Ordered(id) /\ (Cut(id) \/ Whole(id))
  BY <1>1 DEF SInv, Part
<1>3. Whole(id)
  BY <1>2 DEF Cut, NoPartials
<1>4. /\ d \in Seq(Nat) /\ p \in Seq(Nat) /\ t \in Nat
      /\ r = [i \in 1..(t - g) |-> g + i] /\ g \in Nat /\ g <= t
      /\ (d \o p) \o r = [i \in 1..t |-> i]
  <2>1. r = [i \in 1..(t - g) |-> g + i] /\ Got(id) \o r = [i \in 1..t |-> i]
    BY <1>2, <1>3, WholeStream
  <2>2. d \in Seq(Nat) /\ p \in Seq(Nat)
    BY PositionsAre DEF IInv, TypeOK
  <2>3. g \in Nat /\ t \in Nat /\ g <= t
    BY <1>3, GotIsType DEF GotType, Whole
  <2>4. Got(id) = d \o p
    BY DEF Got
  <2>5. QED BY <2>1, <2>2, <2>3, <2>4
<1>5. Box[id] = p \o r
  BY DEF Box
<1>. HIDE DEF d, p, r, t, g
<1>6. r \in Seq(Nat)
  BY <1>4
<1>7. p \o r \in Seq(Nat) /\ d \o (p \o r) = [i \in 1..t |-> i]
  <2>1. p \o r \in Seq(Nat)
    BY <1>4, <1>6, ConcatProperties
  <2>2. (d \o p) \o r = d \o (p \o r)
    BY <1>4, <1>6, ConcatAssociative, SMTT(30)
  <2>3. QED BY <1>4, <2>1, <2>2
<1>. DEFINE b == p \o r
<1>8. b \in Seq(Nat) /\ d \o b = [i \in 1..t |-> i] /\ Box[id] = b
  BY <1>5, <1>7
<1>. HIDE DEF b
<1>9. /\ Len(d) \in 0..t
      /\ d = [i \in 1..Len(d) |-> i]
      /\ b = [i \in 1..(t - Len(d)) |-> Len(d) + i]
  <2>1. d \in Seq(Nat) /\ b \in Seq(Nat) /\ t \in Nat
    BY <1>4, <1>8
  <2>2. DOMAIN (d \o b) = 1..t /\ \A i \in 1..t : (d \o b)[i] = i
    BY <1>8, <2>1
  <2>3. /\ Len(d) \in 0..t /\ Len(b) = t - Len(d)
        /\ \A i \in 1..Len(d) : d[i] = i
        /\ \A i \in 1..Len(b) : b[i] = Len(d) + i
    BY <2>1, <2>2, Counting, Zenon
  <2>4. d = [i \in 1..Len(d) |-> i]
    BY <2>1, <2>3
  <2>5. b = [i \in 1..(t - Len(d)) |-> Len(d) + i]
    BY <2>1, <2>3
  <2>6. QED BY <2>3, <2>4, <2>5
<1>10. Box[id] = [i \in 1..(t - Len(d)) |-> Len(d) + i]
  BY <1>8, <1>9
<1>11. QED BY <1>9, <1>10, Zenon DEF d, t

LEMMA NoPartialsKept ==
    ASSUME Version = 2, IInv, NoPartials, [Next]_vars, SInv
    PROVE  NoPartials'
<1>0. sent \in [MsgIds -> Nat] /\ ops \in [MsgIds -> {"none", "search", "other"}]
  BY DEF IInv, TypeOK
<1>1. ASSUME NEW id \in MsgIds, NEW type \in MsgTypes, ServerReply(id, type) PROVE NoPartials'
  <2>1. ops[id] # "other"
    BY <1>1 DEF ServerReply, Responses
  <2>2. QED BY <1>0, <1>1, <2>1 DEF ServerReply, NoPartials
<1>2. ASSUME NEW kind \in Kinds, Send(kind) PROVE NoPartials'
  <2>1. sent' = sent /\ ld_msgid' \in MsgIds /\ session = "open" /\ ops[ld_msgid'] = "none"
    BY <1>2, BoundsAssumption DEF Send, Idle, env, IInv, TypeOK, Fresh, MsgIds
  <2>2. sent[ld_msgid'] = 0
    BY <2>1 DEF SInv, NothingUnasked
  <2>3. \A id \in MsgIds : ops'[id] = ops[id] \/ id = ld_msgid'
    BY <1>0, <1>2 DEF Send
  <2>4. QED BY <2>1, <2>2, <2>3 DEF NoPartials
<1>3. CASE UNCHANGED <<ops, sent>>
  BY <1>3 DEF NoPartials
<1>4. QED
  BY <1>1, <1>2, <1>3 DEF Next, Library, ResultCall, Check, Read, ReadError, Timeout, Abandon, Unbind,
     ServerFinal, ServerNotice, ServerCrash, vars, env

LEMMA OverKept ==
    ASSUME Version = 2, IInv, NoPartials, SInv, Over, [Next]_vars
    PROVE  Over'
<1>0. /\ wire \in Seq(Message) /\ chain \in [MsgIds -> Seq(Message)] /\ aborted \subseteq MsgIds
      /\ abandoned \in [MsgIds -> Nat] /\ sent \in [MsgIds -> Nat]
  BY DEF IInv, TypeOK
<1>1. CASE Check \/ Read
  <2>1. UNCHANGED <<session, abandoned, aborted, finished>>
    BY <1>1, CheckEffect DEF Check, Read, env
  <2>2. session = "open"
    BY <1>1, ReadOpen DEF IInv
  <2>3. ASSUME NEW id \in aborted, abandoned[id] = 0
        PROVE  chain'[id] = <<>> /\ At(wire', id) = {}
    <3>1. id \in MsgIds /\ chain[id] = <<>> /\ At(wire, id) = {}
      BY <1>0, <2>2, <2>3 DEF Over
    <3>2. CASE Check
      <4>1. wire' = wire
        BY <3>2 DEF Check, env
      <4>2. chain'[id] = chain[id]
        BY <1>0, <3>1, <3>2, LookEffect
      <4>3. QED BY <3>1, <4>1, <4>2
    <3>3. CASE Read
      <4>1. wire # <<>> /\ wire' = Tail(wire)
        BY <3>3 DEF Read
      <4>2. Head(wire).id # id
        BY <1>0, <3>1, <4>1 DEF At
      <4>3. At(wire', id) = {}
        <5>1. /\ DOMAIN wire' = 1..(Len(wire) - 1) /\ DOMAIN wire = 1..Len(wire) /\ Len(wire) \in Nat
              /\ \A j \in 1..(Len(wire) - 1) : wire'[j] = wire[j + 1]
          BY <1>0, <4>1
        <5>2. \A j \in At(wire', id) : j + 1 \in At(wire, id)
          BY <5>1 DEF At
        <5>3. QED BY <3>1, <5>2
      <4>4. PICK m : m = Head(wire)
        OBVIOUS
      <4>5. CASE Wanted(m)
        BY <1>0, <3>1, <3>3, <4>2, <4>3, <4>4, <4>5, ReadWanted
      <4>6. CASE ~Wanted(m)
        BY <3>1, <3>3, <4>3, <4>4, <4>6 DEF Read, Toss, Enqueue, HandOver, HandChain
      <4>7. QED BY <4>5, <4>6
    <3>4. QED BY <1>1, <3>2, <3>3
  <2>4. QED BY <2>1, <2>2, <2>3 DEF Over
<1>2. ASSUME NEW it \in MsgIds, Abandon(it) PROVE Over'
  <2>1. /\ session = "open" /\ UNCHANGED <<wire, finished>>
        /\ chain' = [chain EXCEPT ![it] = <<>>]
    BY <1>2 DEF Abandon, DropQueued, Idle, env
  <2>2. ASSUME NEW id \in aborted', abandoned'[id] = 0, id # it
        PROVE  id \in finished /\ chain'[id] = <<>> /\ At(wire, id) = {}
    <3>1. id \in aborted /\ abandoned[id] = 0
      BY <1>0, <1>2, <2>2 DEF Abandon, AbandonQueued, AbandonRunning
    <3>2. QED BY <1>0, <2>1, <2>2, <3>1 DEF Over
  <2>3. ASSUME abandoned'[it] = 0
        PROVE  it \in finished /\ chain'[it] = <<>> /\ At(wire, it) = {}
    <3>1. ~AbandonRunning(it)
      BY <1>0, <2>3 DEF AbandonRunning
    <3>2. chain[it] # <<>> /\ chain[it][Len(chain[it])].type # "entry"
      BY <1>2, <3>1 DEF Abandon, AbandonQueued, MsgDeleted
    <3>. DEFINE last == chain[it][Len(chain[it])]
    <3>3. Len(chain[it]) \in DOMAIN chain[it] /\ last \in Message
      BY <1>0, <3>2
    <3>4. Fits(last, ops[it], sent[it], Total(it))
      BY <2>1, <3>3 DEF SInv, ChainsGenuine
    <3>5. ops[it] \in {"search", "other"} /\ sent[it] \in Nat /\ last.n \in Nat
      BY <3>3, <3>4 DEF Fits, IInv, TypeOK, Message
    <3>6. ~NonFinal(last)
      BY <3>2, <3>4, <3>5 DEF Fits, Responses
    <3>7. it \in finished /\ last.n = Total(it) /\ Total(it) \in Nat
      BY <3>4, <3>5, <3>6 DEF Fits, Total
    <3>8. At(wire, it) = {}
      <4>1. ASSUME NEW j \in At(wire, it) PROVE FALSE
        <5>1. wire[j].n \in Nums(wire, it)
          BY DEF Nums
        <5>2. last.n < wire[j].n
          BY <2>1, <3>3, <5>1 DEF SInv, Part, Ordered
        <5>3. wire[j].n \in 1..Total(it)
          BY <2>1 DEF SInv, WireGenuine, Fits
        <5>4. QED BY <3>7, <5>2, <5>3
      <4>2. QED BY <4>1
    <3>9. QED BY <1>0, <2>1, <3>7, <3>8
  <2>4. QED BY <2>1, <2>2, <2>3 DEF Over
<1>3. ASSUME UNCHANGED <<session, abandoned, aborted, chain>>, finished \subseteq finished',
             NEW m, wire' = wire \/ (wire' = Append(wire, m) /\ m.id \notin finished \cap MsgIds)
      PROVE  Over'
  <2>1. ASSUME NEW id \in aborted, session = "open", abandoned[id] = 0
        PROVE  At(wire', id) = {}
    <3>1. id \in MsgIds /\ id \in finished /\ At(wire, id) = {}
      BY <1>0, <2>1 DEF Over
    <3>2. CASE wire' = Append(wire, m) /\ m.id \notin finished \cap MsgIds
      <4>1. /\ DOMAIN wire' = 1..(Len(wire) + 1) /\ DOMAIN wire = 1..Len(wire) /\ Len(wire) \in Nat
            /\ \A j \in 1..Len(wire) : wire'[j] = wire[j]
            /\ wire'[Len(wire) + 1] = m
        BY <1>0, <3>2
      <4>2. QED BY <3>1, <3>2, <4>1 DEF At
    <3>3. QED BY <1>3, <3>1, <3>2
  <2>2. QED BY <1>3, <2>1 DEF Over
<1>4. ASSUME NEW id \in MsgIds, NEW type \in MsgTypes, ServerReply(id, type) PROVE Over'
  <2>1. PICK m : m = [id |-> id, type |-> type, n |-> sent[id] + 1, ref |-> FALSE]
    OBVIOUS
  <2>2. wire' = Append(wire, m) /\ m.id = id /\ id \notin finished
    BY <1>4, <2>1 DEF ServerReply, Put, Running
  <2>3. QED BY <1>3, <1>4, <2>2 DEF ServerReply, client
<1>5. ASSUME NEW id \in MsgIds, NEW ref \in BOOLEAN, ServerFinal(id, ref) PROVE Over'
  <2>1. PICK m : m = [id |-> id, type |-> IF ops[id] = "search" THEN "result" ELSE "status",
                      n |-> sent[id] + 1, ref |-> ref]
    OBVIOUS
  <2>2. wire' = Append(wire, m) /\ m.id = id /\ id \notin finished
    BY <1>5, <2>1 DEF ServerFinal, Put, Running
  <2>3. QED BY <1>3, <1>5, <2>2 DEF ServerFinal, client
<1>6. CASE ServerNotice
  BY <1>6 DEF ServerNotice
<1>7. CASE (\E kind \in Kinds : Send(kind)) \/ ServerCrash \/ ReadError \/ Timeout \/ UNCHANGED vars
           \/ \E msgid \in Asked, one, timed \in BOOLEAN : ResultCall(msgid, one, timed)
  <2>1. UNCHANGED <<session, abandoned, aborted, chain, finished, wire>>
    BY <1>7 DEF Send, ServerCrash, ReadError, Timeout, vars, client, env, ResultCall
  <2>2. QED BY <2>1 DEF Over
<1>8. CASE Unbind
  BY <1>8 DEF Unbind, Over
<1>9. QED
  BY <1>1, <1>2, <1>4, <1>5, <1>6, <1>7, <1>8 DEF Next, Library

-----------------------------------------------------------------------------
(* The refinement: what every step does to the streams.                    *)

VInv == IInv /\ SInv /\ NoPartials /\ Over

LEMMA InitStreamView == Init => NoPartials /\ Over /\ Stream!Init
<1>. SUFFICES ASSUME Init PROVE NoPartials /\ Over /\ Stream!Init
  OBVIOUS
<1>1. NoPartials /\ Over
  BY DEF Init, NoPartials, Over
<1>2. Gone = {}
  BY DEF Init, Gone
<1>3. ASSUME NEW id \in MsgIds PROVE Box[id] = <<>>
  <2>1. chain[id] = <<>> /\ wire = <<>>
    BY DEF Init
  <2>2. Nums(wire, id) = (0 + 1)..0 /\ Rising(wire, id) /\ wire \in Seq(Message)
    BY <2>1 DEF Nums, At, Rising
  <2>3. Positions(InOrder(id, wire)) = <<>> /\ Positions(<<>>) = <<>>
    <3>1. PICK g \in Nat, t \in Nat : g = 0 /\ t = 0
      OBVIOUS
    <3>2. Nums(wire, id) = (g + 1)..t /\ g <= t
      BY <2>2, <3>1
    <3>3. Positions(InOrder(id, wire)) = [i \in 1..(t - g) |-> g + i]
      BY <2>2, <3>2, InOrderPositions
    <3>4. [i \in 1..(t - g) |-> g + i] = <<>>
      BY <3>1
    <3>5. Positions(<<>>) = <<>>
      BY DEF Positions
    <3>6. QED BY <3>3, <3>4, <3>5
  <2>4. Box[id] = <<>> \o <<>>
    BY <1>2, <2>1, <2>3, Zenon DEF Box
  <2>5. QED BY <2>4
<1>4. Box = [id \in MsgIds |-> <<>>]
  BY <1>3 DEF Box
<1>5. QED BY <1>1, <1>2, <1>4 DEF Init, Stream!Init

(* A stream follows from what was handed out and what was sent.            *)
LEMMA SameBox ==
    ASSUME View, View', NEW id \in MsgIds, id \notin Gone, id \notin Gone',
           delivered'[id] = delivered[id], Total(id)' = Total(id)
    PROVE  Box'[id] = Box[id]
<1>1. Box[id] = [i \in 1..(Total(id) - Len(delivered[id])) |-> Len(delivered[id]) + i]
  BY Zenon DEF View
<1>2. Box'[id] = [i \in 1..(Total(id)' - Len(delivered'[id])) |-> Len(delivered'[id]) + i]
  BY Zenon DEF View
<1>3. QED BY <1>1, <1>2

LEMMA GoneBox == \A id \in MsgIds \cap Gone : Box[id] = <<>>
BY DEF Box

LEMMA BoxIs == Box = [id \in MsgIds |-> Box[id]]
BY DEF Box

LEMMA SameView ==
    ASSUME View, View', Gone' = Gone, delivered' = delivered,
           \A id \in MsgIds \ Gone : Total(id)' = Total(id)
    PROVE  UNCHANGED Stream!vars
<1>1. ASSUME NEW id \in MsgIds PROVE Box'[id] = Box[id]
  <2>1. CASE id \in Gone
    BY <2>1 DEF Box
  <2>2. CASE id \notin Gone
    BY <2>2, SameBox
  <2>3. QED BY <2>1, <2>2
<1>2. Box' = Box
  BY <1>1 DEF Box
<1>3. QED BY <1>2 DEF Stream!vars

(* What is cut off the front of the rest joins what was handed out.        *)
LEMMA Cutting ==
    ASSUME NEW t \in Nat, NEW a \in 0..t, NEW c \in (a + 1)..t,
           NEW x, x = [i \in 1..(t - a) |-> a + i]
    PROVE  /\ Len(x) = t - a
           /\ [i \in 1..c |-> i] = [i \in 1..a |-> i] \o SubSeq(x, 1, c - a)
           /\ [i \in 1..(t - c) |-> c + i] = SubSeq(x, c - a + 1, Len(x))
<1>1. x \in Seq(Nat) /\ Len(x) = t - a
  OBVIOUS
<1>2. /\ SubSeq(x, 1, c - a) = [i \in 1..(c - a) |-> a + i]
      /\ SubSeq(x, c - a + 1, Len(x)) = [i \in 1..(t - c) |-> c + i]
  BY <1>1
<1>. DEFINE u == [i \in 1..a |-> i]
            v == [i \in 1..(c - a) |-> a + i]
            w == [i \in 1..c |-> i]
<1>3. /\ u \in Seq(Nat) /\ Len(u) = a /\ v \in Seq(Nat) /\ Len(v) = c - a
      /\ w \in Seq(Nat) /\ Len(w) = c
      /\ \A i \in 1..a : u[i] = i
      /\ \A i \in 1..(c - a) : v[i] = a + i
      /\ \A i \in 1..c : w[i] = i
  OBVIOUS
<1>. HIDE DEF u, v, w
<1>4. /\ u \o v \in Seq(Nat) /\ Len(u \o v) = Len(u) + Len(v)
      /\ \A i \in 1..(Len(u) + Len(v)) :
            (u \o v)[i] = IF i <= Len(u) THEN u[i] ELSE v[i - Len(u)]
  BY <1>3, ConcatProperties, Zenon
<1>5. ASSUME NEW i \in 1..c PROVE (u \o v)[i] = w[i]
  <2>0. i \in 1..(Len(u) + Len(v))
    BY <1>3
  <2>1. CASE i <= a
    BY <1>3, <1>4, <2>0, <2>1
  <2>2. CASE ~(i <= a)
    <3>1. i - a \in 1..(c - a) /\ a + (i - a) = i
      BY <2>2
    <3>2. QED BY <1>3, <1>4, <2>0, <2>2, <3>1
  <2>3. QED BY <2>1, <2>2
<1>6. u \o v = w
  <2>. DEFINE y == u \o v
  <2>1. y \in Seq(Nat) /\ Len(y) = c
    BY <1>3, <1>4
  <2>a. \A i \in 1..c : y[i] = w[i]
    BY <1>5
  <2>. HIDE DEF y
  <2>2. y = w
    BY <1>3, <2>1, <2>a
  <2>3. QED BY <2>2 DEF y
<1>7. QED BY <1>1, <1>2, <1>6 DEF u, v, w

LEMMA ArriveStep ==
    ASSUME IInv, View, View', NEW id \in MsgIds, id \notin Gone,
           Gone' = Gone, delivered' = delivered, Total(id)' = Total(id) + 1,
           \A x \in MsgIds : x # id => Total(x)' = Total(x)
    PROVE  Stream!Arrive(id)
<1>. DEFINE d == Len(delivered[id])
            t == Total(id)
<1>1. t \in Nat /\ d \in 0..t
  BY Zenon, GotIsType DEF View, GotType
<1>2. Box[id] = [i \in 1..(t - d) |-> d + i]
  BY Zenon DEF View
<1>3. Box'[id] = [i \in 1..(t + 1 - d) |-> d + i]
  <2>1. Box'[id] = [i \in 1..(Total(id)' - Len(delivered'[id])) |-> Len(delivered'[id]) + i]
    BY Zenon DEF View
  <2>. DEFINE n == Len(delivered'[id])
              s == Total(id)'
  <2>2. s = t + 1 /\ n = d
    OBVIOUS
  <2>3. Box'[id] = [i \in 1..(s - n) |-> n + i]
    BY <2>1
  <2>. HIDE DEF d, t, s, n
  <2>4. QED BY <1>1, <2>2, <2>3
<1>. HIDE DEF d, t
<1>4. Len(Box[id]) = t - d
  BY <1>1, <1>2
<1>5. Box'[id] = Append(Box[id], d + Len(Box[id]) + 1)
  <2>1. [i \in 1..(t + 1 - d) |-> d + i] = Append([i \in 1..(t - d) |-> d + i], d + (t - d) + 1)
    BY <1>1
  <2>2. QED BY <1>2, <1>3, <1>4, <2>1
<1>6. \A x \in MsgIds : x # id => Box'[x] = Box[x]
  <2>1. SUFFICES ASSUME NEW x \in MsgIds, x # id PROVE Box'[x] = Box[x]
    OBVIOUS
  <2>2. CASE x \in Gone
    BY <2>2 DEF Box
  <2>3. CASE x \notin Gone
    BY <2>1, <2>3, SameBox
  <2>4. QED BY <2>2, <2>3
<1>7. Box' = [Box EXCEPT ![id] = Append(@, Len(delivered[id]) + Len(@) + 1)]
  <2>. DEFINE new == Append(Box[id], Len(delivered[id]) + Len(Box[id]) + 1)
  <2>1. Box'[id] = new
    BY <1>5 DEF d
  <2>. HIDE DEF new
  <2>2. Box' = [x \in MsgIds |-> Box'[x]] /\ Box = [x \in MsgIds |-> Box[x]]
    BY DEF Box
  <2>3. Box' = [Box EXCEPT ![id] = new]
    BY <1>6, <2>1, <2>2
  <2>4. QED BY <2>3 DEF new
<1>8. QED BY <1>7 DEF Stream!Arrive

LEMMA HandStep ==
    ASSUME IInv, IInv', View, View', NEW id \in MsgIds, id \notin Gone,
           Gone' = Gone, \A x \in MsgIds : Total(x)' = Total(x),
           \A x \in MsgIds : x # id => delivered'[x] = delivered[x],
           \/ Len(delivered'[id]) = Len(delivered[id]) + 1
           \/ Len(delivered'[id]) = Total(id) /\ Total(id) > Len(delivered[id])
    PROVE  \E count \in 1..Len(Box[id]) : Stream!Hand(id, count)
<1>. DEFINE a == Len(delivered[id])
            c == Len(delivered'[id])
            t == Total(id)
            x == Box[id]
<1>1. t \in Nat /\ a \in 0..t
  BY Zenon, GotIsType DEF View, GotType
<1>2. delivered[id] = [i \in 1..a |-> i] /\ x = [i \in 1..(t - a) |-> a + i]
  BY Zenon DEF View
<1>3. c \in 0..t /\ delivered'[id] = [i \in 1..c |-> i] /\ Box'[id] = [i \in 1..(t - c) |-> c + i]
  <2>1. /\ Len(delivered'[id]) \in 0..Total(id)'
        /\ delivered'[id] = [i \in 1..Len(delivered'[id]) |-> i]
        /\ Box'[id] = [i \in 1..(Total(id)' - Len(delivered'[id])) |-> Len(delivered'[id]) + i]
    BY Zenon DEF View
  <2>2. QED BY <2>1
<1>. DEFINE count == c - a
<1>4. c \in (a + 1)..t /\ (c = a + 1 \/ c = t)
  BY <1>1, <1>3
<1>. HIDE DEF a, c, t, x
<1>5. /\ Len(x) = t - a
      /\ delivered'[id] = delivered[id] \o SubSeq(x, 1, count)
      /\ Box'[id] = SubSeq(x, count + 1, Len(x))
  <2>1. /\ Len(x) = t - a
        /\ [i \in 1..c |-> i] = [i \in 1..a |-> i] \o SubSeq(x, 1, c - a)
        /\ [i \in 1..(t - c) |-> c + i] = SubSeq(x, c - a + 1, Len(x))
    BY <1>1, <1>2, <1>4, Cutting
  <2>2. QED BY <1>2, <1>3, <2>1
<1>6. count \in 1..Len(x) /\ count \in {1, Len(x)}
  BY <1>1, <1>4, <1>5
<1>. HIDE DEF count
<1>7. delivered' = [delivered EXCEPT ![id] = @ \o SubSeq(Box[id], 1, count)]
  <2>. DEFINE new == delivered[id] \o SubSeq(Box[id], 1, count)
  <2>1. delivered'[id] = new
    BY <1>5 DEF x
  <2>. HIDE DEF new
  <2>2. delivered \in [MsgIds -> Seq(Nat)] /\ delivered' \in [MsgIds -> Seq(Nat)]
    BY DEF IInv, TypeOK
  <2>3. delivered' = [delivered EXCEPT ![id] = new]
    BY <2>1, <2>2
  <2>4. QED BY <2>3 DEF new
<1>8. Box' = [Box EXCEPT ![id] = SubSeq(@, count + 1, Len(@))]
  <2>. DEFINE new == SubSeq(Box[id], count + 1, Len(Box[id]))
  <2>1. Box'[id] = new
    BY <1>5 DEF x
  <2>. HIDE DEF new
  <2>2. ASSUME NEW y \in MsgIds, y # id PROVE Box'[y] = Box[y]
    <3>1. CASE y \in Gone
      BY <3>1 DEF Box
    <3>2. CASE y \notin Gone
      BY <2>2, <3>2, SameBox
    <3>3. QED BY <3>1, <3>2
  <2>3. Box' = [y \in MsgIds |-> Box'[y]] /\ Box = [y \in MsgIds |-> Box[y]]
    BY DEF Box
  <2>4. Box' = [Box EXCEPT ![id] = new]
    BY <2>1, <2>2, <2>3
  <2>5. QED BY <2>4 DEF new
<1>9. Stream!Hand(id, count)
  <2>1. count \in 1..Len(Box[id]) /\ count \in {1, Len(Box[id])}
    BY <1>6 DEF x
  <2>2. QED BY <1>4, <1>7, <1>8, <2>1 DEF Stream!Hand
<1>10. QED BY <1>6, <1>9 DEF x

LEMMA DropStep ==
    ASSUME View, View', NEW over \in SUBSET MsgIds, Gone' = Gone \cup over,
           delivered' = delivered, \A x \in MsgIds : Total(x)' = Total(x)
    PROVE  Stream!Drop(over)
<1>1. ASSUME NEW x \in MsgIds PROVE Box'[x] = IF x \in over THEN <<>> ELSE Box[x]
  <2>1. CASE x \in Gone'
    BY <2>1 DEF Box
  <2>2. CASE x \notin Gone'
    BY <2>2, SameBox
  <2>3. QED BY <2>1, <2>2
<1>2. Box' = [x \in MsgIds |-> Box'[x]]
  BY DEF Box
<1>3. Box' = [x \in MsgIds |-> IF x \in over THEN <<>> ELSE Box[x]]
  BY <1>1, <1>2
<1>4. QED BY <1>3 DEF Stream!Drop

(* In a closed session nothing happens.                                    *)
LEMMA ClosedStep ==
    ASSUME SInv, [Next]_vars, session = "closed"
    PROVE  UNCHANGED vars
<1>1. call = NoCall /\ call.pc = "none"
  BY DEF SInv, NoCall
<1>2. ~Idle /\ session # "open" /\ call.pc # "check" /\ call.pc # "select"
  BY <1>1 DEF Idle
<1>3. ~Next
  BY <1>2 DEF Next, Library, Send, ResultCall, Check, Read, ReadError, Timeout, Abandon, Unbind,
     ServerReply, ServerFinal, ServerNotice, ServerCrash, Running
<1>4. QED BY <1>3

(* A look at ld_responses or at the connection hands out or does not.      *)
LEMMA ResultStep ==
    ASSUME VInv, VInv', View, View', session = "open", Check \/ Read
    PROVE  UNCHANGED Stream!vars
           \/ \E id \in MsgIds : \E count \in 1..Len(Box[id]) : Stream!Hand(id, count)
<1>0. IInv /\ IInv' /\ SInv
  BY DEF VInv
<1>1. UNCHANGED <<session, abandoned, aborted, finished, sent>>
  BY <1>0, CheckEffect DEF Check, Read, env
<1>2. Gone' = Gone /\ \A x \in MsgIds : Total(x)' = Total(x)
  BY <1>1 DEF Gone, Total
<1>3. CASE delivered' = delivered
  BY <1>2, <1>3, SameView
<1>4. CASE delivered' # delivered
  <2>1. delivered \in [MsgIds -> Seq(Nat)] /\ delivered' \in [MsgIds -> Seq(Nat)]
    BY <1>0 DEF IInv, TypeOK
  <2>2. PICK id \in MsgIds : delivered'[id] # delivered[id]
    BY <1>4, <2>1
  <2>3. /\ abandoned[id] = 0 /\ (chain[id] # <<>> \/ At(wire, id) # {})
        /\ HandsOne(id) \/ HandsAll(id)
        /\ \A x \in MsgIds : x # id => delivered'[x] = delivered[x]
    BY <1>0, <2>2, HandedOut
  <2>4. id \notin Gone
    <3>1. id \notin aborted
      BY <2>3 DEF VInv, Over
    <3>2. QED BY <2>3, <3>1 DEF Gone
  <2>5. \/ Len(delivered'[id]) = Len(delivered[id]) + 1
        \/ Len(delivered'[id]) = Total(id) /\ Total(id) > Len(delivered[id])
    <3>1. CASE HandsOne(id)
      BY <3>1 DEF HandsOne
    <3>2. CASE HandsAll(id)
      <4>. DEFINE c == Len(delivered'[id])
      <4>1. delivered'[id] = [i \in 1..c |-> i] /\ c \in Nat
        <5>1. id \notin Gone'
          BY <1>2, <2>4
        <5>2. delivered'[id] = [i \in 1..Len(delivered'[id]) |-> i]
          BY <5>1, Zenon DEF View
        <5>3. delivered'[id] \in Seq(Nat)
          BY <2>1
        <5>4. QED BY <5>2, <5>3
      <4>2. /\ c > Len(delivered[id]) /\ delivered'[id][c] = sent[id] + 1 /\ id \in finished
            /\ Len(delivered[id]) \in Nat
        BY <2>1, <3>2 DEF HandsAll
      <4>. HIDE DEF c
      <4>3. c \in 1..c
        BY <4>1, <4>2
      <4>4. delivered'[id][c] = c
        BY <4>1, <4>3
      <4>5. c = Total(id)
        BY <4>2, <4>4 DEF Total
      <4>6. QED BY <4>2, <4>5 DEF c
    <3>3. QED BY <2>3, <3>1, <3>2
  <2>6. QED BY <1>0, <1>2, <2>3, <2>4, <2>5, HandStep
<1>5. QED BY <1>3, <1>4

LEMMA StreamStep ==
    ASSUME VInv, VInv', View, View', [Next]_vars
    PROVE  [Stream!Next]_(Stream!vars)
<1>0. /\ IInv /\ SInv
      /\ sent \in [MsgIds -> Nat] /\ finished \subseteq MsgIds /\ abandoned \in [MsgIds -> Nat]
      /\ chain \in [MsgIds -> Seq(Message)] /\ aborted \subseteq MsgIds
  BY DEF VInv, IInv, TypeOK
<1>1. CASE UNCHANGED vars
  <2>1. UNCHANGED <<session, abandoned, aborted, finished, sent, delivered>>
    BY <1>1 DEF vars, client, env
  <2>2. QED BY <2>1, SameView DEF Gone, Total
<1>2. CASE session = "closed"
  BY <1>0, <1>1, <1>2, ClosedStep
<1>3. CASE session = "open" /\ (Check \/ Read)
  <2>1. UNCHANGED Stream!vars
        \/ \E id \in MsgIds : \E count \in 1..Len(Box[id]) : Stream!Hand(id, count)
    BY <1>3, ResultStep
  <2>2. QED BY <2>1 DEF Stream!Next
<1>4. CASE \/ \E kind \in Kinds : Send(kind)
           \/ \E msgid \in Asked, one, timed \in BOOLEAN : ResultCall(msgid, one, timed)
           \/ ReadError \/ Timeout \/ ServerNotice \/ ServerCrash
  <2>1. UNCHANGED <<session, abandoned, aborted, finished, sent, delivered>>
    BY <1>4 DEF Send, ResultCall, ReadError, Timeout, ServerNotice, ServerCrash, client, env
  <2>2. QED BY <2>1, SameView DEF Gone, Total
<1>5. ASSUME NEW id \in MsgIds, session = "open", UNCHANGED <<session, abandoned, aborted, delivered>>,
             \A x \in MsgIds : x # id => Total(x)' = Total(x), Total(id)' = Total(id) + 1
      PROVE  [Stream!Next]_(Stream!vars)
  <2>1. Gone' = Gone
    BY <1>5 DEF Gone
  <2>2. CASE id \in Gone
    BY <1>5, <2>1, <2>2, SameView
  <2>3. CASE id \notin Gone
    <3>1. Stream!Arrive(id)
      BY <1>0, <1>5, <2>1, <2>3, ArriveStep
    <3>2. QED BY <3>1 DEF Stream!Next
  <2>4. QED BY <2>2, <2>3
<1>6. ASSUME NEW id \in MsgIds, NEW type \in MsgTypes, ServerReply(id, type)
      PROVE  [Stream!Next]_(Stream!vars)
  <2>1. UNCHANGED <<session, abandoned, aborted, delivered>> /\ session = "open"
    BY <1>6 DEF ServerReply, Running, client
  <2>2. /\ \A x \in MsgIds : x # id => Total(x)' = Total(x)
        /\ Total(id)' = Total(id) + 1
    BY <1>0, <1>6 DEF ServerReply, Total
  <2>3. QED BY <1>5, <2>1, <2>2
<1>7. ASSUME NEW id \in MsgIds, NEW ref \in BOOLEAN, ServerFinal(id, ref)
      PROVE  [Stream!Next]_(Stream!vars)
  <2>1. UNCHANGED <<session, abandoned, aborted, delivered>> /\ session = "open"
    BY <1>7 DEF ServerFinal, Running, client
  <2>2. /\ \A x \in MsgIds : x # id => Total(x)' = Total(x)
        /\ Total(id)' = Total(id) + 1
    BY <1>0, <1>7 DEF ServerFinal, Running, Total
  <2>3. QED BY <1>5, <2>1, <2>2
<1>8. ASSUME NEW it \in MsgIds, Abandon(it)
      PROVE  [Stream!Next]_(Stream!vars)
  <2>1. UNCHANGED <<session, sent, finished, delivered>> /\ session = "open"
    BY <1>8 DEF Abandon, Idle, env
  <2>2. Gone' = Gone \cup {it}
    <3>1. CASE AbandonQueued(it)
      BY <2>1, <3>1 DEF AbandonQueued, Gone
    <3>2. CASE AbandonRunning(it)
      <4>1. /\ aborted' = aborted \cup {it} \/ aborted' = aborted
            /\ \A x \in MsgIds : abandoned'[x] > 0 <=> abandoned[x] > 0 \/ x = it
        BY <1>0, <3>2 DEF AbandonRunning
      <4>2. QED BY <2>1, <4>1 DEF Gone
    <3>3. QED BY <1>8, <3>1, <3>2 DEF Abandon
  <2>3. Stream!Drop({it})
    BY <2>1, <2>2, DropStep DEF Total
  <2>4. QED BY <2>3 DEF Stream!Next
<1>9. CASE Unbind
  <2>1. UNCHANGED <<sent, finished, delivered>> /\ Gone' = MsgIds /\ Gone \subseteq MsgIds
    BY <1>0, <1>9 DEF Unbind, Gone
  <2>2. Stream!Drop(MsgIds)
    BY <2>1, DropStep DEF Total
  <2>3. QED BY <2>2 DEF Stream!Next
<1>10. session = "open" \/ session = "closed"
  BY <1>0 DEF IInv, TypeOK
<1>11. QED
  BY <1>1, <1>2, <1>3, <1>4, <1>6, <1>7, <1>8, <1>9, <1>10 DEF Next, Library

(* A version 2 session implements a stream of responses per operation,     *)
(* which ends when the application abandons the operation or unbinds.      *)
THEOREM StreamSpecTheorem == ASSUME Version = 2 PROVE Spec => StreamSpec
<1>1. Init => VInv /\ Stream!Init
  BY InitInv, InitStream, InitStreamView DEF VInv
<1>2. VInv /\ [Next]_vars => VInv'
  BY NextInv, NextStream, NoPartialsKept, OverKept DEF VInv
<1>3. VInv => View
  BY ViewIs DEF VInv
<1>4. VInv /\ VInv' /\ View /\ View' /\ [Next]_vars => [Stream!Next]_(Stream!vars)
  BY StreamStep
<1>5. QED BY <1>1, <1>2, <1>3, <1>4, PTL DEF Spec, StreamSpec, Stream!Spec

=============================================================================
