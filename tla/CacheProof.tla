----------------------------- MODULE CacheProof -----------------------------
(***************************************************************************)
(* Proofs about ClientCache.  First: what the cache answers is what the    *)
(* server said, whatever is flushed, uncached, removed or expires between, *)
(* as long as the cache is not disabled while requests are under way.      *)
(* Then: lc_memused is what the buckets hold, in every session.            *)
(***************************************************************************)
EXTENDS ClientCache, FiniteSetTheorems, SequenceTheorems, FunctionTheorems, WellFoundedInduction, TLAPS

(* What the server keeps of an operation, and what the two lists hold. *)
Op      == [state : {"running", "ended"}, req : Requests, chain : Seq(Message),
            age : 0..LastAge - 1, stands : BOOLEAN]
Waiting == [id : MsgIds, req : Requests, chain : Seq(Message)]
Said    == [id : MsgIds, req : Requests, chain : Seq(Message), age : 0..LastAge]

(* An operation is what a request under way says of it; and it is what an  *)
(* answer says of it that is not older than every timeout.                 *)
Runs(op, m)  == op.state = "running" /\ op.stands /\ op.req = m.req /\ op.chain = m.chain
Stands(op, m) == m.age < LastAge => /\ op.state = "ended" /\ op.age = m.age
                                    /\ op.req = m.req /\ op.chain = m.chain
OneEach(ms) == \A i, j \in DOMAIN ms : ms[i].id = ms[j].id => i = j

LcOK ==
    /\ lc = [x \in DOMAIN lc |-> lc[x]]
    /\ {"exists", "enabled"} \subseteq DOMAIN lc
    /\ Exists => "timeout" \in DOMAIN lc /\ lc.timeout \in Timeouts
IdleOK == ~Enabled => lc_requests = <<>>
OpsOK ==
    /\ ld_msgid \in 0..MaxMsgid
    /\ ops \in [MsgIds -> {NoOp} \cup Op]
    /\ \A id \in MsgIds : ops[id].state = "running" => ops[id].age = 0
    /\ \A id \in MsgIds : id > ld_msgid => ops[id] = NoOp
WaitingOK ==
    /\ lc_requests \in Seq(Waiting) /\ OneEach(lc_requests)
    /\ \A i \in DOMAIN lc_requests : Runs(ops[lc_requests[i].id], lc_requests[i])
SaidOK ==
    /\ lc_buckets \in [0..Buckets - 1 -> Seq(Said)]
    /\ \A h \in 0..Buckets - 1 : \A i \in DOMAIN lc_buckets[h] :
          Stands(ops[lc_buckets[h][i].id], lc_buckets[h][i])

(* Nothing is under way for the cache while it is disabled; what it holds  *)
(* of a request under way is what the server has said so far; and an       *)
(* answer it holds is what the server said, as long ago as the server      *)
(* knows, until it is too old for every timeout.                           *)
Faithful == LcOK /\ IdleOK /\ OpsOK /\ WaitingOK /\ SaidOK

-----------------------------------------------------------------------------
(* Numbers. *)
LEMMA Least ==
    ASSUME NEW T, T \subseteq Nat, T # {}
    PROVE  \E x \in T : \A y \in T : x <= y
<1>1. \E x \in T : \A y \in T : ~(<<y, x>> \in OpToRel(<, Nat))
  BY WFMin, NatLessThanWellFounded, Zenon
<1>2. PICK x \in T : \A y \in T : ~(<<y, x>> \in OpToRel(<, Nat))
  BY <1>1
<1>3. \A y \in T : <<y, x>> \in Nat \X Nat /\ <<y, x>>[1] = y /\ <<y, x>>[2] = x
  OBVIOUS
<1>4. \A y \in T : ~(y < x)
  BY <1>2, <1>3 DEF OpToRel
<1>. QED BY <1>4

LEMMA MinIn ==
    ASSUME NEW T, T \subseteq Nat, T # {}
    PROVE  Min(T) \in T
  BY Least, Zenon DEF Min

LEMMA LastAgeType ==
    /\ LastAge \in Nat \ {0}
    /\ \A t \in Timeouts : t < LastAge
<1>1. PICK t \in Timeouts : \A u \in Timeouts : t >= u
  BY CacheAssumption
<1>. DEFINE last == CHOOSE v \in Timeouts : \A u \in Timeouts : v >= u
<1>2. last \in Timeouts /\ \A u \in Timeouts : last >= u
  BY <1>1, Zenon
<1>3. LastAge = 1 + last
  BY Zenon DEF LastAge
<1>. HIDE DEF last
<1>. QED BY <1>2, <1>3, CacheAssumption

-----------------------------------------------------------------------------
(* Lists: what is picked out of one is in it, at as many places. *)
LEMMA AtIn ==
    ASSUME NEW n \in Nat, NEW places \in SUBSET (1..n), NEW k \in 1..Cardinality(places)
    PROVE  /\ At(places, k) \in places
           /\ Cardinality({j \in places : j <= At(places, k)}) = k
<1>. DEFINE C(m) == {j \in places : j <= m}
            T == {m \in Nat : Cardinality(C(m)) >= k}
<1>1. IsFiniteSet(places) /\ Cardinality(places) \in Nat
  <2>1. IsFiniteSet(1..n)
    BY FS_Interval
  <2>. QED BY <2>1, FS_Subset, FS_CardinalityType
<1>2. \A m \in Nat : IsFiniteSet(C(m)) /\ Cardinality(C(m)) \in Nat
  <2>1. \A m \in Nat : C(m) \in SUBSET places
    OBVIOUS
  <2>. QED BY <1>1, <2>1, FS_Subset, FS_CardinalityType
<1>3. T # {} /\ T \subseteq Nat
  <2>1. C(n) = places
    <3>1. \A j \in places : j <= n
      OBVIOUS
    <3>. QED BY <3>1
  <2>2. n \in T
    BY <1>1, <2>1
  <2>. QED BY <2>2
<1>4. PICK m \in T : \A y \in T : m <= y
  <2>. HIDE DEF T
  <2>. QED BY <1>3, Least
<1>5. m # 0
  <2>1. C(0) = {}
    <3>1. \A j \in places : ~(j <= 0)
      OBVIOUS
    <3>. QED BY <3>1
  <2>2. Cardinality(C(0)) = 0
    BY <2>1, FS_EmptySet
  <2>. QED BY <2>2, <1>4
<1>6. m - 1 \in Nat /\ ~(Cardinality(C(m - 1)) >= k)
  <2>1. m - 1 \in Nat /\ ~(m <= m - 1)
    BY <1>4, <1>5
  <2>2. m - 1 \notin T
    <3>. HIDE DEF T
    <3>. QED BY <1>4, <2>1
  <2>. QED BY <2>1, <2>2
<1>6a. \A j \in places : j <= m - 1 <=> j <= m /\ j # m
  <2>1. m \in Nat /\ \A j \in places : j \in Nat
    OBVIOUS
  <2>. QED BY <2>1
<1>7. m \in places
  <2>1. CASE m \notin places
    <3>1. C(m) = C(m - 1)
      BY <2>1, <1>6a
    <3>2. Cardinality(C(m)) >= k
      OBVIOUS
    <3>. QED BY <3>1, <3>2, <1>6, Zenon
  <2>. QED BY <2>1
<1>8. Cardinality(C(m)) = Cardinality(C(m - 1)) + 1
  <2>1. C(m) = C(m - 1) \cup {m} /\ m \notin C(m - 1)
    <3>1. m <= m
      BY <1>7
    <3>2. \A j : j \in C(m) <=> j \in C(m - 1) \/ j = m
      BY <1>6a, <1>7, <3>1
    <3>3. m \notin C(m - 1)
      BY <1>6a, <1>7
    <3>. HIDE DEF C
    <3>. QED BY <3>2, <3>3
  <2>. HIDE DEF C
  <2>. QED BY <2>1, <1>2, <1>6, FS_AddElement
<1>9. Cardinality(C(m)) = k
  <2>1. Cardinality(C(m)) >= k /\ Cardinality(C(m)) \in Nat /\ Cardinality(C(m - 1)) \in Nat
    BY <1>2, <1>4, <1>6
  <2>. HIDE DEF C
  <2>. QED BY <2>1, <1>6, <1>8
<1>10. \E i \in places : Cardinality({j \in places : j <= i}) = k
  BY <1>7, <1>9
<1>. QED BY <1>10, Zenon DEF At

LEMMA PickIn ==
    ASSUME NEW S, NEW ms \in Seq(S), NEW places \in SUBSET DOMAIN ms
    PROVE  /\ Pick(ms, places) \in Seq(S)
           /\ \A k \in DOMAIN Pick(ms, places) :
                 At(places, k) \in places /\ Pick(ms, places)[k] = ms[At(places, k)]
           /\ \A k, l \in DOMAIN Pick(ms, places) : At(places, k) = At(places, l) => k = l
<1>. DEFINE c == Cardinality(places)
<1>1. Len(ms) \in Nat /\ DOMAIN ms = 1..Len(ms) /\ \A i \in DOMAIN ms : ms[i] \in S
  OBVIOUS
<1>2. c \in Nat
  <2>1. IsFiniteSet(1..Len(ms))
    BY <1>1, FS_Interval
  <2>. QED BY <1>1, <2>1, FS_Subset, FS_CardinalityType
<1>3. \A k \in 1..c : At(places, k) \in places /\ Cardinality({j \in places : j <= At(places, k)}) = k
  BY <1>1, AtIn, Zenon
<1>4. Pick(ms, places) = [k \in 1..c |-> ms[At(places, k)]]
  BY DEF Pick
<1>5. \A k \in 1..c : ms[At(places, k)] \in S
  BY <1>1, <1>3
<1>. HIDE DEF c
<1>6. Pick(ms, places) \in Seq(S) /\ DOMAIN Pick(ms, places) = 1..c
  BY <1>2, <1>4, <1>5
<1>7. \A k, l \in 1..c : At(places, k) = At(places, l) => k = l
  BY <1>3, Zenon
<1>. QED BY <1>3, <1>4, <1>6, <1>7

(* Of what is picked out, or what is left after one is removed, no two are *)
(* of one request if no two were before.                                   *)
LEMMA PickOneEach ==
    ASSUME NEW S, NEW ms \in Seq(S), NEW places \in SUBSET DOMAIN ms, OneEach(ms)
    PROVE  OneEach(Pick(ms, places))
<1>. DEFINE new == Pick(ms, places)
<1>1. \A k \in DOMAIN new : At(places, k) \in DOMAIN ms /\ new[k] = ms[At(places, k)]
  BY PickIn
<1>2. \A k, l \in DOMAIN new : At(places, k) = At(places, l) => k = l
  BY PickIn
<1>. HIDE DEF new
<1>3. \A k, l \in DOMAIN new : new[k].id = new[l].id => k = l
  BY <1>1, <1>2, Zenon DEF OneEach
<1>. QED BY <1>3 DEF OneEach, new

LEMMA RemoveIn ==
    ASSUME NEW S, NEW ms \in Seq(S), NEW p \in DOMAIN ms
    PROVE  /\ RemoveAt(ms, p) \in Seq(S)
           /\ DOMAIN RemoveAt(ms, p) = 1..Len(ms) - 1
           /\ \A k \in 1..Len(ms) - 1 : RemoveAt(ms, p)[k] = ms[IF k < p THEN k ELSE k + 1]
<1>. DEFINE a == SubSeq(ms, 1, p - 1)
            b == SubSeq(ms, p + 1, Len(ms))
<1>1. p \in 1..Len(ms) /\ Len(ms) \in Nat
  OBVIOUS
<1>2. a \in Seq(S) /\ Len(a) = p - 1 /\ \A k \in 1..p - 1 : a[k] = ms[k]
  BY <1>1
<1>3. b \in Seq(S) /\ Len(b) = Len(ms) - p /\ \A k \in 1..Len(ms) - p : b[k] = ms[p + k]
  BY <1>1
<1>4. RemoveAt(ms, p) = a \o b
  BY DEF RemoveAt
<1>. HIDE DEF a, b
<1>5. /\ a \o b \in Seq(S) /\ Len(a \o b) = Len(ms) - 1
      /\ \A k \in 1..Len(ms) - 1 : (a \o b)[k] = IF k <= p - 1 THEN a[k] ELSE b[k - (p - 1)]
  <2>1. a \in Seq(S) /\ b \in Seq(S)
    BY <1>2, <1>3
  <2>2. a \o b \in Seq(S) /\ Len(a \o b) = Len(a) + Len(b)
        /\ \A k \in 1..Len(a) + Len(b) : (a \o b)[k] = IF k <= Len(a) THEN a[k] ELSE b[k - Len(a)]
    BY <2>1, ConcatProperties, Zenon
  <2>3. Len(a) + Len(b) = Len(ms) - 1
    BY <1>1, <1>2, <1>3
  <2>. QED BY <2>2, <2>3, <1>2
<1>6. \A k \in 1..Len(ms) - 1 : (a \o b)[k] = ms[IF k < p THEN k ELSE k + 1]
  <2>. TAKE k \in 1..Len(ms) - 1
  <2>1. CASE k < p
    BY <1>1, <1>2, <1>5, <2>1
  <2>2. CASE ~(k < p)
    <3>1. k - (p - 1) \in 1..Len(ms) - p /\ p + (k - (p - 1)) = k + 1
      BY <1>1, <2>2
    <3>2. (a \o b)[k] = b[k - (p - 1)]
      <4>1. ~(k <= p - 1)
        BY <1>1, <2>2
      <4>. QED BY <1>5, <4>1
    <3>. QED BY <1>3, <2>2, <3>1, <3>2
  <2>. QED BY <2>1, <2>2
<1>. QED BY <1>4, <1>5, <1>6, <1>1

LEMMA RemoveOneEach ==
    ASSUME NEW S, NEW ms \in Seq(S), NEW p \in DOMAIN ms, OneEach(ms)
    PROVE  /\ OneEach(RemoveAt(ms, p))
           /\ \A k \in DOMAIN RemoveAt(ms, p) :
                 \E i \in DOMAIN ms : RemoveAt(ms, p)[k] = ms[i] /\ ms[i].id # ms[p].id
<1>. DEFINE new  == RemoveAt(ms, p)
            f(k) == IF k < p THEN k ELSE k + 1
<1>1. DOMAIN new = 1..Len(ms) - 1 /\ \A k \in 1..Len(ms) - 1 : new[k] = ms[f(k)]
  BY RemoveIn
<1>2. p \in 1..Len(ms) /\ Len(ms) \in Nat /\ DOMAIN ms = 1..Len(ms)
  OBVIOUS
<1>3. \A k \in 1..Len(ms) - 1 : f(k) \in DOMAIN ms /\ f(k) # p
  BY <1>2
<1>4. \A k, l \in 1..Len(ms) - 1 : f(k) = f(l) => k = l
  BY <1>2
<1>. HIDE DEF new, f
<1>5. OneEach(new)
  <2>1. \A k, l \in DOMAIN new : new[k].id = new[l].id => f(k) = f(l)
    BY <1>1, <1>3, Zenon DEF OneEach
  <2>. QED BY <1>1, <1>4, <2>1, Zenon DEF OneEach
<1>6. \A k \in DOMAIN new : \E i \in DOMAIN ms : new[k] = ms[i] /\ ms[i].id # ms[p].id
  BY <1>1, <1>3, Zenon DEF OneEach
<1>. QED BY <1>5, <1>6 DEF new

-----------------------------------------------------------------------------
(* The walks through the lists: what is found is there, and what is left   *)
(* was there.                                                              *)
From(new, old) == new \in Seq(Said) /\ \A k \in DOMAIN new : \E i \in DOMAIN old : new[k] = old[i]

LEMMA FoundIn ==
    ASSUME NEW S, NEW bucket \in Seq(S), NEW req
    PROVE  /\ Found(bucket, req) \in 0..Len(bucket)
           /\ Found(bucket, req) # 0 =>
                 LET m == bucket[Found(bucket, req)]
                 IN  ~Expired(m) /\ Matches(m, req)
<1>. DEFINE T == {i \in 1..Len(bucket) : ~Expired(bucket[i]) /\ Matches(bucket[i], req)}
<1>1. Found(bucket, req) = IF T # {} THEN Min(T) ELSE 0
  BY Zenon DEF Found, SelectInSeq
<1>2. T \subseteq Nat
  OBVIOUS
<1>3. T # {} => Min(T) \in T
  <2>. HIDE DEF T
  <2>. QED BY <1>2, MinIn
<1>4. CASE T # {}
  <2>1. Found(bucket, req) \in T
    BY <1>1, <1>3, <1>4
  <2>. QED BY <2>1
<1>5. CASE T = {}
  <2>1. Found(bucket, req) = 0
    BY <1>1, <1>5
  <2>. QED BY <2>1
<1>. QED BY <1>4, <1>5

LEMMA PendingIn ==
    ASSUME NEW id, lc_requests \in Seq(Waiting)
    PROVE  /\ Pending(id) # 0 => Pending(id) \in DOMAIN lc_requests /\ lc_requests[Pending(id)].id = id
           /\ Pending(id) = 0 => \A i \in DOMAIN lc_requests : lc_requests[i].id # id
<1>. DEFINE T == {i \in 1..Len(lc_requests) : lc_requests[i].id = id}
<1>1. Pending(id) = IF T # {} THEN Min(T) ELSE 0
  BY Zenon DEF Pending, SelectInSeq
<1>2. T \subseteq Nat
  OBVIOUS
<1>3. T # {} => Min(T) \in T
  <2>. HIDE DEF T
  <2>. QED BY <1>2, MinIn
<1>4. CASE T # {}
  <2>1. Pending(id) \in T
    BY <1>1, <1>3, <1>4
  <2>. QED BY <2>1
<1>5. CASE T = {}
  <2>1. Pending(id) = 0
    BY <1>1, <1>5
  <2>. QED BY <2>1, <1>5
<1>. QED BY <1>4, <1>5

LEMMA WalkedFrom ==
    ASSUME NEW bucket \in Seq(Said), NEW req
    PROVE  From(Walked(bucket, req).kept, bucket)
<1>. DEFINE n == IF Found(bucket, req) = 0 THEN Len(bucket) ELSE Found(bucket, req)
            a == SubSeq(bucket, 1, n)
            b == SubSeq(bucket, n + 1, Len(bucket))
            places == {i \in DOMAIN a : ~Expired(a[i])}
            c == Pick(a, places)
<1>1. n \in 0..Len(bucket) /\ Len(bucket) \in Nat
  BY FoundIn
<1>2. Walked(bucket, req).kept = c \o b
  BY Zenon DEF Walked, Only
<1>. HIDE DEF n
<1>3. a \in Seq(Said) /\ Len(a) = n /\ \A k \in 1..n : a[k] = bucket[k]
  BY <1>1
<1>4. b \in Seq(Said) /\ Len(b) = Len(bucket) - n /\ \A k \in 1..Len(bucket) - n : b[k] = bucket[n + k]
  BY <1>1
<1>. HIDE DEF a, b
<1>5. c \in Seq(Said) /\ \A k \in DOMAIN c : \E i \in DOMAIN a : c[k] = a[i]
  <2>1. places \in SUBSET DOMAIN a
    OBVIOUS
  <2>. HIDE DEF places
  <2>2. /\ c \in Seq(Said)
        /\ \A k \in DOMAIN c : At(places, k) \in places /\ c[k] = a[At(places, k)]
    BY <1>3, <2>1, PickIn, Zenon
  <2>. QED BY <2>1, <2>2
<1>. HIDE DEF c
<1>6. \A k \in DOMAIN c : \E i \in DOMAIN bucket : c[k] = bucket[i]
  <2>1. \A i \in DOMAIN a : i \in DOMAIN bucket /\ a[i] = bucket[i]
    BY <1>1, <1>3
  <2>. QED BY <1>5, <2>1
<1>7. \A k \in DOMAIN b : \E i \in DOMAIN bucket : b[k] = bucket[i]
  <2>1. \A k \in DOMAIN b : n + k \in DOMAIN bucket /\ b[k] = bucket[n + k]
    <3>1. DOMAIN b = 1..Len(bucket) - n /\ DOMAIN bucket = 1..Len(bucket)
      BY <1>1, <1>4
    <3>2. \A k \in 1..Len(bucket) - n : n + k \in 1..Len(bucket)
      BY <1>1
    <3>. QED BY <1>4, <3>1, <3>2
  <2>. QED BY <2>1
<1>8. /\ c \o b \in Seq(Said) /\ Len(c \o b) = Len(c) + Len(b)
      /\ \A k \in 1..Len(c) + Len(b) : (c \o b)[k] = IF k <= Len(c) THEN c[k] ELSE b[k - Len(c)]
  BY <1>4, <1>5, ConcatProperties, Zenon
<1>9. \A k \in DOMAIN (c \o b) : \E i \in DOMAIN bucket : (c \o b)[k] = bucket[i]
  <2>1. DOMAIN (c \o b) = 1..Len(c) + Len(b) /\ Len(c) \in Nat /\ Len(b) \in Nat
        /\ DOMAIN c = 1..Len(c) /\ DOMAIN b = 1..Len(b)
    BY <1>4, <1>5, <1>8
  <2>. SUFFICES ASSUME NEW k \in 1..Len(c) + Len(b)
                PROVE  \E i \in DOMAIN bucket : (c \o b)[k] = bucket[i]
    BY <2>1
  <2>2. CASE k <= Len(c)
    <3>1. k \in DOMAIN c /\ (c \o b)[k] = c[k]
      BY <1>8, <2>1, <2>2
    <3>. QED BY <1>6, <3>1
  <2>3. CASE ~(k <= Len(c))
    <3>1. k - Len(c) \in DOMAIN b /\ (c \o b)[k] = b[k - Len(c)]
      BY <1>8, <2>1, <2>3
    <3>. QED BY <1>7, <3>1
  <2>. QED BY <2>2, <2>3
<1>. QED BY <1>2, <1>8, <1>9 DEF From

-----------------------------------------------------------------------------
(* How the parts of the invariant are kept. *)

(* Of the cache itself, only its count changes. *)
LEMMA CountOnly ==
    ASSUME LcOK, NEW used, lc' = [lc EXCEPT !.memused = used]
    PROVE  LcOK' /\ Exists' = Exists /\ Enabled' = Enabled
  BY DEF LcOK, Exists, Enabled

(* The application takes an operation back: it does not run for the cache  *)
(* any more, or it is forgotten.                                           *)
Gone(op) == IF op.state = "running" THEN [op EXCEPT !.stands = FALSE] ELSE NoOp

LEMMA GoneType ==
    ASSUME NEW op \in {NoOp} \cup Op
    PROVE  /\ Gone(op) \in {NoOp} \cup Op
           /\ Gone(op).state = "running" => op.state = "running" /\ Gone(op).age = op.age
           /\ op = NoOp => Gone(op) = NoOp
  BY DEF Gone, NoOp, Op

LEMMA RevokeKeeps ==
    ASSUME OpsOK, NEW out \in SUBSET MsgIds, UNCHANGED ld_msgid,
           ops' = [id \in MsgIds |-> IF id \in out THEN Gone(ops[id]) ELSE ops[id]]
    PROVE  OpsOK'
<1>1. \A id \in MsgIds : ops[id] \in {NoOp} \cup Op
  BY DEF OpsOK
<1>2. \A id \in MsgIds : /\ Gone(ops[id]) \in {NoOp} \cup Op
                         /\ Gone(ops[id]).state = "running" => ops[id].state = "running" /\ Gone(ops[id]).age = ops[id].age
                         /\ ops[id] = NoOp => Gone(ops[id]) = NoOp
  BY <1>1, GoneType
<1>3. \A id \in MsgIds : ops'[id] = Gone(ops[id]) \/ ops'[id] = ops[id]
  OBVIOUS
<1>4. ops' \in [MsgIds -> {NoOp} \cup Op]
  BY <1>1, <1>2
<1>5. \A id \in MsgIds : ops'[id].state = "running" => ops'[id].age = 0
  BY <1>2, <1>3 DEF OpsOK
<1>6. \A id \in MsgIds : id > ld_msgid' => ops'[id] = NoOp
  BY <1>2, <1>3 DEF OpsOK
<1>. QED BY <1>4, <1>5, <1>6 DEF OpsOK

(* Answers stay good in lists made from the old ones, if the operations    *)
(* they come from stay.                                                    *)
LEMMA SaidKept ==
    ASSUME SaidOK,
           lc_buckets' \in [0..Buckets - 1 -> Seq(Said)],
           \A h \in 0..Buckets - 1 : \A k \in DOMAIN lc_buckets'[h] :
              \E i \in DOMAIN lc_buckets[h] :
                 /\ lc_buckets'[h][k] = lc_buckets[h][i]
                 /\ Stands(ops[lc_buckets[h][i].id], lc_buckets[h][i])
                       => Stands(ops'[lc_buckets[h][i].id], lc_buckets[h][i])
    PROVE  SaidOK'
<1>1. \A h \in 0..Buckets - 1 : \A k \in DOMAIN lc_buckets'[h] :
         Stands(ops'[lc_buckets'[h][k].id], lc_buckets'[h][k])
  <2>. TAKE h \in 0..Buckets - 1
  <2>. TAKE k \in DOMAIN lc_buckets'[h]
  <2>1. PICK i \in DOMAIN lc_buckets[h] :
                 /\ lc_buckets'[h][k] = lc_buckets[h][i]
                 /\ Stands(ops[lc_buckets[h][i].id], lc_buckets[h][i])
                       => Stands(ops'[lc_buckets[h][i].id], lc_buckets[h][i])
    OBVIOUS
  <2>2. Stands(ops[lc_buckets[h][i].id], lc_buckets[h][i])
    BY DEF SaidOK
  <2>. QED BY <2>1, <2>2
<1>. QED BY <1>1 DEF SaidOK

(* Messages are picked out of every bucket. *)
LEMMA SaidPicked ==
    ASSUME SaidOK, NEW places,
           \A h \in 0..Buckets - 1 : places[h] \in SUBSET DOMAIN lc_buckets[h],
           lc_buckets' = [h \in DOMAIN lc_buckets |-> Pick(lc_buckets[h], places[h])],
           \A h \in 0..Buckets - 1 : \A i \in places[h] :
              lc_buckets[h][i].age < LastAge => ops'[lc_buckets[h][i].id] = ops[lc_buckets[h][i].id]
    PROVE  SaidOK'
<1>1. /\ DOMAIN lc_buckets = 0..Buckets - 1
      /\ \A h \in 0..Buckets - 1 : lc_buckets[h] \in Seq(Said)
  BY DEF SaidOK
<1>2. \A h \in 0..Buckets - 1 :
         /\ Pick(lc_buckets[h], places[h]) \in Seq(Said)
         /\ \A k \in DOMAIN Pick(lc_buckets[h], places[h]) :
               /\ At(places[h], k) \in places[h]
               /\ Pick(lc_buckets[h], places[h])[k] = lc_buckets[h][At(places[h], k)]
  <2>. TAKE h \in 0..Buckets - 1
  <2>. DEFINE ms == lc_buckets[h]
  <2>1. ms \in Seq(Said) /\ places[h] \in SUBSET DOMAIN ms
    BY <1>1
  <2>. HIDE DEF ms
  <2>2. /\ Pick(ms, places[h]) \in Seq(Said)
        /\ \A k \in DOMAIN Pick(ms, places[h]) :
              At(places[h], k) \in places[h] /\ Pick(ms, places[h])[k] = ms[At(places[h], k)]
    BY <2>1, PickIn
  <2>. QED BY <2>2 DEF ms
<1>3. /\ lc_buckets' \in [0..Buckets - 1 -> Seq(Said)]
      /\ \A h \in 0..Buckets - 1 : lc_buckets'[h] = Pick(lc_buckets[h], places[h])
  BY <1>1, <1>2
<1>4. \A h \in 0..Buckets - 1 : \A i \in places[h] :
         Stands(ops[lc_buckets[h][i].id], lc_buckets[h][i])
            => Stands(ops'[lc_buckets[h][i].id], lc_buckets[h][i])
  BY DEF Stands
<1>5. \A h \in 0..Buckets - 1 : \A k \in DOMAIN lc_buckets'[h] :
         \E i \in DOMAIN lc_buckets[h] :
            /\ lc_buckets'[h][k] = lc_buckets[h][i]
            /\ Stands(ops[lc_buckets[h][i].id], lc_buckets[h][i])
                  => Stands(ops'[lc_buckets[h][i].id], lc_buckets[h][i])
  <2>. TAKE h \in 0..Buckets - 1
  <2>. TAKE k \in DOMAIN lc_buckets'[h]
  <2>1. At(places[h], k) \in places[h] /\ lc_buckets'[h][k] = lc_buckets[h][At(places[h], k)]
    BY <1>2, <1>3, Zenon
  <2>2. At(places[h], k) \in DOMAIN lc_buckets[h]
    BY <2>1
  <2>. QED BY <1>4, <2>1, <2>2, Zenon
<1>. QED BY <1>3, <1>5, SaidKept

LEMMA WaitingPicked ==
    ASSUME WaitingOK, NEW places \in SUBSET DOMAIN lc_requests,
           lc_requests' = Pick(lc_requests, places),
           \A i \in places : ops'[lc_requests[i].id] = ops[lc_requests[i].id]
    PROVE  WaitingOK'
<1>1. /\ lc_requests' \in Seq(Waiting)
      /\ \A k \in DOMAIN lc_requests' :
            At(places, k) \in places /\ lc_requests'[k] = lc_requests[At(places, k)]
  BY PickIn DEF WaitingOK
<1>2. OneEach(lc_requests')
  BY PickOneEach DEF WaitingOK
<1>3. \A k \in DOMAIN lc_requests' : Runs(ops'[lc_requests'[k].id], lc_requests'[k])
  BY <1>1 DEF WaitingOK
<1>. QED BY <1>1, <1>2, <1>3 DEF WaitingOK

-----------------------------------------------------------------------------
(* One lemma per action. *)
LEMMA InitFaithful == Init => Faithful
<1>. SUFFICES ASSUME Init PROVE Faithful
  OBVIOUS
<1>1. LcOK /\ IdleOK
  BY DEF Init, NoCache, LcOK, IdleOK, Exists, Enabled
<1>2. OpsOK
  BY CacheAssumption DEF Init, OpsOK, NoOp, MsgIds
<1>3. WaitingOK
  BY DEF Init, WaitingOK, OneEach
<1>4. SaidOK
  BY DEF Init, SaidOK
<1>. QED BY <1>1, <1>2, <1>3, <1>4 DEF Faithful

(* Steps that leave both lists and the operations alone. *)
LEMMA ListsSame ==
    ASSUME Faithful, UNCHANGED <<lists, ops, ld_msgid>>, LcOK', IdleOK'
    PROVE  Faithful'
<1>1. OpsOK'
  BY DEF Faithful, OpsOK
<1>2. WaitingOK'
  BY DEF Faithful, WaitingOK, lists
<1>3. SaidOK'
  BY DEF Faithful, SaidOK, lists
<1>. QED BY <1>1, <1>2, <1>3 DEF Faithful

LEMMA EnableFaithful ==
    ASSUME Faithful, NEW t \in Timeouts, NEW n \in Limits, Enable(t, n)
    PROVE  Faithful'
<1>1. LcOK' /\ IdleOK'
  <2>1. CASE Exists
    <3>1. lc' = [lc EXCEPT !.timeout = t, !.maxmem = n, !.enabled = TRUE]
      BY <2>1 DEF Enable
    <3>. QED BY <2>1, <3>1 DEF Faithful, LcOK, IdleOK, Exists, Enabled
  <2>2. CASE ~Exists
    <3>1. lc' = [exists |-> TRUE, enabled |-> TRUE, timeout |-> t, maxmem |-> n,
                 memused |-> Base, options |-> "none"]
      BY <2>2 DEF Enable
    <3>. QED BY <3>1 DEF LcOK, IdleOK, Exists, Enabled
  <2>. QED BY <2>1, <2>2
<1>. QED BY <1>1, ListsSame DEF Enable

(* The cache is disabled while nothing is under way: what waits for it is  *)
(* under way.                                                              *)
LEMMA DisableFaithful ==
    ASSUME Faithful, Pauses = FALSE, Disable
    PROVE  Faithful'
<1>1. LcOK'
  BY DEF Disable, Faithful, LcOK, Exists
<1>2. lc_requests = <<>>
  <2>1. \A id \in MsgIds : ops[id].state # "running"
    BY DEF Disable
  <2>2. lc_requests \in Seq(Waiting) /\ \A i \in DOMAIN lc_requests : ops[lc_requests[i].id].state = "running"
    BY DEF Faithful, WaitingOK, Runs
  <2>3. \A i \in DOMAIN lc_requests : lc_requests[i].id \in MsgIds
    <3>1. \A i \in DOMAIN lc_requests : lc_requests[i] \in Waiting
      BY <2>2
    <3>. QED BY <3>1 DEF Waiting
  <2>. QED BY <2>1, <2>2, <2>3
<1>3. IdleOK'
  BY <1>2 DEF Disable, IdleOK, lists
<1>. QED BY <1>1, <1>3, ListsSame DEF Disable

LEMMA SetOptionsFaithful ==
    ASSUME Faithful, NEW o \in Options, SetOptions(o)
    PROVE  Faithful'
<1>1. LcOK' /\ IdleOK'
  BY DEF SetOptions, Faithful, LcOK, IdleOK, Exists, Enabled, lists
<1>. QED BY <1>1, ListsSame DEF SetOptions

(* Both lists are emptied and every operation is taken back. *)
LEMMA EmptiedFaithful ==
    ASSUME Faithful, Emptied, UNCHANGED ld_msgid, LcOK'
    PROVE  Faithful'
<1>1. lc_requests' = <<>> /\ lc_buckets' = [h \in DOMAIN lc_buckets |-> <<>>]
  BY DEF Emptied
<1>2. IdleOK' /\ WaitingOK'
  BY <1>1 DEF IdleOK, WaitingOK, OneEach
<1>3. SaidOK'
  BY <1>1 DEF SaidOK, Faithful
<1>4. OpsOK'
  <2>. DEFINE out == {id \in MsgIds : ops[id].state # "none"}
  <2>1. ops' = [id \in MsgIds |-> IF id \in out THEN Gone(ops[id]) ELSE ops[id]]
    BY DEF Emptied, Revoke, Gone
  <2>. HIDE DEF out
  <2>2. out \in SUBSET MsgIds
    BY DEF out
  <2>. QED BY <2>1, <2>2, RevokeKeeps DEF Faithful
<1>. QED BY <1>2, <1>3, <1>4 DEF Faithful

LEMMA FlushFaithful ==
    ASSUME Faithful, Flush
    PROVE  Faithful'
<1>1. LcOK'
  BY CountOnly DEF Flush, Faithful
<1>. QED BY <1>1, EmptiedFaithful DEF Flush

LEMMA DestroyFaithful ==
    ASSUME Faithful, Destroy
    PROVE  Faithful'
<1>1. LcOK'
  BY DEF Destroy, LcOK, NoCache, Exists
<1>. QED BY <1>1, EmptiedFaithful DEF Destroy

(* What is uncached: the operations in out are taken back, and nothing     *)
(* that stays in the lists is one of them, an answer too old for every     *)
(* timeout apart.                                                          *)
LEMMA UncachedFaithful ==
    ASSUME Faithful, NEW out \in SUBSET MsgIds,
           NEW waits \in SUBSET DOMAIN lc_requests, NEW places,
           \A h \in 0..Buckets - 1 : places[h] \in SUBSET DOMAIN lc_buckets[h],
           NEW used, lc' = [lc EXCEPT !.memused = used],
           lc_requests' = Pick(lc_requests, waits),
           lc_buckets' = [h \in DOMAIN lc_buckets |-> Pick(lc_buckets[h], places[h])],
           ops' = [id \in MsgIds |-> IF id \in out THEN Gone(ops[id]) ELSE ops[id]],
           UNCHANGED ld_msgid,
           \A i \in waits : lc_requests[i].id \notin out,
           \A h \in 0..Buckets - 1 : \A i \in places[h] :
              lc_buckets[h][i].age < LastAge => lc_buckets[h][i].id \notin out
    PROVE  Faithful'
<1>1. LcOK' /\ Enabled' = Enabled
  BY CountOnly DEF Faithful
<1>2. OpsOK'
  BY RevokeKeeps DEF Faithful
<1>3. /\ \A i \in DOMAIN lc_requests : lc_requests[i].id \in MsgIds
      /\ \A h \in 0..Buckets - 1 : \A i \in DOMAIN lc_buckets[h] : lc_buckets[h][i].id \in MsgIds
  <2>1. lc_requests \in Seq(Waiting) /\ \A h \in 0..Buckets - 1 : lc_buckets[h] \in Seq(Said)
    BY DEF Faithful, WaitingOK, SaidOK
  <2>2. \A i \in DOMAIN lc_requests : lc_requests[i] \in Waiting
    BY <2>1
  <2>3. \A h \in 0..Buckets - 1 : \A i \in DOMAIN lc_buckets[h] : lc_buckets[h][i] \in Said
    BY <2>1
  <2>. QED BY <2>2, <2>3 DEF Waiting, Said
<1>4. WaitingOK'
  <2>1. \A i \in waits : ops'[lc_requests[i].id] = ops[lc_requests[i].id]
    BY <1>3
  <2>. QED BY <2>1, WaitingPicked DEF Faithful
<1>5. SaidOK'
  <2>1. \A h \in 0..Buckets - 1 : \A i \in places[h] :
           lc_buckets[h][i].age < LastAge => ops'[lc_buckets[h][i].id] = ops[lc_buckets[h][i].id]
    BY <1>3
  <2>. QED BY <2>1, SaidPicked DEF Faithful
<1>6. IdleOK'
  <2>1. ASSUME ~Enabled PROVE lc_requests' = <<>>
    <3>1. lc_requests = <<>>
      BY <2>1 DEF Faithful, IdleOK
    <3>2. lc_requests' \in Seq(Waiting) /\ \A k \in DOMAIN lc_requests' : At(waits, k) \in waits
      BY PickIn DEF Faithful, WaitingOK
    <3>. QED BY <3>1, <3>2
  <2>. QED BY <1>1, <2>1 DEF IdleOK
<1>. QED BY <1>1, <1>2, <1>4, <1>5, <1>6 DEF Faithful

LEMMA UncacheRequestFaithful ==
    ASSUME Faithful, NEW id \in MsgIds, UncacheRequest(id)
    PROVE  Faithful'
<1>. DEFINE out == {k \in MsgIds : ops[k].state # "none" /\ k = id}
            waits == {i \in DOMAIN lc_requests : ~(lc_requests[i].id = id)}
            places == [h \in DOMAIN lc_buckets |-> {i \in DOMAIN lc_buckets[h] : ~(lc_buckets[h][i].id = id)}]
<1>1. /\ lc_requests' = Pick(lc_requests, waits)
      /\ lc_buckets' = [h \in DOMAIN lc_buckets |-> Pick(lc_buckets[h], places[h])]
      /\ UNCHANGED ld_msgid
      /\ \E used : lc' = [lc EXCEPT !.memused = used]
  BY DEF UncacheRequest, Uncache, Only
<1>2. ops' = [k \in MsgIds |-> IF k \in out THEN Gone(ops[k]) ELSE ops[k]]
  BY DEF UncacheRequest, Uncache, Revoke, Gone
<1>3. DOMAIN lc_buckets = 0..Buckets - 1
  BY DEF Faithful, SaidOK
<1>4. /\ out \in SUBSET MsgIds /\ waits \in SUBSET DOMAIN lc_requests
      /\ \A h \in 0..Buckets - 1 : places[h] \in SUBSET DOMAIN lc_buckets[h]
      /\ \A i \in waits : lc_requests[i].id \notin out
      /\ \A h \in 0..Buckets - 1 : \A i \in places[h] :
            lc_buckets[h][i].age < LastAge => lc_buckets[h][i].id \notin out
  BY <1>3
<1>. HIDE DEF out, waits, places
<1>5. PICK used : lc' = [lc EXCEPT !.memused = used]
  BY <1>1
<1>. QED BY <1>1, <1>2, <1>4, <1>5, UncachedFaithful

LEMMA UncacheEntryFaithful ==
    ASSUME Faithful, NEW dn \in Entries, UncacheEntry(dn)
    PROVE  Faithful'
<1>. DEFINE Of(k) == [id |-> k, req |-> ops[k].req, chain |-> ops[k].chain]
            out == {k \in MsgIds : ops[k].state # "none" /\ ContainsDn(Of(k), dn)}
            waits == {i \in DOMAIN lc_requests : ~ContainsDn(lc_requests[i], dn)}
            places == [h \in DOMAIN lc_buckets |->
                          {i \in DOMAIN lc_buckets[h] : ~ContainsDn(lc_buckets[h][i], dn)}]
<1>1. /\ lc_requests' = Pick(lc_requests, waits)
      /\ lc_buckets' = [h \in DOMAIN lc_buckets |-> Pick(lc_buckets[h], places[h])]
      /\ UNCHANGED ld_msgid
      /\ \E used : lc' = [lc EXCEPT !.memused = used]
  BY DEF UncacheEntry, Uncache, Only
<1>2. ops' = [k \in MsgIds |-> IF k \in out THEN Gone(ops[k]) ELSE ops[k]]
  BY DEF UncacheEntry, Uncache, Revoke, Gone
<1>3. DOMAIN lc_buckets = 0..Buckets - 1
  BY DEF Faithful, SaidOK
(* Whether a DN is in an answer depends on its request and its chain. *)
<1>4. \A m, k : ops[k].req = m.req /\ ops[k].chain = m.chain
                   => (ContainsDn(Of(k), dn) <=> ContainsDn(m, dn))
  BY DEF ContainsDn
<1>5. \A i \in waits : lc_requests[i].id \notin out
  <2>1. \A i \in waits : ~ContainsDn(lc_requests[i], dn) /\ Runs(ops[lc_requests[i].id], lc_requests[i])
    BY DEF Faithful, WaitingOK
  <2>2. \A i \in waits : ~ContainsDn(Of(lc_requests[i].id), dn)
    BY <1>4, <2>1 DEF Runs
  <2>. QED BY <2>2
<1>6. \A h \in 0..Buckets - 1 : \A i \in places[h] :
         lc_buckets[h][i].age < LastAge => lc_buckets[h][i].id \notin out
  <2>. SUFFICES ASSUME NEW h \in 0..Buckets - 1, NEW i \in places[h],
                       lc_buckets[h][i].age < LastAge
                PROVE  ~ContainsDn(Of(lc_buckets[h][i].id), dn)
    OBVIOUS
  <2>1. i \in DOMAIN lc_buckets[h] /\ ~ContainsDn(lc_buckets[h][i], dn)
    BY <1>3
  <2>2. Stands(ops[lc_buckets[h][i].id], lc_buckets[h][i])
    BY <2>1 DEF Faithful, SaidOK
  <2>. QED BY <1>4, <2>1, <2>2 DEF Stands
<1>7. /\ out \in SUBSET MsgIds /\ waits \in SUBSET DOMAIN lc_requests
      /\ \A h \in 0..Buckets - 1 : places[h] \in SUBSET DOMAIN lc_buckets[h]
  BY <1>3
<1>. HIDE DEF out, waits, places
<1>8. PICK used : lc' = [lc EXCEPT !.memused = used]
  BY <1>1
<1>. QED BY <1>1, <1>2, <1>5, <1>6, <1>7, <1>8, UncachedFaithful

(* A request is asked.  The walk through its bucket only drops messages.   *)
LEMMA HashType == \A req \in Requests : Hash(req) \in 0..Buckets - 1
  BY CacheAssumption, RequestAssumption DEF Hash

LEMMA CheckCacheKeeps ==
    ASSUME Faithful, NEW req \in Requests, CheckCache(req),
           \A id \in MsgIds : ops[id].state # "none" => ops'[id] = ops[id]
    PROVE  LcOK' /\ Enabled' = Enabled /\ SaidOK'
<1>. DEFINE b == Hash(req)
            kept == Walked(lc_buckets[b], req).kept
<1>1. \E used : lc' = [lc EXCEPT !.memused = used]
  BY DEF CheckCache
<1>2. LcOK' /\ Enabled' = Enabled
  BY <1>1, CountOnly DEF Faithful
<1>3. b \in 0..Buckets - 1
  BY HashType
<1>4. /\ lc_buckets \in [0..Buckets - 1 -> Seq(Said)]
      /\ lc_buckets' = [lc_buckets EXCEPT ![b] = kept]
  BY DEF Faithful, SaidOK, CheckCache
<1>. HIDE DEF b
<1>5. From(kept, lc_buckets[b])
  BY <1>3, <1>4, WalkedFrom
<1>. HIDE DEF kept
<1>6. lc_buckets' \in [0..Buckets - 1 -> Seq(Said)]
  BY <1>3, <1>4, <1>5 DEF From
<1>7. \A h \in 0..Buckets - 1 : \A k \in DOMAIN lc_buckets'[h] :
         \E i \in DOMAIN lc_buckets[h] : lc_buckets'[h][k] = lc_buckets[h][i]
  BY <1>3, <1>4, <1>5 DEF From
<1>8. \A h \in 0..Buckets - 1 : \A i \in DOMAIN lc_buckets[h] :
         Stands(ops[lc_buckets[h][i].id], lc_buckets[h][i])
            => Stands(ops'[lc_buckets[h][i].id], lc_buckets[h][i])
  <2>. SUFFICES ASSUME NEW h \in 0..Buckets - 1, NEW i \in DOMAIN lc_buckets[h],
                       Stands(ops[lc_buckets[h][i].id], lc_buckets[h][i]),
                       lc_buckets[h][i].age < LastAge
                PROVE  ops'[lc_buckets[h][i].id] = ops[lc_buckets[h][i].id]
    BY Zenon DEF Stands
  <2>1. lc_buckets[h][i] \in Said
    BY <1>4
  <2>. QED BY <2>1 DEF Stands, Said
<1>9. SaidOK
  BY DEF Faithful
<1>10. SaidOK'
  BY <1>6, <1>7, <1>8, <1>9, SaidKept
<1>. QED BY <1>2, <1>10

(* An operation starts: with the next message id, that nothing had.        *)
LEMMA StartedOps ==
    ASSUME OpsOK, NEW req \in Requests, ld_msgid < MaxMsgid, ld_msgid' = ld_msgid + 1,
           ops' = [ops EXCEPT ![ld_msgid'] = Started(req)]
    PROVE  /\ ld_msgid' \in MsgIds /\ ops[ld_msgid'] = NoOp
           /\ ops'[ld_msgid'] = Started(req)
           /\ \A id \in MsgIds : ops[id].state # "none" => ops'[id] = ops[id]
           /\ OpsOK'
<1>1. /\ ld_msgid \in 0..MaxMsgid /\ MaxMsgid \in Nat
      /\ ops \in [MsgIds -> {NoOp} \cup Op]
      /\ \A id \in MsgIds : ops[id].state = "running" => ops[id].age = 0
      /\ \A id \in MsgIds : id > ld_msgid => ops[id] = NoOp
  BY CacheAssumption DEF OpsOK
<1>2. ld_msgid' \in 1..MaxMsgid /\ ld_msgid' > ld_msgid
  BY <1>1
<1>3. ld_msgid' \in MsgIds /\ ops[ld_msgid'] = NoOp
  BY <1>1, <1>2 DEF MsgIds
<1>4. Started(req) \in Op /\ Started(req).age = 0
  BY LastAgeType DEF Started, Op
<1>5. \A id \in MsgIds : id # ld_msgid' => ops'[id] = ops[id]
  BY <1>1
<1>6. ops'[ld_msgid'] = Started(req)
  BY <1>1, <1>3
<1>7. ops' \in [MsgIds -> {NoOp} \cup Op]
  BY <1>1, <1>4
<1>8. \A id \in MsgIds : ops[id].state # "none" => ops'[id] = ops[id]
  BY <1>3, <1>5 DEF NoOp
<1>9. \A id \in MsgIds : ops'[id].state = "running" => ops'[id].age = 0
  BY <1>1, <1>4, <1>5, <1>6
<1>10. \A id \in MsgIds : id > ld_msgid' => ops'[id] = NoOp
  <2>1. \A id \in MsgIds : id > ld_msgid' => id > ld_msgid /\ id # ld_msgid'
    BY <1>1 DEF MsgIds
  <2>. QED BY <1>1, <1>5, <2>1
<1>11. ld_msgid' \in 0..MaxMsgid
  BY <1>2
<1>. QED BY <1>3, <1>6, <1>7, <1>8, <1>9, <1>10, <1>11 DEF OpsOK

LEMMA AskFaithful ==
    ASSUME Faithful, NEW req \in Requests, Ask(req)
    PROVE  Faithful'
<1>. DEFINE i == Found(lc_buckets[Hash(req)], req)
            new == [id |-> ld_msgid', req |-> req, chain |-> <<>>]
<1>1. ld_msgid < MaxMsgid /\ ld_msgid' = ld_msgid + 1
  BY DEF Ask
<1>2. CASE Enabled /\ i # 0
  <2>1. CheckCache(req) /\ UNCHANGED <<lc_requests, ops>>
    BY <1>2 DEF Ask
  <2>2. LcOK' /\ Enabled' = Enabled /\ SaidOK'
    BY <2>1, CheckCacheKeeps
  <2>3. IdleOK' /\ WaitingOK'
    BY <2>1, <2>2, <1>2 DEF IdleOK, WaitingOK, Faithful
  <2>4. OpsOK'
    <3>1. ld_msgid' \in 0..MaxMsgid /\ \A id \in MsgIds : id > ld_msgid' => id > ld_msgid
      BY <1>1, CacheAssumption DEF Faithful, OpsOK, MsgIds
    <3>. QED BY <2>1, <3>1 DEF Faithful, OpsOK
  <2>. QED BY <2>2, <2>3, <2>4 DEF Faithful
<1>3. CASE Enabled /\ i = 0
  <2>1. /\ CheckCache(req)
        /\ lc_requests' = <<new>> \o lc_requests
        /\ ops' = [ops EXCEPT ![ld_msgid'] = Started(req)]
    BY <1>3 DEF Ask
  <2>2. /\ ld_msgid' \in MsgIds /\ ops[ld_msgid'] = NoOp
        /\ ops'[ld_msgid'] = Started(req)
        /\ \A id \in MsgIds : ops[id].state # "none" => ops'[id] = ops[id]
        /\ OpsOK'
    BY <1>1, <2>1, StartedOps DEF Faithful
  <2>3. LcOK' /\ Enabled' = Enabled /\ SaidOK'
    BY <2>1, <2>2, CheckCacheKeeps
  <2>4. IdleOK'
    BY <2>3, <1>3 DEF IdleOK
  <2>5. WaitingOK'
    <3>. DEFINE ms == lc_requests
    <3>1. /\ ms \in Seq(Waiting) /\ OneEach(ms)
          /\ \A k \in DOMAIN ms : Runs(ops[ms[k].id], ms[k])
      BY DEF Faithful, WaitingOK
    <3>2. new \in Waiting /\ new.id = ld_msgid' /\ Runs(ops'[new.id], new)
      BY <2>2 DEF Waiting, Runs, Started
    <3>3. \A k \in DOMAIN ms : ms[k] \in Waiting
      BY <3>1
    <3>4. \A k \in DOMAIN ms : ms[k].id # new.id /\ ops'[ms[k].id] = ops[ms[k].id]
      BY <2>2, <3>1, <3>2, <3>3 DEF Waiting, Runs, NoOp
    <3>. HIDE DEF ms, new
    <3>5. /\ <<new>> \o ms \in Seq(Waiting) /\ Len(<<new>> \o ms) = 1 + Len(ms)
          /\ \A k \in 1..1 + Len(ms) : (<<new>> \o ms)[k] = IF k = 1 THEN new ELSE ms[k - 1]
      BY <3>1, <3>2
    <3>6. /\ DOMAIN (<<new>> \o ms) = 1..1 + Len(ms) /\ Len(ms) \in Nat
          /\ \A k \in 1..1 + Len(ms) : k # 1 => k - 1 \in DOMAIN ms
      BY <3>1, <3>5
    <3>7. \A k, l \in 1..1 + Len(ms) : (<<new>> \o ms)[k].id = (<<new>> \o ms)[l].id => k = l
      <4>. TAKE k, l \in 1..1 + Len(ms)
      <4>. HAVE (<<new>> \o ms)[k].id = (<<new>> \o ms)[l].id
      <4>1. CASE k = 1 \/ l = 1
        BY <4>1, <3>4, <3>5, <3>6
      <4>2. CASE k # 1 /\ l # 1
        <5>1. k - 1 = l - 1
          BY <4>2, <3>1, <3>5, <3>6 DEF OneEach
        <5>. QED BY <5>1
      <4>. QED BY <4>1, <4>2
    <3>8. \A k \in 1..1 + Len(ms) : Runs(ops'[(<<new>> \o ms)[k].id], (<<new>> \o ms)[k])
      BY <3>1, <3>2, <3>4, <3>5, <3>6
    <3>9. lc_requests' = <<new>> \o ms
      BY <2>1 DEF ms
    <3>. QED BY <3>5, <3>6, <3>7, <3>8, <3>9 DEF WaitingOK, OneEach
  <2>. QED BY <2>2, <2>3, <2>4, <2>5 DEF Faithful
<1>4. CASE ~Enabled
  <2>1. ops' = [ops EXCEPT ![ld_msgid'] = Started(req)] /\ UNCHANGED <<lc, lists>>
    BY <1>4 DEF Ask
  <2>2. /\ \A id \in MsgIds : ops[id].state # "none" => ops'[id] = ops[id]
        /\ OpsOK'
    BY <1>1, <2>1, StartedOps DEF Faithful
  <2>3. LcOK' /\ IdleOK' /\ lc_requests' = <<>>
    BY <2>1, <1>4 DEF Faithful, LcOK, IdleOK, Exists, Enabled, lists
  <2>4. WaitingOK'
    BY <2>3 DEF WaitingOK, OneEach
  <2>5. SaidOK'
    <3>1. lc_buckets' = lc_buckets /\ lc_buckets \in [0..Buckets - 1 -> Seq(Said)] /\ SaidOK
      BY <2>1 DEF Faithful, SaidOK, lists
    <3>2. \A h \in 0..Buckets - 1 : \A k \in DOMAIN lc_buckets[h] :
             Stands(ops[lc_buckets[h][k].id], lc_buckets[h][k])
                => Stands(ops'[lc_buckets[h][k].id], lc_buckets[h][k])
      <4>. SUFFICES ASSUME NEW h \in 0..Buckets - 1, NEW k \in DOMAIN lc_buckets[h],
                           Stands(ops[lc_buckets[h][k].id], lc_buckets[h][k]),
                           lc_buckets[h][k].age < LastAge
                    PROVE  ops'[lc_buckets[h][k].id] = ops[lc_buckets[h][k].id]
        BY Zenon DEF Stands
      <4>1. lc_buckets[h][k] \in Said
        BY <3>1
      <4>. QED BY <2>2, <4>1 DEF Stands, Said
    <3>. QED BY <3>1, <3>2, SaidKept
  <2>. QED BY <2>2, <2>3, <2>4, <2>5 DEF Faithful
<1>. QED BY <1>2, <1>3, <1>4

(* A response arrives: the operation goes on as its request in the cache.  *)
LEMMA AnsweredOps ==
    ASSUME OpsOK, NEW id \in MsgIds, NEW msg \in Message, NEW state \in {"running", "ended"},
           ops[id].state = "running", Answer(id, msg, state), UNCHANGED ld_msgid
    PROVE  /\ OpsOK'
           /\ \A k \in MsgIds : k # id => ops'[k] = ops[k]
           /\ ops[id] \in Op /\ ops[id].age = 0
           /\ state = "running" \/ ops[id].stands =>
                 ops'[id] = [ops[id] EXCEPT !.chain = Append(@, msg), !.state = state]
           /\ state = "ended" => ops'[id].state # "running"
<1>. DEFINE more == [ops[id] EXCEPT !.chain = Append(@, msg), !.state = state]
<1>1. /\ ops \in [MsgIds -> {NoOp} \cup Op] /\ ld_msgid \in 0..MaxMsgid
      /\ \A k \in MsgIds : ops[k].state = "running" => ops[k].age = 0
      /\ \A k \in MsgIds : k > ld_msgid => ops[k] = NoOp
  BY DEF OpsOK
<1>2. ops[id] \in Op /\ ops[id].age = 0
  BY <1>1 DEF NoOp
<1>3. more \in Op /\ more.age = 0
  <2>1. Append(ops[id].chain, msg) \in Seq(Message)
    BY <1>2 DEF Op
  <2>. QED BY <1>2, <2>1 DEF Op
<1>4. ops' = [ops EXCEPT ![id] = IF state = "ended" /\ ~ops[id].stands THEN NoOp ELSE more]
  BY <1>1 DEF Answer
<1>. HIDE DEF more
<1>5. /\ ops' \in [MsgIds -> {NoOp} \cup Op]
      /\ \A k \in MsgIds : k # id => ops'[k] = ops[k]
      /\ ops'[id] = NoOp \/ ops'[id] = more
  BY <1>1, <1>3, <1>4
<1>6. \A k \in MsgIds : ops'[k].state = "running" => ops'[k].age = 0
  BY <1>1, <1>3, <1>5 DEF NoOp
<1>7. \A k \in MsgIds : k > ld_msgid => ops'[k] = NoOp
  <2>1. ~(id > ld_msgid)
    BY <1>1 DEF NoOp
  <2>. QED BY <1>1, <1>5, <2>1
<1>8. OpsOK'
  BY <1>1, <1>5, <1>6, <1>7 DEF OpsOK
<1>9. state = "running" \/ ops[id].stands => ops'[id] = more
  BY <1>1, <1>4
<1>10. state = "ended" => ops'[id].state # "running"
  <2>1. more.state = state
    BY <1>2 DEF more, Op
  <2>. QED BY <1>5, <2>1 DEF NoOp
<1>. QED BY <1>2, <1>5, <1>8, <1>9, <1>10 DEF more

(* An answer that the cache holds is of an operation that has ended; one   *)
(* that runs is none of its.                                               *)
LEMMA SaidEnded ==
    ASSUME Faithful, NEW id \in MsgIds, ops[id].state = "running",
           \A k \in MsgIds : k # id => ops'[k] = ops[k]
    PROVE  \A h \in 0..Buckets - 1 : \A i \in DOMAIN lc_buckets[h] :
              Stands(ops[lc_buckets[h][i].id], lc_buckets[h][i])
                 => Stands(ops'[lc_buckets[h][i].id], lc_buckets[h][i])
<1>. SUFFICES ASSUME NEW h \in 0..Buckets - 1, NEW i \in DOMAIN lc_buckets[h],
                     Stands(ops[lc_buckets[h][i].id], lc_buckets[h][i]),
                     lc_buckets[h][i].age < LastAge
              PROVE  ops'[lc_buckets[h][i].id] = ops[lc_buckets[h][i].id]
  BY Zenon DEF Stands
<1>1. lc_buckets[h][i] \in Said
  BY DEF Faithful, SaidOK
<1>. QED BY <1>1 DEF Stands, Said

(* The response is appended to the chain of its request. *)
LEMMA AppendedIs ==
    ASSUME lc_requests \in Seq(Waiting), NEW id, NEW msg \in Message
    PROVE  /\ Appended(id, msg) \in Seq(Waiting)
           /\ DOMAIN Appended(id, msg) = DOMAIN lc_requests
           /\ \A i \in DOMAIN lc_requests :
                 Appended(id, msg)[i] = IF lc_requests[i].id = id
                                        THEN [lc_requests[i] EXCEPT !.chain = Append(@, msg)]
                                        ELSE lc_requests[i]
<1>1. \A i \in DOMAIN lc_requests :
         (IF lc_requests[i].id = id THEN [lc_requests[i] EXCEPT !.chain = Append(@, msg)]
          ELSE lc_requests[i]) \in Waiting
  <2>. TAKE i \in DOMAIN lc_requests
  <2>1. lc_requests[i] \in Waiting
    OBVIOUS
  <2>2. Append(lc_requests[i].chain, msg) \in Seq(Message)
    BY <2>1 DEF Waiting
  <2>. QED BY <2>1, <2>2 DEF Waiting
<1>2. DOMAIN lc_requests = 1..Len(lc_requests) /\ Len(lc_requests) \in Nat
  OBVIOUS
<1>. QED BY <1>1, <1>2 DEF Appended

LEMMA EntryFaithful ==
    ASSUME Faithful, NEW id \in MsgIds, NEW dn \in Entries, Entry(id, dn)
    PROVE  Faithful'
<1>. DEFINE msg == [type |-> "entry", dn |-> dn]
            new == Appended(id, msg)
<1>1. /\ msg \in Message /\ ops[id].state = "running"
      /\ Answer(id, msg, "running") /\ Part(id, msg) /\ UNCHANGED ld_msgid
  BY DEF Entry, Message
<1>. HIDE DEF msg
<1>2. /\ OpsOK'
      /\ \A k \in MsgIds : k # id => ops'[k] = ops[k]
      /\ ops[id] \in Op
      /\ ops'[id] = [ops[id] EXCEPT !.chain = Append(@, msg), !.state = "running"]
  BY <1>1, AnsweredOps DEF Faithful
<1>3. UNCHANGED <<lc, lc_buckets>>
  BY <1>1 DEF Part
<1>4. SaidOK'
  <2>1. SaidOK /\ lc_buckets' \in [0..Buckets - 1 -> Seq(Said)]
    BY <1>3 DEF Faithful, SaidOK
  <2>. QED BY <1>1, <1>2, <1>3, <2>1, SaidEnded, SaidKept
<1>5. /\ lc_requests \in Seq(Waiting) /\ OneEach(lc_requests)
      /\ \A i \in DOMAIN lc_requests : Runs(ops[lc_requests[i].id], lc_requests[i])
  BY DEF Faithful, WaitingOK
<1>6. CASE Enabled
  <2>1. lc_requests' = new
    BY <1>1, <1>6 DEF Part
  <2>2. /\ new \in Seq(Waiting) /\ DOMAIN new = DOMAIN lc_requests
        /\ \A i \in DOMAIN lc_requests :
              new[i] = IF lc_requests[i].id = id
                       THEN [lc_requests[i] EXCEPT !.chain = Append(@, msg)]
                       ELSE lc_requests[i]
    <3>1. new \in Seq(Waiting) /\ DOMAIN new = DOMAIN lc_requests
      BY <1>1, <1>5, AppendedIs
    <3>2. ASSUME NEW i \in DOMAIN lc_requests
          PROVE  new[i] = IF lc_requests[i].id = id
                          THEN [lc_requests[i] EXCEPT !.chain = Append(@, msg)]
                          ELSE lc_requests[i]
      BY <3>2 DEF Appended
    <3>. QED BY <3>1, <3>2
  <2>. HIDE DEF new
  <2>3. \A i \in DOMAIN lc_requests : lc_requests[i] \in Waiting
    BY <1>5
  <2>4. \A i \in DOMAIN lc_requests : new[i].id = lc_requests[i].id
    BY <2>2, <2>3 DEF Waiting
  <2>5. \A i \in DOMAIN lc_requests : Runs(ops'[new[i].id], new[i])
    <3>. TAKE i \in DOMAIN lc_requests
    <3>1. CASE lc_requests[i].id = id
      <4>1. Runs(ops[id], lc_requests[i])
        BY <1>5, <3>1
      <4>2. /\ new[i].id = id /\ new[i].req = lc_requests[i].req
            /\ new[i].chain = Append(lc_requests[i].chain, msg)
        BY <2>2, <2>3, <3>1 DEF Waiting
      <4>3. /\ ops'[id].state = "running" /\ ops'[id].stands = ops[id].stands
            /\ ops'[id].req = ops[id].req /\ ops'[id].chain = Append(ops[id].chain, msg)
        BY <1>2 DEF Op
      <4>. QED BY <4>1, <4>2, <4>3 DEF Runs
    <3>2. CASE lc_requests[i].id # id
      BY <1>2, <1>5, <2>2, <2>3, <3>2 DEF Waiting
    <3>. QED BY <3>1, <3>2
  <2>6. WaitingOK'
    BY <1>5, <2>1, <2>2, <2>4, <2>5 DEF WaitingOK, OneEach
  <2>7. LcOK' /\ IdleOK'
    BY <1>3, <1>6 DEF Faithful, LcOK, IdleOK, Exists, Enabled
  <2>. QED BY <1>2, <1>4, <2>6, <2>7 DEF Faithful
<1>7. CASE ~Enabled
  <2>1. lc_requests' = lc_requests /\ lc_requests = <<>>
    BY <1>1, <1>7 DEF Part, Faithful, IdleOK
  <2>2. WaitingOK'
    BY <2>1 DEF WaitingOK, OneEach
  <2>3. LcOK' /\ IdleOK'
    BY <1>3, <2>1 DEF Faithful, LcOK, IdleOK, Exists, Enabled
  <2>. QED BY <1>2, <1>4, <2>2, <2>3 DEF Faithful
<1>. QED BY <1>6, <1>7

LEMMA FinalFaithful ==
    ASSUME Faithful, NEW id \in MsgIds, NEW code \in Codes, Final(id, code)
    PROVE  Faithful'
<1>. DEFINE msg == [type |-> "result", code |-> code]
            p == Pending(id)
            m == Appended(id, msg)[p]
            answer == [id |-> m.id, req |-> m.req, chain |-> m.chain, age |-> 0]
<1>1. /\ msg \in Message /\ ops[id].state = "running"
      /\ Answer(id, msg, "ended") /\ Complete(id, msg) /\ UNCHANGED ld_msgid
  BY DEF Final, Message
<1>2. msg.code = code
  OBVIOUS
<1>. HIDE DEF msg
<1>3. /\ OpsOK'
      /\ \A k \in MsgIds : k # id => ops'[k] = ops[k]
      /\ ops[id] \in Op /\ ops[id].age = 0
      /\ ops[id].stands => ops'[id] = [ops[id] EXCEPT !.chain = Append(@, msg), !.state = "ended"]
  BY <1>1, AnsweredOps DEF Faithful
<1>4. /\ lc_requests \in Seq(Waiting) /\ OneEach(lc_requests)
      /\ \A i \in DOMAIN lc_requests : lc_requests[i] \in Waiting
      /\ \A i \in DOMAIN lc_requests : Runs(ops[lc_requests[i].id], lc_requests[i])
  BY DEF Faithful, WaitingOK
<1>5. /\ SaidOK /\ lc_buckets \in [0..Buckets - 1 -> Seq(Said)]
      /\ \A h \in 0..Buckets - 1 : \A i \in DOMAIN lc_buckets[h] :
            Stands(ops[lc_buckets[h][i].id], lc_buckets[h][i])
               => Stands(ops'[lc_buckets[h][i].id], lc_buckets[h][i])
  BY <1>1, <1>3, SaidEnded DEF Faithful, SaidOK
<1>6. ASSUME UNCHANGED lc_buckets PROVE SaidOK'
  BY <1>5, <1>6, SaidKept
<1>7. CASE Enabled /\ p # 0
  <2>1. /\ lc_requests' = RemoveAt(lc_requests, p)
        /\ IF Keep(m.req.type, msg.code) THEN Put(m) ELSE UNCHANGED <<lc, lc_buckets, reduce>>
    BY <1>1, <1>7 DEF Complete
  <2>2. p \in DOMAIN lc_requests /\ lc_requests[p].id = id
    BY <1>4, <1>7, PendingIn
  <2>3. /\ Appended(id, msg) \in Seq(Waiting)
        /\ m = [lc_requests[p] EXCEPT !.chain = Append(@, msg)]
        /\ m \in Waiting
    <3>1. /\ Appended(id, msg) \in Seq(Waiting)
          /\ DOMAIN Appended(id, msg) = DOMAIN lc_requests
          /\ Appended(id, msg)[p] = [lc_requests[p] EXCEPT !.chain = Append(@, msg)]
      BY <1>1, <1>4, <2>2, AppendedIs
    <3>. QED BY <2>2, <3>1
  <2>. HIDE DEF p, m
  <2>4. WaitingOK'
    <3>1. /\ lc_requests' \in Seq(Waiting) /\ OneEach(lc_requests')
          /\ \A k \in DOMAIN lc_requests' :
                \E i \in DOMAIN lc_requests : lc_requests'[k] = lc_requests[i] /\ lc_requests[i].id # id
      BY <1>4, <2>1, <2>2, RemoveIn, RemoveOneEach
    <3>2. \A i \in DOMAIN lc_requests : lc_requests[i].id # id =>
             Runs(ops'[lc_requests[i].id], lc_requests[i])
      BY <1>3, <1>4 DEF Waiting
    <3>3. \A k \in DOMAIN lc_requests' : Runs(ops'[lc_requests'[k].id], lc_requests'[k])
      BY <3>1, <3>2
    <3>. QED BY <3>1, <3>3 DEF WaitingOK
  <2>5. LcOK' /\ Enabled' = Enabled
    <3>1. CASE Keep(m.req.type, msg.code)
      <4>1. \E used : lc' = [lc EXCEPT !.memused = used]
        BY <2>1, <3>1 DEF Put
      <4>. QED BY <4>1, CountOnly DEF Faithful
    <3>2. CASE ~Keep(m.req.type, msg.code)
      BY <2>1, <3>2 DEF Faithful, LcOK, Exists, Enabled
    <3>. QED BY <3>1, <3>2
  <2>6. IdleOK'
    BY <1>7, <2>5 DEF IdleOK
  <2>7. SaidOK'
    <3>1. CASE Keep(m.req.type, msg.code)
      <4>. DEFINE b == Hash(m.req)
                  ms == lc_buckets[b]
      <4>1. b \in 0..Buckets - 1
        BY <2>3, HashType DEF Waiting
      <4>2. lc_buckets' = [lc_buckets EXCEPT ![b] = <<answer>> \o ms]
        BY <2>1, <3>1 DEF Put
      <4>3. answer \in Said
        <5>1. m.id \in MsgIds /\ m.req \in Requests /\ m.chain \in Seq(Message)
          BY <2>3 DEF Waiting
        <5>2. 0 \in 0..LastAge
          BY LastAgeType
        <5>. QED BY <5>1, <5>2 DEF Said
      <4>4. Stands(ops'[answer.id], answer)
        <5>1. Runs(ops[id], lc_requests[p])
          BY <1>4, <2>2
        <5>2. ops'[id] = [ops[id] EXCEPT !.chain = Append(@, msg), !.state = "ended"]
          BY <1>3, <5>1 DEF Runs
        <5>3. answer.id = id /\ answer.req = lc_requests[p].req
              /\ answer.chain = Append(lc_requests[p].chain, msg) /\ answer.age = 0
          BY <1>4, <2>2, <2>3 DEF Waiting
        <5>4. /\ ops'[id].state = "ended" /\ ops'[id].age = 0
              /\ ops'[id].req = ops[id].req /\ ops'[id].chain = Append(ops[id].chain, msg)
          BY <1>3, <5>2 DEF Op
        <5>. HIDE DEF answer
        <5>. QED BY <5>1, <5>3, <5>4 DEF Runs, Stands
      <4>. HIDE DEF b, answer
      <4>5. /\ ms \in Seq(Said)
            /\ \A k \in DOMAIN ms : Stands(ops'[ms[k].id], ms[k])
        BY <1>5, <4>1 DEF SaidOK
      <4>. HIDE DEF ms
      <4>6. /\ <<answer>> \o ms \in Seq(Said) /\ Len(<<answer>> \o ms) = 1 + Len(ms)
            /\ \A k \in 1..1 + Len(ms) : (<<answer>> \o ms)[k] = IF k = 1 THEN answer ELSE ms[k - 1]
        BY <4>3, <4>5
      <4>7. /\ DOMAIN (<<answer>> \o ms) = 1..1 + Len(ms) /\ Len(ms) \in Nat
            /\ \A k \in 1..1 + Len(ms) : k # 1 => k - 1 \in DOMAIN ms
        BY <4>5, <4>6
      <4>8. \A k \in DOMAIN (<<answer>> \o ms) :
               Stands(ops'[(<<answer>> \o ms)[k].id], (<<answer>> \o ms)[k])
        BY <4>4, <4>5, <4>6, <4>7
      <4>9. /\ lc_buckets' \in [0..Buckets - 1 -> Seq(Said)]
            /\ \A h \in 0..Buckets - 1 :
                  lc_buckets'[h] = IF h = b THEN <<answer>> \o ms ELSE lc_buckets[h]
        BY <1>5, <4>1, <4>2, <4>6
      <4>10. \A h \in 0..Buckets - 1 : \A k \in DOMAIN lc_buckets'[h] :
                Stands(ops'[lc_buckets'[h][k].id], lc_buckets'[h][k])
        <5>. TAKE h \in 0..Buckets - 1
        <5>1. CASE h = b
          BY <4>8, <4>9, <5>1
        <5>2. CASE h # b
          BY <1>5, <4>9, <5>2 DEF SaidOK
        <5>. QED BY <5>1, <5>2
      <4>. QED BY <4>9, <4>10 DEF SaidOK
    <3>2. CASE ~Keep(m.req.type, msg.code)
      BY <1>6, <2>1, <3>2
    <3>. QED BY <3>1, <3>2
  <2>. QED BY <1>3, <2>4, <2>5, <2>6, <2>7 DEF Faithful
<1>8. CASE ~(Enabled /\ p # 0)
  <2>1. UNCHANGED <<lc, lc_requests, lc_buckets>>
    BY <1>1, <1>8 DEF Complete, lists
  <2>2. \A i \in DOMAIN lc_requests : lc_requests[i].id # id
    <3>1. CASE ~Enabled
      BY <3>1 DEF Faithful, IdleOK
    <3>2. CASE Enabled
      BY <1>4, <1>8, <3>2, PendingIn
    <3>. QED BY <3>1, <3>2
  <2>3. WaitingOK'
    BY <1>3, <1>4, <2>1, <2>2 DEF WaitingOK, Waiting
  <2>4. LcOK' /\ IdleOK'
    BY <2>1 DEF Faithful, LcOK, IdleOK, Exists, Enabled
  <2>. QED BY <1>3, <1>6, <2>1, <2>3, <2>4 DEF Faithful
<1>. QED BY <1>7, <1>8

(* A round of check_cache_memused only drops messages. *)
LEMMA RoundFaithful ==
    ASSUME Faithful, Round
    PROVE  Faithful'
<1>. DEFINE places == [h \in DOMAIN lc_buckets |->
                          {i \in DOMAIN lc_buckets[h] : ~(lc_buckets[h][i].age > reduce)}]
<1>1. /\ lc_buckets' = [h \in DOMAIN lc_buckets |-> Pick(lc_buckets[h], places[h])]
      /\ UNCHANGED <<lc_requests, ld_msgid, ops>>
      /\ \E used : lc' = [lc EXCEPT !.memused = used]
  BY DEF Round, Only
<1>2. \A h \in 0..Buckets - 1 : places[h] \in SUBSET DOMAIN lc_buckets[h]
  BY DEF Faithful, SaidOK
<1>. HIDE DEF places
<1>3. SaidOK'
  BY <1>1, <1>2, SaidPicked DEF Faithful
<1>4. LcOK' /\ IdleOK'
  BY <1>1, CountOnly DEF Faithful, IdleOK
<1>5. OpsOK' /\ WaitingOK'
  BY <1>1 DEF Faithful, OpsOK, WaitingOK
<1>. QED BY <1>3, <1>4, <1>5 DEF Faithful

(* The clock moves on for the operations. *)
LEMMA TickOps ==
    ASSUME OpsOK, Tick
    PROVE  /\ OpsOK'
           /\ \A id \in MsgIds : ops'[id].state = "running" => ops'[id] = ops[id]
<1>1. ops' = [id \in MsgIds |-> Aged(ops[id])] /\ UNCHANGED ld_msgid
  BY DEF Tick
<1>2. \A op \in {NoOp} \cup Op : /\ Aged(op) \in {NoOp} \cup Op
                                 /\ op.state # "ended" => Aged(op) = op
                                 /\ Aged(op).state = "running" => op.state = "running"
  BY LastAgeType DEF Aged, Op, NoOp
<1>3. \A id \in MsgIds : ops'[id] = Aged(ops[id]) /\ ops[id] \in {NoOp} \cup Op
  BY <1>1 DEF OpsOK
<1>4. ops' \in [MsgIds -> {NoOp} \cup Op]
  BY <1>1, <1>2, <1>3
<1>5. \A id \in MsgIds : ops'[id].state = "running" => ops'[id] = ops[id]
  BY <1>2, <1>3
<1>6. \A id \in MsgIds : id > ld_msgid' => ops'[id] = NoOp
  BY <1>1, <1>2, <1>3 DEF OpsOK, NoOp
<1>. QED BY <1>1, <1>4, <1>5, <1>6 DEF OpsOK

(* The clock moves on for an answer and for its operation alike; at        *)
(* LastAge the operation is forgotten and the answer is of no use.         *)
LEMMA TickFaithful ==
    ASSUME Faithful, Tick
    PROVE  Faithful'
<1>. DEFINE Later(ms) == [i \in DOMAIN ms |-> [ms[i] EXCEPT !.age = Older(@)]]
<1>1. /\ lc_buckets' = [h \in DOMAIN lc_buckets |-> Later(lc_buckets[h])]
      /\ ops' = [id \in MsgIds |-> Aged(ops[id])]
      /\ UNCHANGED <<lc, lc_requests, ld_msgid>>
  BY DEF Tick
<1>2. /\ ops \in [MsgIds -> {NoOp} \cup Op]
      /\ lc_buckets \in [0..Buckets - 1 -> Seq(Said)]
  BY DEF Faithful, OpsOK, SaidOK
<1>3. \A op \in {NoOp} \cup Op : /\ Aged(op) \in {NoOp} \cup Op
                                 /\ op.state # "ended" => Aged(op) = op
                                 /\ Aged(op).state = "running" => op.state = "running"
  BY LastAgeType DEF Aged, Op, NoOp
<1>4. \A id \in MsgIds : ops'[id] = Aged(ops[id]) /\ ops[id] \in {NoOp} \cup Op
  BY <1>1, <1>2
<1>5. OpsOK'
  BY TickOps DEF Faithful
<1>6. WaitingOK'
  <2>1. /\ lc_requests' = lc_requests /\ lc_requests \in Seq(Waiting) /\ OneEach(lc_requests)
        /\ \A i \in DOMAIN lc_requests : Runs(ops[lc_requests[i].id], lc_requests[i])
    BY <1>1 DEF Faithful, WaitingOK
  <2>2. \A i \in DOMAIN lc_requests : lc_requests[i] \in Waiting
    BY <2>1
  <2>3. \A i \in DOMAIN lc_requests : ops'[lc_requests[i].id] = ops[lc_requests[i].id]
    BY <1>3, <1>4, <2>1, <2>2 DEF Waiting, Runs
  <2>. QED BY <2>1, <2>3 DEF WaitingOK
<1>7. \A m \in Said, op \in {NoOp} \cup Op :
         /\ [m EXCEPT !.age = Older(@)] \in Said
         /\ [m EXCEPT !.age = Older(@)].id = m.id
         /\ Stands(op, m) => Stands(Aged(op), [m EXCEPT !.age = Older(@)])
  <2>. TAKE m \in Said, op \in {NoOp} \cup Op
  <2>. DEFINE n == [m EXCEPT !.age = Older(@)]
  <2>1. m.age \in 0..LastAge /\ LastAge \in Nat \ {0}
    BY LastAgeType DEF Said
  <2>2. Older(m.age) \in 0..LastAge /\ (Older(m.age) < LastAge => m.age < LastAge /\ Older(m.age) = m.age + 1)
    BY <2>1 DEF Older
  <2>3. /\ n \in Said /\ n.id = m.id /\ n.req = m.req /\ n.chain = m.chain
        /\ n.age = Older(m.age)
    BY <2>2 DEF Said
  <2>. HIDE DEF n
  <2>4. ASSUME Stands(op, m), n.age < LastAge
        PROVE  Aged(op).state = "ended" /\ Aged(op).age = n.age /\ Aged(op).req = n.req /\ Aged(op).chain = n.chain
    <3>1. op.state = "ended" /\ op.age = m.age /\ op.req = m.req /\ op.chain = m.chain
      BY <2>2, <2>3, <2>4 DEF Stands
    <3>2. op \in Op
      BY <3>1 DEF NoOp
    <3>3. Aged(op) = [op EXCEPT !.age = @ + 1]
      BY <2>1, <2>2, <2>3, <2>4, <3>1 DEF Aged
    <3>. QED BY <2>2, <2>3, <2>4, <3>1, <3>2, <3>3 DEF Op
  <2>5. Stands(op, m) => Stands(Aged(op), n)
    BY <2>4 DEF Stands
  <2>. QED BY <2>3, <2>5 DEF n
<1>8. SaidOK'
  <2>1. \A h \in 0..Buckets - 1 :
           /\ lc_buckets'[h] = Later(lc_buckets[h]) /\ lc_buckets[h] \in Seq(Said)
           /\ \A i \in DOMAIN lc_buckets[h] : lc_buckets[h][i] \in Said
    BY <1>1, <1>2
  <2>2. \A h \in 0..Buckets - 1 : Later(lc_buckets[h]) \in Seq(Said)
    <3>. TAKE h \in 0..Buckets - 1
    <3>1. \A i \in DOMAIN lc_buckets[h] : [lc_buckets[h][i] EXCEPT !.age = Older(@)] \in Said
      BY <1>7, <2>1
    <3>2. DOMAIN lc_buckets[h] = 1..Len(lc_buckets[h]) /\ Len(lc_buckets[h]) \in Nat
      BY <2>1
    <3>. QED BY <3>1, <3>2
  <2>3. \A h \in 0..Buckets - 1 : \A i \in DOMAIN lc_buckets[h] :
           Stands(ops'[lc_buckets[h][i].id], [lc_buckets[h][i] EXCEPT !.age = Older(@)])
    <3>. TAKE h \in 0..Buckets - 1
    <3>. TAKE i \in DOMAIN lc_buckets[h]
    <3>1. lc_buckets[h][i].id \in MsgIds
      BY <2>1 DEF Said
    <3>2. Stands(ops[lc_buckets[h][i].id], lc_buckets[h][i])
      BY DEF Faithful, SaidOK
    <3>3. /\ lc_buckets[h][i] \in Said /\ ops[lc_buckets[h][i].id] \in {NoOp} \cup Op
          /\ ops'[lc_buckets[h][i].id] = Aged(ops[lc_buckets[h][i].id])
      BY <1>4, <2>1, <3>1
    <3>. QED BY <1>7, <3>2, <3>3, Zenon
  <2>4. lc_buckets' \in [0..Buckets - 1 -> Seq(Said)]
    BY <1>1, <1>2, <2>2
  <2>5. \A h \in 0..Buckets - 1 : \A i \in DOMAIN lc_buckets'[h] :
           Stands(ops'[lc_buckets'[h][i].id], lc_buckets'[h][i])
    <3>. TAKE h \in 0..Buckets - 1
    <3>. TAKE i \in DOMAIN lc_buckets'[h]
    <3>1. /\ i \in DOMAIN lc_buckets[h]
          /\ lc_buckets'[h][i] = [lc_buckets[h][i] EXCEPT !.age = Older(@)]
      BY <2>1
    <3>2. lc_buckets'[h][i].id = lc_buckets[h][i].id
      BY <1>7, <2>1, <3>1
    <3>. QED BY <2>3, <3>1, <3>2
  <2>. QED BY <2>4, <2>5 DEF SaidOK
<1>9. LcOK' /\ IdleOK'
  BY <1>1 DEF Faithful, LcOK, IdleOK, Exists, Enabled
<1>. QED BY <1>5, <1>6, <1>8, <1>9 DEF Faithful

-----------------------------------------------------------------------------
(* What the cache holds is what the server said, in every reachable state  *)
(* of a session that does not disable it while requests are under way      *)
(* (ldap_add_result_to_cache, cache.c lines 263 to 351, returns before it  *)
(* has looked for the request when the cache is disabled).                 *)
LEMMA NextFaithful ==
    ASSUME Faithful, Pauses = FALSE, [Next]_vars
    PROVE  Faithful'
<1>1. CASE UNCHANGED vars
  BY <1>1, ListsSame DEF vars, lists, Faithful, LcOK, IdleOK, Exists, Enabled
<1>2. ASSUME NEW t \in Timeouts, NEW n \in Limits, Enable(t, n) PROVE Faithful'
  BY <1>2, EnableFaithful
<1>3. CASE Disable
  BY <1>3, DisableFaithful
<1>4. ASSUME NEW o \in Options, SetOptions(o) PROVE Faithful'
  BY <1>4, SetOptionsFaithful
<1>5. CASE Flush
  BY <1>5, FlushFaithful
<1>6. CASE Destroy
  BY <1>6, DestroyFaithful
<1>7. ASSUME NEW id \in MsgIds, UncacheRequest(id) PROVE Faithful'
  BY <1>7, UncacheRequestFaithful
<1>8. ASSUME NEW dn \in Entries, UncacheEntry(dn) PROVE Faithful'
  BY <1>8, UncacheEntryFaithful
<1>9. ASSUME NEW req \in Requests, Ask(req) PROVE Faithful'
  BY <1>9, AskFaithful
<1>10. ASSUME NEW id \in MsgIds, NEW dn \in Entries, Entry(id, dn) PROVE Faithful'
  BY <1>10, EntryFaithful
<1>11. ASSUME NEW id \in MsgIds, NEW c \in Codes, Final(id, c) PROVE Faithful'
  BY <1>11, FinalFaithful
<1>12. CASE Round
  BY <1>12, RoundFaithful
<1>13. CASE Tick
  BY <1>13, TickFaithful
<1>. QED BY <1>1, <1>2, <1>3, <1>4, <1>5, <1>6, <1>7, <1>8, <1>9, <1>10, <1>11, <1>12, <1>13 DEF Next

THEOREM FaithfulTheorem == ASSUME Pauses = FALSE PROVE Spec => []Faithful
<1>1. Faithful /\ [Next]_vars => Faithful'
  BY NextFaithful
<1>. QED BY InitFaithful, <1>1, PTL DEF Spec

(* What the cache answers is the answer of an operation of the server: the *)
(* message found is not expired, so it still stands, and of the same type  *)
(* and body, so it is of the same request.                                 *)
LEMMA HitTrue ==
    ASSUME Faithful, Next, hit' # <<>>
    PROVE  \E id \in MsgIds : /\ ops[id].state = "ended"
                              /\ ops[id].req = hit'.req /\ ops[id].chain = hit'.chain
                              /\ ops[id].age <= lc.timeout
<1>1. PICK req \in Requests : Ask(req)
  BY DEF Next, NoHit, Enable, Disable, SetOptions, Flush, Destroy, UncacheRequest, UncacheEntry,
         Uncache, Entry, Final, Round, Tick
<1>. DEFINE b == Hash(req)
            i == Found(lc_buckets[b], req)
            m == lc_buckets[b][i]
<1>2. /\ Enabled /\ i # 0
      /\ hit' = [id |-> ld_msgid', req |-> req, chain |-> m.chain]
  BY <1>1 DEF Ask, NoHit
<1>3. b \in 0..Buckets - 1 /\ lc_buckets[b] \in Seq(Said)
  BY HashType DEF Faithful, SaidOK
<1>4. i \in DOMAIN lc_buckets[b] /\ ~Expired(m) /\ Matches(m, req)
  BY <1>2, <1>3, FoundIn
<1>. HIDE DEF b, i
<1>5. m \in Said /\ Stands(ops[m.id], m)
  BY <1>3, <1>4 DEF Faithful, SaidOK
<1>. HIDE DEF m
<1>6. m.id \in MsgIds /\ m.req \in Requests /\ m.age \in 0..LastAge
  BY <1>5 DEF Said
<1>7. m.age <= lc.timeout /\ m.age < LastAge
  <2>1. lc.timeout \in Timeouts /\ lc.timeout \in Nat /\ lc.timeout < LastAge
    BY <1>2, LastAgeType, CacheAssumption DEF Faithful, LcOK, Enabled, Exists
  <2>2. ~(m.age > lc.timeout)
    BY <1>4 DEF Expired
  <2>. QED BY <1>6, <2>1, <2>2, LastAgeType
<1>8. m.req = req
  BY <1>4, <1>6, RequestAssumption DEF Matches
<1>9. hit'.req = req /\ hit'.chain = m.chain
  BY <1>2
<1>10. /\ ops[m.id].state = "ended" /\ ops[m.id].age = m.age
       /\ ops[m.id].req = m.req /\ ops[m.id].chain = m.chain
  BY <1>5, <1>7 DEF Stands
<1>. QED BY <1>6, <1>7, <1>8, <1>9, <1>10

(* What ldap_check_cache puts on ld_responses (cache.c lines 377 to 452)   *)
(* is the whole answer the server gave to the same request, no longer than *)
(* lc_timeout ago, and not flushed or uncached since, for any number of    *)
(* requests under way and whatever the limits and timeouts are.            *)
THEOREM AnswersTheorem == ASSUME Pauses = FALSE PROVE Spec => AnswersTrue
<1>1. Faithful /\ [Next]_vars =>
        [hit' # <<>> =>
           \E id \in MsgIds : /\ ops[id].state = "ended"
                             /\ ops[id].req = hit'.req /\ ops[id].chain = hit'.chain
                             /\ ops[id].age <= lc.timeout]_vars
  BY HitTrue
<1>. QED BY <1>1, FaithfulTheorem, PTL DEF Spec, AnswersTrue

-----------------------------------------------------------------------------
(* The count.  A list is measured by its units: a message and each         *)
(* response chained to it count one, told apart by the id of the message.  *)
(* What the lists hold is small enough, and no two of one request, so      *)
(* that all the units together can be counted.                             *)
Kept  == [id : MsgIds, req : Requests, chain : Seq(Message), age : Nat]
Small == {m \in Waiting \cup Kept : Len(m.chain) <= MaxEntries + 1}

Members(mss) == UNION {{mss[h][i] : i \in DOMAIN mss[h]} : h \in DOMAIN mss}
Units(ms)    == UNION {{<<m.id, k>> : k \in 0..Len(m.chain)} : m \in ms}
OneId(mss)   == \A g, h \in DOMAIN mss : \A i \in DOMAIN mss[g], j \in DOMAIN mss[h] :
                   mss[g][i].id = mss[h][j].id => g = h /\ i = j

(* Lists of messages that the session holds. *)
SmallLists(mss) == OneId(mss) /\ \A h \in DOMAIN mss : mss[h] \in Seq(Small)

(* What the sets of units are, how many there can be, and that those of    *)
(* messages with different ids add up.                                     *)
LEMMA UnitsIn ==
    ASSUME NEW ms, NEW x
    PROVE  x \in Units(ms) <=> \E m \in ms : \E k \in 0..Len(m.chain) : x = <<m.id, k>>
<1>. DEFINE U(m) == {<<m.id, k>> : k \in 0..Len(m.chain)}
<1>1. \A m : x \in U(m) <=> \E k \in 0..Len(m.chain) : x = <<m.id, k>>
  OBVIOUS
<1>2. Units(ms) = UNION {U(m) : m \in ms}
  BY DEF Units
<1>. HIDE DEF U
<1>3. x \in Units(ms) <=> \E m \in ms : x \in U(m)
  BY <1>2
<1>. QED BY <1>1, <1>3, Zenon

LEMMA UnitsBound ==
    ASSUME NEW ms \in SUBSET Small
    PROVE  /\ IsFiniteSet(Units(ms)) /\ Cardinality(Units(ms)) \in Nat
           /\ Cardinality(Units(ms)) <= MaxMsgid * (MaxEntries + 2)
<1>. DEFINE Ks == 0..MaxEntries + 1
<1>1. MaxMsgid \in Nat /\ MaxEntries \in Nat
  BY CacheAssumption
<1>2. IsFiniteSet(MsgIds) /\ Cardinality(MsgIds) = MaxMsgid
  BY <1>1, FS_Interval DEF MsgIds
<1>3. IsFiniteSet(Ks) /\ Cardinality(Ks) = MaxEntries + 2
  BY <1>1, FS_Interval
<1>4. Units(ms) \in SUBSET (MsgIds \X Ks)
  <2>. SUFFICES ASSUME NEW x \in Units(ms) PROVE x \in MsgIds \X Ks
    OBVIOUS
  <2>1. PICK m \in ms : \E k \in 0..Len(m.chain) : x = <<m.id, k>>
    BY UnitsIn
  <2>2. m.id \in MsgIds /\ Len(m.chain) \in Nat /\ Len(m.chain) <= MaxEntries + 1
    BY DEF Small, Waiting, Kept
  <2>. QED BY <1>1, <2>1, <2>2
<1>. HIDE DEF Ks
<1>5. IsFiniteSet(MsgIds \X Ks) /\ Cardinality(MsgIds \X Ks) = MaxMsgid * (MaxEntries + 2)
  BY <1>2, <1>3, FS_Product
<1>. QED BY <1>4, <1>5, FS_Subset, FS_CardinalityType

LEMMA UnitsAdd ==
    ASSUME NEW a \in SUBSET Small, NEW b \in SUBSET Small, \A m \in a, n \in b : m.id # n.id
    PROVE  Cardinality(Units(a \cup b)) = Cardinality(Units(a)) + Cardinality(Units(b))
<1>1. \A x : x \in Units(a \cup b) <=> x \in Units(a) \/ x \in Units(b)
  BY UnitsIn
<1>2. Units(a \cup b) = Units(a) \cup Units(b)
  BY <1>1
<1>3. Units(a) \cap Units(b) = {}
  <2>. SUFFICES ASSUME NEW x \in Units(a), x \in Units(b) PROVE FALSE
    OBVIOUS
  <2>1. PICK m \in a : \E k \in 0..Len(m.chain) : x = <<m.id, k>>
    BY UnitsIn
  <2>2. PICK n \in b : \E k \in 0..Len(n.chain) : x = <<n.id, k>>
    BY UnitsIn
  <2>. QED BY <2>1, <2>2
<1>4. IsFiniteSet(Units(a)) /\ IsFiniteSet(Units(b)) /\ Cardinality(Units(a)) \in Nat /\ Cardinality(Units(b)) \in Nat
  BY UnitsBound
<1>5. Cardinality(Units(a) \cap Units(b)) = 0
  BY <1>3, FS_EmptySet
<1>6. Cardinality(Units(a) \cup Units(b))
         = Cardinality(Units(a)) + Cardinality(Units(b)) - Cardinality(Units(a) \cap Units(b))
  BY <1>4, FS_Union
<1>7. Cardinality(Units(a \cup b)) = Cardinality(Units(a) \cup Units(b))
  BY <1>2
<1>. DEFINE n == Cardinality(Units(a))
            p == Cardinality(Units(b))
<1>8. n \in Nat /\ p \in Nat /\ Cardinality(Units(a \cup b)) = n + p - 0
  BY <1>4, <1>5, <1>6, <1>7, Zenon
<1>. HIDE DEF n, p
<1>9. Cardinality(Units(a \cup b)) = n + p
  BY <1>8
<1>. QED BY <1>9 DEF n, p

LEMMA UnitsOne ==
    ASSUME NEW m, Len(m.chain) \in Nat
    PROVE  Cardinality(Units({m})) = MsgSize(m)
<1>. DEFINE f == [k \in 0..Len(m.chain) |-> <<m.id, k>>]
<1>1. \A x : x \in Units({m}) <=> \E k \in 0..Len(m.chain) : x = <<m.id, k>>
  BY UnitsIn
<1>2. f \in Bijection(0..Len(m.chain), Units({m}))
  <2>1. f \in [0..Len(m.chain) -> Units({m})]
    BY <1>1
  <2>2. \A j, k \in 0..Len(m.chain) : f[j] = f[k] => j = k
    OBVIOUS
  <2>3. \A x \in Units({m}) : \E k \in 0..Len(m.chain) : f[k] = x
    BY <1>1
  <2>. DEFINE S == 0..Len(m.chain)
              T == Units({m})
  <2>4. f \in [S -> T]
    BY <2>1
  <2>5. \A j, k \in S : f[j] = f[k] => j = k
    BY <2>2
  <2>6. \A x \in T : \E k \in S : f[k] = x
    BY <2>3
  <2>. HIDE DEF f, S, T
  <2>7. f \in Bijection(S, T)
    BY <2>4, <2>5, <2>6, Fun_IsBij
  <2>. QED BY <2>7 DEF S, T
<1>3. IsFiniteSet(0..Len(m.chain)) /\ Cardinality(0..Len(m.chain)) = 1 + Len(m.chain)
  BY FS_Interval
<1>4. ExistsBijection(0..Len(m.chain), Units({m}))
  BY <1>2 DEF ExistsBijection
<1>. QED BY <1>3, <1>4, FS_Bijection DEF MsgSize

(* The size of lists of which no two messages are of one request is the    *)
(* number of the units of their messages.                                  *)
LEMMA MembersIn ==
    ASSUME NEW mss, NEW m
    PROVE  m \in Members(mss) <=> \E h \in DOMAIN mss : \E i \in DOMAIN mss[h] : m = mss[h][i]
<1>. DEFINE U(h) == {mss[h][i] : i \in DOMAIN mss[h]}
<1>1. \A h : m \in U(h) <=> \E i \in DOMAIN mss[h] : m = mss[h][i]
  OBVIOUS
<1>2. Members(mss) = UNION {U(h) : h \in DOMAIN mss}
  BY DEF Members
<1>. HIDE DEF U
<1>3. m \in Members(mss) <=> \E h \in DOMAIN mss : m \in U(h)
  BY <1>2
<1>. QED BY <1>1, <1>3, Zenon

LEMMA PiecesIn ==
    ASSUME NEW mss, NEW x
    PROVE  x \in Pieces(mss) <=>
             \E h \in DOMAIN mss : \E i \in DOMAIN mss[h] : \E k \in 0..Len(mss[h][i].chain) : x = <<h, i, k>>
<1>. DEFINE U(h, i) == {<<h, i, k>> : k \in 0..Len(mss[h][i].chain)}
            V(h) == UNION {U(h, i) : i \in DOMAIN mss[h]}
<1>1. \A h, i : x \in U(h, i) <=> \E k \in 0..Len(mss[h][i].chain) : x = <<h, i, k>>
  OBVIOUS
<1>2. Pieces(mss) = UNION {V(h) : h \in DOMAIN mss}
  BY DEF Pieces
<1>. HIDE DEF U
<1>3. \A h : x \in V(h) <=> \E i \in DOMAIN mss[h] : x \in U(h, i)
  OBVIOUS
<1>. HIDE DEF V
<1>4. x \in Pieces(mss) <=> \E h \in DOMAIN mss : x \in V(h)
  BY <1>2
<1>. QED BY <1>1, <1>3, <1>4, Zenon

LEMMA TotalIs ==
    ASSUME NEW mss, OneId(mss), Members(mss) \in SUBSET Small
    PROVE  Total(mss) = Cardinality(Units(Members(mss)))
<1>. DEFINE P == Pieces(mss)
            U == Units(Members(mss))
            f == [x \in P |-> <<mss[x[1]][x[2]].id, x[3]>>]
<1>1. \A x \in P : \E h \in DOMAIN mss : \E i \in DOMAIN mss[h] : \E k \in 0..Len(mss[h][i].chain) : x = <<h, i, k>>
  BY PiecesIn
<1>2. \A h \in DOMAIN mss : \A i \in DOMAIN mss[h] : mss[h][i] \in Members(mss)
  BY MembersIn
<1>3. f \in [P -> U]
  <2>. SUFFICES ASSUME NEW x \in P PROVE <<mss[x[1]][x[2]].id, x[3]>> \in U
    OBVIOUS
  <2>1. PICK h \in DOMAIN mss : \E i \in DOMAIN mss[h] : \E k \in 0..Len(mss[h][i].chain) : x = <<h, i, k>>
    BY <1>1
  <2>2. PICK i \in DOMAIN mss[h] : \E k \in 0..Len(mss[h][i].chain) : x = <<h, i, k>>
    BY <2>1
  <2>3. PICK k \in 0..Len(mss[h][i].chain) : x = <<h, i, k>>
    BY <2>2
  <2>4. x[1] = h /\ x[2] = i /\ x[3] = k
    BY <2>3
  <2>5. <<mss[h][i].id, k>> \in U
    BY <1>2, UnitsIn
  <2>. QED BY <2>4, <2>5
<1>4. \A x, y \in P : f[x] = f[y] => x = y
  <2>. TAKE x, y \in P
  <2>. HAVE f[x] = f[y]
  <2>1. PICK h \in DOMAIN mss, g \in DOMAIN mss : \E i \in DOMAIN mss[h], j \in DOMAIN mss[g] :
             (\E k \in 0..Len(mss[h][i].chain) : x = <<h, i, k>>) /\ (\E k \in 0..Len(mss[g][j].chain) : y = <<g, j, k>>)
    BY <1>1
  <2>2. PICK i \in DOMAIN mss[h], j \in DOMAIN mss[g] :
             (\E k \in 0..Len(mss[h][i].chain) : x = <<h, i, k>>) /\ (\E k \in 0..Len(mss[g][j].chain) : y = <<g, j, k>>)
    BY <2>1
  <2>3. PICK k \in 0..Len(mss[h][i].chain) : x = <<h, i, k>>
    BY <2>2
  <2>4. PICK l \in 0..Len(mss[g][j].chain) : y = <<g, j, l>>
    BY <2>2
  <2>5. f[x] = <<mss[h][i].id, k>> /\ f[y] = <<mss[g][j].id, l>>
    BY <2>3, <2>4
  <2>6. mss[h][i].id = mss[g][j].id /\ k = l
    BY <2>5
  <2>7. h = g /\ i = j
    BY <2>6 DEF OneId
  <2>. QED BY <2>3, <2>4, <2>6, <2>7
<1>5. \A u \in U : \E x \in P : f[x] = u
  <2>. SUFFICES ASSUME NEW u \in U PROVE \E x \in P : f[x] = u
    OBVIOUS
  <2>1. PICK m \in Members(mss) : \E k \in 0..Len(m.chain) : u = <<m.id, k>>
    BY UnitsIn
  <2>2. PICK k \in 0..Len(m.chain) : u = <<m.id, k>>
    BY <2>1
  <2>3. PICK h \in DOMAIN mss : \E i \in DOMAIN mss[h] : m = mss[h][i]
    BY MembersIn
  <2>4. PICK i \in DOMAIN mss[h] : m = mss[h][i]
    BY <2>3
  <2>5. <<h, i, k>> \in P
    BY <2>4, PiecesIn
  <2>6. f[<<h, i, k>>] = u
    BY <2>2, <2>4, <2>5
  <2>. QED BY <2>5, <2>6
<1>. HIDE DEF f
<1>6. f \in Bijection(P, U)
  BY <1>3, <1>4, <1>5, Fun_IsBij
<1>7. ExistsBijection(P, U)
  BY <1>6 DEF ExistsBijection
<1>8. ExistsBijection(U, P)
  BY <1>7, Fun_ExistsBijSymmetric
<1>9. IsFiniteSet(U)
  BY UnitsBound
<1>. QED BY <1>8, <1>9, FS_Bijection DEF Total

(* Pick takes every place it is asked for.                                 *)
LEMMA PickAll ==
    ASSUME NEW S, NEW ms \in Seq(S), NEW places \in SUBSET DOMAIN ms
    PROVE  \A i \in places : \E k \in DOMAIN Pick(ms, places) : At(places, k) = i
<1>. DEFINE c == Cardinality(places)
            f == [k \in 1..c |-> At(places, k)]
<1>1. DOMAIN ms = 1..Len(ms) /\ Len(ms) \in Nat
  OBVIOUS
<1>2. IsFiniteSet(places) /\ c \in Nat
  <2>1. IsFiniteSet(1..Len(ms))
    BY <1>1, FS_Interval
  <2>. QED BY <1>1, <2>1, FS_Subset, FS_CardinalityType
<1>3. DOMAIN Pick(ms, places) = 1..c
  BY DEF Pick
<1>4. /\ \A k \in 1..c : At(places, k) \in places
      /\ \A k, l \in 1..c : At(places, k) = At(places, l) => k = l
  BY <1>3, PickIn
<1>. HIDE DEF c
<1>5. f \in [1..c -> places] /\ \A k, l \in 1..c : f[k] = f[l] => k = l
  BY <1>4
<1>. DEFINE D == 1..c
<1>6. f \in [D -> places] /\ \A k, l \in D : f[k] = f[l] => k = l
  BY <1>5
<1>7. Cardinality(D) = c /\ IsFiniteSet(D)
  BY <1>2, FS_Interval
<1>. HIDE DEF f, D
<1>8. f \in Injection(D, places)
  BY <1>6, Fun_IsInj
<1>9. f \in Surjection(D, places)
  BY <1>2, <1>7, <1>8, FS_Injection DEF c
<1>10. \A i \in places : \E k \in D : f[k] = i
  BY <1>9 DEF Surjection
<1>11. \A k \in D : f[k] = At(places, k)
  BY DEF f, D
<1>. QED BY <1>3, <1>10, <1>11, Zenon DEF D

(* Sizes can be counted, and add up when messages are told apart.          *)
LEMMA TotalBound ==
    ASSUME NEW mss, OneId(mss), Members(mss) \in SUBSET Small
    PROVE  Total(mss) \in Nat /\ Total(mss) <= MaxMsgid * (MaxEntries + 2)
  BY TotalIs, UnitsBound

LEMMA Divided ==
    ASSUME NEW mss, NEW new, NEW out, OneId(mss), OneId(new), OneId(out),
           Members(mss) \in SUBSET Small, Members(mss) = Members(new) \cup Members(out),
           \A m \in Members(new), n \in Members(out) : m.id # n.id
    PROVE  Total(mss) = Total(new) + Total(out)
<1>1. Members(new) \in SUBSET Small /\ Members(out) \in SUBSET Small
  OBVIOUS
<1>2. /\ Total(mss) = Cardinality(Units(Members(new) \cup Members(out)))
      /\ Total(new) = Cardinality(Units(Members(new)))
      /\ Total(out) = Cardinality(Units(Members(out)))
  BY <1>1, TotalIs
<1>. QED BY <1>1, <1>2, UnitsAdd

LEMMA OnlyOne ==
    ASSUME NEW mss, OneId(mss), NEW g \in DOMAIN mss, NEW h \in DOMAIN mss,
           NEW i \in DOMAIN mss[g], NEW j \in DOMAIN mss[h], mss[g][i].id = mss[h][j].id
    PROVE  g = h /\ i = j
  BY DEF OneId

(* new has the messages of ms at the places ps, each once, in some order.  *)
Taken(new, ms, ps) ==
    \E f \in [DOMAIN new -> ps] : /\ \A k, l \in DOMAIN new : f[k] = f[l] => k = l
                                  /\ \A i \in ps : \E k \in DOMAIN new : f[k] = i
                                  /\ \A k \in DOMAIN new : new[k] = ms[f[k]]

(* That is what Pick gives; it has those messages and no others.           *)
LEMMA PickTaken ==
    ASSUME NEW S, NEW ms \in Seq(S), NEW places \in SUBSET DOMAIN ms
    PROVE  Pick(ms, places) \in Seq(S) /\ Taken(Pick(ms, places), ms, places)
<1>. DEFINE new == Pick(ms, places)
            f == [k \in DOMAIN new |-> At(places, k)]
<1>1. /\ new \in Seq(S)
      /\ \A k \in DOMAIN new : At(places, k) \in places /\ new[k] = ms[At(places, k)]
      /\ \A k, l \in DOMAIN new : At(places, k) = At(places, l) => k = l
  BY PickIn
<1>2. \A i \in places : \E k \in DOMAIN new : At(places, k) = i
  BY PickAll
<1>. HIDE DEF new
<1>3. f \in [DOMAIN new -> places] /\ \A k \in DOMAIN new : f[k] = At(places, k)
  BY <1>1
<1>. HIDE DEF f
<1>4. /\ \A k, l \in DOMAIN new : f[k] = f[l] => k = l
      /\ \A i \in places : \E k \in DOMAIN new : f[k] = i
      /\ \A k \in DOMAIN new : new[k] = ms[f[k]]
  BY <1>1, <1>2, <1>3
<1>5. Taken(new, ms, places)
  BY <1>3, <1>4, Zenon DEF Taken
<1>. QED BY <1>1, <1>5 DEF new

LEMMA TakenIn ==
    ASSUME NEW new, NEW ms, NEW ps \in SUBSET DOMAIN ms, Taken(new, ms, ps)
    PROVE  /\ \A k \in DOMAIN new : \E i \in ps : new[k] = ms[i]
           /\ \A i \in ps : \E k \in DOMAIN new : new[k] = ms[i]
           /\ OneEach(ms) => OneEach(new)
<1>1. PICK f \in [DOMAIN new -> ps] : /\ \A k, l \in DOMAIN new : f[k] = f[l] => k = l
                                      /\ \A i \in ps : \E k \in DOMAIN new : f[k] = i
                                      /\ \A k \in DOMAIN new : new[k] = ms[f[k]]
  BY DEF Taken
<1>2. \A k \in DOMAIN new : f[k] \in ps /\ f[k] \in DOMAIN ms
  OBVIOUS
<1>3. ASSUME OneEach(ms), NEW k \in DOMAIN new, NEW l \in DOMAIN new, new[k].id = new[l].id
      PROVE  k = l
  <2>1. f[k] = f[l]
    BY <1>1, <1>2, <1>3 DEF OneEach
  <2>. QED BY <1>1, <2>1
<1>4. OneEach(ms) => OneEach(new)
  BY <1>3 DEF OneEach
<1>. QED BY <1>1, <1>2, <1>4

(* The same of every list of several. *)
EachTaken(new, mss, places) ==
    /\ DOMAIN new = DOMAIN mss
    /\ \A h \in DOMAIN mss : places[h] \in SUBSET DOMAIN mss[h] /\ Taken(new[h], mss[h], places[h])

(* What is taken out of the lists, and what is left, have together the     *)
(* size of the lists.                                                      *)
LEMMA PickedOut ==
    ASSUME NEW mss, OneId(mss), NEW places, NEW new, EachTaken(new, mss, places)
    PROVE  /\ OneId(new)
           /\ \A m : m \in Members(new) <=> \E h \in DOMAIN mss : \E i \in places[h] : m = mss[h][i]
<1>1. \A h \in DOMAIN mss : OneEach(mss[h])
  BY OnlyOne DEF OneEach
<1>2. \A h \in DOMAIN mss : /\ \A k \in DOMAIN new[h] : \E i \in places[h] : new[h][k] = mss[h][i]
                            /\ \A i \in places[h] : \E k \in DOMAIN new[h] : new[h][k] = mss[h][i]
                            /\ OneEach(new[h])
  BY <1>1, TakenIn DEF EachTaken
<1>3. \A h \in DOMAIN mss : \A k \in DOMAIN new[h] : \E i \in DOMAIN mss[h] : new[h][k] = mss[h][i]
  BY <1>2 DEF EachTaken
<1>5. OneId(new)
  <2>. SUFFICES ASSUME NEW g \in DOMAIN mss, NEW h \in DOMAIN mss, NEW i \in DOMAIN new[g], NEW j \in DOMAIN new[h],
                       new[g][i].id = new[h][j].id
                PROVE  g = h /\ i = j
    BY Zenon DEF OneId, EachTaken
  <2>1. PICK k \in DOMAIN mss[g] : new[g][i] = mss[g][k]
    BY <1>3, Zenon
  <2>2. PICK l \in DOMAIN mss[h] : new[h][j] = mss[h][l]
    BY <1>3, Zenon
  <2>3. mss[g][k].id = mss[h][l].id
    BY <2>1, <2>2, Zenon
  <2>4. g = h
    BY <2>3, OnlyOne
  <2>5. OneEach(new[g])
    BY <1>2, Zenon
  <2>. QED BY <2>4, <2>5 DEF OneEach
<1>6. \A m : \A h \in DOMAIN mss : \A k \in DOMAIN new[h] : m = new[h][k] => \E i \in places[h] : m = mss[h][i]
  BY <1>2
<1>7. \A m : \A h \in DOMAIN mss : \A i \in places[h] : m = mss[h][i] => \E k \in DOMAIN new[h] : m = new[h][k]
  BY <1>2
<1>8. \A m : m \in Members(new) <=> \E h \in DOMAIN mss : \E i \in places[h] : m = mss[h][i]
  <2>. TAKE m
  <2>1. m \in Members(new) <=> \E h \in DOMAIN mss : \E k \in DOMAIN new[h] : m = new[h][k]
    BY MembersIn DEF EachTaken
  <2>. QED BY <1>6, <1>7, <2>1, Zenon
<1>. QED BY <1>5, <1>8, Zenon

(* Every place of every list is in one of two sets of places.              *)
Apart(mss, ins, outs) == \A h \in DOMAIN mss : \A i \in DOMAIN mss[h] : i \in ins[h] <=> i \notin outs[h]

LEMMA TakenOut ==
    ASSUME NEW mss, SmallLists(mss),
           NEW ins, NEW outs, NEW new, NEW out, EachTaken(new, mss, ins), EachTaken(out, mss, outs),
           Apart(mss, ins, outs)
    PROVE  /\ OneId(new)
           /\ Members(new) \in SUBSET Members(mss) /\ Members(mss) \in SUBSET Small
           /\ Total(mss) = Total(new) + Total(out)
           /\ Total(out) \in Nat
<1>. USE DEF SmallLists, Apart
<1>0. \A h \in DOMAIN mss : ins[h] \in SUBSET DOMAIN mss[h] /\ outs[h] \in SUBSET DOMAIN mss[h]
  BY DEF EachTaken
<1>1. /\ OneId(new)
      /\ \A m : m \in Members(new) <=> \E h \in DOMAIN mss : \E i \in ins[h] : m = mss[h][i]
  BY PickedOut
<1>2. /\ OneId(out)
      /\ \A m : m \in Members(out) <=> \E h \in DOMAIN mss : \E i \in outs[h] : m = mss[h][i]
  BY PickedOut
<1>3. \A m : m \in Members(mss) <=> \E h \in DOMAIN mss : \E i \in DOMAIN mss[h] : m = mss[h][i]
  BY MembersIn
<1>4. Members(mss) = Members(new) \cup Members(out)
  <2>1. \A m : m \in Members(mss) <=> m \in Members(new) \/ m \in Members(out)
    <3>. TAKE m
    <3>1. (\E h \in DOMAIN mss : \E i \in DOMAIN mss[h] : m = mss[h][i])
            <=> (\E h \in DOMAIN mss : \E i \in ins[h] : m = mss[h][i]) \/ (\E h \in DOMAIN mss : \E i \in outs[h] : m = mss[h][i])
      BY <1>0
    <3>2. m \in Members(new) <=> \E h \in DOMAIN mss : \E i \in ins[h] : m = mss[h][i]
      BY <1>1, Zenon
    <3>3. m \in Members(out) <=> \E h \in DOMAIN mss : \E i \in outs[h] : m = mss[h][i]
      BY <1>2
    <3>4. m \in Members(mss) <=> \E h \in DOMAIN mss : \E i \in DOMAIN mss[h] : m = mss[h][i]
      BY <1>3, Zenon
    <3>. QED BY <3>1, <3>2, <3>3, <3>4, Zenon
  <2>. QED BY <2>1
<1>5. \A m \in Members(new), n \in Members(out) : m.id # n.id
  <2>. SUFFICES ASSUME NEW m \in Members(new), NEW n \in Members(out), m.id = n.id PROVE FALSE
    OBVIOUS
  <2>1. PICK h \in DOMAIN mss : \E i \in ins[h] : m = mss[h][i]
    BY <1>1
  <2>2. PICK i \in ins[h] : m = mss[h][i]
    BY <2>1
  <2>3. PICK g \in DOMAIN mss : \E j \in outs[g] : n = mss[g][j]
    BY <1>2
  <2>4. PICK j \in outs[g] : n = mss[g][j]
    BY <2>3
  <2>5. i \in DOMAIN mss[h] /\ j \in DOMAIN mss[g]
    BY <1>0
  <2>6. h = g /\ i = j
    BY <2>2, <2>4, <2>5 DEF OneId
  <2>. QED BY <2>5, <2>6
<1>6. Members(mss) \in SUBSET Small
  <2>1. \A h \in DOMAIN mss : \A i \in DOMAIN mss[h] : mss[h][i] \in Small
    OBVIOUS
  <2>. QED BY <1>3, <2>1
<1>7. Total(mss) = Total(new) + Total(out)
  BY <1>1, <1>2, <1>4, <1>5, <1>6, Divided
<1>8. Members(new) \in SUBSET Members(mss) /\ Members(out) \in SUBSET Small
  BY <1>4, <1>6
<1>9. Total(out) \in Nat
  BY <1>2, <1>8, TotalBound
<1>. QED BY <1>1, <1>6, <1>7, <1>8, <1>9

(* Pieces of a list: the same messages in another list, the rest of a      *)
(* list, two pieces one behind the other.                                  *)
LEMMA TakenSame ==
    ASSUME NEW new, NEW ms, NEW other, NEW ps, Taken(new, ms, ps), \A i \in ps : other[i] = ms[i]
    PROVE  Taken(new, other, ps)
<1>1. PICK f \in [DOMAIN new -> ps] : /\ \A k, l \in DOMAIN new : f[k] = f[l] => k = l
                                      /\ \A i \in ps : \E k \in DOMAIN new : f[k] = i
                                      /\ \A k \in DOMAIN new : new[k] = ms[f[k]]
  BY DEF Taken
<1>2. \A k \in DOMAIN new : new[k] = other[f[k]]
  BY <1>1
<1>3. /\ \A k, l \in DOMAIN new : f[k] = f[l] => k = l
      /\ \A i \in ps : \E k \in DOMAIN new : f[k] = i
  BY <1>1
<1>. QED BY <1>2, <1>3, Zenon DEF Taken

LEMMA RestTaken ==
    ASSUME NEW S, NEW ms \in Seq(S), NEW n \in 0..Len(ms)
    PROVE  /\ SubSeq(ms, n + 1, Len(ms)) \in Seq(S)
           /\ Taken(SubSeq(ms, n + 1, Len(ms)), ms, n + 1..Len(ms))
<1>. DEFINE new == SubSeq(ms, n + 1, Len(ms))
            f == [k \in DOMAIN new |-> n + k]
            ps == n + 1..Len(ms)
<1>1. Len(ms) \in Nat
  OBVIOUS
<1>2. new \in Seq(S) /\ DOMAIN new = 1..Len(ms) - n /\ \A k \in 1..Len(ms) - n : new[k] = ms[n + k]
  BY <1>1
<1>. HIDE DEF new
<1>3. f \in [DOMAIN new -> ps] /\ \A k \in DOMAIN new : f[k] = n + k
  BY <1>1, <1>2
<1>. HIDE DEF f
<1>4. \A k, l \in DOMAIN new : f[k] = f[l] => k = l
  BY <1>1, <1>2, <1>3
<1>5. \A i \in ps : \E k \in DOMAIN new : f[k] = i
  <2>. TAKE i \in ps
  <2>1. i - n \in DOMAIN new /\ n + (i - n) = i
    BY <1>1, <1>2
  <2>. QED BY <1>3, <2>1
<1>6. \A k \in DOMAIN new : new[k] = ms[f[k]]
  BY <1>2, <1>3
<1>. HIDE DEF ps
<1>7. Taken(new, ms, ps)
  BY <1>3, <1>4, <1>5, <1>6 DEF Taken
<1>. QED BY <1>2, <1>7 DEF new, ps

LEMMA BothTaken ==
    ASSUME NEW S, NEW x \in Seq(S), NEW y \in Seq(S), NEW ms, NEW a, NEW b,
           Taken(x, ms, a), Taken(y, ms, b), a \cap b = {}
    PROVE  x \o y \in Seq(S) /\ Taken(x \o y, ms, a \cup b)
<1>0. \E f \in [DOMAIN y -> b] : /\ \A k, l \in DOMAIN y : f[k] = f[l] => k = l
                                 /\ \A i \in b : \E k \in DOMAIN y : f[k] = i
                                 /\ \A k \in DOMAIN y : y[k] = ms[f[k]]
  BY DEF Taken
<1>1. PICK f \in [DOMAIN x -> a] : /\ \A k, l \in DOMAIN x : f[k] = f[l] => k = l
                                   /\ \A i \in a : \E k \in DOMAIN x : f[k] = i
                                   /\ \A k \in DOMAIN x : x[k] = ms[f[k]]
  BY DEF Taken
<1>2. PICK g \in [DOMAIN y -> b] : /\ \A k, l \in DOMAIN y : g[k] = g[l] => k = l
                                   /\ \A i \in b : \E k \in DOMAIN y : g[k] = i
                                   /\ \A k \in DOMAIN y : y[k] = ms[g[k]]
  BY <1>0
<1>. DEFINE xy == x \o y
            n == Len(x)
            h == [k \in DOMAIN xy |-> IF k <= n THEN f[k] ELSE g[k - n]]
<1>3. /\ n \in Nat /\ Len(y) \in Nat /\ DOMAIN x = 1..n /\ DOMAIN y = 1..Len(y)
      /\ xy \in Seq(S) /\ DOMAIN xy = 1..n + Len(y)
      /\ \A k \in 1..n + Len(y) : xy[k] = IF k <= n THEN x[k] ELSE y[k - n]
  <2>1. /\ x \o y \in Seq(S) /\ Len(x \o y) = Len(x) + Len(y)
        /\ \A k \in 1..Len(x) + Len(y) : (x \o y)[k] = IF k <= Len(x) THEN x[k] ELSE y[k - Len(x)]
    BY ConcatProperties
  <2>. QED BY <2>1
<1>. HIDE DEF xy, n
<1>4. \A k \in DOMAIN xy : /\ k <= n => k \in DOMAIN x /\ h[k] = f[k] /\ xy[k] = x[k]
                           /\ ~(k <= n) => k - n \in DOMAIN y /\ h[k] = g[k - n] /\ xy[k] = y[k - n]
  BY <1>3
<1>5. h \in [DOMAIN xy -> a \cup b]
  <2>1. \A k \in DOMAIN xy : h[k] \in a \cup b
    BY <1>4
  <2>. QED BY <2>1
<1>. HIDE DEF h
<1>6. \A k, l \in DOMAIN xy : h[k] = h[l] => k = l
  <2>. TAKE k, l \in DOMAIN xy
  <2>. HAVE h[k] = h[l]
  <2>1. CASE k <= n /\ l <= n
    BY <1>1, <1>4, <2>1
  <2>2. CASE ~(k <= n) /\ ~(l <= n)
    <3>1. k - n = l - n
      BY <1>2, <1>4, <2>2
    <3>. QED BY <1>3, <3>1
  <2>3. CASE k <= n /\ ~(l <= n)
    <3>1. h[k] \in a /\ h[l] \in b
      BY <1>4, <2>3
    <3>. QED BY <3>1
  <2>4. CASE ~(k <= n) /\ l <= n
    <3>1. h[k] \in b /\ h[l] \in a
      BY <1>4, <2>4
    <3>. QED BY <3>1
  <2>. QED BY <2>1, <2>2, <2>3, <2>4
<1>7. \A i \in a \cup b : \E k \in DOMAIN xy : h[k] = i
  <2>. TAKE i \in a \cup b
  <2>1. CASE i \in a
    <3>1. PICK k \in DOMAIN x : f[k] = i
      BY <1>1, <2>1
    <3>2. k \in DOMAIN xy /\ k <= n
      BY <1>3
    <3>. QED BY <1>4, <3>1, <3>2
  <2>2. CASE i \in b
    <3>1. PICK k \in DOMAIN y : g[k] = i
      BY <1>2, <2>2
    <3>2. n + k \in DOMAIN xy /\ ~(n + k <= n) /\ (n + k) - n = k
      BY <1>3
    <3>3. h[n + k] = g[k]
      BY <1>4, <3>2
    <3>. QED BY <3>1, <3>2, <3>3
  <2>. QED BY <2>1, <2>2
<1>8. \A k \in DOMAIN xy : xy[k] = ms[h[k]]
  BY <1>1, <1>2, <1>4
<1>9. Taken(xy, ms, a \cup b)
  BY <1>5, <1>6, <1>7, <1>8, Zenon DEF Taken
<1>. QED BY <1>3, <1>9 DEF xy

(* The walk of ldap_check_cache: what it keeps and what it drops are       *)
(* together the bucket.                                                    *)
LEMMA WalkTaken ==
    ASSUME NEW S, NEW bucket \in Seq(S), NEW req
    PROVE  LET w == Walked(bucket, req)
           IN  /\ w.kept \in Seq(S)
               /\ \E ins, outs \in SUBSET DOMAIN bucket :
                     /\ \A i \in DOMAIN bucket : i \in ins <=> i \notin outs
                     /\ Taken(w.kept, bucket, ins) /\ Taken(w.dropped, bucket, outs)
<1>. DEFINE n == IF Found(bucket, req) = 0 THEN Len(bucket) ELSE Found(bucket, req)
            a == SubSeq(bucket, 1, n)
            z == SubSeq(bucket, n + 1, Len(bucket))
            stay == {i \in DOMAIN a : ~Expired(a[i])}
            go   == {i \in DOMAIN a : Expired(a[i])}
            rest == n + 1..Len(bucket)
<1>1. n \in 0..Len(bucket) /\ Len(bucket) \in Nat /\ DOMAIN bucket = 1..Len(bucket)
  BY FoundIn
<1>2. Walked(bucket, req) = [kept |-> Pick(a, stay) \o z, dropped |-> Pick(a, go)]
  BY Zenon DEF Walked, Only
<1>. HIDE DEF n
<1>3. a \in Seq(S) /\ DOMAIN a = 1..n /\ \A k \in 1..n : a[k] = bucket[k]
  BY <1>1
<1>. HIDE DEF a
<1>4. stay \in SUBSET 1..n /\ go \in SUBSET 1..n /\ (\A i \in 1..n : i \in stay <=> i \notin go)
  BY <1>3
<1>. HIDE DEF stay, go
<1>5. Pick(a, stay) \in Seq(S) /\ Taken(Pick(a, stay), a, stay) /\ Taken(Pick(a, go), a, go)
  BY <1>3, <1>4, PickTaken
<1>6. Taken(Pick(a, stay), bucket, stay) /\ Taken(Pick(a, go), bucket, go)
  <2>1. (\A i \in stay : bucket[i] = a[i]) /\ (\A i \in go : bucket[i] = a[i])
    BY <1>3, <1>4
  <2>. QED BY <1>5, <2>1, TakenSame
<1>7. z \in Seq(S) /\ Taken(z, bucket, rest)
  BY <1>1, RestTaken
<1>8. stay \cap rest = {}
  BY <1>1, <1>4
<1>. HIDE DEF z
<1>9. Pick(a, stay) \o z \in Seq(S) /\ Taken(Pick(a, stay) \o z, bucket, stay \cup rest)
  <2>. HIDE DEF rest
  <2>. QED BY <1>5, <1>6, <1>7, <1>8, BothTaken
<1>10. /\ stay \cup rest \in SUBSET DOMAIN bucket /\ go \in SUBSET DOMAIN bucket
       /\ \A i \in DOMAIN bucket : i \in stay \cup rest <=> i \notin go
  <2>1. \A i \in 1..Len(bucket) : i \in rest <=> i \notin 1..n
    BY <1>1
  <2>2. rest \in SUBSET (1..Len(bucket)) /\ 1..n \in SUBSET (1..Len(bucket))
    BY <1>1
  <2>. HIDE DEF rest
  <2>3. \A i \in 1..Len(bucket) : i \in stay \cup rest <=> i \notin go
    BY <1>4, <2>1
  <2>. QED BY <1>1, <1>4, <2>2, <2>3
<1>. HIDE DEF rest
<1>. DEFINE ins == stay \cup rest
<1>11. /\ ins \in SUBSET DOMAIN bucket /\ go \in SUBSET DOMAIN bucket
       /\ \A i \in DOMAIN bucket : i \in ins <=> i \notin go
       /\ Taken(Walked(bucket, req).kept, bucket, ins) /\ Taken(Walked(bucket, req).dropped, bucket, go)
  BY <1>2, <1>6, <1>9, <1>10
<1>. HIDE DEF ins
<1>12. \E i, o \in SUBSET DOMAIN bucket :
                     /\ \A k \in DOMAIN bucket : k \in i <=> k \notin o
                     /\ Taken(Walked(bucket, req).kept, bucket, i) /\ Taken(Walked(bucket, req).dropped, bucket, o)
  BY <1>11, Zenon
<1>13. Walked(bucket, req).kept \in Seq(S)
  BY <1>2, <1>9
<1>. QED BY <1>12, <1>13, Zenon

(* The lists have small messages; a list is taken out of itself whole.     *)
LEMMA MembersSmall ==
    ASSUME NEW mss, \A h \in DOMAIN mss : mss[h] \in Seq(Small)
    PROVE  Members(mss) \in SUBSET Small
<1>1. \A h \in DOMAIN mss : \A i \in DOMAIN mss[h] : mss[h][i] \in Small
  OBVIOUS
<1>. QED BY <1>1, MembersIn

LEMMA SelfTaken == ASSUME NEW ms PROVE Taken(ms, ms, DOMAIN ms)
<1>. DEFINE f == [k \in DOMAIN ms |-> k]
<1>1. f \in [DOMAIN ms -> DOMAIN ms] /\ \A k \in DOMAIN ms : f[k] = k
  OBVIOUS
<1>. HIDE DEF f
<1>2. /\ \A k, l \in DOMAIN ms : f[k] = f[l] => k = l
      /\ \A i \in DOMAIN ms : \E k \in DOMAIN ms : f[k] = i
      /\ \A k \in DOMAIN ms : ms[k] = ms[f[k]]
  BY <1>1
<1>. QED BY <1>1, <1>2, Zenon DEF Taken

(* The walk drops messages of one bucket, and their size is what goes.     *)
LEMMA WalkedOut ==
    ASSUME NEW mss, \A h \in DOMAIN mss : mss[h] \in Seq(Small), OneId(mss),
           NEW b \in DOMAIN mss, NEW req, NEW new, DOMAIN new = DOMAIN mss,
           \A h \in DOMAIN mss : new[h] = IF h = b THEN Walked(mss[b], req).kept ELSE mss[h]
    PROVE  /\ \A h \in DOMAIN mss : new[h] \in Seq(Small)
           /\ OneId(new) /\ Members(new) \in SUBSET Members(mss)
           /\ Total(mss) = Total(new) + Sizes(Walked(mss[b], req).dropped)
           /\ Sizes(Walked(mss[b], req).dropped) \in Nat
<1>. DEFINE kept == Walked(mss[b], req).kept
            dropped == Walked(mss[b], req).dropped
<1>1. kept \in Seq(Small) /\ \E ins, outs \in SUBSET DOMAIN mss[b] :
                     /\ \A i \in DOMAIN mss[b] : i \in ins <=> i \notin outs
                     /\ Taken(kept, mss[b], ins) /\ Taken(dropped, mss[b], outs)
  BY WalkTaken
<1>. HIDE DEF kept, dropped
<1>2. PICK ins \in SUBSET DOMAIN mss[b], outs \in SUBSET DOMAIN mss[b] :
                     /\ \A i \in DOMAIN mss[b] : i \in ins <=> i \notin outs
                     /\ Taken(kept, mss[b], ins) /\ Taken(dropped, mss[b], outs)
  BY <1>1
<1>. DEFINE places == [h \in DOMAIN mss |-> IF h = b THEN ins ELSE DOMAIN mss[h]]
            one == <<mss[b]>>
            out == <<dropped>>
<1>3. \A h \in DOMAIN mss : new[h] = IF h = b THEN kept ELSE mss[h]
  BY DEF kept
<1>4. EachTaken(new, mss, places)
  <2>1. \A h \in DOMAIN mss : places[h] \in SUBSET DOMAIN mss[h] /\ Taken(new[h], mss[h], places[h])
    <3>. TAKE h \in DOMAIN mss
    <3>1. CASE h = b
      BY <1>2, <1>3, <3>1
    <3>2. CASE h # b
      <4>1. places[h] = DOMAIN mss[h] /\ new[h] = mss[h]
        BY <1>3, <3>2
      <4>. QED BY <4>1, SelfTaken
    <3>. QED BY <3>1, <3>2
  <2>. HIDE DEF places
  <2>. QED BY <2>1 DEF EachTaken
<1>5. EachTaken(out, one, <<outs>>)
  <2>1. DOMAIN out = {1} /\ DOMAIN one = {1} /\ out[1] = dropped /\ one[1] = mss[b] /\ <<outs>>[1] = outs
    OBVIOUS
  <2>. HIDE DEF out, one
  <2>. QED BY <1>2, <2>1 DEF EachTaken
<1>6. OneId(one)
  <2>1. DOMAIN one = {1} /\ one[1] = mss[b]
    OBVIOUS
  <2>2. \A i, j \in DOMAIN mss[b] : mss[b][i].id = mss[b][j].id => i = j
    BY OnlyOne
  <2>. HIDE DEF one
  <2>. QED BY <2>1, <2>2 DEF OneId
<1>7. /\ OneId(new)
      /\ \A m : m \in Members(new) <=> \E h \in DOMAIN mss : \E i \in places[h] : m = mss[h][i]
  <2>. HIDE DEF places
  <2>. QED BY <1>4, PickedOut
<1>8. /\ OneId(out)
      /\ \A m : m \in Members(out) <=> \E i \in outs : m = mss[b][i]
  <2>1. DOMAIN one = {1} /\ one[1] = mss[b] /\ <<outs>>[1] = outs
    OBVIOUS
  <2>2. /\ OneId(out)
        /\ \A m : m \in Members(out) <=> \E h \in DOMAIN one : \E i \in <<outs>>[h] : m = one[h][i]
    <3>. HIDE DEF out, one
    <3>. QED BY <1>5, <1>6, PickedOut
  <2>. HIDE DEF out, one
  <2>. QED BY <2>1, <2>2
<1>9. /\ places[b] = ins
      /\ \A h \in DOMAIN mss : h # b => places[h] = DOMAIN mss[h]
  OBVIOUS
<1>. HIDE DEF places, one, out
<1>10. Members(mss) = Members(new) \cup Members(out)
  <2>1. \A m \in Members(mss) : m \in Members(new) \/ m \in Members(out)
    <3>. TAKE m \in Members(mss)
    <3>1. PICK h \in DOMAIN mss : \E i \in DOMAIN mss[h] : m = mss[h][i]
      BY MembersIn
    <3>2. PICK i \in DOMAIN mss[h] : m = mss[h][i]
      BY <3>1
    <3>3. CASE h = b /\ i \in outs
      BY <1>8, <3>2, <3>3
    <3>4. CASE ~(h = b /\ i \in outs)
      <4>1. i \in places[h]
        BY <1>2, <1>9, <3>4
      <4>. QED BY <1>7, <3>2, <4>1
    <3>. QED BY <3>3, <3>4
  <2>2. \A m \in Members(new) : m \in Members(mss)
    <3>1. \A h \in DOMAIN mss : \A i \in places[h] : i \in DOMAIN mss[h]
      BY <1>2, <1>9
    <3>. QED BY <1>7, <3>1, MembersIn
  <2>3. \A m \in Members(out) : m \in Members(mss)
    BY <1>8, MembersIn
  <2>. QED BY <2>1, <2>2, <2>3
<1>11. \A m \in Members(new), n \in Members(out) : m.id # n.id
  <2>. SUFFICES ASSUME NEW m \in Members(new), NEW n \in Members(out), m.id = n.id PROVE FALSE
    OBVIOUS
  <2>1. PICK h \in DOMAIN mss : \E i \in places[h] : m = mss[h][i]
    BY <1>7
  <2>2. PICK i \in places[h] : m = mss[h][i]
    BY <2>1
  <2>3. PICK j \in outs : n = mss[b][j]
    BY <1>8
  <2>4. i \in DOMAIN mss[h] /\ j \in DOMAIN mss[b]
    BY <1>2, <1>9
  <2>5. h = b /\ i = j
    BY <2>2, <2>3, <2>4, OnlyOne
  <2>. QED BY <1>2, <1>9, <2>4, <2>5
<1>12. Members(mss) \in SUBSET Small
  BY MembersSmall
<1>13. Total(mss) = Total(new) + Total(out)
  BY <1>7, <1>8, <1>10, <1>11, <1>12, Divided
<1>14. Total(out) \in Nat
  BY <1>8, <1>10, <1>12, TotalBound
<1>15. Total(out) = Sizes(dropped)
  BY DEF Sizes, out
<1>16. \A h \in DOMAIN mss : new[h] \in Seq(Small)
  BY <1>1, <1>3
<1>. QED BY <1>7, <1>10, <1>13, <1>14, <1>15, <1>16 DEF dropped

(* A message is put at the head of one of the lists. *)
Headed(new, mss, b, m) ==
    /\ DOMAIN new = DOMAIN mss
    /\ \A h \in DOMAIN mss : new[h] = IF h = b THEN <<m>> \o mss[h] ELSE mss[h]

LEMMA Prepended ==
    ASSUME NEW mss, SmallLists(mss), NEW b \in DOMAIN mss,
           NEW m \in Small, \A n \in Members(mss) : n.id # m.id, NEW new, Headed(new, mss, b, m)
    PROVE  /\ SmallLists(new) /\ Members(new) = Members(mss) \cup {m}
           /\ Total(new) = Total(mss) + MsgSize(m)
<1>. USE DEF SmallLists, Headed
<1>1. \A h \in DOMAIN mss : Len(mss[h]) \in Nat /\ DOMAIN mss[h] = 1..Len(mss[h])
  OBVIOUS
<1>2. /\ <<m>> \o mss[b] \in Seq(Small) /\ DOMAIN (<<m>> \o mss[b]) = 1..1 + Len(mss[b])
      /\ \A k \in 1..1 + Len(mss[b]) : (<<m>> \o mss[b])[k] = IF k = 1 THEN m ELSE mss[b][k - 1]
  <2>1. mss[b] \in Seq(Small)
    OBVIOUS
  <2>. QED BY <2>1
<1>3. /\ new[b] \in Seq(Small) /\ DOMAIN new[b] = 1..1 + Len(mss[b])
      /\ \A k \in 1..1 + Len(mss[b]) : new[b][k] = IF k = 1 THEN m ELSE mss[b][k - 1]
  BY <1>2
<1>4. \A h \in DOMAIN mss : h # b => new[h] = mss[h]
  OBVIOUS
<1>5. \A h \in DOMAIN mss : new[h] \in Seq(Small)
  BY <1>3, <1>4
<1>. DEFINE p(h, k) == IF h = b THEN k - 1 ELSE k
<1>6. \A h \in DOMAIN mss : \A k \in DOMAIN new[h] :
         \/ h = b /\ k = 1 /\ new[h][k] = m
         \/ ~(h = b /\ k = 1) /\ p(h, k) \in DOMAIN mss[h] /\ new[h][k] = mss[h][p(h, k)]
  <2>. TAKE h \in DOMAIN mss
  <2>. TAKE k \in DOMAIN new[h]
  <2>1. CASE h = b
    <3>1. k \in 1..1 + Len(mss[b]) /\ (k # 1 => k - 1 \in DOMAIN mss[b])
      BY <1>1, <1>3, <2>1
    <3>. QED BY <1>3, <2>1, <3>1
  <2>2. CASE h # b
    BY <1>4, <2>2
  <2>. QED BY <2>1, <2>2
<1>7. \A h \in DOMAIN mss : \A i \in DOMAIN mss[h] : mss[h][i] \in Members(mss)
  BY MembersIn
<1>8. OneId(new)
  <2>. SUFFICES ASSUME NEW g \in DOMAIN mss, NEW h \in DOMAIN mss, NEW i \in DOMAIN new[g], NEW j \in DOMAIN new[h],
                       new[g][i].id = new[h][j].id
                PROVE  g = h /\ i = j
    BY Zenon DEF OneId
  <2>1. CASE g = b /\ i = 1
    BY <1>6, <1>7, <2>1
  <2>2. CASE h = b /\ j = 1
    BY <1>6, <1>7, <2>2
  <2>3. CASE ~(g = b /\ i = 1) /\ ~(h = b /\ j = 1)
    <3>1. /\ p(g, i) \in DOMAIN mss[g] /\ new[g][i] = mss[g][p(g, i)]
          /\ p(h, j) \in DOMAIN mss[h] /\ new[h][j] = mss[h][p(h, j)]
      BY <1>6, <2>3
    <3>2. g = h /\ p(g, i) = p(h, j)
      <4>. HIDE DEF p
      <4>. QED BY <3>1, OnlyOne
    <3>3. i \in Int /\ j \in Int
      <4>1. new[g] \in Seq(Small) /\ new[h] \in Seq(Small)
        BY <1>5
      <4>2. DOMAIN new[g] \subseteq Int /\ DOMAIN new[h] \subseteq Int
        BY <4>1
      <4>. QED BY <4>2
    <3>. QED BY <3>2, <3>3
  <2>. QED BY <2>1, <2>2, <2>3
<1>9. Members(new) = Members(mss) \cup {m}
  <2>1. \A n \in Members(new) : n \in Members(mss) \/ n = m
    <3>. TAKE n \in Members(new)
    <3>1. PICK h \in DOMAIN mss : \E k \in DOMAIN new[h] : n = new[h][k]
      BY MembersIn
    <3>2. PICK k \in DOMAIN new[h] : n = new[h][k]
      BY <3>1
    <3>. HIDE DEF p
    <3>. QED BY <1>6, <1>7, <3>2
  <2>2. m \in Members(new)
    <3>1. 1 \in DOMAIN new[b] /\ new[b][1] = m
      BY <1>1, <1>3
    <3>. QED BY <3>1, MembersIn
  <2>3. \A n \in Members(mss) : n \in Members(new)
    <3>. TAKE n \in Members(mss)
    <3>1. PICK h \in DOMAIN mss : \E k \in DOMAIN mss[h] : n = mss[h][k]
      BY MembersIn
    <3>2. PICK k \in DOMAIN mss[h] : n = mss[h][k]
      BY <3>1
    <3>3. \E l \in DOMAIN new[h] : n = new[h][l]
      <4>1. CASE h = b
        <5>1. k + 1 \in 1..1 + Len(mss[b]) /\ k + 1 # 1 /\ (k + 1) - 1 = k
          BY <1>1, <4>1
        <5>. QED BY <1>3, <3>2, <4>1, <5>1
      <4>2. CASE h # b
        BY <1>4, <3>2, <4>2
      <4>. QED BY <4>1, <4>2
    <3>. QED BY <3>3, MembersIn
  <2>. QED BY <2>1, <2>2, <2>3
<1>10. Members(mss) \in SUBSET Small
  BY MembersSmall
<1>11. Members(mss) \cup {m} \in SUBSET Small /\ {m} \in SUBSET Small
  BY <1>10
<1>12. /\ Total(new) = Cardinality(Units(Members(mss) \cup {m}))
       /\ Total(mss) = Cardinality(Units(Members(mss)))
  BY <1>8, <1>9, <1>10, <1>11, TotalIs
<1>13. Cardinality(Units(Members(mss) \cup {m})) = Cardinality(Units(Members(mss))) + Cardinality(Units({m}))
  BY <1>10, <1>11, UnitsAdd
<1>14. Cardinality(Units({m})) = MsgSize(m)
  BY UnitsOne DEF Small, Waiting, Kept
<1>. QED BY <1>5, <1>8, <1>9, <1>12, <1>13, <1>14

(* Empty lists have no size; and lists have the same size when their       *)
(* messages have the same ids and chains.                                  *)
LEMMA NoneLeft ==
    ASSUME NEW mss, \A h \in DOMAIN mss : mss[h] = <<>>
    PROVE  OneId(mss) /\ Members(mss) = {} /\ Total(mss) = 0
<1>1. \A h \in DOMAIN mss : DOMAIN mss[h] = {}
  OBVIOUS
<1>2. OneId(mss)
  BY <1>1 DEF OneId
<1>3. Members(mss) = {}
  BY <1>1, MembersIn
<1>4. Pieces(mss) = {}
  BY <1>1, PiecesIn
<1>. QED BY <1>2, <1>3, <1>4, FS_EmptySet DEF Total

LEMMA SameSize ==
    ASSUME NEW mss, NEW new, DOMAIN new = DOMAIN mss,
           \A h \in DOMAIN mss : /\ DOMAIN new[h] = DOMAIN mss[h]
                                 /\ \A i \in DOMAIN mss[h] : /\ new[h][i].id = mss[h][i].id
                                                              /\ new[h][i].chain = mss[h][i].chain
    PROVE  Total(new) = Total(mss) /\ (OneId(mss) => OneId(new))
<1>1. OneId(mss) => OneId(new)
  BY DEF OneId
<1>2. \A x : x \in Pieces(new) <=> x \in Pieces(mss)
  BY PiecesIn
<1>3. Pieces(new) = Pieces(mss)
  BY <1>2
<1>. QED BY <1>1, <1>3 DEF Total

-----------------------------------------------------------------------------
(* Numbers modulo the width of lc_memused: whether one reduces before or   *)
(* after adding is the same.                                               *)
LEMMA DivMod ==
    ASSUME NEW x \in Int, NEW w \in Nat \ {0}
    PROVE  x % w \in 0..w - 1 /\ x \div w \in Int /\ x = w * (x \div w) + (x % w)
  BY SMT

LEMMA Multiple ==
    ASSUME NEW w \in Nat \ {0}, NEW k \in Int, k # 0
    PROVE  w * k \in Int /\ (w * k >= w \/ w * k <= -w)
  BY SMT

LEMMA OneRest ==
    ASSUME NEW w \in Nat \ {0}, NEW p \in Int, NEW q \in Int, NEW r \in 0..w - 1, NEW s \in 0..w - 1,
           w * p + r = w * q + s
    PROVE  r = s
<1>1. w * (p - q) = s - r
  BY SMT
<1>2. CASE p - q # 0
  <2>1. w * (p - q) >= w \/ w * (p - q) <= -w
    BY <1>2, Multiple
  <2>. QED BY <1>1, <2>1
<1>3. CASE p - q = 0
  BY <1>3
<1>. QED BY <1>2, <1>3

LEMMA ModAdd ==
    ASSUME NEW x \in Int, NEW n \in Int, NEW w \in Nat \ {0}
    PROVE  ((x % w) + n) % w = (x + n) % w
<1>. DEFINE a == x % w
            b == (a + n) % w
            c == (x + n) % w
<1>1. PICK p \in Int : x = w * p + a
  BY DivMod
<1>2. a \in 0..w - 1
  BY DivMod
<1>3. PICK q \in Int : a + n = w * q + b
  <2>1. a + n \in Int
    BY <1>2
  <2>. HIDE DEF a
  <2>. QED BY <2>1, DivMod
<1>4. PICK r \in Int : x + n = w * r + c
  <2>1. x + n \in Int
    OBVIOUS
  <2>. QED BY <2>1, DivMod
<1>5. b \in 0..w - 1 /\ c \in 0..w - 1
  BY <1>2, DivMod
<1>. HIDE DEF a, b, c
<1>6. w * (p + q) + b = w * r + c
  <2>1. w * p \in Int /\ w * q \in Int /\ w * (p + q) = w * p + w * q
    BY SMT
  <2>. QED BY <1>1, <1>2, <1>3, <1>4, <1>5, <2>1
<1>7. b = c
  BY <1>5, <1>6, OneRest
<1>. QED BY <1>7 DEF a, b, c

LEMMA ModSmall ==
    ASSUME NEW w \in Nat \ {0}, NEW x \in 0..w - 1
    PROVE  x % w = x
<1>1. x = w * (x \div w) + (x % w) /\ x % w \in 0..w - 1 /\ x \div w \in Int
  BY DivMod
<1>2. w * (x \div w) + (x % w) = w * 0 + x
  BY <1>1
<1>. QED BY <1>1, <1>2, OneRest

-----------------------------------------------------------------------------
(* The invariant.  Of a request under way the cache has collected no more  *)
(* than the server has said; every message has an id that was drawn, and   *)
(* no two have the same, in the buckets and among the requests; lc_memused *)
(* is what is in the buckets less the strays, and within the limit outside *)
(* check_cache_memused, or nothing is left; and a cache that does not      *)
(* exist has nothing.                                                      *)
CacheType ==
    lc = NoCache \/ lc \in [exists : {TRUE}, enabled : BOOLEAN, timeout : Timeouts, maxmem : Limits,
                            memused : 0..Width - 1, options : {"none"} \cup Options]
ShortOps ==
    /\ OpsOK
    /\ \A id \in MsgIds : ops[id].state = "running" => Len(ops[id].chain) <= MaxEntries
ShortWaits ==
    /\ lc_requests \in Seq(Waiting) /\ OneEach(lc_requests)
    /\ \A i \in DOMAIN lc_requests :
          LET m == lc_requests[i]
          IN  /\ m.id <= ld_msgid /\ Len(m.chain) <= MaxEntries
              /\ ops[m.id].state = "running" => Len(m.chain) <= Len(ops[m.id].chain)
ShortSaid ==
    /\ DOMAIN lc_buckets = 0..Buckets - 1
    /\ \A h \in 0..Buckets - 1 : lc_buckets[h] \in Seq(Small)
    /\ OneId(lc_buckets)
    /\ \A m \in Members(lc_buckets) :
          m.id <= ld_msgid /\ \A i \in DOMAIN lc_requests : lc_requests[i].id # m.id
Exact ==
    /\ Exists => /\ lc.memused = (Base + InCache - strays) % Width
                 /\ Idle /\ strays = 0 /\ lc.maxmem > Base => ~TooBig(lc) \/ InCache = 0
    /\ ~Exists => Idle /\ strays = 0 /\ InCache = 0
Short == ShortOps /\ ShortWaits /\ ShortSaid
Counted ==
    /\ CacheType /\ reduce \in Timeouts \cup {-1, 0} /\ strays \in Nat
    /\ Short /\ Exact

(* The invariant is enough for MemusedExact; the counts are in range.      *)
LEMMA CountedTypes ==
    ASSUME Counted
    PROVE  MemusedExact
<1>1. Held(lc_requests)
  <2>1. \A i \in DOMAIN lc_requests : lc_requests[i] \in Waiting
    BY DEF Counted, Short, ShortWaits
  <2>. QED BY <2>1 DEF Held, Waiting
<1>2. \A h \in DOMAIN lc_buckets : Held(lc_buckets[h])
  <2>1. \A h \in DOMAIN lc_buckets : \A i \in DOMAIN lc_buckets[h] : lc_buckets[h][i] \in Small
    BY DEF Counted, Short, ShortSaid
  <2>. QED BY <2>1 DEF Held, Small, Waiting, Kept
<1>3. ld_msgid \in 0..MaxMsgid
  BY DEF Counted, Short, ShortOps, OpsOK
<1>4. TypeOK
  BY <1>1, <1>2, <1>3 DEF Counted, CacheType, TypeOK
<1>. QED BY <1>4 DEF Counted, Exact, MemusedExact

LEMMA Room ==
    ASSUME ShortSaid
    PROVE  InCache \in Nat /\ Base + InCache < Width
<1>1. Members(lc_buckets) \in SUBSET Small
  BY MembersSmall DEF ShortSaid
<1>2. InCache \in Nat /\ InCache <= MaxMsgid * (MaxEntries + 2)
  BY <1>1, TotalBound DEF ShortSaid, InCache
<1>3. MaxMsgid * (MaxEntries + 2) \in Nat
  BY CacheAssumption
<1>. QED BY <1>2, <1>3, CacheAssumption, CountAssumption

LEMMA Fields ==
    ASSUME CacheType, Exists
    PROVE  /\ lc \in [exists : {TRUE}, enabled : BOOLEAN, timeout : Timeouts, maxmem : Limits,
                      memused : 0..Width - 1, options : {"none"} \cup Options]
           /\ lc.maxmem \in Limits /\ lc.maxmem \in Nat /\ lc.timeout \in Nat /\ lc.memused \in 0..Width - 1
<1>1. lc # NoCache
  BY DEF Exists, NoCache
<1>2. lc \in [exists : {TRUE}, enabled : BOOLEAN, timeout : Timeouts, maxmem : Limits,
              memused : 0..Width - 1, options : {"none"} \cup Options]
  BY <1>1 DEF CacheType
<1>3. lc.maxmem \in Limits /\ lc.timeout \in Timeouts /\ lc.memused \in 0..Width - 1
  BY <1>2
<1>. QED BY <1>2, <1>3, CacheAssumption

(* What is taken off lc_memused: a for answers that leave the buckets, p   *)
(* for requests under way.                                                 *)
LEMMA Reduced ==
    ASSUME CacheType, Exists, strays \in Nat, lc.memused = (Base + InCache - strays) % Width,
           InCache \in Nat, Base + InCache < Width,
           NEW p \in Nat, NEW a \in Nat, InCache' \in Nat, InCache = InCache' + a,
           lc' = [lc EXCEPT !.memused = Minus(lc.memused, p + a)], strays' = strays + p
    PROVE  /\ CacheType' /\ Exists' /\ strays' \in Nat /\ lc'.maxmem = lc.maxmem /\ lc'.timeout = lc.timeout
           /\ lc'.memused = (Base + InCache' - strays') % Width
           /\ strays' = 0 => lc'.memused <= lc.memused
<1>. DEFINE T == InCache
            U == InCache'
            x == Base + T - strays
<1>1. Width \in Nat \ {0} /\ Base \in Nat
  BY CacheAssumption
<1>2. lc \in [exists : {TRUE}, enabled : BOOLEAN, timeout : Timeouts, maxmem : Limits,
              memused : 0..Width - 1, options : {"none"} \cup Options]
  BY Fields
<1>. HIDE DEF T, U
<1>3. T \in Nat /\ U \in Nat /\ T = U + a /\ Base + T < Width
  BY DEF T, U
<1>4. x \in Int /\ -(p + a) \in Int /\ x + -(p + a) = Base + U - (strays + p)
  BY <1>1, <1>3
<1>5. ((x % Width) + -(p + a)) % Width = (x + -(p + a)) % Width
  <2>. HIDE DEF x
  <2>. QED BY <1>1, <1>4, ModAdd
<1>6. x % Width \in 0..Width - 1 /\ lc.memused = x % Width
  <2>1. lc.memused = x % Width
    BY DEF T
  <2>2. x % Width \in 0..Width - 1
    <3>. HIDE DEF x
    <3>. QED BY <1>1, <1>4, DivMod
  <2>. QED BY <2>1, <2>2
<1>7. Minus(lc.memused, p + a) = (Base + U - (strays + p)) % Width
  <2>1. lc.memused - (p + a) = (x % Width) + -(p + a)
    <3>. HIDE DEF x
    <3>. QED BY <1>6
  <2>. QED BY <1>4, <1>5, <2>1, Zenon DEF Minus
<1>8. (Base + U - (strays + p)) % Width \in 0..Width - 1
  <2>1. Base + U - (strays + p) \in Int
    BY <1>1, <1>3
  <2>. QED BY <1>1, <2>1, DivMod
<1>. HIDE DEF x
<1>9. /\ lc'.memused = (Base + U - (strays + p)) % Width
      /\ lc'.maxmem = lc.maxmem /\ lc'.timeout = lc.timeout /\ lc'.exists = TRUE
      /\ lc' \in [exists : {TRUE}, enabled : BOOLEAN, timeout : Timeouts, maxmem : Limits,
                  memused : 0..Width - 1, options : {"none"} \cup Options]
  <2>. DEFINE u == Minus(lc.memused, p + a)
  <2>1. u \in 0..Width - 1 /\ u = (Base + U - (strays + p)) % Width
    BY <1>7, <1>8
  <2>. HIDE DEF u
  <2>2. lc' = [lc EXCEPT !.memused = u]
    BY DEF u
  <2>. QED BY <1>2, <2>1, <2>2
<1>10. ASSUME strays' = 0
       PROVE  lc'.memused <= lc.memused
  <2>1. strays = 0 /\ p = 0
    BY <1>10
  <2>2. Base + T \in 0..Width - 1 /\ Base + U \in 0..Width - 1 /\ Base + U <= Base + T
    BY <1>1, <1>3
  <2>3. (Base + T) % Width = Base + T /\ (Base + U) % Width = Base + U
    BY <1>1, <2>2, ModSmall
  <2>4. Base + U - (strays + p) = Base + U /\ x = Base + T
    BY <1>1, <1>3, <2>1 DEF x
  <2>. QED BY <1>6, <1>9, <2>2, <2>3, <2>4
<1>11. CacheType' /\ Exists'
  BY <1>9 DEF CacheType, Exists
<1>12. strays' \in Nat
  OBVIOUS
<1>. QED BY <1>9, <1>10, <1>11, <1>12 DEF U

(* A cache that holds less stays within its limit.                         *)
LEMMA Smaller ==
    ASSUME NEW c, NEW d, c.maxmem = d.maxmem, d.maxmem \in Nat, c.memused <= d.memused,
           c.memused \in Int, d.memused \in Int, ~TooBig(d)
    PROVE  ~TooBig(c)
<1>. DEFINE limit == (d.maxmem * 2) \div 3
<1>1. limit \in Int
  OBVIOUS
<1>2. ~(d.memused > limit) /\ (TooBig(c) <=> c.memused > limit)
  BY DEF TooBig
<1>. HIDE DEF limit
<1>3. ~(c.memused > limit)
  BY <1>1, <1>2
<1>. QED BY <1>2, <1>3, Zenon

LEMMA ReducedExact ==
    ASSUME CacheType, Exists, strays \in Nat, Exact, UNCHANGED reduce,
           InCache \in Nat, Base + InCache < Width,
           NEW p \in Nat, NEW a \in Nat, InCache' \in Nat, InCache = InCache' + a,
           lc' = [lc EXCEPT !.memused = Minus(lc.memused, p + a)], strays' = strays + p
    PROVE  CacheType' /\ Exists' /\ strays' \in Nat /\ Exact'
<1>1. lc.memused = (Base + InCache - strays) % Width
  BY DEF Exact
<1>2. /\ CacheType' /\ Exists' /\ strays' \in Nat /\ lc'.maxmem = lc.maxmem /\ lc'.timeout = lc.timeout
      /\ lc'.memused = (Base + InCache' - strays') % Width
      /\ strays' = 0 => lc'.memused <= lc.memused
  BY <1>1, Reduced
<1>3. /\ lc.maxmem \in Nat /\ lc.memused \in Int
      /\ lc'.memused \in Int
  <2>1. /\ lc.maxmem \in Nat /\ lc.memused \in 0..Width - 1
    BY Fields
  <2>2. (CacheType /\ Exists => lc.memused \in 0..Width - 1)'
    BY Fields, PTL
  <2>. QED BY <1>2, <2>1, <2>2, CacheAssumption
<1>4. ASSUME Idle', strays' = 0, lc'.maxmem > Base
      PROVE  ~TooBig(lc') \/ InCache' = 0
  <2>1. Idle /\ strays = 0 /\ lc.maxmem > Base
    BY <1>2, <1>4 DEF Idle
  <2>2. ~TooBig(lc) \/ InCache = 0
    BY <2>1 DEF Exact
  <2>3. CASE ~TooBig(lc)
    BY <1>2, <1>3, <1>4, <2>3, Smaller
  <2>4. CASE InCache = 0
    <3>. HIDE DEF InCache
    <3>1. InCache' = 0
      BY <2>4
    <3>. QED BY <3>1
  <2>. QED BY <2>2, <2>3, <2>4
<1>. QED BY <1>2, <1>4 DEF Exact

-----------------------------------------------------------------------------
(* How the parts are kept: by steps that leave the lists alone, that let   *)
(* requests or answers go, or that take operations back.                   *)
LEMMA ShortStays ==
    ASSUME Short, UNCHANGED <<lists, ops, ld_msgid>>
    PROVE  Short' /\ InCache' = InCache
<1>1. lc_requests' = lc_requests /\ lc_buckets' = lc_buckets /\ ops' = ops /\ ld_msgid' = ld_msgid
  BY DEF lists
<1>2. ShortOps'
  BY <1>1 DEF Short, ShortOps, OpsOK
<1>3. ShortWaits'
  BY <1>1 DEF Short, ShortWaits
<1>4. ShortSaid'
  BY <1>1 DEF Short, ShortSaid
<1>5. InCache' = InCache
  BY <1>1 DEF InCache
<1>. QED BY <1>2, <1>3, <1>4, <1>5 DEF Short

LEMMA WaitsFewer ==
    ASSUME ShortWaits, lc_requests' \in Seq(Waiting), OneEach(lc_requests'),
           ld_msgid \in Int, ld_msgid' \in Int, ld_msgid <= ld_msgid',
           \A k \in DOMAIN lc_requests' : \E i \in DOMAIN lc_requests : lc_requests'[k] = lc_requests[i],
           \A i \in DOMAIN lc_requests :
              ops'[lc_requests[i].id].state = "running" =>
                 /\ ops[lc_requests[i].id].state = "running"
                 /\ ops'[lc_requests[i].id].chain = ops[lc_requests[i].id].chain
    PROVE  ShortWaits'
<1>1. \A i \in DOMAIN lc_requests : /\ lc_requests[i].id \in Int /\ lc_requests[i].id <= ld_msgid'
                                    /\ Len(lc_requests[i].chain) <= MaxEntries
                                    /\ ops'[lc_requests[i].id].state = "running" =>
                                          Len(lc_requests[i].chain) <= Len(ops'[lc_requests[i].id].chain)
  <2>. TAKE i \in DOMAIN lc_requests
  <2>1. lc_requests[i] \in Waiting
    BY DEF ShortWaits
  <2>2. lc_requests[i].id \in Int
    BY <2>1 DEF Waiting, MsgIds
  <2>3. /\ lc_requests[i].id <= ld_msgid /\ Len(lc_requests[i].chain) <= MaxEntries
        /\ ops[lc_requests[i].id].state = "running" =>
              Len(lc_requests[i].chain) <= Len(ops[lc_requests[i].id].chain)
    BY Zenon DEF ShortWaits
  <2>4. lc_requests[i].id <= ld_msgid'
    BY <2>2, <2>3
  <2>5. ops'[lc_requests[i].id].state = "running" =>
           Len(lc_requests[i].chain) <= Len(ops'[lc_requests[i].id].chain)
    BY <2>3, Zenon
  <2>. QED BY <2>2, <2>3, <2>4, <2>5
<1>2. \A k \in DOMAIN lc_requests' : /\ lc_requests'[k].id <= ld_msgid'
                                     /\ Len(lc_requests'[k].chain) <= MaxEntries
                                     /\ ops'[lc_requests'[k].id].state = "running" =>
                                           Len(lc_requests'[k].chain) <= Len(ops'[lc_requests'[k].id].chain)
  <2>. TAKE k \in DOMAIN lc_requests'
  <2>1. PICK i \in DOMAIN lc_requests : lc_requests'[k] = lc_requests[i]
    OBVIOUS
  <2>. QED BY <1>1, <2>1
<1>. QED BY <1>2 DEF ShortWaits

LEMMA SaidFewer ==
    ASSUME ShortSaid, DOMAIN lc_buckets' = 0..Buckets - 1,
           \A h \in 0..Buckets - 1 : lc_buckets'[h] \in Seq(Small),
           OneId(lc_buckets'), Members(lc_buckets') \in SUBSET Members(lc_buckets),
           ld_msgid \in Int, ld_msgid' \in Int, ld_msgid <= ld_msgid',
           \A k \in DOMAIN lc_requests' :
              \/ \E i \in DOMAIN lc_requests : lc_requests'[k].id = lc_requests[i].id
              \/ lc_requests'[k].id > ld_msgid
    PROVE  ShortSaid'
<1>1. Members(lc_buckets) \in SUBSET Small
  BY MembersSmall DEF ShortSaid
<1>2. \A m \in Members(lc_buckets) :
         m.id \in Int /\ m.id <= ld_msgid /\ \A i \in DOMAIN lc_requests : lc_requests[i].id # m.id
  BY <1>1 DEF ShortSaid, Small, Waiting, Kept, MsgIds
<1>3. \A m \in Members(lc_buckets') :
         m.id <= ld_msgid' /\ \A k \in DOMAIN lc_requests' : lc_requests'[k].id # m.id
  <2>. TAKE m \in Members(lc_buckets')
  <2>1. m \in Members(lc_buckets)
    OBVIOUS
  <2>2. \A k \in DOMAIN lc_requests' : lc_requests'[k].id # m.id
    <3>. TAKE k \in DOMAIN lc_requests'
    <3>1. CASE \E i \in DOMAIN lc_requests : lc_requests'[k].id = lc_requests[i].id
      BY <1>2, <2>1, <3>1
    <3>2. CASE lc_requests'[k].id > ld_msgid
      BY <1>2, <2>1, <3>2
    <3>. QED BY <3>1, <3>2
  <2>. QED BY <1>2, <2>1, <2>2
<1>. QED BY <1>3 DEF ShortSaid

LEMMA RevokeShort ==
    ASSUME ShortOps, NEW out \in SUBSET MsgIds, UNCHANGED ld_msgid,
           ops' = [id \in MsgIds |-> IF id \in out THEN Gone(ops[id]) ELSE ops[id]]
    PROVE  /\ ShortOps'
           /\ \A id \in MsgIds : ops'[id].state = "running" =>
                 ops[id].state = "running" /\ ops'[id].chain = ops[id].chain
<1>1. OpsOK'
  BY RevokeKeeps DEF ShortOps
<1>2. \A id \in MsgIds : Gone(ops[id]).state = "running" =>
         ops[id].state = "running" /\ Gone(ops[id]).chain = ops[id].chain
  <2>1. \A op \in {NoOp} \cup Op : Gone(op).state = "running" =>
           op.state = "running" /\ Gone(op).chain = op.chain
    BY DEF Gone, NoOp, Op
  <2>. QED BY <2>1 DEF ShortOps, OpsOK
<1>3. \A id \in MsgIds : ops'[id].state = "running" =>
         ops[id].state = "running" /\ ops'[id].chain = ops[id].chain
  BY <1>2
<1>. QED BY <1>1, <1>3 DEF ShortOps

(* Uncaching: the answers taken out leave the count for good, the requests *)
(* are what goes astray.                                                   *)
LEMMA SizesNat ==
    ASSUME ShortWaits, NEW places \in SUBSET DOMAIN lc_requests
    PROVE  Sizes(Pick(lc_requests, places)) \in Nat
<1>. DEFINE new == Pick(lc_requests, places)
            mss == <<new>>
<1>1. new \in Seq(Waiting) /\ OneEach(new)
      /\ \A k \in DOMAIN new : At(places, k) \in places /\ new[k] = lc_requests[At(places, k)]
  BY PickIn, PickOneEach DEF ShortWaits
<1>. HIDE DEF new
<1>2. DOMAIN mss = {1} /\ mss[1] = new
  OBVIOUS
<1>. HIDE DEF mss
<1>3. OneId(mss)
  BY <1>1, <1>2 DEF OneId, OneEach
<1>4. \A k \in DOMAIN new : new[k] \in Small
  <2>. TAKE k \in DOMAIN new
  <2>1. new[k] \in Waiting /\ \E i \in DOMAIN lc_requests : new[k] = lc_requests[i]
    BY <1>1
  <2>2. Len(new[k].chain) <= MaxEntries
    BY <2>1 DEF ShortWaits
  <2>3. Len(new[k].chain) \in Nat /\ MaxEntries \in Nat
    BY <2>1, CacheAssumption DEF Waiting
  <2>. QED BY <2>1, <2>2, <2>3 DEF Small
<1>5. Members(mss) \in SUBSET Small
  BY <1>2, <1>4, MembersIn
<1>6. Total(mss) \in Nat
  BY <1>3, <1>5, TotalBound
<1>. QED BY <1>6 DEF Sizes, mss, new

(* The messages of the buckets are told apart by their places: those that  *)
(* stay and those that are taken out.                                      *)
Sorted(ins, outs, taken) ==
    /\ DOMAIN taken = DOMAIN lc_buckets /\ DOMAIN lc_buckets' = DOMAIN lc_buckets
    /\ \A h \in DOMAIN lc_buckets :
          /\ ins[h] \in SUBSET DOMAIN lc_buckets[h] /\ outs[h] \in SUBSET DOMAIN lc_buckets[h]
          /\ \A i \in DOMAIN lc_buckets[h] : i \in ins[h] <=> i \notin outs[h]
          /\ taken[h] = Pick(lc_buckets[h], outs[h]) /\ lc_buckets'[h] = Pick(lc_buckets[h], ins[h])

LEMMA UncachedCounted ==
    ASSUME Counted, Exists, NEW out \in SUBSET MsgIds,
           NEW waits \in SUBSET DOMAIN lc_requests, NEW gone \in SUBSET DOMAIN lc_requests,
           NEW ins, NEW outs, NEW taken, Sorted(ins, outs, taken),
           lc_requests' = Pick(lc_requests, waits),
           lc' = [lc EXCEPT !.memused = Minus(lc.memused, Sizes(Pick(lc_requests, gone)) + Total(taken))],
           strays' = strays + Sizes(Pick(lc_requests, gone)),
           ops' = [id \in MsgIds |-> IF id \in out THEN Gone(ops[id]) ELSE ops[id]],
           UNCHANGED <<ld_msgid, reduce>>
    PROVE  Counted'
<1>. USE DEF Sorted
<1>1. ShortOps' /\ \A id \in MsgIds : ops'[id].state = "running" =>
                      ops[id].state = "running" /\ ops'[id].chain = ops[id].chain
  BY RevokeShort DEF Counted, Short
<1>2. ld_msgid \in Int /\ ld_msgid' = ld_msgid
  BY DEF Counted, Short, ShortOps, OpsOK
<1>3. lc_requests \in Seq(Waiting) /\ OneEach(lc_requests)
  BY DEF Counted, Short, ShortWaits
<1>4. /\ lc_requests' \in Seq(Waiting) /\ OneEach(lc_requests')
      /\ \A k \in DOMAIN lc_requests' : \E i \in DOMAIN lc_requests : lc_requests'[k] = lc_requests[i]
  <2>1. /\ Pick(lc_requests, waits) \in Seq(Waiting)
        /\ \A k \in DOMAIN Pick(lc_requests, waits) :
              At(waits, k) \in waits /\ Pick(lc_requests, waits)[k] = lc_requests[At(waits, k)]
    BY <1>3, PickIn
  <2>2. OneEach(Pick(lc_requests, waits))
    BY <1>3, PickOneEach
  <2>. QED BY <2>1, <2>2
<1>5. ShortWaits'
  <2>1. \A i \in DOMAIN lc_requests : lc_requests[i].id \in MsgIds
    <3>1. \A i \in DOMAIN lc_requests : lc_requests[i] \in Waiting
      BY <1>3
    <3>. QED BY <3>1 DEF Waiting
  <2>2. \A i \in DOMAIN lc_requests :
           ops'[lc_requests[i].id].state = "running" =>
              /\ ops[lc_requests[i].id].state = "running"
              /\ ops'[lc_requests[i].id].chain = ops[lc_requests[i].id].chain
    BY <1>1, <2>1
  <2>3. ShortWaits /\ ld_msgid <= ld_msgid'
    BY <1>2 DEF Counted, Short
  <2>. QED BY <1>2, <1>4, <2>2, <2>3, WaitsFewer
<1>6. /\ DOMAIN lc_buckets = 0..Buckets - 1
      /\ \A h \in DOMAIN lc_buckets : lc_buckets[h] \in Seq(Small)
      /\ OneId(lc_buckets)
  BY DEF Counted, Short, ShortSaid
<1>7. \A h \in DOMAIN lc_buckets : /\ lc_buckets'[h] \in Seq(Small)
                                   /\ Taken(lc_buckets'[h], lc_buckets[h], ins[h])
                                   /\ Taken(taken[h], lc_buckets[h], outs[h])
  <2>. TAKE h \in DOMAIN lc_buckets
  <2>. DEFINE ms == lc_buckets[h]
              a == ins[h]
              b == outs[h]
  <2>1. /\ ms \in Seq(Small) /\ a \in SUBSET DOMAIN ms /\ b \in SUBSET DOMAIN ms
        /\ taken[h] = Pick(ms, b) /\ lc_buckets'[h] = Pick(ms, a)
    BY <1>6
  <2>. HIDE DEF ms, a, b
  <2>2. /\ Pick(ms, a) \in Seq(Small) /\ Taken(Pick(ms, a), ms, a) /\ Taken(Pick(ms, b), ms, b)
    BY <2>1, PickTaken
  <2>3. lc_buckets'[h] \in Seq(Small) /\ Taken(lc_buckets'[h], ms, a) /\ Taken(taken[h], ms, b)
    BY <2>1, <2>2
  <2>. QED BY <2>3 DEF ms, a, b
<1>8. EachTaken(lc_buckets', lc_buckets, ins) /\ EachTaken(taken, lc_buckets, outs)
  BY <1>7 DEF EachTaken
<1>9. /\ OneId(lc_buckets') /\ Members(lc_buckets') \in SUBSET Members(lc_buckets)
      /\ Total(lc_buckets) = Total(lc_buckets') + Total(taken)
      /\ Total(taken) \in Nat
  <2>1. Apart(lc_buckets, ins, outs)
    BY DEF Apart
  <2>2. SmallLists(lc_buckets)
    BY <1>6 DEF SmallLists
  <2>. QED BY <1>8, <2>1, <2>2, TakenOut
<1>10. ShortSaid'
  <2>1. ShortSaid /\ ld_msgid <= ld_msgid'
    BY <1>2 DEF Counted, Short
  <2>2. \A h \in 0..Buckets - 1 : lc_buckets'[h] \in Seq(Small)
    BY <1>6, <1>7
  <2>3. \A k \in DOMAIN lc_requests' :
           \/ \E i \in DOMAIN lc_requests : lc_requests'[k].id = lc_requests[i].id
           \/ lc_requests'[k].id > ld_msgid
    BY <1>4
  <2>. QED BY <1>2, <1>6, <1>9, <2>1, <2>2, <2>3, SaidFewer
<1>11. InCache \in Nat /\ Base + InCache < Width
  BY Room DEF Counted, Short
<1>12. InCache' \in Nat
  <2>1. (ShortSaid => InCache \in Nat)'
    BY Room, PTL
  <2>. QED BY <1>10, <2>1
<1>13. Sizes(Pick(lc_requests, gone)) \in Nat
  BY SizesNat DEF Counted, Short
<1>14. InCache = InCache' + Total(taken)
  BY <1>9 DEF InCache
<1>15. CacheType' /\ strays' \in Nat /\ Exact'
  <2>1. CacheType /\ strays \in Nat /\ Exact /\ reduce' = reduce
    BY DEF Counted
  <2>. QED BY <1>9, <1>11, <1>12, <1>13, <1>14, <2>1, ReducedExact
<1>. QED BY <1>1, <1>5, <1>10, <1>15 DEF Counted, Short

-----------------------------------------------------------------------------
(* One lemma per action, and what several share.                           *)
LEMMA InitCounted == Init => Counted
<1>. SUFFICES ASSUME Init PROVE Counted
  OBVIOUS
<1>1. CacheType /\ reduce \in Timeouts \cup {-1, 0} /\ strays \in Nat /\ ~Exists /\ Idle /\ strays = 0
  BY DEF Init, CacheType, Exists, Idle, NoCache
<1>2. ShortOps
  BY CacheAssumption DEF Init, ShortOps, OpsOK, NoOp, MsgIds
<1>3. ShortWaits
  BY DEF Init, ShortWaits, OneEach
<1>4. /\ DOMAIN lc_buckets = 0..Buckets - 1
      /\ \A h \in 0..Buckets - 1 : lc_buckets[h] = <<>>
  BY DEF Init
<1>5. OneId(lc_buckets) /\ Members(lc_buckets) = {} /\ Total(lc_buckets) = 0
  BY <1>4, NoneLeft
<1>6. ShortSaid
  <2>1. <<>> \in Seq(Small)
    OBVIOUS
  <2>2. \A h \in 0..Buckets - 1 : lc_buckets[h] \in Seq(Small)
    BY <1>4, <2>1, Zenon
  <2>. QED BY <1>4, <1>5, <2>2 DEF ShortSaid
<1>7. Exact
  BY <1>1, <1>5 DEF Exact, InCache
<1>. QED BY <1>1, <1>2, <1>3, <1>6, <1>7 DEF Counted, Short

(* The limits of the cache change; nothing that is counted does.           *)
LEMMA LimitsCounted ==
    ASSUME Counted, UNCHANGED <<lists, ops, ld_msgid, strays>>,
           CacheType', Exists', reduce' \in Timeouts \cup {-1, 0},
           lc'.memused = (Base + InCache - strays) % Width,
           Idle' /\ lc'.maxmem > Base => ~TooBig(lc') \/ (Idle /\ lc.maxmem > Base /\ InCache = 0)
    PROVE  Counted'
<1>1. Short' /\ InCache' = InCache /\ strays' = strays
  BY ShortStays DEF Counted
<1>2. Exact'
  <2>. HIDE DEF InCache
  <2>1. lc'.memused = (Base + InCache' - strays') % Width
    BY <1>1
  <2>2. Idle' /\ strays' = 0 /\ lc'.maxmem > Base => ~TooBig(lc') \/ InCache' = 0
    BY <1>1, Zenon
  <2>. QED BY <2>1, <2>2, Zenon DEF Exact
<1>. QED BY <1>1, <1>2 DEF Counted

LEMMA EnableCounted ==
    ASSUME Counted, NEW t \in Timeouts, NEW n \in Limits, Enable(t, n)
    PROVE  Counted'
<1>1. UNCHANGED <<lists, ops, ld_msgid, strays>> /\ CheckMemused(lc')
  BY DEF Enable
<1>2. Base \in Nat /\ Base \in 0..Width - 1 /\ Width \in Nat \ {0} /\ Base % Width = Base
  BY CacheAssumption, ModSmall
<1>3. /\ CacheType' /\ Exists' /\ lc'.timeout = t
      /\ lc'.memused = (Base + InCache - strays) % Width
  <2>1. CASE Exists
    <3>1. lc' = [lc EXCEPT !.timeout = t, !.maxmem = n, !.enabled = TRUE]
      BY <2>1 DEF Enable
    <3>2. /\ lc \in [exists : {TRUE}, enabled : BOOLEAN, timeout : Timeouts, maxmem : Limits,
                      memused : 0..Width - 1, options : {"none"} \cup Options]
          /\ lc.memused = (Base + InCache - strays) % Width
      BY <2>1, Fields DEF Counted, Exact
    <3>3. /\ lc' \in [exists : {TRUE}, enabled : BOOLEAN, timeout : Timeouts, maxmem : Limits,
                      memused : 0..Width - 1, options : {"none"} \cup Options]
          /\ lc'.memused = lc.memused /\ lc'.timeout = t /\ lc'.exists = TRUE
      BY <3>1, <3>2
    <3>. QED BY <3>2, <3>3 DEF CacheType, Exists
  <2>2. CASE ~Exists
    <3>1. lc' = [exists |-> TRUE, enabled |-> TRUE, timeout |-> t, maxmem |-> n,
                 memused |-> Base, options |-> "none"]
      BY <2>2 DEF Enable
    <3>2. InCache = 0 /\ strays = 0
      BY <2>2 DEF Counted, Exact
    <3>3. lc'.memused = (Base + InCache - strays) % Width
      <4>. HIDE DEF InCache
      <4>1. Base + InCache - strays = Base
        BY <1>2, <3>2
      <4>. QED BY <1>2, <3>1, <4>1
    <3>. QED BY <1>2, <3>1, <3>3 DEF CacheType, Exists
  <2>. QED BY <2>1, <2>2
<1>4. /\ reduce' \in Timeouts \cup {-1, 0}
      /\ Idle' /\ lc'.maxmem > Base => ~TooBig(lc')
  <2>1. reduce' = IF lc'.maxmem <= Base \/ ~TooBig(lc') THEN -1 ELSE t
    BY <1>1, <1>3 DEF CheckMemused
  <2>2. t # -1
    BY CacheAssumption
  <2>3. lc'.maxmem \in Limits /\ lc'.maxmem \in Nat
    <3>1. (CacheType /\ Exists => lc.maxmem \in Nat)'
      BY Fields, PTL
    <3>2. (CacheType /\ Exists => lc.maxmem \in Limits)'
      BY Fields, PTL
    <3>. QED BY <1>3, <3>1, <3>2
  <2>4. ~(lc'.maxmem > Base /\ lc'.maxmem <= Base)
    BY <1>2, <2>3
  <2>. QED BY <2>1, <2>2, <2>4 DEF Idle
<1>. QED BY <1>1, <1>3, <1>4, LimitsCounted

(* The cache is switched off, or told what to keep.                        *)
LEMMA SwitchCounted ==
    ASSUME Counted, Exists, UNCHANGED <<lists, ops, ld_msgid, strays, reduce>>,
           CacheType', lc'.exists = TRUE, lc'.memused = lc.memused, lc'.maxmem = lc.maxmem
    PROVE  Counted'
<1>1. lc.memused = (Base + InCache - strays) % Width
  BY DEF Counted, Exact
<1>2. Short' /\ InCache' = InCache /\ strays' = strays
  BY ShortStays DEF Counted
<1>3. TooBig(lc') <=> TooBig(lc)
  BY DEF TooBig
<1>4. Idle /\ strays = 0 /\ lc.maxmem > Base => ~TooBig(lc) \/ InCache = 0
  BY DEF Counted, Exact
<1>5. (Idle' <=> Idle) /\ reduce' \in Timeouts \cup {-1, 0}
  BY DEF Idle, Counted
<1>6. Exact'
  <2>. HIDE DEF InCache
  <2>1. Idle' /\ strays' = 0 /\ lc'.maxmem > Base => ~TooBig(lc') \/ InCache' = 0
    BY <1>2, <1>3, <1>4, <1>5
  <2>2. lc'.memused = (Base + InCache' - strays') % Width
    BY <1>1, <1>2
  <2>. QED BY <2>1, <2>2 DEF Exact, Exists
<1>. QED BY <1>2, <1>5, <1>6 DEF Counted

LEMMA DisableCounted ==
    ASSUME Counted, Disable
    PROVE  Counted'
<1>1. /\ Exists /\ lc' = [lc EXCEPT !.enabled = FALSE]
      /\ UNCHANGED <<lists, ops, ld_msgid, strays, reduce>>
  BY DEF Disable
<1>2. lc \in [exists : {TRUE}, enabled : BOOLEAN, timeout : Timeouts, maxmem : Limits,
              memused : 0..Width - 1, options : {"none"} \cup Options]
  BY <1>1, Fields DEF Counted
<1>3. CacheType' /\ lc'.exists = TRUE /\ lc'.memused = lc.memused /\ lc'.maxmem = lc.maxmem
  BY <1>1, <1>2 DEF CacheType
<1>. QED BY <1>1, <1>3, SwitchCounted

LEMMA SetOptionsCounted ==
    ASSUME Counted, NEW o \in Options, SetOptions(o)
    PROVE  Counted'
<1>1. /\ Exists /\ lc' = [lc EXCEPT !.options = o]
      /\ UNCHANGED <<lists, ops, ld_msgid, strays, reduce>>
  BY DEF SetOptions
<1>2. lc \in [exists : {TRUE}, enabled : BOOLEAN, timeout : Timeouts, maxmem : Limits,
              memused : 0..Width - 1, options : {"none"} \cup Options]
  BY <1>1, Fields DEF Counted
<1>3. CacheType' /\ lc'.exists = TRUE /\ lc'.memused = lc.memused /\ lc'.maxmem = lc.maxmem
  BY <1>1, <1>2 DEF CacheType
<1>. QED BY <1>1, <1>3, SwitchCounted

(* Both lists are emptied: the count starts again, nothing is astray.      *)
LEMMA EmptiedCounted ==
    ASSUME Counted, Emptied, UNCHANGED <<ld_msgid, reduce>>, Idle,
           CacheType', Exists' => lc'.memused = Base
    PROVE  Counted'
<1>1. lc_requests' = <<>> /\ lc_buckets' = [h \in DOMAIN lc_buckets |-> <<>>] /\ strays' = 0
  BY DEF Emptied
<1>2. ShortOps'
  <2>. DEFINE out == {id \in MsgIds : ops[id].state # "none"}
  <2>1. ops' = [id \in MsgIds |-> IF id \in out THEN Gone(ops[id]) ELSE ops[id]]
    BY DEF Emptied, Revoke, Gone
  <2>. HIDE DEF out
  <2>2. out \in SUBSET MsgIds
    BY DEF out
  <2>. QED BY <2>1, <2>2, RevokeShort DEF Counted, Short
<1>3. ShortWaits'
  BY <1>1 DEF ShortWaits, OneEach
<1>4. DOMAIN lc_buckets' = 0..Buckets - 1 /\ \A h \in 0..Buckets - 1 : lc_buckets'[h] = <<>>
  BY <1>1 DEF Counted, Short, ShortSaid
<1>5. OneId(lc_buckets') /\ Members(lc_buckets') = {} /\ Total(lc_buckets') = 0
  BY <1>4, NoneLeft
<1>6. ShortSaid'
  <2>1. <<>> \in Seq(Small)
    OBVIOUS
  <2>2. \A h \in 0..Buckets - 1 : lc_buckets'[h] \in Seq(Small)
    BY <1>4, <2>1, Zenon
  <2>. QED BY <1>4, <1>5, <2>2 DEF ShortSaid
<1>7. InCache' = 0
  BY <1>5 DEF InCache
<1>8. Exact'
  <2>. HIDE DEF InCache
  <2>1. Base \in 0..Width - 1 /\ Width \in Nat \ {0} /\ Base \in Nat
    BY CacheAssumption
  <2>2. Base % Width = Base
    BY <2>1, ModSmall
  <2>3. (Base + InCache' - strays') = Base
    BY <1>1, <1>7, <2>1
  <2>4. Idle'
    BY DEF Idle
  <2>. QED BY <1>1, <1>7, <2>2, <2>3, <2>4 DEF Exact
<1>9. reduce' \in Timeouts \cup {-1, 0} /\ strays' \in Nat
  BY <1>1 DEF Counted
<1>. QED BY <1>2, <1>3, <1>6, <1>8, <1>9 DEF Counted, Short

LEMMA FlushCounted ==
    ASSUME Counted, Flush
    PROVE  Counted'
<1>1. Exists /\ Idle /\ Emptied /\ lc' = [lc EXCEPT !.memused = Base] /\ UNCHANGED <<ld_msgid, reduce>>
  BY DEF Flush
<1>2. lc \in [exists : {TRUE}, enabled : BOOLEAN, timeout : Timeouts, maxmem : Limits,
              memused : 0..Width - 1, options : {"none"} \cup Options]
  BY <1>1, Fields DEF Counted
<1>3. Base \in 0..Width - 1
  BY CacheAssumption
<1>4. CacheType' /\ lc'.memused = Base
  BY <1>1, <1>2, <1>3 DEF CacheType
<1>. QED BY <1>1, <1>4, EmptiedCounted

LEMMA DestroyCounted ==
    ASSUME Counted, Destroy
    PROVE  Counted'
<1>1. Idle /\ Emptied /\ lc' = NoCache /\ UNCHANGED <<ld_msgid, reduce>>
  BY DEF Destroy
<1>2. CacheType' /\ ~Exists'
  BY <1>1 DEF CacheType, Exists, NoCache
<1>. QED BY <1>1, <1>2, EmptiedCounted

(* What is taken out is told from what stays by the id, or by the DN.      *)
LEMMA UncacheRequestCounted ==
    ASSUME Counted, NEW id \in MsgIds, UncacheRequest(id)
    PROVE  Counted'
<1>. DEFINE out == {k \in MsgIds : ops[k].state # "none" /\ k = id}
            waits == {i \in DOMAIN lc_requests : ~(lc_requests[i].id = id)}
            gone == {i \in DOMAIN lc_requests : lc_requests[i].id = id}
            ins == [h \in DOMAIN lc_buckets |-> {i \in DOMAIN lc_buckets[h] : ~(lc_buckets[h][i].id = id)}]
            outs == [h \in DOMAIN lc_buckets |-> {i \in DOMAIN lc_buckets[h] : lc_buckets[h][i].id = id}]
            taken == [h \in DOMAIN lc_buckets |-> Pick(lc_buckets[h], outs[h])]
<1>1. /\ Exists
      /\ lc_requests' = Pick(lc_requests, waits)
      /\ lc_buckets' = [h \in DOMAIN lc_buckets |-> Pick(lc_buckets[h], ins[h])]
      /\ lc' = [lc EXCEPT !.memused = Minus(lc.memused, Sizes(Pick(lc_requests, gone)) + Total(taken))]
      /\ strays' = strays + Sizes(Pick(lc_requests, gone))
      /\ UNCHANGED <<ld_msgid, reduce>>
  BY DEF UncacheRequest, Uncache, Only
<1>2. ops' = [k \in MsgIds |-> IF k \in out THEN Gone(ops[k]) ELSE ops[k]]
  BY DEF UncacheRequest, Uncache, Revoke, Gone
<1>3. /\ out \in SUBSET MsgIds /\ waits \in SUBSET DOMAIN lc_requests /\ gone \in SUBSET DOMAIN lc_requests
      /\ \A h \in DOMAIN lc_buckets :
            /\ ins[h] \in SUBSET DOMAIN lc_buckets[h] /\ outs[h] \in SUBSET DOMAIN lc_buckets[h]
            /\ \A i \in DOMAIN lc_buckets[h] : i \in ins[h] <=> i \notin outs[h]
  OBVIOUS
<1>. HIDE DEF out, waits, gone, ins, outs
<1>4. DOMAIN taken = DOMAIN lc_buckets /\ \A h \in DOMAIN lc_buckets : taken[h] = Pick(lc_buckets[h], outs[h])
  OBVIOUS
<1>. HIDE DEF taken
<1>5. DOMAIN lc_buckets' = DOMAIN lc_buckets /\ \A h \in DOMAIN lc_buckets : lc_buckets'[h] = Pick(lc_buckets[h], ins[h])
  BY <1>1
<1>6. Sorted(ins, outs, taken)
  BY <1>3, <1>4, <1>5 DEF Sorted
<1>. QED BY <1>1, <1>2, <1>3, <1>6, UncachedCounted

LEMMA UncacheEntryCounted ==
    ASSUME Counted, NEW dn \in Entries, UncacheEntry(dn)
    PROVE  Counted'
<1>. DEFINE out == {k \in MsgIds : ops[k].state # "none"
                      /\ ContainsDn([id |-> k, req |-> ops[k].req, chain |-> ops[k].chain], dn)}
            waits == {i \in DOMAIN lc_requests : ~ContainsDn(lc_requests[i], dn)}
            gone == {i \in DOMAIN lc_requests : ContainsDn(lc_requests[i], dn)}
            ins == [h \in DOMAIN lc_buckets |-> {i \in DOMAIN lc_buckets[h] : ~ContainsDn(lc_buckets[h][i], dn)}]
            outs == [h \in DOMAIN lc_buckets |-> {i \in DOMAIN lc_buckets[h] : ContainsDn(lc_buckets[h][i], dn)}]
            taken == [h \in DOMAIN lc_buckets |-> Pick(lc_buckets[h], outs[h])]
<1>1. /\ Exists
      /\ lc_requests' = Pick(lc_requests, waits)
      /\ lc_buckets' = [h \in DOMAIN lc_buckets |-> Pick(lc_buckets[h], ins[h])]
      /\ lc' = [lc EXCEPT !.memused = Minus(lc.memused, Sizes(Pick(lc_requests, gone)) + Total(taken))]
      /\ strays' = strays + Sizes(Pick(lc_requests, gone))
      /\ UNCHANGED <<ld_msgid, reduce>>
  BY DEF UncacheEntry, Uncache, Only
<1>2. ops' = [k \in MsgIds |-> IF k \in out THEN Gone(ops[k]) ELSE ops[k]]
  BY DEF UncacheEntry, Uncache, Revoke, Gone
<1>3. /\ out \in SUBSET MsgIds /\ waits \in SUBSET DOMAIN lc_requests /\ gone \in SUBSET DOMAIN lc_requests
      /\ \A h \in DOMAIN lc_buckets :
            /\ ins[h] \in SUBSET DOMAIN lc_buckets[h] /\ outs[h] \in SUBSET DOMAIN lc_buckets[h]
            /\ \A i \in DOMAIN lc_buckets[h] : i \in ins[h] <=> i \notin outs[h]
  OBVIOUS
<1>. HIDE DEF out, waits, gone, ins, outs
<1>4. DOMAIN taken = DOMAIN lc_buckets /\ \A h \in DOMAIN lc_buckets : taken[h] = Pick(lc_buckets[h], outs[h])
  OBVIOUS
<1>. HIDE DEF taken
<1>5. DOMAIN lc_buckets' = DOMAIN lc_buckets /\ \A h \in DOMAIN lc_buckets : lc_buckets'[h] = Pick(lc_buckets[h], ins[h])
  BY <1>1
<1>6. Sorted(ins, outs, taken)
  BY <1>3, <1>4, <1>5 DEF Sorted
<1>. QED BY <1>1, <1>2, <1>3, <1>6, UncachedCounted

(* A request is asked: the size of what the walk drops goes off the count. *)
LEMMA CheckedCounted ==
    ASSUME Counted, Enabled, NEW req \in Requests, CheckCache(req), UNCHANGED <<reduce, strays>>,
           ld_msgid' \in Int, ld_msgid <= ld_msgid',
           \A k \in DOMAIN lc_requests' :
              \/ \E i \in DOMAIN lc_requests : lc_requests'[k].id = lc_requests[i].id
              \/ lc_requests'[k].id > ld_msgid
    PROVE  CacheType' /\ ShortSaid' /\ strays' \in Nat /\ Exact'
<1>. DEFINE b == Hash(req)
            w == Walked(lc_buckets[b], req)
            a == Sizes(w.dropped)
<1>1. /\ DOMAIN lc_buckets = 0..Buckets - 1
      /\ \A h \in DOMAIN lc_buckets : lc_buckets[h] \in Seq(Small)
      /\ OneId(lc_buckets)
  BY DEF Counted, Short, ShortSaid
<1>2. b \in DOMAIN lc_buckets
  BY <1>1, HashType
<1>3. /\ lc_buckets' = [lc_buckets EXCEPT ![b] = w.kept]
      /\ lc' = [lc EXCEPT !.memused = Minus(lc.memused, a)]
  BY DEF CheckCache
<1>. HIDE DEF b
<1>4. /\ DOMAIN lc_buckets' = DOMAIN lc_buckets
      /\ \A h \in DOMAIN lc_buckets : lc_buckets'[h] = IF h = b THEN w.kept ELSE lc_buckets[h]
  BY <1>1, <1>3
<1>5. /\ \A h \in DOMAIN lc_buckets : lc_buckets'[h] \in Seq(Small)
      /\ OneId(lc_buckets') /\ Members(lc_buckets') \in SUBSET Members(lc_buckets)
      /\ Total(lc_buckets) = Total(lc_buckets') + a
      /\ a \in Nat
  BY <1>1, <1>2, <1>4, WalkedOut
<1>. HIDE DEF w, a
<1>6. ShortSaid'
  <2>1. ShortSaid /\ ld_msgid \in Int
    BY DEF Counted, Short, ShortOps, OpsOK
  <2>. QED BY <1>1, <1>4, <1>5, <2>1, SaidFewer
<1>7. InCache \in Nat /\ Base + InCache < Width /\ InCache' \in Nat
  <2>1. (ShortSaid => InCache \in Nat)'
    BY Room, PTL
  <2>2. ShortSaid
    BY DEF Counted, Short
  <2>. QED BY <1>6, <2>1, <2>2, Room
<1>8. InCache = InCache' + a
  BY <1>5 DEF InCache
<1>9. CacheType' /\ strays' \in Nat /\ Exact'
  <2>1. /\ CacheType /\ strays \in Nat /\ Exact /\ reduce' = reduce /\ Exists
        /\ strays' = strays + 0
    BY DEF Counted, Enabled, Exists
  <2>2. 0 + a = a /\ 0 \in Nat
    BY <1>5
  <2>3. lc' = [lc EXCEPT !.memused = Minus(lc.memused, 0 + a)]
    BY <1>3, <2>2
  <2>. QED BY <1>5, <1>7, <1>8, <2>1, <2>2, <2>3, ReducedExact
<1>. QED BY <1>6, <1>9

(* A new request waits at the head of the list. *)
LEMMA WaitsMore ==
    ASSUME ShortWaits, OpsOK, NEW req \in Requests, ld_msgid < MaxMsgid, ld_msgid' = ld_msgid + 1,
           lc_requests' = <<[id |-> ld_msgid', req |-> req, chain |-> <<>>]>> \o lc_requests,
           ops' = [ops EXCEPT ![ld_msgid'] = Started(req)]
    PROVE  /\ ShortWaits'
           /\ \A k \in DOMAIN lc_requests' :
                 \/ \E i \in DOMAIN lc_requests : lc_requests'[k].id = lc_requests[i].id
                 \/ lc_requests'[k].id > ld_msgid
<1>. DEFINE new == [id |-> ld_msgid', req |-> req, chain |-> <<>>]
            ms == lc_requests
            Fits(m) == /\ m.id <= ld_msgid' /\ Len(m.chain) <= MaxEntries
                       /\ ops'[m.id].state = "running" => Len(m.chain) <= Len(ops'[m.id].chain)
<1>1. /\ ld_msgid' \in MsgIds
      /\ ops'[ld_msgid'] = Started(req)
      /\ \A id \in MsgIds : id # ld_msgid' => ops'[id] = ops[id]
      /\ ld_msgid \in Int /\ ld_msgid' > ld_msgid
  <2>1. ld_msgid \in 0..MaxMsgid /\ MaxMsgid \in Nat /\ ops \in [MsgIds -> {NoOp} \cup Op]
    BY CacheAssumption DEF OpsOK
  <2>. QED BY <2>1, StartedOps DEF MsgIds
<1>2. /\ ms \in Seq(Waiting) /\ OneEach(ms)
  BY DEF ShortWaits
<1>3. new \in Waiting /\ new.id = ld_msgid' /\ new.chain = <<>>
  BY <1>1 DEF Waiting
<1>4. \A k \in DOMAIN ms : ms[k].id \in MsgIds /\ ms[k].id <= ld_msgid
  <2>1. \A k \in DOMAIN ms : ms[k] \in Waiting
    BY <1>2
  <2>. QED BY <2>1 DEF ShortWaits, Waiting
<1>5. \A k \in DOMAIN ms : ms[k].id # new.id
  BY <1>1, <1>3, <1>4 DEF MsgIds
<1>6. \A k \in DOMAIN ms : Fits(ms[k])
  <2>. TAKE k \in DOMAIN ms
  <2>1. ops'[ms[k].id] = ops[ms[k].id]
    BY <1>1, <1>3, <1>4, <1>5
  <2>2. ms[k].id <= ld_msgid'
    BY <1>1, <1>4 DEF MsgIds
  <2>3. /\ Len(ms[k].chain) <= MaxEntries
        /\ ops[ms[k].id].state = "running" => Len(ms[k].chain) <= Len(ops[ms[k].id].chain)
    BY Zenon DEF ShortWaits
  <2>. QED BY <2>1, <2>2, <2>3
<1>7. Fits(new)
  <2>1. Len(new.chain) = 0 /\ MaxEntries \in Nat
    BY <1>3, CacheAssumption
  <2>2. ops'[new.id].chain = <<>> /\ Len(ops'[new.id].chain) = 0
    BY <1>1, <1>3 DEF Started
  <2>3. new.id <= ld_msgid'
    BY <1>1, <1>3 DEF MsgIds
  <2>. HIDE DEF new
  <2>. QED BY <2>1, <2>2, <2>3
<1>8. lc_requests' = <<new>> \o ms
  OBVIOUS
<1>. HIDE DEF ms, new, Fits
<1>9. /\ <<new>> \o ms \in Seq(Waiting) /\ Len(<<new>> \o ms) = 1 + Len(ms)
      /\ \A k \in 1..1 + Len(ms) : (<<new>> \o ms)[k] = IF k = 1 THEN new ELSE ms[k - 1]
  BY <1>2, <1>3
<1>10. /\ DOMAIN (<<new>> \o ms) = 1..1 + Len(ms) /\ Len(ms) \in Nat
       /\ \A k \in 1..1 + Len(ms) : k # 1 => k - 1 \in DOMAIN ms
  BY <1>2, <1>9
<1>11. \A k, l \in 1..1 + Len(ms) : (<<new>> \o ms)[k].id = (<<new>> \o ms)[l].id => k = l
  <2>. TAKE k, l \in 1..1 + Len(ms)
  <2>. HAVE (<<new>> \o ms)[k].id = (<<new>> \o ms)[l].id
  <2>1. CASE k = 1 \/ l = 1
    BY <2>1, <1>5, <1>9, <1>10
  <2>2. CASE k # 1 /\ l # 1
    <3>1. k - 1 = l - 1
      BY <2>2, <1>2, <1>9, <1>10 DEF OneEach
    <3>. QED BY <3>1
  <2>. QED BY <2>1, <2>2
<1>12. \A k \in 1..1 + Len(ms) : Fits((<<new>> \o ms)[k])
  BY <1>6, <1>7, <1>9, <1>10
<1>13. ShortWaits'
  <2>1. OneEach(lc_requests')
    BY <1>8, <1>10, <1>11 DEF OneEach
  <2>2. \A k \in DOMAIN lc_requests' : Fits(lc_requests'[k])
    BY <1>8, <1>10, <1>12
  <2>3. lc_requests' \in Seq(Waiting)
    BY <1>8, <1>9
  <2>. QED BY <2>1, <2>2, <2>3 DEF ShortWaits, Fits
<1>14. \A k \in DOMAIN lc_requests' :
          \/ \E i \in DOMAIN ms : lc_requests'[k].id = ms[i].id
          \/ lc_requests'[k].id > ld_msgid
  <2>. TAKE k \in DOMAIN lc_requests'
  <2>1. k \in 1..1 + Len(ms)
    BY <1>8, <1>10
  <2>2. CASE k = 1
    BY <1>1, <1>3, <1>8, <1>9, <2>1, <2>2
  <2>3. CASE k # 1
    BY <1>8, <1>9, <1>10, <2>1, <2>3
  <2>. QED BY <2>2, <2>3
<1>. QED BY <1>13, <1>14 DEF ms

(* The operation that starts has no responses yet.                         *)
LEMMA StartedShort ==
    ASSUME ShortOps, NEW req \in Requests, ld_msgid < MaxMsgid, ld_msgid' = ld_msgid + 1,
           ops' = [ops EXCEPT ![ld_msgid'] = Started(req)]
    PROVE  ShortOps'
<1>1. OpsOK' /\ ops'[ld_msgid'] = Started(req) /\ ops \in [MsgIds -> {NoOp} \cup Op] /\ MaxEntries \in Nat
  BY StartedOps, CacheAssumption DEF ShortOps, OpsOK
<1>2. Len(Started(req).chain) = 0
  BY DEF Started
<1>3. \A id \in MsgIds : ops'[id].state = "running" => Len(ops'[id].chain) <= MaxEntries
  <2>. TAKE id \in MsgIds
  <2>1. CASE id = ld_msgid'
    BY <1>1, <1>2, <2>1
  <2>2. CASE id # ld_msgid'
    <3>1. ops'[id] = ops[id]
      BY <1>1, <2>2
    <3>. QED BY <3>1 DEF ShortOps
  <2>. QED BY <2>1, <2>2
<1>. QED BY <1>1, <1>3 DEF ShortOps

LEMMA AskCounted ==
    ASSUME Counted, NEW req \in Requests, Ask(req)
    PROVE  Counted'
<1>. DEFINE i == Found(lc_buckets[Hash(req)], req)
            new == [id |-> ld_msgid', req |-> req, chain |-> <<>>]
<1>1. ld_msgid < MaxMsgid /\ ld_msgid' = ld_msgid + 1 /\ UNCHANGED <<reduce, strays>>
  BY DEF Ask
<1>2. /\ ShortOps /\ OpsOK /\ ShortWaits /\ ShortSaid
      /\ ld_msgid \in Int /\ ld_msgid' \in Int /\ ld_msgid <= ld_msgid' /\ ld_msgid' \in 0..MaxMsgid
      /\ lc_requests \in Seq(Waiting) /\ OneEach(lc_requests)
  <2>1. ShortOps /\ OpsOK /\ ShortWaits /\ ShortSaid
    BY DEF Counted, Short, ShortOps
  <2>2. ld_msgid \in 0..MaxMsgid /\ MaxMsgid \in Nat
    BY <2>1, CacheAssumption DEF OpsOK
  <2>3. lc_requests \in Seq(Waiting) /\ OneEach(lc_requests)
    BY <2>1 DEF ShortWaits
  <2>. QED BY <1>1, <2>1, <2>2, <2>3
<1>3. reduce' \in Timeouts \cup {-1, 0}
  BY <1>1 DEF Counted
<1>4. CASE Enabled /\ i # 0
  <2>1. CheckCache(req) /\ UNCHANGED <<lc_requests, ops>>
    BY <1>4 DEF Ask
  <2>2. CacheType' /\ ShortSaid' /\ strays' \in Nat /\ Exact'
    BY <1>1, <1>2, <1>4, <2>1, CheckedCounted
  <2>3. ShortOps'
    <3>1. \A id \in MsgIds : id > ld_msgid' => id > ld_msgid
      BY <1>1, <1>2 DEF MsgIds
    <3>. QED BY <1>2, <2>1, <3>1 DEF ShortOps, OpsOK
  <2>4. ShortWaits'
    BY <1>2, <2>1, WaitsFewer
  <2>. QED BY <1>3, <2>2, <2>3, <2>4 DEF Counted, Short
<1>5. CASE Enabled /\ i = 0
  <2>1. /\ CheckCache(req)
        /\ lc_requests' = <<new>> \o lc_requests
        /\ ops' = [ops EXCEPT ![ld_msgid'] = Started(req)]
    BY <1>5 DEF Ask
  <2>2. /\ ShortWaits'
        /\ \A k \in DOMAIN lc_requests' :
              \/ \E j \in DOMAIN lc_requests : lc_requests'[k].id = lc_requests[j].id
              \/ lc_requests'[k].id > ld_msgid
    BY <1>1, <1>2, <2>1, WaitsMore
  <2>3. CacheType' /\ ShortSaid' /\ strays' \in Nat /\ Exact'
    BY <1>1, <1>2, <1>5, <2>1, <2>2, CheckedCounted
  <2>4. ShortOps'
    BY <1>1, <1>2, <2>1, StartedShort
  <2>. QED BY <1>3, <2>2, <2>3, <2>4 DEF Counted, Short
<1>6. CASE ~Enabled
  <2>1. ops' = [ops EXCEPT ![ld_msgid'] = Started(req)] /\ UNCHANGED <<lc, lists>>
    BY <1>6 DEF Ask
  <2>2. ShortOps'
    BY <1>1, <1>2, <2>1, StartedShort
  <2>3. lc_requests' = lc_requests /\ lc_buckets' = lc_buckets /\ lc' = lc
    BY <2>1 DEF lists
  <2>4. \A id \in MsgIds : ops'[id].state = "running" /\ id <= ld_msgid => ops'[id] = ops[id]
    BY <1>1, <1>2, <2>1 DEF OpsOK, MsgIds
  <2>5. ShortWaits'
    <3>1. \A k \in DOMAIN lc_requests : lc_requests[k].id \in MsgIds /\ lc_requests[k].id <= ld_msgid
      <4>1. \A k \in DOMAIN lc_requests : lc_requests[k] \in Waiting
        BY <1>2
      <4>. QED BY <1>2, <4>1 DEF Waiting, ShortWaits
    <3>. QED BY <1>2, <2>3, <2>4, <3>1, WaitsFewer
  <2>6. ShortSaid'
    <3>1. \A k \in DOMAIN lc_requests' : \E j \in DOMAIN lc_requests : lc_requests'[k].id = lc_requests[j].id
      BY <2>3
    <3>2. /\ DOMAIN lc_buckets' = 0..Buckets - 1 /\ \A h \in 0..Buckets - 1 : lc_buckets'[h] \in Seq(Small)
          /\ OneId(lc_buckets') /\ Members(lc_buckets') \in SUBSET Members(lc_buckets)
      BY <1>2, <2>3 DEF ShortSaid
    <3>. QED BY <1>2, <3>1, <3>2, SaidFewer
  <2>7. CacheType' /\ strays' \in Nat /\ Exact'
    BY <1>1, <2>3 DEF Counted, CacheType, Exact, Exists, Idle, InCache
  <2>. QED BY <1>3, <2>2, <2>5, <2>6, <2>7 DEF Counted, Short
<1>. QED BY <1>4, <1>5, <1>6

(* A response goes to the operation and to its request alike, as long as   *)
(* the server has not said all.                                            *)
LEMMA EntryCounted ==
    ASSUME Counted, NEW id \in MsgIds, NEW dn \in Entries, Entry(id, dn)
    PROVE  Counted'
<1>. DEFINE msg == [type |-> "entry", dn |-> dn]
            new == Appended(id, msg)
<1>1. /\ msg \in Message /\ ops[id].state = "running" /\ Len(ops[id].chain) < MaxEntries
      /\ Answer(id, msg, "running") /\ Part(id, msg) /\ UNCHANGED <<ld_msgid, strays>>
      /\ UNCHANGED <<lc, lc_buckets, reduce>>
  BY DEF Entry, Message, Part
<1>. HIDE DEF msg
<1>2. /\ ShortOps /\ OpsOK /\ ShortWaits /\ ShortSaid
      /\ ld_msgid \in Int /\ ld_msgid' = ld_msgid /\ MaxEntries \in Nat
      /\ lc_requests \in Seq(Waiting) /\ OneEach(lc_requests)
  <2>1. ShortOps /\ OpsOK /\ ShortWaits /\ ShortSaid
    BY DEF Counted, Short, ShortOps
  <2>2. ld_msgid \in Int /\ lc_requests \in Seq(Waiting) /\ OneEach(lc_requests)
    BY <2>1 DEF OpsOK, ShortWaits
  <2>. QED BY <1>1, <2>1, <2>2, CacheAssumption
<1>3. /\ OpsOK'
      /\ \A k \in MsgIds : k # id => ops'[k] = ops[k]
      /\ ops[id] \in Op
      /\ ops'[id] = [ops[id] EXCEPT !.chain = Append(@, msg), !.state = "running"]
  BY <1>1, <1>2, AnsweredOps
<1>4. /\ ops'[id].chain = Append(ops[id].chain, msg)
      /\ Len(ops'[id].chain) = Len(ops[id].chain) + 1 /\ Len(ops[id].chain) \in Nat
  <2>1. ops'[id].chain = Append(ops[id].chain, msg) /\ ops[id].chain \in Seq(Message)
    BY <1>3 DEF Op
  <2>. QED BY <2>1
<1>5. ShortOps'
  <2>1. \A k \in MsgIds : ops'[k].state = "running" => Len(ops'[k].chain) <= MaxEntries
    <3>. TAKE k \in MsgIds
    <3>1. CASE k = id
      BY <1>1, <1>2, <1>4, <3>1
    <3>2. CASE k # id
      BY <1>2, <1>3, <3>2 DEF ShortOps
    <3>. QED BY <3>1, <3>2
  <2>. QED BY <1>3, <2>1 DEF ShortOps
<1>6. \A i \in DOMAIN lc_requests :
         /\ lc_requests[i] \in Waiting
         /\ lc_requests[i].id \in MsgIds /\ lc_requests[i].id <= ld_msgid
         /\ Len(lc_requests[i].chain) \in Nat /\ Len(lc_requests[i].chain) <= MaxEntries
         /\ ops[lc_requests[i].id].state = "running" =>
               Len(lc_requests[i].chain) <= Len(ops[lc_requests[i].id].chain)
  <2>. TAKE i \in DOMAIN lc_requests
  <2>1. lc_requests[i] \in Waiting
    BY <1>2
  <2>2. lc_requests[i].id \in MsgIds /\ Len(lc_requests[i].chain) \in Nat
    BY <2>1 DEF Waiting
  <2>3. /\ lc_requests[i].id <= ld_msgid /\ Len(lc_requests[i].chain) <= MaxEntries
        /\ ops[lc_requests[i].id].state = "running" =>
              Len(lc_requests[i].chain) <= Len(ops[lc_requests[i].id].chain)
    BY <1>2, Zenon DEF ShortWaits
  <2>. QED BY <2>1, <2>2, <2>3
<1>7. /\ lc_requests' \in Seq(Waiting) /\ DOMAIN lc_requests' = DOMAIN lc_requests
      /\ \A i \in DOMAIN lc_requests :
            /\ lc_requests'[i].id = lc_requests[i].id
            /\ \/ lc_requests'[i].chain = lc_requests[i].chain
               \/ lc_requests[i].id = id /\ lc_requests'[i].chain = Append(lc_requests[i].chain, msg)
  <2>1. CASE Enabled
    <3>1. lc_requests' = new
      BY <1>1, <2>1 DEF Part
    <3>2. new \in Seq(Waiting) /\ DOMAIN new = DOMAIN lc_requests
      BY <1>1, <1>2, AppendedIs
    <3>3. ASSUME NEW i \in DOMAIN lc_requests
          PROVE  new[i] = IF lc_requests[i].id = id
                          THEN [lc_requests[i] EXCEPT !.chain = Append(@, msg)]
                          ELSE lc_requests[i]
      BY <3>3 DEF Appended
    <3>. HIDE DEF new
    <3>4. \A i \in DOMAIN lc_requests :
            /\ new[i].id = lc_requests[i].id
            /\ \/ new[i].chain = lc_requests[i].chain
               \/ lc_requests[i].id = id /\ new[i].chain = Append(lc_requests[i].chain, msg)
      BY <1>6, <3>3 DEF Waiting
    <3>. QED BY <3>1, <3>2, <3>4
  <2>2. CASE ~Enabled
    BY <1>1, <1>2, <2>2 DEF Part
  <2>. QED BY <2>1, <2>2
<1>8. ShortWaits'
  <2>1. OneEach(lc_requests')
    BY <1>2, <1>7 DEF OneEach
  <2>2. \A i \in DOMAIN lc_requests :
           /\ Len(lc_requests'[i].chain) <= MaxEntries
           /\ ops'[lc_requests[i].id].state = "running" =>
                 Len(lc_requests'[i].chain) <= Len(ops'[lc_requests[i].id].chain)
    <3>. TAKE i \in DOMAIN lc_requests
    <3>1. CASE lc_requests[i].id = id
      <4>1. Len(lc_requests[i].chain) <= Len(ops[id].chain) /\ Len(lc_requests[i].chain) \in Nat
        BY <1>1, <1>6, <3>1
      <4>2. lc_requests[i].chain \in Seq(Message)
        BY <1>6 DEF Waiting
      <4>3. Len(lc_requests'[i].chain) <= Len(lc_requests[i].chain) + 1 /\ Len(lc_requests'[i].chain) \in Nat
        BY <1>7, <4>2
      <4>. DEFINE x == Len(lc_requests'[i].chain)
                  y == Len(lc_requests[i].chain)
                  z == Len(ops[id].chain)
      <4>4. x \in Nat /\ y \in Nat /\ z \in Nat /\ x <= y + 1 /\ y <= z /\ z < MaxEntries
        BY <1>1, <1>4, <4>1, <4>3
      <4>5. Len(ops'[id].chain) = z + 1
        BY <1>4
      <4>. HIDE DEF x, y, z
      <4>6. x <= MaxEntries /\ x <= z + 1
        BY <1>2, <4>4
      <4>. QED BY <3>1, <4>5, <4>6 DEF x
    <3>2. CASE lc_requests[i].id # id
      <4>1. lc_requests'[i].chain = lc_requests[i].chain /\ ops'[lc_requests[i].id] = ops[lc_requests[i].id]
        BY <1>3, <1>6, <1>7, <3>2
      <4>. QED BY <1>6, <4>1
    <3>. QED BY <3>1, <3>2
  <2>3. \A i \in DOMAIN lc_requests' :
           /\ lc_requests'[i].id <= ld_msgid' /\ Len(lc_requests'[i].chain) <= MaxEntries
           /\ ops'[lc_requests'[i].id].state = "running" =>
                 Len(lc_requests'[i].chain) <= Len(ops'[lc_requests'[i].id].chain)
    BY <1>2, <1>6, <1>7, <2>2
  <2>. QED BY <1>7, <2>1, <2>3 DEF ShortWaits
<1>9. ShortSaid'
  <2>1. \A k \in DOMAIN lc_requests' : \E j \in DOMAIN lc_requests : lc_requests'[k].id = lc_requests[j].id
    BY <1>7
  <2>2. /\ DOMAIN lc_buckets' = 0..Buckets - 1 /\ \A h \in 0..Buckets - 1 : lc_buckets'[h] \in Seq(Small)
        /\ OneId(lc_buckets') /\ Members(lc_buckets') \in SUBSET Members(lc_buckets)
    BY <1>1, <1>2 DEF ShortSaid
  <2>. QED BY <1>2, <2>1, <2>2, SaidFewer
<1>10. CacheType' /\ strays' \in Nat /\ Exact' /\ reduce' \in Timeouts \cup {-1, 0}
  BY <1>1 DEF Counted, CacheType, Exact, Exists, Idle, InCache
<1>. QED BY <1>5, <1>8, <1>9, <1>10 DEF Counted, Short

(* An answer goes into the cache. *)
LEMMA PutCounted ==
    ASSUME Counted, Exists, ShortSaid', UNCHANGED strays,
           NEW size \in Nat, InCache' = InCache + size,
           lc' = [lc EXCEPT !.memused = (lc.memused + size) % Width], CheckMemused(lc')
    PROVE  CacheType' /\ Exact' /\ reduce' \in Timeouts \cup {-1, 0}
<1>1. Width \in Nat \ {0} /\ Base \in Nat
  BY CacheAssumption
<1>2. /\ lc \in [exists : {TRUE}, enabled : BOOLEAN, timeout : Timeouts, maxmem : Limits,
                 memused : 0..Width - 1, options : {"none"} \cup Options]
      /\ lc.maxmem \in Nat /\ lc.timeout \in Nat /\ lc.timeout \in Timeouts
  BY Fields DEF Counted
<1>3. InCache \in Nat /\ strays \in Nat /\ lc.memused = (Base + InCache - strays) % Width
  BY Room DEF Counted, Short, Exact
<1>4. (lc.memused + size) % Width = (Base + InCache' - strays') % Width
  <2>. DEFINE x == Base + InCache - strays
  <2>. HIDE DEF InCache
  <2>1. x \in Int /\ x + size = Base + InCache' - strays' /\ lc.memused = x % Width
    BY <1>1, <1>3
  <2>. HIDE DEF x
  <2>2. ((x % Width) + size) % Width = (x + size) % Width
    BY <1>1, <2>1, ModAdd
  <2>. QED BY <2>1, <2>2
<1>5. (lc.memused + size) % Width \in 0..Width - 1
  <2>1. lc.memused + size \in Int
    BY <1>2
  <2>. QED BY <1>1, <2>1, DivMod
<1>. DEFINE u == (lc.memused + size) % Width
<1>6. u \in 0..Width - 1 /\ u = (Base + InCache' - strays') % Width /\ lc' = [lc EXCEPT !.memused = u]
  BY <1>4, <1>5
<1>. HIDE DEF u, InCache
<1>7. /\ lc' \in [exists : {TRUE}, enabled : BOOLEAN, timeout : Timeouts, maxmem : Limits,
                  memused : 0..Width - 1, options : {"none"} \cup Options]
      /\ lc'.memused = u /\ lc'.maxmem = lc.maxmem /\ lc'.timeout = lc.timeout
  BY <1>2, <1>6
<1>8. /\ reduce' \in Timeouts \cup {-1, 0}
      /\ Idle' /\ lc'.maxmem > Base => ~TooBig(lc')
  <2>1. reduce' = IF lc'.maxmem <= Base \/ ~TooBig(lc') THEN -1 ELSE lc.timeout
    BY <1>7 DEF CheckMemused
  <2>2. lc.timeout # -1 /\ ~(lc'.maxmem > Base /\ lc'.maxmem <= Base)
    BY <1>1, <1>2, <1>7
  <2>. QED BY <1>2, <2>1, <2>2 DEF Idle
<1>9. CacheType' /\ Exists'
  BY <1>7 DEF CacheType, Exists
<1>10. Exact'
  BY <1>6, <1>7, <1>8, <1>9 DEF Exact
<1>. QED BY <1>8, <1>9, <1>10

(* The last response: the request leaves the list, and its answer, whose   *)
(* id no answer has, goes into a bucket or nowhere.                        *)
LEMMA FinalCounted ==
    ASSUME Counted, NEW id \in MsgIds, NEW code \in Codes, Final(id, code)
    PROVE  Counted'
<1>. DEFINE msg == [type |-> "result", code |-> code]
            new == Appended(id, msg)
            p   == Pending(id)
            m   == new[p]
            answer == [id |-> m.id, req |-> m.req, chain |-> m.chain, age |-> 0]
<1>1. /\ msg \in Message /\ ops[id].state = "running"
      /\ Answer(id, msg, "ended") /\ Complete(id, msg) /\ UNCHANGED <<ld_msgid, strays>>
  BY DEF Final, Message
<1>. HIDE DEF msg
<1>2. /\ ShortOps /\ OpsOK /\ ShortWaits /\ ShortSaid
      /\ ld_msgid \in Int /\ ld_msgid' = ld_msgid /\ MaxEntries \in Nat
      /\ lc_requests \in Seq(Waiting) /\ OneEach(lc_requests)
  <2>1. ShortOps /\ OpsOK /\ ShortWaits /\ ShortSaid
    BY DEF Counted, Short, ShortOps
  <2>2. ld_msgid \in Int /\ lc_requests \in Seq(Waiting) /\ OneEach(lc_requests)
    BY <2>1 DEF OpsOK, ShortWaits
  <2>. QED BY <1>1, <2>1, <2>2, CacheAssumption
<1>3. /\ OpsOK'
      /\ \A k \in MsgIds : k # id => ops'[k] = ops[k]
      /\ ops'[id].state # "running"
  BY <1>1, <1>2, AnsweredOps
<1>4. ShortOps'
  <2>1. \A k \in MsgIds : ops'[k].state = "running" => Len(ops'[k].chain) <= MaxEntries
    BY <1>2, <1>3 DEF ShortOps
  <2>. QED BY <1>3, <2>1 DEF ShortOps
<1>5. \A i \in DOMAIN lc_requests :
         /\ lc_requests[i] \in Waiting /\ lc_requests[i].id \in MsgIds
         /\ ops'[lc_requests[i].id].state = "running" =>
               /\ ops[lc_requests[i].id].state = "running"
               /\ ops'[lc_requests[i].id].chain = ops[lc_requests[i].id].chain
  <2>1. \A i \in DOMAIN lc_requests : lc_requests[i] \in Waiting
    BY <1>2
  <2>. QED BY <1>3, <2>1 DEF Waiting
<1>6. reduce \in Timeouts \cup {-1, 0}
  BY DEF Counted
<1>7. CASE Enabled /\ p # 0
  <2>1. /\ lc_requests' = RemoveAt(lc_requests, p)
        /\ IF Keep(m.req.type, msg.code) THEN Put(m) ELSE UNCHANGED <<lc, lc_buckets, reduce>>
    BY <1>1, <1>7 DEF Complete
  <2>2. p \in DOMAIN lc_requests /\ lc_requests[p].id = id
    BY <1>2, <1>7, PendingIn
  <2>3. m \in Waiting /\ m.id = id /\ m.chain = Append(lc_requests[p].chain, msg)
    <3>1. new \in Seq(Waiting) /\ DOMAIN new = DOMAIN lc_requests
      BY <1>1, <1>2, AppendedIs
    <3>2. new[p] = [lc_requests[p] EXCEPT !.chain = Append(@, msg)]
      BY <2>2 DEF Appended
    <3>. HIDE DEF new, p
    <3>3. m \in Waiting
      BY <2>2, <3>1
    <3>4. m.id = lc_requests[p].id /\ m.chain = Append(lc_requests[p].chain, msg)
      BY <1>5, <2>2, <3>2 DEF Waiting
    <3>. QED BY <2>2, <3>3, <3>4
  <2>. HIDE DEF p, m
  <2>4. /\ lc_requests' \in Seq(Waiting) /\ OneEach(lc_requests')
        /\ \A k \in DOMAIN lc_requests' :
              \E i \in DOMAIN lc_requests : lc_requests'[k] = lc_requests[i] /\ lc_requests[i].id # id
    BY <1>2, <2>1, <2>2, RemoveIn, RemoveOneEach
  <2>5. ShortWaits'
    <3>1. \A k \in DOMAIN lc_requests' : \E i \in DOMAIN lc_requests : lc_requests'[k] = lc_requests[i]
      BY <2>4
    <3>2. ld_msgid \in Int /\ ld_msgid' \in Int /\ ld_msgid <= ld_msgid'
      BY <1>2
    <3>. QED BY <1>2, <1>5, <2>4, <3>1, <3>2, WaitsFewer
  <2>6. CASE Keep(m.req.type, msg.code)
    <3>. DEFINE b == Hash(m.req)
    <3>1. /\ lc_buckets' = [lc_buckets EXCEPT ![b] = <<answer>> \o @]
          /\ lc' = [lc EXCEPT !.memused = (lc.memused + MsgSize(m)) % Width]
          /\ CheckMemused(lc')
      BY <2>1, <2>6 DEF Put
    <3>2. /\ DOMAIN lc_buckets = 0..Buckets - 1
          /\ \A h \in DOMAIN lc_buckets : lc_buckets[h] \in Seq(Small)
          /\ OneId(lc_buckets)
      BY <1>2 DEF ShortSaid
    <3>3. b \in DOMAIN lc_buckets
      BY <2>3, <3>2, HashType DEF Waiting
    <3>4. /\ answer \in Small /\ answer.id = id /\ MsgSize(answer) = MsgSize(m) /\ MsgSize(m) \in Nat
      <4>1. Len(lc_requests[p].chain) <= MaxEntries
        BY <1>2, <2>2, Zenon DEF ShortWaits
      <4>2. lc_requests[p].chain \in Seq(Message)
        BY <1>5, <2>2 DEF Waiting
      <4>3. Len(m.chain) <= MaxEntries + 1 /\ Len(m.chain) \in Nat
        BY <1>2, <2>3, <4>1, <4>2
      <4>4. answer \in Kept
        BY <2>3 DEF Waiting, Kept
      <4>5. answer.chain = m.chain
        OBVIOUS
      <4>. QED BY <2>3, <4>3, <4>4, <4>5 DEF Small, MsgSize
    <3>. HIDE DEF b, answer
    <3>5. /\ DOMAIN lc_buckets' = DOMAIN lc_buckets
          /\ \A h \in DOMAIN lc_buckets : lc_buckets'[h] = IF h = b THEN <<answer>> \o lc_buckets[h] ELSE lc_buckets[h]
      BY <3>1, <3>2
    <3>6. \A n \in Members(lc_buckets) : n.id # answer.id
      BY <1>2, <2>2, <3>4 DEF ShortSaid
    <3>7. /\ SmallLists(lc_buckets') /\ Members(lc_buckets') = Members(lc_buckets) \cup {answer}
          /\ Total(lc_buckets') = Total(lc_buckets) + MsgSize(answer)
      <4>1. SmallLists(lc_buckets) /\ Headed(lc_buckets', lc_buckets, b, answer)
        BY <3>2, <3>5 DEF SmallLists, Headed
      <4>. QED BY <3>3, <3>4, <3>6, <4>1, Prepended
    <3>8. ShortSaid'
      <4>1. id <= ld_msgid
        <5>1. ~(id > ld_msgid)
          BY <1>1, <1>2 DEF OpsOK, NoOp
        <5>. QED BY <1>2, <5>1 DEF MsgIds
      <4>2. \A k \in DOMAIN lc_requests' : lc_requests'[k].id # id
        BY <2>4
      <4>3. \A n \in Members(lc_buckets) : \A k \in DOMAIN lc_requests' : lc_requests'[k].id # n.id
        BY <1>2, <2>4 DEF ShortSaid
      <4>4. \A n \in Members(lc_buckets) : n.id <= ld_msgid
        BY <1>2 DEF ShortSaid
      <4>5. \A n \in Members(lc_buckets') :
               n.id <= ld_msgid' /\ \A k \in DOMAIN lc_requests' : lc_requests'[k].id # n.id
        BY <1>2, <3>4, <3>7, <4>1, <4>2, <4>3, <4>4
      <4>. QED BY <3>2, <3>5, <3>7, <4>5 DEF ShortSaid, SmallLists
    <3>9. InCache' = InCache + MsgSize(m)
      BY <3>4, <3>7 DEF InCache
    <3>10. CacheType' /\ Exact' /\ reduce' \in Timeouts \cup {-1, 0}
      <4>1. Exists
        BY <1>7 DEF Enabled, Exists
      <4>. QED BY <1>1, <3>1, <3>4, <3>8, <3>9, <4>1, PutCounted
    <3>11. strays' \in Nat
      BY <1>1 DEF Counted
    <3>. QED BY <1>4, <2>5, <3>8, <3>10, <3>11 DEF Counted, Short
  <2>7. CASE ~Keep(m.req.type, msg.code)
    <3>1. UNCHANGED <<lc, lc_buckets, reduce, strays>>
      BY <1>1, <2>1, <2>7
    <3>2. ShortSaid'
      <4>1. \A k \in DOMAIN lc_requests' : \E j \in DOMAIN lc_requests : lc_requests'[k].id = lc_requests[j].id
        BY <2>4
      <4>2. /\ DOMAIN lc_buckets' = 0..Buckets - 1 /\ \A h \in 0..Buckets - 1 : lc_buckets'[h] \in Seq(Small)
            /\ OneId(lc_buckets') /\ Members(lc_buckets') \in SUBSET Members(lc_buckets)
        BY <1>2, <3>1 DEF ShortSaid
      <4>. QED BY <1>2, <4>1, <4>2, SaidFewer
    <3>3. CacheType' /\ strays' \in Nat /\ Exact' /\ reduce' \in Timeouts \cup {-1, 0}
      BY <3>1 DEF Counted, CacheType, Exact, Exists, Idle, InCache
    <3>. QED BY <1>4, <2>5, <3>2, <3>3 DEF Counted, Short
  <2>. QED BY <2>6, <2>7
<1>8. CASE ~(Enabled /\ p # 0)
  <2>1. UNCHANGED <<lc, lc_requests, lc_buckets, reduce, strays>>
    BY <1>1, <1>8 DEF Complete, lists
  <2>2. ShortWaits'
    BY <1>2, <1>5, <2>1, WaitsFewer
  <2>3. ShortSaid'
    BY <1>2, <2>1 DEF ShortSaid
  <2>4. CacheType' /\ strays' \in Nat /\ Exact' /\ reduce' \in Timeouts \cup {-1, 0}
    BY <2>1 DEF Counted, CacheType, Exact, Exists, Idle, InCache
  <2>. QED BY <1>4, <2>2, <2>3, <2>4 DEF Counted, Short
<1>. QED BY <1>7, <1>8

(* A round of check_cache_memused: the size of what is old goes off the    *)
(* count, and the rounds end when it is within the limit.                  *)
LEMMA RoundCounted ==
    ASSUME Counted, Round
    PROVE  Counted'
<1>. DEFINE ins == [h \in DOMAIN lc_buckets |-> {i \in DOMAIN lc_buckets[h] : ~(lc_buckets[h][i].age > reduce)}]
            outs == [h \in DOMAIN lc_buckets |-> {i \in DOMAIN lc_buckets[h] : lc_buckets[h][i].age > reduce}]
            taken == [h \in DOMAIN lc_buckets |-> Pick(lc_buckets[h], outs[h])]
            a == Total(taken)
<1>1. /\ lc_buckets' = [h \in DOMAIN lc_buckets |-> Pick(lc_buckets[h], ins[h])]
      /\ lc' = [lc EXCEPT !.memused = Minus(lc.memused, a)]
      /\ reduce # -1 /\ reduce' = IF TooBig(lc') THEN reduce * (3 \div 4) ELSE -1
      /\ UNCHANGED <<lc_requests, ld_msgid, ops, strays>>
  BY DEF Round, Only
<1>2. /\ Apart(lc_buckets, ins, outs)
      /\ \A h \in DOMAIN lc_buckets :
            ins[h] \in SUBSET DOMAIN lc_buckets[h] /\ outs[h] \in SUBSET DOMAIN lc_buckets[h]
  BY DEF Apart
<1>. HIDE DEF ins, outs
<1>3. /\ DOMAIN taken = DOMAIN lc_buckets /\ DOMAIN lc_buckets' = DOMAIN lc_buckets
      /\ \A h \in DOMAIN lc_buckets : taken[h] = Pick(lc_buckets[h], outs[h])
      /\ \A h \in DOMAIN lc_buckets : lc_buckets'[h] = Pick(lc_buckets[h], ins[h])
  BY <1>1
<1>. HIDE DEF taken
<1>4. /\ ShortOps /\ ShortWaits /\ ShortSaid /\ SmallLists(lc_buckets)
      /\ DOMAIN lc_buckets = 0..Buckets - 1 /\ \A h \in DOMAIN lc_buckets : lc_buckets[h] \in Seq(Small)
  BY DEF Counted, Short, ShortSaid, SmallLists
<1>5. \A h \in DOMAIN lc_buckets : /\ lc_buckets'[h] \in Seq(Small)
                                   /\ Taken(lc_buckets'[h], lc_buckets[h], ins[h])
                                   /\ Taken(taken[h], lc_buckets[h], outs[h])
  <2>. TAKE h \in DOMAIN lc_buckets
  <2>. DEFINE ms == lc_buckets[h]
              s == ins[h]
              t == outs[h]
  <2>1. /\ ms \in Seq(Small) /\ s \in SUBSET DOMAIN ms /\ t \in SUBSET DOMAIN ms
        /\ taken[h] = Pick(ms, t) /\ lc_buckets'[h] = Pick(ms, s)
    BY <1>2, <1>3, <1>4
  <2>. HIDE DEF ms, s, t
  <2>2. /\ Pick(ms, s) \in Seq(Small) /\ Taken(Pick(ms, s), ms, s) /\ Taken(Pick(ms, t), ms, t)
    BY <2>1, PickTaken
  <2>3. lc_buckets'[h] \in Seq(Small) /\ Taken(lc_buckets'[h], ms, s) /\ Taken(taken[h], ms, t)
    BY <2>1, <2>2
  <2>. QED BY <2>3 DEF ms, s, t
<1>6. EachTaken(lc_buckets', lc_buckets, ins) /\ EachTaken(taken, lc_buckets, outs)
  BY <1>2, <1>3, <1>5 DEF EachTaken
<1>7. /\ OneId(lc_buckets') /\ Members(lc_buckets') \in SUBSET Members(lc_buckets)
      /\ Total(lc_buckets) = Total(lc_buckets') + a
      /\ a \in Nat
  BY <1>2, <1>4, <1>6, TakenOut
<1>. HIDE DEF a
<1>8. ShortOps' /\ ShortWaits'
  BY <1>1, <1>4 DEF ShortOps, OpsOK, ShortWaits
<1>9. ShortSaid'
  <2>1. ld_msgid \in Int /\ ld_msgid' = ld_msgid /\ lc_requests' = lc_requests
    BY <1>1, <1>4 DEF ShortOps, OpsOK
  <2>. QED BY <1>3, <1>4, <1>5, <1>7, <2>1, SaidFewer
<1>10. InCache \in Nat /\ Base + InCache < Width /\ InCache' \in Nat /\ InCache = InCache' + a
  <2>1. (ShortSaid => InCache \in Nat)'
    BY Room, PTL
  <2>2. InCache = InCache' + a
    BY <1>7 DEF InCache
  <2>3. InCache \in Nat /\ Base + InCache < Width
    BY <1>4, Room
  <2>. QED BY <1>9, <2>1, <2>2, <2>3
<1>11. /\ CacheType' /\ Exists' /\ strays' \in Nat
       /\ lc'.memused = (Base + InCache' - strays') % Width
  <2>1. CacheType /\ strays \in Nat /\ Exists /\ lc.memused = (Base + InCache - strays) % Width
    BY <1>1 DEF Counted, Exact, Idle
  <2>2. 0 + a = a /\ 0 \in Nat /\ strays' = strays + 0
    BY <1>1, <1>7, <2>1
  <2>3. lc' = [lc EXCEPT !.memused = Minus(lc.memused, 0 + a)]
    BY <1>1, <2>2
  <2>. QED BY <1>7, <1>10, <2>1, <2>2, <2>3, Reduced
<1>12. reduce' \in Timeouts \cup {-1, 0} /\ (Idle' => ~TooBig(lc'))
  <2>1. reduce \in Int /\ 3 \div 4 = 0
    BY CacheAssumption DEF Counted
  <2>2. reduce * (3 \div 4) = 0
    BY <2>1
  <2>. QED BY <1>1, <2>2 DEF Idle
<1>13. Exact'
  <2>. HIDE DEF InCache
  <2>. QED BY <1>11, <1>12 DEF Exact
<1>. QED BY <1>8, <1>9, <1>11, <1>12, <1>13 DEF Counted, Short

(* The clock changes no size.                                              *)
LEMMA TickCounted ==
    ASSUME Counted, Tick
    PROVE  Counted'
<1>1. /\ lc_buckets' = [h \in DOMAIN lc_buckets |->
                          [i \in DOMAIN lc_buckets[h] |-> [lc_buckets[h][i] EXCEPT !.age = Older(lc_buckets[h][i].age)]]]
      /\ UNCHANGED <<lc, lc_requests, ld_msgid, reduce, strays>>
  BY DEF Tick
<1>2. /\ ShortOps /\ OpsOK /\ ShortWaits /\ ShortSaid
      /\ ld_msgid \in Int /\ lc_requests \in Seq(Waiting) /\ OneEach(lc_requests)
  <2>1. ShortOps /\ OpsOK /\ ShortWaits /\ ShortSaid
    BY DEF Counted, Short, ShortOps
  <2>. QED BY <2>1 DEF OpsOK, ShortWaits
<1>3. OpsOK' /\ \A id \in MsgIds : ops'[id].state = "running" => ops'[id] = ops[id]
  BY <1>2, TickOps
<1>4. ShortOps'
  <2>1. \A id \in MsgIds : ops'[id].state = "running" => Len(ops'[id].chain) <= MaxEntries
    BY <1>2, <1>3 DEF ShortOps
  <2>. QED BY <1>3, <2>1 DEF ShortOps
<1>5. ShortWaits'
  <2>1. \A i \in DOMAIN lc_requests : lc_requests[i] \in Waiting
    BY <1>2
  <2>2. \A i \in DOMAIN lc_requests :
           ops'[lc_requests[i].id].state = "running" =>
              /\ ops[lc_requests[i].id].state = "running"
              /\ ops'[lc_requests[i].id].chain = ops[lc_requests[i].id].chain
    BY <1>3, <2>1 DEF Waiting
  <2>. QED BY <1>1, <1>2, <2>2, WaitsFewer
<1>6. \A m \in Small : /\ [m EXCEPT !.age = Older(m.age)] \in Small
                       /\ [m EXCEPT !.age = Older(m.age)].id = m.id
                       /\ [m EXCEPT !.age = Older(m.age)].chain = m.chain
  <2>. TAKE m \in Small
  <2>1. CASE m \in Waiting
    <3>1. [m EXCEPT !.age = Older(m.age)] = m
      BY <2>1 DEF Waiting
    <3>. QED BY <3>1
  <2>2. CASE m \in Kept
    <3>1. Older(m.age) \in Nat
      BY <2>2, LastAgeType DEF Kept, Older
    <3>. DEFINE n == [m EXCEPT !.age = Older(m.age)]
    <3>2. n \in Kept /\ n.id = m.id /\ n.chain = m.chain
      BY <2>2, <3>1 DEF Kept
    <3>. HIDE DEF n
    <3>3. n \in Small
      BY <3>2 DEF Small
    <3>. QED BY <3>2, <3>3 DEF n
  <2>. QED BY <2>1, <2>2 DEF Small
<1>7. /\ DOMAIN lc_buckets = 0..Buckets - 1 /\ DOMAIN lc_buckets' = 0..Buckets - 1
      /\ \A h \in 0..Buckets - 1 : lc_buckets[h] \in Seq(Small)
      /\ OneId(lc_buckets)
  BY <1>1, <1>2 DEF ShortSaid
<1>8. \A h \in 0..Buckets - 1 :
         /\ DOMAIN lc_buckets'[h] = DOMAIN lc_buckets[h] /\ lc_buckets'[h] \in Seq(Small)
         /\ \A i \in DOMAIN lc_buckets[h] : /\ lc_buckets'[h][i].id = lc_buckets[h][i].id
                                            /\ lc_buckets'[h][i].chain = lc_buckets[h][i].chain
  <2>. TAKE h \in 0..Buckets - 1
  <2>. DEFINE ms == lc_buckets[h]
              ns == lc_buckets'[h]
  <2>1. ms \in Seq(Small) /\ ns = [i \in DOMAIN ms |-> [ms[i] EXCEPT !.age = Older(ms[i].age)]]
    BY <1>1, <1>7
  <2>. HIDE DEF ms, ns
  <2>2. DOMAIN ms = 1..Len(ms) /\ Len(ms) \in Nat /\ \A i \in DOMAIN ms : ms[i] \in Small
    BY <2>1
  <2>3. \A i \in DOMAIN ms : ns[i] \in Small /\ ns[i].id = ms[i].id /\ ns[i].chain = ms[i].chain
    BY <1>6, <2>1, <2>2
  <2>4. DOMAIN ns = DOMAIN ms /\ ns \in Seq(Small)
    <3>1. DOMAIN ns = DOMAIN ms /\ ns = [i \in 1..Len(ms) |-> ns[i]]
      BY <2>1, <2>2
    <3>. QED BY <2>2, <2>3, <3>1
  <2>. QED BY <2>3, <2>4 DEF ms, ns
<1>9. Total(lc_buckets') = Total(lc_buckets) /\ OneId(lc_buckets')
  BY <1>7, <1>8, SameSize
<1>10. ShortSaid'
  <2>1. \A m \in Members(lc_buckets') : \E n \in Members(lc_buckets) : m.id = n.id
    <3>. TAKE m \in Members(lc_buckets')
    <3>1. PICK h \in DOMAIN lc_buckets' : \E i \in DOMAIN lc_buckets'[h] : m = lc_buckets'[h][i]
      BY MembersIn
    <3>2. PICK i \in DOMAIN lc_buckets'[h] : m = lc_buckets'[h][i]
      BY <3>1
    <3>3. h \in DOMAIN lc_buckets /\ i \in DOMAIN lc_buckets[h] /\ m.id = lc_buckets[h][i].id
      BY <1>7, <1>8, <3>2
    <3>4. lc_buckets[h][i] \in Members(lc_buckets)
      BY <3>3, MembersIn
    <3>. QED BY <3>3, <3>4
  <2>2. \A n \in Members(lc_buckets) :
           n.id <= ld_msgid' /\ \A i \in DOMAIN lc_requests' : lc_requests'[i].id # n.id
    BY <1>1, <1>2 DEF ShortSaid
  <2>3. \A m \in Members(lc_buckets') :
           m.id <= ld_msgid' /\ \A i \in DOMAIN lc_requests' : lc_requests'[i].id # m.id
    BY <2>1, <2>2
  <2>. QED BY <1>7, <1>8, <1>9, <2>3 DEF ShortSaid
<1>11. CacheType' /\ strays' \in Nat /\ Exact' /\ reduce' \in Timeouts \cup {-1, 0}
  <2>1. InCache' = InCache
    BY <1>9 DEF InCache
  <2>2. /\ CacheType /\ strays \in Nat /\ Exact /\ reduce \in Timeouts \cup {-1, 0}
        /\ lc' = lc /\ reduce' = reduce /\ strays' = strays
    BY <1>1 DEF Counted
  <2>. HIDE DEF InCache
  <2>3. (Exists' <=> Exists) /\ (Idle' <=> Idle) /\ (TooBig(lc') <=> TooBig(lc))
    BY <2>2 DEF Exists, Idle
  <2>. QED BY <2>1, <2>2, <2>3 DEF CacheType, Exact
<1>. QED BY <1>4, <1>5, <1>10, <1>11 DEF Counted, Short

-----------------------------------------------------------------------------
LEMMA NextCounted ==
    ASSUME Counted, [Next]_vars
    PROVE  Counted'
<1>1. CASE UNCHANGED vars
  <2>1. UNCHANGED <<lists, ops, ld_msgid>> /\ UNCHANGED <<lc, reduce, strays>>
    BY <1>1 DEF vars, lists
  <2>2. Short' /\ InCache' = InCache
    BY <2>1, ShortStays DEF Counted
  <2>3. CacheType' /\ strays' \in Nat /\ Exact' /\ reduce' \in Timeouts \cup {-1, 0}
    <3>. HIDE DEF InCache
    <3>. QED BY <2>1, <2>2 DEF Counted, CacheType, Exact, Exists, Idle
  <2>. QED BY <2>2, <2>3 DEF Counted
<1>2. ASSUME NEW t \in Timeouts, NEW n \in Limits, Enable(t, n) PROVE Counted'
  BY <1>2, EnableCounted
<1>3. CASE Disable
  BY <1>3, DisableCounted
<1>4. ASSUME NEW o \in Options, SetOptions(o) PROVE Counted'
  BY <1>4, SetOptionsCounted
<1>5. CASE Flush
  BY <1>5, FlushCounted
<1>6. CASE Destroy
  BY <1>6, DestroyCounted
<1>7. ASSUME NEW id \in MsgIds, UncacheRequest(id) PROVE Counted'
  BY <1>7, UncacheRequestCounted
<1>8. ASSUME NEW dn \in Entries, UncacheEntry(dn) PROVE Counted'
  BY <1>8, UncacheEntryCounted
<1>9. ASSUME NEW req \in Requests, Ask(req) PROVE Counted'
  BY <1>9, AskCounted
<1>10. ASSUME NEW id \in MsgIds, NEW dn \in Entries, Entry(id, dn) PROVE Counted'
  BY <1>10, EntryCounted
<1>11. ASSUME NEW id \in MsgIds, NEW c \in Codes, Final(id, c) PROVE Counted'
  BY <1>11, FinalCounted
<1>12. CASE Round
  BY <1>12, RoundCounted
<1>13. CASE Tick
  BY <1>13, TickCounted
<1>. QED BY <1>1, <1>2, <1>3, <1>4, <1>5, <1>6, <1>7, <1>8, <1>9, <1>10, <1>11, <1>12, <1>13 DEF Next

(* The count of the cache is exact in every reachable state, whether or    *)
(* not the application disables the cache while requests are under way:    *)
(* every line of cache.c that puts a message into a bucket or takes one    *)
(* out (183, 203, 352, 411, 649) has its size, and what empties the cache  *)
(* (48, 124) starts again.                                                 *)
THEOREM CountedTheorem == Spec => []Counted
<1>1. Counted /\ [Next]_vars => Counted'
  BY NextCounted
<1>. QED BY InitCounted, <1>1, PTL DEF Spec

(* What lc_memused says is what the buckets hold less what was subtracted  *)
(* for requests under way, and outside check_cache_memused it is within    *)
(* lc_maxmem or nothing is left, for any requests, limits and timeouts.    *)
THEOREM MemusedTheorem == Spec => []MemusedExact
  BY CountedTheorem, CountedTypes, PTL

(* Outside check_cache_memused the count is within two thirds of the       *)
(* limit, if nothing was subtracted for requests under way and two thirds  *)
(* of any limit leave room for the empty cache (below that the loop of     *)
(* cache.c line 636 has nothing to remove and does not end).               *)
THEOREM LimitTheorem ==
    ASSUME \A n \in Limits : n > Base => Base <= (n * 2) \div 3
    PROVE  Spec => [](Exists /\ Idle /\ strays = 0 /\ lc.maxmem > Base => ~TooBig(lc))
<1>1. ASSUME Counted
      PROVE  Exists /\ Idle /\ strays = 0 /\ lc.maxmem > Base => ~TooBig(lc)
  <2>. SUFFICES ASSUME Exists, Idle, strays = 0, lc.maxmem > Base, InCache = 0
                PROVE  ~TooBig(lc)
    BY <1>1, Zenon DEF Counted, Exact
  <2>1. lc.memused = Base
    <3>1. Base \in Nat /\ Base \in 0..Width - 1 /\ Width \in Nat \ {0}
      BY CacheAssumption
    <3>2. Base % Width = Base
      BY <3>1, ModSmall
    <3>3. lc.memused = (Base + InCache - strays) % Width
      BY <1>1 DEF Counted, Exact
    <3>. HIDE DEF InCache
    <3>4. Base + InCache - strays = Base
      BY <3>1
    <3>. QED BY <3>2, <3>3, <3>4
  <2>2. lc.maxmem \in Limits /\ lc.maxmem \in Nat /\ Base \in Nat
    BY <1>1, Fields, CacheAssumption DEF Counted
  <2>. DEFINE limit == (lc.maxmem * 2) \div 3
  <2>3. Base <= limit /\ limit \in Int /\ (TooBig(lc) <=> Base > limit)
    BY <2>1, <2>2 DEF TooBig
  <2>. HIDE DEF limit
  <2>. QED BY <2>2, <2>3
<1>. QED BY <1>1, CountedTheorem, PTL

=============================================================================
