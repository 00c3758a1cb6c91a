---------------------------- MODULE ChaseProof ------------------------------
(***************************************************************************)
(* Further proofs about LdapReferrals: what becomes of the lists that are  *)
(* queued on a connection, how often the application is told of the end of *)
(* an operation, and the reference counts of the connections.              *)
(***************************************************************************)
EXTENDS ReferralsProof

(* Without faults.  A chase is at its first URL, or there is none it       *)
(* follows; while a connection is being bound a chase waits for that; and  *)
(* what is queued on a connection has its chase to come - the one that     *)
(* waits there or the innermost, which is about to send there - or was     *)
(* left there when the connection was bound for a referral of LDAPv2.      *)
At(k, s)  == stack[k].st \in {"wait", "bound"} /\ stack[k].refs[stack[k].i] = s
Coming(s) == \E k \in DOMAIN stack : At(k, s)
AtTop(s)  == /\ stack # <<>> /\ Top.v3 /\ Top.st = "next" /\ Top.i <= Len(Top.refs)
             /\ Top.refs[Top.i] = s /\ ~conn[s].rebinding

Straight ==
    \A k \in DOMAIN stack : /\ stack[k].st # "refused"
                            /\ stack[k].i = 1 \/ (stack[k].st = "next" /\ stack[k].i > Len(stack[k].refs))

LeftIn(q) == \A j \in DOMAIN q : q[j].op \in left

Lined(s) ==
    /\ ~conn[s].broken
    /\ ~conn[s].open => ~conn[s].rebinding /\ conn[s].queue = <<>>
    /\ conn[s].rebinding => Coming(s)
    /\ \A j \in DOMAIN conn[s].queue : conn[s].queue[j].refs[1] = s
    /\ conn[s].queue # <<>> => Coming(s) \/ AtTop(s) \/ LeftIn(conn[s].queue)

Smooth == session = "open" /\ faults = <<>> => Straight /\ \A s \in Servers : Lined(s)

(* A connection as it was, or closed. *)
SameConn(s) ==
    \/ conn'[s] = NoConnection
    \/ /\ conn'[s].broken = conn[s].broken /\ conn'[s].open = conn[s].open
       /\ conn'[s].rebinding = conn[s].rebinding /\ conn'[s].queue = conn[s].queue

LEMMA LinedThen ==
    ASSUME NEW s \in Servers, Lined(s), left \subseteq left', SameConn(s),
           Coming(s) => Coming(s)', AtTop(s) => Coming(s)' \/ AtTop(s)'
    PROVE  Lined(s)'
<1>1. CASE conn'[s] = NoConnection
  BY <1>1 DEF Lined, NoConnection
<1>2. CASE conn'[s] # NoConnection
  <2>1. LeftIn(conn[s].queue) => LeftIn(conn[s].queue)'
    BY <1>2 DEF LeftIn, SameConn
  <2>. QED BY <1>2, <2>1 DEF Lined, SameConn
<1>. QED BY <1>1, <1>2

LEMMA DroppedIs ==
    ASSUME TypeOK, NEW s \in Servers, NEW n \in Int, conn' = Dropped(conn, s, n)
    PROVE  \A t \in Servers : SameConn(t)
<1>. SUFFICES ASSUME NEW t \in Servers PROVE SameConn(t)
  OBVIOUS
<1>1. conn \in [Servers -> Connection] /\ conn[s] \in Connection
  BY DEF TypeOK
<1>2. PICK k \in Int : k = conn[s].refcnt - n
  BY <1>1 DEF Connection
<1>3. conn' = IF k <= 0 THEN [conn EXCEPT ![s] = NoConnection] ELSE [conn EXCEPT ![s] = [conn[s] EXCEPT !.refcnt = k]]
  BY <1>1, <1>2 DEF Dropped
<1>. QED BY <1>1, <1>3 DEF SameConn, Connection

(* While something is read every chase waits for its bind. *)
LEMMA AllInBind ==
    ASSUME IInv, Reading
    PROVE  /\ \A k \in DOMAIN stack : stack[k].st \in InBind
           /\ stack # <<>> => Top.st = "wait"
<1>0. TypeOK /\ Core /\ session = "open" /\ (stack # <<>> => Top.st = "wait")
  BY DEF IInv, Reading
<1>1. stack # <<>> => stack[1].st \in InBind
  BY <1>0, TopPicked DEF InBind
<1>2. DOMAIN stack = 1..Len(stack) /\ Len(stack) \in Nat
  BY <1>0 DEF TypeOK
<1>. QED BY <1>0, <1>1, <1>2 DEF Core, Nested

(* A chase that is at its end does not wait; what is left of the others.   *)
LEMMA SmoothEnd ==
    ASSUME TypeOK, Straight, \A s \in Servers : Lined(s) /\ SameConn(s), left \subseteq left',
           stack # <<>>, stack' = Tail(stack),
           Top.st = "followed" \/ (Top.st = "next" /\ Top.i > Len(Top.refs))
    PROVE  Straight' /\ \A s \in Servers : Lined(s)'
<1>1. stack \in Seq(Chase) /\ Top \in Chase /\ Top = stack[1] /\ 1 \in DOMAIN stack
      /\ Top.refs \in Seq(Servers) /\ Top.i \in Nat
  BY TopPicked
<1>2. /\ DOMAIN stack' = {k \in Nat \ {0} : k + 1 \in DOMAIN stack}
      /\ \A k \in DOMAIN stack' : stack'[k] = stack[k + 1]
  BY <1>1, Popped
<1>3. Straight'
  BY <1>2 DEF Straight
<1>4. ASSUME NEW s \in Servers PROVE Lined(s)'
  <2>1. ASSUME NEW k \in DOMAIN stack, At(k, s) PROVE Coming(s)'
    <3>1. k # 1
      BY <1>1, <2>1 DEF At
    <3>2. PICK j \in Nat \ {0} : j + 1 = k
      <4>1. k \in Nat \ {0}
        BY <1>1
      <4>. QED BY <3>1, <4>1
    <3>3. j \in DOMAIN stack' /\ stack'[j] = stack[k]
      BY <1>2, <3>2
    <3>. QED BY <2>1, <3>3 DEF Coming, At
  <2>2. ~AtTop(s)
    BY <1>1 DEF AtTop
  <2>. QED BY <2>1, <2>2, LinedThen DEF Coming
<1>. QED BY <1>3, <1>4

LEMMA SmoothSame ==
    ASSUME Straight, \A s \in Servers : Lined(s) /\ SameConn(s), left \subseteq left',
           stack' = stack, stack # <<>> => Top.st # "next"
    PROVE  Straight' /\ \A s \in Servers : Lined(s)'
<1>1. Straight'
  BY DEF Straight
<1>2. \A s \in Servers : (Coming(s) => Coming(s)') /\ ~AtTop(s)
  BY DEF Coming, At, AtTop
<1>. QED BY <1>1, <1>2, LinedThen

LEMMA ComingTop ==
    ASSUME TypeOK, stack # <<>>, NEW f \in Chase, TopBecomes(f), NEW s, ~At(1, s), Coming(s)
    PROVE  Coming(s)'
<1>1. DOMAIN stack' = DOMAIN stack /\ \A k \in DOMAIN stack : k # 1 => stack'[k] = stack[k]
  BY Replaced DEF TypeOK
<1>2. PICK k \in DOMAIN stack : At(k, s)
  BY DEF Coming
<1>3. k # 1
  BY <1>2
<1>. QED BY <1>1, <1>2, <1>3 DEF Coming, At

(* A URL was followed: the list that was queued last is taken up. *)
LEMMA PullThen ==
    ASSUME TypeOK, Straight, \A s \in Servers : Lined(s), left \subseteq left', stack # <<>>,
           NEW s \in Servers, Top.refs[Top.i] = s, TopBecomes(Pull(Top, conn[s].queue)),
           Top.st = "bound" \/ (Top.st = "next" /\ Top.i <= Len(Top.refs)),
           \A t \in Servers : t # s => conn'[t] = conn[t],
           conn'[s].broken = conn[s].broken, conn'[s].open = conn[s].open,
           conn'[s].queue = Pulled(Top, conn[s].queue),
           \/ ~conn'[s].rebinding
           \/ conn'[s].rebinding = conn[s].rebinding /\ ~Top.v3 /\ Top.st = "next",
           ~Top.v3 /\ Top.st = "bound" => \A j \in DOMAIN conn[s].queue : conn[s].queue[j].op \in left'
    PROVE  Straight' /\ \A t \in Servers : Lined(t)'
<1>1. /\ stack \in Seq(Chase) /\ Top \in Chase /\ Top = stack[1] /\ 1 \in DOMAIN stack
      /\ Top.refs \in Seq(Servers) /\ Top.i \in Nat \ {0}
  BY TopPicked
<1>2. Top.i = 1
  BY <1>1 DEF Straight
<1>3. PICK q \in Seq(QueuedList) : q = conn[s].queue
  <2>1. conn[s] \in Connection
    BY DEF TypeOK
  <2>. QED BY <2>1 DEF Connection
<1>4. PICK f \in Chase :
        /\ f = Pull(Top, q) /\ f.i = 1
        /\ f.st = "followed" \/ (f.st = "next" /\ 1 <= Len(f.refs))
        /\ TakesUp(Top, q) => f.v3 /\ f.st = "next" /\ 1 <= Len(f.refs) /\ f.refs[1] = s
  <2>1. CASE TakesUp(Top, q)
    <3>1. Len(q) \in DOMAIN q /\ q[Len(q)] \in QueuedList
      BY <2>1 DEF TakesUp
    <3>2. PICK l \in RefLists : l = q[Len(q)].refs
      BY <3>1 DEF QueuedList
    <3>3. l[1] = s
      BY <1>3, <3>1, <3>2 DEF Lined
    <3>4. l \in Seq(Servers) /\ Len(l) \in Nat /\ 1 <= Len(l)
      BY RefListsAssumption
    <3>. DEFINE g1 == [Top EXCEPT !.refs = l]
                g2 == [g1 EXCEPT !.i = 1]
                g  == [g2 EXCEPT !.st = "next"]
    <3>5. g \in Chase /\ g.refs = l /\ g.i = 1 /\ g.st = "next" /\ g.v3
      <4>1. g1 \in Chase /\ g1.refs = l /\ g1.v3
        BY <1>1, <2>1 DEF Chase, TakesUp
      <4>. HIDE DEF g1
      <4>2. g2 \in Chase /\ g2.refs = l /\ g2.i = 1 /\ g2.v3
        BY <4>1 DEF Chase
      <4>. HIDE DEF g2
      <4>. QED BY <4>2 DEF Chase
    <3>6. g = Pull(Top, q)
      BY <2>1, <3>2 DEF Pull
    <3>. HIDE DEF g
    <3>. QED BY <3>3, <3>4, <3>5, <3>6
  <2>2. CASE ~TakesUp(Top, q)
    <3>. DEFINE g == [Top EXCEPT !.st = "followed"]
    <3>2. g \in Chase /\ g.i = 1 /\ g.st = "followed"
      BY <1>1, <1>2 DEF Chase
    <3>3. g = Pull(Top, q)
      BY <2>2 DEF Pull
    <3>. HIDE DEF g
    <3>. QED BY <2>2, <3>2, <3>3
  <2>. QED BY <2>1, <2>2
<1>5. /\ TopBecomes(f) /\ stack' \in Seq(Chase) /\ stack' # <<>> /\ DOMAIN stack' = DOMAIN stack
      /\ stack'[1] = f /\ Top' = f /\ \A k \in DOMAIN stack : k # 1 => stack'[k] = stack[k]
  BY <1>1, <1>3, <1>4, Replaced
<1>6. Straight'
  BY <1>4, <1>5 DEF Straight
<1>7. ASSUME NEW t \in Servers, t # s PROVE Lined(t)'
  <2>1. Coming(t) => Coming(t)'
    BY <1>1, <1>5, <1>7, ComingTop DEF At
  <2>2. ~AtTop(t)
    BY <1>7 DEF AtTop
  <2>3. SameConn(t)
    BY <1>7 DEF SameConn
  <2>. QED BY <2>1, <2>2, <2>3, LinedThen
<1>8. Lined(s)'
  <2>1. conn'[s].rebinding => Coming(s)'
    <3>1. conn'[s].rebinding => Coming(s) /\ ~At(1, s)
      BY <1>1 DEF Lined, At
    <3>. QED BY <1>5, <3>1, ComingTop
  <2>2. CASE TakesUp(Top, q)
    <3>1. Top.v3 /\ q # <<>> /\ conn[s].open /\ ~conn'[s].rebinding
      BY <1>1, <1>3, <2>2 DEF Lined, TakesUp
    <3>2. conn'[s].queue = SubSeq(q, 1, Len(q) - 1)
      BY <1>3, <2>2 DEF Pulled
    <3>3. \A j \in DOMAIN conn'[s].queue : conn'[s].queue[j].refs[1] = s
      <4>1. \A j \in DOMAIN SubSeq(q, 1, Len(q) - 1) : j \in DOMAIN q /\ SubSeq(q, 1, Len(q) - 1)[j] = q[j]
        OBVIOUS
      <4>. QED BY <1>3, <3>2, <4>1 DEF Lined
    <3>4. AtTop(s)'
      BY <1>4, <1>5, <2>2, <3>1 DEF AtTop
    <3>. QED BY <3>1, <3>3, <3>4 DEF Lined
  <2>3. CASE ~TakesUp(Top, q)
    <3>1. conn'[s].queue = q /\ (q = <<>> \/ ~Top.v3)
      BY <1>3, <2>3 DEF Pulled, TakesUp
    <3>2. ASSUME q # <<>> PROVE Coming(s)' \/ LeftIn(conn[s].queue)'
      <4>1. CASE Top.st = "bound"
        BY <1>3, <3>1, <3>2, <4>1 DEF LeftIn
      <4>2. CASE Top.st # "bound"
        <5>1. ~At(1, s) /\ ~AtTop(s)
          BY <1>1, <3>1, <3>2, <4>2 DEF At, AtTop
        <5>2. Coming(s) \/ LeftIn(conn[s].queue)
          BY <1>3, <3>2, <5>1 DEF Lined
        <5>3. LeftIn(conn[s].queue) => LeftIn(conn[s].queue)'
          BY <1>3, <3>1 DEF LeftIn
        <5>. QED BY <1>5, <5>1, <5>2, <5>3, ComingTop
      <4>. QED BY <4>1, <4>2
    <3>3. /\ ~conn'[s].broken /\ \A j \in DOMAIN conn'[s].queue : conn'[s].queue[j].refs[1] = s
          /\ ~conn'[s].open => ~conn'[s].rebinding /\ conn'[s].queue = <<>>
      BY <1>3, <3>1 DEF Lined
    <3>. QED BY <2>1, <3>1, <3>2, <3>3 DEF Lined
  <2>. QED BY <2>2, <2>3
<1>. QED BY <1>6, <1>7, <1>8

SmoothNow == IInv /\ session = "open" /\ faults = <<>> /\ Straight /\ \A s \in Servers : Lined(s)
SmoothNext == faults' = <<>> => Straight' /\ \A s \in Servers : Lined(s)'

LEMMA SmoothQueueOn ==
    ASSUME SmoothNow, NEW s \in Servers, QueueOn(s)
    PROVE  SmoothNext
<1>1. /\ TypeOK /\ Core /\ stack # <<>> /\ Top.st = "next" /\ Top.i <= Len(Top.refs) /\ Top.refs[Top.i] = s
      /\ left \subseteq left' /\ conn[s].rebinding /\ conn[s].open
      /\ TopBecomes(Queued(Top)) /\ conn \in [Servers -> Connection]
  BY DEF SmoothNow, IInv, QueueOn, AtUrl, MustQueue, TypeOK
<1>2. /\ stack \in Seq(Chase) /\ Top \in Chase /\ Top = stack[1] /\ 1 \in DOMAIN stack
      /\ Top.refs \in Seq(Servers) /\ Top.i \in Nat \ {0}
  BY <1>1, TopPicked
<1>3. Top.i = 1
  BY <1>1, <1>2 DEF SmoothNow, Straight
<1>4. PICK f \in Chase : f = Queued(Top) /\ f.i = 1 /\ f.st = "followed"
  <2>. DEFINE g == [Top EXCEPT !.st = "followed"]
  <2>1. g \in Chase /\ g.i = 1 /\ g.st = "followed"
    BY <1>2, <1>3 DEF Chase
  <2>. QED BY <2>1, Zenon DEF Queued
<1>5. /\ TopBecomes(f) /\ DOMAIN stack' = DOMAIN stack
      /\ stack'[1] = f /\ \A k \in DOMAIN stack : k # 1 => stack'[k] = stack[k]
  BY <1>1, <1>2, <1>4, Replaced
<1>6. Straight'
  BY <1>4, <1>5 DEF SmoothNow, Straight
<1>7. \A t \in Servers : Coming(t) => Coming(t)'
  BY <1>1, <1>2, <1>5, ComingTop DEF At
<1>8. ASSUME NEW t \in Servers, t # s PROVE Lined(t)'
  <2>1. SameConn(t)
    BY <1>1, <1>8 DEF QueueOn, SameConn
  <2>2. ~AtTop(t)
    BY <1>1, <1>8 DEF AtTop
  <2>. QED BY <1>1, <1>7, <2>1, <2>2, LinedThen DEF SmoothNow
<1>9. Lined(s)'
  <2>1. PICK c \in Connection : c = conn[s] /\ c.queue \in Seq(QueuedList)
    BY <1>1 DEF Connection
  <2>2. PICK x : x = [refs |-> Top.refs, op |-> req[Top.lr].orig]
    OBVIOUS
  <2>3. PICK qs : qs = Append(c.queue, x)
    OBVIOUS
  <2>4. conn' = [conn EXCEPT ![s] = [c EXCEPT !.queue = qs]]
    BY <1>1, <2>1, <2>2, <2>3 DEF QueueOn
  <2>5. /\ conn'[s].broken = conn[s].broken /\ conn'[s].open = conn[s].open
        /\ conn'[s].rebinding = conn[s].rebinding /\ conn'[s].queue = qs
    BY <1>1, <2>1, <2>4 DEF Connection
  <2>6. \A j \in DOMAIN qs : qs[j].refs[1] = s
    <3>1. x.refs[1] = s
      BY <1>1, <1>3, <2>2
    <3>2. \A j \in DOMAIN qs : (j \in DOMAIN c.queue /\ qs[j] = c.queue[j]) \/ qs[j] = x
      BY <2>1, <2>3
    <3>. QED BY <2>1, <3>1, <3>2 DEF SmoothNow, Lined
  <2>7. Coming(s)'
    BY <1>1, <1>7 DEF SmoothNow, Lined
  <2>. QED BY <1>1, <2>5, <2>6, <2>7 DEF SmoothNow, Lined
<1>. QED BY <1>6, <1>8, <1>9 DEF SmoothNext

LEMMA SmoothSend ==
    ASSUME SmoothNow, NEW s \in Servers, SendOn(s)
    PROVE  SmoothNext
<1>1. /\ TypeOK /\ stack # <<>> /\ Top.st = "next" /\ Top.i <= Len(Top.refs) /\ Top.refs[Top.i] = s
      /\ left \subseteq left' /\ (Top.v3 => ~conn[s].rebinding)
      /\ TopBecomes(Pull(Top, conn[s].queue)) /\ conn \in [Servers -> Connection]
  BY DEF SmoothNow, IInv, SendOn, AtUrl, MustQueue, TypeOK
<1>2. PICK c \in Connection : c = conn[s]
  BY <1>1
<1>3. PICK k \in Int : k = c.refcnt + 1
  BY DEF Connection
<1>4. PICK qs : qs = Pulled(Top, c.queue)
  OBVIOUS
<1>5. conn' = [conn EXCEPT ![s] = [[c EXCEPT !.refcnt = k] EXCEPT !.queue = qs]]
  BY <1>1, <1>2, <1>3, <1>4 DEF SendOn
<1>6. /\ conn'[s].broken = conn[s].broken /\ conn'[s].open = conn[s].open
      /\ conn'[s].rebinding = conn[s].rebinding /\ conn'[s].queue = qs
      /\ \A t \in Servers : t # s => conn'[t] = conn[t]
  BY <1>1, <1>2, <1>5 DEF Connection
<1>7. ~conn'[s].rebinding \/ (conn'[s].rebinding = conn[s].rebinding /\ ~Top.v3 /\ Top.st = "next")
  BY <1>1, <1>6
<1>. QED BY <1>1, <1>2, <1>4, <1>6, <1>7, PullThen DEF SmoothNow, SmoothNext

LEMMA SmoothBound ==
    ASSUME SmoothNow, NEW s \in Servers, Bound(s)
    PROVE  SmoothNext
<1>1. /\ TypeOK /\ stack # <<>> /\ Top.st = "bound" /\ Top.refs[Top.i] = s
      /\ left \subseteq left'
      /\ ~Top.v3 => \A j \in DOMAIN conn[s].queue : conn[s].queue[j].op \in left'
      /\ TopBecomes(Pull(Top, conn[s].queue)) /\ conn \in [Servers -> Connection]
  BY DEF SmoothNow, IInv, Bound, Binding, Leave, TypeOK
<1>2. PICK c \in Connection : c = conn[s]
  BY <1>1
<1>3. PICK qs : qs = Pulled(Top, c.queue)
  OBVIOUS
<1>4. conn' = [conn EXCEPT ![s] = [[c EXCEPT !.rebinding = FALSE] EXCEPT !.queue = qs]]
  BY <1>1, <1>2, <1>3 DEF Bound
<1>5. /\ conn'[s].broken = conn[s].broken /\ conn'[s].open = conn[s].open
      /\ ~conn'[s].rebinding /\ conn'[s].queue = qs
      /\ \A t \in Servers : t # s => conn'[t] = conn[t]
  BY <1>1, <1>2, <1>4 DEF Connection
<1>. QED BY <1>1, <1>2, <1>3, <1>5, PullThen DEF SmoothNow, SmoothNext

LEMMA SmoothReconnect ==
    ASSUME SmoothNow, NEW s \in Servers, Reconnect(s)
    PROVE  SmoothNext
<1>1. /\ TypeOK /\ stack # <<>> /\ Top.st = "next" /\ Top.i <= Len(Top.refs) /\ Top.refs[Top.i] = s
      /\ left \subseteq left' /\ conn \in [Servers -> Connection] /\ ld_msgid \in Nat
  BY DEF SmoothNow, IInv, Reconnect, AtUrl, TypeOK
<1>2. /\ stack \in Seq(Chase) /\ Top \in Chase /\ Top = stack[1] /\ 1 \in DOMAIN stack
      /\ Top.refs \in Seq(Servers) /\ Top.i \in Nat \ {0}
  BY <1>1, TopPicked
<1>3. Top.i = 1
  BY <1>1, <1>2 DEF SmoothNow, Straight
<1>4. PICK n \in Nat, b \in Nat : n = ld_msgid + 1 /\ b = ld_msgid'
  BY <1>1 DEF Reconnect
<1>5. PICK f \in Chase : /\ TopBecomes(f)
                         /\ f.i = 1 /\ f.st = "wait" /\ f.refs = Top.refs
  <2>. DEFINE g == [[[Top EXCEPT !.st = "wait"] EXCEPT !.new = n] EXCEPT !.bind = b]
  <2>1. g \in Chase /\ g.i = 1 /\ g.st = "wait" /\ g.refs = Top.refs
    BY <1>2, <1>3 DEF Chase
  <2>2. g = [Top EXCEPT !.st = "wait", !.new = ld_msgid + 1, !.bind = ld_msgid']
    BY <1>4
  <2>3. TopBecomes(g)
    BY <2>2 DEF Reconnect
  <2>. HIDE DEF g
  <2>. QED BY <2>1, <2>3
<1>6. /\ DOMAIN stack' = DOMAIN stack
      /\ stack'[1] = f /\ \A k \in DOMAIN stack : k # 1 => stack'[k] = stack[k]
  BY <1>1, <1>2, <1>5, Replaced
<1>7. Straight'
  BY <1>5, <1>6 DEF SmoothNow, Straight
<1>8. ASSUME NEW t \in Servers, t # s PROVE Lined(t)'
  <2>1. SameConn(t)
    BY <1>1, <1>8 DEF Reconnect, SameConn
  <2>2. ~AtTop(t)
    BY <1>1, <1>8 DEF AtTop
  <2>3. Coming(t) => Coming(t)'
    BY <1>1, <1>2, <1>5, ComingTop DEF At
  <2>. QED BY <1>1, <2>1, <2>2, <2>3, LinedThen DEF SmoothNow
<1>9. Lined(s)'
  <2>1. conn'[s].open /\ ~conn'[s].broken /\ conn'[s].queue = <<>>
    BY <1>1 DEF Reconnect, NoConnection
  <2>2. Coming(s)'
    BY <1>1, <1>2, <1>3, <1>5, <1>6 DEF Coming, At
  <2>. QED BY <2>1, <2>2 DEF Lined
<1>. QED BY <1>7, <1>8, <1>9 DEF SmoothNext

LEMMA SmoothReadBind ==
    ASSUME SmoothNow, NEW id \in Ids, NEW ok \in BOOLEAN, ReadBind(id, ok)
    PROVE  SmoothNext
<1>. SUFFICES ASSUME faults' = <<>> PROVE Straight' /\ \A s \in Servers : Lined(s)'
  BY DEF SmoothNext
<1>0. TypeOK /\ left \subseteq left' /\ Reading /\ req[id].conn \in Servers /\ stack \in Seq(Chase)
      /\ IInv
  BY RequestIs DEF SmoothNow, IInv, ReadBind, Answers, TypeOK
<1>1. ok
  BY DEF ReadBind, SmoothNow
<1>2. \A s \in Servers : SameConn(s)
  BY <1>0, DroppedIs DEF ReadBind, Finish
<1>3. (\A k \in DOMAIN stack : stack[k].st \in InBind) /\ (stack # <<>> => Top.st = "wait")
  BY <1>0, AllInBind
<1>4. /\ DOMAIN stack' = DOMAIN stack
      /\ \A k \in DOMAIN stack : /\ stack'[k].refs = stack[k].refs /\ stack'[k].i = stack[k].i
                                 /\ stack'[k].st = stack[k].st \/ stack'[k].st = "bound"
  <2>1. \A k \in DOMAIN stack : stack[k] \in Chase
    BY <1>0
  <2>. QED BY <1>1, <2>1 DEF ReadBind, Chase
<1>5. Straight'
  BY <1>3, <1>4 DEF SmoothNow, Straight, InBind
<1>6. ASSUME NEW s \in Servers PROVE Lined(s)'
  <2>1. Coming(s) => Coming(s)'
    BY <1>4 DEF Coming, At
  <2>2. ~AtTop(s)
    BY <1>3 DEF AtTop
  <2>. QED BY <1>0, <1>2, <2>1, <2>2, LinedThen DEF SmoothNow
<1>. QED BY <1>5, <1>6

LEMMA SmoothReadRefs ==
    ASSUME SmoothNow, NEW id \in Ids, NEW refs \in RefLists, NEW v3 \in BOOLEAN, NEW final \in BOOLEAN,
           ReadRefs(id, refs, v3, final)
    PROVE  SmoothNext
<1>0. /\ TypeOK /\ IInv /\ left \subseteq left' /\ Reading /\ stack \in Seq(Chase) /\ conn' = conn
      /\ req[id].hops \in Nat
  BY RequestIs DEF SmoothNow, IInv, ReadRefs, Answers, TypeOK
<1>1. stack # <<>> => Top.st = "wait"
  BY <1>0, AllInBind
<1>2. PICK n \in Nat \ {0} : n = (IF req[id].hops >= HopLimit THEN Len(refs) + 1 ELSE 1)
  BY RefListsAssumption
<1>3. PICK f \in Chase :
        /\ f = [lr |-> id, v3 |-> v3, final |-> final, refs |-> refs, i |-> n, st |-> "next", new |-> 0, bind |-> 0]
        /\ f.st = "next" /\ f.refs = refs /\ f.i = n
  <2>. DEFINE g == [lr |-> id, v3 |-> v3, final |-> final, refs |-> refs, i |-> n, st |-> "next", new |-> 0, bind |-> 0]
  <2>1. g \in Chase /\ g.st = "next" /\ g.refs = refs /\ g.i = n
    BY DEF Chase
  <2>. QED BY <2>1, Zenon
<1>4. stack' = <<f>> \o stack
  BY <1>2, <1>3 DEF ReadRefs
<1>5. /\ DOMAIN stack' = {1} \cup {k + 1 : k \in DOMAIN stack}
      /\ stack'[1] = f /\ \A k \in DOMAIN stack : stack'[k + 1] = stack[k]
  BY <1>0, <1>4, Pushed
<1>6. Straight'
  <2>1. f.i = 1 \/ f.i > Len(f.refs)
    <3>1. Len(refs) \in Nat
      BY RefListsAssumption
    <3>. QED BY <1>2, <1>3, <3>1
  <2>. QED BY <1>3, <1>5, <2>1 DEF SmoothNow, Straight
<1>7. ASSUME NEW s \in Servers PROVE Lined(s)'
  <2>1. Coming(s) => Coming(s)'
    BY <1>5 DEF Coming, At
  <2>2. ~AtTop(s)
    BY <1>1 DEF AtTop
  <2>3. SameConn(s)
    BY <1>0 DEF SameConn
  <2>. QED BY <1>0, <2>1, <2>2, <2>3, LinedThen DEF SmoothNow
<1>. QED BY <1>6, <1>7 DEF SmoothNext

LEMMA SmoothAtEnd ==
    ASSUME SmoothNow, Chased \/ Passed \/ Unfollowed
    PROVE  SmoothNext
<1>1. /\ TypeOK /\ stack # <<>> /\ stack' = Tail(stack) /\ left \subseteq left'
      /\ Top.st = "followed" \/ (Top.st = "next" /\ Top.i > Len(Top.refs))
  BY DEF SmoothNow, IInv, Chased, Passed, Unfollowed, AtEnd
<1>2. \A s \in Servers : SameConn(s)
  <2>1. CASE Chased \/ Passed
    BY <2>1 DEF Chased, Passed, SameConn
  <2>2. CASE Unfollowed
    <3>1. Top.lr \in Ids
      BY <1>1, TopPicked
    <3>2. req[Top.lr].conn \in Servers
      BY <1>1, <3>1, RequestIs
    <3>. QED BY <1>1, <2>2, <3>2, DroppedIs DEF Unfollowed, Finish
  <2>. QED BY <2>1, <2>2
<1>. QED BY <1>1, <1>2, SmoothEnd DEF SmoothNow, SmoothNext

LEMMA SmoothQuiet ==
    ASSUME SmoothNow,
           \/ Send \/ \E id \in Ids : ReadResult(id) \/ Take(id) \/ Abandon(id)
    PROVE  SmoothNext
<1>0. TypeOK /\ conn \in [Servers -> Connection] /\ IInv
  BY DEF SmoothNow, IInv, TypeOK
<1>1. CASE Send
  <2>1. PICK c \in Connection : c = conn[Default]
    BY <1>0, ServersAssumption
  <2>2. PICK k \in Int : k = c.refcnt + 1
    BY DEF Connection
  <2>3. conn' = [conn EXCEPT ![Default] = [c EXCEPT !.refcnt = k]]
    BY <1>0, <1>1, <2>1, <2>2 DEF Send
  <2>4. \A s \in Servers : SameConn(s)
    BY <1>0, <2>1, <2>3 DEF SameConn, Connection
  <2>. QED BY <1>1, <2>4, SmoothSame DEF SmoothNow, SmoothNext, Send, Idle
<1>2. ASSUME NEW id \in Ids, ReadResult(id) PROVE SmoothNext
  <2>1. \A s \in Servers : SameConn(s)
    BY <1>0, <1>2, RequestIs, DroppedIs DEF ReadResult, Finish
  <2>2. stack # <<>> => Top.st # "next"
    BY <1>2 DEF ReadResult, Answers, Reading
  <2>. QED BY <1>2, <2>1, <2>2, SmoothSame DEF SmoothNow, SmoothNext, ReadResult
<1>3. ASSUME NEW id \in Ids, Take(id) PROVE SmoothNext
  BY <1>3, SmoothSame DEF SmoothNow, SmoothNext, Take, Idle, SameConn
<1>4. ASSUME NEW id \in Ids, Abandon(id) PROVE SmoothNext
  <2>1. PICK gone \in SUBSET Ids : conn' = LetGo(gone)
    BY <1>4 DEF Abandon, Family
  <2>2. ASSUME NEW s \in Servers PROVE SameConn(s)
    <3>. DEFINE m == Cardinality({x \in gone : req[x].conn = s /\ req[x].st = "inprogress"})
    <3>1. m \in Nat
      <4>1. IsFiniteSet({x \in gone : req[x].conn = s /\ req[x].st = "inprogress"})
        BY <1>0, Finite, FS_Subset
      <4>. QED BY <4>1, FS_CardinalityType
    <3>2. conn'[s] = IF m = 0 THEN conn[s] ELSE Dropped(conn, s, m)[s]
      BY <2>1 DEF LetGo
    <3>. HIDE DEF m
    <3>3. PICK k \in Int : k = conn[s].refcnt - m
      BY <1>0, <3>1 DEF Connection
    <3>4. Dropped(conn, s, m)[s] = IF k <= 0 THEN NoConnection ELSE [conn[s] EXCEPT !.refcnt = k]
      <4>1. Dropped(conn, s, m) = IF k <= 0 THEN [conn EXCEPT ![s] = NoConnection] ELSE [conn EXCEPT ![s] = [conn[s] EXCEPT !.refcnt = k]]
        BY <1>0, <3>3 DEF Dropped
      <4>. QED BY <1>0, <4>1
    <3>. QED BY <1>0, <3>2, <3>4 DEF SameConn, Connection
  <2>. QED BY <1>4, <2>2, SmoothSame DEF SmoothNow, SmoothNext, Abandon, Idle
<1>. QED BY <1>1, <1>2, <1>3, <1>4

(* A connection breaks only with a fault, and only a broken one makes a    *)
(* bind fail without an answer.                                            *)
LEMMA SmoothOthers ==
    ASSUME SmoothNow,
           \/ ReadError \/ Unbind
           \/ \E s \in Servers : ConnectFails(s) \/ Refused(s) \/ WriteFails(s) \/ Break(s)
    PROVE  session' = "open" => SmoothNext
<1>1. CASE ReadError
  BY <1>1 DEF SmoothNow, Lined, ReadError
<1>2. CASE Unbind
  BY <1>2 DEF Unbind
<1>3. ASSUME NEW s \in Servers, ConnectFails(s) \/ Break(s) PROVE SmoothNext
  BY <1>3 DEF SmoothNow, SmoothNext, ConnectFails, Break
<1>4. ASSUME NEW s \in Servers, Refused(s) PROVE FALSE
  <2>1. TypeOK /\ stack # <<>> /\ Top.st = "refused"
    BY <1>4 DEF SmoothNow, IInv, Refused, Binding
  <2>. QED BY <2>1, TopPicked DEF SmoothNow, Straight
<1>5. ASSUME NEW s \in Servers, WriteFails(s) PROVE FALSE
  BY <1>5 DEF SmoothNow, Lined, WriteFails
<1>. QED BY <1>1, <1>2, <1>3, <1>4, <1>5

LEMMA FaultsStay ==
    ASSUME Next, session' = "open", faults' = <<>>, TypeOK
    PROVE  session = "open" /\ faults = <<>>
<1>1. \A f \in {"connect", "bind", "read"} : Append(faults, f) # <<>>
  <2>. SUFFICES ASSUME NEW f \in {"connect", "bind", "read"} PROVE Append(faults, f) # <<>>
    OBVIOUS
  <2>1. faults \in Seq({"connect", "bind", "read"})
    BY DEF TypeOK
  <2>2. Append(faults, f) \in Seq({"connect", "bind", "read"}) /\ Len(Append(faults, f)) = Len(faults) + 1
    BY <2>1
  <2>3. Len(faults) \in Nat /\ Len(<<>>) = 0
    BY <2>1
  <2>. QED BY <2>2, <2>3
<1>2. \A f \in {"connect", "bind", "read"} : faults' # Append(faults, f)
  BY <1>1
<1>. QED BY <1>2 DEF Next, ChaseStep, Send, ReadResult, ReadBind, ReadRefs, ReadError, QueueOn, SendOn,
       Reconnect, ConnectFails, Bound, Refused, WriteFails, Chased, Passed, Unfollowed, Take, Abandon,
       Unbind, Break, Idle, Answers, Reading, AtUrl, Binding, AtEnd

LEMMA SmoothThen ==
    ASSUME IInv, Smooth, [Next]_vars
    PROVE  Smooth'
<1>. SUFFICES ASSUME session' = "open", faults' = <<>> PROVE Straight' /\ \A s \in Servers : Lined(s)'
  BY DEF Smooth
<1>1. CASE UNCHANGED vars
  BY <1>1 DEF vars, Smooth, Straight, Lined, LeftIn, Coming, At, AtTop, Top
<1>2. CASE Next
  <2>1. SmoothNow
    BY <1>2, FaultsStay DEF SmoothNow, Smooth, IInv
  <2>2. SmoothNext
    BY <1>2, <2>1, SmoothQueueOn, SmoothSend, SmoothBound, SmoothReconnect, SmoothReadBind, SmoothReadRefs,
       SmoothAtEnd, SmoothQuiet, SmoothOthers DEF Next, ChaseStep
  <2>. QED BY <2>2 DEF SmoothNext
<1>. QED BY <1>1, <1>2

LEMMA SmoothAlways == Spec => [](IInv /\ Smooth)
<1>1. Init => IInv /\ Smooth
  <2>1. ASSUME Init PROVE Straight /\ \A s \in Servers : Lined(s)
    BY <2>1 DEF Init, Straight, Lined, NoConnection
  <2>. QED BY <2>1, InitThen DEF Smooth
<1>2. IInv /\ Smooth /\ [Next]_vars => IInv' /\ Smooth'
  BY NextThen, StutterThen, SmoothThen
<1>. QED BY <1>1, <1>2, PTL DEF Spec

(* When no chase is in progress no list is queued on a connection          *)
(* (lconn_rebind_queue): while nothing failed, every list is taken up by   *)
(* the chase that waited there, or by one that it led to, unless that      *)
(* chase was of a referral of LDAPv2, which leaves the list where it is.   *)
THEOREM QueuedTheorem == Spec => []NoneForgotten
<1>1. IInv /\ Smooth => NoneForgotten
  BY DEF Smooth, Lined, LeftIn, Coming, At, AtTop, NoneForgotten
<1>. QED BY <1>1, SmoothAlways, PTL

-----------------------------------------------------------------------------
(* What a step does to the requests and to the chases: a request stays     *)
(* where it is in the tree, a new one has an id that was drawn for it.     *)
Working == /\ stack # <<>>
           /\ Top.st \in InBind \/ (Top.st = "next" /\ Top.i <= Len(Top.refs))

Old(id) == /\ Live(id) /\ req'[id].hops = req[id].hops /\ req'[id].parent = req[id].parent
           /\ req[id].st = "completed" => req'[id].st = "completed"

Fresh(id) ==
    /\ id > ld_msgid \/ \E k \in DOMAIN stack : stack[k].st \in InBind /\ stack[k].new = id
    /\ \/ req'[id].parent = 0 /\ req'[id].hops = 0
       \/ \E p \in Ids : /\ Live(p) /\ (Top.v3 => req[p].parent = 0) /\ Working
                         /\ req'[id].parent = p /\ req'[id].hops = req[p].hops + 1

Moved(k) ==
    /\ stack'[k].st \in InBind => \/ stack'[k].new > ld_msgid
                                  \/ \E j \in DOMAIN stack : /\ stack[j].st \in InBind
                                                             /\ stack'[k].new = stack[j].new
    /\ Working /\ \E j \in DOMAIN stack : stack'[k].v3 = stack[j].v3
    /\ \/ faults' # <<>> \/ Top.st = "refused" \/ stack'[k].i = 1
       \/ \E j \in DOMAIN stack : stack'[k].i = stack[j].i

Begun(k) ==
    /\ stack'[k].st = "next" /\ (IF stack'[k].v3 THEN 3 ELSE 2) \in styles'
    /\ \E id \in Ids : /\ Live(id)
                       /\ stack'[k].i = IF req[id].hops >= HopLimit THEN Len(stack'[k].refs) + 1 ELSE 1

Step ==
    /\ styles \subseteq styles' /\ ld_msgid' \in Nat /\ ld_msgid' >= ld_msgid
    /\ \A id \in Ids : Live(id)' => Old(id) \/ Fresh(id)
    /\ \A k \in DOMAIN stack' : (\E j \in DOMAIN stack : stack'[k] = stack[j]) \/ Moved(k) \/ Begun(k)

(* The innermost chase goes on. *)
LEMMA TopMoved ==
    ASSUME TypeOK, Working, NEW f \in Chase, TopBecomes(f), f.v3 = Top.v3,
           f.st \in InBind => f.new > ld_msgid \/ (Top.st \in InBind /\ f.new = Top.new),
           faults' # <<>> \/ Top.st = "refused" \/ f.i = 1 \/ f.i = Top.i
    PROVE  \A k \in DOMAIN stack' : (\E j \in DOMAIN stack : stack'[k] = stack[j]) \/ Moved(k)
<1>1. stack \in Seq(Chase) /\ stack # <<>> /\ Top = stack[1] /\ 1 \in DOMAIN stack
  BY TopPicked DEF Working
<1>2. DOMAIN stack' = DOMAIN stack /\ stack'[1] = f /\ \A k \in DOMAIN stack : k # 1 => stack'[k] = stack[k]
  BY <1>1, Replaced
<1>3. Moved(1)
  BY <1>1, <1>2 DEF Moved
<1>. QED BY <1>2, <1>3

LEMMA StillThere ==
    ASSUME req' = req
    PROVE  \A id \in Ids : Live(id)' => Old(id)
BY DEF Old, Live

LEMMA ReadyWhenRead ==
    ASSUME IInv, NEW id \in Ids, Answers(id)
    PROVE  session = "open" /\ Ready(id)
<1>0. TypeOK /\ Core /\ session = "open"
  BY DEF IInv, Answers, Reading
<1>1. \A k \in DOMAIN stack : stack[k].st \in InBind
  BY AllInBind DEF Answers
<1>2. Live(id) /\ Unanswered(id)
  BY DEF Answers, Unanswered
<1>. QED BY <1>0, <1>1, <1>2 DEF Core, Open, Barren, Finals, Ready

LEMMA ReadyAtEnd ==
    ASSUME IInv, Unfollowed
    PROVE  session = "open" /\ Top.lr \in Ids /\ Ready(Top.lr)
<1>0. /\ TypeOK /\ Core /\ session = "open" /\ ~Top.v3 /\ stack # <<>> /\ Top.st = "next"
  BY DEF IInv, Unfollowed, AtEnd
<1>1. Top = stack[1] /\ 1 \in DOMAIN stack /\ DOMAIN stack \subseteq Nat \ {0} /\ Top.lr \in Ids
  BY <1>0, TopPicked
<1>2. PICK lr \in Ids : lr = Top.lr
  BY <1>1
<1>3. Live(lr) /\ Top.final /\ req[lr].st # "completed"
  BY <1>0, <1>1, <1>2 DEF Core, LrHeld, Finals
<1>4. lr \notin moved3 /\ (req[lr].parent # 0 => Children(lr) = {})
  BY <1>0, <1>2, <1>3 DEF Core, Grown, Barren
<1>5. \A k \in DOMAIN stack : k # 1 => stack[k].st \in InBind
  BY <1>0, <1>1 DEF Core, Nested
<1>6. \A k \in DOMAIN stack : k # 1 /\ stack[k].final => stack[k].lr # lr
  BY <1>0, <1>1, <1>2, <1>3 DEF Core, Finals
<1>. QED BY <1>0, <1>1, <1>2, <1>3, <1>4, <1>5, <1>6 DEF Ready, InBind

(* The end of a request: the application is told of the operation that is  *)
(* freed.                                                                  *)
LEMMA FinishTells ==
    ASSUME IInv, session = "open", NEW lr \in Ids, Ready(lr), Finish(lr)
    PROVE  /\ \A id \in Ids : Live(id)' => Old(id)
           /\ \/ finals' = finals
              \/ \E top \in Ids : /\ finals' = [finals EXCEPT ![top] = @ + 1]
                                  /\ Live(top) /\ req'[top].st = "free"
                                  /\ req[lr].parent = 0 => top = lr
<1>. DEFINE r   == Ended(lr)
            top == Reached(lr)
<1>0. /\ TypeOK /\ Blank /\ Tree /\ Live(lr)
  BY DEF IInv, Core, Ready
<1>1. \A id \in Ids : Live(id)' => Old(id)
  <2>1. PICK G \in SUBSET Ids : \A id \in Ids : req'[id] = IF id \in G THEN NoRequest ELSE r[id]
    BY FinishIs
  <2>. QED BY <1>0, <2>1, EndedIs DEF Old, Live, NoRequest
<1>2. top \in CountedDown(lr) \cup {lr} /\ top \in Ids /\ Live(top)
  <2>1. CountedDown(lr) \cup {lr} \subseteq Line(lr)
    BY <1>0, EndedIs DEF Line
  <2>2. CountedDown(lr) \cup {lr} \subseteq Ids /\ Ids \subseteq Nat /\ \A a \in CountedDown(lr) \cup {lr} : Live(a)
    BY <1>0, <2>1, OnTheLine, IdsAre
  <2>3. \E a \in CountedDown(lr) \cup {lr} : \A b \in CountedDown(lr) \cup {lr} : a <= b
    <3>. DEFINE T == CountedDown(lr) \cup {lr}
    <3>1. T \subseteq Nat /\ T # {}
      BY <2>2
    <3>. HIDE DEF T
    <3>2. \E a \in T : \A b \in T : a <= b
      BY <3>1, Least
    <3>. QED BY <3>2 DEF T
  <2>4. top \in CountedDown(lr) \cup {lr}
    BY <2>3 DEF Reached
  <2>. QED BY <2>2, <2>4
<1>3. req[lr].parent = 0 => top = lr
  <2>1. req[lr].parent = 0 => Above[lr] = {}
    BY <1>0, AboveOf, RisingOf
  <2>. QED BY <1>2, <2>1 DEF CountedDown
<1>4. CASE AllDone(r, top)
  <2>1. r[top].parent = 0 /\ req[top].parent = 0
    BY <1>0, <1>2, <1>4, EndedIs DEF AllDone
  <2>2. top \in Family(top)
    <3>1. Placed(top)
      BY <1>0, <1>2 DEF Tree
    <3>2. req[top].orig = top
      BY <2>1, <3>1, IdsAre DEF Placed, IsRoot, IsChild
    <3>. QED BY <1>2, <3>2 DEF Family
  <2>3. req' = Freed(r, top)
    BY <1>4 DEF Finish
  <2>4. req'[top].st = "free"
    BY <1>2, <2>2, <2>3 DEF Freed, NoRequest
  <2>5. finals' = finals \/ finals' = [finals EXCEPT ![top] = @ + 1]
    BY DEF Finish
  <2>. HIDE DEF top, r
  <2>. QED BY <1>1, <1>2, <1>3, <2>4, <2>5
<1>5. CASE ~AllDone(r, top)
  BY <1>1, <1>5 DEF Finish
<1>. QED BY <1>4, <1>5

LEMMA ChildHops ==
    ASSUME TypeOK, NEW p \in Ids, NEW s \in Servers
    PROVE  Child(p, s).parent = p /\ Child(p, s).hops = req[p].hops + 1
<1>1. PICK h \in Nat : h = req[p].hops + 1
  BY RequestIs
<1>2. Child(p, s) = [NoRequest EXCEPT !.st = "inprogress", !.hops = h, !.parent = p, !.orig = req[p].orig, !.conn = s]
  BY <1>1 DEF Child
<1>. QED BY <1>1, <1>2 DEF NoRequest

LEMMA RootHops ==
    ASSUME NEW id \in Ids, NEW s \in Servers, NEW kind \in {"op", "bind"}
    PROVE  Root(id, s, kind).parent = 0 /\ Root(id, s, kind).hops = 0
BY DEF Root, NoRequest

LEMMA StepRead ==
    ASSUME IInv, NEW id \in Ids, ReadResult(id) \/ \E ok \in BOOLEAN : ReadBind(id, ok)
    PROVE  Step
<1>0. /\ TypeOK /\ ld_msgid \in Nat /\ ld_msgid' = ld_msgid /\ styles' = styles
      /\ Answers(id) /\ Finish(id) /\ Reading
  BY DEF IInv, TypeOK, ReadResult, ReadBind, Answers
<1>1. \A x \in Ids : Live(x)' => Old(x)
  BY <1>0, ReadyWhenRead, FinishTells
<1>2. CASE ReadResult(id)
  BY <1>0, <1>1, <1>2 DEF Step, ReadResult
<1>3. ASSUME NEW ok \in BOOLEAN, ReadBind(id, ok) PROVE Step
  <2>1. \A k \in DOMAIN stack : stack[k].st \in InBind /\ stack[k] \in Chase
    BY <1>0, AllInBind DEF TypeOK
  <2>2. /\ DOMAIN stack' = DOMAIN stack
        /\ \A k \in DOMAIN stack : /\ stack'[k].i = stack[k].i /\ stack'[k].new = stack[k].new
                                    /\ stack'[k].v3 = stack[k].v3
    BY <2>1, <1>3 DEF ReadBind, Chase
  <2>3. \A k \in DOMAIN stack' : Moved(k)
    <3>1. DOMAIN stack # {} => Working
      BY <1>0, AllInBind DEF Working, InBind, TypeOK
    <3>. QED BY <2>1, <2>2, <3>1 DEF Moved
  <2>. QED BY <1>0, <1>1, <2>3 DEF Step
<1>. QED BY <1>2, <1>3

LEMMA StepRefs ==
    ASSUME IInv, NEW id \in Ids, NEW refs \in RefLists, NEW v3 \in BOOLEAN, NEW final \in BOOLEAN,
           ReadRefs(id, refs, v3, final)
    PROVE  Step
<1>0. /\ TypeOK /\ ld_msgid \in Nat /\ ld_msgid' = ld_msgid /\ req' = req
      /\ styles' = styles \cup {IF v3 THEN 3 ELSE 2}
      /\ stack \in Seq(Chase) /\ Live(id) /\ req[id].hops \in Nat
  BY RequestIs DEF IInv, TypeOK, ReadRefs, Answers
<1>1. PICK n \in Nat \ {0} : n = (IF req[id].hops >= HopLimit THEN Len(refs) + 1 ELSE 1)
  BY RefListsAssumption
<1>2. PICK f \in Chase :
        /\ f = [lr |-> id, v3 |-> v3, final |-> final, refs |-> refs, i |-> n, st |-> "next", new |-> 0, bind |-> 0]
        /\ f.st = "next" /\ f.refs = refs /\ f.i = n /\ f.v3 = v3
  <2>. DEFINE g == [lr |-> id, v3 |-> v3, final |-> final, refs |-> refs, i |-> n, st |-> "next", new |-> 0, bind |-> 0]
  <2>1. g \in Chase /\ g.st = "next" /\ g.refs = refs /\ g.i = n /\ g.v3 = v3
    BY DEF Chase
  <2>. QED BY <2>1, Zenon
<1>3. stack' = <<f>> \o stack
  BY <1>1, <1>2 DEF ReadRefs
<1>4. /\ DOMAIN stack' = {1} \cup {k + 1 : k \in DOMAIN stack}
      /\ stack'[1] = f /\ \A k \in DOMAIN stack : stack'[k + 1] = stack[k]
  BY <1>0, <1>3, Pushed
<1>5. Begun(1)
  BY <1>0, <1>1, <1>2, <1>4 DEF Begun
<1>6. \A k \in DOMAIN stack' : (\E j \in DOMAIN stack : stack'[k] = stack[j]) \/ Begun(k)
  BY <1>4, <1>5
<1>. QED BY <1>0, <1>6, StillThere DEF Step

LEMMA StepSend ==
    ASSUME IInv, Send
    PROVE  Step
<1>0. /\ TypeOK /\ ld_msgid \in Nat /\ ld_msgid' = ld_msgid + 1 /\ ld_msgid < MaxMsgid
      /\ styles' = styles /\ stack' = stack /\ req \in [Ids -> Request]
  BY DEF IInv, TypeOK, Send
<1>1. PICK n \in Ids : n = ld_msgid + 1 /\ n > ld_msgid
  BY <1>0, BoundsAssumption DEF Ids
<1>2. req' = [req EXCEPT ![n] = Root(n, Default, "op")]
  BY <1>0, <1>1 DEF Send
<1>3. req'[n].parent = 0 /\ req'[n].hops = 0
  BY <1>0, <1>2, RootHops, ServersAssumption
<1>4. \A id \in Ids : Live(id)' => Old(id) \/ Fresh(id)
  BY <1>0, <1>1, <1>2, <1>3 DEF Old, Fresh, Live
<1>. QED BY <1>0, <1>4 DEF Step

LEMMA StepChild ==
    ASSUME IInv, session = "open", Working, NEW s \in Servers, NEW n \in Ids, NEW p \in Ids, p = Parent(Top),
           n > ld_msgid \/ \E k \in DOMAIN stack : stack[k].st \in InBind /\ stack[k].new = n,
           req'[n] = Child(p, s),
           \A id \in Ids : id # n => /\ req'[id].st = req[id].st /\ req'[id].parent = req[id].parent
                                     /\ req'[id].hops = req[id].hops
    PROVE  \A id \in Ids : Live(id)' => Old(id) \/ Fresh(id)
<1>1. Live(p) /\ (Top.v3 => req[p].parent = 0)
  BY CountsIn DEF Working
<1>2. Fresh(n)
  BY <1>1, ChildHops DEF Fresh, IInv
<1>. QED BY <1>2 DEF Old, Live

(* What a chase becomes after it has sent. *)
LEMMA PullStep ==
    ASSUME TypeOK, Working, NEW s \in Servers, TopBecomes(Pull(Top, conn[s].queue))
    PROVE  \A k \in DOMAIN stack' : (\E j \in DOMAIN stack : stack'[k] = stack[j]) \/ Moved(k)
<1>1. Top \in Chase /\ conn[s].queue \in Seq(QueuedList)
  <2>1. conn[s] \in Connection
    BY DEF TypeOK
  <2>. QED BY <2>1, TopPicked DEF Working, Connection
<1>2. PICK q \in Seq(QueuedList) : q = conn[s].queue
  BY <1>1
<1>3. PICK f \in Chase : f = Pull(Top, q) /\ f.st \in {"next", "followed"} /\ f.v3 = Top.v3
  BY <1>1, PullIs
<1>4. f.i = 1 \/ f.i = Top.i
  <2>1. CASE TakesUp(Top, q)
    BY <1>1, <1>3, <2>1 DEF Pull, Chase
  <2>2. CASE ~TakesUp(Top, q)
    BY <1>1, <1>3, <2>2 DEF Pull, Chase
  <2>. QED BY <2>1, <2>2
<1>5. TopBecomes(f)
  BY <1>2, <1>3
<1>. QED BY <1>3, <1>4, <1>5, TopMoved DEF InBind

LEMMA StepSendOn ==
    ASSUME IInv, NEW s \in Servers, SendOn(s)
    PROVE  Step
<1>0. /\ TypeOK /\ ld_msgid \in Nat /\ ld_msgid' = ld_msgid + 1 /\ ld_msgid < MaxMsgid
      /\ styles' = styles /\ session = "open" /\ Working /\ req \in [Ids -> Request]
  BY DEF IInv, TypeOK, SendOn, AtUrl, Working
<1>1. PICK n \in Ids : n = ld_msgid + 1 /\ n > ld_msgid
  BY <1>0, BoundsAssumption DEF Ids
<1>2. PICK p \in Ids : p = Parent(Top)
  BY <1>0, CountsIn DEF Working
<1>3. PICK k \in Int : k = req[p].out + 1
  BY <1>0, RequestIs
<1>4. req' = [[req EXCEPT ![p] = [req[p] EXCEPT !.out = k]] EXCEPT ![n] = Child(p, s)]
  <2>1. req' = [req EXCEPT ![p].out = @ + 1, ![n] = Child(p, s)]
    BY <1>0, <1>1, <1>2 DEF SendOn
  <2>. QED BY <1>0, <1>3, <2>1
<1>5. \A id \in Ids : id # n => /\ req'[id].st = req[id].st /\ req'[id].parent = req[id].parent
                                /\ req'[id].hops = req[id].hops
  BY <1>0, <1>4 DEF Request
<1>6. req'[n] = Child(p, s)
  BY <1>0, <1>4
<1>7. \A id \in Ids : Live(id)' => Old(id) \/ Fresh(id)
  BY <1>0, <1>1, <1>2, <1>5, <1>6, StepChild
<1>8. \A j \in DOMAIN stack' : (\E i \in DOMAIN stack : stack'[j] = stack[i]) \/ Moved(j)
  BY <1>0, PullStep DEF SendOn
<1>. QED BY <1>0, <1>7, <1>8 DEF Step

LEMMA StepBound ==
    ASSUME IInv, NEW s \in Servers, Bound(s)
    PROVE  Step
<1>0. /\ TypeOK /\ Core /\ ld_msgid \in Nat /\ ld_msgid' = ld_msgid
      /\ styles' = styles /\ session = "open" /\ Working /\ req \in [Ids -> Request]
      /\ stack # <<>> /\ Top.st \in InBind
  BY DEF IInv, TypeOK, Bound, Binding, Working, InBind
<1>1. PICK n \in Ids : n = Top.new /\ \E k \in DOMAIN stack : stack[k].st \in InBind /\ stack[k].new = n
  BY <1>0, TopPicked DEF Core, NewIds
<1>2. PICK p \in Ids : p = Parent(Top)
  BY <1>0, CountsIn
<1>3. req' = [req EXCEPT ![n] = Child(p, s)]
  BY <1>1, <1>2 DEF Bound
<1>4. \A id \in Ids : Live(id)' => Old(id) \/ Fresh(id)
  BY <1>0, <1>1, <1>2, <1>3, StepChild
<1>5. \A j \in DOMAIN stack' : (\E i \in DOMAIN stack : stack'[j] = stack[i]) \/ Moved(j)
  BY <1>0, PullStep DEF Bound
<1>. QED BY <1>0, <1>4, <1>5 DEF Step

LEMMA StepReconnect ==
    ASSUME IInv, NEW s \in Servers, Reconnect(s)
    PROVE  Step
<1>0. /\ TypeOK /\ ld_msgid \in Nat /\ ld_msgid' = ld_msgid + 2 /\ ld_msgid + 1 < MaxMsgid
      /\ styles' = styles /\ session = "open" /\ Working /\ req \in [Ids -> Request]
      /\ Top \in Chase
  <2>1. TypeOK
    BY DEF IInv
  <2>2. ld_msgid \in Nat /\ req \in [Ids -> Request]
    BY <2>1 DEF TypeOK
  <2>3. /\ AtUrl(s) /\ ld_msgid' = ld_msgid + 2 /\ ld_msgid + 1 < MaxMsgid /\ styles' = styles
    BY DEF Reconnect
  <2>4. session = "open" /\ Working
    BY <2>3 DEF AtUrl, Working
  <2>5. Top \in Chase
    BY <2>1, <2>4, TopPicked DEF Working
  <2>. QED BY <2>1, <2>2, <2>3, <2>4, <2>5
<1>1. PICK b \in Ids : b = ld_msgid + 2 /\ b > ld_msgid /\ b \in Nat
  BY <1>0, BoundsAssumption DEF Ids
<1>2. PICK p \in Ids : p = Parent(Top)
  BY <1>0, CountsIn DEF Working
<1>3. PICK k \in Int : k = req[p].out + 1
  BY <1>0, RequestIs
<1>4. req' = [[req EXCEPT ![p] = [req[p] EXCEPT !.out = k]] EXCEPT ![b] = Root(b, s, "bind")]
  <2>1. req' = [[req EXCEPT ![p].out = @ + 1] EXCEPT ![b] = Root(b, s, "bind")]
    BY <1>0, <1>1, <1>2 DEF Reconnect, Counted
  <2>. QED BY <1>0, <1>3, <2>1
<1>5. \A id \in Ids : id # b => /\ req'[id].st = req[id].st /\ req'[id].parent = req[id].parent
                                /\ req'[id].hops = req[id].hops
  BY <1>0, <1>4 DEF Request
<1>6. req'[b].parent = 0 /\ req'[b].hops = 0
  BY <1>0, <1>4, RootHops
<1>7. \A id \in Ids : Live(id)' => Old(id) \/ Fresh(id)
  BY <1>1, <1>5, <1>6 DEF Old, Fresh, Live
<1>8. PICK n \in Nat : n = ld_msgid + 1 /\ n > ld_msgid
  BY <1>0
<1>9. PICK f \in Chase : TopBecomes(f) /\ f.new = n /\ f.i = Top.i /\ f.v3 = Top.v3
  <2>. DEFINE g == [[[Top EXCEPT !.st = "wait"] EXCEPT !.new = n] EXCEPT !.bind = b]
  <2>1. g \in Chase /\ g.new = n /\ g.i = Top.i /\ g.v3 = Top.v3
    BY <1>0, <1>1 DEF Chase
  <2>2. g = [Top EXCEPT !.st = "wait", !.new = ld_msgid + 1, !.bind = ld_msgid']
    BY <1>0, <1>1, <1>8
  <2>3. TopBecomes(g)
    BY <2>2 DEF Reconnect
  <2>. HIDE DEF g
  <2>. QED BY <2>1, <2>3
<1>10. \A j \in DOMAIN stack' : (\E i \in DOMAIN stack : stack'[j] = stack[i]) \/ Moved(j)
  BY <1>0, <1>8, <1>9, TopMoved
<1>. QED BY <1>0, <1>7, <1>10 DEF Step

LEMMA StepEnd ==
    ASSUME IInv, Chased \/ Passed \/ Unfollowed
    PROVE  Step
<1>0. /\ TypeOK /\ ld_msgid \in Nat /\ ld_msgid' = ld_msgid /\ styles' = styles /\ session = "open"
      /\ stack # <<>> /\ stack' = Tail(stack) /\ req \in [Ids -> Request]
  BY DEF IInv, TypeOK, Chased, Passed, Unfollowed, Move, AtEnd
<1>1. Top.lr \in Ids /\ stack \in Seq(Chase)
  BY <1>0, TopPicked
<1>2. \A k \in DOMAIN stack' : \E j \in DOMAIN stack : stack'[k] = stack[j]
  BY <1>0, <1>1, Popped
<1>3. \A id \in Ids : Live(id)' => Old(id)
  <2>1. CASE Unfollowed
    BY <1>1, <2>1, ReadyAtEnd, FinishTells DEF Unfollowed
  <2>2. CASE Chased \/ Passed
    <3>1. PICK lr \in Ids : lr = Top.lr /\ Live(lr)
      BY <1>0, <1>1, TopPicked DEF IInv, Core, LrHeld
    <3>2. \/ req' = req
          \/ req' = [req EXCEPT ![lr] = [req[lr] EXCEPT !.st = "completed"]]
          \/ /\ req[lr].st # "completed"
             /\ req' = [req EXCEPT ![lr] = [req[lr] EXCEPT !.st = "chasing"]]
      BY <1>0, <2>2, <3>1 DEF Chased, Passed, Move, Chasing
    <3>. QED BY <1>0, <3>1, <3>2 DEF Old, Live, Request
  <2>. QED BY <2>1, <2>2
<1>. QED BY <1>0, <1>2, <1>3 DEF Step

LEMMA StepFailed ==
    ASSUME IInv,
           ReadError \/ \E s \in Servers : QueueOn(s) \/ ConnectFails(s) \/ Refused(s)
    PROVE  Step
<1>0. /\ TypeOK /\ ld_msgid \in Nat /\ ld_msgid' \in Nat /\ ld_msgid' >= ld_msgid /\ styles' = styles
      /\ session = "open" /\ Working /\ req \in [Ids -> Request] /\ stack # <<>>
  BY DEF IInv, TypeOK, ReadError, QueueOn, ConnectFails, Refused, Reading, AtUrl, Binding, Working, InBind
<1>1. /\ Top \in Chase /\ Top = stack[1] /\ stack \in Seq(Chase) /\ 1 \in DOMAIN stack
      /\ Top.i \in Nat \ {0}
  BY <1>0, TopPicked
<1>2. \A id \in Ids : Live(id)' => Old(id)
  <2>1. ASSUME NEW s \in Servers, Refused(s) PROVE \A id \in Ids : Live(id)' => Old(id)
    <3>1. PICK p \in Ids : p = Parent(Top)
      BY <1>0, CountsIn
    <3>2. PICK k \in Int : k = req[p].out - 1
      BY <1>0, RequestIs
    <3>3. req' = [req EXCEPT ![p] = [req[p] EXCEPT !.out = k]]
      BY <1>0, <2>1, <3>1, <3>2 DEF Refused, Forget
    <3>. QED BY <1>0, <3>3 DEF Old, Live, Request
  <2>2. ASSUME ReadError \/ \E s \in Servers : QueueOn(s) \/ ConnectFails(s)
        PROVE  req' = req
    BY <2>2 DEF ReadError, QueueOn, ConnectFails
  <2>. QED BY <2>1, <2>2, StillThere
<1>3. \A k \in DOMAIN stack' : (\E j \in DOMAIN stack : stack'[k] = stack[j]) \/ Moved(k)
  <2>1. CASE ReadError
    <3>1. PICK f \in Chase : f = [Top EXCEPT !.st = "refused"] /\ f.i = Top.i /\ f.new = Top.new /\ f.v3 = Top.v3
      <4>. DEFINE g == [Top EXCEPT !.st = "refused"]
      <4>1. g \in Chase /\ g.i = Top.i /\ g.new = Top.new /\ g.v3 = Top.v3
        BY <1>1 DEF Chase
      <4>. QED BY <4>1, Zenon
    <3>2. Top.st \in InBind
      BY <2>1 DEF ReadError, Reading, InBind
    <3>3. /\ DOMAIN stack' = DOMAIN stack /\ stack'[1] = f
          /\ \A k \in DOMAIN stack : k # 1 => stack'[k] = stack[k]
      BY <1>1, <2>1, <3>1 DEF ReadError
    <3>4. Moved(1)
      BY <1>0, <1>1, <3>1, <3>2, <3>3 DEF Moved
    <3>. QED BY <3>3, <3>4
  <2>2. ASSUME NEW s \in Servers, QueueOn(s)
        PROVE  \A k \in DOMAIN stack' : (\E j \in DOMAIN stack : stack'[k] = stack[j]) \/ Moved(k)
    <3>1. PICK f \in Chase : f = [Top EXCEPT !.st = "followed"] /\ f.i = Top.i /\ f.st = "followed" /\ f.v3 = Top.v3
      <4>. DEFINE g == [Top EXCEPT !.st = "followed"]
      <4>1. g \in Chase /\ g.i = Top.i /\ g.st = "followed" /\ g.v3 = Top.v3
        BY <1>1 DEF Chase
      <4>. QED BY <4>1, Zenon
    <3>2. TopBecomes(f)
      BY <2>2, <3>1 DEF QueueOn, Queued
    <3>. QED BY <1>0, <3>1, <3>2, TopMoved DEF InBind
  <2>3. ASSUME NEW s \in Servers, ConnectFails(s) \/ Refused(s)
        PROVE  \A k \in DOMAIN stack' : (\E j \in DOMAIN stack : stack'[k] = stack[j]) \/ Moved(k)
    <3>1. PICK i \in Nat \ {0} : i = Top.i + 1
      BY <1>1
    <3>2. PICK f \in Chase : f.st = "next" /\ f.v3 = Top.v3 /\ TopBecomes(f)
      <4>. DEFINE g == [[Top EXCEPT !.i = i] EXCEPT !.st = "next"]
      <4>1. g \in Chase /\ g.st = "next" /\ g.v3 = Top.v3
        BY <1>1 DEF Chase
      <4>2. TopBecomes(g)
        <5>1. CASE ConnectFails(s)
          <6>1. Top.st = "next"
            BY <5>1 DEF ConnectFails, AtUrl
          <6>2. g = [Top EXCEPT !.i = i]
            BY <1>1, <6>1 DEF Chase
          <6>. QED BY <3>1, <5>1, <6>2 DEF ConnectFails
        <5>2. CASE Refused(s)
          <6>1. g = [Top EXCEPT !.i = @ + 1, !.st = "next"]
            BY <1>1, <3>1 DEF Chase
          <6>. QED BY <5>2, <6>1 DEF Refused
        <5>. QED BY <2>3, <5>1, <5>2
      <4>. HIDE DEF g
      <4>. QED BY <4>1, <4>2
    <3>3. faults' # <<>> \/ Top.st = "refused"
      <4>1. faults \in Seq({"connect", "bind", "read"})
        BY <1>0 DEF TypeOK
      <4>2. Append(faults, "connect") # <<>>
        <5>1. /\ Append(faults, "connect") \in Seq({"connect", "bind", "read"})
              /\ Len(Append(faults, "connect")) = Len(faults) + 1 /\ Len(faults) \in Nat
          BY <4>1
        <5>. QED BY <5>1
      <4>. QED BY <2>3, <4>2 DEF ConnectFails, Refused, Binding
    <3>. QED BY <1>0, <3>2, <3>3, TopMoved DEF InBind
  <2>. QED BY <2>1, <2>2, <2>3
<1>. QED BY <1>0, <1>2, <1>3 DEF Step

LEMMA StepQuiet ==
    ASSUME IInv, (\E id \in Ids : Take(id) \/ Abandon(id)) \/ \E s \in Servers : Break(s)
    PROVE  Step
<1>0. TypeOK /\ ld_msgid \in Nat
  BY DEF IInv, TypeOK
<1>1. ASSUME NEW id \in Ids, Take(id) PROVE Step
  <2>1. ld_msgid' = ld_msgid /\ styles' = styles /\ stack' = stack /\ req' = req
    BY <1>1 DEF Take
  <2>. QED BY <1>0, <2>1, StillThere DEF Step
<1>2. ASSUME NEW s \in Servers, Break(s) PROVE Step
  <2>1. ld_msgid' = ld_msgid /\ styles' = styles /\ stack' = stack /\ req' = req
    BY <1>2 DEF Break
  <2>. QED BY <1>0, <2>1, StillThere DEF Step
<1>3. ASSUME NEW id \in Ids, Abandon(id) PROVE Step
  <2>1. ld_msgid' = ld_msgid /\ styles' = styles /\ stack' = stack
    BY <1>3 DEF Abandon
  <2>2. req' = req \/ req' = Freed(req, id)
    BY <1>3 DEF Abandon
  <2>3. \A x \in Ids : Live(x)' => Old(x)
    <3>1. ASSUME req' = Freed(req, id) PROVE \A x \in Ids : Live(x)' => Old(x)
      BY <3>1 DEF Freed, NoRequest, Old, Live
    <3>. QED BY <2>2, <3>1, StillThere
  <2>. QED BY <1>0, <2>1, <2>3 DEF Step
<1>. QED BY <1>1, <1>2, <1>3

LEMMA StepNext ==
    ASSUME IInv, Next, session' = "open"
    PROVE  Step
<1>1. ~Unbind /\ \A s \in Servers : ~WriteFails(s)
  BY DEF Unbind, WriteFails
<1>. QED BY <1>1, StepSend, StepRead, StepRefs, StepSendOn, StepBound, StepReconnect, StepEnd, StepFailed,
            StepQuiet DEF Next, ChaseStep

-----------------------------------------------------------------------------
LEMMA OpenStays ==
    ASSUME Next, session' = "open"
    PROVE  session = "open"
BY DEF Next, ChaseStep, Send, ReadResult, ReadBind, ReadRefs, ReadError, QueueOn, SendOn,
       Reconnect, ConnectFails, Bound, Refused, WriteFails, Chased, Passed, Unfollowed, Take, Abandon,
       Unbind, Break, Idle, Answers, Reading, AtUrl, Binding, AtEnd

(* The kinds of the referrals that are chased have been received.          *)
Styled ==
    session = "open" => \A k \in DOMAIN stack : (IF stack[k].v3 THEN 3 ELSE 2) \in styles

LEMMA StyledThen ==
    ASSUME IInv, Styled, Next
    PROVE  Styled'
<1>. SUFFICES ASSUME session' = "open", NEW k \in DOMAIN stack'
              PROVE  (IF stack'[k].v3 THEN 3 ELSE 2) \in styles'
  BY DEF Styled
<1>1. Step /\ session = "open"
  BY StepNext, OpenStays
<1>2. \A j \in DOMAIN stack : (IF stack[j].v3 THEN 3 ELSE 2) \in styles
  BY <1>1 DEF Styled
<1>3. CASE \E j \in DOMAIN stack : stack'[k].v3 = stack[j].v3
  BY <1>1, <1>2, <1>3 DEF Step
<1>4. CASE Begun(k)
  BY <1>4 DEF Begun
<1>. QED BY <1>1, <1>3, <1>4 DEF Step, Moved

(* The hop limit with referrals of LDAPv3: an operation has the count 0, a *)
(* child 1.  With the limit 0 nothing is followed; above 1 everything is,  *)
(* as long as nothing fails.                                               *)
Hops ==
    session = "open" /\ faults = <<>> /\ 2 \notin styles =>
        /\ \A id \in Ids : Live(id) => req[id].hops = IF req[id].parent = 0 THEN 0 ELSE 1
        /\ HopLimit = 0 => /\ \A id \in Ids : Live(id) => req[id].parent = 0
                           /\ \A k \in DOMAIN stack : stack[k].st = "next" /\ stack[k].i > Len(stack[k].refs)
        /\ HopLimit > 1 => \A k \in DOMAIN stack : stack[k].i = 1

LEMMA HopsThen ==
    ASSUME IInv, Smooth, Styled, Hops, Next
    PROVE  Hops'
<1>. SUFFICES ASSUME session' = "open", faults' = <<>>, 2 \notin styles'
              PROVE  /\ \A id \in Ids : Live(id)' => req'[id].hops = IF req'[id].parent = 0 THEN 0 ELSE 1
                     /\ HopLimit = 0 => /\ \A id \in Ids : Live(id)' => req'[id].parent = 0
                                        /\ \A k \in DOMAIN stack' : stack'[k].st = "next" /\ stack'[k].i > Len(stack'[k].refs)
                     /\ HopLimit > 1 => \A k \in DOMAIN stack' : stack'[k].i = 1
  BY DEF Hops
<1>0. /\ TypeOK /\ Step /\ session = "open" /\ faults = <<>> /\ 2 \notin styles /\ Straight
  BY StepNext, FaultsStay DEF IInv, Smooth, Step
<1>1. /\ \A id \in Ids : Live(id) => req[id].hops = IF req[id].parent = 0 THEN 0 ELSE 1
      /\ HopLimit = 0 => /\ \A id \in Ids : Live(id) => req[id].parent = 0
                         /\ \A k \in DOMAIN stack : stack[k].st = "next" /\ stack[k].i > Len(stack[k].refs)
      /\ HopLimit > 1 => \A k \in DOMAIN stack : stack[k].i = 1
  BY <1>0 DEF Hops
<1>2. Working => HopLimit # 0 /\ Top.st # "refused" /\ Top.v3
  <2>. SUFFICES ASSUME Working PROVE HopLimit # 0 /\ Top.st # "refused" /\ Top.v3
    OBVIOUS
  <2>1. Top = stack[1] /\ 1 \in DOMAIN stack /\ Top.i \in Nat /\ Top.refs \in Seq(Servers)
    BY <1>0, TopPicked DEF Working
  <2>2. Len(Top.refs) \in Nat
    BY <2>1
  <2>. QED BY <1>0, <1>1, <2>1, <2>2 DEF Working, Straight, Styled, InBind
<1>3. ASSUME NEW id \in Ids, Live(id)'
      PROVE  /\ req'[id].hops = IF req'[id].parent = 0 THEN 0 ELSE 1
             /\ HopLimit = 0 => req'[id].parent = 0
  <2>1. CASE Old(id)
    BY <1>1, <2>1 DEF Old
  <2>2. CASE Fresh(id)
    BY <1>0, <1>1, <1>2, <2>2, IdsAre DEF Fresh
  <2>. QED BY <1>0, <1>3, <2>1, <2>2 DEF Step
<1>4. ASSUME NEW k \in DOMAIN stack'
      PROVE  /\ HopLimit = 0 => stack'[k].st = "next" /\ stack'[k].i > Len(stack'[k].refs)
             /\ HopLimit > 1 => stack'[k].i = 1
  <2>1. CASE \E j \in DOMAIN stack : stack'[k] = stack[j]
    BY <1>1, <2>1
  <2>2. CASE Moved(k)
    BY <1>1, <1>2, <2>2 DEF Moved
  <2>3. CASE Begun(k)
    <3>1. PICK x \in Ids : Live(x) /\ stack'[k].i = IF req[x].hops >= HopLimit THEN Len(stack'[k].refs) + 1 ELSE 1
      BY <2>3 DEF Begun
    <3>2. req[x].hops \in {0, 1} /\ HopLimit \in Nat
      BY <1>1, <3>1, BoundsAssumption
    <3>3. Len(stack'[k].refs) \in Nat
      <4>1. TypeOK'
        BY NextThen DEF IInv
      <4>2. stack' \in Seq(Chase)
        BY <4>1 DEF TypeOK
      <4>3. stack'[k].refs \in RefLists
        <5>1. stack'[k] \in Chase
          BY <4>2
        <5>. QED BY <5>1 DEF Chase
      <4>4. stack'[k].refs \in Seq(Servers)
        BY <4>3, RefListsAssumption
      <4>. QED BY <4>4
    <3>. QED BY <2>3, <3>1, <3>2, <3>3 DEF Begun
  <2>. QED BY <1>0, <2>1, <2>2, <2>3 DEF Step
<1>. QED BY <1>3, <1>4

-----------------------------------------------------------------------------
(* What the application has been told.  Who follows every referral, or     *)
(* passes on none but those of operations, tells of an operation once; one *)
(* it has told of is freed, or complete with nothing left to come.         *)
Single == 3 \notin styles \/ (2 \notin styles /\ faults = <<>> /\ HopLimit # 1)

Told ==
    /\ \A id \in Ids : finals[id] > 0 => id <= ld_msgid
    /\ \A k \in DOMAIN stack : stack[k].st \in InBind => finals[stack[k].new] = 0
    /\ \A id \in Ids : Live(id) /\ finals[id] > 0 =>
          3 \in styles /\ HopLimit = 0 /\ req[id].st = "completed"

Once == Single => (\A id \in Ids : finals[id] <= 1) /\ (session = "open" => Told)

Tells(top) ==
    /\ finals' = [finals EXCEPT ![top] = @ + 1] /\ Live(top) /\ finals[top] = 0
    /\ \/ req'[top].st = "free"
       \/ 3 \in styles /\ HopLimit = 0 /\ req'[top].st = "completed"

LEMMA ToldThen ==
    ASSUME IInv, IInv', session = "open", session' = "open", Step, Told, \A id \in Ids : finals[id] <= 1,
           finals' = finals \/ \E top \in Ids : Tells(top)
    PROVE  Told' /\ \A id \in Ids : finals'[id] <= 1
<1>0. /\ TypeOK /\ Core /\ finals \in [Ids -> Nat] /\ Core' /\ styles \subseteq styles'
      /\ ld_msgid \in Nat /\ ld_msgid' \in Nat /\ ld_msgid' >= ld_msgid
  BY DEF IInv, TypeOK, Step
<1>1. PICK T \in SUBSET Ids :
        /\ \A id \in T : /\ finals'[id] = 1 /\ finals[id] = 0 /\ Live(id) /\ id <= ld_msgid
                         /\ Live(id)' => 3 \in styles' /\ HopLimit = 0 /\ req'[id].st = "completed"
        /\ \A id \in Ids : id \notin T => finals'[id] = finals[id]
  <2>1. CASE finals' = finals
    <3>1. {} \in SUBSET Ids
      OBVIOUS
    <3>2. \A id \in {} : FALSE
      OBVIOUS
    <3>. QED BY <2>1, <3>1, <3>2
  <2>2. ASSUME NEW top \in Ids, Tells(top)
        PROVE  LET T == {top}
               IN  /\ \A id \in T : /\ finals'[id] = 1 /\ finals[id] = 0 /\ Live(id) /\ id <= ld_msgid
                                    /\ Live(id)' => 3 \in styles' /\ HopLimit = 0 /\ req'[id].st = "completed"
                   /\ \A id \in Ids : id \notin T => finals'[id] = finals[id]
    BY <1>0, <2>2 DEF Tells, Core, Drawn, Live
  <2>3. ASSUME NEW top \in Ids, Tells(top)
        PROVE  \E T \in SUBSET Ids :
                   /\ \A id \in T : /\ finals'[id] = 1 /\ finals[id] = 0 /\ Live(id) /\ id <= ld_msgid
                                    /\ Live(id)' => 3 \in styles' /\ HopLimit = 0 /\ req'[id].st = "completed"
                   /\ \A id \in Ids : id \notin T => finals'[id] = finals[id]
    <3>1. {top} \in SUBSET Ids
      OBVIOUS
    <3>. QED BY <2>2, <2>3, <3>1
  <2>. QED BY <2>1, <2>3
<1>2. \A id \in Ids : finals'[id] <= 1
  BY <1>0, <1>1
<1>3. \A id \in Ids : finals'[id] > 0 => id <= ld_msgid'
  BY <1>0, <1>1, IdsAre DEF Told
<1>4. ASSUME NEW k \in DOMAIN stack', stack'[k].st \in InBind
      PROVE  finals'[stack'[k].new] = 0
  <2>1. PICK n \in Ids : n = stack'[k].new
    BY <1>0, <1>4 DEF Core, NewIds
  <2>2. n > ld_msgid \/ \E j \in DOMAIN stack : stack[j].st \in InBind /\ n = stack[j].new
    BY <1>4, <2>1 DEF Step, Moved, Begun, InBind
  <2>3. finals[n] = 0 /\ n \notin T
    <3>1. CASE n > ld_msgid
      BY <1>0, <1>1, <3>1, IdsAre DEF Told
    <3>2. ASSUME NEW j \in DOMAIN stack, stack[j].st \in InBind, n = stack[j].new
          PROVE  finals[n] = 0 /\ n \notin T
      BY <1>0, <1>1, <3>2 DEF Told, Core, NewIds
    <3>. QED BY <2>2, <3>1, <3>2
  <2>. QED BY <1>1, <2>1, <2>3
<1>5. ASSUME NEW id \in Ids, Live(id)', finals'[id] > 0
      PROVE  3 \in styles' /\ HopLimit = 0 /\ req'[id].st = "completed"
  <2>1. CASE id \in T
    BY <1>1, <1>5, <2>1
  <2>2. CASE id \notin T /\ Old(id)
    BY <1>0, <1>1, <1>5, <2>2 DEF Told, Old
  <2>3. CASE id \notin T /\ Fresh(id)
    <3>1. finals[id] > 0
      BY <1>1, <1>5, <2>3
    <3>2. id <= ld_msgid /\ id \in Nat
      BY <3>1, IdsAre DEF Told
    <3>3. ~(id > ld_msgid)
      BY <1>0, <3>2
    <3>. QED BY <1>0, <2>3, <3>1, <3>3 DEF Told, Fresh
  <2>. QED BY <1>5, <2>1, <2>2, <2>3 DEF Step
<1>. QED BY <1>0, <1>2, <1>3, <1>4, <1>5 DEF Told

(* Who tells. *)
LEMMA FinishOnce ==
    ASSUME IInv, session = "open", NEW lr \in Ids, Ready(lr), Finish(lr), Hops, Single, Told
    PROVE  finals' = finals \/ \E top \in Ids : Tells(top)
<1>. SUFFICES ASSUME NEW top \in Ids, finals' = [finals EXCEPT ![top] = @ + 1],
                     Live(top), req'[top].st = "free", req[lr].parent = 0 => top = lr
              PROVE  Tells(top)
  BY FinishTells
<1>1. finals[top] \in Nat /\ Live(lr) /\ req[lr].st # "completed"
  BY DEF IInv, TypeOK, Ready
<1>2. finals[top] = 0
  <2>. SUFFICES ASSUME finals[top] > 0 PROVE FALSE
    BY <1>1
  <2>1. 3 \in styles /\ HopLimit = 0 /\ req[top].st = "completed"
    BY DEF Told
  <2>2. req[lr].parent = 0
    BY <1>1, <2>1 DEF Single, Hops
  <2>. QED BY <1>1, <2>1, <2>2
<1>. QED BY <1>2 DEF Tells

LEMMA PassedOnce ==
    ASSUME IInv, Passed, Styled, Hops, Single, Told
    PROVE  finals' = finals \/ \E top \in Ids : Tells(top)
<1>a. /\ TypeOK /\ Core /\ session = "open" /\ Top.v3 /\ stack # <<>>
      /\ Top.st = "next" /\ Top.i > Len(Top.refs) /\ HopLimit \in Nat
  BY BoundsAssumption DEF IInv, Passed, AtEnd
<1>1. /\ Top = stack[1] /\ 1 \in DOMAIN stack /\ Top.refs \in RefLists
  BY <1>a, TopPicked
<1>0. /\ TypeOK /\ Core /\ session = "open" /\ 3 \in styles /\ 2 \notin styles /\ stack # <<>>
      /\ Top.st = "next" /\ Top.i > Len(Top.refs) /\ faults = <<>> /\ HopLimit # 1 /\ HopLimit \in Nat
  BY <1>a, <1>1 DEF Styled, Single
<1>2. HopLimit = 0
  <2>1. Len(Top.refs) \in Nat /\ Len(Top.refs) >= 1
    BY <1>1, RefListsAssumption
  <2>2. Top.i # 1
    BY <1>0, <2>1
  <2>. QED BY <1>0, <1>1, <2>2 DEF Hops
<1>3. PICK lr \in Ids : lr = Top.lr /\ Live(lr)
  BY <1>0, <1>1, TopPicked DEF Core, LrHeld
<1>4. req[lr].orig = lr
  <2>1. req[lr].parent = 0 /\ Placed(lr)
    BY <1>0, <1>2, <1>3 DEF Hops, Core, Tree
  <2>. QED BY <2>1, IdsAre DEF Placed, IsRoot, IsChild
<1>5. CASE Top.final
  <2>1. req[lr].st # "completed"
    BY <1>0, <1>1, <1>3, <1>5 DEF Core, Finals
  <2>2. finals[lr] = 0
    <3>1. finals[lr] \in Nat
      BY <1>0 DEF TypeOK
    <3>. QED BY <1>3, <2>1, <3>1 DEF Told
  <2>3. finals' = [finals EXCEPT ![lr] = @ + 1]
    BY <1>3, <1>4, <1>5 DEF Passed
  <2>4. req'[lr].st = "completed"
    <3>1. req' = [req EXCEPT ![lr] = [req[lr] EXCEPT !.st = "completed"]] /\ req \in [Ids -> Request]
      BY <1>0, <1>3, <1>5 DEF Passed, Move, TypeOK
    <3>. QED BY <3>1 DEF Request
  <2>5. Tells(lr)
    BY <1>0, <1>2, <1>3, <2>2, <2>3, <2>4 DEF Tells
  <2>. QED BY <2>5
<1>6. CASE ~Top.final
  BY <1>6 DEF Passed
<1>. QED BY <1>5, <1>6

LEMMA OnceThen ==
    ASSUME IInv, Smooth, Styled, Hops, Once, Next
    PROVE  Once'
<1>. SUFFICES ASSUME Single'
              PROVE  (\A id \in Ids : finals'[id] <= 1) /\ (session' = "open" => Told')
  BY DEF Once
<1>0. TypeOK /\ IInv' /\ styles \subseteq styles'
  BY NextThen DEF IInv, Next, ChaseStep, Send, ReadResult, ReadBind, ReadRefs, ReadError, QueueOn, SendOn,
       Reconnect, ConnectFails, Bound, Refused, WriteFails, Chased, Passed, Unfollowed, Take, Abandon,
       Unbind, Break
<1>1. CASE session' = "open"
  <2>1. Step /\ session = "open"
    BY <1>1, StepNext, OpenStays
  <2>2. Single
    BY <1>0, <1>1, <2>1, FaultsStay DEF Single
  <2>3. Told /\ \A id \in Ids : finals[id] <= 1
    BY <2>1, <2>2 DEF Once
  <2>4. finals' = finals \/ \E top \in Ids : Tells(top)
    <3>1. ASSUME NEW id \in Ids, ReadResult(id) \/ \E ok \in BOOLEAN : ReadBind(id, ok)
          PROVE  finals' = finals \/ \E top \in Ids : Tells(top)
      <4>1. Answers(id) /\ Finish(id)
        BY <3>1 DEF ReadResult, ReadBind
      <4>. QED BY <2>1, <2>2, <2>3, <4>1, ReadyWhenRead, FinishOnce
    <3>2. CASE Unfollowed
      <4>1. PICK lr \in Ids : lr = Top.lr /\ Ready(lr) /\ Finish(lr)
        BY <3>2, ReadyAtEnd DEF Unfollowed
      <4>. QED BY <2>1, <2>2, <2>3, <4>1, FinishOnce
    <3>3. CASE Passed
      BY <2>2, <2>3, <3>3, PassedOnce
    <3>4. \/ finals' = finals \/ Unfollowed \/ Passed
          \/ \E id \in Ids : ReadResult(id) \/ \E ok \in BOOLEAN : ReadBind(id, ok)
      BY DEF Next, ChaseStep, Send, ReadRefs, ReadError, QueueOn, SendOn,
         Reconnect, ConnectFails, Bound, Refused, WriteFails, Chased, Take, Abandon, Unbind, Break
    <3>. QED BY <3>1, <3>2, <3>3, <3>4
  <2>. QED BY <1>0, <1>1, <2>1, <2>3, <2>4, ToldThen
<1>2. CASE session' # "open"
  <2>1. Unbind \/ (\E s \in Servers : WriteFails(s)) \/ session' = session
    BY DEF Next, ChaseStep, Send, ReadResult, ReadBind, ReadRefs, ReadError, QueueOn, SendOn,
       Reconnect, ConnectFails, Bound, Refused, Chased, Passed, Unfollowed, Take, Abandon, Break
  <2>2. Unbind \/ \E s \in Servers : WriteFails(s)
    BY <1>2, <2>1 DEF Next, ChaseStep, Send, ReadResult, ReadBind, ReadRefs, ReadError, QueueOn, SendOn,
       Reconnect, ConnectFails, Bound, Refused, Chased, Passed, Unfollowed, Take, Abandon, Break,
       Idle, Answers, Reading, AtUrl, Binding, AtEnd
  <2>3. finals' = finals /\ faults' = faults /\ styles' = styles
    BY <2>2 DEF Unbind, WriteFails
  <2>. QED BY <1>0, <1>2, <2>3 DEF Once, Single
<1>. QED BY <1>1, <1>2

LEMMA OnceAlways == Spec => [](IInv /\ Smooth /\ Styled /\ Hops /\ Once)
<1>1. Init => IInv /\ Smooth /\ Styled /\ Hops /\ Once
  <2>1. ASSUME Init PROVE Straight /\ \A s \in Servers : Lined(s)
    BY <2>1 DEF Init, Straight, Lined, NoConnection
  <2>2. ASSUME Init PROVE Styled /\ Hops /\ Once
    BY <2>2 DEF Init, Styled, Hops, Once, Told, Live, NoRequest
  <2>. QED BY <2>1, <2>2, InitThen DEF Smooth
<1>2. IInv /\ Smooth /\ Styled /\ Hops /\ Once /\ [Next]_vars => IInv' /\ Smooth' /\ Styled' /\ Hops' /\ Once'
  <2>. SUFFICES ASSUME IInv, Smooth, Styled, Hops, Once, [Next]_vars
               PROVE  IInv' /\ Smooth' /\ Styled' /\ Hops' /\ Once'
    OBVIOUS
  <2>1. IInv' /\ Smooth'
    BY NextThen, StutterThen, SmoothThen
  <2>2. CASE Next
    BY <2>1, <2>2, StyledThen, HopsThen, OnceThen
  <2>3. CASE UNCHANGED vars
    BY <2>1, <2>3 DEF vars, Styled, Hops, Once, Told, Single, Live
  <2>. QED BY <2>2, <2>3
<1>. QED BY <1>1, <1>2, PTL DEF Spec

(* The application gets one final message of an operation (try_read1msg),  *)
(* whichever chases passed a result on and whichever request under the     *)
(* operation ended last.                                                   *)
THEOREM OnceTheorem == Spec => []OneFinal
<1>1. Once => OneFinal
  BY DEF Once, Single, OneFinal
<1>. QED BY <1>1, OnceAlways, PTL

-----------------------------------------------------------------------------
(* The table of connections.  A connection is used by the requests on it   *)
(* that are not complete and have not been abandoned (a bind only as long  *)
(* as its answer can come), and kept by the chase that has it bound.       *)
Sound == 2 \notin styles \/ ~Failed({"bind", "read"})
Clean == moved = {} /\ aborted = {} /\ ~Failed({"bind", "read"})

Busy(id)    == Live(id) /\ req[id].st # "completed"
Uses(id, s) == /\ Busy(id) /\ req[id].conn = s /\ id \notin abandoned
               /\ req[id].kind = "op" \/ id \in asked[s]
Using(s)    == {id \in Ids : Uses(id, s)}
Keeps(k, s) == stack[k].st \in InBind /\ stack[k].refs[stack[k].i] = s
Held(s)     == \E k \in DOMAIN stack : Keeps(k, s)
Total(s)    == (IF s = Default THEN 1 ELSE 0) + Cardinality(Using(s)) + (IF Held(s) THEN 1 ELSE 0)

(* The count is the number of all these, or more where a request that was  *)
(* referred or abandoned has not let go.                                   *)
Weighed(s) ==
    /\ conn[s].refcnt >= 0 /\ (conn[s].open <=> conn[s].refcnt > 0)
    /\ Sound \/ s = Default => conn[s].refcnt >= Total(s)
    /\ Clean => conn[s].refcnt = Total(s)

(* One chase at most binds a connection; without referrals of LDAPv2       *)
(* nobody else uses it meanwhile, so that it is nobody else's when the     *)
(* bind fails.                                                             *)
Alone(s) == \A j, k \in DOMAIN stack : Keeps(j, s) /\ Keeps(k, s) => j = k
Sole     == Sound => \A s \in Servers : Alone(s)
Reserved(s) ==
    Held(s) => /\ s # Default
               /\ 2 \notin styles => conn[s].rebinding /\ \A id \in Using(s) : req[id].kind = "bind"

Faultless ==
    ~Failed({"bind", "read"}) =>
        /\ \A s \in Servers : ~conn[s].broken
        /\ \A k \in DOMAIN stack : stack[k].st # "refused"
        /\ \A id \in Ids : Busy(id) /\ req[id].kind = "bind" => id \in asked[req[id].conn]

(* What was abandoned belongs to an operation that was, and is not what a  *)
(* chase is about.                                                         *)
Gone ==
    /\ \A id \in abandoned : /\ id <= ld_msgid
                             /\ Live(id) => req[id].orig \in aborted
    /\ \A k \in DOMAIN stack : /\ stack[k].lr \notin abandoned
                               /\ stack[k].st \in InBind => stack[k].new \notin abandoned /\ stack[k].new \notin ops
    /\ \A id \in ops : id <= ld_msgid /\ (Live(id) => req[id].kind = "op" /\ req[id].orig = id)

Conns == /\ Sole /\ Faultless /\ Gone
         /\ \A s \in Servers : Weighed(s) /\ Reserved(s)

ConnInv == session = "open" => Conns

-----------------------------------------------------------------------------
(* Which connections are kept, by what becomes of the stack.               *)
Unkept(f) == f.st \notin InBind

SameHeld == /\ \A s \in Servers : Held(s)' <=> Held(s)
            /\ \A s \in Servers : Alone(s) => Alone(s)'

LEMMA HeldSame ==
    ASSUME DOMAIN stack' = DOMAIN stack,
           \A k \in DOMAIN stack : \A s \in Servers : Keeps(k, s)' <=> Keeps(k, s)
    PROVE  SameHeld
BY DEF SameHeld, Held, Alone

LEMMA HeldTop ==
    ASSUME TypeOK, stack # <<>>, Unkept(Top), NEW f \in Chase, Unkept(f), TopBecomes(f)
    PROVE  SameHeld
<1>1. /\ DOMAIN stack' = DOMAIN stack /\ stack'[1] = f
      /\ \A k \in DOMAIN stack : k # 1 => stack'[k] = stack[k]
  BY Replaced DEF TypeOK
<1>2. Top = stack[1]
  BY TopPicked
<1>3. \A k \in DOMAIN stack : \A s \in Servers : Keeps(k, s)' <=> Keeps(k, s)
  BY <1>1, <1>2 DEF Keeps, Unkept
<1>. QED BY <1>1, <1>3, HeldSame

LEMMA HeldPush ==
    ASSUME TypeOK, NEW f \in Chase, Unkept(f), stack' = <<f>> \o stack
    PROVE  SameHeld
<1>1. /\ DOMAIN stack' = {1} \cup {k + 1 : k \in DOMAIN stack}
      /\ stack'[1] = f /\ \A k \in DOMAIN stack : stack'[k + 1] = stack[k]
  BY Pushed DEF TypeOK
<1>2. ASSUME NEW s \in Servers PROVE (Held(s)' <=> Held(s)) /\ (Alone(s) => Alone(s)')
  <2>1. ~Keeps(1, s)' /\ \A k \in DOMAIN stack : Keeps(k + 1, s)' <=> Keeps(k, s)
    BY <1>1 DEF Keeps, Unkept
  <2>2. \A k \in DOMAIN stack' : k = 1 \/ \E j \in DOMAIN stack : k = j + 1
    BY <1>1
  <2>3. \A k \in DOMAIN stack : k + 1 \in DOMAIN stack'
    BY <1>1
  <2>4. Held(s)' <=> Held(s)
    BY <2>1, <2>2, <2>3 DEF Held
  <2>5. ASSUME Alone(s), NEW j \in DOMAIN stack', NEW k \in DOMAIN stack', Keeps(j, s)', Keeps(k, s)'
        PROVE  j = k
    <3>1. PICK x \in DOMAIN stack, y \in DOMAIN stack : j = x + 1 /\ k = y + 1
      BY <2>1, <2>2, <2>5
    <3>. QED BY <2>1, <2>5, <3>1 DEF Alone
  <2>. QED BY <2>4, <2>5 DEF Alone
<1>. QED BY <1>2 DEF SameHeld

LEMMA HeldPop ==
    ASSUME TypeOK, stack # <<>>, Unkept(Top), stack' = Tail(stack)
    PROVE  SameHeld
<1>1. /\ stack \in Seq(Chase) /\ Top = stack[1] /\ DOMAIN stack \subseteq Nat \ {0}
      /\ DOMAIN stack' = {k \in Nat \ {0} : k + 1 \in DOMAIN stack}
      /\ \A k \in DOMAIN stack' : stack'[k] = stack[k + 1]
  BY TopPicked, Popped
<1>2. ASSUME NEW s \in Servers PROVE (Held(s)' <=> Held(s)) /\ (Alone(s) => Alone(s)')
  <2>1. ~Keeps(1, s) /\ \A k \in DOMAIN stack' : k + 1 \in DOMAIN stack /\ k \in Nat /\ (Keeps(k, s)' <=> Keeps(k + 1, s))
    BY <1>1 DEF Keeps, Unkept
  <2>2. \A k \in DOMAIN stack : k = 1 \/ \E j \in DOMAIN stack' : k = j + 1
    <3>1. ASSUME NEW k \in DOMAIN stack, k # 1 PROVE \E j \in DOMAIN stack' : k = j + 1
      <4>1. k - 1 \in Nat \ {0} /\ k = (k - 1) + 1
        BY <1>1, <3>1
      <4>. QED BY <1>1, <3>1, <4>1
    <3>. QED BY <3>1
  <2>3. Held(s)' <=> Held(s)
    BY <2>1, <2>2 DEF Held
  <2>4. ASSUME Alone(s), NEW j \in DOMAIN stack', NEW k \in DOMAIN stack', Keeps(j, s)', Keeps(k, s)'
        PROVE  j = k
    <3>1. j + 1 = k + 1
      BY <2>1, <2>4 DEF Alone
    <3>. QED BY <2>1, <3>1
  <2>. QED BY <2>3, <2>4 DEF Alone
<1>. QED BY <1>2 DEF SameHeld

(* A chase that waits for a bind on s, and one that no longer does.        *)
LEMMA HeldMore ==
    ASSUME TypeOK, stack # <<>>, Unkept(Top), NEW f \in Chase, NEW s \in Servers,
           f.st \in InBind, f.refs[f.i] = s, TopBecomes(f)
    PROVE  /\ Held(s)' /\ (~Held(s) => Alone(s)')
           /\ \A t \in Servers \ {s} : (Held(t)' <=> Held(t)) /\ (Alone(t) => Alone(t)')
<1>1. /\ DOMAIN stack' = DOMAIN stack /\ stack'[1] = f /\ 1 \in DOMAIN stack /\ Top = stack[1]
      /\ \A k \in DOMAIN stack : k # 1 => stack'[k] = stack[k]
  BY Replaced, TopPicked DEF TypeOK
<1>2. \A t \in Servers \ {s} : \A k \in DOMAIN stack : Keeps(k, t)' <=> Keeps(k, t)
  BY <1>1 DEF Keeps, Unkept
<1>3. Keeps(1, s)' /\ (~Held(s) => \A k \in DOMAIN stack : k # 1 => ~Keeps(k, s)')
  BY <1>1 DEF Keeps, Held
<1>. QED BY <1>1, <1>2, <1>3 DEF Held, Alone

LEMMA HeldLess ==
    ASSUME TypeOK, stack # <<>>, NEW s \in Servers, Top.st \in InBind, Top.refs[Top.i] = s,
           NEW f \in Chase, Unkept(f), TopBecomes(f)
    PROVE  /\ Held(s) /\ (Alone(s) => ~Held(s)' /\ Alone(s)') /\ \A t \in Servers : Held(t)' => Held(t)
           /\ \A t \in Servers \ {s} : (Held(t)' <=> Held(t)) /\ (Alone(t) => Alone(t)')
<1>1. /\ DOMAIN stack' = DOMAIN stack /\ stack'[1] = f /\ 1 \in DOMAIN stack /\ Top = stack[1]
      /\ \A k \in DOMAIN stack : k # 1 => stack'[k] = stack[k]
  BY Replaced, TopPicked DEF TypeOK
<1>2. \A t \in Servers \ {s} : \A k \in DOMAIN stack : Keeps(k, t)' <=> Keeps(k, t)
  BY <1>1 DEF Keeps, Unkept
<1>3. Keeps(1, s) /\ ~Keeps(1, s)' /\ \A k \in DOMAIN stack : Keeps(k, s)' => Keeps(k, s)
  BY <1>1 DEF Keeps, Unkept
<1>4. Alone(s) => \A k \in DOMAIN stack : ~Keeps(k, s)'
  BY <1>1, <1>3 DEF Alone
<1>. QED BY <1>1, <1>2, <1>3, <1>4 DEF Held, Alone

-----------------------------------------------------------------------------
(* The weights. *)
LEMMA InIds ==
    ASSUME NEW S, S \subseteq Ids
    PROVE  /\ IsFiniteSet(S) /\ Cardinality(S) \in Nat
           /\ \A T : T \subseteq S => Cardinality(T) <= Cardinality(S) /\ Cardinality(T) \in Nat
           /\ \A x \in S : Cardinality(S \ {x}) = Cardinality(S) - 1
           /\ \A x : x \notin S => Cardinality(S \cup {x}) = Cardinality(S) + 1
<1>1. IsFiniteSet(Ids)
  BY FS_Interval, BoundsAssumption DEF Ids
<1>2. IsFiniteSet(S) /\ Cardinality(S) \in Nat
  BY <1>1, FS_Subset, FS_CardinalityType
<1>3. \A T : T \subseteq S => Cardinality(T) <= Cardinality(S) /\ Cardinality(T) \in Nat
  BY <1>2, FS_Subset, FS_CardinalityType
<1>4. \A x \in S : Cardinality(S \ {x}) = Cardinality(S) - 1
  BY <1>2, FS_RemoveElement
<1>5. \A x : x \notin S => Cardinality(S \cup {x}) = Cardinality(S) + 1
  BY <1>2, FS_AddElement
<1>. QED BY <1>2, <1>3, <1>4, <1>5

Later == (Sound' => Sound) /\ (Clean' => Clean)

LEMMA WeighedSame ==
    ASSUME Later, NEW s \in Servers, Weighed(s), conn[s].refcnt \in Int,
           conn'[s].refcnt = conn[s].refcnt, conn'[s].open <=> conn[s].open,
           Using(s)' \subseteq Using(s), Clean' /\ conn'[s].open => Using(s)' = Using(s),
           Held(s)' <=> Held(s)
    PROVE  Weighed(s)'
<1>1. /\ Cardinality(Using(s)) \in Nat /\ Cardinality(Using(s)') \in Nat
      /\ Cardinality(Using(s)') <= Cardinality(Using(s))
  <2>1. Using(s) \subseteq Ids
    BY DEF Using
  <2>. QED BY <2>1, InIds
<1>2. Total(s) \in Nat /\ Total(s)' <= Total(s) /\ Total(s)' \in Nat
  BY <1>1 DEF Total
<1>3. Clean' /\ conn'[s].open => Total(s)' = Total(s)
  BY DEF Total
<1>4. Clean' => conn'[s].refcnt = Total(s)'
  <2>. SUFFICES ASSUME Clean' PROVE conn'[s].refcnt = Total(s)'
    OBVIOUS
  <2>1. conn[s].refcnt = Total(s)
    BY DEF Weighed, Later
  <2>2. ~conn[s].open => conn[s].refcnt = 0
    BY DEF Weighed
  <2>. QED BY <1>2, <1>3, <2>1, <2>2
<1>. QED BY <1>2, <1>4 DEF Weighed, Later

LEMMA WeighedMore ==
    ASSUME Later, NEW s \in Servers, Weighed(s), conn[s].refcnt \in Int,
           conn'[s].refcnt = conn[s].refcnt + 1, conn'[s].open,
           NEW n, n \notin Using(s), Using(s)' = Using(s) \cup {n}, Held(s)' <=> Held(s)
    PROVE  Weighed(s)'
<1>1. /\ Cardinality(Using(s)) \in Nat /\ Cardinality(Using(s)') = Cardinality(Using(s)) + 1
  <2>1. Using(s) \subseteq Ids
    BY DEF Using
  <2>. QED BY <2>1, InIds
<1>2. Total(s) \in Nat /\ Total(s)' = Total(s) + 1
  BY <1>1 DEF Total
<1>. QED BY <1>2 DEF Weighed, Later

(* ldap_free_connection. *)
LEMMA WeighedLess ==
    ASSUME Later, NEW s \in Servers, Weighed(s), NEW r \in Int, conn[s].refcnt = r,
           NEW S \in SUBSET Using(s), NEW n \in Nat, n <= Cardinality(S),
           IF r - n <= 0 THEN ~conn'[s].open /\ conn'[s].refcnt = 0
           ELSE (conn'[s].open <=> conn[s].open) /\ conn'[s].refcnt = r - n,
           Using(s)' \subseteq Using(s) \ S,
           Clean' => n = Cardinality(S) /\ (conn'[s].open => Using(s)' = Using(s) \ S),
           Held(s)' <=> Held(s)
    PROVE  Weighed(s)'
<1>1. Using(s) \subseteq Ids /\ IsFiniteSet(Using(s))
  <2>1. Using(s) \subseteq Ids
    BY DEF Using
  <2>. QED BY <2>1, InIds
<1>2. /\ Cardinality(Using(s)) \in Nat /\ Cardinality(S) \in Nat /\ IsFiniteSet(S)
      /\ Cardinality(Using(s) \ S) = Cardinality(Using(s)) - Cardinality(S)
  <2>1. Using(s) \cap S = S
    OBVIOUS
  <2>2. Cardinality(Using(s) \ S) = Cardinality(Using(s)) - Cardinality(Using(s) \cap S)
    BY <1>1, FS_Difference, Zenon
  <2>. QED BY <1>1, <2>1, <2>2, InIds
<1>3. Cardinality(Using(s)') \in Nat /\ Cardinality(Using(s)') <= Cardinality(Using(s)) - Cardinality(S)
  <2>1. Using(s) \ S \subseteq Ids
    BY <1>1
  <2>. QED BY <1>2, <2>1, InIds
<1>4. Total(s) \in Nat /\ Total(s)' \in Nat /\ Total(s)' <= Total(s) - Cardinality(S)
  BY <1>2, <1>3 DEF Total
<1>5. Clean' /\ conn'[s].open => Total(s)' = Total(s) - Cardinality(S)
  <2>. SUFFICES ASSUME Clean', conn'[s].open PROVE Total(s)' = Total(s) - Cardinality(S)
    OBVIOUS
  <2>1. Cardinality(Using(s)') = Cardinality(Using(s)) - Cardinality(S)
    BY <1>2
  <2>. QED BY <1>2, <2>1 DEF Total
<1>6. Sound' \/ s = Default => conn'[s].refcnt >= Total(s)'
  BY <1>2, <1>4 DEF Weighed, Later
<1>7. Clean' => conn'[s].refcnt = Total(s)'
  <2>. SUFFICES ASSUME Clean' PROVE conn'[s].refcnt = Total(s)'
    OBVIOUS
  <2>1. r = Total(s)
    BY DEF Weighed, Later
  <2>2. CASE r - n <= 0
    <3>1. n = Cardinality(S) /\ conn'[s].refcnt = 0
      BY <2>2
    <3>2. Total(s)' = 0
      BY <1>4, <2>1, <2>2, <3>1
    <3>. QED BY <3>1, <3>2
  <2>3. CASE ~(r - n <= 0)
    <3>1. conn[s].open
      BY <2>3 DEF Weighed
    <3>. QED BY <1>2, <1>4, <1>5, <2>1, <2>3, <3>1
  <2>. QED BY <2>2, <2>3
<1>8. conn'[s].refcnt >= 0 /\ (conn'[s].open <=> conn'[s].refcnt > 0)
  BY DEF Weighed
<1>. QED BY <1>6, <1>7, <1>8 DEF Weighed

LEMMA FailedStays ==
    ASSUME TypeOK, faults' = faults \/ \E f \in {"connect", "bind", "read"} : faults' = Append(faults, f)
    PROVE  Failed({"bind", "read"}) => Failed({"bind", "read"})'
<1>1. faults \in Seq({"connect", "bind", "read"})
  BY DEF TypeOK
<1>2. ASSUME NEW f \in {"connect", "bind", "read"}, faults' = Append(faults, f)
      PROVE  DOMAIN faults \subseteq DOMAIN faults' /\ \A i \in DOMAIN faults : faults'[i] = faults[i]
  BY <1>1, <1>2
<1>. QED BY <1>2 DEF Failed

LEMMA FailedNew ==
    ASSUME TypeOK, NEW f \in {"bind", "read"}, faults' = Append(faults, f)
    PROVE  Failed({"bind", "read"})'
<1>1. faults \in Seq({"connect", "bind", "read"}) /\ Len(faults) \in Nat
  BY DEF TypeOK
<1>2. Len(faults) + 1 \in DOMAIN faults' /\ faults'[Len(faults) + 1] = f
  BY <1>1
<1>. QED BY <1>2 DEF Failed

LEMMA LaterThen ==
    ASSUME TypeOK, Next, session' = "open"
    PROVE  Later /\ styles \subseteq styles' /\ (Failed({"bind", "read"}) => Failed({"bind", "read"})')
<1>1. faults' = faults \/ \E f \in {"connect", "bind", "read"} : faults' = Append(faults, f)
  BY Zenon DEF Next, ChaseStep, Send, ReadResult, ReadBind, ReadRefs, ReadError, QueueOn, SendOn,
       Reconnect, ConnectFails, Bound, Refused, WriteFails, Chased, Passed, Unfollowed, Take, Abandon,
       Unbind, Break
<1>2. aborted \subseteq aborted' /\ styles \subseteq styles'
  BY Zenon DEF Next, ChaseStep, Send, ReadResult, ReadBind, ReadRefs, ReadError, QueueOn, SendOn,
       Reconnect, ConnectFails, Bound, Refused, WriteFails, Chased, Passed, Unfollowed, Take, Abandon,
       Unbind, Break
<1>3. moved \subseteq moved'
  <2>1. ~Unbind
    BY DEF Unbind
  <2>2. moved' = moved \/ Chased \/ Passed
    BY <2>1, Zenon DEF Next, ChaseStep, Send, ReadResult, ReadBind, ReadRefs, ReadError, QueueOn, SendOn,
         Reconnect, ConnectFails, Bound, Refused, WriteFails, Unfollowed, Take, Abandon, Break
  <2>3. Chased \/ Passed => moved' = moved \/ moved' = moved \cup {Top.lr}
    BY DEF Chased, Passed, Move
  <2>. QED BY <2>2, <2>3
<1>. QED BY <1>1, <1>2, <1>3, FailedStays DEF Later, Sound, Clean

-----------------------------------------------------------------------------
(* Which requests use a connection. *)
Like(id) == /\ req'[id].st = req[id].st /\ req'[id].conn = req[id].conn
            /\ req'[id].kind = req[id].kind /\ req'[id].orig = req[id].orig

LEMMA UsesThen ==
    ASSUME NEW id \in Ids, Like(id), id \in abandoned' <=> id \in abandoned, NEW s,
           req[id].kind = "op" \/ (id \in asked'[s] <=> id \in asked[s])
    PROVE  Uses(id, s)' <=> Uses(id, s)
BY DEF Like, Uses, Busy, Live

LEMMA UsingSame ==
    ASSUME \A id \in Ids : Like(id), abandoned' = abandoned, NEW s,
           \A id \in Ids : req[id].kind = "op" \/ (id \in asked'[s] <=> id \in asked[s])
    PROVE  Using(s)' = Using(s)
BY UsesThen DEF Using

(* A connection that somebody uses or keeps is open. *)
LEMMA InUse ==
    ASSUME NEW s \in Servers, Sound \/ s = Default, Weighed(s), conn[s].refcnt \in Int
    PROVE  /\ \A id \in Using(s) : conn[s].refcnt >= 1 /\ conn[s].open
           /\ Held(s) \/ s = Default => conn[s].refcnt >= 1 /\ conn[s].open
           /\ \A id \in Using(s) : Held(s) \/ s = Default => conn[s].refcnt >= 2
           /\ \A id, lr \in Using(s) : id # lr => conn[s].refcnt >= 2
<1>1. Using(s) \subseteq Ids /\ Cardinality(Using(s)) \in Nat
  <2>1. Using(s) \subseteq Ids
    BY DEF Using
  <2>. QED BY <2>1, InIds
<1>2. ASSUME NEW id \in Using(s) PROVE Cardinality(Using(s)) >= 1
  <2>1. Cardinality(Using(s) \ {id}) = Cardinality(Using(s)) - 1 /\ Cardinality(Using(s) \ {id}) \in Nat
    BY <1>1, InIds
  <2>. QED BY <1>1, <2>1
<1>3. ASSUME NEW id \in Using(s), NEW lr \in Using(s), id # lr PROVE Cardinality(Using(s)) >= 2
  <2>1. /\ Cardinality(Using(s) \ {id}) = Cardinality(Using(s)) - 1 /\ Cardinality(Using(s) \ {id}) \in Nat
        /\ Using(s) \ {id} \subseteq Ids /\ lr \in Using(s) \ {id}
    BY <1>1, <1>3, InIds
  <2>2. /\ Cardinality((Using(s) \ {id}) \ {lr}) = Cardinality(Using(s) \ {id}) - 1
        /\ Cardinality((Using(s) \ {id}) \ {lr}) \in Nat
    BY <2>1, InIds
  <2>. QED BY <1>1, <2>1, <2>2
<1>4. conn[s].refcnt >= Total(s) /\ (conn[s].open <=> conn[s].refcnt > 0)
  BY DEF Weighed
<1>5. Total(s) >= Cardinality(Using(s)) /\ Total(s) \in Int
      /\ (Held(s) \/ s = Default => Total(s) >= Cardinality(Using(s)) + 1)
  BY <1>1 DEF Total
<1>. QED BY <1>1, <1>2, <1>3, <1>4, <1>5

(* Who ends a request lets go of its connection.                           *)
LEMMA FinishUses ==
    ASSUME IInv, session = "open", NEW lr \in Ids, Ready(lr), Finish(lr), abandoned' = abandoned
    PROVE  /\ \A id \in Ids : Live(id)' => Live(id) /\ req'[id].conn = req[id].conn
                                           /\ req'[id].kind = req[id].kind /\ req'[id].orig = req[id].orig
           /\ \A id \in Ids : Busy(id)' <=> Busy(id) /\ id # lr
           /\ conn' = Dropped(conn, req[lr].conn, 1)
           /\ \A t \in Servers : /\ asked'[t] \subseteq asked[t]
                                 /\ conn'[t].open => asked[t] \ {lr} \subseteq asked'[t]
           /\ \A t \in Servers : /\ Using(t)' \subseteq Using(t) \ {lr}
                                 /\ conn'[t].open => Using(t)' = Using(t) \ {lr}
<1>. DEFINE r   == Ended(lr)
            top == Reached(lr)
            G   == IF AllDone(r, top) THEN Family(top) ELSE {}
<1>0. /\ TypeOK /\ Blank /\ Tree /\ Live(lr) /\ req[lr].st # "completed"
  BY DEF IInv, Core, Ready
<1>1. \A id \in Ids : req'[id] = IF id \in G THEN NoRequest ELSE r[id]
  <2>1. req' = IF AllDone(r, top) THEN Freed(r, top) ELSE r
    BY DEF Finish
  <2>2. r \in [Ids -> Request]
    BY <1>0, EndedIs
  <2>. HIDE DEF r, top
  <2>. QED BY <2>1, <2>2 DEF Freed
<1>2. \A id \in G : r[id].st = "completed" /\ id \in Ids
  BY DEF AllDone, Family
<1>. HIDE DEF G
<1>3. \A id \in Ids : /\ r[id].conn = req[id].conn /\ r[id].kind = req[id].kind /\ r[id].orig = req[id].orig
                      /\ r[id].st = IF id = lr THEN "completed" ELSE req[id].st
  BY <1>0, EndedIs
<1>. HIDE DEF r
<1>4. NoRequest.st = "free"
  BY DEF NoRequest
<1>5. \A id \in Ids : Live(id)' => Live(id) /\ req'[id].conn = req[id].conn
                                   /\ req'[id].kind = req[id].kind /\ req'[id].orig = req[id].orig
  BY <1>0, <1>1, <1>3, <1>4 DEF Live
<1>6. \A id \in Ids : Busy(id)' <=> Busy(id) /\ id # lr
  BY <1>0, <1>1, <1>2, <1>3, <1>4 DEF Live, Busy
<1>. DEFINE s == req[lr].conn
            cs == Dropped(conn, s, 1)
<1>7. conn' = cs /\ asked' = [StillAsked(cs) EXCEPT ![s] = @ \ {lr}] /\ s \in Servers
  BY <1>0, RequestIs DEF Finish
<1>. HIDE DEF cs
<1>8. \A t \in Servers : /\ asked'[t] \subseteq asked[t]
                         /\ conn'[t].open => asked[t] \ {lr} \subseteq asked'[t]
  BY <1>7 DEF StillAsked
<1>9. ASSUME NEW t \in Servers
      PROVE  /\ Using(t)' \subseteq Using(t) \ {lr}
             /\ conn'[t].open => Using(t)' = Using(t) \ {lr}
  <2>1. ASSUME NEW id \in Ids, Uses(id, t)' PROVE Uses(id, t) /\ id # lr
    BY <1>5, <1>6, <1>8, <2>1 DEF Uses, Busy
  <2>2. ASSUME NEW id \in Ids, Uses(id, t), id # lr, conn'[t].open PROVE Uses(id, t)'
    BY <1>5, <1>6, <1>8, <2>2 DEF Uses, Busy
  <2>. QED BY <2>1, <2>2 DEF Using
<1>. QED BY <1>5, <1>6, <1>7, <1>8, <1>9 DEF cs

-----------------------------------------------------------------------------
(* The parts of the invariant after a step. *)
LEMMA SoleThen ==
    ASSUME Later, Sole, SameHeld
    PROVE  Sole'
BY DEF Later, Sole, SameHeld

(* A chase is about what one was about, or about a request that was not    *)
(* abandoned; the id it has drawn was drawn by one, or is new.             *)
FramesKeep ==
    \A k \in DOMAIN stack' :
        /\ \/ \E j \in DOMAIN stack : stack'[k].lr = stack[j].lr
           \/ stack'[k].lr \notin abandoned
        /\ stack'[k].st \in InBind =>
              \/ \E j \in DOMAIN stack : stack[j].st \in InBind /\ stack'[k].new = stack[j].new
              \/ stack'[k].new > ld_msgid

LEMMA GoneThen ==
    ASSUME TypeOK, Gone, abandoned' = abandoned, aborted' = aborted, ops' = ops,
           ld_msgid' \in Nat, ld_msgid' >= ld_msgid, FramesKeep,
           \A id \in Ids : Live(id)' =>
              \/ Live(id) /\ req'[id].orig = req[id].orig /\ req'[id].kind = req[id].kind
              \/ id \notin abandoned /\ id \notin ops
    PROVE  Gone'
<1>0. /\ abandoned \subseteq Ids /\ ops \subseteq Ids /\ ld_msgid \in Nat /\ Ids \subseteq Nat
  BY IdsAre DEF TypeOK
<1>1. \A id \in abandoned : id <= ld_msgid' /\ (Live(id)' => req'[id].orig \in aborted)
  BY <1>0 DEF Gone
<1>2. \A id \in ops : id <= ld_msgid' /\ (Live(id)' => req'[id].kind = "op" /\ req'[id].orig = id)
  BY <1>0 DEF Gone
<1>3. \A k \in DOMAIN stack' : /\ stack'[k].lr \notin abandoned
                               /\ stack'[k].st \in InBind => stack'[k].new \notin abandoned /\ stack'[k].new \notin ops
  <2>1. ASSUME NEW n \in abandoned \cup ops PROVE ~(n > ld_msgid)
    <3>1. n \in Nat /\ n <= ld_msgid
      BY <1>0 DEF Gone
    <3>. QED BY <1>0, <3>1
  <2>. QED BY <2>1 DEF Gone, FramesKeep
<1>. QED BY <1>1, <1>2, <1>3 DEF Gone

LEMMA DroppedTo ==
    ASSUME TypeOK, NEW s \in Servers, NEW n \in Nat, NEW cs, cs = Dropped(conn, s, n)
    PROVE  /\ \A t \in Servers \ {s} : cs[t] = conn[t]
           /\ IF conn[s].refcnt - n <= 0
              THEN cs[s] = NoConnection
              ELSE /\ cs[s].refcnt = conn[s].refcnt - n /\ cs[s].open = conn[s].open
                   /\ cs[s].rebinding = conn[s].rebinding /\ cs[s].broken = conn[s].broken
<1>1. conn \in [Servers -> Connection] /\ conn[s] \in Connection
  BY DEF TypeOK
<1>2. PICK k \in Int : k = conn[s].refcnt - n
  BY <1>1 DEF Connection
<1>3. cs = IF k <= 0 THEN [conn EXCEPT ![s] = NoConnection] ELSE [conn EXCEPT ![s] = [conn[s] EXCEPT !.refcnt = k]]
  BY <1>1, <1>2 DEF Dropped
<1>. QED BY <1>1, <1>2, <1>3 DEF Connection

LEMMA ConnTypes ==
    ASSUME TypeOK, NEW s \in Servers
    PROVE  conn[s] \in Connection /\ conn[s].refcnt \in Int /\ conn[s].open \in BOOLEAN
BY DEF TypeOK, Connection

(* A bind is never abandoned: it is no operation of the application.       *)
LEMMA BindUses ==
    ASSUME IInv, session = "open", Conns, ~Failed({"bind", "read"}), NEW id \in Ids, Busy(id), req[id].kind = "bind"
    PROVE  id \in Using(req[id].conn)
<1>1. id \in asked[req[id].conn]
  BY DEF Conns, Faultless
<1>2. id \in abandoned => req[id].orig \in ops
  BY DEF IInv, Conns, Gone, TypeOK, Busy
<1>3. req[id].orig \in Ids /\ Live(req[id].orig) /\ req[req[id].orig].kind = "bind"
  BY DEF IInv, Core, Tree, Placed, Busy
<1>4. id \notin abandoned
  BY <1>2, <1>3 DEF Conns, Gone
<1>. QED BY <1>1, <1>4 DEF Using, Uses

LEMMA FinishConns ==
    ASSUME IInv, session = "open", Conns, Later, styles \subseteq styles', SameHeld,
           NEW lr \in Ids, Ready(lr), Finish(lr), Uses(lr, req[lr].conn), abandoned' = abandoned,
           Failed({"bind", "read"}) => Failed({"bind", "read"})'
    PROVE  /\ \A s \in Servers : Weighed(s)' /\ Reserved(s)' /\ (~conn[s].broken => ~conn'[s].broken)
           /\ ~Failed({"bind", "read"})' =>
                 \A id \in Ids : Busy(id)' /\ req'[id].kind = "bind" => id \in asked'[req'[id].conn]
<1>0. PICK s \in Servers : TypeOK /\ s = req[lr].conn /\ lr \in Using(s)
  BY RequestIs DEF IInv, Using
<1>1. /\ \A id \in Ids : Live(id)' => Live(id) /\ req'[id].conn = req[id].conn
                                   /\ req'[id].kind = req[id].kind /\ req'[id].orig = req[id].orig
      /\ \A id \in Ids : Busy(id)' <=> Busy(id) /\ id # lr
      /\ conn' = Dropped(conn, s, 1)
      /\ \A t \in Servers : /\ asked'[t] \subseteq asked[t]
                            /\ conn'[t].open => asked[t] \ {lr} \subseteq asked'[t]
      /\ \A t \in Servers : /\ Using(t)' \subseteq Using(t) \ {lr}
                            /\ conn'[t].open => Using(t)' = Using(t) \ {lr}
  BY <1>0, FinishUses
<1>2. PICK r \in Int : conn[s].refcnt = r
  BY <1>0, ConnTypes
<1>3. /\ \A t \in Servers \ {s} : conn'[t] = conn[t]
      /\ IF r - 1 <= 0
         THEN conn'[s] = NoConnection
         ELSE /\ conn'[s].refcnt = r - 1 /\ conn'[s].open = conn[s].open
              /\ conn'[s].rebinding = conn[s].rebinding /\ conn'[s].broken = conn[s].broken
  BY <1>0, <1>1, <1>2, DroppedTo
<1>4. \A t \in Servers : Held(t)' <=> Held(t)
  BY DEF SameHeld
<1>5. ASSUME NEW t \in Servers, t # s PROVE Weighed(t)'
  <2>1. lr \notin Using(t)
    BY <1>0, <1>5 DEF Using, Uses
  <2>2. /\ conn'[t].refcnt = conn[t].refcnt /\ (conn'[t].open <=> conn[t].open)
        /\ Using(t)' \subseteq Using(t) /\ (conn'[t].open => Using(t)' = Using(t))
    BY <1>1, <1>3, <1>5, <2>1
  <2>. QED BY <1>0, <1>4, <2>2, ConnTypes, WeighedSame DEF Conns
<1>6. Weighed(s)'
  <2>1. {lr} \in SUBSET Using(s) /\ Cardinality({lr}) = 1
    BY <1>0, FS_Singleton
  <2>2. IF r - 1 <= 0 THEN ~conn'[s].open /\ conn'[s].refcnt = 0
        ELSE (conn'[s].open <=> conn[s].open) /\ conn'[s].refcnt = r - 1
    BY <1>3 DEF NoConnection
  <2>3. PICK S \in SUBSET Using(s) : S = {lr}
    BY <2>1
  <2>4. /\ 1 <= Cardinality(S) /\ 1 = Cardinality(S) /\ Using(s)' \subseteq Using(s) \ S
        /\ (conn'[s].open => Using(s)' = Using(s) \ S)
    BY <1>0, <1>1, <2>1, <2>3
  <2>5. Weighed(s) /\ (Held(s)' <=> Held(s)) /\ 1 \in Nat
    BY <1>0, <1>4 DEF Conns
  <2>. QED BY <1>0, <1>2, <2>2, <2>4, <2>5, WeighedLess
<1>7. ASSUME NEW t \in Servers PROVE Reserved(t)'
  <2>0. Held(t) => t # Default
    BY DEF Conns, Reserved
  <2>. SUFFICES ASSUME 2 \notin styles, Held(t)
                PROVE  conn'[t].rebinding /\ \A id \in Using(t)' : req'[id].kind = "bind"
    BY <1>4, <2>0 DEF Reserved
  <2>1. t # Default /\ conn[t].rebinding /\ \A id \in Using(t) : req[id].kind = "bind"
    BY DEF Conns, Reserved
  <2>2. \A id \in Using(t)' : req'[id].kind = "bind"
    BY <1>1, <2>1 DEF Using, Uses, Busy
  <2>3. conn'[t].rebinding
    <3>1. CASE t # s
      BY <1>3, <2>1, <3>1
    <3>2. CASE t = s
      <4>1. r >= 2
        BY <1>0, <1>2, <3>2, InUse, ConnTypes DEF Sound, Conns
      <4>. QED BY <1>3, <2>1, <3>2, <4>1
    <3>. QED BY <3>1, <3>2
  <2>. QED BY <2>1, <2>2, <2>3
<1>8. ASSUME NEW t \in Servers, ~conn[t].broken PROVE ~conn'[t].broken
  BY <1>3, <1>8 DEF NoConnection
<1>9. ASSUME ~Failed({"bind", "read"})', NEW id \in Ids, Busy(id)', req'[id].kind = "bind"
      PROVE  id \in asked'[req'[id].conn]
  <2>1. PICK t \in Servers : /\ Busy(id) /\ id # lr /\ req[id].kind = "bind" /\ req'[id].conn = t
                            /\ t = req[id].conn /\ Live(id)
    BY <1>0, <1>1, <1>9, RequestIs DEF Busy
  <2>2. ~Failed({"bind", "read"}) /\ Sound /\ id \in asked[t]
    BY <1>9, <2>1 DEF Conns, Faultless, Sound
  <2>4. id \in Using(t)
    BY <1>9, <2>1, BindUses
  <2>5. conn'[t].open
    <3>1. conn[t].open
      BY <1>0, <2>1, <2>2, <2>4, InUse, ConnTypes DEF Conns
    <3>2. CASE t # s
      BY <1>3, <2>1, <3>1, <3>2
    <3>3. CASE t = s
      <4>1. r >= 2
        BY <1>0, <1>2, <2>1, <2>2, <2>4, <3>3, InUse, ConnTypes DEF Conns
      <4>. QED BY <1>3, <3>1, <3>3, <4>1
    <3>. QED BY <3>2, <3>3
  <2>6. id \in asked[t] \ {lr}
    BY <2>1, <2>2
  <2>7. id \in asked'[t]
    BY <1>1, <2>1, <2>5, <2>6
  <2>. QED BY <2>1, <2>7
<1>10. \A t \in Servers : Weighed(t)' /\ Reserved(t)' /\ (~conn[t].broken => ~conn'[t].broken)
  BY <1>5, <1>6, <1>7, <1>8
<1>. QED BY <1>9, <1>10

-----------------------------------------------------------------------------
(* One step.                                                               *)
Turn == /\ IInv /\ Styled /\ session = "open" /\ Conns /\ Later /\ styles \subseteq styles'
        /\ Failed({"bind", "read"}) => Failed({"bind", "read"})'

LEMMA FinishTurn ==
    ASSUME Turn, NEW lr \in Ids, Ready(lr), Finish(lr), Uses(lr, req[lr].conn), SameHeld, FramesKeep,
           abandoned' = abandoned, aborted' = aborted, ops' = ops, ld_msgid' = ld_msgid,
           ~Failed({"bind", "read"})' => \A k \in DOMAIN stack' : stack'[k].st # "refused"
    PROVE  Conns'
<1>0. IInv /\ session = "open" /\ Conns /\ Later /\ styles \subseteq styles' /\ TypeOK /\ ld_msgid \in Nat
      /\ (Failed({"bind", "read"}) => Failed({"bind", "read"})')
  BY DEF Turn, IInv, TypeOK
<1>1. /\ \A s \in Servers : Weighed(s)' /\ Reserved(s)' /\ (~conn[s].broken => ~conn'[s].broken)
      /\ ~Failed({"bind", "read"})' =>
            \A id \in Ids : Busy(id)' /\ req'[id].kind = "bind" => id \in asked'[req'[id].conn]
  BY <1>0, FinishConns
<1>2. Faultless'
  BY <1>0, <1>1 DEF Conns, Faultless
<1>3. \A id \in Ids : Live(id)' => Live(id) /\ req'[id].kind = req[id].kind /\ req'[id].orig = req[id].orig
  BY <1>0, FinishUses
<1>4. Gone'
  BY <1>0, <1>3, GoneThen DEF Conns
<1>5. Sole'
  BY <1>0, SoleThen DEF Conns
<1>. QED BY <1>1, <1>2, <1>4, <1>5 DEF Conns

LEMMA ReadResultConns ==
    ASSUME Turn, NEW id \in Ids, ReadResult(id)
    PROVE  Conns'
<1>1. Ready(id)
  BY ReadyWhenRead DEF Turn, ReadResult
<1>2. Uses(id, req[id].conn)
  BY <1>1 DEF ReadResult, Answers, Uses, Busy, Ready
<1>3. stack' = stack /\ faults' = faults
  BY DEF ReadResult
<1>4. SameHeld
  BY <1>3, HeldSame DEF Keeps
<1>5. FramesKeep
  BY <1>3 DEF FramesKeep
<1>6. ~Failed({"bind", "read"})' => \A k \in DOMAIN stack' : stack'[k].st # "refused"
  BY <1>3 DEF Turn, Conns, Faultless
<1>. QED BY <1>1, <1>2, <1>4, <1>5, <1>6, FinishTurn DEF ReadResult

LEMMA ReadBindConns ==
    ASSUME Turn, NEW id \in Ids, NEW ok \in BOOLEAN, ReadBind(id, ok)
    PROVE  Conns'
<1>0. TypeOK /\ Reading /\ stack \in Seq(Chase)
  BY DEF Turn, IInv, TypeOK, ReadBind, Answers
<1>1. Ready(id)
  BY ReadyWhenRead DEF Turn, ReadBind
<1>2. Uses(id, req[id].conn)
  BY <1>1 DEF ReadBind, Answers, Uses, Busy, Ready
<1>3. \A k \in DOMAIN stack : stack[k].st \in InBind
  BY <1>0, AllInBind DEF Turn
<1>4. /\ DOMAIN stack' = DOMAIN stack
      /\ \A k \in DOMAIN stack :
            /\ stack'[k].refs = stack[k].refs /\ stack'[k].i = stack[k].i /\ stack'[k].lr = stack[k].lr
            /\ stack'[k].new = stack[k].new
            /\ stack'[k].st = stack[k].st \/ stack'[k].st = IF ok THEN "bound" ELSE "refused"
  <2>1. \A k \in DOMAIN stack : stack[k] \in Chase
    BY <1>0
  <2>. QED BY <2>1 DEF ReadBind, Chase
<1>5. SameHeld
  BY <1>3, <1>4, HeldSame DEF Keeps, InBind
<1>6. FramesKeep
  BY <1>3, <1>4 DEF FramesKeep
<1>7. ~Failed({"bind", "read"})' => \A k \in DOMAIN stack' : stack'[k].st # "refused"
  <2>1. CASE ok
    BY <1>4, <2>1 DEF Turn, Conns, Faultless
  <2>2. CASE ~ok
    BY <1>0, <2>2, FailedNew DEF ReadBind
  <2>. QED BY <2>1, <2>2
<1>. QED BY <1>1, <1>2, <1>5, <1>6, <1>7, FinishTurn DEF ReadBind

LEMMA PopKeep ==
    ASSUME TypeOK, stack # <<>>, stack' = Tail(stack)
    PROVE  FramesKeep
BY Popped DEF FramesKeep, TypeOK

LEMMA UnfollowedConns ==
    ASSUME Turn, Unfollowed
    PROVE  Conns'
<1>0. /\ TypeOK /\ Core /\ session = "open" /\ stack # <<>> /\ Top.st = "next" /\ stack' = Tail(stack)
      /\ faults' = faults
  BY DEF Turn, IInv, Unfollowed, AtEnd
<1>1. Top = stack[1] /\ 1 \in DOMAIN stack /\ stack \in Seq(Chase)
  BY <1>0, TopPicked
<1>2. PICK lr \in Ids : lr = Top.lr /\ Ready(lr) /\ Finish(lr)
  BY ReadyAtEnd DEF Turn, Unfollowed
<1>3. Uses(lr, req[lr].conn)
  BY <1>0, <1>1, <1>2 DEF Turn, Conns, Gone, Core, LrHeld, Uses, Busy, Ready
<1>4. SameHeld
  BY <1>0, HeldPop DEF Unkept, InBind
<1>5. FramesKeep
  BY <1>0, PopKeep
<1>6. ~Failed({"bind", "read"})' => \A k \in DOMAIN stack' : stack'[k].st # "refused"
  BY <1>0, <1>1, Popped DEF Turn, Conns, Faultless
<1>. QED BY <1>2, <1>3, <1>4, <1>5, <1>6, FinishTurn DEF Unfollowed

(* A step that lets nobody in.  (Nothing is asked of the servers any more  *)
(* on a connection that breaks.)                                           *)
Stays(id) == /\ Live(id)' <=> Live(id)
             /\ req'[id].conn = req[id].conn /\ req'[id].kind = req[id].kind /\ req'[id].orig = req[id].orig
             /\ Busy(id)' => Busy(id)
             /\ Clean' \/ req[id].kind = "bind" => (Busy(id)' <=> Busy(id))

Calm ==
    /\ \A id \in Ids : Stays(id)
    /\ abandoned' = abandoned /\ aborted' = aborted /\ ops' = ops
    /\ ld_msgid' \in Nat /\ ld_msgid' >= ld_msgid
    /\ SameHeld /\ FramesKeep
    /\ \A s \in Servers :
          /\ conn'[s].refcnt = conn[s].refcnt /\ conn'[s].open = conn[s].open
          /\ conn'[s].rebinding = conn[s].rebinding
          /\ asked'[s] \subseteq asked[s]
    /\ ~Failed({"bind", "read"})' =>
          /\ \A s \in Servers : ~conn'[s].broken
          /\ \A s \in Servers : \A id \in asked[s] : id \in asked'[s] \/ req[id].kind = "op"
          /\ \A k \in DOMAIN stack' : stack'[k].st # "refused"

LEMMA CalmConns ==
    ASSUME Turn, Calm
    PROVE  Conns'
<1>0. /\ IInv /\ session = "open" /\ Conns /\ Later /\ styles \subseteq styles' /\ TypeOK
      /\ (Failed({"bind", "read"}) => Failed({"bind", "read"})')
      /\ \A s \in Servers : Held(s)' <=> Held(s)
  BY DEF Turn, IInv, TypeOK, Calm, SameHeld
<1>1. ASSUME NEW s \in Servers
      PROVE  Using(s)' \subseteq Using(s) /\ (Clean' => Using(s)' = Using(s))
  <2>1. \A id \in Ids : Uses(id, s)' => Uses(id, s)
    BY DEF Calm, Stays, Uses
  <2>2. ASSUME Clean' PROVE \A id \in Ids : Uses(id, s) => Uses(id, s)'
    BY <2>2 DEF Calm, Stays, Uses, Clean
  <2>. QED BY <2>1, <2>2 DEF Using
<1>2. ASSUME NEW s \in Servers PROVE Weighed(s)'
  BY <1>0, <1>1, WeighedSame, ConnTypes DEF Conns, Calm
<1>3. ASSUME NEW s \in Servers PROVE Reserved(s)'
  <2>1. \A id \in Using(s)' : id \in Using(s) /\ req'[id].kind = req[id].kind
    BY <1>1 DEF Calm, Stays, Using
  <2>2. Reserved(s)
    BY <1>0 DEF Conns
  <2>. QED BY <1>0, <2>1, <2>2 DEF Reserved, Calm
<1>4. Faultless'
  <2>. SUFFICES ASSUME ~Failed({"bind", "read"})', NEW id \in Ids, Busy(id)', req'[id].kind = "bind"
                PROVE  id \in asked'[req'[id].conn]
    BY DEF Calm, Faultless
  <2>1. Busy(id) /\ req[id].kind = "bind" /\ req'[id].conn = req[id].conn
    BY DEF Calm, Stays
  <2>2. id \in asked[req[id].conn] /\ req[id].conn \in Servers
    BY <1>0, <2>1, RequestIs DEF Conns, Faultless
  <2>. QED BY <2>1, <2>2 DEF Calm
<1>5. Gone'
  <2>1. \A id \in Ids : Live(id)' => Live(id) /\ req'[id].orig = req[id].orig /\ req'[id].kind = req[id].kind
    BY DEF Calm, Stays
  <2>. QED BY <1>0, <2>1, GoneThen DEF Conns, Calm
<1>6. Sole'
  BY <1>0, SoleThen DEF Conns, Calm
<1>. QED BY <1>2, <1>3, <1>4, <1>5, <1>6 DEF Conns

LEMMA StaysSame ==
    ASSUME req' = req
    PROVE  \A id \in Ids : Stays(id)
BY DEF Stays, Busy, Live

(* The innermost chase goes on, and waits for no bind. *)
LEMMA FramesTop ==
    ASSUME TypeOK, stack # <<>>, NEW f \in Chase, Unkept(f), f.lr = Top.lr, TopBecomes(f)
    PROVE  /\ FramesKeep /\ f.st # "refused"
           /\ (\A k \in DOMAIN stack : stack[k].st # "refused") => \A k \in DOMAIN stack' : stack'[k].st # "refused"
<1>1. /\ DOMAIN stack' = DOMAIN stack /\ stack'[1] = f /\ 1 \in DOMAIN stack /\ Top = stack[1]
      /\ \A k \in DOMAIN stack : k # 1 => stack'[k] = stack[k]
  BY Replaced, TopPicked DEF TypeOK
<1>. QED BY <1>1 DEF FramesKeep, Unkept, InBind

LEMMA TakeCalm ==
    ASSUME Turn, NEW id \in Ids, Take(id)
    PROVE  Calm
<1>1. /\ req' = req /\ stack' = stack /\ conn' = conn /\ asked' = asked /\ abandoned' = abandoned
      /\ aborted' = aborted /\ ops' = ops /\ ld_msgid' = ld_msgid /\ ld_msgid \in Nat
  BY DEF Take, Turn, IInv, TypeOK
<1>2. SameHeld /\ FramesKeep
  BY <1>1, HeldSame DEF Keeps, FramesKeep
<1>. QED BY <1>1, <1>2, StaysSame DEF Calm, Turn, Conns, Faultless

LEMMA BreakCalm ==
    ASSUME Turn, NEW s \in Servers, Break(s)
    PROVE  Calm
<1>1. /\ req' = req /\ stack' = stack /\ abandoned' = abandoned
      /\ aborted' = aborted /\ ops' = ops /\ ld_msgid' = ld_msgid /\ ld_msgid \in Nat /\ TypeOK
      /\ conn \in [Servers -> Connection] /\ asked \in [Servers -> SUBSET Ids]
  BY DEF Break, Turn, IInv, TypeOK
<1>2. SameHeld /\ FramesKeep
  BY <1>1, HeldSame DEF Keeps, FramesKeep
<1>3. Failed({"bind", "read"})'
  BY <1>1, FailedNew DEF Break
<1>4. PICK c \in Connection : c = conn[s]
  BY <1>1
<1>5. conn' = [conn EXCEPT ![s] = [c EXCEPT !.broken = TRUE]]
  BY <1>1, <1>4 DEF Break
<1>6. \A t \in Servers : /\ conn'[t].refcnt = conn[t].refcnt /\ conn'[t].open = conn[t].open
                         /\ conn'[t].rebinding = conn[t].rebinding
  BY <1>1, <1>4, <1>5 DEF Connection
<1>7. \A t \in Servers : asked'[t] \subseteq asked[t]
  BY <1>1 DEF Break
<1>. QED BY <1>1, <1>2, <1>3, <1>6, <1>7, StaysSame DEF Calm

LEMMA ReadErrorCalm ==
    ASSUME Turn, ReadError
    PROVE  Calm
<1>1. /\ req' = req /\ conn' = conn /\ asked' = asked /\ abandoned' = abandoned /\ TypeOK
      /\ aborted' = aborted /\ ops' = ops /\ ld_msgid' = ld_msgid /\ ld_msgid \in Nat
      /\ stack # <<>> /\ Top.st = "wait"
  BY DEF ReadError, Turn, IInv, TypeOK, Reading
<1>2. Failed({"bind", "read"})'
  BY DEF Turn, Conns, Faultless, ReadError
<1>3. /\ stack \in Seq(Chase) /\ Top = stack[1] /\ Top \in Chase /\ 1 \in DOMAIN stack
  BY <1>1, TopPicked
<1>4. /\ DOMAIN stack' = DOMAIN stack
      /\ \A k \in DOMAIN stack : k # 1 => stack'[k] = stack[k]
      /\ stack'[1] = [Top EXCEPT !.st = "refused"]
  BY <1>1, <1>3 DEF ReadError
<1>5. stack'[1].refs = Top.refs /\ stack'[1].i = Top.i /\ stack'[1].lr = Top.lr /\ stack'[1].new = Top.new
      /\ stack'[1].st = "refused"
  BY <1>3, <1>4 DEF Chase
<1>6. SameHeld
  <2>1. \A k \in DOMAIN stack : \A s \in Servers : Keeps(k, s)' <=> Keeps(k, s)
    BY <1>1, <1>3, <1>4, <1>5 DEF Keeps, InBind
  <2>. QED BY <1>4, <2>1, HeldSame
<1>7. FramesKeep
  <2>1. \A k \in DOMAIN stack : stack'[k].lr = stack[k].lr /\ stack'[k].new = stack[k].new
    BY <1>3, <1>4, <1>5
  <2>2. \A k \in DOMAIN stack : stack'[k].st \in InBind => stack[k].st \in InBind
    BY <1>1, <1>3, <1>4 DEF InBind
  <2>. QED BY <1>4, <2>1, <2>2 DEF FramesKeep
<1>. QED BY <1>1, <1>2, <1>6, <1>7, StaysSame DEF Calm

LEMMA ReadRefsCalm ==
    ASSUME Turn, NEW id \in Ids, NEW refs \in RefLists, NEW v3 \in BOOLEAN, NEW final \in BOOLEAN,
           ReadRefs(id, refs, v3, final)
    PROVE  Calm
<1>0. /\ req' = req /\ conn' = conn /\ abandoned' = abandoned /\ TypeOK
      /\ aborted' = aborted /\ ops' = ops /\ ld_msgid' = ld_msgid /\ ld_msgid \in Nat
      /\ req[id].hops \in Nat /\ stack \in Seq(Chase) /\ faults' = faults
      /\ id \notin abandoned /\ req[id].kind = "op" /\ asked \in [Servers -> SUBSET Ids]
  BY RequestIs DEF ReadRefs, Answers, Turn, IInv, TypeOK
<1>1. PICK n \in Nat \ {0} : n = (IF req[id].hops >= HopLimit THEN Len(refs) + 1 ELSE 1)
  BY RefListsAssumption
<1>2. PICK f \in Chase :
        /\ f = [lr |-> id, v3 |-> v3, final |-> final, refs |-> refs, i |-> n, st |-> "next", new |-> 0, bind |-> 0]
        /\ f.st = "next" /\ f.lr = id
  <2>. DEFINE g == [lr |-> id, v3 |-> v3, final |-> final, refs |-> refs, i |-> n, st |-> "next", new |-> 0, bind |-> 0]
  <2>1. g \in Chase /\ g.st = "next" /\ g.lr = id
    BY DEF Chase
  <2>. QED BY <2>1, Zenon
<1>3. stack' = <<f>> \o stack
  BY <1>1, <1>2 DEF ReadRefs
<1>4. /\ DOMAIN stack' = {1} \cup {k + 1 : k \in DOMAIN stack}
      /\ stack'[1] = f /\ \A k \in DOMAIN stack : stack'[k + 1] = stack[k]
  BY <1>0, <1>3, Pushed
<1>5. SameHeld
  BY <1>0, <1>2, <1>3, HeldPush DEF Unkept, InBind
<1>6. FramesKeep
  BY <1>0, <1>2, <1>4 DEF FramesKeep, InBind
<1>7. \A s \in Servers : /\ asked'[s] \subseteq asked[s]
                         /\ \A x \in asked[s] : x \in asked'[s] \/ req[x].kind = "op"
  BY <1>0 DEF ReadRefs
<1>8. ~Failed({"bind", "read"})' => /\ \A s \in Servers : ~conn'[s].broken
                                    /\ \A k \in DOMAIN stack' : stack'[k].st # "refused"
  BY <1>0, <1>2, <1>4 DEF Turn, Conns, Faultless
<1>. QED BY <1>0, <1>5, <1>6, <1>7, <1>8, StaysSame DEF Calm

LEMMA QueueOnCalm ==
    ASSUME Turn, NEW s \in Servers, QueueOn(s)
    PROVE  Calm
<1>0. /\ req' = req /\ asked' = asked /\ abandoned' = abandoned /\ TypeOK
      /\ aborted' = aborted /\ ops' = ops /\ ld_msgid' = ld_msgid /\ ld_msgid \in Nat
      /\ stack # <<>> /\ Top.st = "next" /\ conn \in [Servers -> Connection] /\ faults' = faults
  BY DEF QueueOn, AtUrl, Turn, IInv, TypeOK
<1>1. Top \in Chase
  BY <1>0, TopPicked
<1>2. PICK f \in Chase : f = Queued(Top) /\ f.st = "followed" /\ f.lr = Top.lr
  <2>. DEFINE g == [Top EXCEPT !.st = "followed"]
  <2>1. g \in Chase /\ g.st = "followed" /\ g.lr = Top.lr
    BY <1>1 DEF Chase
  <2>. QED BY <2>1, Zenon DEF Queued
<1>3. TopBecomes(f) /\ Unkept(f) /\ Unkept(Top)
  BY <1>0, <1>2 DEF QueueOn, Unkept, InBind
<1>4. SameHeld
  BY <1>0, <1>3, HeldTop
<1>5. PICK c \in Connection : c = conn[s]
  BY <1>0
<1>6. PICK qs : conn' = [conn EXCEPT ![s] = [c EXCEPT !.queue = qs]]
  BY <1>0, <1>5 DEF QueueOn
<1>7. \A t \in Servers : /\ conn'[t].refcnt = conn[t].refcnt /\ conn'[t].open = conn[t].open
                         /\ conn'[t].rebinding = conn[t].rebinding /\ conn'[t].broken = conn[t].broken
  BY <1>0, <1>5, <1>6 DEF Connection
<1>8. /\ FramesKeep
      /\ (\A k \in DOMAIN stack : stack[k].st # "refused") => \A k \in DOMAIN stack' : stack'[k].st # "refused"
  BY <1>0, <1>2, <1>3, FramesTop
<1>9. ~Failed({"bind", "read"})' => /\ \A t \in Servers : ~conn'[t].broken
                                    /\ \A k \in DOMAIN stack' : stack'[k].st # "refused"
  BY <1>0, <1>7, <1>8 DEF Turn, Conns, Faultless
<1>. QED BY <1>0, <1>4, <1>7, <1>8, <1>9, StaysSame DEF Calm

LEMMA ConnectFailsCalm ==
    ASSUME Turn, NEW s \in Servers, ConnectFails(s)
    PROVE  Calm
<1>0. /\ req' = req /\ asked' = asked /\ abandoned' = abandoned /\ TypeOK /\ conn' = conn
      /\ aborted' = aborted /\ ops' = ops /\ ld_msgid' = ld_msgid + 1 /\ ld_msgid \in Nat
      /\ stack # <<>> /\ Top.st = "next"
  BY DEF ConnectFails, AtUrl, Turn, IInv, TypeOK
<1>1. Top \in Chase /\ Top.i \in Nat \ {0}
  BY <1>0, TopPicked
<1>2. PICK n \in Nat \ {0} : n = Top.i + 1
  BY <1>1
<1>3. PICK f \in Chase : f = [Top EXCEPT !.i = n] /\ f.st = "next" /\ f.lr = Top.lr
  <2>. DEFINE g == [Top EXCEPT !.i = n]
  <2>1. g \in Chase /\ g.st = "next" /\ g.lr = Top.lr
    BY <1>0, <1>1 DEF Chase
  <2>. QED BY <2>1, Zenon
<1>4. TopBecomes(f) /\ Unkept(f) /\ Unkept(Top)
  BY <1>0, <1>2, <1>3 DEF ConnectFails, Unkept, InBind
<1>5. SameHeld
  BY <1>0, <1>4, HeldTop
<1>6. /\ FramesKeep
      /\ (\A k \in DOMAIN stack : stack[k].st # "refused") => \A k \in DOMAIN stack' : stack'[k].st # "refused"
  BY <1>0, <1>3, <1>4, FramesTop
<1>7. ~Failed({"bind", "read"})' => /\ \A t \in Servers : ~conn'[t].broken
                                    /\ \A k \in DOMAIN stack' : stack'[k].st # "refused"
  BY <1>0, <1>6 DEF Turn, Conns, Faultless
<1>. QED BY <1>0, <1>5, <1>6, <1>7, StaysSame DEF Calm

LEMMA OverCalm ==
    ASSUME Turn, Chased \/ Passed
    PROVE  Calm
<1>0. /\ asked' = asked /\ abandoned' = abandoned /\ TypeOK /\ conn' = conn
      /\ aborted' = aborted /\ ops' = ops /\ ld_msgid' = ld_msgid /\ ld_msgid \in Nat
      /\ stack # <<>> /\ Unkept(Top) /\ stack' = Tail(stack) /\ req \in [Ids -> Request] /\ faults' = faults
  BY DEF Chased, Passed, Move, AtEnd, Turn, IInv, TypeOK, Unkept, InBind
<1>1. PICK lr \in Ids : lr = Top.lr /\ Live(lr) /\ req[lr].kind = "op"
  BY <1>0, TopPicked DEF Turn, IInv, Core, LrHeld
<1>2. \/ req' = req
      \/ req' = [req EXCEPT ![lr] = [req[lr] EXCEPT !.st = "completed"]] /\ lr \in moved'
      \/ req[lr].st # "completed" /\ req' = [req EXCEPT ![lr] = [req[lr] EXCEPT !.st = "chasing"]]
  BY <1>0, <1>1 DEF Chased, Passed, Move, Chasing
<1>3. \A id \in Ids : Stays(id)
  <2>1. CASE req' = req
    BY <2>1, StaysSame
  <2>2. CASE req' = [req EXCEPT ![lr] = [req[lr] EXCEPT !.st = "completed"]] /\ lr \in moved'
    BY <1>0, <1>1, <2>2 DEF Stays, Busy, Live, Request, Clean
  <2>3. CASE req[lr].st # "completed" /\ req' = [req EXCEPT ![lr] = [req[lr] EXCEPT !.st = "chasing"]]
    BY <1>0, <1>1, <2>3 DEF Stays, Busy, Live, Request
  <2>. QED BY <1>2, <2>1, <2>2, <2>3
<1>4. SameHeld
  BY <1>0, HeldPop
<1>5. FramesKeep
  BY <1>0, PopKeep
<1>6. ~Failed({"bind", "read"})' => /\ \A s \in Servers : ~conn'[s].broken
                                    /\ \A k \in DOMAIN stack' : stack'[k].st # "refused"
  <2>1. \A k \in DOMAIN stack' : \E j \in DOMAIN stack : stack'[k] = stack[j]
    BY <1>0, Popped DEF TypeOK
  <2>. QED BY <1>0, <2>1 DEF Turn, Conns, Faultless
<1>. QED BY <1>0, <1>3, <1>4, <1>5, <1>6 DEF Calm

-----------------------------------------------------------------------------
(* A new request. *)
LEMMA NewUses ==
    ASSUME TypeOK, NEW n \in Ids, ~Live(n), \A id \in Ids : id # n => Like(id),
           NEW s \in Servers, Uses(n, s)', abandoned' = abandoned,
           \A t \in Servers : \A id \in Ids : id # n /\ Busy(id) /\ req[id].kind = "bind" =>
                                                  (id \in asked'[t] <=> id \in asked[t])
    PROVE  /\ Using(s)' = Using(s) \cup {n} /\ \A t \in Servers : n \notin Using(t)
           /\ \A t \in Servers \ {s} : Using(t)' = Using(t)
<1>1. ASSUME NEW t \in Servers, NEW id \in Ids, id # n, req[id].kind \in {"op", "bind"}
      PROVE  Uses(id, t)' <=> Uses(id, t)
  BY <1>1 DEF Like, Uses, Busy, Live
<1>2. \A t \in Servers, id \in Ids : id # n => (Uses(id, t)' <=> Uses(id, t))
  BY <1>1, RequestIs
<1>3. \A t \in Servers : ~Uses(n, t)
  BY DEF Uses, Busy
<1>4. \A t \in Servers \ {s} : ~Uses(n, t)'
  BY DEF Uses
<1>. QED BY <1>2, <1>3, <1>4 DEF Using

LEMMA NewIsFree ==
    ASSUME Turn, NEW n \in Ids, n > ld_msgid
    PROVE  ~Live(n) /\ n \notin abandoned /\ n \notin ops
<1>1. ld_msgid \in Nat /\ n \in Nat /\ abandoned \subseteq Ids /\ ops \subseteq Ids
  BY IdsAre DEF Turn, IInv, TypeOK
<1>2. (Live(n) => n <= ld_msgid) /\ (n \in abandoned => n <= ld_msgid) /\ (n \in ops => n <= ld_msgid)
  BY DEF Turn, IInv, Core, Drawn, Conns, Gone
<1>. QED BY <1>1, <1>2

LEMMA SendConns ==
    ASSUME Turn, Send
    PROVE  Conns'
<1>0. /\ TypeOK /\ Conns /\ ld_msgid \in Nat /\ ld_msgid' = ld_msgid + 1 /\ ld_msgid < MaxMsgid
      /\ stack' = stack /\ stack = <<>> /\ req \in [Ids -> Request] /\ Default \in Servers
      /\ abandoned' = abandoned /\ aborted' = aborted /\ conn \in [Servers -> Connection] /\ Later
      /\ asked \in [Servers -> SUBSET Ids] /\ faults' = faults /\ styles \subseteq styles'
  BY ServersAssumption DEF Turn, IInv, TypeOK, Send, Idle
<1>1. PICK n \in Ids : n = ld_msgid + 1 /\ n > ld_msgid
  BY <1>0, BoundsAssumption DEF Ids
<1>2. ~Live(n) /\ n \notin abandoned /\ n \notin ops
  BY <1>1, NewIsFree
<1>3. req' = [req EXCEPT ![n] = Root(n, Default, "op")] /\ asked' = [asked EXCEPT ![Default] = @ \cup {n}]
      /\ ops' = ops \cup {n}
  BY <1>0, <1>1 DEF Send
<1>4. /\ req'[n].st = "inprogress" /\ req'[n].kind = "op" /\ req'[n].conn = Default /\ req'[n].orig = n
      /\ \A id \in Ids : id # n => Like(id)
  BY <1>0, <1>3, RootIs DEF Like
<1>5. Uses(n, Default)'
  BY <1>0, <1>2, <1>4 DEF Uses, Busy, Live
<1>6. /\ Using(Default)' = Using(Default) \cup {n} /\ n \notin Using(Default)
      /\ \A t \in Servers \ {Default} : Using(t)' = Using(t)
  <2>1. \A t \in Servers : \A id \in Ids : id # n => (id \in asked'[t] <=> id \in asked[t])
    BY <1>0, <1>3
  <2>. QED BY <1>0, <1>2, <1>4, <1>5, <2>1, NewUses
<1>7. \A s \in Servers : ~Held(s) /\ ~Held(s)'
  BY <1>0 DEF Held
<1>8. PICK c \in Connection : c = conn[Default]
  BY <1>0
<1>9. PICK k \in Int : k = c.refcnt + 1
  BY DEF Connection
<1>10. conn' = [conn EXCEPT ![Default] = [c EXCEPT !.refcnt = k]]
  BY <1>0, <1>8, <1>9 DEF Send
<1>11. /\ conn'[Default].refcnt = k /\ conn'[Default].open = conn[Default].open
       /\ \A t \in Servers : conn'[t].broken = conn[t].broken
       /\ \A t \in Servers \ {Default} : conn'[t] = conn[t]
  BY <1>0, <1>8, <1>10 DEF Connection
<1>12. Weighed(Default)'
  <2>1. conn[Default].open
    BY <1>0, InUse, ConnTypes DEF Conns
  <2>. QED BY <1>0, <1>6, <1>7, <1>8, <1>9, <1>11, <2>1, WeighedMore, ConnTypes DEF Conns
<1>13. ASSUME NEW t \in Servers, t # Default PROVE Weighed(t)'
  BY <1>0, <1>6, <1>7, <1>11, <1>13, WeighedSame, ConnTypes DEF Conns
<1>14. \A t \in Servers : Reserved(t)'
  BY <1>7 DEF Reserved
<1>15. Faultless'
  <2>. SUFFICES ASSUME ~Failed({"bind", "read"})'
                PROVE  /\ \A s \in Servers : ~conn'[s].broken
                       /\ \A k1 \in DOMAIN stack' : stack'[k1].st # "refused"
                       /\ \A id \in Ids : Busy(id)' /\ req'[id].kind = "bind" => id \in asked'[req'[id].conn]
    BY DEF Faultless
  <2>0. ~Failed({"bind", "read"})
    BY DEF Turn
  <2>1. ASSUME NEW id \in Ids, Busy(id)', req'[id].kind = "bind" PROVE id \in asked'[req'[id].conn]
    <3>1. id # n /\ Busy(id) /\ req[id].kind = "bind" /\ req'[id].conn = req[id].conn /\ req[id].conn \in Servers
      BY <1>0, <1>4, <2>1, RequestIs DEF Busy, Live, Like
    <3>2. id \in asked[req[id].conn]
      BY <1>0, <2>0, <3>1 DEF Conns, Faultless
    <3>. QED BY <1>0, <1>3, <3>1, <3>2
  <2>. QED BY <1>0, <1>11, <2>0, <2>1 DEF Conns, Faultless
<1>16. Gone'
  <2>1. \A id \in Ids : Live(id)' /\ id # n => Live(id) /\ req'[id].orig = req[id].orig /\ req'[id].kind = req[id].kind
    BY <1>4 DEF Like, Live
  <2>2. \A id \in Ids : id \in Nat /\ (id <= ld_msgid => id <= ld_msgid')
    BY <1>0, IdsAre
  <2>3. abandoned \subseteq Ids /\ ops \subseteq Ids /\ n <= ld_msgid'
    BY <1>0, <1>1 DEF TypeOK
  <2>. QED BY <1>0, <1>2, <1>3, <1>4, <2>1, <2>2, <2>3 DEF Conns, Gone
<1>17. Sole'
  BY <1>7 DEF Sole, Alone, Held
<1>. QED BY <1>12, <1>13, <1>14, <1>15, <1>16, <1>17 DEF Conns

(* A child that a chase has sent. *)
LEMMA ChildKeeps ==
    ASSUME Turn, NEW n \in Ids, ~Live(n), n \notin abandoned, n \notin ops, req'[n].kind = "op",
           \A id \in Ids : id # n => Like(id), NEW s \in Servers, asked' = [asked EXCEPT ![s] = @ \cup {n}],
           abandoned' = abandoned, aborted' = aborted, ops' = ops,
           ld_msgid' \in Nat, ld_msgid' >= ld_msgid, FramesKeep,
           (\A k \in DOMAIN stack : stack[k].st # "refused") => \A k \in DOMAIN stack' : stack'[k].st # "refused",
           \A t \in Servers : ~conn[t].broken => ~conn'[t].broken
    PROVE  Faultless' /\ Gone'
<1>0. TypeOK /\ Conns /\ asked \in [Servers -> SUBSET Ids]
  BY DEF Turn, IInv, TypeOK
<1>1. \A id \in Ids : Live(id)' => \/ Live(id) /\ req'[id].orig = req[id].orig /\ req'[id].kind = req[id].kind
                                   \/ id \notin abandoned /\ id \notin ops
  BY DEF Like, Live
<1>2. Gone'
  BY <1>0, <1>1, GoneThen DEF Conns
<1>3. ASSUME ~Failed({"bind", "read"})'
      PROVE  /\ \A t \in Servers : ~conn'[t].broken
             /\ \A k \in DOMAIN stack' : stack'[k].st # "refused"
             /\ \A id \in Ids : Busy(id)' /\ req'[id].kind = "bind" => id \in asked'[req'[id].conn]
  <2>0. ~Failed({"bind", "read"})
    BY <1>3 DEF Turn
  <2>1. ASSUME NEW id \in Ids, Busy(id)', req'[id].kind = "bind" PROVE id \in asked'[req'[id].conn]
    <3>1. id # n /\ Busy(id) /\ req[id].kind = "bind" /\ req'[id].conn = req[id].conn /\ req[id].conn \in Servers
      BY <1>0, <2>1, RequestIs DEF Busy, Live, Like
    <3>2. id \in asked[req[id].conn]
      BY <1>0, <2>0, <3>1 DEF Conns, Faultless
    <3>. QED BY <1>0, <3>1, <3>2
  <2>. QED BY <1>0, <2>0, <2>1 DEF Conns, Faultless
<1>. QED BY <1>2, <1>3 DEF Faultless

LEMMA SendOnConns ==
    ASSUME Turn, NEW s \in Servers, SendOn(s)
    PROVE  Conns'
<1>t. TypeOK /\ stack # <<>>
  BY DEF Turn, IInv, SendOn, AtUrl
<1>0. /\ TypeOK /\ Conns /\ Core /\ session = "open" /\ stack # <<>> /\ Top.st = "next" /\ Top \in Chase
      /\ ld_msgid \in Nat /\ ld_msgid < MaxMsgid /\ ld_msgid' = ld_msgid + 1
      /\ req \in [Ids -> Request] /\ conn \in [Servers -> Connection] /\ asked \in [Servers -> SUBSET Ids]
      /\ abandoned' = abandoned /\ aborted' = aborted /\ ops' = ops /\ styles \subseteq styles' /\ Later
      /\ conn[s].open /\ (2 \notin styles => ~conn[s].rebinding)
  <2>1. Top \in Chase
    BY <1>t, TopPicked
  <2>2. /\ Top.st = "next" /\ ld_msgid < MaxMsgid /\ ld_msgid' = ld_msgid + 1
        /\ abandoned' = abandoned /\ aborted' = aborted /\ ops' = ops /\ styles \subseteq styles'
        /\ conn[s].open /\ (Top.v3 => ~conn[s].rebinding)
    BY DEF SendOn, AtUrl, MustQueue
  <2>3. /\ ld_msgid \in Nat /\ req \in [Ids -> Request] /\ conn \in [Servers -> Connection]
        /\ asked \in [Servers -> SUBSET Ids]
    BY <1>t DEF TypeOK
  <2>4. 2 \notin styles => Top.v3
    BY <1>t, TopPicked DEF Turn, Styled
  <2>. QED BY <1>t, <2>1, <2>2, <2>3, <2>4 DEF Turn, IInv
<1>1. PICK n \in Ids : n = ld_msgid + 1 /\ n > ld_msgid
  BY <1>0, BoundsAssumption DEF Ids
<1>2. ~Live(n) /\ n \notin abandoned /\ n \notin ops
  BY <1>1, NewIsFree
<1>3. PICK p \in Ids : p = Parent(Top)
  BY <1>0, CountsIn DEF Turn
<1>4. PICK k \in Int : k = req[p].out + 1
  BY <1>0, RequestIs
<1>5. /\ req' = [[req EXCEPT ![p] = [req[p] EXCEPT !.out = k]] EXCEPT ![n] = Child(p, s)]
      /\ asked' = [asked EXCEPT ![s] = @ \cup {n}]
  <2>1. req' = [req EXCEPT ![p].out = @ + 1, ![n] = Child(p, s)]
    BY <1>0, <1>1, <1>3 DEF SendOn
  <2>2. asked' = [asked EXCEPT ![s] = @ \cup {n}]
    BY <1>0, <1>1 DEF SendOn
  <2>. QED BY <1>0, <1>4, <2>1, <2>2
<1>6. req'[n].st = "inprogress" /\ req'[n].kind = "op" /\ req'[n].conn = s
  BY <1>0, <1>5, ChildIs
<1>7. \A id \in Ids : id # n => Like(id)
  BY <1>0, <1>5 DEF Like, Request
<1>8. Uses(n, s)'
  BY <1>0, <1>2, <1>6 DEF Uses, Busy, Live
<1>9. /\ Using(s)' = Using(s) \cup {n} /\ n \notin Using(s)
      /\ \A t \in Servers \ {s} : Using(t)' = Using(t)
  <2>1. \A t \in Servers : \A id \in Ids : id # n => (id \in asked'[t] <=> id \in asked[t])
    BY <1>0, <1>5
  <2>. QED BY <1>0, <1>2, <1>7, <1>8, <2>1, NewUses
<1>10. PICK q \in Seq(QueuedList) : q = conn[s].queue
  BY <1>0 DEF Connection
<1>11. PICK f \in Chase : f = Pull(Top, q) /\ f.lr = Top.lr /\ f.st \in {"next", "followed"}
  BY <1>0, PullIs
<1>12. TopBecomes(f) /\ Unkept(f) /\ Unkept(Top)
  BY <1>0, <1>10, <1>11 DEF SendOn, Unkept, InBind
<1>13. SameHeld
  BY <1>0, <1>12, HeldTop
<1>14. /\ FramesKeep
       /\ (\A j \in DOMAIN stack : stack[j].st # "refused") => \A j \in DOMAIN stack' : stack'[j].st # "refused"
  BY <1>0, <1>11, <1>12, FramesTop
<1>15. PICK c \in Connection, r \in Int : c = conn[s] /\ r = c.refcnt + 1
  <2>1. PICK c \in Connection : c = conn[s]
    BY <1>0
  <2>2. PICK r \in Int : r = c.refcnt + 1
    BY DEF Connection
  <2>. QED BY <2>1, <2>2
<1>16. conn' = [conn EXCEPT ![s] = [[c EXCEPT !.refcnt = r] EXCEPT !.queue = Pulled(Top, q)]]
  BY <1>0, <1>10, <1>15 DEF SendOn
<1>17. /\ conn'[s].refcnt = conn[s].refcnt + 1 /\ conn'[s].open
       /\ \A t \in Servers : conn'[t].broken = conn[t].broken /\ conn'[t].rebinding = conn[t].rebinding
       /\ \A t \in Servers \ {s} : conn'[t] = conn[t]
  BY <1>0, <1>15, <1>16 DEF Connection
<1>18. \A t \in Servers : Held(t)' <=> Held(t)
  BY <1>13 DEF SameHeld
<1>19. Weighed(s)'
  BY <1>0, <1>9, <1>17, <1>18, WeighedMore, ConnTypes DEF Conns
<1>20. ASSUME NEW t \in Servers, t # s PROVE Weighed(t)'
  BY <1>0, <1>9, <1>17, <1>18, <1>20, WeighedSame, ConnTypes DEF Conns
<1>21. ASSUME NEW t \in Servers PROVE Reserved(t)'
  <2>1. Reserved(t)
    BY <1>0 DEF Conns
  <2>2. CASE t = s
    BY <1>0, <1>18, <2>1, <2>2 DEF Reserved
  <2>3. CASE t # s
    <3>1. \A id \in Using(t) : id \in Using(t)' /\ req'[id].kind = req[id].kind
      BY <1>2, <1>7, <1>9, <2>3 DEF Using, Uses, Busy, Like
    <3>. QED BY <1>0, <1>9, <1>17, <1>18, <2>1, <2>3, <3>1 DEF Reserved
  <2>. QED BY <2>2, <2>3
<1>22. Faultless' /\ Gone'
  <2>1. ld_msgid' \in Nat /\ ld_msgid' >= ld_msgid
    BY <1>0
  <2>. QED BY <1>0, <1>2, <1>5, <1>6, <1>7, <1>14, <1>17, <2>1, ChildKeeps
<1>23. Sole'
  BY <1>0, <1>13, SoleThen DEF Conns
<1>. QED BY <1>19, <1>20, <1>21, <1>22, <1>23 DEF Conns

(* The chase's own hold on the connection passes to its child. *)
LEMMA WeighedPassed ==
    ASSUME Later, NEW s \in Servers, Weighed(s), Sound, conn[s].refcnt \in Int,
           conn'[s].refcnt = conn[s].refcnt, conn'[s].open <=> conn[s].open,
           NEW n, n \notin Using(s), Using(s)' = Using(s) \cup {n}, Held(s), ~Held(s)'
    PROVE  Weighed(s)'
<1>1. /\ Cardinality(Using(s)) \in Nat /\ Cardinality(Using(s)') = Cardinality(Using(s)) + 1
  <2>1. Using(s) \subseteq Ids
    BY DEF Using
  <2>. QED BY <2>1, InIds
<1>2. Total(s) \in Nat /\ Total(s)' = Total(s)
  BY <1>1 DEF Total
<1>. QED BY <1>2 DEF Weighed, Later

(* Where nothing but being open is said of a connection. *)
LEMMA WeighedLoose ==
    ASSUME Later, NEW s \in Servers, ~Sound, s # Default, NEW r \in Nat, conn'[s].refcnt = r,
           conn'[s].open <=> r > 0
    PROVE  Weighed(s)'
<1>1. ~Clean
  BY DEF Sound, Clean
<1>. QED BY <1>1 DEF Weighed, Later

LEMMA BoundConns ==
    ASSUME Turn, NEW s \in Servers, Bound(s)
    PROVE  Conns'
<1>t. TypeOK /\ stack # <<>>
  BY DEF Turn, IInv, Bound, Binding
<1>0. /\ TypeOK /\ Conns /\ Core /\ session = "open" /\ stack # <<>> /\ Top.st \in InBind /\ Top \in Chase
      /\ Top.refs[Top.i] = s /\ ld_msgid \in Nat /\ ld_msgid' = ld_msgid
      /\ req \in [Ids -> Request] /\ conn \in [Servers -> Connection] /\ asked \in [Servers -> SUBSET Ids]
      /\ abandoned' = abandoned /\ aborted' = aborted /\ ops' = ops /\ styles \subseteq styles' /\ Later
  <2>1. Top \in Chase
    BY <1>t, TopPicked
  <2>2. /\ Top.st \in InBind /\ Top.refs[Top.i] = s /\ ld_msgid' = ld_msgid
        /\ abandoned' = abandoned /\ aborted' = aborted /\ ops' = ops /\ styles \subseteq styles'
    BY DEF Bound, Binding, InBind
  <2>3. /\ ld_msgid \in Nat /\ req \in [Ids -> Request] /\ conn \in [Servers -> Connection]
        /\ asked \in [Servers -> SUBSET Ids]
    BY <1>t DEF TypeOK
  <2>. QED BY <1>t, <2>1, <2>2, <2>3 DEF Turn, IInv
<1>1. PICK n \in Ids : n = Top.new /\ ~Live(n) /\ n \notin abandoned /\ n \notin ops
  <2>1. Top = stack[1] /\ 1 \in DOMAIN stack
    BY <1>0, TopPicked
  <2>. QED BY <1>0, <2>1 DEF Core, NewIds, Conns, Gone
<1>2. PICK p \in Ids : p = Parent(Top)
  BY <1>0, CountsIn DEF Turn
<1>3. req' = [req EXCEPT ![n] = Child(p, s)] /\ asked' = [asked EXCEPT ![s] = @ \cup {n}]
  BY <1>1, <1>2 DEF Bound
<1>4. req'[n].st = "inprogress" /\ req'[n].kind = "op" /\ req'[n].conn = s
  BY <1>0, <1>3, ChildIs
<1>5. \A id \in Ids : id # n => Like(id)
  BY <1>0, <1>3 DEF Like
<1>6. Uses(n, s)'
  BY <1>0, <1>1, <1>4 DEF Uses, Busy, Live
<1>7. /\ Using(s)' = Using(s) \cup {n} /\ n \notin Using(s)
      /\ \A t \in Servers \ {s} : Using(t)' = Using(t)
  <2>1. \A t \in Servers : \A id \in Ids : id # n => (id \in asked'[t] <=> id \in asked[t])
    BY <1>0, <1>3
  <2>. QED BY <1>0, <1>1, <1>5, <1>6, <2>1, NewUses
<1>8. PICK q \in Seq(QueuedList) : q = conn[s].queue
  BY <1>0 DEF Connection
<1>9. PICK f \in Chase : f = Pull(Top, q) /\ f.lr = Top.lr /\ f.st \in {"next", "followed"}
  BY <1>0, PullIs
<1>10. TopBecomes(f) /\ Unkept(f)
  BY <1>0, <1>8, <1>9 DEF Bound, Unkept, InBind
<1>11. /\ FramesKeep
       /\ (\A j \in DOMAIN stack : stack[j].st # "refused") => \A j \in DOMAIN stack' : stack'[j].st # "refused"
  BY <1>0, <1>9, <1>10, FramesTop
<1>12. PICK c \in Connection : c = conn[s]
  BY <1>0
<1>13. conn' = [conn EXCEPT ![s] = [[c EXCEPT !.rebinding = FALSE] EXCEPT !.queue = Pulled(Top, q)]]
  BY <1>0, <1>8, <1>12 DEF Bound
<1>14. /\ \A t \in Servers : /\ conn'[t].broken = conn[t].broken /\ conn'[t].refcnt = conn[t].refcnt
                             /\ conn'[t].open = conn[t].open
       /\ \A t \in Servers \ {s} : conn'[t] = conn[t]
  BY <1>0, <1>12, <1>13 DEF Connection
<1>15. /\ Held(s) /\ (Alone(s) => ~Held(s)' /\ Alone(s)') /\ \A t \in Servers : Held(t)' => Held(t)
       /\ \A t \in Servers \ {s} : (Held(t)' <=> Held(t)) /\ (Alone(t) => Alone(t)')
  BY <1>0, <1>10, HeldLess
<1>16. Sound => ~Held(s)' /\ Alone(s)'
  BY <1>0, <1>15 DEF Conns, Sole
<1>17. s # Default
  BY <1>0, <1>15 DEF Conns, Reserved
<1>18. Weighed(s)'
  <2>1. CASE Sound
    BY <1>0, <1>7, <1>14, <1>15, <1>16, <2>1, WeighedPassed, ConnTypes DEF Conns
  <2>2. CASE ~Sound
    <3>1. Weighed(s) /\ conn[s].refcnt \in Int
      BY <1>0, ConnTypes DEF Conns
    <3>2. PICK r \in Nat : r = conn[s].refcnt /\ (conn[s].open <=> r > 0)
      BY <3>1 DEF Weighed
    <3>. QED BY <1>0, <1>14, <1>17, <2>2, <3>2, WeighedLoose
  <2>. QED BY <2>1, <2>2
<1>19. ASSUME NEW t \in Servers, t # s PROVE Weighed(t)'
  BY <1>0, <1>7, <1>14, <1>15, <1>19, WeighedSame, ConnTypes DEF Conns
<1>20. ASSUME NEW t \in Servers PROVE Reserved(t)'
  <2>1. Reserved(t)
    BY <1>0 DEF Conns
  <2>2. CASE t = s
    <3>1. 2 \notin styles => ~Held(s)'
      BY <1>16 DEF Sound
    <3>. QED BY <1>0, <1>17, <2>2, <3>1 DEF Reserved
  <2>3. CASE t # s
    <3>1. \A id \in Using(t) : id \in Using(t)' /\ req'[id].kind = req[id].kind
      BY <1>1, <1>5, <1>7, <2>3 DEF Using, Uses, Busy, Like
    <3>. QED BY <1>0, <1>7, <1>14, <1>15, <2>1, <2>3, <3>1 DEF Reserved
  <2>. QED BY <2>2, <2>3
<1>21. Faultless' /\ Gone'
  <2>1. ld_msgid' \in Nat /\ ld_msgid' >= ld_msgid
    BY <1>0
  <2>. QED BY <1>0, <1>1, <1>3, <1>4, <1>5, <1>11, <1>14, <2>1, ChildKeeps
<1>22. Sole'
  BY <1>0, <1>15, <1>16 DEF Conns, Sole, Later
<1>. QED BY <1>18, <1>19, <1>20, <1>21, <1>22 DEF Conns

LEMMA ReconnectConns ==
    ASSUME Turn, NEW s \in Servers, Reconnect(s)
    PROVE  Conns'
<1>t. TypeOK /\ stack # <<>>
  BY DEF Turn, IInv, Reconnect, AtUrl
<1>0. /\ TypeOK /\ Conns /\ IInv /\ session = "open" /\ Top.st = "next" /\ Top \in Chase
      /\ s = Top.refs[Top.i] /\ ld_msgid \in Nat /\ ld_msgid + 1 < MaxMsgid /\ ld_msgid' = ld_msgid + 2
      /\ req \in [Ids -> Request] /\ conn \in [Servers -> Connection] /\ asked \in [Servers -> SUBSET Ids]
      /\ abandoned' = abandoned /\ aborted' = aborted /\ ops' = ops /\ styles \subseteq styles' /\ Later
      /\ ~conn[s].open
  <2>1. Top \in Chase
    BY <1>t, TopPicked
  <2>2. /\ Top.st = "next" /\ ld_msgid + 1 < MaxMsgid /\ ld_msgid' = ld_msgid + 2 /\ s = Top.refs[Top.i]
        /\ abandoned' = abandoned /\ aborted' = aborted /\ ops' = ops /\ styles \subseteq styles'
        /\ ~conn[s].open
    BY DEF Reconnect, AtUrl
  <2>3. /\ ld_msgid \in Nat /\ req \in [Ids -> Request] /\ conn \in [Servers -> Connection]
        /\ asked \in [Servers -> SUBSET Ids]
    BY <1>t DEF TypeOK
  <2>. QED BY <1>t, <2>1, <2>2, <2>3 DEF Turn, IInv
<1>1. PICK n \in Ids, b \in Ids : n = ld_msgid + 1 /\ b = ld_msgid + 2 /\ n > ld_msgid /\ b > ld_msgid
  BY <1>0, BoundsAssumption DEF Ids
<1>2. ~Live(b) /\ b \notin abandoned /\ b \notin ops
  BY <1>1, NewIsFree
<1>3. PICK p \in Ids : p = Parent(Top)
  BY <1>t, <1>0, CountsIn
<1>4. PICK u \in Request :
        /\ Counted(req, p) = [req EXCEPT ![p] = u]
        /\ u.st = req[p].st /\ u.orig = req[p].orig /\ u.kind = req[p].kind /\ u.conn = req[p].conn
  <2>1. PICK v \in Request : v = req[p]
    BY <1>0
  <2>2. PICK k \in Int : k = v.out + 1
    BY DEF Request
  <2>. DEFINE g == [v EXCEPT !.out = k]
  <2>3. g \in Request /\ g.st = v.st /\ g.orig = v.orig /\ g.kind = v.kind /\ g.conn = v.conn
    BY DEF Request
  <2>4. Counted(req, p) = [req EXCEPT ![p] = g]
    BY <1>0, <2>1, <2>2 DEF Counted
  <2>. HIDE DEF g
  <2>. QED BY <2>1, <2>3, <2>4
<1>5. req' = [[req EXCEPT ![p] = u] EXCEPT ![b] = Root(b, s, "bind")] /\ asked' = [asked EXCEPT ![s] = {b}]
  BY <1>0, <1>1, <1>3, <1>4 DEF Reconnect
<1>6. /\ req'[b].st = "inprogress" /\ req'[b].kind = "bind" /\ req'[b].conn = s
      /\ \A id \in Ids : id # b => Like(id)
  <2>1. req'[b] = Root(b, s, "bind") /\ \A id \in Ids : id # b => req'[id] = IF id = p THEN u ELSE req[id]
    BY <1>0, <1>5
  <2>. QED BY <1>4, <2>1, RootIs DEF Like
<1>7. asked'[s] = {b} /\ \A t \in Servers \ {s} : asked'[t] = asked[t]
  BY <1>0, <1>5
<1>8. PICK f \in Chase : /\ f = [Top EXCEPT !.st = "wait", !.new = n, !.bind = b]
                         /\ f.lr = Top.lr /\ f.st = "wait" /\ f.new = n /\ f.refs = Top.refs /\ f.i = Top.i
  <2>1. n \in Nat /\ b \in Nat
    BY IdsAre
  <2>. DEFINE g == [[[Top EXCEPT !.st = "wait"] EXCEPT !.new = n] EXCEPT !.bind = b]
  <2>2. g \in Chase /\ g.lr = Top.lr /\ g.st = "wait" /\ g.new = n /\ g.refs = Top.refs /\ g.i = Top.i
    BY <1>0, <2>1 DEF Chase
  <2>3. g = [Top EXCEPT !.st = "wait", !.new = n, !.bind = b]
    OBVIOUS
  <2>. HIDE DEF g
  <2>. QED BY <2>2, <2>3
<1>9. TopBecomes(f) /\ f.st \in InBind /\ f.refs[f.i] = s /\ Unkept(Top)
  BY <1>0, <1>1, <1>8 DEF Reconnect, Unkept, InBind
<1>10. /\ Held(s)' /\ (~Held(s) => Alone(s)')
       /\ \A t \in Servers \ {s} : (Held(t)' <=> Held(t)) /\ (Alone(t) => Alone(t)')
  BY <1>t, <1>9, HeldMore
<1>11. s # Default /\ (Sound => Using(s) = {} /\ ~Held(s))
  BY <1>0, InUse, ConnTypes DEF Conns
<1>12. Sound => Using(s)' = {b}
  <2>1. Uses(b, s)'
    BY <1>0, <1>2, <1>6, <1>7 DEF Uses, Busy, Live
  <2>2. ASSUME Sound, NEW id \in Ids, id # b, Uses(id, s)' PROVE FALSE
    <3>1. id \notin asked'[s]
      BY <1>7, <2>2
    <3>2. Uses(id, s)
      BY <1>0, <1>6, <2>2, <3>1 DEF Uses, Busy, Live, Like
    <3>. QED BY <1>11, <2>2, <3>2 DEF Using
  <2>. QED BY <2>1, <2>2 DEF Using
<1>13. ASSUME NEW t \in Servers, t # s PROVE Using(t)' = Using(t)
  <2>1. \A id \in Ids : id # b => (Uses(id, t)' <=> Uses(id, t))
    BY <1>0, <1>6, <1>7, <1>13 DEF Like, Uses, Busy, Live
  <2>2. ~Uses(b, t) /\ ~Uses(b, t)'
    BY <1>2, <1>6, <1>13 DEF Uses, Busy
  <2>. QED BY <2>1, <2>2 DEF Using
<1>14. /\ conn'[s].open /\ conn'[s].refcnt = 2 /\ conn'[s].rebinding /\ ~conn'[s].broken
       /\ \A t \in Servers \ {s} : conn'[t] = conn[t]
  <2>1. PICK c : c = [NoConnection EXCEPT !.open = TRUE, !.refcnt = 2, !.rebinding = TRUE]
    OBVIOUS
  <2>2. c.open /\ c.refcnt = 2 /\ c.rebinding /\ ~c.broken
    BY <2>1 DEF NoConnection
  <2>3. conn' = [conn EXCEPT ![s] = c]
    BY <2>1 DEF Reconnect
  <2>. QED BY <1>0, <2>2, <2>3
<1>15. Weighed(s)'
  <2>1. CASE Sound
    <3>1. Using(s)' = {b} /\ Cardinality({b}) = 1
      BY <1>12, <2>1, FS_Singleton
    <3>2. Total(s)' = 2
      BY <1>10, <1>11, <3>1 DEF Total
    <3>. QED BY <1>14, <3>2 DEF Weighed
  <2>2. CASE ~Sound
    BY <1>0, <1>11, <1>14, <2>2, WeighedLoose
  <2>. QED BY <2>1, <2>2
<1>16. ASSUME NEW t \in Servers, t # s PROVE Weighed(t)'
  BY <1>0, <1>10, <1>13, <1>14, <1>16, WeighedSame, ConnTypes DEF Conns
<1>17. ASSUME NEW t \in Servers PROVE Reserved(t)'
  <2>1. CASE t = s
    BY <1>6, <1>11, <1>12, <1>14, <2>1, <1>0 DEF Reserved, Sound
  <2>2. CASE t # s
    <3>1. \A id \in Using(t) : req'[id].kind = req[id].kind
      BY <1>2, <1>6 DEF Using, Uses, Busy, Like
    <3>. QED BY <1>0, <1>10, <1>13, <1>14, <2>2, <3>1 DEF Conns, Reserved
  <2>. QED BY <2>1, <2>2
<1>18. /\ DOMAIN stack' = DOMAIN stack /\ stack'[1] = f /\ 1 \in DOMAIN stack /\ Top = stack[1]
       /\ \A k \in DOMAIN stack : k # 1 => stack'[k] = stack[k]
  BY <1>t, <1>9, Replaced, TopPicked DEF TypeOK
<1>19. Faultless'
  <2>. SUFFICES ASSUME ~Failed({"bind", "read"})'
                PROVE  /\ \A t \in Servers : ~conn'[t].broken
                       /\ \A k \in DOMAIN stack' : stack'[k].st # "refused"
                       /\ \A id \in Ids : Busy(id)' /\ req'[id].kind = "bind" => id \in asked'[req'[id].conn]
    BY DEF Faultless
  <2>1. ~Failed({"bind", "read"}) /\ Sound /\ Using(s) = {}
    BY <1>11 DEF Turn, Sound
  <2>2. \A t \in Servers : ~conn'[t].broken
    BY <1>0, <1>14, <2>1 DEF Conns, Faultless
  <2>3. \A k \in DOMAIN stack' : stack'[k].st # "refused"
    BY <1>0, <1>8, <1>18, <2>1 DEF Conns, Faultless
  <2>4. ASSUME NEW id \in Ids, Busy(id)', req'[id].kind = "bind", id # b PROVE id \in asked'[req'[id].conn]
    <3>1. Busy(id) /\ req[id].kind = "bind" /\ req'[id].conn = req[id].conn /\ req[id].conn \in Servers
      BY <1>0, <1>6, <2>4, RequestIs DEF Busy, Live, Like
    <3>2. id \in asked[req[id].conn] /\ id \in Using(req[id].conn)
      BY <1>0, <2>1, <3>1, BindUses DEF Conns, Faultless
    <3>. QED BY <1>7, <2>1, <3>1, <3>2
  <2>. QED BY <1>6, <1>7, <2>2, <2>3, <2>4
<1>20. Gone'
  <2>1. FramesKeep
    <3>1. stack'[1].lr = stack[1].lr /\ stack'[1].new > ld_msgid
      BY <1>1, <1>8, <1>18
    <3>2. \A k \in DOMAIN stack : k # 1 =>
             stack'[k].lr = stack[k].lr /\ stack'[k].st = stack[k].st /\ stack'[k].new = stack[k].new
      BY <1>18
    <3>. QED BY <1>18, <3>1, <3>2 DEF FramesKeep
  <2>2. \A id \in Ids : Live(id)' => \/ Live(id) /\ req'[id].orig = req[id].orig /\ req'[id].kind = req[id].kind
                                     \/ id \notin abandoned /\ id \notin ops
    BY <1>2, <1>6 DEF Like, Live
  <2>3. ld_msgid' \in Nat /\ ld_msgid' >= ld_msgid
    BY <1>0
  <2>. QED BY <1>0, <2>1, <2>2, <2>3, GoneThen DEF Conns
<1>21. Sole'
  BY <1>0, <1>10, <1>11 DEF Conns, Sole, Later
<1>. QED BY <1>15, <1>16, <1>17, <1>19, <1>20, <1>21 DEF Conns

LEMMA RefusedConns ==
    ASSUME Turn, NEW s \in Servers, Refused(s)
    PROVE  Conns'
<1>t. TypeOK /\ stack # <<>>
  BY DEF Turn, IInv, Refused, Binding
<1>p. Top = stack[1] /\ 1 \in DOMAIN stack /\ Top \in Chase /\ Top.i \in Nat
  BY <1>t, TopPicked
<1>0. /\ Conns /\ IInv /\ session = "open" /\ Top.st = "refused" /\ Top.refs[Top.i] = s
      /\ ld_msgid \in Nat /\ ld_msgid' = ld_msgid
      /\ req \in [Ids -> Request] /\ conn \in [Servers -> Connection] /\ asked \in [Servers -> SUBSET Ids]
      /\ abandoned' = abandoned /\ aborted' = aborted /\ ops' = ops /\ styles \subseteq styles' /\ Later
      /\ conn' = [conn EXCEPT ![s] = NoConnection] /\ asked' = [asked EXCEPT ![s] = {}]
  <2>1. /\ Top.st = "refused" /\ Top.refs[Top.i] = s /\ ld_msgid' = ld_msgid
        /\ abandoned' = abandoned /\ aborted' = aborted /\ ops' = ops /\ styles \subseteq styles'
        /\ conn' = [conn EXCEPT ![s] = NoConnection] /\ asked' = [asked EXCEPT ![s] = {}]
    BY DEF Refused, Binding
  <2>2. /\ ld_msgid \in Nat /\ req \in [Ids -> Request] /\ conn \in [Servers -> Connection]
        /\ asked \in [Servers -> SUBSET Ids]
    BY <1>t DEF TypeOK
  <2>. QED BY <2>1, <2>2 DEF Turn
<1>1. Failed({"bind", "read"}) /\ Failed({"bind", "read"})' /\ ~Clean' /\ (Sound => 2 \notin styles)
  <2>1. Failed({"bind", "read"})
    BY <1>p, <1>0 DEF Conns, Faultless
  <2>. QED BY <2>1 DEF Turn, Clean, Sound
<1>2. PICK p \in Ids : p = Parent(Top)
  BY <1>t, <1>0, CountsIn
<1>3. PICK k \in Int : k = req[p].out - 1
  BY <1>t, RequestIs
<1>4. req' = [req EXCEPT ![p] = [req[p] EXCEPT !.out = k]]
  BY <1>0, <1>2, <1>3 DEF Refused, Forget
<1>5. \A id \in Ids : Like(id)
  BY <1>0, <1>4 DEF Like, Request
<1>6. PICK m \in Nat \ {0} : m = Top.i + 1
  BY <1>p
<1>7. PICK f \in Chase : f = [Top EXCEPT !.i = m, !.st = "next"] /\ f.lr = Top.lr /\ f.st = "next"
  <2>. DEFINE g == [[Top EXCEPT !.i = m] EXCEPT !.st = "next"]
  <2>1. g \in Chase /\ g.lr = Top.lr /\ g.st = "next"
    BY <1>p DEF Chase
  <2>2. g = [Top EXCEPT !.i = m, !.st = "next"]
    OBVIOUS
  <2>. HIDE DEF g
  <2>. QED BY <2>1, <2>2
<1>8. TopBecomes(f) /\ Unkept(f) /\ Top.st \in InBind
  BY <1>0, <1>6, <1>7 DEF Refused, Unkept, InBind
<1>9. FramesKeep
  BY <1>t, <1>7, <1>8, FramesTop
<1>10. /\ Held(s) /\ (Alone(s) => ~Held(s)' /\ Alone(s)') /\ \A t \in Servers : Held(t)' => Held(t)
       /\ \A t \in Servers \ {s} : (Held(t)' <=> Held(t)) /\ (Alone(t) => Alone(t)')
  BY <1>t, <1>0, <1>8, HeldLess
<1>11. s # Default /\ (2 \notin styles => \A id \in Using(s) : req[id].kind = "bind")
  BY <1>0, <1>10 DEF Conns, Reserved
<1>12. /\ ~conn'[s].open /\ conn'[s].refcnt = 0 /\ asked'[s] = {}
       /\ \A t \in Servers \ {s} : conn'[t] = conn[t] /\ asked'[t] = asked[t]
  BY <1>0 DEF NoConnection
<1>13. ASSUME NEW t \in Servers, t # s PROVE Using(t)' = Using(t)
  BY <1>0, <1>5, <1>12, <1>13, UsingSame
<1>14. 2 \notin styles => Using(s)' = {} /\ ~Held(s)'
  <2>1. ASSUME 2 \notin styles, NEW id \in Ids, Uses(id, s)' PROVE FALSE
    <3>1. id \in Using(s) /\ req[id].kind # "bind"
      BY <1>0, <1>5, <1>12, <2>1, RequestIs DEF Uses, Busy, Live, Like, Using
    <3>. QED BY <1>11, <2>1, <3>1
  <2>2. 2 \notin styles => ~Held(s)'
    BY <1>0, <1>10 DEF Conns, Sole, Sound
  <2>. QED BY <2>1, <2>2 DEF Using
<1>15. Weighed(s)'
  <2>1. CASE Sound
    <3>1. Using(s)' = {} /\ ~Held(s)'
      BY <1>1, <1>14, <2>1
    <3>2. Total(s)' = 0
      BY <1>11, <3>1, FS_EmptySet DEF Total
    <3>. QED BY <1>1, <1>12, <3>2 DEF Weighed
  <2>2. CASE ~Sound
    BY <1>0, <1>11, <1>12, <2>2, WeighedLoose
  <2>. QED BY <2>1, <2>2
<1>16. ASSUME NEW t \in Servers, t # s PROVE Weighed(t)'
  BY <1>t, <1>0, <1>10, <1>12, <1>13, <1>16, WeighedSame, ConnTypes DEF Conns
<1>17. ASSUME NEW t \in Servers PROVE Reserved(t)'
  <2>1. CASE t = s
    BY <1>0, <1>11, <1>14, <2>1 DEF Reserved
  <2>2. CASE t # s
    <3>1. \A id \in Using(t) : req'[id].kind = req[id].kind
      BY <1>5 DEF Using, Like
    <3>. QED BY <1>0, <1>10, <1>12, <1>13, <2>2, <3>1 DEF Conns, Reserved
  <2>. QED BY <2>1, <2>2
<1>18. Faultless'
  BY <1>1 DEF Faultless
<1>19. Gone'
  BY <1>t, <1>0, <1>5, <1>9, GoneThen DEF Conns, Like, Live
<1>20. Sole'
  BY <1>0, <1>10 DEF Conns, Sole, Later
<1>. QED BY <1>15, <1>16, <1>17, <1>18, <1>19, <1>20 DEF Conns

LEMMA AbandonConns ==
    ASSUME Turn, NEW id \in Ids, Abandon(id)
    PROVE  Conns'
<1>0. /\ TypeOK /\ Core /\ IInv /\ Conns /\ Later /\ session = "open" /\ stack = <<>> /\ stack' = <<>>
      /\ ld_msgid \in Nat /\ ld_msgid' = ld_msgid /\ faults' = faults /\ ops' = ops
      /\ conn \in [Servers -> Connection] /\ asked \in [Servers -> SUBSET Ids]
      /\ id \in ops /\ id \notin aborted /\ aborted' = aborted \cup {id}
  BY DEF Turn, IInv, Abandon, Idle, TypeOK
<1>1. PICK dropped \in BOOLEAN :
        LET gone == IF dropped THEN Family(id) \ {id} ELSE Family(id) \cup {id}
            cs   == LetGo(gone)
        IN  /\ conn' = cs
            /\ abandoned' = abandoned \cup gone
            /\ req' = IF dropped THEN req ELSE Freed(req, id)
            /\ asked' = [s \in Servers |-> StillAsked(cs)[s] \ gone]
  BY DEF Abandon
<1>2. PICK gone \in SUBSET Ids :
        /\ conn' = LetGo(gone) /\ abandoned' = abandoned \cup gone
        /\ \A s \in Servers : asked'[s] = StillAsked(LetGo(gone))[s] \ gone
        /\ \A a \in gone : a = id \/ a \in Family(id)
  <2>. DEFINE g == IF dropped THEN Family(id) \ {id} ELSE Family(id) \cup {id}
  <2>1. g \in SUBSET Ids /\ \A a \in g : a = id \/ a \in Family(id)
    BY DEF Family
  <2>2. /\ conn' = LetGo(g) /\ abandoned' = abandoned \cup g
        /\ asked' = [s \in Servers |-> StillAsked(LetGo(g))[s] \ g]
    BY <1>1
  <2>. HIDE DEF g
  <2>. QED BY <2>1, <2>2
<1>3. \A a \in Ids : Live(a)' => Live(a) /\ req'[a] = req[a]
  <2>1. NoRequest.st = "free"
    BY DEF NoRequest
  <2>. QED BY <1>1, <2>1 DEF Live, Freed
<1>4. id <= ld_msgid /\ \A a \in gone : Live(a) => req[a].orig = id /\ req[a].kind = "op" /\ a \notin abandoned
  <2>1. ASSUME NEW a \in gone, Live(a) PROVE req[a].orig = id
    BY <1>0, <1>2, <2>1 DEF Family, Conns, Gone
  <2>2. ASSUME NEW a \in gone, Live(a) PROVE req[a].kind = "op"
    BY <1>0, <2>1, <2>2 DEF Core, Tree, Placed, Conns, Gone
  <2>3. ASSUME NEW a \in gone, Live(a) PROVE a \notin abandoned
    BY <1>0, <2>1, <2>3 DEF Conns, Gone
  <2>. QED BY <1>0, <2>1, <2>2, <2>3 DEF Conns, Gone
<1>5. \A s \in Servers : asked'[s] \subseteq asked[s] /\ (conn'[s].open => asked'[s] = asked[s] \ gone)
  BY <1>2 DEF StillAsked
<1>6. ASSUME NEW s \in Servers
      PROVE  \E S \in SUBSET Using(s), n \in Nat, r \in Int :
                /\ S \subseteq gone /\ n = Cardinality(S) /\ r = conn[s].refcnt
                /\ Using(s)' \subseteq Using(s) \ S
                /\ IF r - n <= 0 THEN ~conn'[s].open /\ conn'[s].refcnt = 0
                   ELSE (conn'[s].open <=> conn[s].open) /\ conn'[s].refcnt = r - n
                /\ ~conn[s].broken => ~conn'[s].broken
  <2>1. PICK S : S = {a \in gone : req[a].conn = s /\ req[a].st = "inprogress"}
    OBVIOUS
  <2>2. S \in SUBSET Using(s) /\ S \subseteq gone /\ S \subseteq Ids
    <3>1. ASSUME NEW a \in S PROVE a \in Ids /\ Uses(a, s)
      <4>1. a \in gone /\ req[a].conn = s /\ req[a].st = "inprogress" /\ Live(a)
        BY <2>1 DEF Live
      <4>. QED BY <1>4, <4>1 DEF Uses, Busy
    <3>. QED BY <2>1, <3>1 DEF Using
  <2>3. PICK n \in Nat : n = Cardinality(S)
    BY <2>2, InIds
  <2>4. PICK r \in Int : r = conn[s].refcnt
    BY <1>0, ConnTypes
  <2>5. conn'[s] = IF n = 0 THEN conn[s] ELSE Dropped(conn, s, n)[s]
    BY <1>2, <2>1, <2>3 DEF LetGo
  <2>6. Weighed(s) /\ conn[s].open \in BOOLEAN
    BY <1>0, ConnTypes DEF Conns
  <2>7. /\ IF r - n <= 0 THEN ~conn'[s].open /\ conn'[s].refcnt = 0
           ELSE (conn'[s].open <=> conn[s].open) /\ conn'[s].refcnt = r - n
        /\ ~conn[s].broken => ~conn'[s].broken
    <3>1. CASE n = 0
      <4>1. r >= 0 /\ (conn[s].open <=> r > 0) /\ conn'[s] = conn[s] /\ conn[s].refcnt = r
        BY <2>4, <2>5, <2>6, <3>1 DEF Weighed
      <4>. QED BY <3>1, <4>1
    <3>2. CASE n # 0
      <4>1. PICK cs : cs = Dropped(conn, s, n) /\ conn'[s] = cs[s]
        BY <2>5, <3>2
      <4>2. IF r - n <= 0
            THEN cs[s] = NoConnection
            ELSE cs[s].refcnt = r - n /\ cs[s].open = conn[s].open /\ cs[s].broken = conn[s].broken
        BY <1>0, <2>4, <4>1, DroppedTo
      <4>. QED BY <4>1, <4>2 DEF NoConnection
    <3>. QED BY <3>1, <3>2
  <2>8. Using(s)' \subseteq Using(s) \ S
    <3>1. ASSUME NEW a \in Ids, Uses(a, s)' PROVE Uses(a, s) /\ a \notin S
      <4>1. Live(a) /\ req'[a] = req[a] /\ a \notin abandoned /\ a \notin gone /\ (a \in asked'[s] => a \in asked[s])
        BY <1>2, <1>3, <1>5, <3>1 DEF Uses, Busy
      <4>. QED BY <2>2, <3>1, <4>1 DEF Uses, Busy
    <3>. QED BY <3>1 DEF Using
  <2>. QED BY <2>2, <2>3, <2>4, <2>7, <2>8
<1>7. \A s \in Servers : ~Held(s) /\ ~Held(s)'
  BY <1>0 DEF Held
<1>8. ~Clean'
  BY <1>0 DEF Clean
<1>9. ASSUME NEW s \in Servers PROVE Weighed(s)' /\ (~conn[s].broken => ~conn'[s].broken)
  <2>1. PICK S \in SUBSET Using(s), n \in Nat, r \in Int :
                /\ n = Cardinality(S) /\ r = conn[s].refcnt
                /\ Using(s)' \subseteq Using(s) \ S
                /\ IF r - n <= 0 THEN ~conn'[s].open /\ conn'[s].refcnt = 0
                   ELSE (conn'[s].open <=> conn[s].open) /\ conn'[s].refcnt = r - n
                /\ ~conn[s].broken => ~conn'[s].broken
    BY <1>6
  <2>2. n <= Cardinality(S) /\ Weighed(s) /\ (Held(s)' <=> Held(s))
    BY <1>0, <1>7, <2>1 DEF Conns
  <2>3. Weighed(s)'
    BY <1>0, <1>8, <2>1, <2>2, WeighedLess
  <2>. QED BY <2>1, <2>3
<1>10. Faultless'
  <2>. SUFFICES ASSUME ~Failed({"bind", "read"})'
                PROVE  /\ \A t \in Servers : ~conn'[t].broken
                       /\ \A k \in DOMAIN stack' : stack'[k].st # "refused"
                       /\ \A a \in Ids : Busy(a)' /\ req'[a].kind = "bind" => a \in asked'[req'[a].conn]
    BY DEF Faultless
  <2>0. ~Failed({"bind", "read"}) /\ Sound
    BY DEF Turn, Sound
  <2>1. ASSUME NEW a \in Ids, Busy(a)', req'[a].kind = "bind" PROVE a \in asked'[req'[a].conn]
    <3>1. PICK t \in Servers : /\ t = req[a].conn /\ req'[a].conn = t /\ Busy(a) /\ req[a].kind = "bind"
                              /\ a \notin gone
      BY <1>0, <1>3, <1>4, <2>1, RequestIs DEF Busy
    <3>2. a \in asked[t] /\ a \in Using(t)
      BY <1>0, <2>0, <3>1, BindUses DEF Conns, Faultless
    <3>3. PICK S \in SUBSET Using(t), n \in Nat, r \in Int :
                /\ S \subseteq gone /\ n = Cardinality(S) /\ r = conn[t].refcnt
                /\ IF r - n <= 0 THEN ~conn'[t].open /\ conn'[t].refcnt = 0
                   ELSE (conn'[t].open <=> conn[t].open) /\ conn'[t].refcnt = r - n
      BY <1>6
    <3>4. /\ Using(t) \subseteq Ids /\ Cardinality(Using(t)) \in Nat
          /\ Cardinality(S \cup {a}) = n + 1 /\ Cardinality(S \cup {a}) <= Cardinality(Using(t))
      <4>1. Using(t) \subseteq Ids /\ S \subseteq Ids /\ S \cup {a} \subseteq Using(t) /\ a \notin S
        BY <3>1, <3>2, <3>3 DEF Using
      <4>. QED BY <3>3, <4>1, InIds
    <3>5. r >= Cardinality(Using(t))
      <4>1. Weighed(t) /\ Total(t) \in Int /\ Total(t) >= Cardinality(Using(t))
        BY <1>0, <3>4 DEF Conns, Total
      <4>. QED BY <2>0, <3>3, <3>4, <4>1 DEF Weighed
    <3>6. conn'[t].open
      <4>1. conn[t].open
        BY <1>0, <2>0, <3>2, InUse, ConnTypes DEF Conns
      <4>. QED BY <3>3, <3>4, <3>5, <4>1
    <3>. QED BY <1>5, <3>1, <3>2, <3>6
  <2>. QED BY <1>0, <1>9, <2>0, <2>1 DEF Conns, Faultless
<1>11. Gone'
  <2>1. \A a \in gone : a <= ld_msgid
    BY <1>0, <1>2, <1>4 DEF Family, Core, Drawn
  <2>2. \A a \in abandoned' : a <= ld_msgid' /\ (Live(a)' => req'[a].orig \in aborted')
    <3>1. abandoned \subseteq Ids
      BY <1>0 DEF TypeOK
    <3>. QED BY <1>0, <1>2, <1>3, <1>4, <2>1, <3>1 DEF Conns, Gone
  <2>3. \A a \in ops : a <= ld_msgid' /\ (Live(a)' => req'[a].kind = "op" /\ req'[a].orig = a)
    BY <1>0, <1>3 DEF Conns, Gone, TypeOK
  <2>. QED BY <1>0, <2>2, <2>3 DEF Gone
<1>12. Sole' /\ \A s \in Servers : Reserved(s)'
  BY <1>7 DEF Sole, Alone, Held, Reserved
<1>. QED BY <1>9, <1>10, <1>11, <1>12 DEF Conns

LEMMA ConnsThen ==
    ASSUME IInv, Styled, ConnInv, Next
    PROVE  ConnInv'
<1>. SUFFICES ASSUME session' = "open" PROVE Conns'
  BY DEF ConnInv
<1>1. session = "open"
  BY DEF Next, ChaseStep, Send, ReadResult, ReadBind, ReadRefs, ReadError, QueueOn, SendOn, Reconnect,
     ConnectFails, Bound, Refused, WriteFails, Chased, Passed, Unfollowed, Take, Abandon, Unbind, Break,
     Idle, Answers, Reading, AtUrl, Binding, AtEnd
<1>2. Turn
  BY <1>1, LaterThen DEF Turn, ConnInv, IInv
<1>3. ~Unbind /\ \A s \in Servers : ~WriteFails(s)
  BY DEF Unbind, WriteFails
<1>4. CASE ChaseStep
  <2>1. ASSUME NEW s \in Servers, QueueOn(s) \/ ConnectFails(s) PROVE Conns'
    BY <1>2, <2>1, QueueOnCalm, ConnectFailsCalm, CalmConns
  <2>2. ASSUME NEW s \in Servers, SendOn(s) \/ Reconnect(s) \/ Bound(s) \/ Refused(s) PROVE Conns'
    BY <1>2, <2>2, SendOnConns, ReconnectConns, BoundConns, RefusedConns
  <2>3. CASE Chased \/ Passed
    BY <1>2, <2>3, OverCalm, CalmConns
  <2>4. CASE Unfollowed
    BY <1>2, <2>4, UnfollowedConns
  <2>. QED BY <1>3, <1>4, <2>1, <2>2, <2>3, <2>4 DEF ChaseStep
<1>5. CASE Send \/ \E id \in Ids : ReadResult(id) \/ \E ok \in BOOLEAN : ReadBind(id, ok)
  BY <1>2, <1>5, SendConns, ReadResultConns, ReadBindConns
<1>6. CASE \E id \in Ids, refs \in RefLists, v3 \in BOOLEAN, final \in BOOLEAN : ReadRefs(id, refs, v3, final)
  BY <1>2, <1>6, ReadRefsCalm, CalmConns
<1>7. CASE ReadError \/ \E s \in Servers : Break(s)
  BY <1>2, <1>7, ReadErrorCalm, BreakCalm, CalmConns
<1>8. CASE \E id \in Ids : Take(id)
  BY <1>2, <1>8, TakeCalm, CalmConns
<1>9. CASE \E id \in Ids : Abandon(id)
  BY <1>2, <1>9, AbandonConns
<1>. QED BY <1>3, <1>4, <1>5, <1>6, <1>7, <1>8, <1>9 DEF Next

LEMMA ConnsInit ==
    ASSUME Init
    PROVE  Conns
<1>1. /\ stack = <<>> /\ DOMAIN stack = {} /\ abandoned = {} /\ ops = {} /\ Default \in Servers
      /\ ~Failed({"bind", "read"}) /\ \A id \in Ids : ~Live(id)
  BY ServersAssumption DEF Init, Failed, Live, NoRequest
<1>2. \A s \in Servers : ~Held(s) /\ Using(s) = {}
  BY <1>1 DEF Held, Using, Uses, Busy
<1>3. ASSUME NEW s \in Servers
      PROVE  Weighed(s) /\ ~conn[s].broken
  <2>1. Total(s) = IF s = Default THEN 1 ELSE 0
    BY <1>2, FS_EmptySet DEF Total
  <2>2. conn[s] = IF s = Default THEN [NoConnection EXCEPT !.open = TRUE, !.refcnt = 1] ELSE NoConnection
    BY DEF Init
  <2>3. /\ conn[s].open <=> s = Default
        /\ conn[s].refcnt = IF s = Default THEN 1 ELSE 0
        /\ ~conn[s].broken
    BY <2>2 DEF NoConnection
  <2>. QED BY <2>1, <2>3 DEF Weighed
<1>. QED BY <1>1, <1>2, <1>3 DEF Conns, Sole, Alone, Faultless, Busy, Gone, Reserved

LEMMA ConnsAlways == Spec => [](IInv /\ Styled /\ ConnInv)
<1>1. Init => IInv /\ Styled /\ ConnInv
  BY InitThen, ConnsInit DEF ConnInv, Init, Styled
<1>2. IInv /\ Styled /\ ConnInv /\ [Next]_vars => IInv' /\ Styled' /\ ConnInv'
  <2>. SUFFICES ASSUME IInv, Styled, ConnInv, [Next]_vars PROVE IInv' /\ Styled' /\ ConnInv'
    OBVIOUS
  <2>1. CASE Next
    BY <2>1, NextThen, StyledThen, ConnsThen
  <2>2. CASE UNCHANGED vars
    <3>1. Styled'
      BY <2>2 DEF vars, Styled
    <3>2. IInv' /\ ConnInv'
      BY <2>2, StutterThen DEF vars, ConnInv, Conns, Sole, Sound, Clean, Failed, Alone, Keeps, Faultless, Busy,
         Live, Gone, Weighed, Total, Using, Uses, Held, Reserved
    <3>. QED BY <3>1, <3>2
  <2>. QED BY <2>1, <2>2
<1>. QED BY <1>1, <1>2, PTL DEF Spec

(* No connection is closed under a request that waits on it, and the count *)
(* of one is exact while every user lets go of it (ldap_new_connection,    *)
(* ldap_send_server_request, ldap_free_connection), whatever chases nest:  *)
(* where servers send no referrals of LDAPv2 a chase whose bind fails is   *)
(* the only one that uses the connection it closes.                        *)
THEOREM ConnsTheorem == Spec => []ConnsHeld
<1>1. ASSUME IInv, ConnInv PROVE ConnsHeld
  <2>. SUFFICES ASSUME session = "open", NEW s \in Servers
                PROVE  /\ Sound /\ Users(s) > 0 => conn[s].open /\ conn[s].refcnt >= Users(s)
                       /\ Clean => conn[s].refcnt = Holds(s)
    BY DEF ConnsHeld, Sound, Clean
  <2>1. Conns /\ TypeOK /\ Weighed(s) /\ conn[s].refcnt \in Int
    BY <1>1, ConnTypes DEF ConnInv, IInv, Conns
  <2>2. Using(s) \subseteq Ids /\ Cardinality(Using(s)) \in Nat
    <3>1. Using(s) \subseteq Ids
      BY DEF Using
    <3>. QED BY <3>1, InIds
  <2>3. Users(s) \in Nat /\ Users(s) <= Cardinality(Using(s))
    <3>1. {id \in Ids : Waiting(id) /\ req[id].conn = s} \subseteq Using(s)
      BY DEF Waiting, Using, Uses, Busy
    <3>. QED BY <2>2, <3>1, InIds DEF Users
  <2>4. Total(s) \in Nat /\ Total(s) >= Cardinality(Using(s))
    BY <2>2 DEF Total
  <2>5. Sound /\ Users(s) > 0 => conn[s].open /\ conn[s].refcnt >= Users(s)
    BY <2>1, <2>2, <2>3, <2>4 DEF Weighed
  <2>6. ASSUME Clean PROVE conn[s].refcnt = Holds(s)
    <3>1. ~Failed({"bind", "read"}) /\ Sound
      BY <2>6 DEF Clean, Sound
    <3>2. {id \in Ids : Live(id) /\ req[id].st # "completed" /\ req[id].conn = s} = Using(s)
      <4>1. ASSUME NEW id \in Ids, Busy(id), req[id].conn = s PROVE Uses(id, s)
        <5>1. CASE req[id].kind = "bind"
          BY <1>1, <2>1, <3>1, <4>1, <5>1, BindUses DEF Using
        <5>2. CASE req[id].kind = "op"
          BY <2>1, <2>6, <4>1, <5>2 DEF Conns, Gone, Clean, Uses, Busy
        <5>. QED BY <2>1, <5>1, <5>2, RequestIs
      <4>2. \A id \in Ids : Uses(id, s) => Live(id) /\ req[id].st # "completed" /\ req[id].conn = s
        BY DEF Uses, Busy
      <4>. QED BY <4>1, <4>2 DEF Using, Busy
    <3>. DEFINE K == {k \in DOMAIN stack : stack[k].st \in {"wait", "bound"} /\ stack[k].refs[stack[k].i] = s}
    <3>3. \A k \in DOMAIN stack : k \in K <=> Keeps(k, s)
      BY <2>1, <3>1 DEF Conns, Faultless, Keeps, InBind
    <3>4. Cardinality(K) = IF Held(s) THEN 1 ELSE 0
      <4>1. CASE Held(s)
        <5>1. PICK k \in DOMAIN stack : Keeps(k, s)
          BY <4>1 DEF Held
        <5>2. K = {k}
          BY <2>1, <3>1, <3>3, <5>1 DEF Conns, Sole, Alone
        <5>. QED BY <4>1, <5>2, FS_Singleton
      <4>2. CASE ~Held(s)
        <5>1. K = {}
          BY <3>3, <4>2 DEF Held
        <5>. QED BY <4>2, <5>1, FS_EmptySet
      <4>. QED BY <4>1, <4>2
    <3>5. Holds(s) = Total(s)
      BY <3>2, <3>4 DEF Holds, Total
    <3>. QED BY <2>1, <2>6, <3>5 DEF Weighed
  <2>. QED BY <2>5, <2>6
<1>. QED BY <1>1, ConnsAlways, PTL
=============================================================================
