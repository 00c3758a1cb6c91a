--------------------------- MODULE ReferralsProof ---------------------------
(***************************************************************************)
(* Proofs about LdapReferrals: the tree of requests and its counts,        *)
(* whatever chases nest in one another.                                    *)
(***************************************************************************)
EXTENDS LdapReferrals, FiniteSetTheorems, WellFoundedInduction, TLAPS

(* Sets of natural numbers. *)
LEMMA Least ==
    ASSUME NEW T, T \subseteq Nat, T # {}
    PROVE  \E x \in T : \A y \in T : x <= y
<1>1. \E x \in T : \A y \in T : ~(<<y, x>> \in OpToRel(<, Nat))
  BY WFMin, NatLessThanWellFounded, Zenon
<1>2. PICK x \in T : \A y \in T : ~(<<y, x>> \in OpToRel(<, Nat))
  BY <1>1
<1>3. \A y \in T : <<y, x>> \in Nat \X Nat /\ <<y, x>>[1] = y /\ <<y, x>>[2] = x
  OBVIOUS
<1>4. \A y \in T : ~(y < x)
  BY <1>2, <1>3 DEF OpToRel
<1>. QED BY <1>4

LEMMA Greatest ==
    ASSUME NEW T, T \subseteq Nat, T # {}, NEW n \in Nat, \A y \in T : y <= n
    PROVE  \E x \in T : \A y \in T : y <= x
<1>. DEFINE U == {n - y : y \in T}
<1>1. U \subseteq Nat /\ U # {}
  <2>1. \A y \in T : n - y \in Nat
    OBVIOUS
  <2>. QED BY <2>1
<1>2. PICK u \in U : \A v \in U : u <= v
  <2>. HIDE DEF U
  <2>. QED BY <1>1, Least
<1>3. PICK x \in T : u = n - x
  OBVIOUS
<1>4. \A y \in T : n - x <= n - y
  BY <1>2, <1>3
<1>5. \A y \in T : y \in Nat /\ x \in Nat
  OBVIOUS
<1>. QED BY <1>4, <1>5

-----------------------------------------------------------------------------
LEMMA IdsAre == \A id \in Ids : id \in Nat /\ id > 0
BY BoundsAssumption DEF Ids

LEMMA RequestIs ==
    ASSUME TypeOK, NEW id \in Ids
    PROVE  /\ req[id] \in Request /\ req[id].out \in Int /\ req[id].hops \in Nat
           /\ req[id].parent \in Ids \cup {0} /\ req[id].orig \in Ids \cup {0}
           /\ req[id].conn \in Servers /\ req[id].kind \in {"op", "bind"}
           /\ req[id].st \in {"free", "inprogress", "chasing", "completed"}
BY DEF TypeOK, Request

(* The requests above one.  Ids grow from parent to child. *)
Rising == \A id \in Ids : req[id].parent \in Ids \cup {0} /\ req[id].parent < id

LEMMA AboveIs ==
    ASSUME Rising
    PROVE  Above = [id \in Ids |-> IF req[id].parent = 0 THEN {}
                                  ELSE {req[id].parent} \cup Above[req[id].parent]]
<1>. DEFINE up(id) == req[id].parent
            Closed(S) == \A a \in S : up(a) # 0 => up(a) \in S
            G == [id \in Ids |-> IF up(id) = 0 THEN {}
                                ELSE {a \in Ids : \A S \in SUBSET Ids :
                                         up(id) \in S /\ Closed(S) => a \in S}]
<1>1. ASSUME NEW id \in Ids, up(id) # 0
      PROVE  G[id] = {up(id)} \cup G[up(id)]
  <2>. DEFINE q == up(id)
  <2>0. q \in Ids /\ \A a \in Ids : up(a) # 0 => up(a) \in Ids
    BY <1>1 DEF Rising
  <2>1. G[id] = {a \in Ids : \A S \in SUBSET Ids : q \in S /\ Closed(S) => a \in S}
    BY <1>1
  <2>2. G[q] = IF up(q) = 0 THEN {} ELSE {a \in Ids : \A S \in SUBSET Ids : up(q) \in S /\ Closed(S) => a \in S}
    BY <2>0
  <2>3. {q} \cup G[q] \subseteq G[id]
    <3>1. q \in G[id]
      BY <2>0, <2>1
    <3>2. ASSUME NEW a \in G[q] PROVE a \in G[id]
      <4>1. up(q) # 0 /\ a \in Ids /\ \A S \in SUBSET Ids : up(q) \in S /\ Closed(S) => a \in S
        BY <2>2, <3>2
      <4>2. ASSUME NEW S \in SUBSET Ids, q \in S, Closed(S) PROVE a \in S
        BY <4>1, <4>2
      <4>. QED BY <2>1, <4>1, <4>2
    <3>. QED BY <3>1, <3>2
  <2>4. {q} \cup G[q] \in SUBSET Ids /\ Closed({q} \cup G[q])
    <3>1. G[q] \subseteq Ids
      <4>. HIDE DEF G, q
      <4>. QED BY <2>2
    <3>2. ASSUME up(q) # 0 PROVE up(q) \in G[q]
      BY <2>0, <2>2, <3>2
    <3>3. ASSUME NEW a \in G[q], up(a) # 0 PROVE up(a) \in G[q]
      <4>1. up(q) # 0 /\ a \in Ids /\ \A S \in SUBSET Ids : up(q) \in S /\ Closed(S) => a \in S
        BY <2>2, <3>3
      <4>2. \A S \in SUBSET Ids : up(q) \in S /\ Closed(S) => up(a) \in S
        BY <4>1, <3>3
      <4>. QED BY <2>0, <2>2, <4>1, <4>2, <3>3
    <3>. HIDE DEF G
    <3>. QED BY <2>0, <3>1, <3>2, <3>3
  <2>5. G[id] \subseteq {q} \cup G[q]
    <3>. SUFFICES ASSUME NEW a \in G[id] PROVE a \in {q} \cup G[q]
      OBVIOUS
    <3>1. \A S \in SUBSET Ids : q \in S /\ Closed(S) => a \in S
      BY <2>1
    <3>. HIDE DEF G, Closed
    <3>. QED BY <3>1, <2>4
  <2>. QED BY <2>3, <2>5
<1>2. G = [id \in Ids |-> IF req[id].parent = 0 THEN {}
                         ELSE {req[id].parent} \cup G[req[id].parent]]
  BY <1>1
<1>. HIDE DEF G
<1>. QED BY <1>2 DEF Above

LEMMA AboveOf ==
    ASSUME Rising, NEW id \in Ids
    PROVE  /\ req[id].parent = 0 => Above[id] = {}
           /\ req[id].parent # 0 => /\ req[id].parent \in Ids
                                    /\ Above[id] = {req[id].parent} \cup Above[req[id].parent]
<1>1. Above[id] = IF req[id].parent = 0 THEN {} ELSE {req[id].parent} \cup Above[req[id].parent]
  BY AboveIs
<1>. QED BY <1>1 DEF Rising

(* The line from a request to its operation. *)
Line(id) == {id} \cup Above[id]

LineOK(id) ==
    /\ Above[id] \subseteq Ids /\ \A a \in Above[id] : a < id
    /\ \A a \in Line(id) : req[a].parent # 0 => req[a].parent \in Above[id]
    /\ \A p \in Above[id] : \E c \in Line(id) : req[c].parent = p
    /\ \A x, y \in Line(id) : x < y => x <= req[y].parent

LEMMA LineIsOK ==
    ASSUME Rising, NEW lr \in Ids
    PROVE  LineOK(lr)
<1>. DEFINE Bad == {id \in Ids : ~LineOK(id)}
<1>. SUFFICES ASSUME Bad # {} PROVE FALSE
  OBVIOUS
<1>1. PICK id \in Bad : \A b \in Bad : id <= b
  <2>1. Bad \subseteq Nat
    BY DEF Ids
  <2>. HIDE DEF Bad
  <2>. QED BY <2>1, Least
<1>. DEFINE q == req[id].parent
<1>2. id \in Ids /\ ~LineOK(id) /\ q \in Ids \cup {0} /\ q < id
  BY <1>1 DEF Rising
<1>3. CASE q = 0
  <2>1. Above[id] = {}
    BY <1>2, <1>3, AboveOf
  <2>. QED BY <1>2, <1>3, <2>1 DEF LineOK, Line, Ids
<1>4. CASE q # 0
  <2>1. q \in Ids /\ Above[id] = Line(q)
    BY <1>2, <1>4, AboveOf DEF Line
  <2>2. LineOK(q)
    BY <1>1, <1>2, <2>1 DEF Ids
  <2>3. Line(id) = {id} \cup Line(q) /\ q \in Line(q)
    BY <2>1 DEF Line
  <2>4. \A a \in Line(q) : a \in Ids /\ a <= q /\ a < id
    BY <1>2, <2>1, <2>2 DEF LineOK, Line, Ids
  <2>5. \A a \in Line(id) : req[a].parent # 0 => req[a].parent \in Above[id]
    BY <2>1, <2>2, <2>3 DEF LineOK, Line
  <2>6. \A p \in Above[id] : \E c \in Line(id) : req[c].parent = p
    BY <2>1, <2>2, <2>3 DEF LineOK, Line
  <2>7. ASSUME NEW x \in Line(id), NEW y \in Line(id), x < y PROVE x <= req[y].parent
    <3>1. CASE y = id
      BY <1>2, <2>3, <2>4, <2>7, <3>1 DEF Ids
    <3>2. CASE y # id
      <4>1. y \in Line(q) /\ x \in Line(q)
        BY <1>2, <2>3, <2>4, <2>7, <3>2 DEF Ids
      <4>. QED BY <2>2, <2>7, <4>1 DEF LineOK
    <3>. QED BY <3>1, <3>2
  <2>8. Above[id] \subseteq Ids /\ \A a \in Above[id] : a < id
    BY <2>1, <2>4
  <2>. QED BY <1>2, <2>5, <2>6, <2>7, <2>8 DEF LineOK
<1>. QED BY <1>3, <1>4

-----------------------------------------------------------------------------
(* The invariant.  A request that is not there is blank, and ids are not   *)
(* used again.                                                             *)
Blank == \A id \in Ids : ~Live(id) => req[id] = NoRequest
Drawn == /\ \A id \in Ids : Live(id) => id <= ld_msgid
         /\ \A id \in moved : id <= ld_msgid

(* The tree under an operation; a bind is an operation of its own. *)
IsRoot(id) == req[id].orig = id /\ req[id].parent = 0
IsChild(id) ==
    LET p == req[id].parent
    IN  /\ p \in Ids /\ Live(p) /\ p < id
        /\ req[p].orig = req[id].orig /\ req[id].kind = "op"

Placed(id) ==
    /\ req[id].orig \in Ids /\ Live(req[id].orig) /\ IsRoot(req[id].orig)
    /\ req[req[id].orig].kind = req[id].kind /\ req[id].orig <= id
    /\ IsRoot(id) \/ IsChild(id)

Tree == \A id \in Ids : Live(id) => Placed(id)

(* The chases in progress.  All but the innermost wait for a bind, and     *)
(* have an id that no request has yet.                                     *)
InBind == {"wait", "bound", "refused"}

Nested  == \A k \in DOMAIN stack : k > 1 => stack[k].st \in InBind
LrHeld  == \A k \in DOMAIN stack : Live(stack[k].lr) /\ req[stack[k].lr].kind = "op"
NewIds  ==
    \A k \in DOMAIN stack : stack[k].st \in InBind =>
        /\ stack[k].new \in Ids /\ stack[k].lr < stack[k].new /\ stack[k].new <= ld_msgid
        /\ ~Live(stack[k].new) /\ stack[k].new \notin moved
        /\ \A j \in DOMAIN stack : j # k /\ stack[j].st \in InBind => stack[j].new # stack[k].new

(* A request that is chased as a whole has had its answer, once.           *)
Unanswered(id) == id \in asked[req[id].conn]

Finals ==
    \A k \in DOMAIN stack :
        /\ stack[k].v3 \/ stack[k].final
        /\ stack[k].final =>
              /\ req[stack[k].lr].st # "completed" /\ ~Unanswered(stack[k].lr)
              /\ \A j \in DOMAIN stack : j # k /\ stack[j].final => stack[j].lr # stack[k].lr

(* A request below an operation gets children when the referral it ends    *)
(* with, one of LDAPv2, is chased, and then one of them.                   *)
Grown ==
    \A id \in Ids : Live(id) /\ req[id].parent # 0 /\ Children(id) # {} =>
        \/ req[id].st = "completed"
        \/ stack # <<>> /\ Top.lr = id /\ Top.st = "followed" /\ ~Top.v3

(* It gets none when that is one of LDAPv3, nor before it has its answer.  *)
Barren ==
    /\ moved3 \subseteq moved
    /\ \A id \in moved3 : Live(id) =>
          req[id].st = "completed" /\ (req[id].parent # 0 => Children(id) = {})

Open ==
    \A id \in Ids : Live(id) /\ Unanswered(id) =>
        /\ req[id].st # "completed" /\ id \notin moved
        /\ req[id].parent # 0 => Children(id) = {}

Followed == stack # <<>> /\ Top.st = "followed" /\ ~Top.v3 => req[Top.lr].out > 0

Counts ==
    \A p \in Ids : Live(p) =>
        req[p].out = Cardinality(Outstanding(p)) + Cardinality(Pending(p))

Core == /\ Blank /\ Drawn /\ Tree /\ Nested /\ LrHeld /\ NewIds /\ Finals
        /\ Grown /\ Barren /\ Open /\ Followed /\ Counts

IInv == TypeOK /\ (session = "open" => Core)

-----------------------------------------------------------------------------
(* What the operators do with the stack. *)
LEMMA Replaced ==
    ASSUME stack \in Seq(Chase), stack # <<>>, NEW f \in Chase, TopBecomes(f)
    PROVE  /\ stack' \in Seq(Chase) /\ stack' # <<>> /\ DOMAIN stack' = DOMAIN stack
           /\ stack'[1] = f /\ Top' = f
           /\ \A k \in DOMAIN stack : k # 1 => stack'[k] = stack[k]
BY DEF TopBecomes, Top

LEMMA Popped ==
    ASSUME stack \in Seq(Chase), stack # <<>>, stack' = Tail(stack)
    PROVE  /\ stack' \in Seq(Chase)
           /\ DOMAIN stack' = {k \in Nat \ {0} : k + 1 \in DOMAIN stack}
           /\ \A k \in DOMAIN stack' : stack'[k] = stack[k + 1]
OBVIOUS

LEMMA Pushed ==
    ASSUME stack \in Seq(Chase), NEW f \in Chase, stack' = <<f>> \o stack
    PROVE  /\ stack' \in Seq(Chase) /\ stack' # <<>> /\ Top' = f
           /\ DOMAIN stack' = {1} \cup {k + 1 : k \in DOMAIN stack}
           /\ stack'[1] = f /\ \A k \in DOMAIN stack : stack'[k + 1] = stack[k]
<1>. DEFINE n == Len(stack)
<1>1. n \in Nat /\ DOMAIN stack = 1..n
  OBVIOUS
<1>2. /\ <<f>> \in Seq(Chase) /\ stack' \in Seq(Chase) /\ Len(stack') = n + 1
      /\ stack'[1] = f /\ \A k \in 1..n : stack'[k + 1] = stack[k]
  OBVIOUS
<1>3. DOMAIN stack' = 1..n + 1 /\ stack' # <<>> /\ Top' = f
  BY <1>1, <1>2 DEF Top
<1>. HIDE DEF n
<1>4. 1..n + 1 = {1} \cup {k + 1 : k \in 1..n}
  <2>1. \A k \in 1..n + 1 : k = 1 \/ (k - 1 \in 1..n /\ k = (k - 1) + 1)
    BY <1>1
  <2>2. \A k \in 1..n : k + 1 \in 1..n + 1
    BY <1>1
  <2>3. 1 \in 1..n + 1
    BY <1>1
  <2>. QED BY <2>1, <2>2, <2>3
<1>. QED BY <1>1, <1>2, <1>3, <1>4

LEMMA TopIs ==
    ASSUME stack \in Seq(Chase), stack # <<>>
    PROVE  Top \in Chase /\ Top = stack[1] /\ 1 \in DOMAIN stack
BY DEF Top

LEMMA ShiftCard ==
    ASSUME NEW S, S \subseteq Nat, IsFiniteSet(S), NEW T, T = {k + 1 : k \in S}
    PROVE  IsFiniteSet(T) /\ Cardinality(T) = Cardinality(S)
<1>. DEFINE f == [k \in S |-> k + 1]
<1>1. f \in [S -> T] /\ \A k \in S : f[k] = k + 1 /\ k \in Nat
  OBVIOUS
<1>2. \A t \in T : \E k \in S : f[k] = t
  OBVIOUS
<1>. HIDE DEF f
<1>3. f \in Bijection(S, T)
  BY <1>1, <1>2 DEF Bijection, Injection, Surjection, IsInjective
<1>. QED BY <1>3, FS_Bijection DEF ExistsBijection

-----------------------------------------------------------------------------
(* The sets that are counted. *)
OutIn(r, m, p) ==
    {c \in Ids : /\ r[c].st # "free" /\ r[c].parent = p
                 /\ r[c].st # "completed" \/ r[c].out > 0 \/ c \in m}

LEMMA OutNow == \A p : Outstanding(p) = OutIn(req, moved3, p)
BY DEF Outstanding, OutIn, Children, Live

LEMMA OutThen == \A p : Outstanding(p)' = OutIn(req', moved3', p)
BY DEF Outstanding, OutIn, Children, Live

LEMMA Finite ==
    ASSUME TypeOK, NEW p
    PROVE  /\ IsFiniteSet(Ids)
           /\ Pending(p) \subseteq Nat /\ IsFiniteSet(Pending(p)) /\ Cardinality(Pending(p)) \in Nat
           /\ \A r, m : /\ IsFiniteSet(OutIn(r, m, p)) /\ Cardinality(OutIn(r, m, p)) \in Nat
<1>1. IsFiniteSet(Ids)
  BY FS_Interval, BoundsAssumption DEF Ids
<1>2. Pending(p) \subseteq 1..Len(stack) /\ Len(stack) \in Nat
  BY DEF Pending, TypeOK
<1>3. IsFiniteSet(1..Len(stack))
  BY <1>2, FS_Interval
<1>4. IsFiniteSet(Pending(p)) /\ Cardinality(Pending(p)) \in Nat
  BY <1>2, <1>3, FS_Subset, FS_CardinalityType
<1>5. ASSUME NEW r, NEW m
      PROVE  IsFiniteSet(OutIn(r, m, p)) /\ Cardinality(OutIn(r, m, p)) \in Nat
  <2>1. OutIn(r, m, p) \subseteq Ids
    BY DEF OutIn
  <2>. QED BY <1>1, <2>1, FS_Subset, FS_CardinalityType
<1>. QED BY <1>1, <1>2, <1>4, <1>5

-----------------------------------------------------------------------------
(* The tree. *)
LEMMA RisingOf ==
    ASSUME TypeOK, Blank, Tree
    PROVE  Rising
<1>1. ASSUME NEW id \in Ids PROVE req[id].parent \in Ids \cup {0} /\ req[id].parent < id
  <2>1. id \in Nat /\ id > 0
    BY DEF Ids
  <2>2. CASE ~Live(id)
    BY <2>1, <2>2 DEF Blank, NoRequest
  <2>3. CASE Live(id)
    BY <2>1, <2>3 DEF Tree, Placed, IsRoot, IsChild
  <2>. QED BY <2>2, <2>3
<1>. QED BY <1>1 DEF Rising

LEMMA OnTheLine ==
    ASSUME TypeOK, Blank, Tree, NEW lr \in Ids, Live(lr)
    PROVE  LineOK(lr) /\ \A a \in Line(lr) : /\ a \in Ids /\ Live(a) /\ req[a].orig = req[lr].orig
                                             /\ req[a].kind = req[lr].kind
<1>1. LineOK(lr)
  BY RisingOf, LineIsOK
<1>. DEFINE Good(a) == /\ a \in Ids /\ Live(a) /\ req[a].orig = req[lr].orig
                       /\ req[a].kind = req[lr].kind
            Bad == {a \in Above[lr] : ~Good(a)}
<1>2. Good(lr)
  OBVIOUS
<1>3. Above[lr] \subseteq Ids /\ lr \in Nat /\ \A a \in Above[lr] : a \in Nat /\ a < lr
  BY <1>1 DEF LineOK, Ids
<1>4. Bad = {}
  <2>. SUFFICES ASSUME Bad # {} PROVE FALSE
    OBVIOUS
  <2>1. PICK p \in Bad : \A y \in Bad : y <= p
    <3>1. Bad \subseteq Nat /\ \A y \in Bad : y <= lr
      BY <1>3
    <3>. HIDE DEF Bad
    <3>. QED BY <1>3, <3>1, Greatest
  <2>2. p \in Above[lr] /\ ~Good(p) /\ p \in Ids
    BY <1>3
  <2>3. PICK c \in Line(lr) : req[c].parent = p
    BY <1>1, <2>2 DEF LineOK
  <2>4. c \in Ids /\ p < c /\ p # 0
    BY <1>3, <2>2, <2>3, RisingOf DEF Rising, Line, Ids
  <2>5. Good(c)
    BY <1>2, <1>3, <2>1, <2>2, <2>3, <2>4 DEF Line, Ids
  <2>6. Live(p) /\ req[p].orig = req[c].orig
    BY <2>3, <2>4, <2>5 DEF Tree, Placed, IsChild, IsRoot
  <2>7. req[p].kind = req[c].kind
    BY <2>2, <2>5, <2>6 DEF Tree, Placed
  <2>. QED BY <2>2, <2>5, <2>6, <2>7
<1>. QED BY <1>1, <1>2, <1>3, <1>4 DEF Line

-----------------------------------------------------------------------------
(* The end of a request.  It is one that was not complete, and has not     *)
(* been chased; the other chases in progress are not about the whole of it *)
(* and wait for their binds.                                               *)
Ready(lr) ==
    /\ lr \in Ids /\ Live(lr) /\ req[lr].st # "completed"
    /\ lr \notin moved3
    /\ req[lr].parent # 0 => Children(lr) = {}
    /\ \A k \in DOMAIN stack : /\ stack[k].st \in InBind \/ (k = 1 /\ stack[k].st = "next")
                               /\ stack[k].st \in InBind /\ stack[k].final => stack[k].lr # lr

(* Below a child that ends there is nothing. *)
LEMMA NoneBelow ==
    ASSUME IInv, session = "open", NEW lr, Ready(lr), req[lr].parent # 0
    PROVE  req[lr].out = 0
<1>1. /\ lr \in Ids /\ Live(lr) /\ TypeOK /\ Tree
      /\ \A k \in DOMAIN stack : /\ stack[k].lr \in Ids /\ Live(stack[k].lr)
                                 /\ stack[k].v3 \/ stack[k].final
  <2>1. TypeOK /\ Tree /\ LrHeld /\ Finals
    BY DEF IInv, Core
  <2>2. \A k \in DOMAIN stack : stack[k] \in Chase
    BY <2>1 DEF TypeOK
  <2>. QED BY <2>1, <2>2 DEF Ready, LrHeld, Finals, Chase
<1>2. Outstanding(lr) = {}
  <2>1. Children(lr) = {}
    BY DEF Ready
  <2>. QED BY <2>1 DEF Outstanding
<1>3. Pending(lr) = {}
  <2>1. ASSUME NEW k \in DOMAIN stack, stack[k].st \in InBind PROVE Parent(stack[k]) # lr
    <3>1. CASE stack[k].v3
      <4>1. req[stack[k].lr].orig \in Ids /\ IsRoot(req[stack[k].lr].orig)
        BY <1>1 DEF Tree, Placed
      <4>. QED BY <3>1, <4>1 DEF Parent, IsRoot
    <3>2. CASE ~stack[k].v3
      BY <1>1, <2>1, <3>2 DEF Parent, Ready
    <3>. QED BY <3>1, <3>2
  <2>. QED BY <2>1 DEF Pending, InBind
<1>. QED BY <1>1, <1>2, <1>3, FS_EmptySet DEF IInv, Core, Counts

(* Everything above a request that is not complete waits for it.           *)
LEMMA Awaited ==
    ASSUME IInv, session = "open", NEW lr \in Ids, Live(lr), req[lr].st # "completed"
    PROVE  \A c \in Line(lr) : /\ c # lr => req[c].out >= 1
                               /\ req[c].parent # 0 => c \in Outstanding(req[c].parent)
<1>0. TypeOK /\ Blank /\ Tree /\ Counts
  BY DEF IInv, Core
<1>. DEFINE Bad == {p \in Above[lr] : ~(req[p].out >= 1)}
<1>1. /\ LineOK(lr) /\ lr \in Nat /\ Line(lr) \subseteq Ids /\ \A a \in Line(lr) : Live(a) /\ a \in Nat
      /\ \A a \in Ids : req[a].out \in Int
  <2>1. LineOK(lr) /\ \A a \in Line(lr) : a \in Ids /\ Live(a)
    BY <1>0, OnTheLine
  <2>. QED BY <1>0, <2>1, IdsAre, RequestIs
<1>2. ASSUME NEW c \in Line(lr), c \notin Bad, req[c].parent # 0
      PROVE  c \in Outstanding(req[c].parent)
  <2>1. c \in Ids /\ Live(c) /\ req[c].out \in Int /\ (c = lr \/ req[c].out >= 1)
    BY <1>1, <1>2 DEF Line
  <2>2. req[c].st # "completed" \/ req[c].out > 0
    BY <2>1
  <2>. QED BY <2>1, <2>2 DEF Outstanding, Children
<1>3. Bad = {}
  <2>. SUFFICES ASSUME Bad # {} PROVE FALSE
    OBVIOUS
  <2>1. PICK p \in Bad : \A y \in Bad : y <= p
    <3>1. Bad \subseteq Nat /\ \A y \in Bad : y <= lr
      <4>1. \A a \in Above[lr] : a \in Nat /\ a < lr
        BY <1>1 DEF LineOK, Line
      <4>. QED BY <1>1, <4>1
    <3>. HIDE DEF Bad
    <3>. QED BY <1>1, <3>1, Greatest
  <2>2. p \in Above[lr] /\ p \in Ids /\ Live(p) /\ ~(req[p].out >= 1)
    BY <1>1 DEF Line
  <2>3. PICK c \in Line(lr) : req[c].parent = p
    BY <1>1, <2>2 DEF LineOK
  <2>4. c \in Ids /\ p < c /\ p # 0
    BY <1>0, <1>1, <2>2, <2>3, RisingOf DEF Rising, Ids
  <2>5. c \notin Bad
    BY <1>1, <2>1, <2>2, <2>4 DEF Ids
  <2>6. c \in Outstanding(p)
    BY <1>2, <2>3, <2>4, <2>5
  <2>7. /\ Cardinality(Outstanding(p)) \in Nat /\ Cardinality(Outstanding(p)) # 0
        /\ Cardinality(Pending(p)) \in Nat
    BY <1>0, <2>6, Finite, OutNow, FS_EmptySet
  <2>8. req[p].out = Cardinality(Outstanding(p)) + Cardinality(Pending(p))
    BY <1>0, <2>2 DEF Counts
  <2>. QED BY <2>2, <2>7, <2>8
<1>. QED BY <1>1, <1>2, <1>3 DEF Line

(* What the end of a request changes of the others. *)
LEMMA EndedIs ==
    ASSUME TypeOK, Blank, Tree, NEW lr \in Ids, Live(lr)
    PROVE  /\ Ended(lr) \in [Ids -> Request]
           /\ CountedDown(lr) \subseteq Above[lr] /\ lr \notin Above[lr]
           /\ \A id \in Ids :
                 /\ Ended(lr)[id].hops = req[id].hops /\ Ended(lr)[id].parent = req[id].parent
                 /\ Ended(lr)[id].orig = req[id].orig /\ Ended(lr)[id].conn = req[id].conn
                 /\ Ended(lr)[id].kind = req[id].kind
                 /\ Ended(lr)[id].st = IF id = lr THEN "completed" ELSE req[id].st
                 /\ Ended(lr)[id].out = IF id \in CountedDown(lr) THEN req[id].out - 1 ELSE req[id].out
                 /\ id # lr /\ id \notin CountedDown(lr) => Ended(lr)[id] = req[id]
<1>1. CountedDown(lr) \subseteq Above[lr]
  BY DEF CountedDown
<1>2. lr \notin Above[lr]
  BY OnTheLine DEF LineOK, Ids
<1>3. \A id \in Ids : req[id] \in Request
  BY DEF TypeOK
<1>. DEFINE D == CountedDown(lr)
<1>4. Ended(lr) = [id \in Ids |->
        IF id = lr THEN [req[id] EXCEPT !.st = "completed"]
        ELSE IF id \in D THEN [req[id] EXCEPT !.out = @ - 1] ELSE req[id]]
  BY DEF Ended
<1>. HIDE DEF D
<1>5. lr \notin D
  BY <1>1, <1>2 DEF D
<1>6. \A id \in Ids : Ended(lr)[id] =
        IF id = lr THEN [req[id] EXCEPT !.st = "completed"]
        ELSE IF id \in D THEN [req[id] EXCEPT !.out = @ - 1] ELSE req[id]
  BY <1>4
<1>7. ASSUME NEW id \in Ids
      PROVE      /\ Ended(lr)[id] \in Request
                 /\ Ended(lr)[id].hops = req[id].hops /\ Ended(lr)[id].parent = req[id].parent
                 /\ Ended(lr)[id].orig = req[id].orig /\ Ended(lr)[id].conn = req[id].conn
                 /\ Ended(lr)[id].kind = req[id].kind
                 /\ Ended(lr)[id].st = IF id = lr THEN "completed" ELSE req[id].st
                 /\ Ended(lr)[id].out = IF id \in D THEN req[id].out - 1 ELSE req[id].out
  <2>1. CASE id = lr
    BY <1>3, <1>5, <1>6, <2>1 DEF Request
  <2>2. CASE id # lr /\ id \in D
    <3>1. PICK n \in Int : n = req[id].out - 1
      BY RequestIs
    <3>2. Ended(lr)[id] = [req[id] EXCEPT !.out = n]
      BY <1>6, <2>2, <3>1
    <3>. QED BY <1>3, <2>2, <3>1, <3>2 DEF Request
  <2>3. CASE id # lr /\ id \notin D
    BY <1>3, <1>5, <1>6, <2>3 DEF Request
  <2>. QED BY <2>1, <2>2, <2>3
<1>8. Ended(lr) \in [Ids -> Request]
  BY <1>4, <1>7
<1>. QED BY <1>1, <1>2, <1>6, <1>7, <1>8 DEF D

LEMMA EndedCount ==
    ASSUME IInv, session = "open", NEW lr, Ready(lr), NEW p \in Ids, Live(p)
    PROVE  Ended(lr)[p].out = Cardinality(OutIn(Ended(lr), moved3, p)) + Cardinality(Pending(p))
<1>. DEFINE r == Ended(lr)
            D == CountedDown(lr)
<1>0. /\ TypeOK /\ Blank /\ Tree /\ Counts /\ lr \in Ids /\ Live(lr)
      /\ req[lr].st # "completed" /\ lr \notin moved3
  BY DEF IInv, Core, Ready
<1>1. /\ LineOK(lr) /\ Line(lr) \subseteq Ids /\ lr \notin Above[lr] /\ D \subseteq Above[lr]
      /\ Above[lr] \subseteq Ids /\ \A c \in Line(lr) : Live(c)
  BY <1>0, OnTheLine, EndedIs DEF Line
<1>2. /\ \A c \in Ids : c \notin Line(lr) => r[c] = req[c]
      /\ \A c \in Ids : /\ r[c].parent = req[c].parent
                        /\ r[c].out = IF c \in D THEN req[c].out - 1 ELSE req[c].out
                        /\ r[c].st = IF c = lr THEN "completed" ELSE req[c].st
  BY <1>0, <1>1, EndedIs DEF Line
<1>3. req[p].out = Cardinality(OutIn(req, moved3, p)) + Cardinality(Pending(p))
  BY <1>0, OutNow DEF Counts
<1>4. p \in Nat \ {0} /\ \A c \in Ids : c \in Nat /\ req[c].out \in Int
  BY <1>0, IdsAre, RequestIs
<1>. HIDE DEF r, D
<1>5. CASE p \notin Above[lr]
  <2>1. \A c \in Ids : req[c].parent = p => r[c] = req[c]
    BY <1>1, <1>2, <1>4, <1>5 DEF LineOK
  <2>2. OutIn(r, moved3, p) = OutIn(req, moved3, p)
    BY <1>2, <2>1 DEF OutIn
  <2>3. r[p].out = req[p].out
    BY <1>1, <1>2, <1>5
  <2>. QED BY <1>3, <2>2, <2>3 DEF r
<1>6. CASE p \in Above[lr]
  <2>1. PICK c \in Line(lr) : req[c].parent = p
    BY <1>1, <1>6 DEF LineOK
  <2>2. c \in Ids /\ p < c /\ Live(c)
    BY <1>0, <1>1, <2>1, RisingOf DEF Rising
  <2>3. \A b \in Line(lr) : b > p => b >= c
    BY <1>1, <1>4, <2>1, <2>2 DEF LineOK
  <2>4. \A b \in Line(lr) : req[b].parent = p => b = c
    <3>. SUFFICES ASSUME NEW b \in Line(lr), req[b].parent = p PROVE b = c
      OBVIOUS
    <3>1. b \in Ids /\ p < b
      BY <1>0, <1>1, RisingOf DEF Rising
    <3>2. b >= c
      BY <2>3, <3>1, <1>4
    <3>3. ASSUME c < b PROVE FALSE
      <4>1. c <= req[b].parent
        BY <1>1, <2>1, <3>3 DEF LineOK
      <4>. QED BY <1>4, <2>2, <3>1, <4>1
    <3>. QED BY <1>4, <2>2, <3>1, <3>2, <3>3
  <2>5. \A b \in Ids : b # c /\ req[b].parent = p => r[b] = req[b]
    BY <1>2, <2>4
  <2>6. \A b \in Line(lr) : /\ b # lr => req[b].out >= 1
                            /\ req[b].parent # 0 => b \in OutIn(req, moved3, req[b].parent)
    <3>1. \A b \in Line(lr) : /\ b # lr => req[b].out >= 1
                              /\ req[b].parent # 0 => b \in Outstanding(req[b].parent)
      BY <1>0, Awaited
    <3>. QED BY <3>1, OutNow
  <2>7. /\ \A b \in Above[lr] : req[b].out >= 1
        /\ c # lr => c \in Above[lr] /\ c \in Ids
        /\ c \in OutIn(req, moved3, p)
    BY <1>1, <1>4, <2>1, <2>2, <2>6 DEF Line
  <2>8. CASE p \in D
    <3>1. c \notin OutIn(r, moved3, p)
      <4>1. CASE c = lr
        <5>1. req[lr].out = 0
          BY <1>4, <2>1, <4>1, NoneBelow
        <5>2. r[c].st = "completed" /\ r[c].out = 0
          BY <1>0, <1>1, <1>2, <4>1, <5>1
        <5>. QED BY <1>0, <4>1, <5>2 DEF OutIn
      <4>2. CASE c # lr
        <5>1. c \in Above[lr] /\ req[c].out <= 1 /\ c \in D
          <6>1. \A b \in Above[lr] : b > p => req[b].out <= 1
            BY <2>8 DEF D, CountedDown
          <6>2. \A b \in Above[lr] : b > c => b > p
            <7>1. \A b \in Above[lr] : b \in Nat
              BY <1>1, <1>4
            <7>. QED BY <1>4, <2>2, <7>1
          <6>. QED BY <1>4, <2>2, <2>7, <4>2, <6>1, <6>2 DEF D, CountedDown
        <5>2. r[c].out = 0 /\ r[c].st = req[c].st
          BY <1>2, <1>4, <2>2, <2>7, <4>2, <5>1
        <5>3. req[c].parent # 0 /\ Children(c) # {}
          <6>1. \E b \in Ids : Live(b) /\ req[b].parent = c
            BY <1>1, <5>1 DEF LineOK
          <6>. QED BY <1>4, <2>1, <6>1 DEF Children
        <5>4. c \notin moved3
          BY <2>2, <5>3 DEF IInv, Core, Barren
        <5>5. req[c].st = "completed"
          <6>1. stack # <<>> => 1 \in DOMAIN stack /\ Top = stack[1]
            BY <1>0, TopIs DEF TypeOK
          <6>2. ~(stack # <<>> /\ Top.st = "followed")
            BY <6>1 DEF Ready, InBind
          <6>. QED BY <2>2, <5>3, <6>2 DEF IInv, Core, Grown
        <5>. QED BY <2>2, <5>2, <5>4, <5>5 DEF OutIn
      <4>. QED BY <4>1, <4>2
    <3>2. OutIn(r, moved3, p) = OutIn(req, moved3, p) \ {c}
      BY <1>2, <2>5, <3>1 DEF OutIn
    <3>3. Cardinality(OutIn(r, moved3, p)) = Cardinality(OutIn(req, moved3, p)) - 1
      <4>1. IsFiniteSet(OutIn(req, moved3, p))
        BY <1>0, Finite
      <4>. QED BY <2>7, <3>2, <4>1, FS_RemoveElement
    <3>4. r[p].out = req[p].out - 1
      BY <1>2, <2>8
    <3>. QED BY <1>0, <1>3, <3>3, <3>4, Finite DEF r
  <2>9. CASE p \notin D
    <3>1. PICK b \in Above[lr] : b > p /\ ~(req[b].out <= 1)
      BY <1>6, <2>9 DEF D, CountedDown
    <3>2. b \in Ids /\ b \in Line(lr) /\ b >= c
      BY <1>1, <2>3, <3>1 DEF Line
    <3>3. b < lr
      BY <1>1 DEF LineOK
    <3>4. c # lr /\ c \in Above[lr]
      BY <1>0, <1>4, <2>1, <2>2, <3>2, <3>3 DEF Line
    <3>5. r[c].out >= 1
      <4>1. CASE c \in D
        <5>1. ~(b > c)
          BY <3>1, <4>1 DEF D, CountedDown
        <5>2. b = c
          BY <1>4, <2>2, <3>2, <5>1
        <5>. QED BY <1>2, <1>4, <2>2, <3>1, <4>1, <5>2
      <4>2. CASE c \notin D
        BY <1>2, <2>2, <2>7, <3>4, <4>2
      <4>. QED BY <4>1, <4>2
    <3>6. c \in OutIn(r, moved3, p)
      BY <1>2, <2>1, <2>2, <3>4, <3>5, <1>4 DEF OutIn, Live
    <3>7. OutIn(r, moved3, p) = OutIn(req, moved3, p)
      BY <1>2, <2>5, <2>7, <3>6 DEF OutIn
    <3>8. r[p].out = req[p].out
      BY <1>2, <2>9
    <3>. QED BY <1>3, <3>7, <3>8 DEF r
  <2>. QED BY <2>8, <2>9
<1>. QED BY <1>5, <1>6

-----------------------------------------------------------------------------
(* The chases that wait are the same after a step, but for d that were     *)
(* innermost and are over.                                                 *)
SameChases(d) ==
    /\ DOMAIN stack' = {k \in Nat \ {0} : k + d \in DOMAIN stack}
    /\ \A k \in DOMAIN stack' :
          /\ stack'[k].st \in InBind <=> stack[k + d].st \in InBind
          /\ stack'[k].lr = stack[k + d].lr /\ stack'[k].final = stack[k + d].final /\ stack'[k].v3 = stack[k + d].v3
          /\ stack'[k].st \in InBind => stack'[k].new = stack[k + d].new
    /\ d = 1 => Top.st \notin InBind

LEMMA SamePending ==
    ASSUME TypeOK, NEW d \in {0, 1}, d = 1 => stack # <<>>, SameChases(d),
           \A k \in DOMAIN stack' : stack'[k].st \in InBind => req'[stack'[k].lr].orig = req[stack'[k].lr].orig,
           NEW p
    PROVE  Cardinality(Pending(p)') = Cardinality(Pending(p))
<1>1. Pending(p)' = {k \in DOMAIN stack' : k + d \in Pending(p)}
  BY DEF SameChases, Pending, Parent, InBind
<1>2. Pending(p) \subseteq DOMAIN stack /\ DOMAIN stack \subseteq Nat \ {0} /\ IsFiniteSet(Pending(p))
  <2>1. IsFiniteSet(Pending(p))
    BY Finite
  <2>2. DOMAIN stack = 1..Len(stack) /\ Len(stack) \in Nat
    BY DEF TypeOK
  <2>3. Pending(p) \subseteq DOMAIN stack
    BY DEF Pending
  <2>. QED BY <2>1, <2>2, <2>3
<1>3. CASE d = 0
  <2>1. Pending(p)' = Pending(p)
    BY <1>1, <1>2, <1>3 DEF SameChases
  <2>. QED BY <2>1
<1>4. CASE d = 1
  <2>1. 1 \notin Pending(p)
    BY <1>4, TopIs DEF Pending, InBind, SameChases, TypeOK
  <2>2. \A k \in Pending(p) : k - 1 \in Pending(p)' /\ k = (k - 1) + 1
    BY <1>1, <1>2, <1>4, <2>1 DEF SameChases
  <2>3. \A k \in Pending(p)' : k + 1 \in Pending(p) /\ k \in Nat
    BY <1>1, <1>2, <1>4
  <2>4. Pending(p) = {k + 1 : k \in Pending(p)'}
    BY <2>2, <2>3
  <2>5. IsFiniteSet(Pending(p)')
    <3>1. Len(stack) \in Nat /\ DOMAIN stack = 1..Len(stack)
      BY DEF TypeOK
    <3>2. Pending(p)' \subseteq 1..Len(stack)
      <4>1. \A k \in Pending(p)' : k + 1 \in 1..Len(stack) /\ k \in Nat \ {0}
        BY <1>1, <1>2, <2>3, <3>1 DEF SameChases
      <4>2. \A k \in Nat \ {0} : k + 1 \in 1..Len(stack) => k \in 1..Len(stack)
        BY <3>1
      <4>. QED BY <4>1, <4>2
    <3>3. IsFiniteSet(1..Len(stack))
      BY <3>1, FS_Interval
    <3>. QED BY <3>2, <3>3, FS_Subset
  <2>6. Pending(p)' \subseteq Nat
    BY <2>3
  <2>. QED BY <2>4, <2>5, <2>6, ShiftCard
<1>. QED BY <1>3, <1>4

LEMMA FinishIs ==
    ASSUME IInv, session = "open", NEW lr, Ready(lr), Finish(lr)
    PROVE  /\ req' \in [Ids -> Request] /\ conn' \in [Servers -> Connection]
           /\ asked' \in [Servers -> SUBSET Ids] /\ finals' \in [Ids -> Nat] /\ unread' \subseteq Ids
           /\ \A s \in Servers : asked'[s] \subseteq asked[s]
           /\ lr \notin asked'[req[lr].conn]
           /\ \E G \in SUBSET Ids :
                 /\ \A id \in Ids : req'[id] = IF id \in G THEN NoRequest ELSE Ended(lr)[id]
                 /\ \A a, b \in Ids : Live(a) /\ Live(b) /\ req[a].orig = req[b].orig => (a \in G <=> b \in G)
                 /\ \A id \in G : Live(id)
                 /\ \A k \in DOMAIN stack : stack[k].st \in InBind => stack[k].lr \notin G
<1>. DEFINE r   == Ended(lr)
            top == Reached(lr)
            s   == req[lr].conn
            cs  == Dropped(conn, s, 1)
            G   == IF AllDone(r, top) THEN Family(top) ELSE {}
<1>0. /\ TypeOK /\ Blank /\ Tree /\ LrHeld /\ Finals /\ Counts /\ lr \in Ids /\ Live(lr) /\ s \in Servers
  BY RequestIs DEF IInv, Core, Ready
<1>1. /\ req' = IF AllDone(r, top) THEN Freed(r, top) ELSE r
      /\ \/ /\ finals' = [finals EXCEPT ![top] = @ + 1] /\ (unread' = unread \cup {top} \/ unread' = unread)
         \/ finals' = finals /\ unread' = unread
      /\ conn' = cs
      /\ asked' = [StillAsked(cs) EXCEPT ![s] = @ \ {lr}]
  BY DEF Finish, Deliver
<1>2. top \in CountedDown(lr) \cup {lr} /\ top \in Ids
  <2>1. CountedDown(lr) \cup {lr} \subseteq Ids /\ Ids \subseteq Nat
    BY <1>0, EndedIs, OnTheLine, IdsAre DEF LineOK
  <2>2. \E a \in CountedDown(lr) \cup {lr} : \A b \in CountedDown(lr) \cup {lr} : a <= b
    <3>. DEFINE T == CountedDown(lr) \cup {lr}
    <3>1. T \subseteq Nat /\ T # {}
      BY <2>1
    <3>. HIDE DEF T
    <3>2. \E a \in T : \A b \in T : a <= b
      BY <3>1, Least
    <3>. QED BY <3>2 DEF T
  <2>. QED BY <2>1, <2>2 DEF Reached
<1>3. conn' \in [Servers -> Connection]
  <2>1. conn[s] \in Connection /\ conn \in [Servers -> Connection]
    BY <1>0 DEF TypeOK
  <2>2. NoConnection \in Connection /\ \A q \in Seq(QueuedList) : q \in Seq(QueuedList)
    BY DEF NoConnection, Connection
  <2>3. PICK n \in Int : n = conn[s].refcnt - 1
    BY <2>1 DEF Connection
  <2>4. [conn[s] EXCEPT !.refcnt = n] \in Connection
    BY <2>1, <2>3 DEF Connection
  <2>5. cs = IF n <= 0 THEN [conn EXCEPT ![s] = NoConnection] ELSE [conn EXCEPT ![s] = [conn[s] EXCEPT !.refcnt = n]]
    BY <2>1, <2>3 DEF Dropped
  <2>. QED BY <1>1, <2>1, <2>2, <2>4, <2>5
<1>4. /\ asked' \in [Servers -> SUBSET Ids]
      /\ \A x \in Servers : asked'[x] \subseteq asked[x]
      /\ lr \notin asked'[s]
  <2>1. asked \in [Servers -> SUBSET Ids]
    BY <1>0 DEF TypeOK
  <2>2. /\ StillAsked(cs) \in [Servers -> SUBSET Ids]
        /\ \A x \in Servers : StillAsked(cs)[x] \subseteq asked[x]
    BY <2>1 DEF StillAsked
  <2>. HIDE DEF cs, s
  <2>. QED BY <1>0, <1>1, <2>2
<1>5. finals' \in [Ids -> Nat] /\ unread' \subseteq Ids
  <2>1. finals \in [Ids -> Nat] /\ unread \subseteq Ids
    BY <1>0 DEF TypeOK
  <2>. HIDE DEF top
  <2>2. finals[top] + 1 \in Nat
    BY <1>2, <2>1
  <2>. QED BY <1>1, <1>2, <2>1, <2>2
<1>6. G \in SUBSET Ids /\ \A id \in G : Live(id)
  BY DEF Family
<1>7. \A id \in Ids : req'[id] = IF id \in G THEN NoRequest ELSE r[id]
  BY <1>0, <1>1, EndedIs DEF Freed
<1>8. req' \in [Ids -> Request]
  <2>1. r \in [Ids -> Request] /\ NoRequest \in Request
    BY <1>0, EndedIs, ServersAssumption DEF NoRequest, Request
  <2>2. DOMAIN req' = Ids /\ req' = [id \in Ids |-> req'[id]]
    BY <1>1, <2>1 DEF Freed
  <2>. HIDE DEF G, r
  <2>. QED BY <1>7, <2>1, <2>2
<1>9. \A a, b \in Ids : Live(a) /\ Live(b) /\ req[a].orig = req[b].orig => (a \in G <=> b \in G)
  BY DEF Family
<1>10. ASSUME NEW k \in DOMAIN stack, stack[k].st \in InBind, stack[k].lr \in G
       PROVE  FALSE
  <2>. DEFINE l == stack[k].lr
  <2>1. AllDone(r, top) /\ l \in Family(top) /\ l \in Ids /\ Live(l)
    BY <1>0, <1>10 DEF Family
  <2>2. r[l].st = "completed" /\ r[top].out <= 0 /\ req[l].orig = top
    BY <2>1 DEF AllDone, Family
  <2>3. CASE ~stack[k].v3
    <3>1. req[l].st # "completed" /\ l # lr
      BY <1>0, <1>10, <2>3 DEF Finals, Ready
    <3>. QED BY <1>0, <2>1, <2>2, <3>1, EndedIs
  <2>4. CASE stack[k].v3
    <3>1. Live(top) /\ k \in Pending(top)
      BY <1>0, <1>10, <2>1, <2>2, <2>4 DEF Pending, Parent, Tree, Placed, InBind
    <3>2. Cardinality(Pending(top)) \in Nat /\ Cardinality(Pending(top)) # 0
          /\ Cardinality(OutIn(r, moved3, top)) \in Nat
      BY <1>0, <3>1, Finite, FS_EmptySet
    <3>3. r[top].out = Cardinality(OutIn(r, moved3, top)) + Cardinality(Pending(top))
      BY <1>2, <3>1, EndedCount
    <3>. QED BY <2>2, <3>2, <3>3
  <2>. QED BY <2>1, <2>3, <2>4
<1>. HIDE DEF G
<1>. QED BY <1>3, <1>4, <1>5, <1>6, <1>7, <1>8, <1>9, <1>10

-----------------------------------------------------------------------------
(* What a step changes of the requests: the families in G are freed, those *)
(* in N are new, those in C complete or get new children no more.          *)
Changes(G, N, C) ==
    /\ ld_version' = ld_version /\ ld_msgid' \in Nat /\ ld_msgid' >= ld_msgid
    /\ req' \in [Ids -> Request]
    /\ G \subseteq Ids /\ N \subseteq Ids /\ C \subseteq Ids
    /\ \A id \in G : Live(id) /\ req'[id] = NoRequest
    /\ \A a, b \in Ids : Live(a) /\ Live(b) /\ req[a].orig = req[b].orig => (a \in G <=> b \in G)
    /\ \A n \in N : /\ ~Live(n) /\ n <= ld_msgid' /\ n \notin moved'
                    /\ Live(n)' /\ Placed(n)' /\ req'[n].st # "completed" /\ req'[n].parent \notin N
                    /\ LET p == req'[n].parent
                       IN  p # 0 /\ req[p].parent # 0 => ~Unanswered(p) /\ p \notin moved3'
    /\ \A id \in Ids : id \notin G /\ id \notin N =>
          /\ req'[id].parent = req[id].parent /\ req'[id].orig = req[id].orig
          /\ req'[id].kind = req[id].kind /\ req'[id].conn = req[id].conn
          /\ req'[id].st = "free" <=> req[id].st = "free"
          /\ req[id].st = "free" => req'[id] = req[id]
          /\ id \notin C /\ req'[id].st = "completed" => req[id].st = "completed"
          /\ req[id].st = "completed" => req'[id].st = "completed"
    /\ \A s \in Servers : \A id \in asked'[s] : id \in asked[s] \/ id \in N
    /\ \A id \in C : Live(id) /\ id \notin asked'[req[id].conn]
    /\ \A id \in moved' : id \in moved \/ id \in C
    /\ moved3' \subseteq moved'
    /\ \A id \in moved3' : id \in moved3 \/ (id \in C /\ req'[id].st = "completed"
                               /\ (req[id].parent # 0 => Children(id) = {}))

LEMMA TreeThen ==
    ASSUME IInv, session = "open", NEW G, NEW N, NEW C, Changes(G, N, C)
    PROVE  Blank' /\ Drawn' /\ Tree' /\ Open' /\ Barren'
<1>0. TypeOK /\ Blank /\ Drawn /\ Tree /\ Open /\ Barren /\ ld_msgid \in Nat /\ Ids \subseteq Nat
  BY IdsAre DEF IInv, Core, TypeOK
<1>1. ASSUME NEW id \in Ids, Live(id)', id \notin N
      PROVE  Live(id) /\ id \notin G
  BY <1>1 DEF Changes, Live, NoRequest
<1>2. Blank'
  <2>1. ASSUME NEW id \in Ids, ~Live(id)' PROVE req'[id] = NoRequest
    <3>1. id \notin N
      BY <2>1 DEF Changes
    <3>2. CASE id \in G
      BY <3>2 DEF Changes
    <3>3. CASE id \notin G
      BY <1>0, <2>1, <3>1, <3>3 DEF Changes, Live, Blank
    <3>. QED BY <3>2, <3>3
  <2>. QED BY <2>1 DEF Blank
<1>3. Drawn'
  <2>1. ASSUME NEW id \in Ids, Live(id)' PROVE id <= ld_msgid'
    <3>1. CASE id \in N
      BY <3>1 DEF Changes
    <3>2. CASE id \notin N
      <4>1. id <= ld_msgid
        BY <1>0, <1>1, <2>1, <3>2 DEF Drawn
      <4>. QED BY <1>0, <4>1 DEF Changes
    <3>. QED BY <3>1, <3>2
  <2>2. ASSUME NEW id \in moved' PROVE id <= ld_msgid'
    <3>1. id \in Ids /\ id <= ld_msgid
      BY <1>0, <2>2 DEF Changes, Drawn, TypeOK
    <3>. QED BY <1>0, <3>1 DEF Changes
  <2>. QED BY <2>1, <2>2 DEF Drawn
<1>4. ASSUME NEW id \in Ids, Live(id), id \notin G
      PROVE  /\ id \notin N /\ Live(id)'
             /\ req'[id].parent = req[id].parent /\ req'[id].orig = req[id].orig
             /\ req'[id].kind = req[id].kind /\ req'[id].conn = req[id].conn
  BY <1>4 DEF Changes, Live
<1>5. Tree'
  <2>. SUFFICES ASSUME NEW id \in Ids, Live(id)' PROVE Placed(id)'
    BY DEF Tree
  <2>1. CASE id \in N
    BY <2>1 DEF Changes
  <2>2. CASE id \notin N
    <3>1. Live(id) /\ id \notin G /\ Placed(id)
      BY <1>0, <1>1, <2>2 DEF Tree
    <3>2. PICK o \in Ids : o = req[id].orig /\ Live(o) /\ IsRoot(o) /\ req[o].kind = req[id].kind /\ o <= id
      BY <3>1 DEF Placed
    <3>3. o \notin G
      BY <3>1, <3>2 DEF Changes, IsRoot
    <3>4. IsRoot(o)' /\ Live(o)' /\ req'[o].kind = req[o].kind
      BY <1>4, <3>2, <3>3 DEF IsRoot
    <3>5. req'[id].orig = o /\ req'[id].parent = req[id].parent /\ req'[id].kind = req[id].kind
      BY <1>4, <3>1, <3>2
    <3>6. CASE IsRoot(id)
      <4>1. IsRoot(id)'
        BY <3>2, <3>5, <3>6 DEF IsRoot
      <4>. QED BY <3>2, <3>4, <3>5, <4>1 DEF Placed, IsRoot, Live
    <3>7. CASE IsChild(id)
      <4>1. PICK p \in Ids : /\ p = req[id].parent /\ Live(p) /\ p < id /\ req[p].orig = o
                             /\ req[id].kind = "op"
        BY <3>2, <3>7 DEF IsChild
      <4>2. p \notin G
        BY <3>1, <3>2, <4>1 DEF Changes
      <4>3. Live(p)' /\ req'[p].orig = o
        BY <1>4, <4>1, <4>2
      <4>4. IsChild(id)'
        BY <3>5, <4>1, <4>3 DEF IsChild, Live
      <4>. QED BY <3>2, <3>4, <3>5, <4>4 DEF Placed, IsRoot, Live
    <3>. QED BY <3>1, <3>6, <3>7 DEF Placed
  <2>. QED BY <2>1, <2>2
<1>6. Open'
  <2>. SUFFICES ASSUME NEW id \in Ids, Live(id)', Unanswered(id)'
                PROVE  /\ req'[id].st # "completed" /\ id \notin moved'
                       /\ req'[id].parent # 0 => Children(id)' = {}
    BY DEF Open
  <2>0. req'[id].conn \in Servers /\ id \in asked'[req'[id].conn] /\ id > 0
    BY IdsAre DEF Changes, Request, Unanswered
  <2>1. CASE id \in N
    <3>1. ASSUME NEW c \in Children(id)' PROVE FALSE
      <4>1. c \in Ids /\ Live(c)' /\ req'[c].parent = id /\ ~Live(id)
        BY <2>1 DEF Children, Changes
      <4>2. CASE c \in N
        BY <2>1, <4>1, <4>2 DEF Changes
      <4>3. CASE c \notin N
        <5>1. Live(c) /\ c \notin G /\ req[c].parent = id
          BY <1>1, <1>4, <4>1, <4>3
        <5>. QED BY <1>0, <2>0, <4>1, <5>1 DEF Tree, Placed, IsRoot, IsChild
      <4>. QED BY <4>2, <4>3
    <3>. QED BY <2>1, <3>1 DEF Changes
  <2>2. CASE id \notin N
    <3>1. Live(id) /\ id \notin G /\ req'[id].conn = req[id].conn
      BY <1>1, <1>4, <2>2
    <3>2. Unanswered(id) /\ id \in asked'[req[id].conn]
      BY <2>0, <2>2, <3>1 DEF Changes, Unanswered
    <3>3. id \notin C
      BY <3>2 DEF Changes
    <3>4. /\ req[id].st # "completed" /\ id \notin moved
          /\ req[id].parent # 0 => Children(id) = {}
      BY <1>0, <3>1, <3>2 DEF Open
    <3>5. req'[id].st # "completed" /\ id \notin moved' /\ req'[id].parent = req[id].parent
      BY <2>2, <3>1, <3>3, <3>4 DEF Changes
    <3>6. ASSUME req[id].parent # 0, NEW c \in Children(id)' PROVE FALSE
      <4>1. c \in Ids /\ Live(c)' /\ req'[c].parent = id
        BY DEF Children
      <4>2. CASE c \in N
        BY <2>0, <3>2, <3>6, <4>1, <4>2 DEF Changes
      <4>3. CASE c \notin N
        <5>1. Live(c) /\ req[c].parent = id
          BY <1>1, <1>4, <4>1, <4>3
        <5>. QED BY <3>4, <3>6, <4>1, <5>1 DEF Children
      <4>. QED BY <4>2, <4>3
    <3>. QED BY <3>5, <3>6
  <2>. QED BY <2>1, <2>2
<1>7. Barren'
  <2>0. \A id \in moved3' : id \in moved3 \/ (req'[id].st = "completed"
                               /\ (req[id].parent # 0 => Children(id) = {}))
    BY DEF Changes
  <2>1. moved3' \subseteq moved'
    BY DEF Changes
  <2>2. ASSUME NEW id \in moved3', Live(id)'
        PROVE  req'[id].st = "completed" /\ (req'[id].parent # 0 => Children(id)' = {})
    <3>1. id \in Ids /\ id \notin N
      BY <1>0, <2>2 DEF Changes, TypeOK
    <3>2. Live(id) /\ id \notin G
      BY <1>1, <2>2, <3>1
    <3>3. req'[id].parent = req[id].parent
      BY <1>4, <3>1, <3>2
    <3>4. req'[id].st = "completed" /\ (req[id].parent # 0 => Children(id) = {})
      <4>1. CASE id \in moved3
        <5>1. req[id].st = "completed" /\ (req[id].parent # 0 => Children(id) = {})
          BY <1>0, <3>2, <4>1 DEF Barren
        <5>. QED BY <3>1, <3>2, <5>1 DEF Changes
      <4>2. CASE id \notin moved3
        BY <2>0, <2>2, <4>2
      <4>. QED BY <4>1, <4>2
    <3>5. ASSUME req[id].parent # 0, NEW c \in Children(id)' PROVE FALSE
      <4>1. c \in Ids /\ Live(c)' /\ req'[c].parent = id /\ id > 0
        BY <3>1, IdsAre DEF Children
      <4>2. CASE c \in N
        BY <2>2, <3>5, <4>1, <4>2 DEF Changes
      <4>3. CASE c \notin N
        <5>1. Live(c) /\ req[c].parent = id
          BY <1>1, <1>4, <4>1, <4>3
        <5>. QED BY <3>4, <3>5, <4>1, <5>1 DEF Children
      <4>. QED BY <4>2, <4>3
    <3>. QED BY <3>3, <3>4, <3>5
  <2>. QED BY <2>1, <2>2 DEF Barren
<1>. QED BY <1>2, <1>3, <1>5, <1>6, <1>7

(* The chases go on, but for d that were innermost and are over.           *)
Kept(d) ==
    /\ d \in {0, 1} /\ (d = 1 => stack # <<>>)
    /\ DOMAIN stack' = {k \in Nat \ {0} : k + d \in DOMAIN stack}
    /\ \A k \in DOMAIN stack' :
          /\ stack'[k].lr = stack[k + d].lr /\ stack'[k].final = stack[k + d].final /\ stack'[k].v3 = stack[k + d].v3
          /\ k > 1 /\ stack[k + d].st \in InBind => stack'[k].st \in InBind

(* None of them has begun a bind. *)
Known(d) ==
    \A k \in DOMAIN stack' :
        stack'[k].st \in InBind => stack[k + d].st \in InBind /\ stack'[k].new = stack[k + d].new

LEMMA Unmoved ==
    ASSUME stack \in Seq(Chase), DOMAIN stack' = DOMAIN stack,
           \A k \in DOMAIN stack :
              /\ stack'[k].lr = stack[k].lr /\ stack'[k].final = stack[k].final /\ stack'[k].v3 = stack[k].v3
              /\ stack'[k].st \in InBind => stack[k].st \in InBind /\ stack'[k].new = stack[k].new
              /\ k > 1 /\ stack[k].st \in InBind => stack'[k].st \in InBind
    PROVE  /\ Kept(0) /\ Known(0)
           /\ (\A k \in DOMAIN stack : stack[k].st \in InBind => stack'[k].st \in InBind) => SameChases(0)
<1>1. DOMAIN stack \subseteq Nat \ {0} /\ \A k \in Nat : k + 0 = k
  OBVIOUS
<1>2. DOMAIN stack' = {k \in Nat \ {0} : k + 0 \in DOMAIN stack}
  BY <1>1
<1>3. \A k \in DOMAIN stack' : k \in DOMAIN stack /\ k + 0 = k
  BY <1>1
<1>4. Kept(0) /\ Known(0)
  <2>1. 0 # 1
    OBVIOUS
  <2>. QED BY <1>2, <1>3, <2>1, Zenon DEF Kept, Known
<1>5. (\A k \in DOMAIN stack : stack[k].st \in InBind => stack'[k].st \in InBind) => SameChases(0)
  <2>1. 0 # 1
    OBVIOUS
  <2>. QED BY <1>2, <1>3, <2>1, Zenon DEF SameChases
<1>. QED BY <1>4, <1>5

LEMMA FramesThen ==
    ASSUME IInv, session = "open", NEW G, NEW N, NEW C, Changes(G, N, C), NEW d, Kept(d),
           \A k \in DOMAIN stack' :
              /\ stack'[k].lr \notin G
              /\ stack'[k].final => stack'[k].lr \notin C
    PROVE  /\ Nested' /\ LrHeld' /\ Finals'
           /\ (/\ Known(d)
               /\ \A k \in DOMAIN stack' : stack'[k].st \in InBind => stack'[k].new \notin N)
              => NewIds'
<1>0. /\ TypeOK /\ Nested /\ LrHeld /\ NewIds /\ Finals /\ ld_msgid \in Nat
      /\ \A k \in DOMAIN stack : k \in Nat \ {0} /\ stack[k].lr \in Ids
      /\ \A k \in DOMAIN stack' : k \in Nat \ {0} /\ k + d \in DOMAIN stack /\ k + d \in Nat
      /\ d \in Nat
  <2>1. TypeOK /\ Nested /\ LrHeld /\ NewIds /\ Finals /\ ld_msgid \in Nat
    BY DEF IInv, Core, TypeOK
  <2>2. stack \in Seq(Chase)
    BY <2>1 DEF TypeOK
  <2>3. \A k \in DOMAIN stack : k \in Nat \ {0} /\ stack[k] \in Chase
    BY <2>2
  <2>4. \A k \in DOMAIN stack : stack[k].lr \in Ids
    BY <2>3 DEF Chase
  <2>. QED BY <2>1, <2>3, <2>4 DEF Kept
<1>1. ASSUME NEW k \in DOMAIN stack'
      PROVE  \E l \in Ids :
                /\ l = stack'[k].lr /\ l = stack[k + d].lr /\ Live(l) /\ l \notin G /\ l \notin N
                /\ Live(l)' /\ req'[l].kind = "op"
                /\ req'[l].st = "completed" => req[l].st = "completed" \/ l \in C
                /\ Unanswered(l)' => Unanswered(l)
  <2>1. PICK l \in Ids : l = stack'[k].lr /\ l = stack[k + d].lr /\ l \notin G
    BY <1>0 DEF Kept
  <2>2. Live(l) /\ req[l].kind = "op"
    BY <1>0, <2>1 DEF LrHeld
  <2>3. l \notin N
    BY <2>2 DEF Changes
  <2>4. /\ Live(l)' /\ req'[l].kind = "op" /\ req'[l].conn = req[l].conn
        /\ req'[l].st = "completed" => req[l].st = "completed" \/ l \in C
    BY <2>1, <2>2, <2>3 DEF Changes, Live
  <2>5. Unanswered(l)' => Unanswered(l)
    <3>1. req[l].conn \in Servers
      BY <1>0, <2>1, RequestIs
    <3>. QED BY <2>3, <2>4, <3>1 DEF Unanswered, Changes
  <2>. QED BY <2>1, <2>2, <2>3, <2>4, <2>5
<1>2. Nested'
  <2>1. ASSUME NEW k \in DOMAIN stack', k > 1 PROVE stack'[k].st \in InBind
    <3>1. k + d \in DOMAIN stack /\ k + d > 1
      BY <1>0, <2>1
    <3>2. stack[k + d].st \in InBind
      BY <1>0, <3>1 DEF Nested
    <3>. QED BY <2>1, <3>2 DEF Kept
  <2>. QED BY <2>1 DEF Nested
<1>3. LrHeld'
  BY <1>1 DEF LrHeld, Live
<1>4. ASSUME Known(d), \A k \in DOMAIN stack' : stack'[k].st \in InBind => stack'[k].new \notin N
      PROVE  NewIds'
  <2>. SUFFICES ASSUME NEW k \in DOMAIN stack', stack'[k].st \in InBind
                PROVE  /\ stack'[k].new \in Ids /\ stack'[k].lr < stack'[k].new /\ stack'[k].new <= ld_msgid'
                       /\ req'[stack'[k].new].st = "free" /\ stack'[k].new \notin moved'
                       /\ \A j \in DOMAIN stack' : j # k /\ stack'[j].st \in InBind => stack'[j].new # stack'[k].new
    BY DEF NewIds, Live
  <2>1. PICK n : /\ k + d \in DOMAIN stack /\ stack[k + d].st \in InBind
                 /\ n = stack[k + d].new /\ stack'[k].new = n /\ n \notin N
                 /\ stack'[k].lr = stack[k + d].lr
    BY <1>0, <1>4 DEF Kept, Known
  <2>2. n \in Ids /\ stack[k + d].lr < n /\ n <= ld_msgid /\ ~Live(n) /\ n \notin moved
    BY <1>0, <2>1 DEF NewIds
  <2>3. n <= ld_msgid'
    BY <1>0, <2>2, IdsAre DEF Changes
  <2>4. ~Live(n)' /\ n \notin moved'
    BY <2>1, <2>2 DEF Changes, Live
  <2>5. ASSUME NEW j \in DOMAIN stack', j # k, stack'[j].st \in InBind PROVE stack'[j].new # n
    <3>1. j + d \in DOMAIN stack /\ stack[j + d].st \in InBind /\ stack'[j].new = stack[j + d].new
          /\ j + d # k + d
      BY <1>0, <1>4, <2>5 DEF Kept, Known
    <3>. QED BY <1>0, <2>1, <3>1 DEF NewIds
  <2>. QED BY <2>1, <2>2, <2>3, <2>4, <2>5 DEF Live
<1>5. Finals'
  <2>. SUFFICES ASSUME NEW k \in DOMAIN stack'
                PROVE  /\ stack'[k].v3 \/ stack'[k].final
                       /\ stack'[k].final =>
                             /\ req'[stack'[k].lr].st # "completed"
                             /\ stack'[k].lr \notin asked'[req'[stack'[k].lr].conn]
                             /\ \A j \in DOMAIN stack' : j # k /\ stack'[j].final => stack'[j].lr # stack'[k].lr
    BY DEF Finals, Unanswered
  <2>1. k + d \in DOMAIN stack /\ stack'[k].final = stack[k + d].final /\ stack'[k].v3 = stack[k + d].v3 /\ stack'[k].lr = stack[k + d].lr
    BY <1>0 DEF Kept
  <2>2. stack'[k].v3 \/ stack'[k].final
    BY <1>0, <2>1 DEF Finals
  <2>3. ASSUME stack'[k].final
        PROVE  /\ req'[stack'[k].lr].st # "completed"
               /\ stack'[k].lr \notin asked'[req'[stack'[k].lr].conn]
    <3>1. PICK l \in Ids : /\ l = stack'[k].lr /\ l = stack[k + d].lr
                           /\ req'[l].st = "completed" => req[l].st = "completed" \/ l \in C
                           /\ Unanswered(l)' => Unanswered(l)
      BY <1>1
    <3>2. req[l].st # "completed" /\ ~Unanswered(l)
      BY <1>0, <2>1, <2>3, <3>1 DEF Finals
    <3>. QED BY <2>3, <3>1, <3>2 DEF Unanswered
  <2>4. ASSUME stack'[k].final, NEW j \in DOMAIN stack', j # k, stack'[j].final
        PROVE  stack'[j].lr # stack'[k].lr
    <3>1. j + d \in DOMAIN stack /\ stack[j + d].final /\ stack'[j].lr = stack[j + d].lr /\ j + d # k + d
      BY <1>0, <2>4 DEF Kept
    <3>. QED BY <1>0, <2>1, <2>4, <3>1 DEF Finals
  <2>. QED BY <2>2, <2>3, <2>4
<1>. QED BY <1>2, <1>3, <1>4, <1>5

-----------------------------------------------------------------------------
(* The steps that end a request. *)
LEMMA FinishThen ==
    ASSUME IInv, session = "open", NEW lr, Ready(lr), Finish(lr),
           UNCHANGED <<ld_version, ld_msgid, moved, moved3>>, NEW d, Kept(d), SameChases(d),
           stack' \in Seq(Chase), \A k \in DOMAIN stack' : stack'[k].st \in InBind
    PROVE  Core'
<1>0. /\ TypeOK /\ Blank /\ Tree /\ Counts /\ lr \in Ids /\ Live(lr) /\ ld_msgid \in Nat
      /\ \A id \in Ids : id > 0 /\ id \in Nat
  BY IdsAre DEF IInv, Core, Ready, TypeOK
<1>1. /\ req' \in [Ids -> Request] /\ asked' \in [Servers -> SUBSET Ids]
      /\ \A s \in Servers : asked'[s] \subseteq asked[s]
      /\ lr \notin asked'[req[lr].conn]
  BY FinishIs
<1>2. PICK G \in SUBSET Ids :
         /\ \A id \in Ids : req'[id] = IF id \in G THEN NoRequest ELSE Ended(lr)[id]
         /\ \A a, b \in Ids : Live(a) /\ Live(b) /\ req[a].orig = req[b].orig => (a \in G <=> b \in G)
         /\ \A id \in G : Live(id)
         /\ \A k \in DOMAIN stack : stack[k].st \in InBind => stack[k].lr \notin G
  BY FinishIs
<1>3. \A id \in Ids : id \notin G =>
         /\ req'[id] = Ended(lr)[id]
         /\ req'[id].hops = req[id].hops /\ req'[id].parent = req[id].parent
         /\ req'[id].orig = req[id].orig /\ req'[id].conn = req[id].conn
         /\ req'[id].kind = req[id].kind
         /\ req'[id].st = IF id = lr THEN "completed" ELSE req[id].st
         /\ req[id].st = "free" => req'[id] = req[id]
  <2>1. ASSUME NEW id \in Ids, req[id].st = "free"
        PROVE  Ended(lr)[id] = req[id]
    <3>1. \A a \in Line(lr) : Live(a)
      BY <1>0, OnTheLine
    <3>2. id # lr /\ id \notin CountedDown(lr)
      BY <1>0, <2>1, <3>1, EndedIs DEF Line, Live
    <3>. QED BY <1>0, <3>2, EndedIs
  <2>. QED BY <1>0, <1>2, <2>1, EndedIs
<1>4. Changes(G, {}, {lr})
  <2>1. moved3' = moved3 /\ moved3 \subseteq moved
    BY DEF IInv, Core, Barren
  <2>. QED BY <1>0, <1>1, <1>2, <1>3, <2>1 DEF Changes, Live, Ready
<1>5. Blank' /\ Drawn' /\ Tree' /\ Open' /\ Barren'
  BY <1>4, TreeThen
<1>6. ASSUME NEW k \in DOMAIN stack'
      PROVE  /\ k + d \in DOMAIN stack /\ stack[k + d].st \in InBind /\ stack'[k].lr = stack[k + d].lr
             /\ stack'[k].lr \in Ids /\ stack'[k].lr \notin G
             /\ stack'[k].final => stack'[k].lr # lr
             /\ req'[stack'[k].lr].orig = req[stack'[k].lr].orig
  <2>1. k + d \in DOMAIN stack /\ stack[k + d].st \in InBind /\ stack'[k].lr = stack[k + d].lr
        /\ stack'[k].final = stack[k + d].final /\ stack'[k].v3 = stack[k + d].v3
    BY DEF SameChases
  <2>2. stack[k + d].lr \in Ids
    <3>1. stack \in Seq(Chase)
      BY <1>0 DEF TypeOK
    <3>2. stack[k + d] \in Chase
      BY <2>1, <3>1
    <3>. QED BY <3>2 DEF Chase
  <2>. QED BY <1>2, <1>3, <2>1, <2>2 DEF Ready
<1>7. Nested' /\ LrHeld' /\ NewIds' /\ Finals'
  <2>1. Known(d)
    BY DEF Kept, Known, SameChases
  <2>. QED BY <1>4, <1>6, <2>1, FramesThen
<1>8. Grown'
  <2>1. ~(stack # <<>> /\ Top.st = "followed")
    BY <1>0, TopIs DEF Ready, InBind, TypeOK
  <2>2. ASSUME NEW id \in Ids, Live(id)', req'[id].parent # 0, NEW c \in Children(id)'
        PROVE  req'[id].st = "completed"
    <3>1. c \in Ids /\ Live(c)' /\ req'[c].parent = id
      BY DEF Children
    <3>2. c \notin G /\ id \notin G
      BY <1>2, <2>2, <3>1 DEF Live, NoRequest
    <3>3. Live(id) /\ Live(c) /\ req[c].parent = id /\ req[id].parent # 0
      BY <1>2, <1>3, <2>2, <3>1, <3>2 DEF Live
    <3>4. req[id].st = "completed"
      BY <2>1, <2>2, <3>1, <3>3 DEF IInv, Core, Grown, Children
    <3>. QED BY <1>3, <3>2, <3>4
  <2>. QED BY <2>2 DEF Grown
<1>9. Followed'
  <2>1. stack' # <<>> => Top' = stack'[1] /\ 1 \in DOMAIN stack'
    BY DEF Top
  <2>. QED BY <2>1 DEF Followed, InBind
<1>10. Counts'
  <2>. SUFFICES ASSUME NEW p \in Ids, Live(p)'
                PROVE  req'[p].out = Cardinality(Outstanding(p)') + Cardinality(Pending(p)')
    BY DEF Counts
  <2>1. p \notin G /\ Live(p) /\ req'[p] = Ended(lr)[p]
    BY <1>2, <1>3 DEF Live, NoRequest
  <2>2. OutIn(req', moved3', p) = OutIn(Ended(lr), moved3, p)
    <3>1. ASSUME NEW c \in Ids, c \in G
          PROVE  req'[c].st = "free" /\ Ended(lr)[c].parent # p
      <4>1. Live(c) /\ req'[c].st = "free" /\ Placed(c)
        BY <1>0, <1>2, <3>1 DEF NoRequest, Tree
      <4>2. req[c].parent = p => req[c].orig = req[p].orig
        BY <1>0, <4>1 DEF Placed, IsRoot, IsChild
      <4>. QED BY <1>0, <1>2, <2>1, <3>1, <4>1, <4>2, EndedIs
    <3>. QED BY <1>3, <3>1 DEF OutIn
  <2>3. Outstanding(p)' = OutIn(Ended(lr), moved3, p)
    BY <2>2, OutThen
  <2>4. Cardinality(Pending(p)') = Cardinality(Pending(p))
    BY <1>0, <1>6, SamePending DEF Kept
  <2>. QED BY <2>1, <2>3, <2>4, EndedCount
<1>. QED BY <1>5, <1>7, <1>8, <1>9, <1>10 DEF Core

LEMMA ReadResultStep ==
    ASSUME IInv, NEW id \in Ids, ReadResult(id)
    PROVE  IInv'
<1>0. TypeOK /\ Core /\ session = "open"
  BY DEF IInv, ReadResult, Answers, Reading, TypeOK
<1>1. \A k \in DOMAIN stack : stack[k].st \in InBind
  <2>1. stack # <<>> => stack[1].st \in InBind
    BY <1>0, TopIs DEF ReadResult, Answers, Reading, InBind, TypeOK
  <2>2. DOMAIN stack = 1..Len(stack) /\ Len(stack) \in Nat
    BY <1>0 DEF TypeOK
  <2>. QED BY <1>0, <2>1, <2>2 DEF Core, Nested
<1>2. Live(id) /\ Unanswered(id)
  BY DEF ReadResult, Answers, Unanswered
<1>3. Ready(id)
  BY <1>0, <1>1, <1>2 DEF Core, Open, Barren, Finals, Ready
<1>4. stack' = stack /\ stack \in Seq(Chase) /\ DOMAIN stack \subseteq Nat \ {0}
  BY <1>0 DEF ReadResult, TypeOK
<1>5. Kept(0) /\ SameChases(0)
  BY <1>1, <1>4, Unmoved
<1>6. Core'
  BY <1>0, <1>1, <1>3, <1>4, <1>5, FinishThen DEF ReadResult
<1>7. TypeOK'
  BY <1>0, <1>3, <1>4, FinishIs DEF ReadResult, TypeOK
<1>. QED BY <1>6, <1>7 DEF IInv

LEMMA ReadBindStep ==
    ASSUME IInv, NEW id \in Ids, NEW ok \in BOOLEAN, ReadBind(id, ok)
    PROVE  IInv'
<1>0. TypeOK /\ Core /\ session = "open" /\ stack \in Seq(Chase)
  BY DEF IInv, ReadBind, Answers, Reading, TypeOK
<1>1. \A k \in DOMAIN stack : stack[k].st \in InBind /\ k \in Nat \ {0} /\ stack[k] \in Chase
  <2>1. stack # <<>> => stack[1].st \in InBind
    BY <1>0, TopIs DEF ReadBind, Answers, Reading, InBind
  <2>2. DOMAIN stack = 1..Len(stack) /\ Len(stack) \in Nat /\ \A k \in DOMAIN stack : stack[k] \in Chase
    BY <1>0
  <2>. QED BY <1>0, <2>1, <2>2 DEF Core, Nested
<1>2. Live(id) /\ Unanswered(id) /\ req[id].kind = "bind"
  BY DEF ReadBind, Answers, Unanswered
<1>3. Ready(id)
  BY <1>0, <1>1, <1>2 DEF Core, Open, Barren, Finals, Ready
<1>. DEFINE g(k) == IF stack[k].bind = id
                    THEN [stack[k] EXCEPT !.st = IF ok THEN "bound" ELSE "refused"] ELSE stack[k]
<1>4. /\ stack' = [k \in DOMAIN stack |-> g(k)]
      /\ DOMAIN stack' = DOMAIN stack /\ \A k \in DOMAIN stack : stack'[k] = g(k)
  BY DEF ReadBind
<1>5. ASSUME NEW k \in DOMAIN stack
      PROVE  /\ g(k) \in Chase /\ g(k).st \in InBind /\ g(k).lr = stack[k].lr
             /\ g(k).final = stack[k].final /\ g(k).v3 = stack[k].v3 /\ g(k).new = stack[k].new
             /\ g(k).refs = stack[k].refs /\ g(k).i = stack[k].i
  BY <1>1 DEF Chase, InBind
<1>6. stack' \in Seq(Chase)
  <2>1. DOMAIN stack = 1..Len(stack) /\ Len(stack) \in Nat
    BY <1>0
  <2>. HIDE DEF g
  <2>2. stack' \in [1..Len(stack) -> Chase]
    BY <1>4, <1>5, <2>1
  <2>. QED BY <2>1, <2>2
<1>. HIDE DEF g
<1>7. SameChases(0)
  BY <1>0, <1>1, <1>4, <1>5, Unmoved
<1>8. Kept(0)
  BY <1>0, <1>1, <1>4, <1>5, Unmoved
<1>9. Core'
  BY <1>0, <1>3, <1>4, <1>5, <1>6, <1>7, <1>8, FinishThen DEF ReadBind
<1>10. TypeOK'
  BY <1>0, <1>3, <1>6, FinishIs DEF ReadBind, TypeOK
<1>. QED BY <1>9, <1>10 DEF IInv

LEMMA UnfollowedStep ==
    ASSUME IInv, Unfollowed
    PROVE  IInv'
<1>0. /\ TypeOK /\ Core /\ session = "open" /\ ~Top.v3 /\ stack \in Seq(Chase) /\ stack # <<>>
      /\ Top.st = "next" /\ stack' = Tail(stack) /\ Finish(Top.lr)
  BY DEF IInv, Unfollowed, AtEnd, TypeOK
<1>1. Top \in Chase /\ Top = stack[1] /\ 1 \in DOMAIN stack /\ DOMAIN stack \subseteq Nat \ {0}
  BY <1>0, TopIs
<1>2. PICK lr \in Ids : lr = Top.lr
  BY <1>1 DEF Chase
<1>3. Ready(lr)
  <2>1. Live(lr) /\ Top.final /\ req[lr].st # "completed"
    BY <1>0, <1>1, <1>2 DEF Core, LrHeld, Finals
  <2>2. lr \notin moved3 /\ (req[lr].parent # 0 => Children(lr) = {})
    BY <1>0, <1>2, <2>1 DEF Core, Grown, Barren
  <2>3. \A k \in DOMAIN stack : k # 1 => stack[k].st \in InBind
    BY <1>0, <1>1 DEF Core, Nested
  <2>4. \A k \in DOMAIN stack : k # 1 /\ stack[k].final => stack[k].lr # lr
    BY <1>0, <1>1, <1>2, <2>1 DEF Core, Finals
  <2>. QED BY <1>0, <1>1, <2>1, <2>2, <2>3, <2>4 DEF Ready, InBind
<1>4. /\ stack' \in Seq(Chase) /\ DOMAIN stack' = {k \in Nat \ {0} : k + 1 \in DOMAIN stack}
      /\ \A k \in DOMAIN stack' : stack'[k] = stack[k + 1] /\ k + 1 > 1 /\ k + 1 \in DOMAIN stack
  BY <1>0, <1>1, Popped
<1>5. \A k \in DOMAIN stack' : stack'[k].st \in InBind
  BY <1>0, <1>4 DEF Core, Nested
<1>6. Kept(1) /\ SameChases(1)
  BY <1>0, <1>4 DEF Kept, SameChases, InBind
<1>7. Core'
  BY <1>0, <1>2, <1>3, <1>4, <1>5, <1>6, FinishThen DEF Unfollowed
<1>8. TypeOK'
  <2>1. Finish(lr)
    BY <1>0, <1>2
  <2>. QED BY <1>0, <1>3, <1>4, <2>1, FinishIs DEF Unfollowed, TypeOK
<1>. QED BY <1>7, <1>8 DEF IInv

-----------------------------------------------------------------------------
(* The steps after which every count is what it was. *)
LEMMA PassThen ==
    ASSUME IInv, session = "open", NEW d, Kept(d), SameChases(d), NEW C, Changes({}, {}, C),
           \A k \in DOMAIN stack' : stack'[k].final => stack'[k].lr \notin C,
           \A id \in Ids : req'[id].out = req[id].out,
           \A p \in Ids : OutIn(req', moved3', p) = OutIn(req, moved3, p),
           Grown', Followed'
    PROVE  Core'
<1>0. TypeOK /\ Core /\ ld_version' = ld_version
  BY DEF IInv, Changes
<1>1. Blank' /\ Drawn' /\ Tree' /\ Open' /\ Barren'
  BY TreeThen
<1>2. Nested' /\ LrHeld' /\ NewIds' /\ Finals'
  <2>1. Known(d)
    BY DEF Kept, Known, SameChases
  <2>. QED BY <2>1, FramesThen
<1>3. Counts'
  <2>. SUFFICES ASSUME NEW p \in Ids, Live(p)'
                PROVE  req'[p].out = Cardinality(Outstanding(p)') + Cardinality(Pending(p)')
    BY DEF Counts
  <2>1. Live(p)
    BY DEF Changes, Live
  <2>2. Outstanding(p)' = OutIn(req, moved3, p)
    BY <1>0, OutThen
  <2>3. \A k \in DOMAIN stack' : stack'[k].st \in InBind => req'[stack'[k].lr].orig = req[stack'[k].lr].orig
    <3>1. ASSUME NEW k \in DOMAIN stack'
          PROVE  req'[stack'[k].lr].orig = req[stack'[k].lr].orig
      <4>1. stack \in Seq(Chase) /\ k + d \in DOMAIN stack /\ stack'[k].lr = stack[k + d].lr
        BY <1>0 DEF TypeOK, Kept
      <4>2. stack[k + d] \in Chase
        BY <4>1
      <4>3. stack'[k].lr \in Ids
        BY <4>1, <4>2 DEF Chase
      <4>. QED BY <4>3 DEF Changes
    <3>. QED BY <3>1
  <2>4. Cardinality(Pending(p)') = Cardinality(Pending(p))
    BY <1>0, <2>3, SamePending DEF Kept
  <2>. QED BY <1>0, <2>1, <2>2, <2>4, OutNow DEF Core, Counts
<1>. QED BY <1>1, <1>2, <1>3 DEF Core

LEMMA QuietThen ==
    ASSUME IInv, session = "open", Kept(0), SameChases(0), stack' \in Seq(Chase),
           UNCHANGED <<ld_version, req, moved, moved3>>, ld_msgid' \in Nat, ld_msgid' >= ld_msgid,
           \A s \in Servers : asked'[s] \subseteq asked[s],
           stack # <<>> => /\ Top'.lr = Top.lr
                           /\ Top'.st = "followed" /\ ~Top'.v3 => Top.st = "followed" /\ ~Top.v3,
           stack # <<>> /\ Top.st = "followed" => Top' = Top
    PROVE  Core'
<1>0. TypeOK /\ Core /\ ld_version' = ld_version /\ req' = req /\ stack \in Seq(Chase)
  BY DEF IInv, TypeOK
<1>1. (stack # <<>> <=> stack' # <<>>)
  <2>1. \A k \in Nat : k + 0 = k
    OBVIOUS
  <2>2. DOMAIN stack' \subseteq Nat \ {0} /\ DOMAIN stack = DOMAIN stack'
    BY <1>0, <2>1 DEF Kept
  <2>3. DOMAIN stack = 1..Len(stack) /\ DOMAIN stack' = 1..Len(stack') /\ Len(stack) \in Nat /\ Len(stack') \in Nat
    BY <1>0
  <2>4. (stack # <<>> <=> 1 \in DOMAIN stack) /\ (stack' # <<>> <=> 1 \in DOMAIN stack')
    BY <1>0, <2>3
  <2>. QED BY <2>2, <2>4
<1>2. Changes({}, {}, {})
  <2>1. moved3 \subseteq moved
    BY <1>0 DEF Core, Barren
  <2>. QED BY <1>0, <2>1 DEF Changes, TypeOK
<1>3. Grown'
  BY <1>0, <1>1 DEF Core, Grown, Children, Live
<1>4. Followed'
  BY <1>0, <1>1 DEF Core, Followed
<1>. QED BY <1>0, <1>2, <1>3, <1>4, PassThen

LEMMA TakeStep ==
    ASSUME IInv, NEW id \in Ids, Take(id)
    PROVE  IInv'
<1>0. TypeOK /\ session = "open" /\ stack \in Seq(Chase) /\ stack = <<>> /\ ld_msgid \in Nat
  BY DEF IInv, Take, Idle, TypeOK
<1>1. Kept(0) /\ SameChases(0)
  BY <1>0, Unmoved DEF Take
<1>2. Core'
  BY <1>0, <1>1, QuietThen DEF Take
<1>3. TypeOK'
  BY <1>0 DEF Take, TypeOK
<1>. QED BY <1>2, <1>3 DEF IInv

LEMMA BreakStep ==
    ASSUME IInv, NEW s \in Servers, Break(s)
    PROVE  IInv'
<1>0. /\ TypeOK /\ Core /\ session = "open" /\ stack \in Seq(Chase) /\ ld_msgid \in Nat
      /\ conn \in [Servers -> Connection] /\ faults \in Seq({"connect", "bind", "read"})
      /\ asked \in [Servers -> SUBSET Ids]
  BY DEF IInv, Break, TypeOK
<1>1. Kept(0) /\ SameChases(0)
  BY <1>0, Unmoved DEF Break
<1>2. \A x \in Servers : asked'[x] \subseteq asked[x]
  BY <1>0 DEF Break
<1>3. conn' \in [Servers -> Connection]
  <2>1. conn[s] \in Connection
    BY <1>0
  <2>2. [conn[s] EXCEPT !.broken = TRUE] \in Connection
    BY <2>1 DEF Connection
  <2>3. conn' = [conn EXCEPT ![s] = [conn[s] EXCEPT !.broken = TRUE]]
    BY <1>0 DEF Break
  <2>. QED BY <1>0, <2>2, <2>3
<1>4. TypeOK'
  BY <1>0, <1>3 DEF Break, TypeOK
<1>5. Core'
  BY <1>0, <1>1, <1>2, QuietThen DEF Break, Top
<1>. QED BY <1>0, <1>4, <1>5 DEF IInv

LEMMA ReadErrorStep ==
    ASSUME IInv, ReadError
    PROVE  IInv'
<1>0. /\ TypeOK /\ Core /\ session = "open" /\ stack \in Seq(Chase) /\ stack # <<>> /\ ld_msgid \in Nat
      /\ Top.st = "wait" /\ stack' = [stack EXCEPT ![1].st = "refused"]
  BY DEF IInv, ReadError, Reading, TypeOK
<1>1. Top \in Chase /\ Top = stack[1] /\ 1 \in DOMAIN stack
  BY <1>0, TopIs
<1>2. PICK f \in Chase : /\ f = [Top EXCEPT !.st = "refused"]
                         /\ f.lr = Top.lr /\ f.final = Top.final /\ f.v3 = Top.v3 /\ f.new = Top.new /\ f.st = "refused"
  <2>. DEFINE g == [Top EXCEPT !.st = "refused"]
  <2>1. /\ g \in Chase
        /\ g.lr = Top.lr /\ g.final = Top.final /\ g.v3 = Top.v3 /\ g.new = Top.new /\ g.st = "refused"
    BY <1>1 DEF Chase
  <2>. QED BY <2>1, Zenon
<1>3. stack' \in Seq(Chase) /\ DOMAIN stack' = DOMAIN stack /\ stack'[1] = f
      /\ \A k \in DOMAIN stack : k # 1 => stack'[k] = stack[k]
  BY <1>0, <1>1, <1>2
<1>4. Kept(0) /\ SameChases(0)
  <2>1. \A k \in DOMAIN stack : /\ stack'[k].lr = stack[k].lr /\ stack'[k].final = stack[k].final /\ stack'[k].v3 = stack[k].v3
                                /\ stack'[k].new = stack[k].new
                                /\ stack'[k].st \in InBind <=> stack[k].st \in InBind
    BY <1>0, <1>1, <1>2, <1>3 DEF InBind
  <2>. QED BY <1>0, <1>3, <2>1, Unmoved
<1>5. Top' = f
  BY <1>1, <1>3 DEF Top
<1>6. Core'
  BY <1>0, <1>2, <1>3, <1>4, <1>5, QuietThen DEF ReadError
<1>7. TypeOK'
  BY <1>0, <1>3 DEF ReadError, TypeOK
<1>. QED BY <1>6, <1>7 DEF IInv

(* Where a chase is. *)
LEMMA TopPicked ==
    ASSUME TypeOK, stack # <<>>
    PROVE  /\ stack \in Seq(Chase) /\ Top \in Chase /\ Top = stack[1] /\ 1 \in DOMAIN stack
           /\ Top.lr \in Ids /\ Top.refs \in RefLists /\ Top.i \in Nat \ {0} /\ Top.new \in Nat
           /\ Top.refs \in Seq(Servers)
<1>1. stack \in Seq(Chase) /\ Top \in Chase /\ Top = stack[1] /\ 1 \in DOMAIN stack
  BY TopIs DEF TypeOK
<1>2. Top.lr \in Ids /\ Top.refs \in RefLists /\ Top.i \in Nat \ {0} /\ Top.new \in Nat
  BY <1>1 DEF Chase
<1>3. Top.refs \in Seq(Servers)
  BY <1>2, RefListsAssumption
<1>. QED BY <1>1, <1>2, <1>3

LEMMA QueueOnStep ==
    ASSUME IInv, NEW s \in Servers, QueueOn(s)
    PROVE  IInv'
<1>0. /\ TypeOK /\ Core /\ session = "open" /\ stack \in Seq(Chase) /\ stack # <<>> /\ ld_msgid \in Nat
      /\ Top.st = "next" /\ Top.v3 /\ conn \in [Servers -> Connection]
      /\ TopBecomes(Queued(Top))
  BY DEF IInv, QueueOn, AtUrl, MustQueue, TypeOK
<1>1. /\ Top \in Chase /\ Top = stack[1] /\ 1 \in DOMAIN stack
      /\ Top.lr \in Ids /\ Top.refs \in RefLists
  BY <1>0, TopPicked
<1>2. PICK f \in Chase : /\ f = Queued(Top) /\ f.lr = Top.lr /\ f.final = Top.final /\ f.v3 = Top.v3 /\ f.new = Top.new
                         /\ f.st = "followed"
  <2>. DEFINE g == [Top EXCEPT !.st = "followed"]
  <2>1. /\ g \in Chase
        /\ g.lr = Top.lr /\ g.final = Top.final /\ g.v3 = Top.v3 /\ g.new = Top.new /\ g.st = "followed"
    BY <1>1 DEF Chase
  <2>. QED BY <2>1, Zenon DEF Queued
<1>3. /\ stack' \in Seq(Chase) /\ stack' # <<>> /\ DOMAIN stack' = DOMAIN stack
      /\ stack'[1] = f /\ Top' = f /\ \A k \in DOMAIN stack : k # 1 => stack'[k] = stack[k]
  <2>1. TopBecomes(f)
    BY <1>0, <1>2
  <2>. QED BY <1>0, <2>1, Replaced
<1>4. Kept(0) /\ SameChases(0)
  <2>1. \A k \in DOMAIN stack : /\ stack'[k].lr = stack[k].lr /\ stack'[k].final = stack[k].final /\ stack'[k].v3 = stack[k].v3
                                /\ stack'[k].new = stack[k].new
                                /\ stack'[k].st \in InBind <=> stack[k].st \in InBind
    BY <1>0, <1>1, <1>2, <1>3 DEF InBind
  <2>. QED BY <1>0, <1>3, <2>1, Unmoved
<1>5. Core'
  <2>1. UNCHANGED <<ld_version, ld_msgid, req, moved, moved3, asked>>
    BY DEF QueueOn
  <2>2. Top'.lr = Top.lr /\ Top'.v3 = Top.v3 /\ Top.st # "followed" /\ Top.v3
    BY <1>0, <1>2, <1>3
  <2>3. ld_msgid' \in Nat /\ ld_msgid' >= ld_msgid /\ \A x \in Servers : asked'[x] \subseteq asked[x]
    BY <1>0, <2>1
  <2>. QED BY <1>0, <1>3, <1>4, <2>1, <2>2, <2>3, QuietThen
<1>6. conn' \in [Servers -> Connection]
  <2>1. conn[s] \in Connection /\ conn[s].queue \in Seq(QueuedList)
    BY <1>0 DEF Connection
  <2>2. req[Top.lr].orig \in Ids
    BY <1>0, <1>1 DEF Core, LrHeld, Tree, Placed
  <2>3. PICK q \in QueuedList : q = [refs |-> Top.refs, op |-> req[Top.lr].orig]
    BY <1>1, <2>2 DEF QueuedList
  <2>4. PICK qs \in Seq(QueuedList) : qs = Append(conn[s].queue, q)
    <3>1. Append(conn[s].queue, q) \in Seq(QueuedList)
      BY <2>1
    <3>. QED BY <3>1
  <2>5. [conn[s] EXCEPT !.queue = qs] \in Connection
    BY <2>1, <2>4 DEF Connection
  <2>6. conn' = [conn EXCEPT ![s] = [conn[s] EXCEPT !.queue = qs]]
    BY <1>0, <2>3, <2>4 DEF QueueOn
  <2>. QED BY <1>0, <2>5, <2>6
<1>7. TypeOK'
  BY <1>0, <1>3, <1>6 DEF QueueOn, TypeOK
<1>. QED BY <1>5, <1>7 DEF IInv

LEMMA ConnectFailsStep ==
    ASSUME IInv, NEW s \in Servers, ConnectFails(s)
    PROVE  IInv'
<1>0. /\ TypeOK /\ Core /\ session = "open" /\ stack \in Seq(Chase) /\ stack # <<>>
      /\ ld_msgid \in Nat /\ ld_msgid < MaxMsgid /\ ld_msgid' = ld_msgid + 1
      /\ Top.st = "next" /\ faults \in Seq({"connect", "bind", "read"})
      /\ TopBecomes([Top EXCEPT !.i = @ + 1])
  BY DEF IInv, ConnectFails, AtUrl, TypeOK
<1>1. /\ Top \in Chase /\ Top = stack[1] /\ 1 \in DOMAIN stack /\ Top.i \in Nat \ {0}
  BY <1>0, TopPicked
<1>2. PICK f \in Chase : /\ f = [Top EXCEPT !.i = @ + 1] /\ f.lr = Top.lr /\ f.final = Top.final /\ f.v3 = Top.v3
                         /\ f.new = Top.new /\ f.st = Top.st
  <2>1. PICK n \in Nat \ {0} : n = Top.i + 1
    BY <1>1
  <2>. DEFINE g == [Top EXCEPT !.i = n]
  <2>2. /\ g \in Chase /\ g = [Top EXCEPT !.i = @ + 1]
        /\ g.lr = Top.lr /\ g.final = Top.final /\ g.v3 = Top.v3 /\ g.new = Top.new /\ g.st = Top.st
    BY <1>1, <2>1 DEF Chase
  <2>. QED BY <2>2, Zenon
<1>3. /\ stack' \in Seq(Chase) /\ stack' # <<>> /\ DOMAIN stack' = DOMAIN stack
      /\ stack'[1] = f /\ Top' = f /\ \A k \in DOMAIN stack : k # 1 => stack'[k] = stack[k]
  <2>1. TopBecomes(f)
    BY <1>0, <1>2
  <2>. QED BY <1>0, <2>1, Replaced
<1>4. Kept(0) /\ SameChases(0)
  <2>1. \A k \in DOMAIN stack : /\ stack'[k].lr = stack[k].lr /\ stack'[k].final = stack[k].final /\ stack'[k].v3 = stack[k].v3
                                /\ stack'[k].new = stack[k].new
                                /\ stack'[k].st \in InBind <=> stack[k].st \in InBind
    BY <1>0, <1>1, <1>2, <1>3 DEF InBind
  <2>. QED BY <1>0, <1>3, <2>1, Unmoved
<1>5. Core'
  BY <1>0, <1>2, <1>3, <1>4, QuietThen DEF ConnectFails
<1>6. TypeOK'
  <2>1. ld_msgid' \in 0..MaxMsgid
    BY <1>0, BoundsAssumption
  <2>. QED BY <1>0, <1>3, <2>1 DEF ConnectFails, TypeOK
<1>. QED BY <1>5, <1>6 DEF IInv

(* The steps that end a chase and its request's part in it. *)
LEMMA OverThen ==
    ASSUME IInv, session = "open", stack # <<>>, stack' = Tail(stack),
           Top.st = "followed" \/ (Top.st = "next" /\ Top.v3),
           UNCHANGED <<ld_version, ld_msgid, asked>>,
           \/ Top.final /\ Move(Top)
           \/ /\ ~Top.final /\ UNCHANGED <<moved, moved3>>
              /\ req' = req \/ req' = [req EXCEPT ![Top.lr] = Chasing(@)]
    PROVE  Core' /\ req' \in [Ids -> Request] /\ moved' \subseteq Ids /\ moved3' \subseteq Ids /\ stack' \in Seq(Chase)
<1>0. /\ TypeOK /\ Core /\ ld_msgid \in Nat /\ req \in [Ids -> Request] /\ moved \subseteq Ids
      /\ moved3 \subseteq Ids /\ asked \in [Servers -> SUBSET Ids]
      /\ Top.final => /\ req' = [req EXCEPT ![Top.lr].st = "completed"] /\ moved' = moved \cup {Top.lr}
                      /\ moved3' = IF Top.v3 THEN moved3 \cup {Top.lr} ELSE moved3
      /\ ~Top.final => moved' = moved /\ moved3' = moved3
  BY DEF IInv, TypeOK, Move
<1>1. stack \in Seq(Chase) /\ Top = stack[1] /\ 1 \in DOMAIN stack /\ Top.lr \in Ids
  BY <1>0, TopPicked
<1>2. PICK lr \in Ids : lr = Top.lr
  BY <1>1
<1>3. Live(lr) /\ req[lr].kind = "op"
  BY <1>0, <1>1, <1>2 DEF Core, LrHeld
<1>4. /\ Top.v3 \/ Top.final
      /\ Top.v3 /\ Top.final /\ req[lr].parent # 0 => Children(lr) = {}
  BY <1>0, <1>1, <1>2, <1>3 DEF Core, Finals, Grown
<1>5. Top.final => /\ req[lr].st # "completed" /\ ~Unanswered(lr)
                   /\ \A k \in DOMAIN stack : k # 1 /\ stack[k].final => stack[k].lr # lr
  BY <1>0, <1>1, <1>2 DEF Core, Finals
<1>6. /\ stack' \in Seq(Chase) /\ DOMAIN stack' = {k \in Nat \ {0} : k + 1 \in DOMAIN stack}
      /\ \A k \in DOMAIN stack' : stack'[k] = stack[k + 1] /\ k + 1 > 1 /\ k + 1 \in DOMAIN stack /\ k + 1 # 1
  BY <1>1, Popped
<1>7. \A k \in DOMAIN stack' : stack'[k].st \in InBind
  BY <1>0, <1>6 DEF Core, Nested
<1>8. Kept(1) /\ SameChases(1)
  BY <1>6 DEF Kept, SameChases, InBind
<1>9. PICK x \in {"inprogress", "chasing", "completed"} :
         /\ req' = [req EXCEPT ![lr] = [req[lr] EXCEPT !.st = x]]
         /\ x = "completed" <=> Top.final \/ req[lr].st = "completed"
  <2>1. req[lr] \in Request /\ req[lr].st \in {"inprogress", "chasing", "completed"}
    BY <1>0, <1>3 DEF Live, Request
  <2>2. CASE Top.final
    BY <1>0, <1>2, <2>2
  <2>3. CASE ~Top.final /\ req' = req
    <3>1. [req[lr] EXCEPT !.st = req[lr].st] = req[lr]
      BY <2>1 DEF Request
    <3>2. req' = [req EXCEPT ![lr] = [req[lr] EXCEPT !.st = req[lr].st]]
      BY <1>0, <2>3, <3>1
    <3>. QED BY <2>1, <2>3, <3>2
  <2>4. CASE ~Top.final /\ req' = [req EXCEPT ![Top.lr] = Chasing(@)]
    <3>1. [req[lr] EXCEPT !.st = req[lr].st] = req[lr]
      BY <2>1 DEF Request
    <3>2. req' = [req EXCEPT ![lr] = [req[lr] EXCEPT !.st = IF req[lr].st = "completed" THEN "completed" ELSE "chasing"]]
      BY <1>0, <1>2, <2>4, <3>1 DEF Chasing
    <3>. QED BY <2>1, <2>4, <3>2
  <2>. QED BY <2>2, <2>3, <2>4
<1>10. /\ req' \in [Ids -> Request]
       /\ \A id \in Ids : /\ id # lr => req'[id] = req[id]
                          /\ req'[id].out = req[id].out /\ req'[id].hops = req[id].hops
                          /\ req'[id].parent = req[id].parent /\ req'[id].orig = req[id].orig
                          /\ req'[id].conn = req[id].conn /\ req'[id].kind = req[id].kind
       /\ req'[lr].st = x
  <2>1. [req[lr] EXCEPT !.st = x] \in Request
    <3>1. PICK r \in Request : r = req[lr]
      BY <1>0
    <3>2. [r EXCEPT !.st = x] \in Request
      BY DEF Request
    <3>. QED BY <3>1, <3>2
  <2>2. \A id \in Ids : req'[id] = IF id = lr THEN [req[id] EXCEPT !.st = x] ELSE req[id]
    BY <1>0, <1>9
  <2>3. req' \in [Ids -> Request]
    BY <1>0, <1>9, <2>1
  <2>. QED BY <1>0, <2>2, <2>3 DEF Request
<1>. DEFINE C == IF Top.final THEN {lr} ELSE {}
<1>11. Changes({}, {}, C)
  <2>1. moved3' \subseteq moved'
    BY <1>0 DEF Core, Barren
  <2>2. \A id \in moved3' : id \in moved3 \/ (id \in C /\ req'[id].st = "completed"
                               /\ (req[id].parent # 0 => Children(id) = {}))
    BY <1>0, <1>2, <1>4, <1>9, <1>10
  <2>. QED BY <1>0, <1>2, <1>3, <1>5, <1>9, <1>10, <2>1, <2>2 DEF Changes, Live, Unanswered
<1>12. \A k \in DOMAIN stack' : stack'[k].final => stack'[k].lr \notin C
  BY <1>5, <1>6
<1>13. \A p \in Ids : OutIn(req', moved3', p) = OutIn(req, moved3, p)
  <2>1. CASE Top.final
    <3>1. Top.v3 \/ req[lr].out > 0
      BY <1>0, <1>2 DEF Core, Followed
    <3>2. /\ x = "completed" /\ req[lr].st # "completed"
          /\ moved3' = IF Top.v3 THEN moved3 \cup {lr} ELSE moved3
      BY <1>0, <1>2, <1>5, <1>9, <2>1
    <3>. QED BY <1>3, <1>10, <3>1, <3>2 DEF OutIn, Live
  <2>2. CASE ~Top.final
    <3>1. x # "free" /\ (x = "completed" <=> req[lr].st = "completed") /\ moved3' = moved3
      BY <1>0, <1>9, <2>2
    <3>. QED BY <1>3, <1>10, <3>1 DEF OutIn, Live
  <2>. QED BY <2>1, <2>2
<1>14. Grown'
  <2>1. ASSUME NEW id \in Ids, Live(id)', req'[id].parent # 0, NEW c \in Children(id)'
        PROVE  req'[id].st = "completed"
    <3>1. Live(id) /\ c \in Children(id) /\ req[id].parent # 0
      BY <1>3, <1>10, <2>1 DEF Children, Live
    <3>2. req[id].st = "completed" \/ (id = lr /\ Top.final)
      BY <1>0, <1>2, <1>4, <3>1 DEF Core, Grown
    <3>. QED BY <1>9, <1>10, <3>2
  <2>. QED BY <2>1 DEF Grown
<1>15. Followed'
  <2>1. stack' # <<>> => Top' = stack'[1] /\ 1 \in DOMAIN stack'
    BY <1>6 DEF Top
  <2>. QED BY <1>7, <2>1 DEF Followed, InBind
<1>. HIDE DEF C
<1>16. Core'
  BY <1>8, <1>10, <1>11, <1>12, <1>13, <1>14, <1>15, PassThen
<1>17. moved' \subseteq Ids /\ moved3' \subseteq Ids
  BY <1>0, <1>1
<1>. QED BY <1>6, <1>10, <1>16, <1>17

LEMMA ChasedStep ==
    ASSUME IInv, Chased
    PROVE  IInv'
<1>1. TypeOK /\ session = "open" /\ stack # <<>> /\ stack' = Tail(stack) /\ Top.st = "followed"
  BY DEF IInv, Chased, AtEnd
<1>2. Core' /\ req' \in [Ids -> Request] /\ moved' \subseteq Ids /\ moved3' \subseteq Ids /\ stack' \in Seq(Chase)
  BY <1>1, OverThen DEF Chased
<1>3. TypeOK'
  BY <1>1, <1>2 DEF Chased, TypeOK
<1>. QED BY <1>2, <1>3 DEF IInv

LEMMA PassedStep ==
    ASSUME IInv, Passed
    PROVE  IInv'
<1>1. /\ TypeOK /\ session = "open" /\ stack # <<>> /\ stack' = Tail(stack) /\ Top.st = "next"
      /\ Top.v3 /\ Core
  BY DEF IInv, Passed, AtEnd
<1>2. Core' /\ req' \in [Ids -> Request] /\ moved' \subseteq Ids /\ moved3' \subseteq Ids /\ stack' \in Seq(Chase)
  BY <1>1, OverThen DEF Passed
<1>3. Top.lr \in Ids /\ Top = stack[1] /\ 1 \in DOMAIN stack
  BY <1>1, TopPicked
<1>4. PICK root \in Ids : root = req[Top.lr].orig
  BY <1>1, <1>3 DEF Core, LrHeld, Tree, Placed
<1>5. finals' \in [Ids -> Nat] /\ unread' \subseteq Ids
  <2>1. finals \in [Ids -> Nat] /\ unread \subseteq Ids
    BY <1>1 DEF TypeOK
  <2>2. PICK n \in Nat : n = finals[root] + 1
    BY <2>1
  <2>3. /\ finals' = [finals EXCEPT ![root] = n] \/ finals' = finals
        /\ unread' = unread \cup {root} \/ unread' = unread
    BY <1>4, <2>2 DEF Passed, Deliver
  <2>. QED BY <2>1, <2>3
<1>6. TypeOK'
  BY <1>1, <1>2, <1>5 DEF Passed, TypeOK
<1>. QED BY <1>2, <1>6 DEF IInv

-----------------------------------------------------------------------------
(* New requests. *)
LEMMA RootIs ==
    ASSUME NEW id \in Ids, NEW s \in Servers, NEW kind \in {"op", "bind"}
    PROVE  LET r == Root(id, s, kind)
           IN  /\ r \in Request /\ r.st = "inprogress" /\ r.out = 0 /\ r.parent = 0 /\ r.orig = id
               /\ r.kind = kind /\ r.conn = s
<1>. DEFINE r1 == [NoRequest EXCEPT !.st = "inprogress"]
            r2 == [r1 EXCEPT !.orig = id]
            r3 == [r2 EXCEPT !.conn = s]
            r4 == [r3 EXCEPT !.kind = kind]
<1>1. /\ r1 \in Request /\ r1.st = "inprogress" /\ r1.out = 0 /\ r1.parent = 0
  BY ServersAssumption DEF NoRequest, Request
<1>. HIDE DEF r1
<1>2. r2 \in Request /\ r2.st = "inprogress" /\ r2.out = 0 /\ r2.parent = 0 /\ r2.orig = id
  BY <1>1 DEF Request
<1>. HIDE DEF r2
<1>3. r3 \in Request /\ r3.st = "inprogress" /\ r3.out = 0 /\ r3.parent = 0 /\ r3.orig = id /\ r3.conn = s
  BY <1>2 DEF Request
<1>. HIDE DEF r3
<1>4. /\ r4 \in Request /\ r4.st = "inprogress" /\ r4.out = 0 /\ r4.parent = 0 /\ r4.orig = id
      /\ r4.conn = s /\ r4.kind = kind
  BY <1>3 DEF Request
<1>5. Root(id, s, kind) = r4
  BY DEF Root, r1, r2, r3
<1>. HIDE DEF r4
<1>. QED BY <1>4, <1>5

LEMMA ChildIs ==
    ASSUME TypeOK, NEW p \in Ids, NEW s \in Servers
    PROVE  LET r == Child(p, s)
           IN  /\ r \in Request /\ r.st = "inprogress" /\ r.out = 0 /\ r.parent = p
               /\ r.orig = req[p].orig /\ r.kind = "op" /\ r.conn = s
<1>. DEFINE r1 == [NoRequest EXCEPT !.st = "inprogress"]
            r2 == [r1 EXCEPT !.hops = req[p].hops + 1]
            r3 == [r2 EXCEPT !.parent = p]
            r4 == [r3 EXCEPT !.orig = req[p].orig]
            r5 == [r4 EXCEPT !.conn = s]
<1>0. req[p].hops + 1 \in Nat /\ req[p].orig \in Ids \cup {0}
  BY RequestIs
<1>1. r1 \in Request /\ r1.st = "inprogress" /\ r1.out = 0 /\ r1.kind = "op"
  BY ServersAssumption DEF NoRequest, Request
<1>. HIDE DEF r1
<1>2. r2 \in Request /\ r2.st = "inprogress" /\ r2.out = 0 /\ r2.kind = "op"
  BY <1>0, <1>1 DEF Request
<1>. HIDE DEF r2
<1>3. r3 \in Request /\ r3.st = "inprogress" /\ r3.out = 0 /\ r3.kind = "op" /\ r3.parent = p
  BY <1>2 DEF Request
<1>. HIDE DEF r3
<1>4. /\ r4 \in Request /\ r4.st = "inprogress" /\ r4.out = 0 /\ r4.kind = "op" /\ r4.parent = p
      /\ r4.orig = req[p].orig
  BY <1>0, <1>3 DEF Request
<1>. HIDE DEF r4
<1>5. /\ r5 \in Request /\ r5.st = "inprogress" /\ r5.out = 0 /\ r5.kind = "op" /\ r5.parent = p
      /\ r5.orig = req[p].orig /\ r5.conn = s
  BY <1>4 DEF Request
<1>6. Child(p, s) = r5
  BY DEF Child, r1, r2, r3, r4
<1>. HIDE DEF r5
<1>. QED BY <1>5, <1>6

(* A request on the default connection. *)
LEMMA SendStep ==
    ASSUME IInv, Send
    PROVE  IInv'
<1>0. /\ TypeOK /\ Core /\ session = "open" /\ stack = <<>> /\ stack \in Seq(Chase)
      /\ ld_msgid \in Nat /\ ld_msgid < MaxMsgid /\ ld_msgid' = ld_msgid + 1
      /\ req \in [Ids -> Request] /\ conn \in [Servers -> Connection]
      /\ asked \in [Servers -> SUBSET Ids] /\ ops \subseteq Ids /\ moved \subseteq Ids
      /\ Default \in Servers
  BY ServersAssumption DEF IInv, Send, Idle, TypeOK
<1>1. PICK n \in Ids : n = ld_msgid + 1 /\ n > ld_msgid
  BY <1>0, BoundsAssumption DEF Ids
<1>2. ~Live(n) /\ n \notin moved
  BY <1>0, <1>1, IdsAre DEF Core, Drawn
<1>3. Kept(0) /\ SameChases(0)
  BY <1>0, Unmoved DEF Send
<1>4. PICK r \in Request : /\ r = Root(n, Default, "op")
                           /\ r.st = "inprogress" /\ r.out = 0 /\ r.parent = 0 /\ r.orig = n /\ r.kind = "op"
  BY <1>0, RootIs
<1>5. /\ req' \in [Ids -> Request] /\ req'[n] = r /\ \A id \in Ids : id # n => req'[id] = req[id]
  BY <1>0, <1>1, <1>4 DEF Send
<1>6. asked' \in [Servers -> SUBSET Ids] /\ \A s \in Servers : asked'[s] \subseteq asked[s] \cup {n}
  BY <1>0, <1>1 DEF Send
<1>7. Live(n)' /\ Placed(n)'
  BY <1>4, <1>5, IdsAre DEF Live, Placed, IsRoot
<1>8. Changes({}, {n}, {})
  <2>1. UNCHANGED <<moved, moved3>> /\ moved3 \subseteq moved
    BY <1>0 DEF Core, Barren, Send
  <2>. QED BY <1>0, <1>1, <1>2, <1>4, <1>5, <1>6, <1>7, <2>1, IdsAre DEF Changes, Live, Send
<1>9. Blank' /\ Drawn' /\ Tree' /\ Open' /\ Barren'
  BY <1>0, <1>8, TreeThen
<1>10. DOMAIN stack' = {} /\ stack' = <<>>
  BY <1>0 DEF Send
<1>11. Nested' /\ LrHeld' /\ NewIds' /\ Finals' /\ Followed'
  BY <1>10 DEF Nested, LrHeld, NewIds, Finals, Followed
<1>12. \A c \in Ids : Live(c) => req[c].parent # n
  BY <1>0, <1>1, <1>2, IdsAre DEF Core, Tree, Placed, IsRoot, IsChild
<1>13. Grown'
  <2>1. ASSUME NEW id \in Ids, Live(id)', req'[id].parent # 0, NEW c \in Children(id)'
        PROVE  req'[id].st = "completed"
    <3>1. id \in Nat \ {0} /\ c \in Ids
      BY IdsAre DEF Children
    <3>2. c # n /\ Live(c) /\ req[c].parent = id
      BY <1>4, <1>5, <3>1 DEF Children, Live
    <3>3. id # n /\ Live(id)
      BY <1>5, <1>12, <2>1, <3>1, <3>2 DEF Live
    <3>. QED BY <1>0, <1>5, <2>1, <3>1, <3>2, <3>3 DEF Core, Grown, Children, Send
  <2>. QED BY <2>1 DEF Grown
<1>14. Counts'
  <2>. SUFFICES ASSUME NEW p \in Ids, Live(p)'
                PROVE  req'[p].out = Cardinality(Outstanding(p)') + Cardinality(Pending(p)')
    BY DEF Counts
  <2>1. Pending(p)' = {} /\ Pending(p) = {} /\ Cardinality({}) = 0
    BY <1>0, <1>10, FS_EmptySet DEF Pending
  <2>2. OutIn(req', moved3', p) = OutIn(req, moved3, p)
    BY <1>2, <1>4, <1>5, IdsAre DEF OutIn, Live, Send
  <2>3. Outstanding(p)' = OutIn(req, moved3, p)
    BY <1>8, <2>2, OutThen DEF Changes
  <2>4. CASE p = n
    <3>1. Outstanding(p)' = {}
      BY <1>12, <2>3, <2>4 DEF OutIn, Live
    <3>. QED BY <1>4, <1>5, <2>1, <2>4, <3>1
  <2>5. CASE p # n
    BY <1>0, <1>5, <2>1, <2>3, <2>5, OutNow DEF Core, Counts, Live
  <2>. QED BY <2>4, <2>5
<1>15. Core'
  BY <1>9, <1>11, <1>13, <1>14 DEF Core
<1>16. conn' \in [Servers -> Connection]
  <2>1. PICK c \in Connection : c = conn[Default]
    BY <1>0
  <2>2. PICK k \in Int : k = c.refcnt + 1
    BY DEF Connection
  <2>3. [c EXCEPT !.refcnt = k] \in Connection
    BY DEF Connection
  <2>4. conn' = [conn EXCEPT ![Default] = [c EXCEPT !.refcnt = k]]
    BY <2>1, <2>2 DEF Send
  <2>. QED BY <1>0, <2>3, <2>4
<1>17. TypeOK'
  <2>1. ld_msgid' \in 0..MaxMsgid
    BY <1>0, BoundsAssumption
  <2>2. ops' \subseteq Ids /\ aborted' \subseteq ops'
    BY <1>0, <1>1 DEF Send, TypeOK
  <2>. QED BY <1>0, <1>5, <1>6, <1>16, <2>1, <2>2 DEF Send, TypeOK
<1>. QED BY <1>15, <1>17 DEF IInv

(* Abandon: whole families go, and no chase is in progress. *)
LEMMA AbandonStep ==
    ASSUME IInv, NEW id \in Ids, Abandon(id)
    PROVE  IInv'
<1>0. /\ TypeOK /\ Core /\ session = "open" /\ stack = <<>> /\ stack \in Seq(Chase) /\ stack' = <<>>
      /\ ld_msgid \in Nat /\ req \in [Ids -> Request] /\ conn \in [Servers -> Connection]
      /\ asked \in [Servers -> SUBSET Ids] /\ ops \subseteq Ids
      /\ UNCHANGED <<ld_version, ld_msgid, stack, moved, moved3>>
  BY DEF IInv, Abandon, Idle, TypeOK
<1>1. PICK dropped \in BOOLEAN :
        LET gone == IF dropped THEN Family(id) \ {id} ELSE Family(id) \cup {id}
            cs   == LetGo(gone)
        IN  /\ conn' = cs
            /\ abandoned' = abandoned \cup gone
            /\ req' = IF dropped THEN req ELSE Freed(req, id)
            /\ asked' = [s \in Servers |-> StillAsked(cs)[s] \ gone]
  BY DEF Abandon
<1>. DEFINE G == IF dropped THEN {} ELSE Family(id)
<1>2. G \subseteq Ids /\ \A a \in G : Live(a)
  BY DEF Family
<1>3. \A a, b \in Ids : Live(a) /\ Live(b) /\ req[a].orig = req[b].orig => (a \in G <=> b \in G)
  BY DEF Family
<1>4. \A a \in Ids : req'[a] = IF a \in G THEN NoRequest ELSE req[a]
  BY <1>1 DEF Freed
<1>5. req' \in [Ids -> Request]
  <2>1. NoRequest \in Request
    BY ServersAssumption DEF NoRequest, Request
  <2>. QED BY <1>0, <1>1, <2>1 DEF Freed
<1>6. asked' \in [Servers -> SUBSET Ids] /\ \A s \in Servers : asked'[s] \subseteq asked[s]
  <2>1. \A cs : \A s \in Servers : StillAsked(cs)[s] \subseteq asked[s]
    BY DEF StillAsked
  <2>. QED BY <1>0, <1>1, <2>1
<1>. HIDE DEF G
<1>7. Changes(G, {}, {})
  <2>1. moved3 \subseteq moved
    BY <1>0 DEF Core, Barren
  <2>. QED BY <1>0, <1>2, <1>3, <1>4, <1>5, <1>6, <2>1 DEF Changes
<1>8. Blank' /\ Drawn' /\ Tree' /\ Open' /\ Barren'
  BY <1>0, <1>7, TreeThen
<1>9. DOMAIN stack' = {} /\ DOMAIN stack = {}
  BY <1>0
<1>10. Nested' /\ LrHeld' /\ NewIds' /\ Finals' /\ Followed'
  BY <1>0, <1>9 DEF Nested, LrHeld, NewIds, Finals, Followed
<1>11. \A a \in Ids : req'[a].st # "free" => a \notin G /\ req'[a] = req[a]
  BY <1>4 DEF NoRequest
<1>12. Grown'
  <2>1. \A a \in Ids : Children(a)' \subseteq Children(a)
    BY <1>11 DEF Children, Live
  <2>. QED BY <1>0, <1>11, <2>1 DEF Core, Grown, Live
<1>13. Counts'
  <2>. SUFFICES ASSUME NEW p \in Ids, Live(p)'
                PROVE  req'[p].out = Cardinality(Outstanding(p)') + Cardinality(Pending(p)')
    BY DEF Counts
  <2>1. Pending(p)' = {} /\ Pending(p) = {}
    BY <1>9 DEF Pending
  <2>2. Live(p) /\ p \notin G /\ req'[p] = req[p] /\ p > 0
    BY <1>11, IdsAre DEF Live
  <2>3. OutIn(req', moved3', p) = OutIn(req, moved3, p)
    <3>1. ASSUME NEW c \in Ids, Live(c), req[c].parent = p PROVE req'[c] = req[c]
      <4>1. Placed(c)
        BY <1>0, <3>1 DEF Core, Tree
      <4>2. req[c].orig = req[p].orig
        BY <2>2, <3>1, <4>1 DEF Placed, IsRoot, IsChild
      <4>. QED BY <1>3, <1>4, <2>2, <3>1, <4>2
    <3>. QED BY <1>0, <1>11, <3>1 DEF OutIn, Live
  <2>4. Outstanding(p)' = OutIn(req, moved3, p)
    BY <1>0, <2>3, OutThen
  <2>. QED BY <1>0, <2>1, <2>2, <2>4, OutNow DEF Core, Counts
<1>14. Core'
  BY <1>8, <1>10, <1>12, <1>13 DEF Core
<1>15. conn' \in [Servers -> Connection]
  <2>1. ASSUME NEW ids \in SUBSET Ids, NEW s \in Servers PROVE LetGo(ids)[s] \in Connection
    <3>. DEFINE T == {i \in ids : req[i].conn = s /\ req[i].st = "inprogress"}
                n == Cardinality(T)
    <3>1. n \in Nat
      <4>1. T \subseteq Ids /\ IsFiniteSet(Ids)
        BY <1>0, Finite
      <4>. HIDE DEF T
      <4>. QED BY <4>1, FS_Subset, FS_CardinalityType
    <3>2. LetGo(ids)[s] = IF n = 0 THEN conn[s] ELSE Dropped(conn, s, n)[s]
      BY DEF LetGo
    <3>. HIDE DEF n
    <3>3. PICK c \in Connection : c = conn[s]
      BY <1>0
    <3>4. PICK k \in Int : k = c.refcnt - n
      BY <3>1 DEF Connection
    <3>5. [c EXCEPT !.refcnt = k] \in Connection /\ NoConnection \in Connection
      <4>1. NoConnection \in Connection
        BY DEF NoConnection, Connection
      <4>2. [c EXCEPT !.refcnt = k] \in Connection
        BY DEF Connection
      <4>. QED BY <4>1, <4>2
    <3>6. Dropped(conn, s, n)[s] = IF k <= 0 THEN NoConnection ELSE [c EXCEPT !.refcnt = k]
      BY <1>0, <3>3, <3>4 DEF Dropped
    <3>. QED BY <3>2, <3>3, <3>5, <3>6
  <2>2. Family(id) \ {id} \subseteq Ids /\ Family(id) \cup {id} \subseteq Ids
    BY DEF Family
  <2>3. PICK ids \in SUBSET Ids : conn' = LetGo(ids)
    BY <1>1, <2>2
  <2>4. conn' = [s \in Servers |-> LetGo(ids)[s]]
    BY <2>3 DEF LetGo
  <2>. QED BY <2>1, <2>4
<1>16. TypeOK'
  <2>1. abandoned' \subseteq Ids
    <3>1. Family(id) \subseteq Ids
      BY DEF Family
    <3>. QED BY <1>0, <1>1, <3>1 DEF TypeOK
  <2>2. unread' \subseteq Ids /\ ops' = ops /\ aborted' \subseteq ops
    BY <1>0 DEF Abandon, TypeOK
  <2>. QED BY <1>0, <1>5, <1>6, <1>15, <2>1, <2>2 DEF Abandon, TypeOK
<1>. QED BY <1>14, <1>16 DEF IInv

-----------------------------------------------------------------------------
(* A referral or a reference: the stack grows. *)
LEMMA ReadRefsStep ==
    ASSUME IInv, NEW id \in Ids, NEW refs \in RefLists, NEW v3 \in BOOLEAN, NEW final \in BOOLEAN,
           ReadRefs(id, refs, v3, final)
    PROVE  IInv'
<1>0. /\ TypeOK /\ Core /\ session = "open" /\ stack \in Seq(Chase) /\ ld_msgid \in Nat
      /\ req \in [Ids -> Request] /\ asked \in [Servers -> SUBSET Ids]
      /\ UNCHANGED <<ld_version, ld_msgid, req, moved, moved3>>
      /\ v3 \/ final
      /\ DOMAIN stack = 1..Len(stack) /\ Len(stack) \in Nat
      /\ \A s \in Servers : asked'[s] \subseteq asked[s]
      /\ asked' \in [Servers -> SUBSET Ids]
      /\ final => id \notin asked'[req[id].conn]
  <2>1. /\ TypeOK /\ session = "open" /\ stack \in Seq(Chase) /\ ld_msgid \in Nat
        /\ req \in [Ids -> Request] /\ asked \in [Servers -> SUBSET Ids]
    BY DEF IInv, ReadRefs, Answers, Reading, TypeOK
  <2>2. req[id].conn \in Servers
    BY <2>1, RequestIs
  <2>3. asked' = IF final THEN [asked EXCEPT ![req[id].conn] = @ \ {id}] ELSE asked
    BY DEF ReadRefs
  <2>4. /\ \A s \in Servers : asked'[s] \subseteq asked[s]
        /\ asked' \in [Servers -> SUBSET Ids]
        /\ final => id \notin asked'[req[id].conn]
    BY <2>1, <2>2, <2>3
  <2>. QED BY <2>1, <2>4 DEF IInv, ReadRefs
<1>1. \A k \in DOMAIN stack : stack[k].st \in InBind /\ k \in Nat \ {0} /\ k + 1 > 1
  <2>1. stack # <<>> => stack[1].st \in InBind
    BY <1>0, TopIs DEF ReadRefs, Answers, Reading, InBind
  <2>. QED BY <1>0, <2>1 DEF Core, Nested
<1>2. Live(id) /\ Unanswered(id) /\ req[id].kind = "op" /\ req[id].st # "completed"
  BY <1>0 DEF ReadRefs, Answers, Unanswered, Core, Open
<1>3. PICK f \in Chase : /\ stack' = <<f>> \o stack
                         /\ f.lr = id /\ f.final = final /\ f.v3 = v3 /\ f.st = "next"
  <2>1. PICK i \in Nat \ {0} : i = IF req[id].hops >= HopLimit THEN Len(refs) + 1 ELSE 1
    BY RefListsAssumption
  <2>2. 0 \in Nat
    OBVIOUS
  <2>. DEFINE g == [lr |-> id, v3 |-> v3, final |-> final, refs |-> refs, i |-> i, st |-> "next", new |-> 0, bind |-> 0]
  <2>3. g \in Chase /\ g.lr = id /\ g.final = final /\ g.v3 = v3 /\ g.st = "next"
    BY <2>1, <2>2 DEF Chase
  <2>4. stack' = <<g>> \o stack
    BY <2>1 DEF ReadRefs
  <2>. HIDE DEF g
  <2>. QED BY <2>3, <2>4
<1>4. /\ stack' \in Seq(Chase) /\ stack' # <<>> /\ Top' = f
      /\ DOMAIN stack' = {1} \cup {k + 1 : k \in DOMAIN stack}
      /\ stack'[1] = f /\ \A k \in DOMAIN stack : stack'[k + 1] = stack[k]
  BY <1>0, <1>3, Pushed
<1>5. \A k \in DOMAIN stack' : k = 1 \/ \E j \in DOMAIN stack : k = j + 1 /\ stack'[k] = stack[j]
  BY <1>4
<1>6. Changes({}, {}, {})
  <2>1. moved3 \subseteq moved
    BY <1>0 DEF Core, Barren
  <2>. QED BY <1>0, <2>1 DEF Changes
<1>7. Blank' /\ Drawn' /\ Tree' /\ Open' /\ Barren'
  BY <1>0, <1>6, TreeThen
<1>8. Nested'
  BY <1>1, <1>5 DEF Nested
<1>9. LrHeld'
  BY <1>0, <1>2, <1>3, <1>4, <1>5 DEF Core, LrHeld, Live
<1>10. NewIds'
  <2>1. f.st \notin InBind
    BY <1>3 DEF InBind
  <2>. SUFFICES ASSUME NEW k \in DOMAIN stack', stack'[k].st \in InBind
                PROVE  /\ stack'[k].new \in Ids /\ stack'[k].lr < stack'[k].new /\ stack'[k].new <= ld_msgid
                       /\ req[stack'[k].new].st = "free" /\ stack'[k].new \notin moved
                       /\ \A j \in DOMAIN stack' : j # k /\ stack'[j].st \in InBind => stack'[j].new # stack'[k].new
    BY <1>0 DEF NewIds, Live
  <2>2. PICK a \in DOMAIN stack : k = a + 1 /\ stack'[k] = stack[a] /\ stack[a].st \in InBind
    BY <1>4, <1>5, <2>1
  <2>3. ASSUME NEW j \in DOMAIN stack', j # k, stack'[j].st \in InBind
        PROVE  stack'[j].new # stack'[k].new
    <3>1. PICK b \in DOMAIN stack : j = b + 1 /\ stack'[j] = stack[b] /\ stack[b].st \in InBind
      BY <1>4, <1>5, <2>1, <2>3
    <3>. QED BY <1>0, <2>2, <2>3, <3>1 DEF Core, NewIds
  <2>. QED BY <1>0, <2>2, <2>3 DEF Core, NewIds, Live
<1>11. Finals'
  <2>1. ASSUME NEW a \in DOMAIN stack, stack[a].final PROVE stack[a].lr # id
    BY <1>0, <1>2, <2>1 DEF Core, Finals
  <2>2. ASSUME NEW a \in DOMAIN stack
        PROVE  /\ stack[a].v3 \/ stack[a].final
               /\ stack[a].final => /\ req[stack[a].lr].st # "completed"
                                    /\ stack[a].lr \notin asked'[req[stack[a].lr].conn]
                                    /\ stack[a].lr # id
                                    /\ \A b \in DOMAIN stack : b # a /\ stack[b].final => stack[b].lr # stack[a].lr
    <3>1. stack[a] \in Chase
      BY <1>0
    <3>2. stack[a].lr \in Ids
      BY <3>1 DEF Chase
    <3>3. req[stack[a].lr].conn \in Servers
      BY <1>0, <3>2, RequestIs
    <3>. QED BY <1>0, <2>1, <3>3 DEF Core, Finals, Unanswered
  <2>. SUFFICES ASSUME NEW k \in DOMAIN stack'
                PROVE  /\ stack'[k].v3 \/ stack'[k].final
                       /\ stack'[k].final =>
                             /\ req[stack'[k].lr].st # "completed"
                             /\ stack'[k].lr \notin asked'[req[stack'[k].lr].conn]
                             /\ \A j \in DOMAIN stack' : j # k /\ stack'[j].final => stack'[j].lr # stack'[k].lr
    BY <1>0 DEF Finals, Unanswered
  <2>3. CASE k = 1
    <3>1. stack'[k] = f /\ f.lr = id /\ f.final = final /\ f.v3 = v3
      BY <1>3, <1>4, <2>3
    <3>2. \A j \in DOMAIN stack' : j # k /\ stack'[j].final => stack'[j].lr # id
      BY <1>5, <2>2, <2>3
    <3>. QED BY <1>0, <1>2, <3>1, <3>2
  <2>4. CASE k # 1
    <3>1. PICK a \in DOMAIN stack : k = a + 1 /\ stack'[k] = stack[a]
      BY <1>5, <2>4
    <3>2. ASSUME NEW j \in DOMAIN stack', j # k, stack'[j].final, stack[a].final
          PROVE  stack'[j].lr # stack[a].lr
      <4>1. CASE j = 1
        BY <1>3, <1>4, <2>1, <3>2, <4>1
      <4>2. CASE j # 1
        <5>1. PICK b \in DOMAIN stack : j = b + 1 /\ stack'[j] = stack[b] /\ b # a
          BY <1>5, <3>1, <3>2, <4>2
        <5>. QED BY <2>2, <3>2, <5>1
      <4>. QED BY <4>1, <4>2
    <3>. QED BY <2>2, <3>1, <3>2
  <2>. QED BY <2>3, <2>4
<1>12. Grown'
  <2>1. ~(stack # <<>> /\ Top.st = "followed")
    BY <1>0, <1>1, TopIs DEF InBind
  <2>2. \A a \in Ids : Children(a)' = Children(a)
    BY <1>0 DEF Children, Live
  <2>. QED BY <1>0, <2>1, <2>2 DEF Core, Grown, Live
<1>13. Followed'
  BY <1>3, <1>4 DEF Followed
<1>14. Counts'
  <2>. SUFFICES ASSUME NEW p \in Ids, Live(p)'
                PROVE  req'[p].out = Cardinality(Outstanding(p)') + Cardinality(Pending(p)')
    BY DEF Counts
  <2>1. Live(p) /\ Outstanding(p)' = Outstanding(p)
    BY <1>0, OutNow, OutThen DEF Live
  <2>2. Pending(p)' = {k \in DOMAIN stack' : stack'[k].st \in InBind /\ Parent(stack'[k]) = p}
    BY <1>0 DEF Pending, Parent, InBind
  <2>3. Pending(p)' = {k + 1 : k \in Pending(p)}
    <3>1. f.st \notin InBind
      BY <1>3 DEF InBind
    <3>2. Pending(p) = {k \in DOMAIN stack : stack[k].st \in InBind /\ Parent(stack[k]) = p}
      BY DEF Pending, InBind
    <3>3. ASSUME NEW k \in Pending(p)' PROVE k \in {j + 1 : j \in Pending(p)}
      <4>1. PICK j \in DOMAIN stack : k = j + 1 /\ stack'[k] = stack[j]
        BY <1>4, <1>5, <2>2, <3>1
      <4>2. j \in Pending(p)
        BY <2>2, <3>2, <4>1
      <4>. QED BY <4>1, <4>2
    <3>4. ASSUME NEW j \in Pending(p) PROVE j + 1 \in Pending(p)'
      <4>1. j \in DOMAIN stack /\ j + 1 \in DOMAIN stack' /\ stack'[j + 1] = stack[j]
        BY <1>4, <3>2
      <4>. QED BY <2>2, <3>2, <4>1
    <3>. QED BY <3>3, <3>4
  <2>4. Cardinality(Pending(p)') = Cardinality(Pending(p))
    BY <1>0, <2>3, Finite, ShiftCard
  <2>. QED BY <1>0, <2>1, <2>4 DEF Core, Counts
<1>15. Core'
  BY <1>7, <1>8, <1>9, <1>10, <1>11, <1>12, <1>13, <1>14 DEF Core
<1>16. TypeOK'
  <2>1. refsLeft' \in 0..MaxRefs
    <3>1. refsLeft \in 0..MaxRefs /\ refsLeft > 0 /\ refsLeft' = refsLeft - 1
      BY <1>0 DEF ReadRefs, TypeOK
    <3>. QED BY <3>1, BoundsAssumption
  <2>. QED BY <1>0, <1>4, <2>1 DEF ReadRefs, TypeOK
<1>. QED BY <1>15, <1>16 DEF IInv

-----------------------------------------------------------------------------
(* The steps of the innermost chase that change a count: p is the request  *)
(* it counts in.                                                           *)
LEMMA CountsIn ==
    ASSUME IInv, session = "open", stack # <<>>
    PROVE  \E p \in Ids :
              /\ p = Parent(Top) /\ Live(p) /\ p <= Top.lr /\ req[p].kind = "op"
              /\ p <= ld_msgid
              /\ ~Top.v3 => /\ p = Top.lr /\ Top.final
                            /\ req[p].st # "completed" /\ ~Unanswered(p) /\ p \notin moved3
              /\ Top.v3 => req[p].parent = 0 /\ req[p].orig = p
<1>0. TypeOK /\ Core /\ stack \in Seq(Chase) /\ Top = stack[1] /\ 1 \in DOMAIN stack /\ Top.lr \in Ids
  BY TopPicked DEF IInv
<1>1. PICK l \in Ids : l = Top.lr /\ Live(l) /\ req[l].kind = "op"
  BY <1>0 DEF Core, LrHeld
<1>2. CASE ~Top.v3
  BY <1>0, <1>1, <1>2, IdsAre DEF Core, Finals, Barren, Drawn, Parent
<1>3. CASE Top.v3
  <2>1. PICK o \in Ids : o = req[l].orig /\ Live(o) /\ IsRoot(o) /\ req[o].kind = "op" /\ o <= l
    <3>1. Placed(l)
      BY <1>0, <1>1 DEF Core, Tree
    <3>. QED BY <1>1, <1>3, <3>1, IdsAre DEF Placed, IsRoot, IsChild
  <2>. QED BY <1>0, <1>1, <1>3, <2>1 DEF Core, Drawn, Parent, IsRoot
<1>. QED BY <1>0, <1>2, <1>3

(* What a chase waits for counts nowhere but there. *)
LEMMA PendingThen ==
    ASSUME IInv, session = "open", stack # <<>>, NEW f \in Chase, TopBecomes(f), f.lr = Top.lr, f.v3 = Top.v3,
           \A id \in Ids : Live(id) => req'[id].orig = req[id].orig,
           NEW p, p = Parent(Top)
    PROVE  /\ \A x : x # p => Pending(x)' = Pending(x)
           /\ f.st \in InBind /\ Top.st \notin InBind =>
                 Cardinality(Pending(p)') = Cardinality(Pending(p)) + 1
           /\ f.st \notin InBind /\ Top.st \in InBind =>
                 Cardinality(Pending(p)') = Cardinality(Pending(p)) - 1
           /\ f.st \notin InBind /\ Top.st \notin InBind => Pending(p)' = Pending(p)
           /\ \A x \in Ids : ~Live(x) => Pending(x) = {}
<1>0. /\ TypeOK /\ Core /\ stack \in Seq(Chase) /\ Top = stack[1] /\ 1 \in DOMAIN stack
      /\ \A k \in DOMAIN stack : /\ stack[k].lr \in Ids /\ Live(stack[k].lr)
                                 /\ Parent(stack[k]) \in Ids /\ Live(Parent(stack[k]))
  <2>1. TypeOK /\ Core /\ stack \in Seq(Chase) /\ Top = stack[1] /\ 1 \in DOMAIN stack
    BY TopPicked DEF IInv
  <2>2. \A k \in DOMAIN stack : stack[k] \in Chase
    BY <2>1
  <2>3. \A k \in DOMAIN stack : stack[k].lr \in Ids /\ Live(stack[k].lr)
    BY <2>1, <2>2 DEF Chase, Core, LrHeld
  <2>. QED BY <2>1, <2>3 DEF Core, Tree, Placed, Parent
<1>1. /\ DOMAIN stack' = DOMAIN stack /\ stack'[1] = f
      /\ \A k \in DOMAIN stack : k # 1 => stack'[k] = stack[k]
  BY <1>0, Replaced
<1>2. \A k \in DOMAIN stack : stack'[k].lr = stack[k].lr /\ stack'[k].v3 = stack[k].v3 /\ req'[stack[k].lr].orig = req[stack[k].lr].orig
  BY <1>0, <1>1
<1>. DEFINE P(x) == {k \in DOMAIN stack : Parent(stack[k]) = x}
<1>3. \A x : Pending(x) = {k \in P(x) : stack[k].st \in InBind}
  BY DEF Pending, InBind
<1>4. \A x : Pending(x)' = {k \in P(x) : stack'[k].st \in InBind}
  BY <1>1, <1>2 DEF Pending, InBind, Parent
<1>5. 1 \in P(p) /\ \A x : x # p => 1 \notin P(x)
  BY <1>0
<1>6. \A x : P(x) \subseteq DOMAIN stack
  OBVIOUS
<1>. HIDE DEF P
<1>7. \A x : x # p => Pending(x)' = Pending(x)
  BY <1>1, <1>3, <1>4, <1>5, <1>6
<1>8. IsFiniteSet(Pending(p))
  BY <1>0, Finite
<1>9. ASSUME f.st \in InBind, Top.st \notin InBind
      PROVE  Cardinality(Pending(p)') = Cardinality(Pending(p)) + 1
  <2>1. Pending(p)' = Pending(p) \cup {1} /\ 1 \notin Pending(p)
    BY <1>0, <1>1, <1>3, <1>4, <1>5, <1>6, <1>9
  <2>. QED BY <1>8, <2>1, FS_AddElement
<1>10. ASSUME f.st \notin InBind, Top.st \in InBind
       PROVE  Cardinality(Pending(p)') = Cardinality(Pending(p)) - 1
  <2>1. Pending(p)' = Pending(p) \ {1} /\ 1 \in Pending(p)
    BY <1>0, <1>1, <1>3, <1>4, <1>5, <1>6, <1>10
  <2>. QED BY <1>8, <2>1, FS_RemoveElement
<1>11. ASSUME f.st \notin InBind, Top.st \notin InBind
       PROVE  Pending(p)' = Pending(p)
  BY <1>0, <1>1, <1>3, <1>4, <1>5, <1>6, <1>11
<1>12. \A x \in Ids : ~Live(x) => Pending(x) = {}
  BY <1>0 DEF Pending
<1>. QED BY <1>7, <1>9, <1>10, <1>11, <1>12

LEMMA CountsThen ==
    ASSUME IInv, session = "open", stack # <<>>, NEW N, Changes({}, N, {}), UNCHANGED moved3,
           NEW p \in Ids, p = Parent(Top), NEW e \in Int,
           \A id \in Ids : id \notin N =>
              /\ req'[id].st = req[id].st
              /\ req'[id].out = IF id = p THEN req[id].out + e ELSE req[id].out,
           \A n \in N : req'[n].out = 0 /\ req'[n].parent \in {0, p},
           \A x : x # p => Pending(x)' = Pending(x),
           \A x \in Ids : ~Live(x) => Pending(x) = {},
           Cardinality(Pending(p)') = Cardinality(Pending(p)) + e - Cardinality({n \in N : req'[n].parent = p})
    PROVE  Counts'
<1>0. /\ TypeOK /\ Core /\ N \subseteq Ids /\ moved3' = moved3
      /\ \A id \in Ids : id > 0 /\ id \in Nat
  BY IdsAre DEF IInv, Changes
<1>. DEFINE K == {n \in N : req'[n].parent = p}
<1>1. /\ Live(p) /\ p \notin N
      /\ req[p].st # "completed" \/ req[p].parent = 0
  <2>1. \E q \in Ids : /\ q = Parent(Top) /\ Live(q)
                       /\ req[q].st # "completed" \/ req[q].parent = 0
    BY CountsIn
  <2>. QED BY <2>1 DEF Changes
<1>2. ASSUME NEW c \in Ids, c \notin N
      PROVE  req'[c].parent = req[c].parent /\ req'[c].st = req[c].st
  BY <1>2 DEF Changes
<1>3. ASSUME NEW x \in Ids, NEW c \in Ids, c \notin N
      PROVE  c \in OutIn(req', moved3', x) <=> c \in OutIn(req, moved3, x)
  <2>1. CASE c # p
    BY <1>0, <1>2, <1>3, <2>1 DEF OutIn
  <2>2. CASE c = p
    BY <1>0, <1>1, <1>2, <1>3, <2>2 DEF OutIn
  <2>. QED BY <2>1, <2>2
<1>4. ASSUME NEW x \in Ids, NEW n \in N
      PROVE  /\ n \notin OutIn(req, moved3, x)
             /\ n \in OutIn(req', moved3', x) <=> req'[n].parent = x
  BY <1>0, <1>4 DEF OutIn, Changes, Live
<1>5. ASSUME NEW x \in Ids, x # p
      PROVE  OutIn(req', moved3', x) = OutIn(req, moved3, x)
  <2>1. \A n \in N : req'[n].parent # x
    BY <1>0, <1>5
  <2>2. \A r, m : OutIn(r, m, x) \subseteq Ids
    BY DEF OutIn
  <2>3. \A c \in Ids : c \in OutIn(req', moved3', x) <=> c \in OutIn(req, moved3, x)
    BY <1>3, <1>4, <2>1
  <2>. QED BY <2>2, <2>3
<1>6. OutIn(req', moved3', p) = OutIn(req, moved3, p) \cup K /\ OutIn(req, moved3, p) \cap K = {}
  <2>1. \A r, m : OutIn(r, m, p) \subseteq Ids
    BY DEF OutIn
  <2>2. \A c \in Ids : c \in OutIn(req', moved3', p) <=> c \in OutIn(req, moved3, p) \/ c \in K
    BY <1>3, <1>4
  <2>3. K \subseteq Ids
    BY <1>0
  <2>. QED BY <1>4, <2>1, <2>2, <2>3
<1>7. /\ Cardinality(OutIn(req', moved3', p)) = Cardinality(OutIn(req, moved3, p)) + Cardinality(K)
      /\ Cardinality(K) \in Nat
  <2>1. IsFiniteSet(K) /\ IsFiniteSet(OutIn(req, moved3, p))
    <3>1. K \subseteq Ids
      BY <1>0
    <3>2. IsFiniteSet(Ids) /\ IsFiniteSet(OutIn(req, moved3, p))
      BY <1>0, Finite
    <3>. QED BY <3>1, <3>2, FS_Subset
  <2>. HIDE DEF K
  <2>2. Cardinality(OutIn(req, moved3, p) \cup K) =
          Cardinality(OutIn(req, moved3, p)) + Cardinality(K) - Cardinality({})
    BY <1>6, <2>1, FS_Union
  <2>3. Cardinality({}) = 0 /\ Cardinality(K) \in Nat /\ Cardinality(OutIn(req, moved3, p)) \in Nat
    BY <2>1, FS_EmptySet, FS_CardinalityType
  <2>. QED BY <1>6, <2>2, <2>3
<1>. SUFFICES ASSUME NEW x \in Ids, Live(x)'
              PROVE  req'[x].out = Cardinality(Outstanding(x)') + Cardinality(Pending(x)')
  BY DEF Counts
<1>8. Outstanding(x)' = OutIn(req', moved3', x)
  BY <1>0, OutThen
<1>9. CASE x \in N
  <2>1. Pending(x)' = {} /\ x # p /\ ~Live(x)
    BY <1>1, <1>9 DEF Changes
  <2>2. OutIn(req, moved3, x) = {}
    <3>1. \A c \in Ids : Live(c) => req[c].parent # x
      BY <1>0, <2>1 DEF Core, Tree, Placed, IsRoot, IsChild
    <3>. QED BY <3>1 DEF OutIn, Live
  <2>3. Cardinality({}) = 0
    BY FS_EmptySet
  <2>4. Outstanding(x)' = {}
    BY <1>5, <1>8, <2>1, <2>2
  <2>. QED BY <1>9, <2>1, <2>3, <2>4
<1>10. CASE x \notin N
  <2>1. Live(x)
    BY <1>10 DEF Changes, Live
  <2>2. req[x].out = Cardinality(OutIn(req, moved3, x)) + Cardinality(Pending(x))
    BY <1>0, <2>1, OutNow DEF Core, Counts
  <2>3. CASE x # p
    BY <1>5, <1>8, <1>10, <2>2, <2>3
  <2>4. CASE x = p
    <3>1. Cardinality(Pending(p)) \in Nat /\ Cardinality(OutIn(req, moved3, p)) \in Nat
      BY <1>0, Finite
    <3>2. Cardinality(Pending(p)') = Cardinality(Pending(p)) + e - Cardinality(K)
      OBVIOUS
    <3>3. req'[p].out = req[p].out + e
      BY <1>10, <2>4
    <3>4. Pending(x)' = Pending(p)' /\ Pending(x) = Pending(p)
      BY <2>4
    <3>. HIDE DEF K
    <3>5. Cardinality(OutIn(req', moved3', p)) + Cardinality(Pending(p)') = req'[p].out
      <4>1. PICK a \in Nat, b \in Nat, c \in Nat :
               /\ a = Cardinality(OutIn(req, moved3, p)) /\ b = Cardinality(Pending(p)) /\ c = Cardinality(K)
        BY <1>7, <3>1
      <4>2. req[p].out = a + b
        BY <2>2, <2>4, <4>1
      <4>3. Cardinality(OutIn(req', moved3', p)) = a + c
        BY <1>7, <4>1
      <4>4. Cardinality(Pending(p)') = b + e - c
        BY <3>2, <4>1
      <4>5. req'[p].out = (a + b) + e
        BY <3>3, <4>2
      <4>. QED BY <4>3, <4>4, <4>5
    <3>. QED BY <1>8, <2>4, <3>4, <3>5
  <2>. QED BY <2>3, <2>4
<1>. QED BY <1>9, <1>10

(* A child is sent, on a connection that is there or after its bind: the   *)
(* chase becomes f, the child n of p goes to s, and p counts e more.       *)
Sends(f, n, p, s, e) ==
    /\ TopBecomes(f) /\ f.lr = Top.lr /\ f.final = Top.final /\ f.v3 = Top.v3
    /\ f.st \in {"next", "followed"} /\ (~f.v3 => f.st = "followed")
    /\ ~Live(n) /\ n \notin moved /\ Top.lr < n
    /\ ld_msgid' \in Nat /\ ld_msgid' >= ld_msgid /\ n <= ld_msgid'
    /\ \A k \in DOMAIN stack : k # 1 /\ stack[k].st \in InBind => stack[k].new # n
    /\ p = Parent(Top) /\ e = IF Top.st = "next" THEN 1 ELSE 0
    /\ req' \in [Ids -> Request] /\ req'[n] = Child(p, s)
    /\ \A id \in Ids : id # n =>
          /\ id # p => req'[id] = req[id]
          /\ req'[id].st = req[id].st /\ req'[id].parent = req[id].parent
          /\ req'[id].orig = req[id].orig /\ req'[id].kind = req[id].kind
          /\ req'[id].conn = req[id].conn
          /\ req'[id].out = IF id = p THEN req[id].out + e ELSE req[id].out
    /\ \A x \in Servers : \A id \in asked'[x] : id \in asked[x] \/ id = n
    /\ UNCHANGED <<ld_version, moved, moved3>>

LEMMA ChildThen ==
    ASSUME IInv, session = "open", stack # <<>>, Top.st \in {"next", "bound"},
           NEW f \in Chase, NEW n \in Ids, NEW p \in Ids, NEW s \in Servers, NEW e \in Int,
           Sends(f, n, p, s, e)
    PROVE  Core' /\ stack' \in Seq(Chase)
<1>. USE DEF Sends
<1>0. /\ TypeOK /\ Core /\ stack \in Seq(Chase) /\ Top = stack[1] /\ 1 \in DOMAIN stack
      /\ \A id \in Ids : id > 0 /\ id \in Nat
  BY TopPicked, IdsAre DEF IInv
<1>1. /\ Live(p) /\ p <= Top.lr /\ req[p].kind = "op"
      /\ ~Top.v3 => p = Top.lr /\ Top.final /\ req[p].st # "completed" /\ ~Unanswered(p) /\ p \notin moved3
      /\ Top.v3 => req[p].parent = 0 /\ req[p].orig = p
  <2>1. \E q \in Ids :
              /\ q = Parent(Top) /\ Live(q) /\ q <= Top.lr /\ req[q].kind = "op"
              /\ ~Top.v3 => /\ q = Top.lr /\ Top.final
                            /\ req[q].st # "completed" /\ ~Unanswered(q) /\ q \notin moved3
              /\ Top.v3 => req[q].parent = 0 /\ req[q].orig = q
    BY CountsIn
  <2>. QED BY <2>1
<1>2. p < n
  <2>1. Top.lr \in Ids
    BY <1>0, TopPicked
  <2>. QED BY <1>0, <1>1, <2>1
<1>3. /\ req'[n].st = "inprogress" /\ req'[n].out = 0 /\ req'[n].parent = p
      /\ req'[n].orig = req[p].orig /\ req'[n].kind = "op"
  BY <1>0, ChildIs
<1>4. Live(n)' /\ Placed(n)'
  <2>1. PICK o \in Ids : o = req[p].orig /\ Live(o) /\ IsRoot(o) /\ req[o].kind = "op" /\ o <= p
    BY <1>0, <1>1 DEF Core, Tree, Placed
  <2>2. o # n /\ Live(o)' /\ IsRoot(o)' /\ req'[o].kind = "op" /\ req'[n].orig = o /\ o <= n
    BY <1>0, <1>2, <1>3, <2>1 DEF Live, IsRoot
  <2>3. Live(p)' /\ req'[p].orig = o
    BY <1>1, <1>2, <2>1 DEF Live
  <2>4. IsChild(n)'
    BY <1>2, <1>3, <2>2, <2>3 DEF IsChild, Live
  <2>. QED BY <1>3, <2>2, <2>4 DEF Placed, Live, IsRoot
<1>5. Changes({}, {n}, {})
  <2>1. \A id \in Ids : id # n /\ req[id].st = "free" => req'[id] = req[id]
    BY <1>1 DEF Live
  <2>2. /\ n <= ld_msgid' /\ n \notin moved' /\ req'[n].st # "completed" /\ req'[n].parent \notin {n}
        /\ LET q == req'[n].parent
           IN  q # 0 /\ req[q].parent # 0 => ~Unanswered(q) /\ q \notin moved3'
    BY <1>0, <1>1, <1>2, <1>3
  <2>3. moved3' \subseteq moved'
    BY <1>0 DEF Core, Barren
  <2>. QED BY <1>4, <2>1, <2>2, <2>3 DEF Changes
<1>6. /\ stack' \in Seq(Chase) /\ stack' # <<>> /\ DOMAIN stack' = DOMAIN stack
      /\ stack'[1] = f /\ Top' = f /\ \A k \in DOMAIN stack : k # 1 => stack'[k] = stack[k]
  BY <1>0, Replaced
<1>7. Kept(0) /\ Known(0)
  <2>1. \A k \in DOMAIN stack :
              /\ stack'[k].lr = stack[k].lr /\ stack'[k].final = stack[k].final /\ stack'[k].v3 = stack[k].v3
              /\ stack'[k].st \in InBind => stack[k].st \in InBind /\ stack'[k].new = stack[k].new
              /\ k > 1 /\ stack[k].st \in InBind => stack'[k].st \in InBind
    BY <1>0, <1>6 DEF InBind
  <2>. QED BY <1>0, <1>6, <2>1, Unmoved
<1>8. \A k \in DOMAIN stack' : stack'[k].st \in InBind => stack'[k].new \notin {n}
  BY <1>6 DEF InBind
<1>9. Blank' /\ Drawn' /\ Tree' /\ Open' /\ Barren'
  BY <1>5, TreeThen
<1>10. Nested' /\ LrHeld' /\ NewIds' /\ Finals'
  <2>1. \A k \in DOMAIN stack' : stack'[k].lr \notin {} /\ (stack'[k].final => stack'[k].lr \notin {})
    OBVIOUS
  <2>. QED BY <1>5, <1>7, <1>8, <2>1, FramesThen
<1>11. Grown'
  <2>1. ASSUME NEW id \in Ids, Live(id)', req'[id].parent # 0, NEW c \in Children(id)'
        PROVE  req'[id].st = "completed" \/ (stack' # <<>> /\ Top'.lr = id /\ Top'.st = "followed" /\ ~Top'.v3)
    <3>1. c \in Ids /\ Live(c)' /\ req'[c].parent = id
      BY DEF Children
    <3>2. CASE c = n
      BY <1>0, <1>1, <1>3, <1>6, <2>1, <3>1, <3>2
    <3>3. CASE c # n
      <4>1. Live(c) /\ req[c].parent = id
        BY <3>1, <3>3 DEF Live
      <4>2. id # n
        BY <1>0, <3>1, <4>1 DEF Core, Tree, Placed, IsRoot, IsChild
      <4>3. Live(id) /\ c \in Children(id) /\ req[id].parent # 0
        BY <2>1, <3>1, <4>1, <4>2 DEF Live, Children
      <4>4. req[id].st = "completed"
        BY <1>0, <2>1, <4>3 DEF Core, Grown
      <4>. QED BY <4>2, <4>4
    <3>. QED BY <3>2, <3>3
  <2>. QED BY <2>1 DEF Grown
<1>12. Counts'
  <2>0. \A id \in Ids : Live(id) => req'[id].orig = req[id].orig
    OBVIOUS
  <2>1. /\ \A x : x # p => Pending(x)' = Pending(x)
        /\ \A x \in Ids : ~Live(x) => Pending(x) = {}
        /\ Top.st \in InBind => Cardinality(Pending(p)') = Cardinality(Pending(p)) - 1
        /\ Top.st \notin InBind => Pending(p)' = Pending(p)
    <3>1. f.st \notin InBind
      BY DEF InBind
    <3>. QED BY <2>0, <3>1, PendingThen
  <2>2. Cardinality({m \in {n} : req'[m].parent = p}) = 1
    <3>1. {m \in {n} : req'[m].parent = p} = {n}
      BY <1>3
    <3>2. Cardinality({n}) = 1
      BY FS_Singleton
    <3>. QED BY <3>1, <3>2
  <2>3. Cardinality(Pending(p)) \in Nat
    BY <1>0, Finite
  <2>4. Cardinality(Pending(p)') = Cardinality(Pending(p)) + e - Cardinality({m \in {n} : req'[m].parent = p})
    <3>1. CASE Top.st = "next"
      BY <2>1, <2>2, <2>3, <3>1 DEF InBind
    <3>2. CASE Top.st = "bound"
      BY <2>1, <2>2, <2>3, <3>2 DEF InBind
    <3>. QED BY <3>1, <3>2
  <2>5. /\ \A id \in Ids : id \notin {n} =>
              /\ req'[id].st = req[id].st
              /\ req'[id].out = IF id = p THEN req[id].out + e ELSE req[id].out
        /\ \A m \in {n} : req'[m].out = 0 /\ req'[m].parent \in {0, p}
    BY <1>3
  <2>. QED BY <1>5, <2>1, <2>4, <2>5, CountsThen
<1>13. Followed'
  <2>1. req'[p].out > 0
    <3>1. n \in OutIn(req', moved3', p) /\ Live(p)'
      BY <1>1, <1>2, <1>3 DEF OutIn, Live
    <3>2. Outstanding(p)' = OutIn(req', moved3', p)
      BY OutThen
    <3>3. req'[p].out = Cardinality(OutIn(req', moved3', p)) + Cardinality(Pending(p)')
      BY <1>12, <3>1, <3>2 DEF Counts
    <3>4. Cardinality(OutIn(req', moved3', p)) \in Nat /\ Cardinality(OutIn(req', moved3', p)) # 0
      <4>1. IsFiniteSet(OutIn(req', moved3', p)) /\ Cardinality(OutIn(req', moved3', p)) \in Nat
        BY <1>0, Finite
      <4>. QED BY <3>1, <4>1, FS_EmptySet
    <3>5. Cardinality(Pending(p)') \in Nat
      <4>1. DOMAIN stack' = 1..Len(stack') /\ Len(stack') \in Nat
        BY <1>6
      <4>2. Pending(p)' \subseteq 1..Len(stack')
        BY <4>1 DEF Pending
      <4>3. IsFiniteSet(1..Len(stack'))
        BY <4>1, FS_Interval
      <4>4. IsFiniteSet(Pending(p)')
        BY <4>2, <4>3, FS_Subset
      <4>. QED BY <4>4, FS_CardinalityType
    <3>. QED BY <3>3, <3>4, <3>5
  <2>. QED BY <1>1, <1>6, <2>1 DEF Followed
<1>. QED BY <1>6, <1>9, <1>10, <1>11, <1>12, <1>13 DEF Core

(* What a chase becomes when it has sent a child. *)
LEMMA PullIs ==
    ASSUME NEW f0 \in Chase, NEW q \in Seq(QueuedList)
    PROVE  /\ Pull(f0, q) \in Chase /\ Pull(f0, q).lr = f0.lr /\ Pull(f0, q).final = f0.final /\ Pull(f0, q).v3 = f0.v3
           /\ Pull(f0, q).st \in {"next", "followed"}
           /\ ~f0.v3 => Pull(f0, q).st = "followed"
           /\ Pulled(f0, q) \in Seq(QueuedList)
<1>1. CASE TakesUp(f0, q)
  <2>1. Len(q) \in Nat /\ Len(q) > 0 /\ f0.v3
    BY <1>1 DEF TakesUp
  <2>2. q[Len(q)] \in QueuedList
    BY <2>1
  <2>3. PICK l \in RefLists : l = q[Len(q)].refs
    BY <2>2 DEF QueuedList
  <2>4. Pull(f0, q) = [f0 EXCEPT !.refs = l, !.i = 1, !.st = "next"]
    BY <1>1, <2>3 DEF Pull
  <2>. DEFINE g1 == [f0 EXCEPT !.refs = l]
              g2 == [g1 EXCEPT !.i = 1]
              g  == [g2 EXCEPT !.st = "next"]
  <2>5. g \in Chase /\ g.lr = f0.lr /\ g.final = f0.final /\ g.v3 = f0.v3 /\ g.st = "next"
    <3>1. g1 \in Chase /\ g1.lr = f0.lr /\ g1.final = f0.final /\ g1.v3 = f0.v3
      BY DEF Chase
    <3>. HIDE DEF g1
    <3>2. g2 \in Chase /\ g2.lr = f0.lr /\ g2.final = f0.final /\ g2.v3 = f0.v3
      BY <3>1 DEF Chase
    <3>. HIDE DEF g2
    <3>. QED BY <3>2 DEF Chase
  <2>6. Pulled(f0, q) = SubSeq(q, 1, Len(q) - 1)
    BY <1>1 DEF Pulled
  <2>7. SubSeq(q, 1, Len(q) - 1) \in Seq(QueuedList)
    BY <2>1
  <2>. QED BY <2>1, <2>4, <2>5, <2>6, <2>7
<1>2. CASE ~TakesUp(f0, q)
  <2>1. Pull(f0, q) = [f0 EXCEPT !.st = "followed"] /\ Pulled(f0, q) = q
    BY <1>2 DEF Pull, Pulled
  <2>. DEFINE g == [f0 EXCEPT !.st = "followed"]
  <2>2. g \in Chase /\ g.lr = f0.lr /\ g.final = f0.final /\ g.v3 = f0.v3 /\ g.st = "followed"
    BY DEF Chase
  <2>. QED BY <2>1, <2>2
<1>. QED BY <1>1, <1>2

LEMMA StrayIs ==
    ASSUME TypeOK, NEW q \in Seq(QueuedList), Stray(q)
    PROVE  strayed' \subseteq Ids
<1>1. CASE TakesUp(Top, q)
  <2>1. Len(q) \in Nat /\ Len(q) > 0
    BY <1>1 DEF TakesUp
  <2>2. q[Len(q)] \in QueuedList
    BY <2>1
  <2>3. q[Len(q)].op \in Ids
    BY <2>2 DEF QueuedList
  <2>. QED BY <2>3 DEF Stray, TypeOK
<1>2. CASE ~TakesUp(Top, q)
  BY <1>2 DEF Stray, TypeOK
<1>. QED BY <1>1, <1>2

LEMMA LeaveIs ==
    ASSUME TypeOK, NEW q \in Seq(QueuedList), Leave(q)
    PROVE  left' \subseteq Ids
<1>1. \A j \in DOMAIN q : q[j] \in QueuedList
  OBVIOUS
<1>2. \A j \in DOMAIN q : q[j].op \in Ids
  BY <1>1 DEF QueuedList
<1>. QED BY <1>2 DEF Leave, TypeOK

LEMMA SendOnStep ==
    ASSUME IInv, NEW s \in Servers, SendOn(s)
    PROVE  IInv'
<1>0. /\ TypeOK /\ Core /\ session = "open" /\ stack \in Seq(Chase) /\ stack # <<>>
      /\ ld_msgid \in Nat /\ ld_msgid < MaxMsgid /\ ld_msgid' = ld_msgid + 1
      /\ req \in [Ids -> Request] /\ conn \in [Servers -> Connection]
      /\ asked \in [Servers -> SUBSET Ids] /\ Top.st = "next"
      /\ Top \in Chase /\ Top = stack[1] /\ Top.lr \in Ids
  BY TopPicked DEF IInv, SendOn, AtUrl, TypeOK
<1>1. PICK n \in Ids : n = ld_msgid + 1 /\ n > ld_msgid
  BY <1>0, BoundsAssumption DEF Ids
<1>2. PICK p \in Ids : p = Parent(Top) /\ Live(p)
  BY <1>0, CountsIn
<1>3. ~Live(n) /\ n \notin moved /\ Top.lr < n /\ p # n
  <2>1. ~Live(n) /\ n \notin moved
    BY <1>0, <1>1, IdsAre DEF Core, Drawn
  <2>2. Top.lr <= ld_msgid
    BY <1>0, TopIs DEF Core, Drawn, LrHeld
  <2>3. p # n
    BY <1>2, <2>1
  <2>4. Top.lr < n
    BY <1>0, <1>1, <2>2, IdsAre
  <2>. QED BY <2>1, <2>3, <2>4
<1>4. PICK q \in Seq(QueuedList) : q = conn[s].queue
  BY <1>0 DEF Connection
<1>5. PICK f \in Chase : /\ f = Pull(Top, q) /\ f.lr = Top.lr /\ f.final = Top.final /\ f.v3 = Top.v3
                         /\ f.st \in {"next", "followed"} /\ (~f.v3 => f.st = "followed")
  BY <1>0, PullIs
<1>6. TopBecomes(f)
  BY <1>4, <1>5 DEF SendOn
<1>7. PICK r \in Request : r = Child(p, s)
  BY <1>0, ChildIs
<1>8. PICK u \in Request :
        /\ u = [req[p] EXCEPT !.out = @ + 1]
        /\ u.st = req[p].st /\ u.parent = req[p].parent /\ u.orig = req[p].orig /\ u.kind = req[p].kind
        /\ u.conn = req[p].conn /\ u.out = req[p].out + 1
  <2>1. PICK v \in Request : v = req[p]
    BY <1>0
  <2>2. PICK k \in Int : k = v.out + 1
    BY DEF Request
  <2>. DEFINE g == [v EXCEPT !.out = k]
  <2>3. /\ g \in Request /\ g.st = v.st /\ g.parent = v.parent /\ g.orig = v.orig /\ g.kind = v.kind
        /\ g.conn = v.conn /\ g.out = k
    BY DEF Request
  <2>4. g = [req[p] EXCEPT !.out = @ + 1]
    BY <2>1, <2>2
  <2>. HIDE DEF g
  <2>. QED BY <2>1, <2>2, <2>3, <2>4
<1>9. req' = [[req EXCEPT ![p] = u] EXCEPT ![n] = r]
  <2>1. req' = [req EXCEPT ![p].out = @ + 1, ![n] = Child(p, s)]
    BY <1>0, <1>1, <1>2 DEF SendOn
  <2>. QED BY <1>7, <1>8, <2>1
<1>10. /\ req' \in [Ids -> Request] /\ req'[n] = Child(p, s)
       /\ req'[p] = u /\ \A id \in Ids : id # n /\ id # p => req'[id] = req[id]
  BY <1>0, <1>3, <1>7, <1>9
<1>11. asked' \in [Servers -> SUBSET Ids] /\ \A x \in Servers : \A id \in asked'[x] : id \in asked[x] \/ id = n
  BY <1>0, <1>1 DEF SendOn
<1>12. \A k \in DOMAIN stack : k # 1 /\ stack[k].st \in InBind => stack[k].new # n
  BY <1>0, <1>1, IdsAre DEF Core, NewIds
<1>13. Core' /\ stack' \in Seq(Chase)
  <2>0. PICK e \in Int : e = 1 /\ e = IF Top.st = "next" THEN 1 ELSE 0
    BY <1>0
  <2>1. \A id \in Ids : id # n =>
              /\ id # p => req'[id] = req[id]
              /\ req'[id].st = req[id].st /\ req'[id].parent = req[id].parent
              /\ req'[id].orig = req[id].orig /\ req'[id].kind = req[id].kind
              /\ req'[id].conn = req[id].conn
              /\ req'[id].out = IF id = p THEN req[id].out + e ELSE req[id].out
    BY <1>8, <1>10, <2>0
  <2>2. UNCHANGED <<ld_version, moved, moved3>> /\ ld_msgid' \in Nat /\ ld_msgid' >= ld_msgid /\ n <= ld_msgid'
    BY <1>0, <1>1 DEF SendOn
  <2>3. Sends(f, n, p, s, e)
    BY <1>0, <1>2, <1>3, <1>5, <1>6, <1>10, <1>11, <1>12, <2>0, <2>1, <2>2 DEF Sends
  <2>. QED BY <1>0, <2>3, ChildThen
<1>14. conn' \in [Servers -> Connection]
  <2>1. PICK c \in Connection : c = conn[s]
    BY <1>0
  <2>2. PICK k \in Int : k = c.refcnt + 1
    BY DEF Connection
  <2>3. PICK qs \in Seq(QueuedList) : qs = Pulled(Top, q)
    BY <1>0, PullIs
  <2>4. [[c EXCEPT !.refcnt = k] EXCEPT !.queue = qs] \in Connection
    BY DEF Connection
  <2>5. conn' = [conn EXCEPT ![s] = [[c EXCEPT !.refcnt = k] EXCEPT !.queue = qs]]
    BY <1>0, <1>4, <2>1, <2>2, <2>3 DEF SendOn
  <2>. QED BY <1>0, <2>4, <2>5
<1>15. TypeOK'
  <2>1. ld_msgid' \in 0..MaxMsgid
    BY <1>0, BoundsAssumption
  <2>2. strayed' \subseteq Ids
    BY <1>0, <1>4, StrayIs DEF SendOn
  <2>. QED BY <1>0, <1>10, <1>11, <1>13, <1>14, <2>1, <2>2 DEF SendOn, TypeOK
<1>. QED BY <1>13, <1>15 DEF IInv

LEMMA BoundStep ==
    ASSUME IInv, NEW s \in Servers, Bound(s)
    PROVE  IInv'
<1>0. /\ TypeOK /\ Core /\ session = "open" /\ stack \in Seq(Chase) /\ stack # <<>>
      /\ ld_msgid \in Nat /\ ld_msgid' = ld_msgid
      /\ req \in [Ids -> Request] /\ conn \in [Servers -> Connection]
      /\ asked \in [Servers -> SUBSET Ids] /\ Top.st = "bound"
      /\ Top \in Chase /\ Top = stack[1] /\ 1 \in DOMAIN stack /\ Top.lr \in Ids
  BY TopPicked DEF IInv, Bound, Binding, TypeOK
<1>1. PICK n \in Ids : /\ n = Top.new /\ n <= ld_msgid /\ ~Live(n) /\ n \notin moved /\ Top.lr < n
                       /\ \A k \in DOMAIN stack : k # 1 /\ stack[k].st \in InBind => stack[k].new # n
  BY <1>0 DEF Core, NewIds, InBind
<1>2. PICK p \in Ids : p = Parent(Top) /\ Live(p)
  BY <1>0, CountsIn
<1>3. PICK q \in Seq(QueuedList) : q = conn[s].queue
  BY <1>0 DEF Connection
<1>4. PICK f \in Chase : /\ f = Pull(Top, q) /\ f.lr = Top.lr /\ f.final = Top.final /\ f.v3 = Top.v3
                         /\ f.st \in {"next", "followed"} /\ (~f.v3 => f.st = "followed")
  BY <1>0, PullIs
<1>5. TopBecomes(f)
  BY <1>3, <1>4 DEF Bound
<1>6. PICK r \in Request : r = Child(p, s)
  BY <1>0, ChildIs
<1>7. /\ req' \in [Ids -> Request] /\ req'[n] = Child(p, s)
      /\ \A id \in Ids : id # n => req'[id] = req[id]
  <2>1. req' = [req EXCEPT ![n] = r]
    BY <1>1, <1>2, <1>6 DEF Bound
  <2>. QED BY <1>0, <1>6, <2>1
<1>8. asked' \in [Servers -> SUBSET Ids] /\ \A x \in Servers : \A id \in asked'[x] : id \in asked[x] \/ id = n
  BY <1>0, <1>1 DEF Bound
<1>9. Core' /\ stack' \in Seq(Chase)
  <2>1. PICK e \in Int : e = 0 /\ e = IF Top.st = "next" THEN 1 ELSE 0
    BY <1>0
  <2>2. \A id \in Ids : id # n =>
              /\ id # p => req'[id] = req[id]
              /\ req'[id].st = req[id].st /\ req'[id].parent = req[id].parent
              /\ req'[id].orig = req[id].orig /\ req'[id].kind = req[id].kind
              /\ req'[id].conn = req[id].conn
              /\ req'[id].out = IF id = p THEN req[id].out + e ELSE req[id].out
    <3>1. \A id \in Ids : req[id].out \in Int
      BY <1>0, RequestIs
    <3>. QED BY <1>7, <2>1, <3>1
  <2>3. UNCHANGED <<ld_version, moved, moved3>> /\ ld_msgid' \in Nat /\ ld_msgid' >= ld_msgid /\ n <= ld_msgid'
    BY <1>0, <1>1 DEF Bound
  <2>4. Sends(f, n, p, s, e)
    BY <1>0, <1>1, <1>2, <1>4, <1>5, <1>7, <1>8, <2>1, <2>2, <2>3 DEF Sends
  <2>. QED BY <1>0, <2>4, ChildThen
<1>10. conn' \in [Servers -> Connection]
  <2>1. PICK c \in Connection : c = conn[s]
    BY <1>0
  <2>2. PICK qs \in Seq(QueuedList) : qs = Pulled(Top, q)
    BY <1>0, PullIs
  <2>3. [[c EXCEPT !.rebinding = FALSE] EXCEPT !.queue = qs] \in Connection
    BY DEF Connection
  <2>4. conn' = [conn EXCEPT ![s] = [[c EXCEPT !.rebinding = FALSE] EXCEPT !.queue = qs]]
    BY <1>0, <1>3, <2>1, <2>2 DEF Bound
  <2>. QED BY <1>0, <2>3, <2>4
<1>11. TypeOK'
  <2>1. strayed' \subseteq Ids /\ left' \subseteq Ids
    BY <1>0, <1>3, StrayIs, LeaveIs DEF Bound
  <2>. QED BY <1>0, <1>7, <1>8, <1>9, <1>10, <2>1 DEF Bound, TypeOK
<1>. QED BY <1>9, <1>11 DEF IInv

(* The bind failed: the count it was remembered in goes down. *)
LEMMA RefusedStep ==
    ASSUME IInv, NEW s \in Servers, Refused(s)
    PROVE  IInv'
<1>0. /\ TypeOK /\ Core /\ session = "open" /\ stack \in Seq(Chase) /\ stack # <<>>
      /\ ld_msgid \in Nat /\ ld_msgid' = ld_msgid /\ moved' = moved /\ moved3' = moved3 /\ ld_version' = ld_version
      /\ req \in [Ids -> Request] /\ conn \in [Servers -> Connection]
      /\ asked \in [Servers -> SUBSET Ids] /\ Top.st = "refused"
      /\ Top \in Chase /\ Top = stack[1] /\ 1 \in DOMAIN stack /\ Top.lr \in Ids /\ Top.i \in Nat \ {0}
  BY TopPicked DEF IInv, Refused, Binding, TypeOK
<1>1. PICK p \in Ids : p = Parent(Top) /\ Live(p)
  BY <1>0, CountsIn
<1>2. PICK f \in Chase : /\ f = [Top EXCEPT !.i = @ + 1, !.st = "next"]
                         /\ f.lr = Top.lr /\ f.final = Top.final /\ f.v3 = Top.v3 /\ f.st = "next"
  <2>1. PICK k \in Nat \ {0} : k = Top.i + 1
    BY <1>0
  <2>. DEFINE g == [Top EXCEPT !.i = k, !.st = "next"]
  <2>2. g \in Chase /\ g.lr = Top.lr /\ g.final = Top.final /\ g.v3 = Top.v3 /\ g.st = "next"
    BY <1>0 DEF Chase
  <2>3. g = [Top EXCEPT !.i = @ + 1, !.st = "next"]
    BY <2>1
  <2>. HIDE DEF g
  <2>. QED BY <2>2, <2>3
<1>3. TopBecomes(f)
  BY <1>2 DEF Refused
<1>4. /\ stack' \in Seq(Chase) /\ stack' # <<>> /\ DOMAIN stack' = DOMAIN stack
      /\ stack'[1] = f /\ Top' = f /\ \A k \in DOMAIN stack : k # 1 => stack'[k] = stack[k]
  BY <1>0, <1>3, Replaced
<1>5. PICK u \in Request :
        /\ req' = [req EXCEPT ![p] = u]
        /\ u.st = req[p].st /\ u.parent = req[p].parent /\ u.orig = req[p].orig /\ u.kind = req[p].kind
        /\ u.conn = req[p].conn /\ u.out = req[p].out - 1
  <2>1. PICK v \in Request : v = req[p]
    BY <1>0
  <2>2. PICK k \in Int : k = v.out - 1
    BY DEF Request
  <2>. DEFINE g == [v EXCEPT !.out = k]
  <2>3. /\ g \in Request /\ g.st = v.st /\ g.parent = v.parent /\ g.orig = v.orig /\ g.kind = v.kind
        /\ g.conn = v.conn /\ g.out = k
    BY DEF Request
  <2>4. req' = [req EXCEPT ![p] = g]
    BY <1>1, <2>1, <2>2 DEF Refused, Forget
  <2>. HIDE DEF g
  <2>. QED BY <2>1, <2>2, <2>3, <2>4
<1>6. /\ req' \in [Ids -> Request]
      /\ \A id \in Ids :
              /\ id # p => req'[id] = req[id]
              /\ req'[id].st = req[id].st /\ req'[id].parent = req[id].parent
              /\ req'[id].orig = req[id].orig /\ req'[id].kind = req[id].kind
              /\ req'[id].conn = req[id].conn
  BY <1>0, <1>5
<1>7. asked' \in [Servers -> SUBSET Ids] /\ \A x \in Servers : asked'[x] \subseteq asked[x]
  BY <1>0 DEF Refused
<1>8. Changes({}, {}, {})
  <2>1. moved3 \subseteq moved
    BY <1>0 DEF Core, Barren
  <2>. QED BY <1>0, <1>1, <1>6, <1>7, <2>1 DEF Changes, Live
<1>9. Kept(0) /\ Known(0)
  <2>1. \A k \in DOMAIN stack :
              /\ stack'[k].lr = stack[k].lr /\ stack'[k].final = stack[k].final /\ stack'[k].v3 = stack[k].v3
              /\ stack'[k].st \in InBind => stack[k].st \in InBind /\ stack'[k].new = stack[k].new
              /\ k > 1 /\ stack[k].st \in InBind => stack'[k].st \in InBind
    <3>1. \A k \in DOMAIN stack : k > 1 => k # 1
      OBVIOUS
    <3>2. f.st \notin InBind
      BY <1>2 DEF InBind
    <3>3. ~(1 > 1)
      OBVIOUS
    <3>. QED BY <1>0, <1>2, <1>4, <3>1, <3>2, <3>3, Zenon
  <2>. QED BY <1>0, <1>4, <2>1, Unmoved
<1>10. Blank' /\ Drawn' /\ Tree' /\ Open' /\ Barren'
  BY <1>0, <1>8, TreeThen
<1>11. Nested' /\ LrHeld' /\ NewIds' /\ Finals'
  BY <1>0, <1>8, <1>9, FramesThen
<1>12. Grown'
  <2>1. \A a \in Ids : Children(a)' = Children(a)
    BY <1>6 DEF Children, Live
  <2>. QED BY <1>0, <1>6, <2>1 DEF Core, Grown, Live
<1>13. Followed'
  BY <1>2, <1>4 DEF Followed
<1>14. Counts'
  <2>0. \A id \in Ids : Live(id) => req'[id].orig = req[id].orig
    BY <1>6
  <2>1. /\ \A x : x # p => Pending(x)' = Pending(x)
        /\ \A x \in Ids : ~Live(x) => Pending(x) = {}
        /\ Cardinality(Pending(p)') = Cardinality(Pending(p)) - 1
    <3>1. f.st \notin InBind /\ Top.st \in InBind
      BY <1>0, <1>2 DEF InBind
    <3>2. session = "open" /\ stack # <<>> /\ p = Parent(Top) /\ f.lr = Top.lr /\ f.v3 = Top.v3
      BY <1>0, <1>1, <1>2
    <3>. QED BY <1>3, <2>0, <3>1, <3>2, PendingThen
  <2>2. PICK e \in Int : e = -1
    OBVIOUS
  <2>3. Cardinality(Pending(p)') = Cardinality(Pending(p)) + e - Cardinality({m \in {} : req'[m].parent = p})
    <3>1. {m \in {} : req'[m].parent = p} = {} /\ Cardinality({}) = 0
      BY FS_EmptySet
    <3>2. Cardinality(Pending(p)) \in Nat
      BY <1>0, Finite
    <3>. QED BY <2>1, <2>2, <3>1, <3>2
  <2>4. \A id \in Ids : id \notin {} =>
              /\ req'[id].st = req[id].st
              /\ req'[id].out = IF id = p THEN req[id].out + e ELSE req[id].out
    <3>1. \A id \in Ids : req[id].out \in Int
      BY <1>0, RequestIs
    <3>. QED BY <1>0, <1>5, <1>6, <2>2, <3>1
  <2>5. \A m \in {} : req'[m].out = 0 /\ req'[m].parent \in {0, p}
    OBVIOUS
  <2>. QED BY <1>0, <1>1, <1>8, <2>1, <2>3, <2>4, <2>5, CountsThen
<1>15. conn' \in [Servers -> Connection]
  <2>1. NoConnection \in Connection
    BY DEF NoConnection, Connection
  <2>. QED BY <1>0, <2>1 DEF Refused
<1>16. TypeOK'
  BY <1>0, <1>4, <1>6, <1>7, <1>15 DEF Refused, TypeOK
<1>. QED BY <1>10, <1>11, <1>12, <1>13, <1>14, <1>16 DEF IInv, Core

(* A new connection: the chase waits for the bind, and is counted. *)
LEMMA ReconnectStep ==
    ASSUME IInv, NEW s \in Servers, Reconnect(s)
    PROVE  IInv'
<1>0. /\ TypeOK /\ Core /\ session = "open" /\ stack \in Seq(Chase) /\ stack # <<>>
      /\ ld_msgid \in Nat /\ ld_msgid + 1 < MaxMsgid /\ ld_msgid' = ld_msgid + 2
      /\ moved' = moved /\ moved3' = moved3 /\ ld_version' = ld_version
      /\ req \in [Ids -> Request] /\ conn \in [Servers -> Connection]
      /\ asked \in [Servers -> SUBSET Ids] /\ Top.st = "next"
      /\ Top \in Chase /\ Top = stack[1] /\ 1 \in DOMAIN stack /\ Top.lr \in Ids
  <2>1. /\ TypeOK /\ Core /\ session = "open" /\ stack # <<>> /\ Top.st = "next"
        /\ ld_msgid + 1 < MaxMsgid /\ ld_msgid' = ld_msgid + 2
        /\ moved' = moved /\ moved3' = moved3 /\ ld_version' = ld_version
    BY DEF IInv, Reconnect, AtUrl
  <2>2. /\ stack \in Seq(Chase) /\ ld_msgid \in Nat /\ req \in [Ids -> Request]
        /\ conn \in [Servers -> Connection] /\ asked \in [Servers -> SUBSET Ids]
    BY <2>1 DEF TypeOK
  <2>. QED BY <2>1, <2>2, TopPicked
<1>1. PICK n \in Ids, b \in Ids : /\ n = ld_msgid + 1 /\ b = ld_msgid + 2 /\ n > ld_msgid /\ b > n
                                  /\ n <= ld_msgid' /\ b <= ld_msgid' /\ n # b
  BY <1>0, BoundsAssumption DEF Ids
<1>2. PICK p \in Ids : p = Parent(Top) /\ Live(p)
  BY <1>0, CountsIn
<1>3. /\ ~Live(n) /\ n \notin moved /\ ~Live(b) /\ b \notin moved /\ p # n /\ p # b
      /\ Top.lr < n /\ Live(Top.lr)
  <2>1. ~Live(n) /\ n \notin moved /\ ~Live(b) /\ b \notin moved
    BY <1>0, <1>1, IdsAre DEF Core, Drawn
  <2>2. Live(Top.lr) /\ Top.lr <= ld_msgid
    BY <1>0 DEF Core, Drawn, LrHeld
  <2>. QED BY <1>0, <1>1, <1>2, <2>1, <2>2, IdsAre
<1>4. PICK f \in Chase : /\ f = [Top EXCEPT !.st = "wait", !.new = n, !.bind = b]
                         /\ f.lr = Top.lr /\ f.final = Top.final /\ f.v3 = Top.v3 /\ f.st = "wait" /\ f.new = n
  <2>1. n \in Nat /\ b \in Nat
    BY IdsAre
  <2>. DEFINE g == [[[Top EXCEPT !.st = "wait"] EXCEPT !.new = n] EXCEPT !.bind = b]
  <2>2. g \in Chase /\ g.lr = Top.lr /\ g.final = Top.final /\ g.v3 = Top.v3 /\ g.st = "wait" /\ g.new = n
    BY <1>0, <2>1 DEF Chase
  <2>3. g = [Top EXCEPT !.st = "wait", !.new = n, !.bind = b]
    OBVIOUS
  <2>. HIDE DEF g
  <2>. QED BY <2>2, <2>3
<1>5. TopBecomes(f)
  BY <1>0, <1>1, <1>4 DEF Reconnect
<1>6. /\ stack' \in Seq(Chase) /\ stack' # <<>> /\ DOMAIN stack' = DOMAIN stack
      /\ stack'[1] = f /\ Top' = f /\ \A k \in DOMAIN stack : k # 1 => stack'[k] = stack[k]
  BY <1>0, <1>5, Replaced
<1>7. PICK u \in Request :
        /\ Counted(req, p) = [req EXCEPT ![p] = u]
        /\ u.st = req[p].st /\ u.parent = req[p].parent /\ u.orig = req[p].orig /\ u.kind = req[p].kind
        /\ u.conn = req[p].conn /\ u.out = req[p].out + 1
  <2>1. PICK v \in Request : v = req[p]
    BY <1>0
  <2>2. PICK k \in Int : k = v.out + 1
    BY DEF Request
  <2>. DEFINE g == [v EXCEPT !.out = k]
  <2>3. /\ g \in Request /\ g.st = v.st /\ g.parent = v.parent /\ g.orig = v.orig /\ g.kind = v.kind
        /\ g.conn = v.conn /\ g.out = k
    BY DEF Request
  <2>4. Counted(req, p) = [req EXCEPT ![p] = g]
    BY <1>0, <2>1, <2>2 DEF Counted
  <2>. HIDE DEF g
  <2>. QED BY <2>1, <2>2, <2>3, <2>4
<1>8. PICK r \in Request : /\ r = Root(b, s, "bind")
                           /\ r.st = "inprogress" /\ r.out = 0 /\ r.parent = 0 /\ r.orig = b /\ r.kind = "bind"
  BY RootIs
<1>9. /\ req' \in [Ids -> Request] /\ req'[b] = r
      /\ \A id \in Ids : id # b =>
              /\ id # p => req'[id] = req[id]
              /\ req'[id].st = req[id].st /\ req'[id].parent = req[id].parent
              /\ req'[id].orig = req[id].orig /\ req'[id].kind = req[id].kind
              /\ req'[id].conn = req[id].conn
              /\ id = p => req'[id].out = req[id].out + 1
  <2>1. req' = [Counted(req, p) EXCEPT ![b] = r]
    BY <1>0, <1>1, <1>2, <1>8 DEF Reconnect
  <2>. QED BY <1>0, <1>3, <1>7, <2>1
<1>10. asked' \in [Servers -> SUBSET Ids] /\ \A x \in Servers : \A id \in asked'[x] : id \in asked[x] \/ id = b
  BY <1>0, <1>1 DEF Reconnect
<1>11. Live(b)' /\ Placed(b)'
  BY <1>8, <1>9, IdsAre DEF Live, Placed, IsRoot
<1>12. Changes({}, {b}, {})
  <2>1. \A id \in Ids : id # b /\ req[id].st = "free" => req'[id] = req[id]
    BY <1>2, <1>9 DEF Live
  <2>2. b # 0
    BY IdsAre
  <2>3. moved3 \subseteq moved
    BY <1>0 DEF Core, Barren
  <2>. QED BY <1>0, <1>1, <1>3, <1>8, <1>9, <1>10, <1>11, <2>1, <2>2, <2>3 DEF Changes, Live
<1>13. Blank' /\ Drawn' /\ Tree' /\ Open' /\ Barren'
  BY <1>0, <1>12, TreeThen
<1>14. \A k \in DOMAIN stack : /\ stack'[k].lr = stack[k].lr /\ stack'[k].final = stack[k].final /\ stack'[k].v3 = stack[k].v3
                               /\ k # 1 => stack'[k].st = stack[k].st /\ stack'[k].new = stack[k].new
  BY <1>0, <1>4, <1>6
<1>15. Kept(0)
  <2>1. DOMAIN stack \subseteq Nat \ {0} /\ (\A k \in Nat : k + 0 = k) /\ 0 # 1 /\ \A k \in Nat : k > 1 => k # 1
    BY <1>0
  <2>2. DOMAIN stack' = {k \in Nat \ {0} : k + 0 \in DOMAIN stack}
    BY <1>6, <2>1
  <2>3. \A k \in DOMAIN stack' : k \in DOMAIN stack /\ k + 0 = k /\ (k > 1 => k # 1)
    BY <1>6, <2>1
  <2>. QED BY <1>14, <2>1, <2>2, <2>3, Zenon DEF Kept
<1>16. Nested' /\ LrHeld' /\ Finals'
  <2>1. \A k \in DOMAIN stack' : stack'[k].lr \notin {} /\ (stack'[k].final => stack'[k].lr \notin {})
    OBVIOUS
  <2>. QED BY <1>0, <1>12, <1>15, <2>1, FramesThen
<1>17. NewIds'
  <2>1. ASSUME NEW k \in DOMAIN stack, k # 1, stack[k].st \in InBind
        PROVE  /\ stack[k].new \in Ids /\ stack[k].lr < stack[k].new /\ stack[k].new <= ld_msgid
               /\ req[stack[k].new].st = "free" /\ stack[k].new \notin moved
               /\ stack[k].new # n /\ stack[k].new # b /\ stack[k].new <= ld_msgid'
               /\ stack[k].new # p
    <3>1. stack[k].new \in Ids /\ stack[k].lr < stack[k].new /\ stack[k].new <= ld_msgid
          /\ req[stack[k].new].st = "free" /\ stack[k].new \notin moved
      BY <1>0, <2>1 DEF Core, NewIds, Live
    <3>2. stack[k].new \in Nat
      BY <3>1, IdsAre
    <3>. QED BY <1>0, <1>1, <1>2, <3>1, <3>2 DEF Live
  <2>. SUFFICES ASSUME NEW k \in DOMAIN stack', stack'[k].st \in InBind
                PROVE  /\ stack'[k].new \in Ids /\ stack'[k].lr < stack'[k].new /\ stack'[k].new <= ld_msgid'
                       /\ req'[stack'[k].new].st = "free" /\ stack'[k].new \notin moved'
                       /\ \A j \in DOMAIN stack' : j # k /\ stack'[j].st \in InBind => stack'[j].new # stack'[k].new
    BY DEF NewIds, Live
  <2>2. CASE k = 1
    <3>1. stack'[k].new = n /\ stack'[k].lr < n
      BY <1>3, <1>4, <1>6, <2>2
    <3>2. req'[n].st = "free"
      BY <1>1, <1>3, <1>9 DEF Live
    <3>3. \A j \in DOMAIN stack' : j # k /\ stack'[j].st \in InBind => stack'[j].new # n
      BY <1>6, <1>14, <2>1, <2>2
    <3>. QED BY <1>0, <1>1, <1>3, <3>1, <3>2, <3>3
  <2>3. CASE k # 1
    <3>1. /\ k \in DOMAIN stack /\ stack'[k].new = stack[k].new /\ stack'[k].lr = stack[k].lr
          /\ stack[k].st \in InBind
      BY <1>6, <1>14, <2>3
    <3>2. req'[stack[k].new].st = "free"
      BY <1>9, <2>1, <2>3, <3>1
    <3>3. ASSUME NEW j \in DOMAIN stack', j # k, stack'[j].st \in InBind
          PROVE  stack'[j].new # stack[k].new
      <4>1. CASE j = 1
        <5>1. stack'[j].new = n
          BY <1>4, <1>6, <4>1
        <5>2. stack[k].new # n
          BY <2>1, <2>3, <3>1
        <5>. QED BY <5>1, <5>2
      <4>2. CASE j # 1
        <5>1. j \in DOMAIN stack /\ stack'[j].new = stack[j].new /\ stack[j].st \in InBind
          BY <1>6, <1>14, <3>3, <4>2
        <5>. QED BY <1>0, <3>1, <3>3, <5>1 DEF Core, NewIds
      <4>. QED BY <4>1, <4>2
    <3>. QED BY <1>0, <2>1, <2>3, <3>1, <3>2, <3>3
  <2>. QED BY <2>2, <2>3
<1>18. Grown'
  <2>1. ASSUME NEW id \in Ids, Live(id)', req'[id].parent # 0, NEW c \in Children(id)'
        PROVE  req'[id].st = "completed"
    <3>1. id \in Nat \ {0} /\ c \in Ids /\ Live(c)' /\ req'[c].parent = id
      BY IdsAre DEF Children
    <3>2. c # b /\ Live(c) /\ req[c].parent = id
      BY <1>8, <1>9, <3>1 DEF Live
    <3>3. id # b
      BY <1>0, <1>3, <3>1, <3>2, IdsAre DEF Core, Tree, Placed, IsRoot, IsChild
    <3>4. Live(id) /\ c \in Children(id) /\ req[id].parent # 0
      BY <1>9, <2>1, <3>1, <3>2, <3>3 DEF Live, Children
    <3>5. req[id].st = "completed"
      BY <1>0, <2>1, <3>4 DEF Core, Grown
    <3>. QED BY <1>9, <3>3, <3>5
  <2>. QED BY <2>1 DEF Grown
<1>19. Followed'
  BY <1>4, <1>6 DEF Followed
<1>20. Counts'
  <2>0. \A id \in Ids : Live(id) => req'[id].orig = req[id].orig
    BY <1>3, <1>9
  <2>1. /\ \A x : x # p => Pending(x)' = Pending(x)
        /\ \A x \in Ids : ~Live(x) => Pending(x) = {}
        /\ Cardinality(Pending(p)') = Cardinality(Pending(p)) + 1
    <3>1. f.st \in InBind /\ Top.st \notin InBind
      BY <1>0, <1>4 DEF InBind
    <3>. QED BY <1>0, <1>2, <1>4, <1>5, <2>0, <3>1, PendingThen
  <2>2. PICK e \in Int : e = 1
    OBVIOUS
  <2>3. Cardinality(Pending(p)') = Cardinality(Pending(p)) + e - Cardinality({m \in {b} : req'[m].parent = p})
    <3>1. {m \in {b} : req'[m].parent = p} = {}
      BY <1>8, <1>9, IdsAre
    <3>2. Cardinality({}) = 0
      BY FS_EmptySet
    <3>3. PICK a \in Nat : a = Cardinality(Pending(p))
      BY <1>0, Finite
    <3>4. Cardinality({m \in {b} : req'[m].parent = p}) = 0
      BY <3>1, <3>2
    <3>. QED BY <2>1, <2>2, <3>3, <3>4
  <2>4. \A id \in Ids : id \notin {b} =>
              /\ req'[id].st = req[id].st
              /\ req'[id].out = IF id = p THEN req[id].out + e ELSE req[id].out
    BY <1>9, <2>2
  <2>5. \A m \in {b} : req'[m].out = 0 /\ req'[m].parent \in {0, p}
    BY <1>8, <1>9
  <2>. QED BY <1>0, <1>2, <1>12, <2>1, <2>3, <2>4, <2>5, CountsThen
<1>21. conn' \in [Servers -> Connection]
  <2>. DEFINE g1 == [NoConnection EXCEPT !.open = TRUE]
              g2 == [g1 EXCEPT !.refcnt = 2]
              g3 == [g2 EXCEPT !.rebinding = TRUE]
  <2>1. NoConnection \in Connection
    BY DEF NoConnection, Connection
  <2>2. g1 \in Connection
    BY <2>1 DEF Connection
  <2>. HIDE DEF g1
  <2>3. g2 \in Connection
    BY <2>2 DEF Connection
  <2>. HIDE DEF g2
  <2>4. g3 \in Connection
    BY <2>3 DEF Connection
  <2>5. conn' = [conn EXCEPT ![s] = g3]
    BY DEF Reconnect, g1, g2
  <2>. HIDE DEF g3
  <2>. QED BY <1>0, <2>4, <2>5
<1>22. TypeOK'
  <2>1. ld_msgid' \in 0..MaxMsgid
    BY <1>0, BoundsAssumption
  <2>. QED BY <1>0, <1>6, <1>9, <1>10, <1>21, <2>1 DEF Reconnect, TypeOK
<1>. QED BY <1>13, <1>16, <1>17, <1>18, <1>19, <1>20, <1>22 DEF IInv, Core

-----------------------------------------------------------------------------
LEMMA UnbindStep ==
    ASSUME IInv, Unbind
    PROVE  IInv'
<1>1. TypeOK /\ session' # "open" /\ session' \in {"open", "closed", "undefined"}
  BY DEF IInv, Unbind
<1>2. NoRequest \in Request /\ NoConnection \in Connection
  <2>1. NoRequest \in Request
    BY ServersAssumption DEF NoRequest, Request
  <2>2. NoConnection \in Connection
    BY DEF NoConnection, Connection
  <2>. QED BY <2>1, <2>2
<1>3. TypeOK'
  BY <1>1, <1>2 DEF Unbind, TypeOK
<1>. QED BY <1>1, <1>3 DEF IInv

LEMMA WriteFailsStep ==
    ASSUME IInv, NEW s \in Servers, WriteFails(s)
    PROVE  IInv'
BY DEF IInv, WriteFails, TypeOK

LEMMA InitThen ==
    ASSUME Init
    PROVE  IInv
<1>1. NoRequest \in Request /\ NoConnection \in Connection
  <2>1. NoRequest \in Request
    BY ServersAssumption DEF NoRequest, Request
  <2>2. NoConnection \in Connection
    BY DEF NoConnection, Connection
  <2>. QED BY <2>1, <2>2
<1>2. conn \in [Servers -> Connection]
  <2>. DEFINE g1 == [NoConnection EXCEPT !.open = TRUE]
              g2 == [g1 EXCEPT !.refcnt = 1]
  <2>1. g1 \in Connection
    BY <1>1 DEF Connection
  <2>. HIDE DEF g1
  <2>2. g2 \in Connection
    BY <2>1 DEF Connection
  <2>3. conn = [s \in Servers |-> IF s = Default THEN g2 ELSE NoConnection]
    BY DEF Init, g1
  <2>. HIDE DEF g2
  <2>. QED BY <1>1, <2>2, <2>3
<1>3. TypeOK
  <2>1. stack \in Seq(Chase) /\ faults \in Seq({"connect", "bind", "read"})
    BY DEF Init
  <2>2. ld_msgid \in 0..MaxMsgid /\ refsLeft \in 0..MaxRefs
    BY BoundsAssumption DEF Init
  <2>3. req \in [Ids -> Request]
    BY <1>1 DEF Init
  <2>. QED BY <1>2, <2>1, <2>2, <2>3 DEF Init, TypeOK
<1>4. \A id \in Ids : ~Live(id) /\ req[id] = NoRequest
  BY DEF Init, Live, NoRequest
<1>5. DOMAIN stack = {} /\ stack = <<>> /\ moved = {} /\ moved3 = {}
  BY DEF Init
<1>6. Core
  BY <1>4, <1>5 DEF Core, Blank, Drawn, Tree, Nested, LrHeld, NewIds, Finals, Grown, Barren, Open, Followed, Counts
<1>. QED BY <1>3, <1>6 DEF IInv

LEMMA StutterThen ==
    ASSUME IInv, UNCHANGED vars
    PROVE  IInv'
<1>1. TypeOK'
  BY DEF IInv, TypeOK, vars
<1>2. session = "open" => Core'
  BY DEF vars, IInv, Core, Blank, Drawn, Tree, Placed, IsRoot, IsChild, Nested, LrHeld, NewIds, Finals,
         Grown, Barren, Children, Open, Unanswered, Followed, Counts, Outstanding, Pending, Parent, Live, Top, InBind
<1>. QED BY <1>1, <1>2 DEF IInv, vars

LEMMA NextThen ==
    ASSUME IInv, Next
    PROVE  IInv'
<1>1. CASE Send
  BY <1>1, SendStep
<1>2. CASE \E id \in Ids : ReadResult(id)
  BY <1>2, ReadResultStep
<1>3. CASE \E id \in Ids, ok \in BOOLEAN : ReadBind(id, ok)
  BY <1>3, ReadBindStep
<1>4. CASE \E id \in Ids, refs \in RefLists, v3 \in BOOLEAN, final \in BOOLEAN : ReadRefs(id, refs, v3, final)
  BY <1>4, ReadRefsStep
<1>5. CASE ReadError
  BY <1>5, ReadErrorStep
<1>6. CASE ChaseStep
  <2>1. ASSUME NEW s \in Servers, QueueOn(s) PROVE IInv'
    BY <2>1, QueueOnStep
  <2>2. ASSUME NEW s \in Servers, SendOn(s) PROVE IInv'
    BY <2>2, SendOnStep
  <2>3. ASSUME NEW s \in Servers, Reconnect(s) PROVE IInv'
    BY <2>3, ReconnectStep
  <2>4. ASSUME NEW s \in Servers, ConnectFails(s) PROVE IInv'
    BY <2>4, ConnectFailsStep
  <2>5. ASSUME NEW s \in Servers, Bound(s) PROVE IInv'
    BY <2>5, BoundStep
  <2>6. ASSUME NEW s \in Servers, Refused(s) PROVE IInv'
    BY <2>6, RefusedStep
  <2>7. ASSUME NEW s \in Servers, WriteFails(s) PROVE IInv'
    BY <2>7, WriteFailsStep
  <2>8. CASE Chased \/ Passed \/ Unfollowed
    BY <2>8, ChasedStep, PassedStep, UnfollowedStep
  <2>. QED BY <1>6, <2>1, <2>2, <2>3, <2>4, <2>5, <2>6, <2>7, <2>8 DEF ChaseStep
<1>7. CASE \E id \in Ids : Take(id) \/ Abandon(id)
  BY <1>7, TakeStep, AbandonStep
<1>8. CASE Unbind
  BY <1>8, UnbindStep
<1>9. CASE \E s \in Servers : Break(s)
  BY <1>9, BreakStep
<1>. QED BY <1>1, <1>2, <1>3, <1>4, <1>5, <1>6, <1>7, <1>8, <1>9 DEF Next

LEMMA Inductive == Spec => []IInv
<1>1. Init => IInv
  BY InitThen
<1>2. IInv /\ [Next]_vars => IInv'
  BY NextThen, StutterThen
<1>. QED BY <1>1, <1>2, PTL DEF Spec

(* Types: message ids stay in their range, the counts are numbers, and     *)
(* whatever is on the stack of chases is a chase.                          *)
THEOREM TypeCorrect == Spec => []TypeOK
<1>1. IInv => TypeOK
  BY DEF IInv
<1>. QED BY <1>1, Inductive, PTL

(* lr_outrefcnt is the number of outstanding children and of binds in      *)
(* progress for children to come (ld_append_referral, ldap_new_connection, *)
(* try_read1msg), however the chases nest.                                 *)
THEOREM CountTheorem == Spec => []CountExact
<1>1. IInv => CountExact
  BY DEF IInv, Core, Counts, CountExact
<1>. QED BY <1>1, Inductive, PTL

(* No chase loses the request it works on, and no request the one above    *)
(* it: try_read1msg frees an operation only with everything below it, and  *)
(* never while a chase of it waits in a nested ldap_result.                *)
THEOREM TreeTheorem == Spec => []TreeHeld
<1>1. IInv => ChaseHeld
  <2>. SUFFICES ASSUME IInv, session = "open", NEW k \in DOMAIN stack
                PROVE  Live(stack[k].lr) /\ Live(req[stack[k].lr].orig)
    BY DEF ChaseHeld
  <2>1. TypeOK /\ LrHeld /\ Tree /\ stack \in Seq(Chase)
    BY DEF IInv, Core, TypeOK
  <2>2. stack[k] \in Chase
    BY <2>1
  <2>3. stack[k].lr \in Ids /\ Live(stack[k].lr)
    BY <2>1, <2>2 DEF LrHeld, Chase
  <2>. QED BY <2>1, <2>3 DEF Tree, Placed
<1>2. IInv => NoOrphans
  BY DEF IInv, Core, Tree, Placed, IsRoot, IsChild, NoOrphans
<1>3. IInv => TreeHeld
  BY <1>1, <1>2 DEF IInv, TreeHeld
<1>. QED BY <1>3, Inductive, PTL
=============================================================================
