---------------------------- MODULE OptionsProof ----------------------------
(***************************************************************************)
(* Proofs about Options: whatever is configured and called, no block is    *)
(* shared or used after it was freed, none is lost but those that nobody   *)
(* frees, and the structures are the table of values that OptionTable      *)
(* describes.                                                              *)
(***************************************************************************)
EXTENDS Options, FiniteSetTheorems, NaturalsInduction, WellFoundedInduction, TLAPS

Fields == DOMAIN Defaults

LEMMA Owns == Owned \subseteq Fields /\ Fields \ Owned =
                 {"debug", "version", "deref", "timelimit", "sizelimit", "defport", "defbase",
                  "defbinddn", "rebindproc", "referrals", "restart", "errno"}
  BY DEF Owned, Timeouts, Controls, Fields, Defaults

-----------------------------------------------------------------------------
(* A state of the structures in which the fields F of the structure p are  *)
(* left out of account: a call frees what they point to before it stores   *)
(* something else.                                                         *)
Shape(st) ==
    /\ DOMAIN st = {"opts", "heap", "undefined", "lost"} /\ st.undefined = FALSE
    /\ Global \in DOMAIN st.opts /\ DOMAIN st.opts \subseteq {Global} \cup Sessions
    /\ \A o \in DOMAIN st.opts : DOMAIN st.opts[o] = Fields
    /\ IsFiniteSet(DOMAIN st.heap) /\ 0 \notin DOMAIN st.heap /\ \A b \in DOMAIN st.heap : st.heap[b] # Null

Points(st, p, F, o, f) == /\ o \in DOMAIN st.opts /\ f \in Owned /\ st.opts[o][f] # 0
                          /\ ~(o = p /\ f \in F)

(* Every pointer has a block of its own, and every block that is not lost  *)
(* a pointer.                                                              *)
Sound(st, p, F) ==
    /\ Shape(st)
    /\ \A o, q, f, g : Points(st, p, F, o, f) /\ Points(st, p, F, q, g) /\ st.opts[o][f] = st.opts[q][g]
                       => o = q /\ f = g
    /\ \A o, f : Points(st, p, F, o, f) => st.opts[o][f] \in DOMAIN st.heap /\ st.opts[o][f] \notin st.lost
    /\ \A b \in DOMAIN st.heap : b \in st.lost \/ \E o, f : Points(st, p, F, o, f) /\ st.opts[o][f] = b
    /\ st.lost \subseteq DOMAIN st.heap

(* Only some fields changed.                                               *)
Same(st, s, p, F) ==
    /\ DOMAIN s.opts = DOMAIN st.opts
    /\ \A o \in DOMAIN st.opts, f \in Fields : ~(o = p /\ f \in F) =>
          s.opts[o][f] = st.opts[o][f] /\ View(s, o, f) = View(st, o, f)

LEMMA FreeIsFree ==
    ASSUME NEW h, IsFiniteSet(DOMAIN h)
    PROVE  FreeBlock(h) \in Nat \ {0} /\ FreeBlock(h) \notin DOMAIN h
<1>. DEFINE n == Cardinality(DOMAIN h)
<1>1. n \in Nat
  BY FS_CardinalityType
<1>2. IsFiniteSet(1..n + 1) /\ Cardinality(1..n + 1) = n + 1
  <2>. HIDE DEF n
  <2>. QED BY <1>1, FS_Interval
<1>3. ~(1..n + 1 \subseteq DOMAIN h)
  <2>1. 1..n + 1 \subseteq DOMAIN h => n + 1 <= n
    BY <1>2, FS_Subset
  <2>. HIDE DEF n
  <2>. QED BY <1>1, <2>1
<1>4. \E b \in 1..n + 1 : b \notin DOMAIN h
  BY <1>3
<1>. HIDE DEF n
<1>5. (CHOOSE b \in 1..n + 1 : b \notin DOMAIN h) \in {b \in 1..n + 1 : b \notin DOMAIN h}
  BY <1>4
<1>. QED BY <1>1, <1>5 DEF FreeBlock, n

(* A state in which the same fields point to the same blocks is as sound.  *)
LEMMA Moved ==
    ASSUME NEW st, NEW s, NEW p, NEW F, NEW q, NEW G, Sound(st, p, F), Shape(s), s.lost = st.lost,
           \A o, g : Points(s, q, G, o, g) => Points(st, p, F, o, g) /\ s.opts[o][g] = st.opts[o][g],
           \A o, g : Points(st, p, F, o, g) => Points(s, q, G, o, g),
           DOMAIN s.heap = DOMAIN st.heap
    PROVE  Sound(s, q, G)
<1>1. ASSUME NEW c \in DOMAIN s.heap, c \notin s.lost PROVE \E o, g : Points(s, q, G, o, g) /\ s.opts[o][g] = c
  <2>1. PICK o, g : Points(st, p, F, o, g) /\ st.opts[o][g] = c
    BY <1>1 DEF Sound
  <2>2. Points(s, q, G, o, g) /\ s.opts[o][g] = c
    BY <2>1
  <2>. QED BY <2>2
<1>2. ASSUME NEW o, NEW r, NEW g, NEW h, Points(s, q, G, o, g), Points(s, q, G, r, h), s.opts[o][g] = s.opts[r][h]
      PROVE  o = r /\ g = h
  <2>1. Points(st, p, F, o, g) /\ Points(st, p, F, r, h) /\ st.opts[o][g] = st.opts[r][h]
    BY <1>2
  <2>. QED BY <2>1 DEF Sound
<1>3. ASSUME NEW o, NEW g, Points(s, q, G, o, g) PROVE s.opts[o][g] \in DOMAIN s.heap /\ s.opts[o][g] \notin s.lost
  BY <1>3 DEF Sound
<1>4. s.lost \subseteq DOMAIN s.heap
  BY DEF Sound
<1>. QED BY <1>1, <1>2, <1>3, <1>4 DEF Sound

(* A field is freed: it is left out of account from there on.              *)
LEMMA ReleaseSound ==
    ASSUME NEW st, NEW p, NEW F, Sound(st, p, F), p \in DOMAIN st.opts,
           NEW f \in Owned, f \notin F, NEW s, s = Release(st, st.opts[p][f])
    PROVE  Sound(s, p, F \cup {f}) /\ s.opts = st.opts /\ Same(st, s, p, F \cup {f})
<1>. DEFINE b == st.opts[p][f]
            G == F \cup {f}
<1>1. CASE b = 0
  <2>1. s = st
    BY <1>1 DEF Release
  <2>2. \A o, g : Points(st, p, G, o, g) <=> Points(st, p, F, o, g)
    BY <1>1 DEF Points
  <2>3. Sound(st, p, G)
    <3>. HIDE DEF G, b
    <3>1. Shape(st)
      BY DEF Sound
    <3>. QED BY <2>2, <3>1, Moved
  <2>. QED BY <2>1, <2>3 DEF Same
<1>2. CASE b # 0
  <2>1. Points(st, p, F, p, f)
    BY <1>2 DEF Points
  <2>2. b \in DOMAIN st.heap /\ b \notin st.lost
    BY <2>1 DEF Sound
  <2>3. s = [st EXCEPT !.heap = Restrict(@, DOMAIN @ \ {b})]
    BY <1>2, <2>2 DEF Release
  <2>4. /\ DOMAIN s = {"opts", "heap", "undefined", "lost"} /\ s.undefined = st.undefined /\ s.lost = st.lost /\ s.opts = st.opts
        /\ DOMAIN s.heap = DOMAIN st.heap \ {b}
        /\ \A c \in DOMAIN s.heap : s.heap[c] = st.heap[c]
    <3>1. DOMAIN st = {"opts", "heap", "undefined", "lost"}
      BY DEF Sound, Shape
    <3>. QED BY <2>3, <3>1 DEF Restrict
  <2>5. IsFiniteSet(DOMAIN s.heap)
    BY <2>4, FS_Subset DEF Sound, Shape
  <2>6. Shape(s)
    BY <2>4, <2>5 DEF Sound, Shape
  <2>7. \A o, g : Points(s, p, G, o, g) => Points(st, p, F, o, g) /\ ~(o = p /\ g = f)
    BY <2>4 DEF Points
  <2>8. \A o, g : Points(st, p, F, o, g) /\ ~(o = p /\ g = f) => Points(s, p, G, o, g)
    BY <2>4 DEF Points
  <2>9. \A o, g : Points(s, p, G, o, g) => st.opts[o][g] # b
    BY <2>1, <2>7 DEF Sound
  <2>10. Sound(s, p, G)
    <3>1. \A o, q, g, h : Points(s, p, G, o, g) /\ Points(s, p, G, q, h) /\ s.opts[o][g] = s.opts[q][h] => o = q /\ g = h
      BY <2>4, <2>7 DEF Sound
    <3>2. \A o, g : Points(s, p, G, o, g) => s.opts[o][g] \in DOMAIN s.heap /\ s.opts[o][g] \notin s.lost
      <4>. SUFFICES ASSUME NEW o, NEW g, Points(s, p, G, o, g)
                    PROVE  s.opts[o][g] \in DOMAIN s.heap /\ s.opts[o][g] \notin s.lost
        OBVIOUS
      <4>1. st.opts[o][g] \in DOMAIN st.heap /\ st.opts[o][g] \notin st.lost
        BY <2>7, Zenon DEF Sound
      <4>. QED BY <2>4, <2>9, <4>1
    <3>3. ASSUME NEW c \in DOMAIN s.heap PROVE c \in s.lost \/ \E o, g : Points(s, p, G, o, g) /\ s.opts[o][g] = c
      <4>1. c \in DOMAIN st.heap /\ c # b
        BY <2>4
      <4>2. c \in st.lost \/ \E o, g : Points(st, p, F, o, g) /\ st.opts[o][g] = c
        BY <4>1 DEF Sound
      <4>. QED BY <2>4, <2>8, <4>1, <4>2
    <3>4. s.lost \subseteq DOMAIN s.heap
      BY <2>2, <2>4 DEF Sound
    <3>. QED BY <2>6, <3>1, <3>2, <3>3, <3>4 DEF Sound
  <2>11. Same(st, s, p, G)
    <3>. SUFFICES ASSUME NEW o \in DOMAIN st.opts, NEW g \in Fields, ~(o = p /\ g \in G)
                  PROVE  View(s, o, g) = View(st, o, g)
      BY <2>4 DEF Same
    <3>1. CASE g \in Owned /\ st.opts[o][g] # 0
      <4>1. Points(s, p, G, o, g)
        BY <2>4, <3>1 DEF Points
      <4>2. st.opts[o][g] \in DOMAIN s.heap /\ st.opts[o][g] \in DOMAIN st.heap
        BY <2>4, <2>10, <4>1 DEF Sound
      <4>. QED BY <2>4, <4>2 DEF View, Value
    <3>2. CASE g \in Owned /\ st.opts[o][g] = 0
      <4>1. 0 \notin DOMAIN st.heap /\ 0 \notin DOMAIN s.heap
        BY <2>4 DEF Sound, Shape
      <4>. QED BY <2>4, <3>2, <4>1 DEF View, Value
    <3>3. CASE g \notin Owned
      BY <2>4, <3>3 DEF View
    <3>. QED BY <3>1, <3>2, <3>3
  <2>. QED BY <2>4, <2>10, <2>11
<1>. QED BY <1>1, <1>2

(* A field that is left out of account is stored into.                     *)
Stored(st, s, p, f, b, v) ==
    /\ DOMAIN s = {"opts", "heap", "undefined", "lost"} /\ s.undefined = FALSE /\ s.lost = st.lost
    /\ DOMAIN s.opts = DOMAIN st.opts
    /\ \A o \in DOMAIN st.opts : DOMAIN s.opts[o] = Fields
    /\ \A o \in DOMAIN st.opts, g \in Fields : ~(o = p /\ g = f) => s.opts[o][g] = st.opts[o][g]
    /\ s.opts[p][f] = b
    /\ DOMAIN s.heap = DOMAIN st.heap \cup {b} /\ s.heap[b] = v
    /\ \A c \in DOMAIN st.heap : c # b => s.heap[c] = st.heap[c]

LEMMA StoreFields ==
    ASSUME NEW st, Shape(st), NEW p \in DOMAIN st.opts, NEW f \in Owned, NEW v, v # Null,
           NEW s, s = Store(st, p, f, v), NEW b, b = FreeBlock(st.heap)
    PROVE  Stored(st, s, p, f, b, v)
<1>1. s = [st EXCEPT !.opts[p][f] = b, !.heap = With(@, b, v)]
  BY DEF Store
<1>2. DOMAIN st = {"opts", "heap", "undefined", "lost"} /\ st.undefined = FALSE /\ f \in Fields
  BY Owns DEF Shape
<1>3. \A o \in DOMAIN st.opts : DOMAIN st.opts[o] = Fields
  BY DEF Shape
<1>4. With(st.heap, b, v) = [c \in {b} \cup DOMAIN st.heap |-> IF c = b THEN v ELSE st.heap[c]]
  BY DEF With
<1>5. s = [st EXCEPT !.opts = [st.opts EXCEPT ![p] = [st.opts[p] EXCEPT ![f] = b]],
                     !.heap = [c \in {b} \cup DOMAIN st.heap |-> IF c = b THEN v ELSE st.heap[c]]]
  BY <1>1, <1>4
<1>6. s.opts = [st.opts EXCEPT ![p] = [st.opts[p] EXCEPT ![f] = b]]
  BY <1>2, <1>5
<1>7. s.heap = [c \in {b} \cup DOMAIN st.heap |-> IF c = b THEN v ELSE st.heap[c]]
  BY <1>2, <1>5
<1>8. DOMAIN s = {"opts", "heap", "undefined", "lost"} /\ s.undefined = FALSE /\ s.lost = st.lost
  BY <1>2, <1>5
<1>. QED BY <1>2, <1>3, <1>6, <1>7, <1>8 DEF Stored

LEMMA StoreSound ==
    ASSUME NEW st, NEW p, NEW f \in Owned, Sound(st, p, {f}), p \in DOMAIN st.opts, NEW v
    PROVE  LET s == Store(st, p, f, v)
           IN  Sound(s, p, {}) /\ Same(st, s, p, {f}) /\ View(s, p, f) = v
<1>. DEFINE s == Store(st, p, f, v)
            b == FreeBlock(st.heap)
<1>0. /\ DOMAIN st = {"opts", "heap", "undefined", "lost"} /\ st.undefined = FALSE /\ f \in Fields
      /\ \A o \in DOMAIN st.opts : DOMAIN st.opts[o] = Fields
      /\ Shape(st)
  BY Owns DEF Sound, Shape
<1>1. CASE v = Null
  <2>1. s = [st EXCEPT !.opts[p][f] = 0]
    BY <1>1 DEF Store
  <2>2. s.opts = [st.opts EXCEPT ![p] = [st.opts[p] EXCEPT ![f] = 0]] /\ s.heap = st.heap
    BY <1>0, <2>1
  <2>3. DOMAIN s = {"opts", "heap", "undefined", "lost"} /\ s.undefined = FALSE /\ s.lost = st.lost
    BY <1>0, <2>1
  <2>. HIDE DEF s
  <2>4. \A o \in DOMAIN st.opts, g \in Fields : ~(o = p /\ g = f) => s.opts[o][g] = st.opts[o][g]
    BY <1>0, <2>2
  <2>5. s.opts[p][f] = 0 /\ DOMAIN s.opts = DOMAIN st.opts /\ \A o \in DOMAIN st.opts : DOMAIN s.opts[o] = Fields
    BY <1>0, <2>2
  <2>6. \A o, g : Points(s, p, {}, o, g) <=> Points(st, p, {f}, o, g)
    BY <2>4, <2>5, Owns DEF Points
  <2>7. \A o, g : Points(s, p, {}, o, g) => s.opts[o][g] = st.opts[o][g]
    BY <2>4, <2>5, Owns DEF Points
  <2>8. Shape(s)
    BY <1>0, <2>2, <2>3, <2>5 DEF Shape
  <2>9. Sound(s, p, {})
    <3>1. DOMAIN s.heap = DOMAIN st.heap /\ s.lost = st.lost
      BY <2>2, <2>3
    <3>2. \A o, g : Points(s, p, {}, o, g) => Points(st, p, {f}, o, g) /\ s.opts[o][g] = st.opts[o][g]
      BY <2>6, <2>7
    <3>3. \A o, g : Points(st, p, {f}, o, g) => Points(s, p, {}, o, g)
      BY <2>6
    <3>. QED BY <2>8, <3>1, <3>2, <3>3, Moved
  <2>10. Same(st, s, p, {f})
    BY <2>2, <2>4, <2>5 DEF Same, View, Value
  <2>11. View(s, p, f) = v
    BY <1>0, <1>1, <2>2, <2>5 DEF View, Value, Shape
  <2>. QED BY <2>9, <2>10, <2>11 DEF s
<1>2. CASE v # Null
  <2>1. b \notin DOMAIN st.heap /\ b \in Nat \ {0}
    BY <1>0, FreeIsFree DEF Shape
  <2>2. /\ DOMAIN s = {"opts", "heap", "undefined", "lost"} /\ s.undefined = FALSE /\ s.lost = st.lost
        /\ DOMAIN s.opts = DOMAIN st.opts
        /\ \A o \in DOMAIN st.opts : DOMAIN s.opts[o] = Fields
        /\ \A o \in DOMAIN st.opts, g \in Fields : ~(o = p /\ g = f) => s.opts[o][g] = st.opts[o][g]
        /\ s.opts[p][f] = b
        /\ DOMAIN s.heap = DOMAIN st.heap \cup {b} /\ s.heap[b] = v
        /\ \A c \in DOMAIN st.heap : c # b => s.heap[c] = st.heap[c]
    <3>1. s = Store(st, p, f, v) /\ b = FreeBlock(st.heap)
      OBVIOUS
    <3>. HIDE DEF s, b
    <3>2. Stored(st, s, p, f, b, v)
      BY <1>0, <1>2, <3>1, StoreFields
    <3>. QED BY <3>2 DEF Stored
  <2>. HIDE DEF s, b
  <2>3. \A o, g : Points(s, p, {}, o, g) <=> Points(st, p, {f}, o, g) \/ (o = p /\ g = f)
    BY <2>1, <2>2, Owns DEF Points
  <2>4. \A o, g : Points(st, p, {f}, o, g) => s.opts[o][g] = st.opts[o][g] /\ ~(o = p /\ g = f)
    BY <2>2, Owns DEF Points
  <2>5. \A o, g : Points(st, p, {f}, o, g) => s.opts[o][g] \in DOMAIN st.heap /\ s.opts[o][g] \notin st.lost /\ s.opts[o][g] # b
    <3>. SUFFICES ASSUME NEW o, NEW g, Points(st, p, {f}, o, g)
                  PROVE  s.opts[o][g] \in DOMAIN st.heap /\ s.opts[o][g] \notin st.lost /\ s.opts[o][g] # b
      OBVIOUS
    <3>1. st.opts[o][g] \in DOMAIN st.heap /\ st.opts[o][g] \notin st.lost
      BY DEF Sound
    <3>. QED BY <2>1, <2>4, <3>1
  <2>6. Shape(s)
    <3>1. IsFiniteSet(DOMAIN s.heap)
      BY <1>0, <2>2, FS_AddElement DEF Shape
    <3>. QED BY <1>0, <1>2, <2>1, <2>2, <3>1 DEF Shape
  <2>7. Sound(s, p, {})
    <3>1. \A c \in DOMAIN s.heap : c \in s.lost \/ \E o, g : Points(s, p, {}, o, g) /\ s.opts[o][g] = c
      <4>. SUFFICES ASSUME NEW c \in DOMAIN s.heap, c \notin s.lost PROVE \E o, g : Points(s, p, {}, o, g) /\ s.opts[o][g] = c
        OBVIOUS
      <4>1. CASE c = b
        <5>1. Points(s, p, {}, p, f) /\ s.opts[p][f] = c
          BY <2>2, <2>3, <4>1
        <5>. QED BY <5>1, Zenon
      <4>2. CASE c # b
        <5>1. c \in DOMAIN st.heap /\ c \notin st.lost
          BY <2>2, <4>2
        <5>2. PICK o, g : Points(st, p, {f}, o, g) /\ st.opts[o][g] = c
          BY <5>1, Zenon DEF Sound
        <5>. QED BY <5>2, <2>3, <2>4, Zenon
      <4>. QED BY <4>1, <4>2
    <3>2. \A o, q, g, h : Points(s, p, {}, o, g) /\ Points(s, p, {}, q, h) /\ s.opts[o][g] = s.opts[q][h] => o = q /\ g = h
      <4>. SUFFICES ASSUME NEW o, NEW q, NEW g, NEW h, Points(s, p, {}, o, g), Points(s, p, {}, q, h), s.opts[o][g] = s.opts[q][h]
                    PROVE  o = q /\ g = h
        OBVIOUS
      <4>1. CASE Points(st, p, {f}, o, g) /\ Points(st, p, {f}, q, h)
        <5>1. st.opts[o][g] = st.opts[q][h]
          BY <2>4, <4>1, Zenon
        <5>. QED BY <4>1, <5>1, Zenon DEF Sound
      <4>2. CASE ~Points(st, p, {f}, o, g)
        <5>1. o = p /\ g = f /\ s.opts[o][g] = b
          BY <2>2, <2>3, <4>2
        <5>2. ~Points(st, p, {f}, q, h)
          BY <2>5, <5>1
        <5>. QED BY <2>3, <5>1, <5>2
      <4>3. CASE ~Points(st, p, {f}, q, h)
        <5>1. q = p /\ h = f /\ s.opts[q][h] = b
          BY <2>2, <2>3, <4>3
        <5>2. ~Points(st, p, {f}, o, g)
          BY <2>5, <5>1
        <5>. QED BY <2>3, <5>1, <5>2
      <4>. QED BY <4>1, <4>2, <4>3
    <3>3. \A o, g : Points(s, p, {}, o, g) => s.opts[o][g] \in DOMAIN s.heap /\ s.opts[o][g] \notin s.lost
      <4>1. b \notin st.lost
        BY <2>1 DEF Sound
      <4>. QED BY <2>2, <2>3, <2>5, <4>1
    <3>4. s.lost \subseteq DOMAIN s.heap
      BY <2>2 DEF Sound
    <3>. QED BY <2>6, <3>1, <3>2, <3>3, <3>4, Zenon DEF Sound
  <2>8. Same(st, s, p, {f})
    <3>. SUFFICES ASSUME NEW o \in DOMAIN st.opts, NEW g \in Fields, ~(o = p /\ g = f)
                  PROVE  View(s, o, g) = View(st, o, g)
      BY <2>2 DEF Same
    <3>1. s.opts[o][g] = st.opts[o][g]
      BY <2>2
    <3>2. CASE g \in Owned /\ st.opts[o][g] # 0
      <4>1. Points(st, p, {f}, o, g)
        BY <3>2 DEF Points
      <4>2. st.opts[o][g] \in DOMAIN st.heap /\ st.opts[o][g] # b
        BY <2>5, <3>1, <4>1
      <4>. QED BY <2>2, <3>1, <4>2 DEF View, Value
    <3>3. CASE g \in Owned /\ st.opts[o][g] = 0
      <4>1. 0 \notin DOMAIN st.heap /\ 0 \notin DOMAIN s.heap
        BY <1>0, <2>6 DEF Shape
      <4>. QED BY <3>1, <3>3, <4>1 DEF View, Value
    <3>4. CASE g \notin Owned
      BY <3>1, <3>4 DEF View
    <3>. QED BY <3>2, <3>3, <3>4
  <2>9. View(s, p, f) = v
    BY <2>2 DEF View, Value
  <2>. QED BY <2>7, <2>8, <2>9 DEF s
<1>. QED BY <1>1, <1>2

(* Only the field f of p has changed, to w.                                *)
Changed(st, s, p, f, w) == Sound(s, p, {}) /\ Same(st, s, p, {f}) /\ View(s, p, f) = w

LEMMA ReplaceSound ==
    ASSUME NEW st, NEW p, NEW f \in Owned, Sound(st, p, {}), p \in DOMAIN st.opts, NEW v
    PROVE  Changed(st, Replace(st, p, f, v), p, f, v)
<1>. DEFINE r == Release(st, st.opts[p][f])
            s == Store(r, p, f, v)
<1>0. {} \cup {f} = {f}
  OBVIOUS
<1>1. Sound(r, p, {f}) /\ r.opts = st.opts /\ Same(st, r, p, {f})
  <2>1. f \notin {} /\ r = Release(st, st.opts[p][f])
    OBVIOUS
  <2>. HIDE DEF r
  <2>2. Sound(r, p, {} \cup {f}) /\ r.opts = st.opts /\ Same(st, r, p, {} \cup {f})
    BY <2>1, ReleaseSound
  <2>. QED BY <1>0, <2>2
<1>. HIDE DEF r
<1>2. Sound(s, p, {}) /\ Same(r, s, p, {f}) /\ View(s, p, f) = v
  BY <1>1, StoreSound
<1>. HIDE DEF s
<1>3. Same(st, s, p, {f})
  BY <1>1, <1>2 DEF Same
<1>. QED BY <1>2, <1>3 DEF Replace, Changed, r, s

(* A field that holds its value is set.                                    *)
LEMMA PlainSound ==
    ASSUME NEW st, NEW p, NEW f \in Fields \ Owned, Sound(st, p, {}), p \in DOMAIN st.opts, NEW v
    PROVE  Changed(st, [st EXCEPT !.opts[p][f] = v], p, f, v)
<1>. DEFINE s == [st EXCEPT !.opts[p][f] = v]
<1>0. /\ DOMAIN st = {"opts", "heap", "undefined", "lost"} /\ st.undefined = FALSE
      /\ \A o \in DOMAIN st.opts : DOMAIN st.opts[o] = Fields
      /\ Shape(st)
  BY DEF Sound, Shape
<1>1. s.opts = [st.opts EXCEPT ![p] = [st.opts[p] EXCEPT ![f] = v]] /\ s.heap = st.heap
  BY <1>0
<1>2. DOMAIN s = {"opts", "heap", "undefined", "lost"} /\ s.undefined = FALSE /\ s.lost = st.lost
  BY <1>0
<1>. HIDE DEF s
<1>3. \A o \in DOMAIN st.opts, g \in Fields : ~(o = p /\ g = f) => s.opts[o][g] = st.opts[o][g]
  BY <1>0, <1>1
<1>4. s.opts[p][f] = v /\ DOMAIN s.opts = DOMAIN st.opts /\ \A o \in DOMAIN st.opts : DOMAIN s.opts[o] = Fields
  BY <1>0, <1>1
<1>5. \A o, g : Points(s, p, {}, o, g) <=> Points(st, p, {}, o, g)
  BY <1>3, <1>4, Owns DEF Points
<1>6. \A o, g : Points(s, p, {}, o, g) => s.opts[o][g] = st.opts[o][g]
  BY <1>3, <1>4, Owns DEF Points
<1>7. Shape(s)
  BY <1>0, <1>1, <1>2, <1>4 DEF Shape
<1>8. Sound(s, p, {})
  BY <1>1, <1>2, <1>5, <1>6, <1>7, Moved
<1>9. Same(st, s, p, {f})
  BY <1>1, <1>3, <1>4 DEF Same, View, Value
<1>10. View(s, p, f) = v
  BY <1>4 DEF View
<1>. QED BY <1>8, <1>9, <1>10 DEF Changed, s

(* Nothing but a block is lost.                                            *)
Alike(st, s, p) ==
    /\ Sound(s, p, {}) /\ s.opts = st.opts
    /\ \A o \in DOMAIN st.opts, f \in Fields : View(s, o, f) = View(st, o, f)

LEMMA LeakSound ==
    ASSUME NEW st, NEW p, Sound(st, p, {}), NEW v, v # Null
    PROVE  Alike(st, Leak(st, v), p)
<1>. DEFINE b == FreeBlock(st.heap)
            s == Leak(st, v)
<1>0. /\ DOMAIN st = {"opts", "heap", "undefined", "lost"} /\ st.undefined = FALSE /\ Shape(st)
      /\ IsFiniteSet(DOMAIN st.heap)
  BY DEF Sound, Shape
<1>1. b \notin DOMAIN st.heap /\ b \in Nat \ {0}
  BY <1>0, FreeIsFree
<1>2. /\ DOMAIN s = {"opts", "heap", "undefined", "lost"} /\ s.undefined = FALSE /\ s.opts = st.opts
      /\ s.heap = With(st.heap, b, v) /\ s.lost = st.lost \cup {b}
  BY <1>0 DEF Leak
<1>. HIDE DEF s, b
<1>3. DOMAIN s.heap = DOMAIN st.heap \cup {b} /\ s.heap[b] = v /\ \A c \in DOMAIN st.heap : s.heap[c] = st.heap[c]
  BY <1>1, <1>2 DEF With
<1>4. IsFiniteSet(DOMAIN s.heap)
  BY <1>0, <1>3, FS_AddElement
<1>5. Shape(s)
  BY <1>0, <1>1, <1>2, <1>3, <1>4 DEF Shape
<1>6. \A o, f : Points(s, p, {}, o, f) <=> Points(st, p, {}, o, f)
  BY <1>2 DEF Points
<1>7. \A o, f : Points(st, p, {}, o, f) => st.opts[o][f] \in DOMAIN st.heap /\ st.opts[o][f] \notin st.lost
  BY DEF Sound
<1>8. \A o, f : Points(s, p, {}, o, f) => s.opts[o][f] \in DOMAIN s.heap /\ s.opts[o][f] \notin s.lost
  BY <1>1, <1>2, <1>3, <1>6, <1>7
<1>9. ASSUME NEW c \in DOMAIN s.heap, c \notin s.lost PROVE \E o, f : Points(s, p, {}, o, f) /\ s.opts[o][f] = c
  <2>1. c \in DOMAIN st.heap /\ c \notin st.lost
    BY <1>2, <1>3, <1>9
  <2>2. PICK o, f : Points(st, p, {}, o, f) /\ st.opts[o][f] = c
    BY <2>1 DEF Sound
  <2>3. Points(s, p, {}, o, f) /\ s.opts[o][f] = c
    BY <1>2, <1>6, <2>2
  <2>. QED BY <2>3
<1>10. \A o, q, f, g : Points(s, p, {}, o, f) /\ Points(s, p, {}, q, g) /\ s.opts[o][f] = s.opts[q][g] => o = q /\ f = g
  BY <1>2, <1>6 DEF Sound
<1>11. s.lost \subseteq DOMAIN s.heap
  BY <1>2, <1>3 DEF Sound
<1>12. Sound(s, p, {})
  BY <1>5, <1>8, <1>9, <1>10, <1>11 DEF Sound
<1>13. ASSUME NEW o \in DOMAIN st.opts, NEW f \in Fields PROVE View(s, o, f) = View(st, o, f)
  <2>1. CASE f \in Owned /\ st.opts[o][f] # 0
    <3>1. Points(st, p, {}, o, f)
      BY <2>1 DEF Points
    <3>. QED BY <1>2, <1>3, <1>7, <3>1 DEF View, Value
  <2>2. CASE f \in Owned /\ st.opts[o][f] = 0
    BY <1>0, <1>2, <1>5, <2>2 DEF View, Value, Shape
  <2>3. CASE f \notin Owned
    BY <1>2, <2>3 DEF View
  <2>. QED BY <2>1, <2>2, <2>3
<1>. QED BY <1>2, <1>12, <1>13 DEF Alike, s

-----------------------------------------------------------------------------
(* ldap_set_option: what it refuses, and what it sets which field to.      *)
Legal(o, opt, v) == ~Refuses(o, opt, v) /\ (opt \in Lists => v # Bad)

Meaning(st, o, opt, v) ==
    IF opt \in DOMAIN Booleans THEN v # Null
    ELSE IF opt \in Lists THEN IF v = <<>> THEN Null ELSE Resolved(v, PortOf(st, o, opt))
    ELSE IF opt \in DOMAIN Blocks THEN Given(opt, v)
    ELSE v

LEMMA Kinds ==
    /\ \A opt \in DOMAIN Booleans : Booleans[opt] \in Fields \ Owned
    /\ \A opt \in DOMAIN Blocks : Blocks[opt] \in Owned /\ opt \notin DOMAIN Booleans \cup Lists \cup ReadOnly
    /\ \A opt \in DOMAIN Plain : /\ Plain[opt] \in Fields \ Owned
                               /\ opt \notin DOMAIN Booleans \cup DOMAIN Blocks \cup Lists \cup ReadOnly
    /\ \A opt \in Lists : opt \notin DOMAIN Booleans
    /\ "defludp" \in Owned
  BY Owns DEF Booleans, Blocks, Plain, Lists, ReadOnly, Owned, Timeouts, Controls

LEMMA FieldIs ==
    /\ \A opt \in DOMAIN Booleans : FieldOf(opt) = Booleans[opt]
    /\ \A opt \in DOMAIN Blocks : FieldOf(opt) = Blocks[opt]
    /\ \A opt \in DOMAIN Plain : FieldOf(opt) = Plain[opt]
    /\ \A opt \in Lists : FieldOf(opt) = "defludp"
  BY DEF FieldOf, Booleans, Blocks, Plain, Lists

LEMMA SetIs ==
    ASSUME NEW st, NEW o, Sound(st, o, {}), o \in DOMAIN st.opts,
           NEW opt \in Known, NEW v
    PROVE  /\ Legal(o, opt, v) => /\ Set(st, o, opt, v).rc = "success"
                                  /\ Changed(st, Set(st, o, opt, v).st, o, FieldOf(opt), Meaning(st, o, opt, v))
           /\ ~Legal(o, opt, v) => Set(st, o, opt, v).rc = "error" /\ Alike(st, Set(st, o, opt, v).st, o)
<1>. DEFINE same == Refused(st)
<1>a. same.rc = "error" /\ same.st = st /\ Alike(st, st, o)
  BY DEF Refused, Alike
<1>0. CASE Refuses(o, opt, v)
  <2>1. Set(st, o, opt, v) = same
    BY <1>0 DEF Set
  <2>2. ~Legal(o, opt, v)
    BY <1>0 DEF Legal
  <2>. HIDE DEF same
  <2>. QED BY <1>a, <2>1, <2>2
<1>1. CASE ~Refuses(o, opt, v) /\ opt \in DOMAIN Booleans
  <2>1. Set(st, o, opt, v) = Done([st EXCEPT !.opts[o][Booleans[opt]] = v # Null])
    BY <1>1, Kinds DEF Set
  <2>2. Legal(o, opt, v)
    BY <1>1, Kinds DEF Legal
  <2>3. Changed(st, [st EXCEPT !.opts[o][Booleans[opt]] = v # Null], o, Booleans[opt], v # Null)
    BY <1>1, Kinds, PlainSound
  <2>4. FieldOf(opt) = Booleans[opt] /\ Meaning(st, o, opt, v) = (v # Null)
    BY <1>1, FieldIs DEF Meaning
  <2>. QED BY <2>1, <2>2, <2>3, <2>4 DEF Done
<1>2. CASE ~Refuses(o, opt, v) /\ opt \in Lists
  <2>1. Set(st, o, opt, v) = SetList(st, o, opt, v, PortOf(st, o, opt))
    BY <1>2, Kinds DEF Set
  <2>2. Legal(o, opt, v) <=> v # Bad
    BY <1>2 DEF Legal
  <2>3. FieldOf(opt) = "defludp" /\ Meaning(st, o, opt, v) = IF v = <<>> THEN Null ELSE Resolved(v, PortOf(st, o, opt))
    BY <1>2, FieldIs, Kinds DEF Meaning
  <2>4. Changed(st, Replace(st, o, "defludp", Meaning(st, o, opt, v)), o, "defludp", Meaning(st, o, opt, v))
    BY Kinds, ReplaceSound
  <2>5. Alike(st, Leak(st, Bad), o)
    BY OptionsAssumption, LeakSound
  <2>6. CASE v # Bad
    BY <2>1, <2>2, <2>3, <2>4, <2>6 DEF SetList, Done
  <2>7. CASE v = Bad /\ opt = "uri"
    BY <1>a, <2>1, <2>2, <2>7 DEF SetList
  <2>8. CASE v = Bad /\ opt # "uri"
    BY <2>1, <2>2, <2>5, <2>8 DEF SetList, Refused
  <2>. QED BY <2>6, <2>7, <2>8
<1>3. CASE ~Refuses(o, opt, v) /\ opt \in DOMAIN Blocks
  <2>1. Set(st, o, opt, v) = Done(Replace(st, o, Blocks[opt], Given(opt, v)))
    BY <1>3, Kinds DEF Set
  <2>2. Legal(o, opt, v)
    BY <1>3, Kinds DEF Legal
  <2>3. FieldOf(opt) = Blocks[opt] /\ Meaning(st, o, opt, v) = Given(opt, v)
    BY <1>3, FieldIs, Kinds DEF Meaning
  <2>4. Changed(st, Replace(st, o, Blocks[opt], Given(opt, v)), o, Blocks[opt], Given(opt, v))
    BY <1>3, Kinds, ReplaceSound
  <2>. QED BY <2>1, <2>2, <2>3, <2>4 DEF Done
<1>4. CASE ~Refuses(o, opt, v) /\ opt \in DOMAIN Plain
  <2>1. Set(st, o, opt, v) = Done([st EXCEPT !.opts[o][Plain[opt]] = v])
    BY <1>4, Kinds DEF Set
  <2>2. Legal(o, opt, v)
    BY <1>4, Kinds DEF Legal
  <2>3. FieldOf(opt) = Plain[opt] /\ Meaning(st, o, opt, v) = v
    BY <1>4, FieldIs, Kinds DEF Meaning
  <2>4. Changed(st, [st EXCEPT !.opts[o][Plain[opt]] = v], o, Plain[opt], v)
    BY <1>4, Kinds, PlainSound
  <2>. QED BY <2>1, <2>2, <2>3, <2>4 DEF Done
<1>. QED BY <1>0, <1>1, <1>2, <1>3, <1>4 DEF Known, Refuses

-----------------------------------------------------------------------------
(* One setting of a file or of the environment: what it does nothing for,  *)
(* and what it sets which field to.                                        *)
Keys == DOMAIN Switches \cup DOMAIN Numbers \cup DOMAIN Strings \cup DOMAIN Targets \cup {"DEREF"}

Skips(key, arg) ==
    \/ key \notin Keys
    \/ key = "DEREF" /\ arg \notin DOMAIN Words
    \/ key \in DOMAIN Targets /\ arg \in {Bad, Null}

KeyField(key) ==
    IF key \in DOMAIN Switches THEN Switches[key]
    ELSE IF key \in DOMAIN Numbers THEN Numbers[key]
    ELSE IF key \in DOMAIN Strings THEN Strings[key]
    ELSE IF key \in DOMAIN Targets THEN "defludp" ELSE "deref"

KeyMeans(st, key, arg) ==
    IF key \in DOMAIN Switches THEN arg \in {"on", "yes", "true"}
    ELSE IF key \in DOMAIN Targets THEN Meaning(st, Global, Targets[key], arg)
    ELSE IF key = "DEREF" THEN Words[arg]
    ELSE arg

LEMMA KeyKinds ==
    /\ \A key \in DOMAIN Switches : Switches[key] \in Fields \ Owned
    /\ \A key \in DOMAIN Numbers : Numbers[key] \in Fields \ Owned /\ key \notin DOMAIN Switches
    /\ \A key \in DOMAIN Strings : Strings[key] \in Fields \ Owned /\ key \notin DOMAIN Switches \cup DOMAIN Numbers
    /\ \A key \in DOMAIN Targets : /\ Targets[key] \in Lists
                                 /\ key \notin DOMAIN Switches \cup DOMAIN Numbers \cup DOMAIN Strings
    /\ "DEREF" \notin DOMAIN Switches \cup DOMAIN Numbers \cup DOMAIN Strings \cup DOMAIN Targets
    /\ "deref" \in Fields \ Owned
  BY Owns DEF Switches, Numbers, Strings, Targets, Lists

LEMMA ListsLegal ==
    \A opt \in Lists : /\ opt \in Known /\ FieldOf(opt) = "defludp"
                      /\ \A o, v : Legal(o, opt, v) <=> v \notin {Bad, Null}
<1>1. \A opt \in Lists : opt \in Known /\ opt \notin ReadOnly \cup Nullable \cup DOMAIN Booleans \cup SessionOnly
                        /\ opt # "protocol_version"
  BY DEF Known, Lists, ReadOnly, Nullable, Booleans, SessionOnly
<1>. QED BY <1>1, FieldIs DEF Legal, Refuses

LEMMA ApplyIs ==
    ASSUME NEW st, Sound(st, Global, {}), NEW key, NEW arg
    PROVE  /\ Skips(key, arg) => Alike(st, Apply(st, key, arg), Global)
           /\ ~Skips(key, arg) => Changed(st, Apply(st, key, arg), Global, KeyField(key), KeyMeans(st, key, arg))
<1>0. Global \in DOMAIN st.opts /\ Alike(st, st, Global)
  BY DEF Sound, Shape, Alike
<1>1. CASE key \in DOMAIN Switches
  <2>1. Apply(st, key, arg) = [st EXCEPT !.opts[Global][Switches[key]] = arg \in {"on", "yes", "true"}]
    BY <1>1, KeyKinds DEF Apply
  <2>2. ~Skips(key, arg) /\ KeyField(key) = Switches[key] /\ KeyMeans(st, key, arg) = (arg \in {"on", "yes", "true"})
    BY <1>1, KeyKinds DEF Skips, KeyField, KeyMeans, Keys
  <2>3. Changed(st, [st EXCEPT !.opts[Global][Switches[key]] = arg \in {"on", "yes", "true"}], Global,
                Switches[key], arg \in {"on", "yes", "true"})
    BY <1>0, <1>1, KeyKinds, PlainSound
  <2>. QED BY <2>1, <2>2, <2>3
<1>2. CASE key \in DOMAIN Numbers
  <2>1. Apply(st, key, arg) = [st EXCEPT !.opts[Global][Numbers[key]] = arg]
    BY <1>2, KeyKinds DEF Apply
  <2>2. ~Skips(key, arg) /\ KeyField(key) = Numbers[key] /\ KeyMeans(st, key, arg) = arg
    BY <1>2, KeyKinds DEF Skips, KeyField, KeyMeans, Keys
  <2>3. Changed(st, [st EXCEPT !.opts[Global][Numbers[key]] = arg], Global, Numbers[key], arg)
    BY <1>0, <1>2, KeyKinds, PlainSound
  <2>. QED BY <2>1, <2>2, <2>3
<1>3. CASE key \in DOMAIN Strings
  <2>1. Apply(st, key, arg) = [st EXCEPT !.opts[Global][Strings[key]] = arg]
    BY <1>3, KeyKinds DEF Apply
  <2>2. ~Skips(key, arg) /\ KeyField(key) = Strings[key] /\ KeyMeans(st, key, arg) = arg
    BY <1>3, KeyKinds DEF Skips, KeyField, KeyMeans, Keys
  <2>3. Changed(st, [st EXCEPT !.opts[Global][Strings[key]] = arg], Global, Strings[key], arg)
    BY <1>0, <1>3, KeyKinds, PlainSound
  <2>. QED BY <2>1, <2>2, <2>3
<1>4. CASE key \in DOMAIN Targets
  <2>. DEFINE opt == Targets[key]
  <2>1. Apply(st, key, arg) = Set(st, Global, opt, arg).st
    BY <1>4, KeyKinds DEF Apply
  <2>2. /\ Skips(key, arg) <=> arg \in {Bad, Null}
        /\ KeyField(key) = "defludp" /\ KeyMeans(st, key, arg) = Meaning(st, Global, opt, arg)
    BY <1>4, KeyKinds DEF Skips, KeyField, KeyMeans, Keys
  <2>3. opt \in Known /\ FieldOf(opt) = "defludp" /\ (Legal(Global, opt, arg) <=> arg \notin {Bad, Null})
    BY <1>4, KeyKinds, ListsLegal
  <2>. HIDE DEF opt
  <2>4. /\ Legal(Global, opt, arg) => Changed(st, Set(st, Global, opt, arg).st, Global, FieldOf(opt), Meaning(st, Global, opt, arg))
        /\ ~Legal(Global, opt, arg) => Alike(st, Set(st, Global, opt, arg).st, Global)
    BY <1>0, <2>3, SetIs
  <2>. QED BY <2>1, <2>2, <2>3, <2>4
<1>5. CASE key = "DEREF"
  <2>1. Apply(st, key, arg) = IF arg \in DOMAIN Words THEN [st EXCEPT !.opts[Global].deref = Words[arg]] ELSE st
    BY <1>5, KeyKinds DEF Apply
  <2>2. (Skips(key, arg) <=> arg \notin DOMAIN Words) /\ KeyField(key) = "deref" /\ KeyMeans(st, key, arg) = Words[arg]
    BY <1>5, KeyKinds DEF Skips, KeyField, KeyMeans, Keys
  <2>3. Changed(st, [st EXCEPT !.opts[Global].deref = Words[arg]], Global, "deref", Words[arg])
    BY <1>0, <1>5, KeyKinds, PlainSound
  <2>. QED BY <1>0, <2>1, <2>2, <2>3
<1>6. CASE key \notin Keys
  BY <1>0, <1>6 DEF Apply, Skips, Keys
<1>. QED BY <1>1, <1>2, <1>3, <1>4, <1>5, <1>6 DEF Keys

-----------------------------------------------------------------------------
(* The settings are applied one after the other: a run is a function from  *)
(* how many have been read to the state then.                              *)
LEMMA Least ==
    ASSUME NEW T, T \subseteq Nat, T # {}
    PROVE  \E x \in T : \A y \in T : x <= y
<1>1. \E x \in T : \A y \in T : ~(<<y, x>> \in OpToRel(<, Nat))
  BY WFMin, NatLessThanWellFounded, Zenon
<1>2. PICK x \in T : \A y \in T : ~(<<y, x>> \in OpToRel(<, Nat))
  BY <1>1
<1>3. \A y \in T : <<y, x>> \in Nat \X Nat /\ <<y, x>>[1] = y /\ <<y, x>>[2] = x
  OBVIOUS
<1>4. \A y \in T : ~(y < x)
  BY <1>2, <1>3 DEF OpToRel
<1>. QED BY <1>4

Runs(run, m, st, settings) ==
    run = [n \in 0..m |-> IF n = 0 THEN st ELSE Apply(run[n - 1], settings[n].key, settings[n].arg)]

LEMMA RunExists ==
    ASSUME NEW st, NEW settings, NEW m \in Nat
    PROVE  \E run : Runs(run, m, st, settings)
<1>. DEFINE T == {n \in Nat : ~ \E run : Runs(run, n, st, settings)}
<1>. SUFFICES ASSUME T # {} PROVE FALSE
  OBVIOUS
<1>1. PICK n \in T : \A k \in T : n <= k
  <2>1. T \subseteq Nat
    OBVIOUS
  <2>. HIDE DEF T
  <2>. QED BY <2>1, Least
<1>2. n \in Nat /\ ~ \E run : Runs(run, n, st, settings)
  OBVIOUS
<1>3. CASE n = 0
  <2>. DEFINE run == [k \in 0..n |-> st]
  <2>1. run = [k \in 0..n |-> IF k = 0 THEN st ELSE Apply(run[k - 1], settings[k].key, settings[k].arg)]
    BY <1>3
  <2>. HIDE DEF run
  <2>. QED BY <1>2, <2>1 DEF Runs
<1>4. CASE n # 0
  <2>1. n - 1 \in Nat /\ n - 1 \notin T
    BY <1>1, <1>2, <1>4
  <2>2. PICK old : Runs(old, n - 1, st, settings)
    BY <2>1
  <2>. DEFINE run == [k \in 0..n |-> IF k < n THEN old[k] ELSE Apply(old[n - 1], settings[n].key, settings[n].arg)]
  <2>3. \A k \in 0..n : run[k] = IF k = 0 THEN st ELSE Apply(run[k - 1], settings[k].key, settings[k].arg)
    <3>. SUFFICES ASSUME NEW k \in 0..n
                  PROVE  run[k] = IF k = 0 THEN st ELSE Apply(run[k - 1], settings[k].key, settings[k].arg)
      OBVIOUS
    <3>1. old = [j \in 0..n - 1 |-> IF j = 0 THEN st ELSE Apply(old[j - 1], settings[j].key, settings[j].arg)]
      BY <2>2 DEF Runs
    <3>2. CASE k < n
      <4>1. k \in 0..n - 1 /\ run[k] = old[k]
        BY <1>2, <3>2
      <4>2. k # 0 => run[k - 1] = old[k - 1]
        BY <1>2, <3>2
      <4>3. old[k] = IF k = 0 THEN st ELSE Apply(old[k - 1], settings[k].key, settings[k].arg)
        <5>. HIDE DEF run
        <5>. QED BY <3>1, <4>1, Zenon
      <4>. HIDE DEF run
      <4>. QED BY <4>1, <4>2, <4>3
    <3>3. CASE k = n
      <4>1. run[k] = Apply(old[n - 1], settings[n].key, settings[n].arg)
        BY <1>2, <3>3
      <4>2. run[k - 1] = old[n - 1]
        BY <1>2, <1>4, <3>3
      <4>. HIDE DEF run
      <4>. QED BY <1>4, <3>3, <4>1, <4>2
    <3>. QED BY <1>2, <3>2, <3>3
  <2>4. run = [k \in 0..n |-> run[k]]
    OBVIOUS
  <2>. HIDE DEF run
  <2>5. Runs(run, n, st, settings)
    BY <2>3, <2>4 DEF Runs
  <2>. QED BY <1>2, <2>5
<1>. QED BY <1>3, <1>4

LEMMA ReadIs ==
    ASSUME NEW st, NEW settings, Len(settings) \in Nat
    PROVE  \E run : Runs(run, Len(settings), st, settings) /\ Read(st, settings) = run[Len(settings)]
<1>. DEFINE after == CHOOSE run : Runs(run, Len(settings), st, settings)
<1>1. Runs(after, Len(settings), st, settings)
  BY RunExists
<1>2. Read(st, settings) = after[Len(settings)]
  BY DEF Read, Runs
<1>. QED BY <1>1, <1>2

(* What the settings leave is sound, and the global structure has neither  *)
(* timeouts nor what belongs to a session.                                 *)
Never == {"tm_api", "tm_net", "errno", "error", "matched"}
Quiet(st) == \A f \in Never : st.opts[Global][f] = 0

LEMMA NeverField == Never \subseteq Fields /\ "defludp" \notin Never /\ "defport" \notin Never
  BY Owns DEF Never, Owned, Timeouts

LEMMA ApplySound ==
    ASSUME NEW st, Sound(st, Global, {}), NEW key, NEW arg
    PROVE  LET s == Apply(st, key, arg)
           IN  Sound(s, Global, {}) /\ DOMAIN s.opts = DOMAIN st.opts /\ (Quiet(st) => Quiet(s))
<1>. DEFINE s == Apply(st, key, arg)
<1>1. CASE Skips(key, arg)
  <2>1. Alike(st, s, Global)
    BY <1>1, ApplyIs
  <2>. HIDE DEF s
  <2>. QED BY <2>1 DEF Alike, Quiet, s
<1>2. CASE ~Skips(key, arg)
  <2>1. Changed(st, s, Global, KeyField(key), KeyMeans(st, key, arg))
    BY <1>2, ApplyIs
  <2>2. KeyField(key) \notin Never
    BY <1>2 DEF Never, KeyField, Skips, Keys, Switches, Numbers, Strings, Targets
  <2>3. Never \subseteq Fields /\ Global \in DOMAIN st.opts
    BY NeverField DEF Sound, Shape
  <2>. HIDE DEF s
  <2>4. Quiet(st) => Quiet(s)
    BY <2>1, <2>2, <2>3 DEF Quiet, Changed, Same
  <2>. QED BY <2>1, <2>4 DEF Changed, Same, s
<1>. QED BY <1>1, <1>2

-----------------------------------------------------------------------------
(* What every call starts from, and what it begins with.                   *)
Untouched == opts = [o \in {Global} |-> Defaults] /\ heap = <<>> /\ lost = {}

IInv ==
    /\ conf \in Confs /\ valid \in BOOLEAN /\ (~valid => Untouched)
    /\ Sound(Now, Global, {}) /\ Quiet(Now)

LEMMA NowIs == Now.opts = opts /\ Now.heap = heap /\ Now.undefined = undefined /\ Now.lost = lost
  BY DEF Now

(* Where a structure has no pointer, it need not be left out of account.   *)
LEMMA NoHole ==
    ASSUME NEW st, NEW p, NEW F, NEW q, NEW G, Sound(st, p, F),
           \A o, f : Points(st, q, G, o, f) <=> Points(st, p, F, o, f)
    PROVE  Sound(st, q, G)
<1>1. Shape(st)
  BY DEF Sound
<1>. QED BY <1>1, Moved

LEMMA Whole ==
    ASSUME NEW st, NEW p, NEW q, Sound(st, p, {})
    PROVE  Sound(st, q, {})
<1>1. \A o, f : Points(st, q, {}, o, f) <=> Points(st, p, {}, o, f)
  BY DEF Points
<1>. QED BY <1>1, NoHole

LEMMA RunsSound ==
    ASSUME NEW st, NEW settings, Len(settings) \in Nat, Sound(st, Global, {}), Quiet(st),
           NEW run, Runs(run, Len(settings), st, settings)
    PROVE  \A n \in 0..Len(settings) :
              Sound(run[n], Global, {}) /\ DOMAIN run[n].opts = DOMAIN st.opts /\ Quiet(run[n])
<1>. DEFINE N == Len(settings)
            Good(s) == Sound(s, Global, {}) /\ DOMAIN s.opts = DOMAIN st.opts /\ Quiet(s)
<1>1. run = [n \in 0..N |-> IF n = 0 THEN st ELSE Apply(run[n - 1], settings[n].key, settings[n].arg)]
  BY DEF Runs
<1>. DEFINE T == {n \in 0..N : ~Good(run[n])}
<1>2. T = {}
  <2>. SUFFICES ASSUME T # {} PROVE FALSE
    OBVIOUS
  <2>1. PICK n \in T : \A k \in T : n <= k
    <3>1. T \subseteq Nat
      OBVIOUS
    <3>. HIDE DEF T
    <3>. QED BY <3>1, Least
  <2>2. n \in 0..N /\ ~Good(run[n])
    OBVIOUS
  <2>3. run[n] = IF n = 0 THEN st ELSE Apply(run[n - 1], settings[n].key, settings[n].arg)
    <3>. HIDE DEF T, Good, N
    <3>. QED BY <1>1, <2>2, Zenon
  <2>4. CASE n = 0
    BY <2>2, <2>3, <2>4
  <2>5. CASE n # 0
    <3>1. n - 1 \in 0..N /\ n - 1 \notin T
      BY <2>1, <2>2, <2>5
    <3>2. Good(run[n - 1])
      BY <3>1
    <3>3. Good(Apply(run[n - 1], settings[n].key, settings[n].arg))
      BY <3>2, ApplySound
    <3>. HIDE DEF Good, T
    <3>. QED BY <2>2, <2>3, <2>5, <3>3
  <2>. QED BY <2>4, <2>5
<1>3. \A n \in 0..N : Good(run[n])
  BY <1>2
<1>. QED BY <1>3

LEMMA RunSound ==
    ASSUME NEW st, NEW settings, Len(settings) \in Nat, Sound(st, Global, {}), Quiet(st)
    PROVE  LET s == Read(st, settings)
           IN  Sound(s, Global, {}) /\ DOMAIN s.opts = DOMAIN st.opts /\ Quiet(s)
<1>1. PICK run : Runs(run, Len(settings), st, settings) /\ Read(st, settings) = run[Len(settings)]
  BY ReadIs
<1>2. Len(settings) \in 0..Len(settings)
  OBVIOUS
<1>. QED BY <1>1, <1>2, RunsSound

(* The structure of the global options before any file is read.            *)
Fresh == Store(Now, Global, "defludp", Localhost)

LEMMA FreshSound ==
    ASSUME IInv, ~valid
    PROVE  /\ Changed(Now, Fresh, Global, "defludp", Localhost)
           /\ Initialized(Now) = Read(Fresh, Settings(conf)) /\ Len(Settings(conf)) \in Nat
<1>1. opts = [o \in {Global} |-> Defaults] /\ Sound(Now, Global, {}) /\ conf \in Confs
  BY DEF IInv, Untouched
<1>2. [Now EXCEPT !.opts[Global] = Defaults] = Now
  <2>1. [opts EXCEPT ![Global] = Defaults] = opts
    BY <1>1
  <2>2. [Now EXCEPT !.opts = [opts EXCEPT ![Global] = Defaults]] = Now
    BY <2>1 DEF Now
  <2>. QED BY <2>2, NowIs
<1>3. Now.opts[Global].defludp = 0 /\ Global \in DOMAIN Now.opts
  BY <1>1, NowIs DEF Defaults
<1>4. \A o, f : Points(Now, Global, {"defludp"}, o, f) <=> Points(Now, Global, {}, o, f)
  BY <1>3 DEF Points
<1>5. Sound(Now, Global, {"defludp"})
  BY <1>1, <1>4, NoHole
<1>6. Changed(Now, Fresh, Global, "defludp", Localhost)
  BY <1>3, <1>5, Kinds, StoreSound DEF Changed, Fresh
<1>7. Initialized(Now) = Read(Fresh, Settings(conf))
  BY <1>2 DEF Initialized, Fresh
<1>. QED BY <1>1, <1>6, <1>7, OptionsAssumption

LEMMA InitializedSound ==
    ASSUME IInv
    PROVE  LET s == Initialized(Now)
           IN  Sound(s, Global, {}) /\ Quiet(s) /\ DOMAIN s.opts = DOMAIN opts
<1>1. CASE valid
  BY <1>1, NowIs DEF Initialized, IInv
<1>2. CASE ~valid
  <2>1. /\ Changed(Now, Fresh, Global, "defludp", Localhost)
        /\ Initialized(Now) = Read(Fresh, Settings(conf)) /\ Len(Settings(conf)) \in Nat
    BY <1>2, FreshSound
  <2>2. Never \subseteq Fields /\ "defludp" \notin Never /\ Global \in DOMAIN opts /\ Quiet(Now)
    BY NeverField, NowIs DEF Sound, Shape, IInv
  <2>3. Quiet(Fresh) /\ Sound(Fresh, Global, {}) /\ DOMAIN Fresh.opts = DOMAIN opts
    BY <2>1, <2>2, NowIs DEF Quiet, Changed, Same
  <2>. QED BY <2>1, <2>3, RunSound
<1>. QED BY <1>1, <1>2 DEF IInv

-----------------------------------------------------------------------------
(* A session is created: what was there stays, and the new structure has   *)
(* the values of the global options but for what belongs to a session.     *)
Cleared == Controls \cup {"error", "matched"}

NewView(st, f) == IF f \in Cleared THEN Null ELSE IF f = "errno" THEN 0 ELSE View(st, Global, f)

Added(st, s, ld) ==
    /\ DOMAIN s.opts = {ld} \cup DOMAIN st.opts
    /\ \A o \in DOMAIN st.opts, f \in Fields : s.opts[o][f] = st.opts[o][f] /\ View(s, o, f) = View(st, o, f)
    /\ \A f \in Fields : View(s, ld, f) = NewView(st, f)
    /\ \A f \in Cleared : s.opts[ld][f] = 0

LEMMA CreatedSound ==
    ASSUME NEW st, Sound(st, Global, {}), Quiet(st), NEW ld \in Sessions, ld \notin DOMAIN st.opts
    PROVE  LET s == Created(st, ld)
           IN  Sound(s, ld, {}) /\ Added(st, s, ld) /\ Quiet(s)
<1>. DEFINE g == st.opts[Global]
            copy == [g EXCEPT !.sctrls = 0, !.cctrls = 0, !.errno = 0, !.error = 0, !.matched = 0]
            mid == [st EXCEPT !.opts = With(@, ld, copy)]
            s == Store(mid, ld, "defludp", Value(st, g.defludp))
<1>1. Created(st, ld) = s
  BY DEF Created
<1>2. /\ DOMAIN st = {"opts", "heap", "undefined", "lost"} /\ st.undefined = FALSE /\ Shape(st)
      /\ Global \in DOMAIN st.opts /\ DOMAIN g = Fields /\ 0 \notin DOMAIN st.heap /\ ld # Global
  BY DEF Sound, Shape
<1>3. /\ Cleared \subseteq Owned /\ Owned \subseteq Fields /\ "errno" \in Fields \ Owned /\ "defludp" \in Owned \ Cleared
      /\ Owned = Cleared \cup {"defludp", "tm_api", "tm_net"}
  BY Owns DEF Cleared, Owned, Timeouts, Controls
<1>4. /\ DOMAIN copy = Fields /\ \A f \in Cleared : copy[f] = 0
      /\ copy.errno = 0 /\ copy.tm_api = 0 /\ copy.tm_net = 0
      /\ \A f \in Fields : f \notin Cleared \cup {"errno"} => copy[f] = g[f]
  BY <1>2, <1>3 DEF Cleared, Controls, Quiet, Never
<1>5. /\ mid.opts = [o \in {ld} \cup DOMAIN st.opts |-> IF o = ld THEN copy ELSE st.opts[o]]
      /\ mid.heap = st.heap /\ mid.undefined = FALSE /\ mid.lost = st.lost /\ DOMAIN mid = {"opts", "heap", "undefined", "lost"}
  BY <1>2 DEF With
<1>. HIDE DEF mid, copy
<1>6. Shape(mid)
  BY <1>2, <1>4, <1>5 DEF Shape
<1>7. \A o, f : Points(mid, ld, {"defludp"}, o, f) => Points(st, Global, {}, o, f) /\ mid.opts[o][f] = st.opts[o][f]
  <2>. SUFFICES ASSUME NEW o, NEW f, Points(mid, ld, {"defludp"}, o, f)
                PROVE  Points(st, Global, {}, o, f) /\ mid.opts[o][f] = st.opts[o][f]
    OBVIOUS
  <2>1. o # ld
    BY <1>3, <1>4, <1>5 DEF Points
  <2>. QED BY <1>5, <2>1 DEF Points
<1>8. \A o, f : Points(st, Global, {}, o, f) => Points(mid, ld, {"defludp"}, o, f)
  BY <1>5 DEF Points
<1>9. Sound(mid, ld, {"defludp"})
  BY <1>5, <1>6, <1>7, <1>8, Moved
<1>10. Sound(s, ld, {}) /\ Same(mid, s, ld, {"defludp"}) /\ View(s, ld, "defludp") = Value(st, g.defludp)
  <2>1. ld \in DOMAIN mid.opts
    BY <1>5
  <2>. QED BY <1>3, <1>9, <2>1, StoreSound
<1>. HIDE DEF s
<1>11. \A o \in DOMAIN st.opts, f \in Fields : s.opts[o][f] = st.opts[o][f] /\ View(s, o, f) = View(st, o, f)
  <2>1. \A o \in DOMAIN st.opts, f \in Fields : s.opts[o][f] = mid.opts[o][f] /\ View(s, o, f) = View(mid, o, f)
    BY <1>5, <1>10 DEF Same
  <2>2. \A o \in DOMAIN st.opts, f \in Fields : mid.opts[o][f] = st.opts[o][f] /\ View(mid, o, f) = View(st, o, f)
    BY <1>5 DEF View, Value
  <2>. QED BY <2>1, <2>2
<1>12. \A f \in Fields : f # "defludp" => s.opts[ld][f] = copy[f] /\ View(s, ld, f) = IF f \in Owned THEN Value(st, copy[f]) ELSE copy[f]
  <2>1. \A f \in Fields : f # "defludp" => s.opts[ld][f] = mid.opts[ld][f] /\ View(s, ld, f) = View(mid, ld, f)
    BY <1>5, <1>10 DEF Same
  <2>. QED BY <1>5, <2>1 DEF View, Value
<1>13. \A f \in Fields : View(s, ld, f) = NewView(st, f)
  <2>. SUFFICES ASSUME NEW f \in Fields PROVE View(s, ld, f) = NewView(st, f)
    OBVIOUS
  <2>1. CASE f = "defludp"
    BY <1>3, <1>10, <2>1 DEF NewView, View
  <2>2. CASE f \in Cleared
    BY <1>2, <1>3, <1>4, <1>12, <2>2 DEF NewView, Value
  <2>3. CASE f = "errno"
    BY <1>3, <1>4, <1>12, <2>3 DEF NewView
  <2>4. CASE f \notin Cleared \cup {"errno", "defludp"}
    BY <1>3, <1>4, <1>12, <2>4 DEF NewView, View
  <2>. QED BY <2>1, <2>2, <2>3, <2>4
<1>14. Added(st, s, ld)
  BY <1>3, <1>4, <1>5, <1>10, <1>11, <1>12, <1>13 DEF Added, Same
<1>15. Quiet(s)
  BY <1>2, <1>11, NeverField DEF Quiet
<1>. QED BY <1>1, <1>10, <1>14, <1>15 DEF s

(* A session ends: what its controls point to is lost.                     *)
Removed(st, s, ld) ==
    /\ DOMAIN s.opts = DOMAIN st.opts \ {ld}
    /\ \A o \in DOMAIN s.opts, f \in Fields : s.opts[o][f] = st.opts[o][f] /\ View(s, o, f) = View(st, o, f)

Kept(st, ld) == {st.opts[ld][f] : f \in Controls} \ {0}

LEMMA FreedSound ==
    ASSUME NEW st, NEW ld, Sound(st, ld, {}), ld \in DOMAIN st.opts, ld # Global, Quiet(st)
    PROVE  LET s == Freed(st, ld)
           IN  Sound(s, Global, {}) /\ Removed(st, s, ld) /\ Quiet(s)
<1>. DEFINE o == st.opts[ld]
            r1 == Release(st, o.error)
            r2 == Release(r1, o.matched)
            r3 == Release(r2, o.defludp)
            r4 == Release(r3, o.tm_api)
            r5 == Release(r4, o.tm_net)
            s == [r5 EXCEPT !.opts = Restrict(@, DOMAIN @ \ {ld}), !.lost = @ \cup Kept(st, ld)]
            F == {"error", "matched", "defludp", "tm_api", "tm_net"}
<1>1. Freed(st, ld) = s
  BY DEF Freed, Kept
<1>2. Owned = F \cup Controls /\ F \cap Controls = {} /\ Owned \subseteq Fields
  BY Owns DEF Owned, Timeouts, Controls
<1>3. Sound(r1, ld, {"error"}) /\ r1.opts = st.opts /\ Same(st, r1, ld, F)
  <2>1. Sound(r1, ld, {} \cup {"error"}) /\ r1.opts = st.opts /\ Same(st, r1, ld, {} \cup {"error"})
    BY <1>2, ReleaseSound
  <2>2. {} \cup {"error"} = {"error"}
    OBVIOUS
  <2>. HIDE DEF r1
  <2>. QED BY <2>1, <2>2 DEF Same
<1>. HIDE DEF r1
<1>4. Sound(r2, ld, {"error", "matched"}) /\ r2.opts = st.opts /\ Same(st, r2, ld, F)
  <2>1. Sound(r2, ld, {"error"} \cup {"matched"}) /\ r2.opts = r1.opts /\ Same(r1, r2, ld, {"error"} \cup {"matched"})
    BY <1>2, <1>3, ReleaseSound
  <2>2. {"error"} \cup {"matched"} = {"error", "matched"}
    OBVIOUS
  <2>. HIDE DEF r2
  <2>. QED BY <1>3, <2>1, <2>2 DEF Same
<1>. HIDE DEF r2
<1>5. Sound(r3, ld, {"error", "matched", "defludp"}) /\ r3.opts = st.opts /\ Same(st, r3, ld, F)
  <2>1. Sound(r3, ld, {"error", "matched"} \cup {"defludp"}) /\ r3.opts = r2.opts
        /\ Same(r2, r3, ld, {"error", "matched"} \cup {"defludp"})
    BY <1>2, <1>4, ReleaseSound
  <2>2. {"error", "matched"} \cup {"defludp"} = {"error", "matched", "defludp"}
    OBVIOUS
  <2>. HIDE DEF r3
  <2>. QED BY <1>4, <2>1, <2>2 DEF Same
<1>. HIDE DEF r3
<1>6. Sound(r4, ld, {"error", "matched", "defludp", "tm_api"}) /\ r4.opts = st.opts /\ Same(st, r4, ld, F)
  <2>1. Sound(r4, ld, {"error", "matched", "defludp"} \cup {"tm_api"}) /\ r4.opts = r3.opts
        /\ Same(r3, r4, ld, {"error", "matched", "defludp"} \cup {"tm_api"})
    BY <1>2, <1>5, ReleaseSound
  <2>2. {"error", "matched", "defludp"} \cup {"tm_api"} = {"error", "matched", "defludp", "tm_api"}
    OBVIOUS
  <2>. HIDE DEF r4
  <2>. QED BY <1>5, <2>1, <2>2 DEF Same
<1>. HIDE DEF r4
<1>7. Sound(r5, ld, F) /\ r5.opts = st.opts /\ Same(st, r5, ld, F)
  <2>1. Sound(r5, ld, {"error", "matched", "defludp", "tm_api"} \cup {"tm_net"}) /\ r5.opts = r4.opts
        /\ Same(r4, r5, ld, {"error", "matched", "defludp", "tm_api"} \cup {"tm_net"})
    BY <1>2, <1>6, ReleaseSound
  <2>2. {"error", "matched", "defludp", "tm_api"} \cup {"tm_net"} = F
    OBVIOUS
  <2>. HIDE DEF r5
  <2>. QED BY <1>6, <2>1, <2>2 DEF Same
<1>. HIDE DEF r5
<1>8. /\ DOMAIN r5 = {"opts", "heap", "undefined", "lost"} /\ r5.undefined = FALSE /\ Shape(r5)
  BY <1>7 DEF Sound, Shape
<1>9. /\ s.opts = [q \in DOMAIN st.opts \ {ld} |-> st.opts[q]] /\ s.heap = r5.heap
      /\ DOMAIN s = {"opts", "heap", "undefined", "lost"} /\ s.undefined = FALSE /\ s.lost = r5.lost \cup Kept(st, ld)
  BY <1>7, <1>8 DEF Restrict
<1>. HIDE DEF s
<1>10. Shape(s)
  BY <1>7, <1>8, <1>9 DEF Shape
<1>11. \A q, f : Points(s, Global, {}, q, f) <=> Points(r5, ld, F, q, f) /\ q # ld
  BY <1>7, <1>9 DEF Points
<1>12. \A q, f : Points(s, Global, {}, q, f) => s.opts[q][f] = r5.opts[q][f]
  BY <1>7, <1>9 DEF Points
<1>13. \A f \in Controls : st.opts[ld][f] # 0 => Points(r5, ld, F, ld, f)
  BY <1>2, <1>7 DEF Points
<1>14. \A b \in Kept(st, ld) : \E f \in Controls : Points(r5, ld, F, ld, f) /\ r5.opts[ld][f] = b
  BY <1>7, <1>13 DEF Kept
<1>15. Sound(s, Global, {})
  <2>1. ASSUME NEW q, NEW t, NEW f, NEW h, Points(s, Global, {}, q, f), Points(s, Global, {}, t, h), s.opts[q][f] = s.opts[t][h]
        PROVE  q = t /\ f = h
    <3>1. Points(r5, ld, F, q, f) /\ Points(r5, ld, F, t, h) /\ r5.opts[q][f] = r5.opts[t][h]
      BY <1>11, <1>12, <2>1
    <3>. QED BY <1>7, <3>1 DEF Sound
  <2>2. ASSUME NEW q, NEW f, Points(s, Global, {}, q, f)
        PROVE  s.opts[q][f] \in DOMAIN s.heap /\ s.opts[q][f] \notin s.lost
    <3>1. Points(r5, ld, F, q, f) /\ q # ld /\ r5.opts[q][f] = s.opts[q][f]
      BY <1>11, <1>12, <2>2
    <3>2. s.opts[q][f] \in DOMAIN r5.heap /\ s.opts[q][f] \notin r5.lost
      BY <1>7, <3>1 DEF Sound
    <3>3. s.opts[q][f] \notin Kept(st, ld)
      <4>. SUFFICES ASSUME s.opts[q][f] \in Kept(st, ld) PROVE FALSE
        OBVIOUS
      <4>1. PICK h \in Controls : Points(r5, ld, F, ld, h) /\ r5.opts[ld][h] = s.opts[q][f]
        BY <1>14
      <4>. QED BY <1>7, <3>1, <4>1 DEF Sound
    <3>. QED BY <1>9, <3>2, <3>3
  <2>3. ASSUME NEW b \in DOMAIN s.heap, b \notin s.lost
        PROVE  \E q, f : Points(s, Global, {}, q, f) /\ s.opts[q][f] = b
    <3>1. PICK q, f : Points(r5, ld, F, q, f) /\ r5.opts[q][f] = b
      BY <1>7, <1>9, <2>3 DEF Sound
    <3>2. q # ld
      <4>. SUFFICES ASSUME q = ld PROVE FALSE
        OBVIOUS
      <4>1. f \in Controls /\ st.opts[ld][f] = b /\ b # 0
        BY <1>2, <1>7, <3>1 DEF Points
      <4>. QED BY <1>9, <2>3, <4>1 DEF Kept
    <3>3. Points(s, Global, {}, q, f) /\ s.opts[q][f] = b
      BY <1>11, <1>12, <3>1, <3>2
    <3>. QED BY <3>3
  <2>4. s.lost \subseteq DOMAIN s.heap
    <3>1. \A b \in Kept(st, ld) : b \in DOMAIN r5.heap
      BY <1>7, <1>14 DEF Sound
    <3>. QED BY <1>7, <1>9, <3>1 DEF Sound
  <2>. QED BY <1>10, <2>1, <2>2, <2>3, <2>4 DEF Sound
<1>16. Removed(st, s, ld)
  <2>1. \A q \in DOMAIN s.opts, f \in Fields : s.opts[q][f] = st.opts[q][f]
    BY <1>9
  <2>2. \A q \in DOMAIN s.opts, f \in Fields : View(r5, q, f) = View(st, q, f) /\ View(s, q, f) = View(r5, q, f)
    BY <1>7, <1>9 DEF Same, View, Value
  <2>. QED BY <1>9, <2>1, <2>2 DEF Removed
<1>17. Quiet(s)
  BY <1>7, <1>8, <1>9 DEF Quiet, Shape
<1>. QED BY <1>1, <1>15, <1>16, <1>17

-----------------------------------------------------------------------------
(* The calls.                                                              *)
LEMMA NowSound ==
    ASSUME NEW s, Becomes(s), Sound(s, Global, {})
    PROVE  Sound(Now', Global, {})
<1>1. Now'.opts = s.opts /\ Now'.heap = s.heap /\ Now'.undefined = s.undefined /\ Now'.lost = s.lost /\ DOMAIN Now' = {"opts", "heap", "undefined", "lost"}
  BY DEF Becomes, Now
<1>2. Shape(Now')
  BY <1>1 DEF Sound, Shape
<1>3. \A o, f : Points(Now', Global, {}, o, f) <=> Points(s, Global, {}, o, f)
  BY <1>1 DEF Points
<1>. QED BY <1>1, <1>2, <1>3, Moved

LEMMA Becoming ==
    ASSUME IInv, Call, NEW s, Becomes(s), Sound(s, Global, {}), Quiet(s)
    PROVE  IInv'
<1>1. Sound(Now', Global, {})
  BY NowSound
<1>2. Quiet(Now')
  BY DEF Quiet, Becomes, Now
<1>. QED BY <1>1, <1>2 DEF IInv, Call

LEMMA SetOptionInv ==
    ASSUME IInv, GlobalTimeouts = FALSE, NEW o \in {Global} \cup Open, NEW i \in Inputs, May(o, i), SetOption(o, i.option, i.value)
    PROVE  IInv'
<1>. DEFINE st == Initialized(Now)
            r == Set(st, o, i.option, i.value)
<1>1. Sound(st, Global, {}) /\ Quiet(st) /\ DOMAIN st.opts = DOMAIN opts
  BY InitializedSound
<1>2. o \in DOMAIN st.opts /\ Global \in DOMAIN st.opts /\ i.option \in Known
  BY <1>1, OptionsAssumption DEF Open, Sound, Shape
<1>3. Sound(st, o, {})
  BY <1>1, Whole
<1>4. Becomes(r.st) /\ Call
  BY DEF SetOption
<1>. HIDE DEF st
<1>5. CASE Legal(o, i.option, i.value)
  <2>1. Changed(st, r.st, o, FieldOf(i.option), Meaning(st, o, i.option, i.value))
    BY <1>2, <1>3, <1>5, SetIs
  <2>2. Sound(r.st, o, {}) /\ Same(st, r.st, o, {FieldOf(i.option)})
    BY <2>1 DEF Changed
  <2>3. Sound(r.st, Global, {})
    BY <2>2, Whole
  <2>4. o = Global => FieldOf(i.option) \notin Never
    <3>1. \A opt \in Known : opt \notin {"timeout", "network_timeout"} \cup ReadOnly \cup SessionOnly => FieldOf(opt) \notin Never
      BY FieldIs DEF Known, Booleans, Blocks, Plain, Lists, SessionOnly, Never
    <3>2. i.option \notin ReadOnly /\ (o = Global => i.option \notin SessionOnly)
      BY <1>5 DEF Legal, Refuses
    <3>. QED BY <1>2, <3>1, <3>2 DEF May
  <2>5. Never \subseteq Fields
    BY NeverField
  <2>. HIDE DEF r
  <2>6. Quiet(r.st)
    BY <1>1, <1>2, <2>2, <2>4, <2>5 DEF Quiet, Same
  <2>. QED BY <1>4, <2>3, <2>6, Becoming
<1>6. CASE ~Legal(o, i.option, i.value)
  <2>1. Alike(st, r.st, o)
    BY <1>2, <1>3, <1>6, SetIs
  <2>. HIDE DEF r
  <2>2. Sound(r.st, Global, {}) /\ Quiet(r.st)
    BY <1>1, <2>1, Whole DEF Alike, Quiet
  <2>. QED BY <1>4, <2>2, Becoming
<1>. QED BY <1>5, <1>6

(* No pointer dangles.                                                     *)
LEMMA NoDangling ==
    ASSUME NEW st, Sound(st, Global, {}), NEW o \in DOMAIN st.opts, NEW f \in Owned
    PROVE  ~Dangling(st, st.opts[o][f])
<1>1. CASE st.opts[o][f] = 0
  BY <1>1 DEF Dangling
<1>2. CASE st.opts[o][f] # 0
  <2>1. Points(st, Global, {}, o, f)
    BY <1>2 DEF Points
  <2>. QED BY <2>1 DEF Sound, Dangling
<1>. QED BY <1>1, <1>2

LEMMA GetOptionInv ==
    ASSUME IInv, NEW o \in {Global} \cup Open, NEW opt, GetOption(o, opt)
    PROVE  IInv'
<1>. DEFINE st == Initialized(Now)
<1>1. Sound(st, Global, {}) /\ Quiet(st) /\ DOMAIN st.opts = DOMAIN opts
  BY InitializedSound
<1>2. o \in DOMAIN st.opts
  BY <1>1 DEF Open, Sound, Shape
<1>3. ~(FieldOf(opt) \in Owned /\ Dangling(st, st.opts[o][FieldOf(opt)]))
  BY <1>1, <1>2, NoDangling
<1>4. Becomes(st) /\ Call
  BY <1>3 DEF GetOption
<1>. HIDE DEF st
<1>. QED BY <1>1, <1>4, Becoming

LEMMA UnbindInv ==
    ASSUME IInv, NEW ld, Unbind(ld)
    PROVE  IInv'
<1>1. Sound(Now, Global, {}) /\ Quiet(Now)
  BY DEF IInv
<1>2. ld \in DOMAIN Now.opts /\ ld # Global
  BY NowIs DEF Unbind, Open
<1>3. Sound(Now, ld, {})
  BY <1>1, Whole
<1>4. Sound(Freed(Now, ld), Global, {}) /\ Quiet(Freed(Now, ld))
  BY <1>1, <1>2, <1>3, FreedSound
<1>5. Becomes(Freed(Now, ld)) /\ Call
  BY DEF Unbind
<1>. QED BY <1>4, <1>5, Becoming

(* What ldap_init sets in the new session, and whether it can.             *)
Ported(st, ld, how, port) ==
    IF how = "init" /\ port # 0 THEN [Created(st, ld) EXCEPT !.opts[ld].defport = port] ELSE Created(st, ld)

Opened(st, ld, how, port, text) ==
    IF how = "create" \/ text = Null THEN Done(Ported(st, ld, how, port))
    ELSE Set(Ported(st, ld, how, port), ld, IF how = "init" THEN "host_name" ELSE "uri", text)

LEMMA PortedSound ==
    ASSUME NEW st, Sound(st, Global, {}), Quiet(st), NEW ld \in Sessions, ld \notin DOMAIN st.opts,
           NEW how, NEW port
    PROVE  LET s == Ported(st, ld, how, port)
           IN  /\ Sound(s, ld, {}) /\ Quiet(s) /\ Same(Created(st, ld), s, ld, {"defport"})
               /\ View(s, ld, "defport") = IF how = "init" /\ port # 0 THEN port ELSE View(st, Global, "defport")
<1>. DEFINE new == Created(st, ld)
            s == Ported(st, ld, how, port)
<1>1. Sound(new, ld, {}) /\ Added(st, new, ld) /\ Quiet(new)
  BY CreatedSound
<1>2. ld \in DOMAIN new.opts /\ ld # Global /\ Global \in DOMAIN new.opts
  BY <1>1, OptionsAssumption DEF Added, Sound, Shape
<1>3. "defport" \in Fields \ Owned /\ Never \subseteq Fields /\ "defport" \notin Cleared \cup Never
  BY Owns, NeverField DEF Owned, Timeouts, Cleared, Controls
<1>4. View(new, ld, "defport") = View(st, Global, "defport")
  BY <1>1, <1>3 DEF Added, NewView
<1>. HIDE DEF new
<1>5. CASE how = "init" /\ port # 0
  <2>1. s = [new EXCEPT !.opts[ld].defport = port]
    BY <1>5 DEF Ported, new
  <2>2. Changed(new, s, ld, "defport", port)
    <3>1. "defport" \in Fields \ Owned /\ Sound(new, ld, {}) /\ ld \in DOMAIN new.opts
      BY <1>1, <1>2, <1>3
    <3>2. Changed(new, [new EXCEPT !.opts[ld].defport = port], ld, "defport", port)
      BY <3>1, PlainSound
    <3>. QED BY <2>1, <3>2
  <2>3. Quiet(s)
    BY <1>1, <1>2, <1>3, <2>2 DEF Quiet, Changed, Same
  <2>. QED BY <1>5, <2>2, <2>3 DEF Changed, new
<1>6. CASE ~(how = "init" /\ port # 0)
  <2>1. s = new
    BY <1>6 DEF Ported, new
  <2>. QED BY <1>1, <1>4, <1>6, <2>1 DEF Same, new
<1>. QED BY <1>5, <1>6

LEMMA OpenedSound ==
    ASSUME NEW st, Sound(st, Global, {}), Quiet(st), NEW ld \in Sessions, ld \notin DOMAIN st.opts,
           NEW how, NEW port, NEW text
    PROVE  LET s == Opened(st, ld, how, port, text).st
           IN  /\ Sound(s, ld, {}) /\ Quiet(s) /\ ld \in DOMAIN s.opts /\ ld # Global
<1>. DEFINE with == Ported(st, ld, how, port)
            s == Opened(st, ld, how, port, text).st
            opt == IF how = "init" THEN "host_name" ELSE "uri"
<1>1. Added(st, Created(st, ld), ld)
  BY CreatedSound
<1>2. Sound(with, ld, {}) /\ Quiet(with) /\ Same(Created(st, ld), with, ld, {"defport"})
  BY PortedSound
<1>3. Never \subseteq Fields /\ "defludp" \notin Never
  BY NeverField
<1>4. ld \in DOMAIN with.opts /\ Global \in DOMAIN with.opts /\ ld # Global
  BY <1>1, <1>2, OptionsAssumption DEF Added, Same, Sound, Shape
<1>5. opt \in Lists /\ opt \in Known /\ FieldOf(opt) = "defludp"
  BY FieldIs DEF Lists, Known
<1>6. s = with \/ s = Set(with, ld, opt, text).st
  BY DEF Opened, Done
<1>. HIDE DEF with, opt
<1>7. CASE s = with
  <2>. HIDE DEF s
  <2>. QED BY <1>2, <1>4, <1>7 DEF s
<1>8. CASE s = Set(with, ld, opt, text).st
  <2>. HIDE DEF s
  <2>1. CASE Legal(ld, opt, text)
    <3>1. Changed(with, s, ld, "defludp", Meaning(with, ld, opt, text))
      BY <1>2, <1>4, <1>5, <1>8, <2>1, SetIs
    <3>2. DOMAIN s.opts = DOMAIN with.opts
      BY <3>1 DEF Changed, Same
    <3>3. Quiet(s)
      BY <1>2, <1>3, <1>4, <3>1 DEF Quiet, Changed, Same
    <3>. QED BY <1>4, <3>1, <3>2, <3>3 DEF Changed, s
  <2>2. CASE ~Legal(ld, opt, text)
    <3>1. Alike(with, s, ld)
      BY <1>2, <1>4, <1>5, <1>8, <2>2, SetIs
    <3>2. Quiet(s)
      BY <1>2, <3>1 DEF Alike, Quiet
    <3>. QED BY <1>4, <3>1, <3>2 DEF Alike, s
  <2>. QED BY <2>1, <2>2
<1>. QED BY <1>6, <1>7, <1>8

LEMMA CreateInv ==
    ASSUME IInv, NEW ld \in Sessions, NEW how, NEW port, NEW text, Create(ld, how, port, text)
    PROVE  IInv'
<1>. DEFINE st == Initialized(Now)
            s == Opened(st, ld, how, port, text)
            list == st.opts[Global].defludp
<1>1. Sound(st, Global, {}) /\ Quiet(st) /\ DOMAIN st.opts = DOMAIN opts
  BY InitializedSound
<1>2. ld \notin DOMAIN st.opts /\ Global \in DOMAIN st.opts
  BY <1>1, OptionsAssumption DEF Create, Open, Sound, Shape
<1>3. ~Dangling(st, list)
  BY <1>1, <1>2, Kinds, NoDangling
<1>4. Call
  BY DEF Create
<1>5. IF list = 0 THEN Becomes(st) ELSE Becomes(IF s.rc = "success" THEN s.st ELSE Freed(s.st, ld))
  BY <1>3 DEF Create, Opened, Ported
<1>6. Sound(s.st, ld, {}) /\ Quiet(s.st) /\ ld \in DOMAIN s.st.opts /\ ld # Global
  BY <1>1, <1>2, OpenedSound
<1>. HIDE DEF st, s
<1>7. Sound(s.st, Global, {})
  BY <1>6, Whole
<1>8. Sound(Freed(s.st, ld), Global, {}) /\ Quiet(Freed(s.st, ld))
  BY <1>6, FreedSound
<1>9. CASE list = 0
  BY <1>1, <1>4, <1>5, <1>9, Becoming
<1>10. CASE list # 0 /\ s.rc = "success"
  BY <1>4, <1>5, <1>6, <1>7, <1>10, Becoming
<1>11. CASE list # 0 /\ s.rc # "success"
  BY <1>4, <1>5, <1>8, <1>11, Becoming
<1>. QED BY <1>9, <1>10, <1>11

LEMMA InitInv == Init => IInv
<1>. SUFFICES ASSUME Init PROVE IInv
  OBVIOUS
<1>1. Untouched /\ conf \in Confs /\ valid = FALSE /\ undefined = FALSE
  BY DEF Init, Untouched
<1>2. Now.opts = [o \in {Global} |-> Defaults] /\ Now.heap = <<>> /\ Now.lost = {}
  BY <1>1 DEF Now, Untouched
<1>3. Quiet(Now)
  BY <1>2 DEF Quiet, Never, Defaults
<1>4. \A o, f : ~Points(Now, Global, {}, o, f)
  <2>1. \A f \in Owned : Defaults[f] = 0
    BY DEF Owned, Timeouts, Controls, Defaults
  <2>. QED BY <1>2, <2>1 DEF Points
<1>5. Shape(Now)
  <2>1. DOMAIN Now = {"opts", "heap", "undefined", "lost"} /\ Now.undefined = FALSE
    BY <1>1 DEF Now
  <2>2. DOMAIN Now.heap = {}
    BY <1>2
  <2>3. IsFiniteSet(DOMAIN Now.heap)
    BY <2>2, FS_EmptySet
  <2>. QED BY <1>2, <2>1, <2>2, <2>3 DEF Shape, Fields
<1>6. Sound(Now, Global, {})
  BY <1>2, <1>4, <1>5 DEF Sound
<1>. QED BY <1>1, <1>3, <1>6 DEF IInv

LEMMA NextInv == ASSUME GlobalTimeouts = FALSE, IInv, [Next]_vars PROVE IInv'
<1>1. ASSUME NEW o \in {Global} \cup Open, NEW i \in Inputs, May(o, i), SetOption(o, i.option, i.value) PROVE IInv'
  BY <1>1, SetOptionInv
<1>2. ASSUME NEW o \in {Global} \cup Open, NEW i \in Inputs, GetOption(o, i.option) PROVE IInv'
  BY <1>2, GetOptionInv
<1>3. ASSUME NEW ld \in Sessions, NEW h \in Hosts, Create(ld, h.how, h.port, h.text) PROVE IInv'
  BY <1>3, CreateInv
<1>4. ASSUME NEW ld \in Sessions, Unbind(ld) PROVE IInv'
  BY <1>4, UnbindInv
<1>5. CASE UNCHANGED vars
  <2>1. Now' = Now
    BY <1>5 DEF vars, Now
  <2>. QED BY <1>5, <2>1 DEF IInv, vars, Untouched, Sound, Shape, Points, Quiet
<1>. QED BY <1>1, <1>2, <1>3, <1>4, <1>5 DEF Next

LEMMA InvBlocks == ASSUME IInv PROVE BlocksExact
<1>1. Sound(Now, Global, {})
  BY DEF IInv
<1>2. undefined = FALSE
  BY <1>1, NowIs DEF Sound, Shape
<1>3. \A x \in Held : Points(Now, Global, {}, x[1], x[2])
  BY NowIs DEF Held, Points
<1>4. \A o, f : Points(Now, Global, {}, o, f) => <<o, f>> \in Held
  BY NowIs DEF Held, Points
<1>5. ASSUME NEW x \in Held, NEW y \in Held, opts[x[1]][x[2]] = opts[y[1]][y[2]] PROVE x = y
  <2>1. x[1] = y[1] /\ x[2] = y[2]
    <3>1. Points(Now, Global, {}, x[1], x[2]) /\ Points(Now, Global, {}, y[1], y[2])
      BY <1>3, <1>5
    <3>2. Now.opts[x[1]][x[2]] = Now.opts[y[1]][y[2]]
      BY <1>5, NowIs
    <3>3. \A o, q, f, g : Points(Now, Global, {}, o, f) /\ Points(Now, Global, {}, q, g) /\ Now.opts[o][f] = Now.opts[q][g]
                           => o = q /\ f = g
      BY <1>1 DEF Sound
    <3>. QED BY <3>1, <3>2, <3>3
  <2>2. x = <<x[1], x[2]>> /\ y = <<y[1], y[2]>>
    BY DEF Held
  <2>. QED BY <2>1, <2>2
<1>6. ASSUME NEW b \in DOMAIN heap, b \notin lost PROVE b \in {opts[x[1]][x[2]] : x \in Held}
  <2>1. PICK o, f : Points(Now, Global, {}, o, f) /\ opts[o][f] = b
    BY <1>1, <1>6, NowIs DEF Sound
  <2>2. <<o, f>> \in Held /\ opts[<<o, f>>[1]][<<o, f>>[2]] = b
    BY <1>4, <2>1
  <2>. QED BY <2>2
<1>7. \A x \in Held : opts[x[1]][x[2]] \in DOMAIN heap /\ opts[x[1]][x[2]] \notin lost
  BY <1>1, <1>3, NowIs DEF Sound
<1>8. lost \subseteq DOMAIN heap
  BY <1>1, NowIs DEF Sound
<1>9. DOMAIN heap = {opts[x[1]][x[2]] : x \in Held} \cup lost
  BY <1>6, <1>7, <1>8
<1>10. lost \cap {opts[x[1]][x[2]] : x \in Held} = {}
  BY <1>7
<1>. QED BY <1>2, <1>5, <1>9, <1>10 DEF BlocksExact

(* No call uses a block after it was freed, frees it twice or loses it,    *)
(* but for the controls of sessions that end and what was parsed of host   *)
(* lists with an error in them (url.c line 735), whatever is configured,   *)
(* set, opened and closed, as long as nobody gives the global options      *)
(* timeouts: ldap_create copies those pointers (open.c line 126), and      *)
(* every session that ends frees what they point to (unbind.c line 105).   *)
THEOREM BlocksTheorem == ASSUME GlobalTimeouts = FALSE PROVE Spec => []BlocksExact
<1>1. IInv /\ [Next]_vars => IInv'
  BY NextInv
<1>2. Spec => []IInv
  BY <1>1, InitInv, PTL DEF Spec
<1>. QED BY <1>2, InvBlocks, PTL

-----------------------------------------------------------------------------
(* The table of values that OptionTable keeps, after each step of a call.  *)
LEMMA ShownIs ==
    ASSUME NEW st, NEW s, s.opts = st.opts, s.heap = st.heap
    PROVE  Shown(s) = Shown(st)
  BY DEF Shown, View, Value

LEMMA SeenThen ==
    ASSUME Call, NEW s, Becomes(s)
    PROVE  Seen' = Shown(s)
<1>1. Now'.opts = s.opts /\ Now'.heap = s.heap
  BY DEF Becomes, Now
<1>2. Initialized(Now)' = Now'
  BY DEF Initialized, Call
<1>. QED BY <1>1, <1>2, ShownIs DEF Seen

LEMMA ShownRow ==
    ASSUME NEW st, NEW o \in DOMAIN st.opts, NEW f \in Fields
    PROVE  Shown(st)[o][f] = View(st, o, f)
  BY DEF Shown, Fields

LEMMA AlikeShown ==
    ASSUME NEW st, NEW s, NEW p, Alike(st, s, p)
    PROVE  Shown(s) = Shown(st)
  BY DEF Alike, Shown, Fields

Put(table, p, f, w) == [table EXCEPT ![p][f] = w]

LEMMA ChangedShown ==
    ASSUME NEW st, NEW s, NEW p \in DOMAIN st.opts, NEW f \in Fields, NEW w, Changed(st, s, p, f, w)
    PROVE  Shown(s) = Put(Shown(st), p, f, w)
<1>1. DOMAIN s.opts = DOMAIN st.opts /\ View(s, p, f) = w
      /\ \A o \in DOMAIN st.opts, g \in Fields : ~(o = p /\ g = f) => View(s, o, g) = View(st, o, g)
  BY DEF Changed, Same
<1>. QED BY <1>1 DEF Shown, Fields, Put

(* The names and rules of the table are those of the code.                 *)
LEMMA NamesAgree ==
    \A opt \in Known : opt \notin ReadOnly => Table!Name(opt) = FieldOf(opt) /\ FieldOf(opt) \in Fields
<1>1. \A opt \in Known : opt \notin ReadOnly => Table!Name(opt) = FieldOf(opt)
  BY FieldIs DEF Known, Booleans, Blocks, Plain, Lists, ReadOnly, Table!Name
<1>2. \A opt \in Known : opt \notin ReadOnly => FieldOf(opt) \in Fields
  BY FieldIs, Kinds, Owns DEF Known
<1>. QED BY <1>1, <1>2

LEMMA LegalAgrees ==
    ASSUME NEW o, NEW opt \in Known, NEW v
    PROVE  Table!Legal(o, opt, v) <=> Legal(o, opt, v)
  BY DEF Table!Legal, Legal, Refuses, Table!Constants, ReadOnly, Table!Clears, Nullable, Booleans, Table!Session,
         SessionOnly, Versions, Lists, Table!Global, Global

LEMMA MeantAgrees ==
    ASSUME NEW st, NEW o \in DOMAIN st.opts, NEW opt \in Known, NEW v, Shown(st) = Seen
    PROVE  Table!Meant(o, opt, v) = Meaning(st, o, opt, v)
<1>1. Seen[o].defport = st.opts[o].defport
  <2>1. "defport" \in Fields \ Owned
    BY Owns
  <2>. QED BY <2>1, ShownRow DEF View
<1>2. \A list, p : Table!WithPort(list, p) = Resolved(list, p)
  BY DEF Table!WithPort, Resolved
<1>3. CASE opt \in DOMAIN Booleans
  BY <1>3 DEF Table!Meant, Meaning, Booleans
<1>4. CASE opt \in Lists
  BY <1>1, <1>2, <1>4 DEF Table!Meant, Meaning, Booleans, Lists, PortOf, DefaultPort
<1>5. CASE opt \in DOMAIN Blocks
  BY <1>5 DEF Table!Meant, Meaning, Booleans, Lists, Blocks, Given, Controls
<1>6. CASE opt \notin DOMAIN Booleans \cup Lists \cup DOMAIN Blocks
  BY <1>6 DEF Table!Meant, Meaning, Booleans, Lists, Blocks
<1>. QED BY <1>3, <1>4, <1>5, <1>6

LEMMA SetsStep ==
    ASSUME IInv, NEW o \in {Global} \cup Open, NEW i \in Inputs, SetOption(o, i.option, i.value)
    PROVE  Table!Sets(o, i.option, i.value) /\ o \in DOMAIN Seen
<1>. DEFINE st == Initialized(Now)
            r == Set(st, o, i.option, i.value)
<1>1. Sound(st, Global, {}) /\ DOMAIN st.opts = DOMAIN opts
  BY InitializedSound
<1>2. o \in DOMAIN st.opts /\ i.option \in Known
  BY <1>1, OptionsAssumption DEF Open, Sound, Shape
<1>3. Sound(st, o, {})
  BY <1>1, Whole
<1>4. Becomes(r.st) /\ Call /\ ret' = Said(o, i.option, r.rc)
  BY DEF SetOption
<1>5. Seen = Shown(st)
  BY DEF Seen
<1>. HIDE DEF st
<1>6. Seen' = Shown(r.st)
  <2>. HIDE DEF r
  <2>. QED BY <1>4, SeenThen
<1>7. o \in DOMAIN Seen
  BY <1>2, <1>5 DEF Shown
<1>8. CASE Legal(o, i.option, i.value)
  <2>1. r.rc = "success" /\ Changed(st, r.st, o, FieldOf(i.option), Meaning(st, o, i.option, i.value))
    BY <1>2, <1>3, <1>8, SetIs
  <2>2. i.option \notin ReadOnly
    BY <1>8 DEF Legal, Refuses
  <2>3. Table!Name(i.option) = FieldOf(i.option) /\ FieldOf(i.option) \in Fields
    BY <1>2, <2>2, NamesAgree
  <2>. HIDE DEF r
  <2>4. Seen' = [Seen EXCEPT ![o][FieldOf(i.option)] = Meaning(st, o, i.option, i.value)]
    <3>. DEFINE f == FieldOf(i.option)
                w == Meaning(st, o, i.option, i.value)
                s == r.st
    <3>1. Changed(st, s, o, f, w) /\ f \in Fields
      BY <2>1, <2>3
    <3>. HIDE DEF f, w, s
    <3>2. Shown(s) = Put(Shown(st), o, f, w)
      <4>1. o \in DOMAIN st.opts
        BY <1>2
      <4>. QED BY <3>1, <4>1, ChangedShown, ZenonT(30)
    <3>. QED BY <1>5, <1>6, <3>2 DEF f, w, s, Put
  <2>5. Table!Meant(o, i.option, i.value) = Meaning(st, o, i.option, i.value)
    BY <1>2, <1>5, MeantAgrees
  <2>6. Table!Legal(o, i.option, i.value)
    BY <1>2, <1>8, LegalAgrees
  <2>. QED BY <1>4, <1>7, <2>1, <2>3, <2>4, <2>5, <2>6 DEF Table!Sets, Table!Said, Table!Returned, Said, Returned
<1>9. CASE ~Legal(o, i.option, i.value)
  <2>1. r.rc = "error" /\ Alike(st, r.st, o)
    BY <1>2, <1>3, <1>9, SetIs
  <2>2. Shown(r.st) = Shown(st) /\ r.rc = "error"
    BY <2>1, AlikeShown
  <2>3. ~Table!Legal(o, i.option, i.value)
    BY <1>2, <1>9, LegalAgrees
  <2>. HIDE DEF r
  <2>. QED BY <1>4, <1>5, <1>6, <1>7, <2>2, <2>3 DEF Table!Sets, Table!Said, Table!Returned, Said, Returned
<1>. QED BY <1>8, <1>9

LEMMA GetsStep ==
    ASSUME IInv, NEW o \in {Global} \cup Open, NEW opt \in Known, opt \notin ReadOnly, GetOption(o, opt)
    PROVE  Table!Gets(o, opt) /\ o \in DOMAIN Seen
<1>. DEFINE st == Initialized(Now)
            f == FieldOf(opt)
<1>1. Sound(st, Global, {}) /\ DOMAIN st.opts = DOMAIN opts
  BY InitializedSound
<1>2. o \in DOMAIN st.opts
  BY <1>1 DEF Open, Sound, Shape
<1>3. ~(f \in Owned /\ Dangling(st, st.opts[o][f]))
  BY <1>1, <1>2, NoDangling
<1>4. Becomes(st) /\ Call
      /\ ret' = IF o = Global /\ opt \in SessionOnly THEN Returned(o, opt, "error", Null)
                ELSE Returned(o, opt, "success", View(st, o, f))
  BY <1>3 DEF GetOption, View
<1>5. Seen = Shown(st)
  BY DEF Seen
<1>6. Table!Name(opt) = f /\ f \in Fields
  BY NamesAgree
<1>. HIDE DEF st, f
<1>7. Seen' = Seen
  BY <1>4, <1>5, SeenThen
<1>8. o \in DOMAIN Seen /\ Seen[o][f] = View(st, o, f)
  BY <1>2, <1>5, <1>6, ShownRow DEF Shown
<1>. QED BY <1>4, <1>6, <1>7, <1>8 DEF Table!Gets, Table!Returned, Returned, Table!Constants, ReadOnly,
            Table!Session, SessionOnly, Table!Global, Global

LEMMA ClosesStep ==
    ASSUME IInv, NEW ld \in Sessions, Unbind(ld)
    PROVE  Table!Closes(ld) /\ ld \in DOMAIN Seen
<1>1. ld \in DOMAIN opts /\ ld # Global
  BY DEF Unbind, Open
<1>2. valid
  BY <1>1 DEF IInv, Untouched
<1>3. Seen = Shown(Now)
  BY <1>2 DEF Seen, Initialized
<1>4. Sound(Now, ld, {}) /\ Quiet(Now)
  BY Whole DEF IInv
<1>5. Removed(Now, Freed(Now, ld), ld)
  BY <1>1, <1>4, NowIs, FreedSound
<1>6. Becomes(Freed(Now, ld)) /\ Call /\ ret' = Said(ld, "unbind", "success")
  BY DEF Unbind
<1>7. Seen' = Shown(Freed(Now, ld))
  BY <1>6, SeenThen
<1>. DEFINE s == Freed(Now, ld)
<1>. HIDE DEF s
<1>8. Shown(s) = [o \in DOMAIN Seen \ {ld} |-> Seen[o]]
  <2>1. DOMAIN Seen = DOMAIN Now.opts /\ DOMAIN s.opts = DOMAIN Now.opts \ {ld}
    BY <1>3, <1>5 DEF Shown, Removed, s
  <2>2. ASSUME NEW o \in DOMAIN s.opts PROVE Shown(s)[o] = Seen[o]
    BY <1>3, <1>5, <2>1 DEF Shown, Removed, s, Fields
  <2>. QED BY <2>1, <2>2 DEF Shown
<1>9. ld \in DOMAIN Seen
  BY <1>1, <1>3, NowIs DEF Shown
<1>. QED BY <1>6, <1>7, <1>8, <1>9 DEF Table!Closes, Table!Said, Table!Returned, Said, Returned, Table!Rows, s

(* A pointer is NULL just when nothing is seen of it.                      *)
LEMMA NullIs ==
    ASSUME NEW st, Sound(st, Global, {}), NEW o \in DOMAIN st.opts, NEW f \in Owned
    PROVE  View(st, o, f) = Null <=> st.opts[o][f] = 0
<1>1. CASE st.opts[o][f] = 0
  BY <1>1 DEF View, Value, Sound, Shape
<1>2. CASE st.opts[o][f] # 0
  <2>1. Points(st, Global, {}, o, f)
    BY <1>2 DEF Points
  <2>2. st.opts[o][f] \in DOMAIN st.heap
    BY <2>1 DEF Sound
  <2>. QED BY <1>2, <2>2 DEF View, Value, Sound, Shape
<1>. QED BY <1>1, <1>2

(* The row of a new session with this port and these servers.              *)
Opening(table, ld, port, list) ==
    LET row == [table[Global] EXCEPT !.sctrls = Null, !.cctrls = Null, !.defludp = list, !.defport = port]
    IN  [o \in {ld} \cup DOMAIN table |-> IF o = ld THEN row ELSE table[o]]

PortOfNew(st, how, port) == IF how = "init" /\ port # 0 THEN port ELSE View(st, Global, "defport")

LEMMA PortedShown ==
    ASSUME NEW st, Sound(st, Global, {}), Quiet(st), NEW ld \in Sessions, ld \notin DOMAIN st.opts,
           NEW how, NEW port
    PROVE  Shown(Ported(st, ld, how, port))
             = Opening(Shown(st), ld, PortOfNew(st, how, port), View(st, Global, "defludp"))
<1>. DEFINE s == Ported(st, ld, how, port)
            p == PortOfNew(st, how, port)
            t == Shown(st)
            row == [t[Global] EXCEPT !.sctrls = Null, !.cctrls = Null, !.defludp = View(st, Global, "defludp"), !.defport = p]
<1>1. Added(st, Created(st, ld), ld)
  BY CreatedSound
<1>2. Same(Created(st, ld), s, ld, {"defport"}) /\ View(s, ld, "defport") = p
  BY PortedSound DEF PortOfNew
<1>. HIDE DEF s, p
<1>3. DOMAIN s.opts = {ld} \cup DOMAIN st.opts /\ Global \in DOMAIN st.opts /\ ld # Global
  BY <1>1, <1>2 DEF Added, Same, Sound, Shape
<1>4. \A o \in DOMAIN st.opts, f \in Fields : View(s, o, f) = View(st, o, f)
  BY <1>1, <1>2 DEF Added, Same
<1>5. \A f \in Fields : View(s, ld, f) = IF f = "defport" THEN p ELSE NewView(st, f)
  BY <1>1, <1>2 DEF Added, Same
<1>6. /\ Cleared \subseteq Owned /\ Owned \subseteq Fields /\ "errno" \in Fields \ Owned /\ "defport" \in Fields \ Owned
      /\ "defludp" \in Owned \ Cleared /\ Cleared = {"sctrls", "cctrls", "error", "matched"}
  BY Owns DEF Cleared, Owned, Timeouts, Controls
<1>7. View(st, Global, "error") = Null /\ View(st, Global, "matched") = Null /\ View(st, Global, "errno") = 0
  BY <1>3, <1>6 DEF Quiet, Never, View, Value, Sound, Shape
<1>8. DOMAIN t[Global] = Fields /\ \A f \in Fields : t[Global][f] = View(st, Global, f)
  BY <1>3 DEF Shown, Fields
<1>. HIDE DEF t
<1>9. \A f \in Fields : row[f] = View(s, ld, f)
  BY <1>5, <1>6, <1>7, <1>8 DEF NewView
<1>10. DOMAIN row = Fields /\ row = [f \in DOMAIN row |-> row[f]]
  BY <1>8
<1>. HIDE DEF row
<1>11. row = [f \in Fields |-> View(s, ld, f)]
  BY <1>9, <1>10
<1>12. Shown(s) = [o \in {ld} \cup DOMAIN st.opts |-> IF o = ld THEN row ELSE t[o]]
  BY <1>3, <1>4, <1>11 DEF Shown, t, Fields
<1>13. DOMAIN t = DOMAIN st.opts
  BY DEF t, Shown
<1>. QED BY <1>12, <1>13 DEF Opening, s, row, t, p

LEMMA OpeningPut ==
    ASSUME NEW table, NEW ld, NEW port, NEW list, NEW w, "defludp" \in DOMAIN table[Global]
    PROVE  Put(Opening(table, ld, port, list), ld, "defludp", w) = Opening(table, ld, port, w)
<1>. DEFINE r(l) == [table[Global] EXCEPT !.sctrls = Null, !.cctrls = Null, !.defludp = l, !.defport = port]
<1>1. [r(list) EXCEPT !["defludp"] = w] = r(w)
  OBVIOUS
<1>2. \A l : Opening(table, ld, port, l) = [o \in {ld} \cup DOMAIN table |-> IF o = ld THEN r(l) ELSE table[o]]
  BY DEF Opening
<1>. HIDE DEF r
<1>3. Put(Opening(table, ld, port, list), ld, "defludp", w)
        = [Opening(table, ld, port, list) EXCEPT ![ld] = [r(list) EXCEPT !["defludp"] = w]]
  BY <1>2 DEF Put
<1>. QED BY <1>1, <1>2, <1>3

LEMMA OpensStep ==
    ASSUME IInv, NEW ld \in Sessions, NEW h \in Hosts, Create(ld, h.how, h.port, h.text)
    PROVE  Table!Opens(ld, h) /\ ld \notin DOMAIN Seen
<1>. DEFINE st == Initialized(Now)
            with == Ported(st, ld, h.how, h.port)
            s == Opened(st, ld, h.how, h.port, h.text)
            opt == IF h.how = "init" THEN "host_name" ELSE "uri"
            own == h.how # "create" /\ h.text # Null
            list == View(st, Global, "defludp")
            port == PortOfNew(st, h.how, h.port)
            new(l) == Opening(Seen, ld, port, l)
            theirs == IF h.text = <<>> THEN Null ELSE Resolved(h.text, IF h.how = "init" /\ port # 0 THEN port ELSE DefaultPort)
<1>1. Sound(st, Global, {}) /\ Quiet(st) /\ DOMAIN st.opts = DOMAIN opts
  BY InitializedSound
<1>2. ld \notin DOMAIN st.opts /\ Global \in DOMAIN st.opts /\ ld # Global
  BY <1>1, OptionsAssumption DEF Create, Open, Sound, Shape
<1>3. ~Dangling(st, st.opts[Global].defludp) /\ (list = Null <=> st.opts[Global].defludp = 0)
  BY <1>1, <1>2, Kinds, NoDangling, NullIs
<1>4. Call /\ IF list = Null THEN Becomes(st) /\ ret' = Said(ld, "create", "error")
              ELSE Becomes(IF s.rc = "success" THEN s.st ELSE Freed(s.st, ld)) /\ ret' = Said(ld, "create", s.rc)
  BY <1>3 DEF Create, Opened, Ported
<1>5. Seen = Shown(st)
  BY DEF Seen
<1>6. s = IF own THEN Set(with, ld, opt, h.text) ELSE Done(with)
  BY DEF Opened
<1>. HIDE DEF st, s
<1>7. Shown(with) = new(list)
  BY <1>1, <1>2, <1>5, PortedShown
<1>8. /\ Sound(with, ld, {}) /\ Quiet(with) /\ Same(Created(st, ld), with, ld, {"defport"})
      /\ View(with, ld, "defport") = port
  BY <1>1, <1>2, PortedSound DEF PortOfNew
<1>9. Added(st, Created(st, ld), ld)
  BY <1>1, <1>2, CreatedSound
<1>10. "defludp" \in Fields /\ "defport" \in Fields \ Owned
  BY Owns, Kinds
<1>11. /\ DOMAIN with.opts = {ld} \cup DOMAIN st.opts
       /\ \A o \in DOMAIN st.opts, f \in Fields : View(with, o, f) = View(st, o, f)
  BY <1>2, <1>8, <1>9 DEF Added, Same
<1>. HIDE DEF with
<1>12. /\ opt \in Lists /\ opt \in Known /\ FieldOf(opt) = "defludp"
       /\ Legal(ld, opt, h.text) <=> h.text \notin {Bad, Null}
  BY ListsLegal DEF Lists
<1>13. Meaning(with, ld, opt, h.text) = theirs
  <2>1. with.opts[ld].defport = port
    BY <1>8, <1>10 DEF View
  <2>. HIDE DEF port
  <2>. QED BY <2>1, Kinds DEF Meaning, PortOf, Lists, Booleans
<1>14. /\ Seen[Global].defludp = list /\ Seen[Global].defport = View(st, Global, "defport")
       /\ DOMAIN Seen[Global] = Fields /\ DOMAIN Seen = DOMAIN st.opts
  BY <1>2, <1>5, <1>10 DEF Shown, Fields
<1>15. /\ own => (IF h.text = Bad THEN s.rc = "error" ELSE s.rc = "success")
       /\ ~own => s.rc = "success" /\ s.st = with
       /\ own /\ h.text = Bad => Alike(with, s.st, ld)
       /\ own /\ h.text # Bad => Shown(s.st) = new(theirs)
  <2>1. CASE ~own
    BY <1>6, <2>1 DEF Done
  <2>2. CASE own /\ h.text = Bad
    <3>1. Set(with, ld, opt, h.text).rc = "error" /\ Alike(with, Set(with, ld, opt, h.text).st, ld)
      <4>. HIDE DEF opt
      <4>. QED BY <1>8, <1>11, <1>12, <2>2, SetIs
    <3>. QED BY <1>6, <2>2, <3>1
  <2>3. CASE own /\ h.text # Bad
    <3>. DEFINE u == Set(with, ld, opt, h.text)
                w == Meaning(with, ld, opt, h.text)
    <3>1. u.rc = "success" /\ Changed(with, u.st, ld, "defludp", w)
      <4>. HIDE DEF opt
      <4>. QED BY <1>8, <1>11, <1>12, <2>3, SetIs
    <3>. HIDE DEF u, w, new, theirs
    <3>2. Shown(u.st) = Put(Shown(with), ld, "defludp", w)
      <4>1. ld \in DOMAIN with.opts /\ "defludp" \in Fields
        BY <1>10, <1>11
      <4>. QED BY <3>1, <4>1, ChangedShown
    <3>3. Put(new(list), ld, "defludp", w) = new(w)
      BY <1>10, <1>14, OpeningPut DEF new
    <3>4. s = u /\ w = theirs
      BY <1>6, <1>13, <2>3 DEF u, w
    <3>. QED BY <1>7, <2>3, <3>1, <3>2, <3>3, <3>4
  <2>. QED BY <2>1, <2>2, <2>3
<1>16. own /\ h.text = Bad => Shown(Freed(s.st, ld)) = Seen
  <2>. SUFFICES ASSUME own /\ h.text = Bad PROVE Shown(Freed(s.st, ld)) = Seen
    OBVIOUS
  <2>. DEFINE left == s.st
              r == Freed(left, ld)
  <2>0. Alike(with, left, ld)
    BY <1>15
  <2>. HIDE DEF left
  <2>1. Sound(left, ld, {}) /\ ld \in DOMAIN left.opts /\ Quiet(left)
    BY <1>8, <1>11, <2>0 DEF Alike, Quiet
  <2>2. Removed(left, r, ld)
    BY <1>2, <2>1, FreedSound
  <2>. HIDE DEF r
  <2>4. DOMAIN r.opts = DOMAIN st.opts /\ \A o \in DOMAIN st.opts, f \in Fields : View(r, o, f) = View(st, o, f)
    BY <1>2, <1>11, <2>0, <2>2 DEF Removed, Alike
  <2>3. Shown(r) = Shown(st)
    BY <2>4 DEF Shown, Fields
  <2>. QED BY <1>5, <2>3 DEF r, left
<1>17. Table!Opens(ld, h) <=>
         IF list = Null \/ (own /\ h.text = Bad) THEN ret' = Said(ld, "create", "error") /\ Seen' = Seen
         ELSE ret' = Said(ld, "create", "success") /\ Seen' = new(IF own THEN theirs ELSE list)
  <2>1. \A l, p : Table!WithPort(l, p) = Resolved(l, p)
    BY DEF Table!WithPort, Resolved
  <2>2. port = IF h.how = "init" /\ h.port # 0 THEN h.port ELSE Seen[Global].defport
    BY <1>14 DEF PortOfNew
  <2>. DEFINE p == IF h.how = "init" /\ h.port # 0 THEN h.port ELSE Seen[Global].defport
              l == IF ~own THEN Seen[Global].defludp
                   ELSE IF h.text = <<>> THEN Null
                   ELSE Table!WithPort(h.text, IF h.how = "init" /\ p # 0 THEN p ELSE 389)
  <2>3. l = IF own THEN theirs ELSE list
    <3>. HIDE DEF list, port
    <3>. QED BY <1>14, <2>1, <2>2 DEF DefaultPort
  <2>4. Table!Opens(ld, h) <=>
          IF Seen[Global].defludp = Null \/ (own /\ h.text = Bad) THEN ret' = Said(ld, "create", "error") /\ Seen' = Seen
          ELSE ret' = Said(ld, "create", "success") /\ Seen' = Opening(Seen, ld, p, l)
    <3>. HIDE DEF list, port, theirs
    <3>. QED BY DEF Table!Opens, Table!Said, Table!Returned, Said, Returned, Table!Rows, Opening, Table!Global, Global
  <2>5. p = port
    BY <2>2
  <2>. HIDE DEF list, port, theirs, l, p
  <2>. QED BY <1>14, <2>3, <2>4, <2>5
<1>18. ld \notin DOMAIN Seen
  BY <1>2, <1>14
<1>. HIDE DEF list, own, new, theirs
<1>19. CASE list = Null
  <2>1. Seen' = Seen
    BY <1>4, <1>5, <1>19, SeenThen
  <2>. QED BY <1>4, <1>17, <1>18, <1>19, <2>1
<1>20. CASE list # Null /\ ~own
  <2>1. Seen' = new(list)
    BY <1>4, <1>7, <1>15, <1>20, SeenThen
  <2>. QED BY <1>4, <1>15, <1>17, <1>18, <1>20, <2>1
<1>21. CASE list # Null /\ own /\ h.text = Bad
  <2>1. Seen' = Seen
    BY <1>4, <1>15, <1>16, <1>21, SeenThen
  <2>. QED BY <1>4, <1>15, <1>17, <1>18, <1>21, <2>1
<1>22. CASE list # Null /\ own /\ h.text # Bad
  <2>1. Seen' = new(theirs)
    BY <1>4, <1>15, <1>22, SeenThen
  <2>. QED BY <1>4, <1>15, <1>17, <1>18, <1>22, <2>1
<1>. QED BY <1>19, <1>20, <1>21, <1>22

LEMMA TableStep ==
    ASSUME IInv, [Next]_vars
    PROVE  [Table!Next]_(Table!vars)
<1>1. CASE UNCHANGED vars
  <2>1. Seen' = Seen
    BY <1>1 DEF vars, Seen, Initialized, Now
  <2>. QED BY <1>1, <2>1 DEF vars, Table!vars
<1>2. CASE Next
  <2>1. ASSUME NEW o \in {Global} \cup Open, NEW i \in Inputs, SetOption(o, i.option, i.value) PROVE Table!Next
    <3>1. Table!Sets(o, i.option, i.value) /\ o \in DOMAIN Seen
      BY <2>1, SetsStep
    <3>2. UNCHANGED conf
      BY <2>1 DEF SetOption, Call
    <3>. QED BY <3>1, <3>2, Zenon DEF Table!Next, Table!Rows
  <2>2. ASSUME NEW o \in {Global} \cup Open, NEW i \in Inputs, i.option \notin ReadOnly, GetOption(o, i.option)
        PROVE  Table!Next
    <3>1. i.option \in Known
      BY OptionsAssumption
    <3>2. Table!Gets(o, i.option) /\ o \in DOMAIN Seen
      BY <2>2, <3>1, GetsStep
    <3>3. UNCHANGED conf
      BY <2>2 DEF GetOption, Call
    <3>. QED BY <3>2, <3>3, Zenon DEF Table!Next, Table!Rows
  <2>3. ASSUME NEW ld \in Sessions, NEW h \in Hosts, Create(ld, h.how, h.port, h.text) PROVE Table!Next
    <3>1. Table!Opens(ld, h) /\ ld \in Sessions \ DOMAIN Seen
      BY <2>3, OpensStep
    <3>2. UNCHANGED conf
      BY <2>3 DEF Create, Call
    <3>. QED BY <3>1, <3>2, Zenon DEF Table!Next, Table!Rows
  <2>4. ASSUME NEW ld \in Sessions, Unbind(ld) PROVE Table!Next
    <3>1. Table!Closes(ld) /\ ld \in DOMAIN Seen \cap Sessions
      BY <2>4, ClosesStep
    <3>2. UNCHANGED conf
      BY <2>4 DEF Unbind, Call
    <3>. QED BY <3>1, <3>2, Zenon DEF Table!Next, Table!Rows
  <2>. QED BY <1>2, <2>1, <2>2, <2>3, <2>4 DEF Next
<1>. QED BY <1>1, <1>2

-----------------------------------------------------------------------------
(* The table the first call will find: the last setting of a kind counts.  *)
LEMMA MaxIs ==
    ASSUME NEW n \in Nat, NEW K \in SUBSET (1..n), K # {}
    PROVE  Max(K) \in K /\ \A k \in K : k <= Max(K)
<1>. DEFINE T == {n - k : k \in K}
<1>1. T \subseteq Nat /\ T # {}
  <2>1. \A k \in K : n - k \in Nat
    OBVIOUS
  <2>2. T # {}
    OBVIOUS
  <2>. QED BY <2>1, <2>2
<1>. HIDE DEF T
<1>2. PICK t \in T : \A u \in T : t <= u
  BY <1>1, Least
<1>3. PICK m \in K : t = n - m
  BY DEF T
<1>4. \A k \in K : n - k \in T
  BY DEF T
<1>5. \A k \in K : m >= k
  BY <1>2, <1>3, <1>4
<1>6. (CHOOSE x \in K : \A y \in K : x >= y) \in {x \in K : \A y \in K : x >= y}
  BY <1>5
<1>. QED BY <1>6 DEF Max

LEMMA LastOf ==
    ASSUME NEW n \in Nat, NEW K \in SUBSET (1..n), NEW val, NEW w,
           \A i \in 1..n : val[i] = IF i \in K THEN w[i] ELSE val[i - 1]
    PROVE  val[n] = IF K = {} THEN val[0] ELSE w[Max(K)]
<1>. DEFINE m == IF K = {} THEN 0 ELSE Max(K)
            T == {i \in m..n : val[i] # val[m]}
<1>1. m \in 0..n /\ (K # {} => m \in K) /\ \A k \in K : k <= m
  <2>1. K # {} => Max(K) \in K /\ \A k \in K : k <= Max(K)
    BY MaxIs
  <2>2. \A k \in K : k \in 1..n /\ k \in 0..n
    OBVIOUS
  <2>3. CASE K = {}
    BY <2>3
  <2>4. CASE K # {}
    <3>1. m = Max(K)
      BY <2>4
    <3>. HIDE DEF m
    <3>. QED BY <2>1, <2>2, <2>4, <3>1
  <2>. QED BY <2>3, <2>4
<1>. HIDE DEF m
<1>2. T = {}
  <2>. SUFFICES ASSUME T # {} PROVE FALSE
    OBVIOUS
  <2>1. PICK i \in T : \A k \in T : i <= k
    <3>1. T \subseteq Nat
      BY <1>1
    <3>. HIDE DEF T
    <3>. QED BY <3>1, Least
  <2>2. i \in m..n /\ val[i] # val[m]
    OBVIOUS
  <2>3. i - 1 \in m..n /\ i - 1 \notin T
    BY <1>1, <2>1, <2>2
  <2>4. val[i - 1] = val[m]
    BY <2>3
  <2>5. i \in 1..n /\ i \notin K
    BY <1>1, <2>2, <2>3
  <2>. QED BY <2>2, <2>4, <2>5
<1>3. val[n] = val[m]
  <2>1. n \in m..n
    BY <1>1
  <2>. QED BY <1>2, <2>1
<1>4. K # {} => val[m] = w[m]
  BY <1>1
<1>. QED BY <1>3, <1>4 DEF m

(* The settings that are for a field.                                      *)
Hits(settings, f, n) ==
    {i \in 1..n : ~Skips(settings[i].key, settings[i].arg) /\ KeyField(settings[i].key) = f}

LEMMA RunField ==
    ASSUME NEW st, NEW settings, Len(settings) \in Nat, Sound(st, Global, {}), Quiet(st),
           NEW run, Runs(run, Len(settings), st, settings), NEW n \in 0..Len(settings), NEW f \in Fields
    PROVE  LET K == Hits(settings, f, n)
               i == Max(K)
           IN  View(run[n], Global, f) = IF K = {} THEN View(st, Global, f)
                                         ELSE KeyMeans(run[i - 1], settings[i].key, settings[i].arg)
<1>. DEFINE N == Len(settings)
            K == Hits(settings, f, n)
            val == [i \in 0..n |-> View(run[i], Global, f)]
            w == [i \in 1..n |-> KeyMeans(run[i - 1], settings[i].key, settings[i].arg)]
<1>1. \A i \in 0..N : Sound(run[i], Global, {})
  BY RunsSound
<1>2. run = [i \in 0..N |-> IF i = 0 THEN st ELSE Apply(run[i - 1], settings[i].key, settings[i].arg)]
  BY DEF Runs
<1>3. n \in Nat /\ K \in SUBSET (1..n)
  BY DEF Hits
<1>4. ASSUME NEW i \in 1..n PROVE val[i] = IF i \in K THEN w[i] ELSE val[i - 1]
  <2>1. i \in 0..N /\ i - 1 \in 0..N /\ i # 0 /\ i \in 0..n /\ i - 1 \in 0..n
    OBVIOUS
  <2>. DEFINE old == run[i - 1]
              key == settings[i].key
              arg == settings[i].arg
  <2>2. run[i] = Apply(old, key, arg)
    <3>. HIDE DEF N
    <3>. QED BY <1>2, <2>1, Zenon
  <2>3. Sound(old, Global, {})
    BY <1>1, <2>1
  <2>4. val[i] = View(run[i], Global, f) /\ val[i - 1] = View(old, Global, f) /\ w[i] = KeyMeans(old, key, arg)
    BY <2>1
  <2>5. i \in K <=> ~Skips(key, arg) /\ KeyField(key) = f
    BY DEF Hits
  <2>. HIDE DEF old, key, arg, val, w, K
  <2>6. CASE Skips(key, arg)
    <3>1. Alike(old, Apply(old, key, arg), Global)
      BY <2>3, <2>6, ApplyIs
    <3>2. Global \in DOMAIN old.opts
      BY <2>3 DEF Sound, Shape
    <3>. QED BY <2>2, <2>4, <2>5, <2>6, <3>1, <3>2 DEF Alike
  <2>7. CASE ~Skips(key, arg)
    <3>1. Changed(old, Apply(old, key, arg), Global, KeyField(key), KeyMeans(old, key, arg))
      BY <2>3, <2>7, ApplyIs
    <3>2. Global \in DOMAIN old.opts
      BY <2>3 DEF Sound, Shape
    <3>. QED BY <2>2, <2>4, <2>5, <2>7, <3>1, <3>2 DEF Changed, Same
  <2>. QED BY <2>6, <2>7
<1>5. val[n] = View(run[n], Global, f) /\ val[0] = View(run[0], Global, f) /\ run[0] = st
  BY <1>2, <1>3
<1>6. K # {} => w[Max(K)] = KeyMeans(run[Max(K) - 1], settings[Max(K)].key, settings[Max(K)].arg)
  <2>1. K # {} => Max(K) \in 1..n
    <3>. HIDE DEF K
    <3>. QED BY <1>3, MaxIs
  <2>. QED BY <2>1
<1>. HIDE DEF val, w, K
<1>7. val[n] = IF K = {} THEN val[0] ELSE w[Max(K)]
  BY <1>3, <1>4, LastOf, SMTT(20)
<1>. QED BY <1>5, <1>6, <1>7 DEF K

LEMMA HitsAre ==
    \A key, arg :
       LET hit(f) == ~Skips(key, arg) /\ KeyField(key) = f
       IN  /\ hit("timelimit") <=> key = "TIMELIMIT"
           /\ hit("sizelimit") <=> key = "SIZELIMIT"
           /\ hit("defport")   <=> key = "PORT"
           /\ hit("defbase")   <=> key = "BASE"
           /\ hit("defbinddn") <=> key = "BINDDN"
           /\ hit("referrals") <=> key = "REFERRALS"
           /\ hit("restart")   <=> key = "RESTART"
           /\ hit("deref")     <=> key = "DEREF" /\ arg \in DOMAIN Words
           /\ hit("defludp")   <=> key \in {"HOST", "URI"} /\ arg \notin {Bad, Null}
           /\ \A f \in {"debug", "version", "rebindproc", "sctrls", "cctrls"} \cup Never : ~hit(f)
  BY DEF Skips, KeyField, Keys, Switches, Numbers, Strings, Targets, Words, Never

(* The library as its configuration left it, when the first call is made.  *)
Configuring(run, s) ==
    /\ Len(s) \in Nat /\ Runs(run, Len(s), Fresh, s)
    /\ s = Settings(conf) /\ s = Table!Settings
    /\ Sound(Fresh, Global, {}) /\ Quiet(Fresh)

LEMMA FreshViews ==
    ASSUME IInv, ~valid
    PROVE  \A f \in Fields : View(Fresh, Global, f) =
              IF f = "defludp" THEN Localhost ELSE IF f \in Owned THEN Null ELSE Defaults[f]
<1>1. Changed(Now, Fresh, Global, "defludp", Localhost)
  BY FreshSound
<1>2. opts[Global] = Defaults /\ heap = <<>> /\ Global \in DOMAIN opts
  BY DEF IInv, Untouched
<1>3. \A f \in Owned : Defaults[f] = 0
  BY DEF Owned, Timeouts, Controls, Defaults
<1>4. \A f \in Fields : f # "defludp" => View(Fresh, Global, f) = View(Now, Global, f)
  BY <1>1, <1>2, NowIs DEF Changed, Same
<1>5. \A f \in Fields : View(Now, Global, f) = IF f \in Owned THEN Null ELSE Defaults[f]
  BY <1>2, <1>3, NowIs DEF View, Value
<1>. QED BY <1>1, <1>4, <1>5 DEF Changed

Keyed(s, key) == {i \in 1..Len(s) : s[i].key = key}

(* The last of the settings of a kind is the one the table takes.          *)
LEMMA LatestIs ==
    ASSUME IInv, ~valid, NEW run, NEW s, Configuring(run, s), NEW f \in Fields, NEW key, NEW arg,
           \A k, a : (~Skips(k, a) /\ KeyField(k) = f) <=> k = key
    PROVE  LET K == Keyed(s, key)
           IN  /\ Table!Of(key, arg) = IF K = {} THEN arg ELSE s[Max(K)].arg
               /\ View(run[Len(s)], Global, f) =
                     IF K = {} THEN View(Fresh, Global, f) ELSE KeyMeans(run[Max(K) - 1], key, s[Max(K)].arg)
<1>. DEFINE K == Keyed(s, key)
<1>1. Table!Of(key, arg) = IF K = {} THEN arg ELSE s[Max(K)].arg
  <2>1. Table!Settings = s /\ \A S : Table!Max(S) = Max(S)
    BY DEF Configuring, Max, Table!Max
  <2>2. Table!Of(key, arg) = IF {i \in 1..Len(Table!Settings) : Table!Settings[i].key = key} = {} THEN arg
                             ELSE Table!Settings[Table!Max({i \in 1..Len(Table!Settings) : Table!Settings[i].key = key})].arg
    BY DEF Table!Of, Table!Latest
  <2>. QED BY <2>1, <2>2 DEF Keyed
<1>2. Hits(s, f, Len(s)) = K
  BY DEF Hits, Keyed
<1>3. View(run[Len(s)], Global, f) =
        IF K = {} THEN View(Fresh, Global, f) ELSE KeyMeans(run[Max(K) - 1], s[Max(K)].key, s[Max(K)].arg)
  <2>1. Len(s) \in 0..Len(s)
    BY DEF Configuring
  <2>. HIDE DEF K
  <2>. QED BY <1>2, <2>1, RunField DEF Configuring
<1>4. K # {} => s[Max(K)].key = key
  <2>1. K \in SUBSET (1..Len(s)) /\ Len(s) \in Nat
    BY DEF Configuring, Keyed
  <2>2. K # {} => Max(K) \in K
    <3>. HIDE DEF K
    <3>. QED BY <2>1, MaxIs
  <2>. QED BY <2>2 DEF Keyed
<1>. HIDE DEF K
<1>5. View(run[Len(s)], Global, f) =
        IF K = {} THEN View(Fresh, Global, f) ELSE KeyMeans(run[Max(K) - 1], key, s[Max(K)].arg)
  BY <1>3, <1>4
<1>. QED BY <1>1, <1>5 DEF K

(* The port a list of hosts is read with is the last that was set before.  *)
LEMMA PortIs ==
    ASSUME IInv, ~valid, NEW run, NEW s, Configuring(run, s), NEW i \in 1..Len(s), s[i].key # "PORT"
    PROVE  Table!PortBefore(i) = PortOf(run[i - 1], Global, "host_name")
<1>. DEFINE K == {j \in 1..i : s[j].key = "PORT"}
            old == run[i - 1]
<1>1. Len(s) \in Nat /\ i - 1 \in 0..Len(s) /\ i \in Nat
  BY DEF Configuring
<1>2. Table!PortBefore(i) = IF K = {} \/ s[Max(K)].arg = 0 THEN 389 ELSE s[Max(K)].arg
  <2>1. Table!Settings = s /\ \A S : Table!Max(S) = Max(S)
    BY DEF Configuring, Max, Table!Max
  <2>2. Table!PortBefore(i) =
          IF {j \in 1..i : Table!Settings[j].key = "PORT"} = {}
             \/ Table!Settings[Table!Max({j \in 1..i : Table!Settings[j].key = "PORT"})].arg = 0 THEN 389
          ELSE Table!Settings[Table!Max({j \in 1..i : Table!Settings[j].key = "PORT"})].arg
    BY DEF Table!PortBefore
  <2>. QED BY <2>1, <2>2
<1>3. Hits(s, "defport", i - 1) = K
  <2>1. \A j : j \in 1..i - 1 <=> j \in 1..i /\ j # i
    BY <1>1
  <2>2. \A j : j \in Hits(s, "defport", i - 1) <=> j \in 1..i - 1 /\ s[j].key = "PORT"
    BY HitsAre DEF Hits
  <2>. QED BY <2>1, <2>2
<1>4. "defport" \in Fields \ Owned /\ Fields # {}
  BY Owns
<1>5. View(old, Global, "defport") =
        IF K = {} THEN View(Fresh, Global, "defport") ELSE KeyMeans(run[Max(K) - 1], s[Max(K)].key, s[Max(K)].arg)
  <2>. HIDE DEF K
  <2>. QED BY <1>1, <1>3, <1>4, RunField DEF Configuring
<1>6. View(Fresh, Global, "defport") = 389
  BY <1>4, FreshViews, Kinds DEF Defaults, DefaultPort
<1>7. K # {} => s[Max(K)].key = "PORT"
  <2>1. K \in SUBSET (1..i)
    OBVIOUS
  <2>2. K # {} => Max(K) \in K
    <3>. HIDE DEF K
    <3>. QED BY <1>1, <2>1, MaxIs
  <2>. QED BY <2>2
<1>8. \A st, a : KeyMeans(st, "PORT", a) = a
  BY DEF KeyMeans, Switches, Targets
<1>9. old.opts[Global].defport = View(old, Global, "defport")
  BY <1>4 DEF View
<1>. HIDE DEF K, old
<1>10. old.opts[Global].defport = IF K = {} THEN 389 ELSE s[Max(K)].arg
  BY <1>5, <1>6, <1>7, <1>8, <1>9
<1>. QED BY <1>2, <1>10 DEF PortOf, DefaultPort, old

LEMMA ServersAre ==
    ASSUME IInv, ~valid, NEW run, NEW s, Configuring(run, s)
    PROVE  View(run[Len(s)], Global, "defludp") = Table!Servers
<1>. DEFINE K == {i \in 1..Len(s) : s[i].key \in {"HOST", "URI"} /\ s[i].arg \notin {Bad, Null}}
            m == Max(K)
            old == run[m - 1]
<1>1. Len(s) \in Nat /\ Len(s) \in 0..Len(s)
  BY DEF Configuring
<1>2. "defludp" \in Fields /\ View(Fresh, Global, "defludp") = Localhost
  BY Owns, Kinds, FreshViews
<1>3. Hits(s, "defludp", Len(s)) = K
  BY HitsAre DEF Hits
<1>4. View(run[Len(s)], Global, "defludp") = IF K = {} THEN Localhost ELSE KeyMeans(old, s[m].key, s[m].arg)
  <2>. HIDE DEF K
  <2>. QED BY <1>1, <1>2, <1>3, RunField DEF Configuring
<1>5. K # {} => m \in K
  <2>1. K \in SUBSET (1..Len(s))
    OBVIOUS
  <2>. HIDE DEF K
  <2>. QED BY <1>1, <2>1, MaxIs
<1>6. Table!Servers = IF K = {} THEN Localhost ELSE IF s[m].arg = <<>> THEN Null
                      ELSE Resolved(s[m].arg, IF s[m].key = "HOST" THEN Table!PortBefore(m) ELSE 389)
  <2>1. Table!Settings = s /\ \A S : Table!Max(S) = Max(S)
    BY DEF Configuring, Max, Table!Max
  <2>2. \A l, p : Table!WithPort(l, p) = Resolved(l, p)
    BY DEF Table!WithPort, Resolved
  <2>. DEFINE T == {i \in 1..Len(Table!Settings) : Table!Settings[i].key \in {"HOST", "URI"} /\ Table!Settings[i].arg \notin {Bad, Null}}
              n == Table!Max(T)
  <2>3. Table!Servers = IF T = {} THEN <<[host |-> "localhost", port |-> 389]>>
                        ELSE IF Table!Settings[n].arg = <<>> THEN Null
                        ELSE Table!WithPort(Table!Settings[n].arg,
                                            IF Table!Settings[n].key = "HOST" THEN Table!PortBefore(n) ELSE 389)
    BY DEF Table!Servers
  <2>4. T = K
    BY <2>1
  <2>. HIDE DEF T, K
  <2>. QED BY <2>1, <2>2, <2>3, <2>4 DEF Localhost, DefaultPort
<1>7. CASE K = {}
  BY <1>4, <1>6, <1>7
<1>8. CASE K # {}
  <2>1. m \in 1..Len(s) /\ s[m].key \in {"HOST", "URI"}
    BY <1>5, <1>8
  <2>. HIDE DEF m, K
  <2>2. Table!PortBefore(m) = PortOf(old, Global, "host_name")
    BY <2>1, PortIs
  <2>3. PortOf(old, Global, "uri") = 389
    BY DEF PortOf, DefaultPort
  <2>4. KeyMeans(old, s[m].key, s[m].arg) =
          IF s[m].arg = <<>> THEN Null
          ELSE Resolved(s[m].arg, PortOf(old, Global, IF s[m].key = "HOST" THEN "host_name" ELSE "uri"))
    BY <2>1 DEF KeyMeans, Switches, Targets, Meaning, Booleans, Lists
  <2>. QED BY <1>4, <1>6, <1>8, <2>2, <2>3, <2>4
<1>. QED BY <1>7, <1>8

LEMMA DerefIs ==
    ASSUME IInv, ~valid, NEW run, NEW s, Configuring(run, s)
    PROVE  View(run[Len(s)], Global, "deref") = Table!Configured.deref
<1>. DEFINE K == {i \in 1..Len(s) : s[i].key = "DEREF" /\ s[i].arg \in DOMAIN Words}
            m == Max(K)
            old == run[m - 1]
<1>1. Len(s) \in Nat /\ Len(s) \in 0..Len(s)
  BY DEF Configuring
<1>2. "deref" \in Fields /\ View(Fresh, Global, "deref") = 0
  BY Owns, FreshViews DEF Defaults, Owned, Timeouts, Controls
<1>3. Hits(s, "deref", Len(s)) = K
  BY HitsAre DEF Hits
<1>4. View(run[Len(s)], Global, "deref") = IF K = {} THEN 0 ELSE KeyMeans(old, s[m].key, s[m].arg)
  <2>. HIDE DEF K
  <2>. QED BY <1>1, <1>2, <1>3, RunField DEF Configuring
<1>5. K # {} => m \in K
  <2>1. K \in SUBSET (1..Len(s))
    OBVIOUS
  <2>. HIDE DEF K
  <2>. QED BY <1>1, <2>1, MaxIs
<1>6. Table!Configured.deref = IF K = {} THEN 0 ELSE Words[s[m].arg]
  <2>1. Table!Settings = s /\ (\A S : Table!Max(S) = Max(S)) /\ Table!Derefs = Words
    BY DEF Configuring, Max, Table!Max, Table!Derefs, Words
  <2>. DEFINE T == {i \in 1..Len(Table!Settings) : Table!Settings[i].key = "DEREF" /\ Table!Settings[i].arg \in DOMAIN Table!Derefs}
              n == Table!Max(T)
  <2>2. Table!Configured.deref = Table!Derefs[IF T = {} THEN "never" ELSE Table!Settings[n].arg]
    BY DEF Table!Configured, Table!Latest
  <2>3. T = K
    BY <2>1
  <2>4. Words["never"] = 0
    BY DEF Words
  <2>. HIDE DEF T, K
  <2>. QED BY <2>1, <2>2, <2>3, <2>4
<1>7. K # {} => s[m].key = "DEREF"
  BY <1>5
<1>8. \A st, a : KeyMeans(st, "DEREF", a) = Words[a]
  BY DEF KeyMeans, Switches, Targets
<1>. HIDE DEF K, m, old
<1>. QED BY <1>4, <1>6, <1>7, <1>8

(* What the first call will find is what the table says is configured.     *)
LEMMA ConfiguredIs ==
    ASSUME IInv, ~valid
    PROVE  Seen = [o \in {Global} |-> Table!Configured]
<1>. DEFINE s == Settings(conf)
<1>1. Initialized(Now) = Read(Fresh, s) /\ Len(s) \in Nat /\ Changed(Now, Fresh, Global, "defludp", Localhost)
  BY FreshSound
<1>2. s = Table!Settings
  BY DEF Settings, Table!Settings, Lines, Pieces, UserOnly, FlattenSeq, Table!FlattenSeq
<1>. HIDE DEF s
<1>3. PICK run : Runs(run, Len(s), Fresh, s) /\ Read(Fresh, s) = run[Len(s)]
  BY <1>1, ReadIs
<1>4. Sound(Fresh, Global, {}) /\ Quiet(Fresh)
  <2>1. Never \subseteq Fields /\ "defludp" \notin Never /\ Global \in DOMAIN opts /\ Quiet(Now)
    BY NeverField, NowIs DEF Sound, Shape, IInv
  <2>. QED BY <1>1, <2>1, NowIs DEF Quiet, Changed, Same
<1>5. Configuring(run, s)
  BY <1>1, <1>2, <1>3, <1>4 DEF Configuring, s
<1>. DEFINE V(f) == View(run[Len(s)], Global, f)
            F(f) == View(Fresh, Global, f)
            C == Table!Configured
<1>6. \A f \in Fields : F(f) = IF f = "defludp" THEN Localhost ELSE IF f \in Owned THEN Null ELSE Defaults[f]
  BY FreshViews
<1>7. Owned = (Never \ {"errno"}) \cup {"sctrls", "cctrls", "defludp"} /\ Owned \subseteq Fields
  BY Owns DEF Owned, Timeouts, Controls, Never
<1>8. ASSUME NEW f \in Fields, NEW key \in DOMAIN Numbers \cup DOMAIN Strings, KeyField(key) = f, NEW v, F(f) = v
      PROVE  V(f) = Table!Of(key, v)
  <2>1. \A k, a : (~Skips(k, a) /\ KeyField(k) = f) <=> k = key
    BY <1>8, HitsAre DEF KeyField, Numbers, Strings, Switches
  <2>2. \A st, a : KeyMeans(st, key, a) = a
    BY <1>8 DEF KeyMeans, Switches, Targets, Numbers, Strings
  <2>. DEFINE K == Keyed(s, key)
  <2>3. /\ Table!Of(key, v) = IF K = {} THEN v ELSE s[Max(K)].arg
        /\ V(f) = IF K = {} THEN F(f) ELSE KeyMeans(run[Max(K) - 1], key, s[Max(K)].arg)
    BY <1>5, <2>1, LatestIs
  <2>. HIDE DEF K, V, F
  <2>. QED BY <1>8, <2>2, <2>3
<1>9. ASSUME NEW f \in Fields, NEW key \in DOMAIN Switches, KeyField(key) = f, NEW v, F(f) = (v \in {"on", "yes", "true"})
      PROVE  V(f) = Table!True(key, v)
  <2>1. \A k, a : (~Skips(k, a) /\ KeyField(k) = f) <=> k = key
    BY <1>9, HitsAre DEF KeyField, Numbers, Strings, Switches
  <2>2. \A st, a : KeyMeans(st, key, a) = (a \in {"on", "yes", "true"})
    BY <1>9 DEF KeyMeans, Switches
  <2>. DEFINE K == Keyed(s, key)
  <2>3. /\ Table!Of(key, v) = IF K = {} THEN v ELSE s[Max(K)].arg
        /\ V(f) = IF K = {} THEN F(f) ELSE KeyMeans(run[Max(K) - 1], key, s[Max(K)].arg)
    BY <1>5, <2>1, LatestIs
  <2>. HIDE DEF K, V, F
  <2>. QED BY <1>9, <2>2, <2>3 DEF Table!True
<1>10. ASSUME NEW f \in Fields, f \in {"debug", "version", "rebindproc", "sctrls", "cctrls"} \cup Never
       PROVE  V(f) = F(f)
  <2>1. Hits(s, f, Len(s)) = {}
    BY <1>10, HitsAre DEF Hits
  <2>2. Len(s) \in 0..Len(s)
    BY <1>1
  <2>. QED BY <1>5, <2>1, <2>2, RunField DEF Configuring
<1>11. V("defludp") = Table!Servers /\ V("deref") = C.deref
  BY <1>5, ServersAre, DerefIs
<1>. HIDE DEF V, F
<1>12. V("timelimit") = Table!Of("TIMELIMIT", 0) /\ V("sizelimit") = Table!Of("SIZELIMIT", 0) /\ V("defport") = Table!Of("PORT", 389)
  BY <1>6, <1>8, Owns, <1>7 DEF KeyField, Numbers, Strings, Switches, Defaults, DefaultPort, Never
<1>13. V("defbase") = Table!Of("BASE", Null) /\ V("defbinddn") = Table!Of("BINDDN", Null)
  BY <1>6, <1>8, Owns, <1>7 DEF KeyField, Numbers, Strings, Switches, Defaults, Never
<1>14. V("referrals") = Table!True("REFERRALS", "on") /\ V("restart") = Table!True("RESTART", "off")
  <2>1. F("referrals") = TRUE /\ F("restart") = FALSE /\ "referrals" \in Fields /\ "restart" \in Fields
    BY <1>6, Owns DEF Defaults
  <2>2. /\ KeyField("REFERRALS") = "referrals" /\ KeyField("RESTART") = "restart"
        /\ "REFERRALS" \in DOMAIN Switches /\ "RESTART" \in DOMAIN Switches
    BY DEF KeyField, Switches
  <2>3. F("referrals") = ("on" \in {"on", "yes", "true"}) /\ F("restart") = ("off" \in {"on", "yes", "true"})
    <3>1. ("on" \in {"on", "yes", "true"}) = TRUE /\ ("off" \in {"on", "yes", "true"}) = FALSE
      OBVIOUS
    <3>. QED BY <2>1, <3>1, Zenon
  <2>. QED BY <1>9, <2>1, <2>2, <2>3
<1>15. /\ V("debug") = 0 /\ V("version") = 2 /\ V("rebindproc") = Null /\ V("errno") = 0
       /\ \A f \in {"tm_api", "tm_net", "sctrls", "cctrls", "error", "matched"} : V(f) = Null
  BY <1>6, <1>7, <1>10, Owns DEF Defaults, Never
<1>16. /\ C.debug = 0 /\ C.version = 2 /\ C.rebindproc = Null /\ C.errno = 0
       /\ \A f \in {"tm_api", "tm_net", "sctrls", "cctrls", "error", "matched"} : C[f] = Null
       /\ C.timelimit = Table!Of("TIMELIMIT", 0) /\ C.sizelimit = Table!Of("SIZELIMIT", 0) /\ C.defport = Table!Of("PORT", 389)
       /\ C.defbase = Table!Of("BASE", Null) /\ C.defbinddn = Table!Of("BINDDN", Null) /\ C.defludp = Table!Servers
       /\ C.referrals = Table!True("REFERRALS", "on") /\ C.restart = Table!True("RESTART", "off")
  BY DEF Table!Configured
<1>17. DOMAIN C = Fields /\ C = [f \in DOMAIN C |-> C[f]]
  BY DEF Table!Configured, Fields, Defaults
<1>18. Fields = {"debug", "version", "timelimit", "sizelimit", "defport", "defbase", "defbinddn", "referrals", "restart",
                 "rebindproc", "errno", "tm_api", "tm_net", "sctrls", "cctrls", "error", "matched", "deref", "defludp"}
  BY DEF Fields, Defaults
<1>. HIDE DEF C
<1>19. \A f \in Fields : V(f) = C[f]
  BY <1>11, <1>12, <1>13, <1>14, <1>15, <1>16, <1>18
<1>20. C = [f \in Fields |-> V(f)]
  BY <1>17, <1>19
<1>21. DOMAIN run[Len(s)].opts = {Global}
  <2>1. DOMAIN Fresh.opts = {Global}
    BY <1>1, NowIs DEF Changed, Same, IInv, Untouched
  <2>2. Len(s) \in 0..Len(s)
    BY <1>1
  <2>. QED BY <1>1, <1>3, <1>4, <2>1, <2>2, RunsSound
<1>22. Shown(run[Len(s)]) = [o \in {Global} |-> C]
  BY <1>20, <1>21 DEF Shown, Fields, V
<1>. QED BY <1>1, <1>3, <1>22 DEF Seen, C

LEMMA TableInit == Init => Table!Init
<1>. SUFFICES ASSUME Init PROVE Table!Init
  OBVIOUS
<1>1. IInv /\ ~valid /\ ret = Said(Global, "none", "success")
  BY InitInv DEF Init
<1>2. Seen = [o \in {Global} |-> Table!Configured]
  BY <1>1, ConfiguredIs
<1>. QED BY <1>1, <1>2 DEF Table!Init, Table!Global, Global, Said, Returned

(* The structures implement OptionTable: whatever is configured, in files  *)
(* whose long lines are cut, and in the environment, a call changes what   *)
(* it sets in the structure it names, or nothing when it fails, and a new  *)
(* session has the values of the global options and its own servers        *)
(* (ldap_int_initialize, ldap_set_option, ldap_create, ldap_ld_free).      *)
THEOREM OptionsSpecTheorem == ASSUME GlobalTimeouts = FALSE PROVE Spec => OptionsSpec
<1>1. IInv /\ [Next]_vars => IInv'
  BY NextInv
<1>2. IInv /\ [Next]_vars => [Table!Next]_(Table!vars)
  BY TableStep
<1>3. Init => IInv /\ Table!Init
  BY InitInv, TableInit
<1>. QED BY <1>1, <1>2, <1>3, PTL DEF Spec, OptionsSpec, Table!Spec

=============================================================================
