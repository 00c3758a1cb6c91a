--------------------------- MODULE TransportProof ---------------------------
(***************************************************************************)
(* Proofs about Transport: whatever is tried and fails while a connection  *)
(* is opened, every socket is accounted for, and what is connected carries *)
(* the layers of its own socket.                                           *)
(***************************************************************************)
EXTENDS Transport, FiniteSetTheorems, SequenceTheorems, TLAPS

USE DEF C!Servers, C!Current

(* Which sockets are open, and that none of them is two things at once: a  *)
(* close cannot hit another one's, and what is lost stays lost.            *)
Leaked == {l.sock : l \in lost}

Accounted ==
    /\ open \subseteq Nat \ {0} /\ IsFiniteSet(open)
    /\ open = C!Socks({s, fd}) \cup Leaked
    /\ \A l \in lost : l.why \in {"path", "tls"}
    /\ s # 0 => s # fd /\ s \notin Leaked
    /\ fd # 0 => fd \notin Leaked

(* Where a socket is being connected, and where there is one.              *)
Stage ==
    /\ s # 0 <=> at \in {"connect", "select"}
    /\ at \in {"tls", "connected"} => fd # 0
    /\ at \in {"socket", "connect", "select", "tls"} =>
          srv \in DOMAIN setup.urls /\ setup.urls[srv].proto \in {"tcp", "ipc"}
    /\ at = "tls" => setup.urls[srv].tls
    /\ setup \in Setups /\ srv \in Nat \ {0}

(* O_NONBLOCK is set during a connect only, unless the application does    *)
(* not block, or the connect is that for OS/2.                             *)
Blocking ==
    /\ mode \in [block : BOOLEAN, secure : BOOLEAN]
    /\ ~setup.os2 /\ mode.block => nonblock = IF at = "select" THEN {s} ELSE {}

ModeStep == mode' \in [block : BOOLEAN, secure : BOOLEAN] /\ (mode'.block => mode.block)

(* The layers of a Sockbuf that no descriptor was lost from.               *)
On(io) == [io |-> io, sock |-> fd]
Protocol == IF setup.urls[srv].proto = "tcp" THEN "tcp" ELSE "fd"
Plain  == <<On("readahead"), On(Protocol)>>
Secure == <<On("tls"), On("readahead"), On(Protocol)>>

(* One layer of a socket at most, and its descriptor closed once.          *)
Pair(p)   == <<On("readahead"), On(p)>>
Triple(p) == <<On("tls"), On("readahead"), On(p)>>
Tidy ==
    C!Lost("tls") = {} => /\ ~again
                          /\ layers = <<>> \/ \E p \in {"tcp", "fd"} : layers \in {Pair(p), Triple(p)}

Layers ==
    /\ Tidy
    /\ fd = 0 => layers = <<>>
    /\ at = "tls" /\ C!Lost("tls") = {} => layers = Plain
    /\ at = "connected" /\ C!Lost("tls") = {} =>
          layers = IF setup.urls[srv].tls THEN Secure ELSE Plain

IInv == Accounted /\ Stage /\ Blocking /\ Layers

-----------------------------------------------------------------------------
Names == {"fd", "tcp", "readahead", "tls"}
Layer == [io : Names, sock : Nat]

(* ber_sockbuf_add_io puts a layer on top of others that are not above it. *)
LEMMA AddOnTop ==
    ASSUME NEW stack \in Seq(Layer), NEW io \in Names, NEW sock \in Nat,
           stack # <<>> => C!Level(stack[1].io) <= C!Level(io)
    PROVE  C!AddIo(stack, io, sock) = <<[io |-> io, sock |-> sock]>> \o stack
<1>. DEFINE Fit(i) == /\ \A j \in 1..i - 1 : C!Level(stack[j].io) > C!Level(io)
                      /\ i <= Len(stack) => C!Level(stack[i].io) <= C!Level(io)
            place == CHOOSE i \in 1..Len(stack) + 1 : Fit(i)
            new == [io |-> io, sock |-> sock]
<1>1. Len(stack) \in Nat /\ \A i \in 1..Len(stack) : stack[i].io \in Names
  <2>1. \A i \in 1..Len(stack) : stack[i] \in Layer
    BY ElementOfSeq, Zenon
  <2>2. Len(stack) \in Nat
    OBVIOUS
  <2>3. QED BY <2>1, <2>2 DEF Layer
<1>2. 1 \in 1..Len(stack) + 1 /\ Fit(1)
  BY <1>1
<1>3. \A i \in Names : C!Level(i) \in {1, 2}
  BY DEF C!Level
<1>4. ASSUME NEW i \in 1..Len(stack) + 1, Fit(i) PROVE i = 1
  <2>1. CASE stack = <<>>
    BY <2>1
  <2>2. CASE stack # <<>> /\ i # 1
    <3>1. 1 \in 1..i - 1 /\ 1 \in 1..Len(stack)
      BY <1>1, <2>2
    <3>2. C!Level(stack[1].io) > C!Level(io)
      BY <1>4, <3>1
    <3>3. C!Level(stack[1].io) <= C!Level(io)
      BY <2>2
    <3>4. C!Level(stack[1].io) \in Int /\ C!Level(io) \in Int
      <4>1. C!Level(stack[1].io) \in {1, 2} /\ C!Level(io) \in {1, 2}
        BY <1>1, <1>3, <3>1, Zenon
      <4>2. QED BY <4>1
    <3>5. QED BY <3>2, <3>3, <3>4
  <2>3. QED BY <2>1, <2>2
<1>5. place = 1
  BY <1>2, <1>4
<1>. HIDE DEF new, place
<1>6. C!AddIo(stack, io, sock) = C!InsertAt(stack, place, new)
  BY DEF C!AddIo, new, place
<1>7. C!InsertAt(stack, 1, new) = SubSeq(stack, 1, 0) \o <<new>> \o SubSeq(stack, 1, Len(stack))
  BY DEF C!InsertAt
<1>8. SubSeq(stack, 1, 0) = <<>> /\ SubSeq(stack, 1, Len(stack)) = stack
  BY <1>1
<1>9. <<>> \o <<new>> = <<new>>
  OBVIOUS
<1>10. QED BY <1>5, <1>6, <1>7, <1>8, <1>9 DEF new

LEMMA Short ==
    ASSUME NEW S, NEW a \in S, NEW b \in S, NEW c \in S
    PROVE  /\ <<>> \in Seq(S) /\ <<b>> \in Seq(S) /\ <<b, c>> \in Seq(S)
           /\ <<a>> \o <<>> = <<a>> /\ <<a>> \o <<b>> = <<a, b>> /\ <<a>> \o <<b, c>> = <<a, b, c>>
           /\ <<b>>[1] = b /\ <<b, c>>[1] = b
<1>1. <<a>> \o <<b, c>> = <<a, b, c>>
  <2>. DEFINE u == <<a>>
              v == <<b, c>>
              w == u \o v
  <2>1. u \in Seq(S) /\ v \in Seq(S) /\ Len(u) = 1 /\ Len(v) = 2
        /\ u[1] = a /\ v[1] = b /\ v[2] = c
    OBVIOUS
  <2>. HIDE DEF u, v
  <2>2. /\ w \in Seq(S) /\ Len(w) = Len(u) + Len(v)
        /\ \A i \in 1..Len(u) + Len(v) : w[i] = IF i <= Len(u) THEN u[i] ELSE v[i - Len(u)]
    BY <2>1, ConcatProperties, Zenon
  <2>. HIDE DEF w
  <2>3. w \in Seq(S) /\ Len(w) = 3
    BY <2>1, <2>2
  <2>4. w[1] = a /\ w[2] = b /\ w[3] = c
    <3>1. 1 \in 1..Len(u) + Len(v) /\ 2 \in 1..Len(u) + Len(v) /\ 3 \in 1..Len(u) + Len(v)
      BY <2>1
    <3>2. QED BY <2>1, <2>2, <3>1
  <2>5. w = <<a, b, c>>
    BY <2>3, <2>4
  <2>6. QED BY <2>5 DEF u, v, w
<1>2. <<>> \in Seq(S) /\ <<b>> \in Seq(S) /\ <<b, c>> \in Seq(S)
  OBVIOUS
<1>3. <<a>> \o <<>> = <<a>>
  OBVIOUS
<1>4. <<a>> \o <<b>> = <<a, b>>
  <2>. DEFINE u == <<a>>
              v == <<b>>
              w == u \o v
  <2>1. u \in Seq(S) /\ v \in Seq(S) /\ Len(u) = 1 /\ Len(v) = 1 /\ u[1] = a /\ v[1] = b
    OBVIOUS
  <2>. HIDE DEF u, v
  <2>2. /\ w \in Seq(S) /\ Len(w) = Len(u) + Len(v)
        /\ \A i \in 1..Len(u) + Len(v) : w[i] = IF i <= Len(u) THEN u[i] ELSE v[i - Len(u)]
    BY <2>1, ConcatProperties, Zenon
  <2>. HIDE DEF w
  <2>3. w \in Seq(S) /\ Len(w) = 2
    BY <2>1, <2>2
  <2>4. w[1] = a /\ w[2] = b
    <3>1. 1 \in 1..Len(u) + Len(v) /\ 2 \in 1..Len(u) + Len(v)
      BY <2>1
    <3>2. QED BY <2>1, <2>2, <3>1
  <2>5. w = <<a, b>>
    BY <2>3, <2>4
  <2>6. QED BY <2>5 DEF u, v, w
<1>5. <<b>>[1] = b /\ <<b, c>>[1] = b
  OBVIOUS
<1>6. QED BY <1>1, <1>2, <1>3, <1>4, <1>5, Zenon

(* There is always a number for another descriptor.                        *)
LEMMA FreshSocket ==
    ASSUME NEW set \in SUBSET (Nat \ {0}), IsFiniteSet(set)
    PROVE  \E n \in 1..Cardinality(set) + 1 : n \notin set
<1>. SUFFICES ASSUME 1..Cardinality(set) + 1 \subseteq set PROVE FALSE
  OBVIOUS
<1>1. Cardinality(set) \in Nat
  BY FS_CardinalityType
<1>2. Cardinality(1..Cardinality(set) + 1) = Cardinality(set) + 1
  BY <1>1, FS_Interval
<1>3. Cardinality(1..Cardinality(set) + 1) <= Cardinality(set)
  BY FS_Subset
<1>4. QED BY <1>1, <1>2, <1>3

LEMMA InitInv == Init => IInv
<1>. SUFFICES ASSUME Init PROVE IInv
  OBVIOUS
<1>1. Accounted
  BY FS_EmptySet DEF Init, C!Init, Accounted, Leaked, C!Socks
<1>2. mode \in [block : BOOLEAN, secure : BOOLEAN]
  BY TransportAssumption DEF Init, B!Init, B!BerIoAssumption
<1>3. QED BY <1>1, <1>2 DEF Init, C!Init, IInv, Stage, Blocking, Layers, Tidy

(* What the setups are.                                                    *)
LEMMA SetupIs ==
    ASSUME NEW c \in Setups
    PROVE  /\ c.urls \in Seq([proto : {"tcp", "ipc"}, addrs : Nat \ {0},
                              long : BOOLEAN, tls : BOOLEAN])
           /\ DOMAIN c.urls = 1..Len(c.urls) /\ Len(c.urls) \in Nat
           /\ \A i \in DOMAIN c.urls : c.urls[i].proto \in {"tcp", "ipc"}
<1>1. c.urls \in Seq([proto : {"tcp", "ipc"}, addrs : Nat \ {0}, long : BOOLEAN, tls : BOOLEAN])
  BY TransportAssumption DEF C!ConnectAssumption
<1>. DEFINE u == c.urls
<1>2. DOMAIN u = 1..Len(u) /\ Len(u) \in Nat
  BY <1>1
<1>3. \A i \in 1..Len(u) :
          u[i] \in [proto : {"tcp", "ipc"}, addrs : Nat \ {0}, long : BOOLEAN, tls : BOOLEAN]
  BY <1>1, ElementOfSeq, Zenon
<1>4. QED BY <1>1, <1>2, <1>3

(* Steps that move on to another server or address.                        *)
LEMMA MovesOn ==
    ASSUME Stage, C!NextServer \/ C!NextAddress, UNCHANGED setup
    PROVE  at' \in {"server", "socket"} /\ (at' = "socket" => srv' = srv) /\ srv' \in Nat \ {0}
BY DEF Stage, C!NextServer, C!NextAddress

(* At the start of TLS nothing but the layers of the socket is there.      *)
LEMMA TlsLayerIs ==
    ASSUME IInv, at = "tls", C!Lost("tls") = {}
    PROVE  C!TlsLayer = Secure /\ ~C!Has("tls") /\ layers = Plain
<1>1. fd # 0 /\ setup.urls[srv].proto \in {"tcp", "ipc"}
  BY DEF IInv, Stage
<1>2. layers = Plain
  BY DEF IInv, Layers
<1>3. ~C!Has("tls")
  BY <1>2 DEF C!Has, Plain, On, Protocol
<1>4. fd \in Nat
  BY DEF IInv, Accounted, C!Socks
<1>. DEFINE top == [io |-> "tls", sock |-> fd]
<1>5. top \in Layer /\ On("readahead") \in Layer /\ On(Protocol) \in Layer /\ On("readahead").io = "readahead"
  BY <1>4 DEF On, Protocol, Layer, Names
<1>6. top = On("tls")
  BY DEF On
<1>. HIDE DEF top
<1>7. Plain \in Seq(Layer) /\ Plain[1].io = "readahead" /\ <<top>> \o Plain = Secure
  BY <1>5, <1>6, Short DEF Plain, Secure
<1>8. C!AddIo(Plain, "tls", fd) = <<top>> \o Plain
  <2>1. C!Level(Plain[1].io) <= C!Level("tls")
    BY <1>7 DEF C!Level
  <2>2. "tls" \in Names
    BY DEF Names
  <2>3. C!AddIo(Plain, "tls", fd) = <<[io |-> "tls", sock |-> fd]>> \o Plain
    BY <1>4, <1>7, <2>1, <2>2, AddOnTop
  <2>4. QED BY <2>3 DEF top
<1>9. QED BY <1>2, <1>3, <1>7, <1>8 DEF C!TlsLayer

(* Those are in order, whatever the server.                                *)
LEMMA TidyPlain ==
    Plain = Pair(Protocol) /\ Secure = Triple(Protocol) /\ Protocol \in {"tcp", "fd"}
BY DEF Plain, Secure, Pair, Triple, Protocol

LEMMA LostIs == \A l \in lost : l.why = "tls" => l.sock \in C!Lost("tls")
BY DEF C!Lost

(* Steps that neither open nor close a socket.                             *)
LEMMA QuietStep ==
    ASSUME IInv, UNCHANGED <<setup, open, fd, lost, s, again>>, ModeStep,
           \/ C!Resolve \/ C!Unknown \/ C!NoSocket \/ C!Retry \/ C!ConnectWaits
           \/ C!TlsStarts \/ C!HandshakeFails \/ C!WrongHost
    PROVE  IInv'
<1>0. /\ Accounted' /\ Leaked' = Leaked /\ C!Lost("tls")' = C!Lost("tls")
      /\ \A p : Pair(p)' = Pair(p) /\ Triple(p)' = Triple(p)
  BY DEF IInv, Accounted, Leaked, C!Lost, C!Socks, Pair, Triple, On
<1>a. ASSUME UNCHANGED layers PROVE Tidy'
  BY <1>0, <1>a DEF IInv, Layers, Tidy
<1>1. CASE C!Resolve
  <2>1. srv \in DOMAIN setup.urls /\ setup.urls[srv].proto \in {"tcp", "ipc"}
    <3>1. srv \in Nat \ {0} /\ srv <= Len(setup.urls) /\ setup \in Setups
      BY <1>1 DEF C!Resolve, IInv, Stage
    <3>2. QED BY <3>1, SetupIs
  <2>2. at = "server" /\ at' = "socket" /\ UNCHANGED <<srv, nonblock, layers>>
    BY <1>1 DEF C!Resolve, C!sb
  <2>3. Stage' /\ Blocking' /\ Layers'
    BY <1>0, <1>a, <2>1, <2>2 DEF IInv, Stage, Blocking, Layers, ModeStep
  <2>4. QED BY <1>0, <2>3 DEF IInv
<1>2. CASE C!Unknown \/ C!NoSocket
  <2>1. /\ at' \in {"server", "socket"} /\ (at' = "socket" => srv' = srv) /\ srv' \in Nat \ {0}
        /\ at \in {"server", "socket"} /\ (at' = "socket" => at = "socket")
        /\ UNCHANGED <<nonblock, layers>>
    <3>1. C!NextServer \/ C!NextAddress
      BY <1>2 DEF C!Unknown, C!NoSocket
    <3>2. QED BY <1>2, <3>1, MovesOn DEF C!Unknown, C!NoSocket, C!NextServer, C!sb, IInv
  <2>2. Stage' /\ Blocking' /\ Layers'
    BY <1>0, <1>a, <2>1 DEF IInv, Stage, Blocking, Layers, ModeStep
  <2>3. QED BY <1>0, <2>2 DEF IInv
<1>3. CASE C!Retry
  <2>1. /\ at = "failed" /\ at' \in {"server", "undefined"} /\ srv' = 1
        /\ UNCHANGED <<nonblock, layers>>
    BY <1>3 DEF C!Retry, C!sb
  <2>2. Stage' /\ Blocking' /\ Layers'
    BY <1>0, <1>a, <2>1 DEF IInv, Stage, Blocking, Layers, ModeStep
  <2>3. QED BY <1>0, <2>2 DEF IInv
<1>4. CASE C!ConnectWaits
  <2>1. /\ at = "connect" /\ at' = "select" /\ nonblock' = nonblock \cup {s}
        /\ UNCHANGED <<srv, layers>>
    BY <1>4 DEF C!ConnectWaits, C!sb
  <2>2. Stage' /\ Blocking' /\ Layers'
    BY <1>0, <1>a, <2>1 DEF IInv, Stage, Blocking, Layers, ModeStep
  <2>3. QED BY <1>0, <2>2 DEF IInv
<1>5. CASE C!HandshakeFails \/ C!WrongHost
  <2>1. /\ at = "tls" /\ at' = "server" /\ srv' = srv + 1 /\ UNCHANGED nonblock /\ fd # 0
        /\ layers' \in {IF C!Has("tls") THEN Tail(layers) ELSE layers, C!TlsLayer}
    BY <1>5 DEF C!HandshakeFails, C!WrongHost, C!TlsFailed, C!NextServer, IInv, Stage
  <2>a. Tidy'
    <3>1. ASSUME C!Lost("tls") = {} PROVE layers' \in {Plain, Secure}
      BY <2>1, <3>1, TlsLayerIs
    <3>2. C!Lost("tls") = {} => ~again
      BY DEF IInv, Layers, Tidy
    <3>3. QED BY <1>0, <3>1, <3>2, TidyPlain DEF Tidy
  <2>2. Stage' /\ Blocking' /\ Layers'
    BY <1>0, <2>1, <2>a DEF IInv, Stage, Blocking, Layers, ModeStep
  <2>3. QED BY <1>0, <2>2 DEF IInv
<1>6. CASE C!TlsStarts
  <2>1. /\ at = "tls" /\ at' = "connected" /\ UNCHANGED <<srv, nonblock>> /\ fd # 0
        /\ layers' = C!TlsLayer /\ setup.urls[srv].tls /\ setup.urls[srv].proto \in {"tcp", "ipc"}
    BY <1>6 DEF C!TlsStarts, IInv, Stage
  <2>2. ASSUME C!Lost("tls") = {} PROVE layers' = Secure
    BY <2>1, <2>2, TlsLayerIs
  <2>3. Secure' = Secure
    BY <2>1 DEF Secure, On, Protocol
  <2>a. Tidy'
    <3>1. C!Lost("tls") = {} => ~again
      BY DEF IInv, Layers, Tidy
    <3>2. QED BY <1>0, <2>2, <3>1, TidyPlain DEF Tidy
  <2>4. Stage' /\ Blocking' /\ Layers'
    BY <1>0, <2>1, <2>2, <2>3, <2>a DEF IInv, Stage, Blocking, Layers, ModeStep
  <2>5. QED BY <1>0, <2>4 DEF IInv
<1>7. QED BY <1>1, <1>2, <1>3, <1>4, <1>5, <1>6

LEMMA LeakedMore ==
    ASSUME NEW l, lost' = lost \cup {l}
    PROVE  Leaked' = Leaked \cup {l.sock}
BY DEF Leaked

(* A socket is made: the connect goes on with it, or a path is too long    *)
(* and it is left open.                                                    *)
LEMMA SocketStep ==
    ASSUME IInv, C!Socket, UNCHANGED setup, ModeStep
    PROVE  IInv'
<1>. DEFINE new == CHOOSE n \in 1..C!Cardinality(open) + 1 : n \notin open
<1>0. C!Cardinality(open) = Cardinality(open)
  BY DEF C!Cardinality, Cardinality
<1>1. new \in Nat \ {0} /\ new \notin open
  <2>1. Cardinality(open) \in Nat
    BY FS_CardinalityType DEF IInv, Accounted
  <2>2. \E n \in 1..C!Cardinality(open) + 1 : n \notin open
    <3>1. \E n \in 1..Cardinality(open) + 1 : n \notin open
      BY FreshSocket DEF IInv, Accounted
    <3>2. QED BY <1>0, <3>1
  <2>3. new \in 1..C!Cardinality(open) + 1 /\ new \notin open
    BY <2>2, Zenon
  <2>. HIDE DEF new
  <2>4. QED BY <1>0, <2>1, <2>3
<1>2. /\ at = "socket" /\ s = 0 /\ open' = open \cup {new} /\ UNCHANGED <<nonblock, fd, layers, again>>
      /\ \/ lost' = lost \cup {[sock |-> new, why |-> "path"]} /\ C!NextServer /\ s' = s
         \/ s' = new /\ at' = "connect" /\ UNCHANGED <<srv, addr, lost>>
  <2>1. at = "socket" /\ s = 0
    BY DEF C!Socket, IInv, Stage
  <2>2. open' = open \cup {new} /\ UNCHANGED <<nonblock, fd, layers, again>>
    BY Zenon DEF C!Socket, C!sb
  <2>3. \/ lost' = lost \cup {[sock |-> new, why |-> "path"]} /\ C!NextServer /\ s' = s
        \/ s' = new /\ at' = "connect" /\ UNCHANGED <<srv, addr, lost>>
    BY Zenon DEF C!Socket
  <2>4. QED BY <2>1, <2>2, <2>3
<1>. HIDE DEF new
<1>3. /\ open \subseteq Nat \ {0} /\ IsFiniteSet(open) /\ open = C!Socks({s, fd}) \cup Leaked
      /\ \A l \in lost : l.why \in {"path", "tls"}
      /\ fd # 0 => fd \notin Leaked
  BY DEF IInv, Accounted
<1>4. new # fd /\ new \notin Leaked /\ IsFiniteSet(open')
  <2>1. fd # 0 => fd \in open
    BY <1>3 DEF C!Socks
  <2>2. QED BY <1>1, <1>2, <1>3, <2>1, FS_AddElement
<1>5. CASE lost' = lost \cup {[sock |-> new, why |-> "path"]} /\ C!NextServer /\ s' = s
  <2>1. Leaked' = Leaked \cup {new}
    <3>1. PICK l : l = [sock |-> new, why |-> "path"]
      OBVIOUS
    <3>2. lost' = lost \cup {l} /\ l.sock = new
      BY <1>5, <3>1
    <3>3. QED BY <3>2, LeakedMore
  <2>2. C!Lost("tls")' = C!Lost("tls")
    BY <1>5 DEF C!Lost
  <2>3. at' = "server" /\ srv' = srv + 1
    BY <1>5 DEF C!NextServer
  <2>4. Accounted'
    BY <1>1, <1>2, <1>3, <1>4, <1>5, <2>1 DEF Accounted, C!Socks
  <2>5. Stage' /\ Blocking' /\ Layers'
    BY <1>2, <1>5, <2>2, <2>3 DEF IInv, Stage, Blocking, Layers, Tidy, Pair, Triple, On, ModeStep
  <2>6. QED BY <2>4, <2>5 DEF IInv
<1>6. CASE s' = new /\ at' = "connect" /\ UNCHANGED <<srv, addr, lost>>
  <2>1. Leaked' = Leaked /\ C!Lost("tls")' = C!Lost("tls")
    BY <1>6 DEF Leaked, C!Lost
  <2>2. Accounted'
    BY <1>1, <1>2, <1>3, <1>4, <1>6, <2>1 DEF Accounted, C!Socks
  <2>3. Stage' /\ Blocking' /\ Layers'
    BY <1>1, <1>2, <1>6, <2>1 DEF IInv, Stage, Blocking, Layers, Tidy, Pair, Triple, On, ModeStep
  <2>4. QED BY <2>2, <2>3 DEF IInv
<1>7. QED BY <1>2, <1>5, <1>6

(* A connect that failed closes its socket.                                *)
LEMMA AbortStep ==
    ASSUME IInv, C!Abort, at \in {"connect", "select"}, UNCHANGED setup, ModeStep
    PROVE  IInv'
<1>1. /\ open' = open \ {s} /\ nonblock' = nonblock \ {s} /\ s' = 0
      /\ UNCHANGED <<fd, layers, lost, again>>
      /\ at' \in {"server", "socket"} /\ (at' = "socket" => srv' = srv) /\ srv' \in Nat \ {0}
      /\ s # 0
  BY MovesOn DEF C!Abort, C!sb, IInv, Stage
<1>2. Leaked' = Leaked /\ C!Lost("tls")' = C!Lost("tls")
  BY <1>1 DEF Leaked, C!Lost
<1>3. Accounted'
  <2>1. IsFiniteSet(open')
    BY <1>1, FS_RemoveElement DEF IInv, Accounted
  <2>2. QED BY <1>1, <1>2, <2>1 DEF IInv, Accounted, C!Socks
<1>4. Stage' /\ Blocking' /\ Layers'
  BY <1>1, <1>2 DEF IInv, Stage, Blocking, Layers, Tidy, Pair, Triple, On, ModeStep
<1>5. QED BY <1>3, <1>4 DEF IInv

(* A connect that succeeded: the descriptor goes into the Sockbuf, over    *)
(* that of a server whose TLS start failed, and the layers on top.         *)
LEMMA SucceedStep ==
    ASSUME IInv, NEW mode2, C!Succeed(mode2), UNCHANGED setup, ModeStep,
           \/ at = "connect" /\ mode2 = nonblock
           \/ at = "select" /\ setup.os2 /\ mode2 = nonblock
           \/ at = "select" /\ mode2 = nonblock \ {s}
    PROVE  IInv'
<1>1. /\ fd' = s /\ s' = 0 /\ nonblock' = mode2 /\ layers' = C!Layered
      /\ at' = IF setup.urls[srv].tls THEN "tls" ELSE "connected"
      /\ lost' = lost \cup (IF fd = 0 THEN {} ELSE {[sock |-> fd, why |-> "tls"]})
      /\ UNCHANGED <<srv, addr, open, again>> /\ s # 0
  BY DEF C!Succeed, IInv, Stage
<1>2. Leaked' = Leaked \cup C!Socks({fd})
  <2>1. CASE fd = 0
    BY <1>1, <2>1 DEF Leaked, C!Socks
  <2>2. CASE fd # 0
    <3>1. PICK l : l = [sock |-> fd, why |-> "tls"]
      OBVIOUS
    <3>2. lost' = lost \cup {l} /\ l.sock = fd /\ C!Socks({fd}) = {fd}
      BY <1>1, <2>2, <3>1 DEF C!Socks
    <3>3. QED BY <3>2, LeakedMore
  <2>3. QED BY <2>1, <2>2
<1>3. Accounted'
  <2>1. \A l \in lost' : l.why \in {"path", "tls"}
    BY <1>1 DEF IInv, Accounted
  <2>2. QED BY <1>1, <1>2, <2>1 DEF IInv, Accounted, C!Socks
<1>4. ASSUME C!Lost("tls")' = {} PROVE layers' = Plain'
  <2>1. fd = 0
    <3>1. ASSUME fd # 0 PROVE FALSE
      <4>1. [sock |-> fd, why |-> "tls"] \in lost'
        BY <1>1, <3>1
      <4>2. fd \in C!Lost("tls")'
        BY <4>1 DEF C!Lost
      <4>3. QED BY <1>4, <4>2
    <3>2. QED BY <3>1
  <2>2. layers = <<>>
    BY <2>1 DEF IInv, Layers
  <2>3. setup.urls[srv].proto \in {"tcp", "ipc"} /\ s \in Nat
    BY <1>1 DEF IInv, Accounted, Stage, C!Socks
  <2>. DEFINE p     == IF setup.urls[srv].proto = "tcp" THEN "tcp" ELSE "fd"
              below == [io |-> p, sock |-> s]
              above == [io |-> "readahead", sock |-> s]
  <2>4. p \in Names /\ "readahead" \in Names
    BY DEF Names
  <2>5. below \in Layer /\ above \in Layer /\ below.io = p /\ C!Level(p) = 1 /\ C!Level("readahead") = 1
    BY <2>3, <2>4 DEF Layer, C!Level
  <2>6. layers' = C!AddIo(C!AddIo(<<>>, p, s), "readahead", s)
    BY <1>1, <2>2 DEF C!Layered
  <2>7. Plain' = <<above, below>>
    BY <1>1 DEF Plain, On, Protocol
  <2>. HIDE DEF p
  <2>8. C!AddIo(<<>>, p, s) = <<below>>
    <3>1. C!AddIo(<<>>, p, s) = <<below>> \o <<>>
      <4>1. <<>> \in Seq(Layer)
        OBVIOUS
      <4>2. QED BY <2>3, <2>4, <4>1, AddOnTop
    <3>2. QED BY <2>5, <3>1, Short
  <2>9. C!AddIo(<<below>>, "readahead", s) = <<above, below>>
    <3>1. <<below>> \in Seq(Layer) /\ <<below>>[1] = below /\ C!Level(below.io) <= C!Level("readahead")
      BY <2>5
    <3>2. C!AddIo(<<below>>, "readahead", s) = <<above>> \o <<below>>
      <4>. HIDE DEF below
      <4>1. C!Level(<<below>>[1].io) <= C!Level("readahead")
        BY <3>1
      <4>2. QED BY <2>3, <2>4, <3>1, <4>1, AddOnTop
    <3>3. QED BY <2>5, <3>2, Short
  <2>10. QED BY <2>6, <2>7, <2>8, <2>9
<1>5. Stage' /\ Blocking'
  BY <1>1 DEF IInv, Stage, Blocking, ModeStep
<1>a. Tidy'
  <2>1. C!Lost("tls")' = {} => C!Lost("tls") = {}
    BY <1>1 DEF C!Lost
  <2>2. C!Lost("tls") = {} => ~again
    BY DEF IInv, Layers, Tidy
  <2>3. Plain' = Pair(Protocol)' /\ Protocol' \in {"tcp", "fd"}
    BY DEF Plain, Pair, Protocol, On
  <2>4. C!Lost("tls")' = {} => \E p \in {"tcp", "fd"} : layers' = Pair(p)'
    BY <1>4, <2>3 DEF Pair, On
  <2>5. QED BY <1>1, <2>1, <2>2, <2>4 DEF Tidy
<1>6. Layers'
  BY <1>1, <1>4, <1>a DEF Layers
<1>7. QED BY <1>3, <1>5, <1>6 DEF IInv

LEMMA OneSocket ==
    ASSUME IInv, C!Lost("tls") = {}
    PROVE  C!Cardinality(C!Sockets) \in {0, 1}
<1>1. \E i : C!Sockets \subseteq {i}
  <2>1. CASE layers = <<>>
    BY <2>1 DEF C!Sockets
  <2>2. ASSUME NEW p \in {"tcp", "fd"}, layers = Pair(p) PROVE C!Sockets \subseteq {2}
    BY <2>2 DEF C!Sockets, Pair, On
  <2>3. ASSUME NEW p \in {"tcp", "fd"}, layers = Triple(p) PROVE C!Sockets \subseteq {3}
    BY <2>3 DEF C!Sockets, Triple, On
  <2>4. QED BY <2>1, <2>2, <2>3 DEF IInv, Layers, Tidy
<1>2. PICK i : C!Sockets \subseteq {i}
  BY <1>1
<1>3. C!Sockets = {} \/ C!Sockets = {i}
  BY <1>2
<1>4. Cardinality({}) = 0 /\ Cardinality({i}) = 1
  BY FS_EmptySet, FS_Singleton
<1>5. C!Cardinality(C!Sockets) = Cardinality(C!Sockets)
  BY DEF C!Cardinality, Cardinality
<1>6. QED BY <1>3, <1>4, <1>5

(* The Sockbuf is freed and its descriptor closed.                         *)
LEMMA FreedStep ==
    ASSUME IInv, C!Freed, at \in {"server", "connected"}, at' \in {"failed", "closed"},
           UNCHANGED <<setup, srv, s, lost>>, ModeStep
    PROVE  IInv'
<1>1. /\ open' = open \ {fd} /\ nonblock' = nonblock \ {fd} /\ fd' = 0 /\ layers' = <<>> /\ s = 0
      /\ again' = (again \/ C!Cardinality(C!Sockets) > 1)
  BY DEF C!Freed, IInv, Stage
<1>2. Leaked' = Leaked
  BY DEF Leaked
<1>3. Accounted'
  <2>1. IsFiniteSet(open')
    BY <1>1, FS_RemoveElement DEF IInv, Accounted
  <2>2. QED BY <1>1, <1>2, <2>1 DEF IInv, Accounted, C!Socks
<1>4. Tidy'
  <2>1. C!Lost("tls")' = C!Lost("tls")
    BY DEF C!Lost
  <2>2. C!Lost("tls") = {} => ~again
    BY DEF IInv, Layers, Tidy
  <2>3. ASSUME C!Lost("tls") = {} PROVE ~again'
    <3>1. C!Cardinality(C!Sockets) \in {0, 1}
      BY <2>3, OneSocket
    <3>2. ~(C!Cardinality(C!Sockets) > 1)
      BY <3>1
    <3>3. QED BY <1>1, <2>2, <2>3, <3>2
  <2>4. QED BY <1>1, <2>1, <2>3 DEF Tidy
<1>5. Stage' /\ Blocking' /\ Layers'
  BY <1>1, <1>4 DEF IInv, Stage, Blocking, Layers, ModeStep
<1>6. QED BY <1>3, <1>5 DEF IInv

(* Nothing is exchanged that would change the connection or the mode.      *)
LEMMA SameMode == B!Next => mode' = mode
BY DEF B!Next, B!Client, B!Wait, B!WriteSome, B!WriteSecure, B!WriteFails, B!ReadPlain, B!ReadSecure,
   B!ReadPacket, B!WouldBlock, B!Select, B!Timeout, B!Flush, B!Reply, B!ServerCloses

LEMMA NextInv == IInv /\ [Next]_vars => IInv'
<1>. SUFFICES ASSUME IInv, [Next]_vars PROVE IInv'
  OBVIOUS
<1>1. CASE UNCHANGED <<connecting, mode>>
  BY <1>1 DEF connecting, IInv, Accounted, Stage, Blocking, Layers, Leaked, C!Lost, C!Socks, On, Protocol,
     Plain, Secure, Tidy, Pair, Triple
<1>2. CASE Open
  <2>1. /\ setup' = setup /\ ModeStep
        /\ \/ C!Resolve \/ C!Unknown \/ C!NoSocket \/ C!Retry \/ C!ConnectWaits
           \/ C!TlsStarts \/ C!HandshakeFails \/ C!WrongHost
           \/ C!GiveUp \/ C!Socket \/ C!ConnectNow \/ C!ConnectFails \/ C!Ready \/ C!NotReady
           \/ C!TimesOut
    <3>1. ModeStep
      BY <1>2 DEF Open, Opening, Mode, ModeStep, IInv, Blocking
    <3>2. QED BY <1>2, <3>1 DEF Open, Opening, C!Next, C!Steps, C!Waits, C!Close
  <2>2. CASE \/ C!Resolve \/ C!Unknown \/ C!NoSocket \/ C!Retry \/ C!ConnectWaits
             \/ C!TlsStarts \/ C!HandshakeFails \/ C!WrongHost
    <3>1. UNCHANGED <<open, fd, lost, s, again>>
      BY <2>2 DEF C!Resolve, C!Unknown, C!NoSocket, C!Retry, C!ConnectWaits, C!TlsStarts,
         C!HandshakeFails, C!WrongHost, C!TlsFailed, C!sb
    <3>2. QED BY <2>1, <2>2, <3>1, QuietStep
  <2>3. CASE C!GiveUp
    <3>1. CASE setup.ldsb
      <4>1. /\ UNCHANGED <<open, fd, layers, srv, addr, s, nonblock, lost, setup, again>> /\ ModeStep
            /\ at = "server" /\ at' = "failed"
        BY <2>1, <2>3, <3>1 DEF C!GiveUp, C!sb
      <4>2. QED BY <4>1 DEF IInv, Accounted, Stage, Blocking, Layers, Leaked, C!Lost, C!Socks, Tidy,
                            Pair, Triple, On, ModeStep
    <3>2. CASE ~setup.ldsb
      BY <2>1, <2>3, <3>2, FreedStep DEF C!GiveUp
    <3>3. QED BY <3>1, <3>2
  <2>4. CASE C!Socket
    BY <2>1, <2>4, SocketStep
  <2>5. CASE C!ConnectFails \/ C!NotReady \/ C!TimesOut
    BY <2>1, <2>5, AbortStep DEF C!ConnectFails, C!NotReady, C!TimesOut
  <2>6. CASE C!ConnectNow
    <3>1. PICK m : m = nonblock
      OBVIOUS
    <3>2. at = "connect" /\ C!Succeed(m)
      BY <2>6, <3>1 DEF C!ConnectNow, C!Succeed
    <3>3. QED BY <2>1, <3>1, <3>2, SucceedStep
  <2>7. CASE C!Ready
    <3>1. PICK m : m = IF C!Os2 THEN nonblock ELSE nonblock \ {s}
      OBVIOUS
    <3>2. at = "select" /\ C!Succeed(m)
      BY <2>7, <3>1 DEF C!Ready, C!Succeed
    <3>3. QED BY <2>1, <3>1, <3>2, SucceedStep DEF C!Os2
  <2>8. QED BY <2>1, <2>2, <2>3, <2>4, <2>5, <2>6, <2>7
<1>3. CASE Unbind
  BY <1>3, FreedStep DEF Unbind, C!Close, exchanging, ModeStep, IInv, Blocking
<1>4. CASE Exchange
  BY <1>1, <1>4, SameMode DEF Exchange, Connected
<1>5. CASE SetNonblock
  <2>1. /\ UNCHANGED <<setup, at, srv, addr, s, open, fd, layers, lost, again, mode>>
        /\ ~mode.block
    BY <1>5 DEF SetNonblock, exchanging
  <2>2. QED BY <2>1 DEF IInv, Accounted, Stage, Blocking, Layers, Leaked, C!Lost, C!Socks, On, Protocol,
     Plain, Secure, Tidy, Pair, Triple
<1>6. CASE UNCHANGED vars
  BY <1>1, <1>6 DEF vars, exchanging
<1>7. QED BY <1>2, <1>3, <1>4, <1>5, <1>6 DEF Next

LEMMA Invariant == Spec => []IInv
BY InitInv, NextInv, PTL DEF Spec

-----------------------------------------------------------------------------
(* Every socket is accounted for, none is closed twice unless a server's   *)
(* TLS has failed, and what is connected has the layers of its own socket  *)
(* and, outside OS/2, blocks unless the application switched it.           *)
THEOREM SocketsTheorem == Spec => []SocketsExact
<1>1. IInv => SocketsExact
  <2>. SUFFICES ASSUME IInv PROVE SocketsExact
    OBVIOUS
  <2>1. C!SocketsExact
    <3>1. Leaked = C!Lost("path") \cup C!Lost("tls")
      BY DEF IInv, Accounted, Leaked, C!Lost
    <3>2. open = C!Socks({s, fd}) \cup Leaked
      BY DEF IInv, Accounted
    <3>3. QED BY <3>1, <3>2 DEF C!SocketsExact
  <2>2. at = "connected" => fd \in open
    BY DEF IInv, Accounted, Stage, C!Socks
  <2>3. ASSUME at = "connected", C!Lost("tls") = {}
        PROVE  layers = [i \in DOMAIN C!Stack |-> [io |-> C!Stack[i], sock |-> fd]]
    <3>. DEFINE p == Protocol
    <3>1. layers = IF setup.urls[srv].tls THEN Secure ELSE Plain
      BY <2>3 DEF IInv, Layers
    <3>2. CASE setup.urls[srv].tls
      <4>1. C!Stack = <<"tls", "readahead", p>>
        <5>1. C!Stack = <<"tls">> \o <<"readahead", p>>
          BY <3>2 DEF C!Stack, C!Proto, Protocol
        <5>2. PICK a \in Names, b \in Names, c \in Names : a = "tls" /\ b = "readahead" /\ c = p
          BY DEF Protocol, Names
        <5>3. <<a>> \o <<b, c>> = <<a, b, c>>
          BY Short
        <5>4. QED BY <5>1, <5>2, <5>3
      <4>2. [i \in DOMAIN <<"tls", "readahead", p>> |->
                [io |-> <<"tls", "readahead", p>>[i], sock |-> fd]] = Secure
        BY DEF Secure, On
      <4>3. QED BY <3>1, <3>2, <4>1, <4>2
    <3>3. CASE ~setup.urls[srv].tls
      <4>1. C!Stack = <<"readahead", p>>
        <5>1. C!Stack = <<>> \o <<"readahead", p>>
          BY <3>3 DEF C!Stack, C!Proto, Protocol
        <5>2. <<"readahead", p>> \in Seq(Names)
          BY DEF Protocol, Names
        <5>. HIDE DEF p
        <5>3. QED BY <5>1, <5>2, ConcatEmptySeq, Zenon
      <4>2. [i \in DOMAIN <<"readahead", p>> |-> [io |-> <<"readahead", p>>[i], sock |-> fd]] = Plain
        BY DEF Plain, On
      <4>3. QED BY <3>1, <3>3, <4>1, <4>2
    <3>4. QED BY <3>2, <3>3
  <2>4. at = "connected" /\ ~setup.os2 /\ mode.block => fd \notin nonblock
    BY DEF IInv, Blocking
  <2>5. again => C!Lost("tls") # {}
    BY DEF IInv, Layers, Tidy
  <2>6. QED BY <2>1, <2>2, <2>3, <2>4, <2>5 DEF SocketsExact, C!StackExact
<1>2. QED BY <1>1, Invariant, PTL

=============================================================================
