------------------------------ MODULE Connect ------------------------------
(***************************************************************************)
(* Opening a connection: the servers of a URL list and the addresses of    *)
(* each are tried one after another, each with a non-blocking connect that *)
(* select waits for, and the layers of the Sockbuf are put on what         *)
(* connected (request.c, open.c, os-ip.c, os-local.c, tls.c).              *)
(***************************************************************************)
EXTENDS Integers, FiniteSets, SequencesExt

CONSTANTS
    Setups,      \* what may be opened: [urls, getaddrinfo, os2, ldsb]
    Timed,       \* whether ldo_tm_net bounds the wait for a connect
    MaxLost      \* bound: lost sockets after which no request retries

(* urls is a sequence of [proto, addrs, long, tls]; getaddrinfo stands for *)
(* HAVE_GETADDRINFO, os2 for src/src/os-ip.c, the copy of os-ip.c for      *)
(* OS/2, and ldsb for the default connection, over the session's ld_sb.    *)
ConnectAssumption ==
    /\ \A c \in Setups :
         /\ c.getaddrinfo \in BOOLEAN /\ c.os2 \in BOOLEAN /\ c.ldsb \in BOOLEAN
         /\ c.urls \in Seq([proto : {"tcp", "ipc"}, addrs : Nat \ {0},
                            long : BOOLEAN, tls : BOOLEAN])
    /\ Timed \in BOOLEAN /\ MaxLost \in Nat

VARIABLES
    setup,    \* the URL list and the build
    at,       \* where ldap_new_connection is
    srv,      \* the server being tried, a position in setup.urls
    addr,     \* its address being tried
    s,        \* the socket being connected, 0 for none
    open,     \* the sockets the process has open
    nonblock, \* those of them with O_NONBLOCK
    fd,       \* sb_fd, 0 for none
    layers,   \* sb_iod from the top: [io, sock], sock the one it was set up on
    lost,     \* history: sockets nobody will close, and why: [sock, why]
    again     \* history: whether a descriptor that was closed has been closed again

sb   == <<fd, layers, again>>
vars == <<setup, at, srv, addr, s, open, nonblock, sb, lost>>

Init ==
    /\ setup \in Setups
    /\ at = "server" /\ srv = 1 /\ addr = 1 /\ s = 0
    /\ open = {} /\ nonblock = {} /\ fd = 0 /\ layers = <<>> /\ lost = {} /\ again = FALSE

Servers == setup.urls
Current == Servers[srv]
Has(io) == \E i \in DOMAIN layers : layers[i].io = io

NextServerMut == at' = "server" /\ srv' = srv /\ addr' = 1

(* ldap_int_open_connection failed *)
NextServer == at' = "server" /\ srv' = srv + 1 /\ addr' = 1

(* an address failed; a local server has only one *)
NextAddress ==
    IF Current.proto = "tcp" /\ addr < Current.addrs
    THEN at' = "socket" /\ addr' = addr + 1 /\ UNCHANGED srv
    ELSE NextServer

-----------------------------------------------------------------------------
(* The host is looked up; a local path and a numeric address need none. *)
Resolve ==
    /\ at = "server" /\ srv <= Len(Servers)
    /\ at' = "socket" /\ UNCHANGED <<srv, addr>>
    /\ UNCHANGED <<s, open, nonblock, sb, lost>>

Unknown ==
    /\ at = "server" /\ srv <= Len(Servers) /\ Current.proto = "tcp"
    /\ NextServer
    /\ UNCHANGED <<s, open, nonblock, sb, lost>>

(* ber_sockbuf_free closes sb_fd in each layer of a socket, so once more   *)
(* for each that another server has left there.                            *)
Sockets == {i \in DOMAIN layers : layers[i].io \in {"tcp", "fd"}}

Freed ==
    /\ open' = open \ {fd} /\ nonblock' = nonblock \ {fd}
    /\ again' = (again \/ Cardinality(Sockets) > 1)
    /\ fd' = 0 /\ layers' = <<>>

(* All servers failed: the connection is given up, and its Sockbuf freed   *)
(* unless it is the session's.                                             *)
GiveUp ==
    /\ at = "server" /\ srv > Len(Servers)
    /\ at' = "failed"
    /\ IF setup.ldsb THEN UNCHANGED <<open, nonblock, sb>> ELSE Freed
    /\ UNCHANGED <<srv, addr, s, lost>>

(* The next request opens the default connection again if ld_sb has no     *)
(* descriptor; otherwise it takes ld_defconn, which is NULL.               *)
Retry ==
    /\ at = "failed" /\ setup.ldsb /\ Cardinality(lost) < MaxLost
    /\ at' = IF fd = 0 THEN "server" ELSE "undefined"
    /\ srv' = 1 /\ addr' = 1
    /\ UNCHANGED <<s, open, nonblock, sb, lost>>

Socket ==
    LET new == CHOOSE n \in 1..Cardinality(open) + 1 : n \notin open
    IN  /\ at = "socket"
        /\ open' = open \cup {new}
        /\ IF Current.proto = "ipc" /\ Current.long
           THEN lost' = lost \cup {[sock |-> new, why |-> "path"]} /\ NextServer /\ UNCHANGED s
           ELSE s' = new /\ at' = "connect" /\ UNCHANGED <<srv, addr, lost>>
        /\ UNCHANGED <<nonblock, sb>>

(* With getaddrinfo the next address is tried, otherwise the host is given up. *)
NoSocket ==
    /\ at = "socket"
    /\ IF setup.getaddrinfo THEN NextAddress ELSE NextServer
    /\ UNCHANGED <<s, open, nonblock, sb, lost>>

-----------------------------------------------------------------------------
(* ldap_pvt_connect: the socket is made non-blocking, connected, waited    *)
(* for, and made blocking again. *)
AbortMut ==
    /\ nonblock' = nonblock \ {s} /\ s' = 0
    /\ NextAddress
    /\ UNCHANGED <<open, sb, lost>>

Abort ==
    /\ open' = open \ {s} /\ nonblock' = nonblock \ {s} /\ s' = 0
    /\ NextAddress
    /\ UNCHANGED <<sb, lost>>

(* ber_sockbuf_ctrl SET_FD overwrites the descriptor of a server whose TLS *)
(* start failed; then the layers of ldap_int_open_connection are added,    *)
(* each above those that are there at its level.                           *)
Level(io) == IF io = "tls" THEN 2 ELSE 1
AddIo(stack, io, sock) ==
    LET place == CHOOSE i \in 1..Len(stack) + 1 :
            /\ \A j \in 1..i - 1 : Level(stack[j].io) > Level(io)
            /\ i <= Len(stack) => Level(stack[i].io) <= Level(io)
    IN  InsertAt(stack, place, [io |-> io, sock |-> sock])

Layered == AddIo(AddIo(layers, IF Current.proto = "tcp" THEN "tcp" ELSE "fd", s), "readahead", s)

Succeed(mode) ==
    /\ fd' = s /\ s' = 0 /\ nonblock' = mode
    /\ layers' = Layered
    /\ at' = IF Current.tls THEN "tls" ELSE "connected"
    /\ lost' = lost \cup (IF fd = 0 THEN {} ELSE {[sock |-> fd, why |-> "tls"]})
    /\ UNCHANGED <<srv, addr, open, again>>

(* src/os-ip.c waits whatever connect says, and leaves O_NONBLOCK as it is *)
(* after the wait.                                                         *)
Os2 == setup.os2 /\ Current.proto = "tcp"

ConnectNow   == at = "connect" /\ Succeed(nonblock)
ConnectFails == at = "connect" /\ ~Os2 /\ Abort
ConnectWaits ==
    /\ at = "connect"
    /\ at' = "select" /\ nonblock' = nonblock \cup {s}
    /\ UNCHANGED <<srv, addr, s, open, sb, lost>>

(* select: the socket is writable and getpeername knows a peer; it is      *)
(* writable and has none; a signal or the timeout ends the wait.           *)
Ready    == at = "select" /\ Succeed(IF Os2 THEN nonblock ELSE nonblock \ {s})
NotReady == at = "select" /\ Abort
TimesOut == at = "select" /\ Timed /\ Abort

-----------------------------------------------------------------------------
(* ldap_int_tls_start.  A TLS layer that is there is used as it is; a      *)
(* handshake that fails takes the layer off the top again, a certificate   *)
(* of another host does not.                                               *)
TlsLayer == IF Has("tls") THEN layers ELSE AddIo(layers, "tls", fd)

TlsStarts ==
    /\ at = "tls"
    /\ layers' = TlsLayer
    /\ at' = "connected"
    /\ UNCHANGED <<srv, addr, s, open, nonblock, fd, lost, again>>

TlsFailed ==
    /\ NextServer
    /\ UNCHANGED <<s, open, nonblock, fd, lost, again>>

HandshakeFails ==
    /\ at = "tls"
    /\ layers' = IF Has("tls") THEN Tail(layers) ELSE layers
    /\ TlsFailed

WrongHost ==
    /\ at = "tls"
    /\ layers' = TlsLayer
    /\ TlsFailed

-----------------------------------------------------------------------------
(* ldap_unbind closes the Sockbuf through its layers. *)
Close ==
    /\ at = "connected"
    /\ at' = "closed"
    /\ Freed
    /\ UNCHANGED <<srv, addr, s, lost>>

Steps ==
    \/ Resolve \/ Unknown \/ GiveUp
    \/ Socket \/ NoSocket
    \/ ConnectNow \/ ConnectFails \/ ConnectWaits
    \/ TlsStarts \/ HandshakeFails \/ WrongHost
Waits == Ready \/ NotReady \/ TimesOut

Next == (Steps \/ Waits \/ Retry \/ Close) /\ UNCHANGED setup

(* The code runs on; a wait with a timeout ends. *)
Spec == Init /\ [][Next]_vars /\ WF_vars(Steps /\ UNCHANGED setup)
        /\ (Timed => WF_vars(Waits /\ UNCHANGED setup))
-----------------------------------------------------------------------------
Lost(why) == {l.sock : l \in {k \in lost : k.why = why}}
Socks(set) == set \ {0}

(* Every open socket is the one being connected, that of the Sockbuf, or   *)
(* one of the two kinds that get lost: the local socket of a path that is  *)
(* too long (os-local.c lines 205 to 208) and that of a server whose TLS   *)
(* start failed before another one connected (open.c lines 335 to 337).    *)
SocketsExact == open = Socks({s, fd}) \cup Lost("path") \cup Lost("tls")

(* What is connected has an open socket and, unless the TLS start of an    *)
(* earlier server failed after its socket had connected, the layers of     *)
(* that socket, each once; nor is a descriptor closed twice otherwise.     *)
Proto == IF Current.proto = "tcp" THEN "tcp" ELSE "fd"
Stack == (IF Current.tls THEN <<"tls">> ELSE <<>>) \o <<"readahead", Proto>>
StackExact ==
    /\ at = "connected" => fd \in open
    /\ at = "connected" /\ Lost("tls") = {} => layers = [i \in DOMAIN Stack |-> [io |-> Stack[i], sock |-> fd]]
    /\ again => Lost("tls") # {}

(* With a network timeout the attempt ends, connected or not, whatever the *)
(* servers do (os-ip.c lines 191 to 270).                                  *)
ConnectEnds == Timed => (at = "server" ~> at \in {"connected", "failed"})
=============================================================================
