----------------------------- MODULE Transport -----------------------------
(***************************************************************************)
(* A connection from its opening to its end: Connect chooses the server    *)
(* and the socket, BerIo exchanges elements over what it connected, and    *)
(* ldap_unbind closes the Sockbuf, wherever the exchange stands.  The SASL *)
(* layer is there when a bind negotiated one, which the model decides when *)
(* the connection is opened.                                               *)
(***************************************************************************)
EXTENDS Integers, FiniteSets, SequencesExt

CONSTANTS
    Setups, Timed, MaxLost,          \* as in Connect
    Exchanging,                      \* bound: the setups over which requests are sent
    Requests, Replies, MaxRequests, MaxReplies, MaxIncoming, Size, Modes, Stale  \* as in BerIo

VARIABLES
    setup, at, srv, addr, s, open, nonblock, fd, layers, lost, again,
    mode, pc, out, pkt, up, down, closed, ahead, sec, plain, call, ber, asked, answered, read, torn

C == INSTANCE Connect
B == INSTANCE BerIo

ASSUME TransportAssumption == C!ConnectAssumption /\ B!BerIoAssumption /\ Exchanging \subseteq Setups

connecting == <<setup, at, srv, addr, s, open, nonblock, fd, layers, lost, again>>
elements   == <<pc, out, pkt, up, down, closed, ahead, sec, plain, call, ber, asked, answered, read, torn>>
exchanging == <<mode, elements>>
vars       == <<connecting, exchanging>>

(* The build for OS/2 is one without Cyrus SASL (h/portable.h lines 19 to 22). *)
Init == C!Init /\ B!Init /\ (setup.os2 => ~mode.secure)

(* While it is being opened nothing is exchanged; a socket that is left    *)
(* non-blocking is so for the exchange.                                    *)
Mode == mode' = [mode EXCEPT !.block = @ /\ ~(at' = "connected" /\ fd' \in nonblock')]
Opening == at # "connected" /\ Mode /\ UNCHANGED <<setup, elements>>
Open    == C!Next /\ Opening

(* The exchange needs the connection and what Connect made of its socket. *)
Connected ==
    /\ at = "connected" /\ setup \in Exchanging
    /\ mode.block <=> fd \notin nonblock
    /\ UNCHANGED connecting
Exchange == Connected /\ B!Next

(* ldap_unbind, or the application that does not block switches the socket *)
Unbind ==
    /\ C!Close /\ UNCHANGED setup
    /\ pc \in {"idle", "down"}
    /\ UNCHANGED exchanging

SetNonblock ==
    /\ at = "connected" /\ ~mode.block /\ fd \notin nonblock
    /\ nonblock' = nonblock \cup {fd}
    /\ UNCHANGED <<setup, at, srv, addr, s, open, fd, layers, lost, again, exchanging>>

Next == Open \/ Exchange \/ Unbind \/ SetNonblock

Spec == Init /\ [][Next]_vars

(* The code runs on, a wait with a timeout ends; what is under way arrives *)
(* and select reports it some time, although waits may time out first.     *)
Fairness ==
    /\ WF_vars(C!Steps /\ Opening) /\ (Timed => WF_vars(C!Waits /\ Opening)) /\ WF_vars(SetNonblock)
    /\ WF_vars(Connected /\ B!Client) /\ SF_vars(Connected /\ B!Select)
    /\ SF_vars(Connected /\ (B!ReadPlain \/ B!ReadPacket) /\ down' # down)

FairSpec == Spec /\ Fairness

-----------------------------------------------------------------------------
(* Every socket is accounted for, and the one of a connection carries its  *)
(* own layers and, outside OS/2, blocks unless the application has         *)
(* switched it: the connect of libldap leaves no O_NONBLOCK behind         *)
(* (os-ip.c lines 84 to 96, 252), that of src/os-ip.c does (lines 271 to   *)
(* 274).                                                                   *)
SocketsExact ==
    /\ C!SocketsExact /\ C!StackExact
    /\ at = "connected" /\ ~setup.os2 /\ mode.block => fd \notin nonblock

(* Elements and requests pass whole and in order (io.c, cyrus.c). *)
StreamsExact == B!TypeOK /\ B!ReaderExact /\ B!WriterExact

(* The attempt to connect ends (os-ip.c lines 191 to 270). *)
ConnectEnds == C!ConnectEnds

(* A reply that was sent is returned unless the connection fails or is     *)
(* closed first, or the length of a SASL packet arrived in parts: nothing  *)
(* stays in the buffer of a layer while the client waits in select         *)
(* (result.c lines 258 to 263, sb_rdahead_ctrl, sb_sasl_ctrl).             *)
RepliesRead == \A i \in 1..MaxReplies : Len(answered) >= i ~> Len(read) >= i \/ torn \/ pc = "down" \/ at = "closed"
=============================================================================
