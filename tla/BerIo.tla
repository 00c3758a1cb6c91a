------------------------------- MODULE BerIo -------------------------------
(***************************************************************************)
(* BER elements over a connection (io.c and sockbuf.c of liblber, the SASL *)
(* layer of cyrus.c).  ber_flush writes a request through the layers of    *)
(* the Sockbuf; ber_get_next reads an element octet group by octet group,  *)
(* gives up where the connection has nothing, and continues there when it  *)
(* is called again.  A system call moves any part of what there is.        *)
(*                                                                         *)
(* The stack is the one of ldap_int_open_connection: the socket, the       *)
(* readahead layer, and the SASL layer when one was negotiated.            *)
(***************************************************************************)
EXTENDS Integers, SequencesExt

CONSTANTS
    Requests,     \* encoded requests, sequences of octets
    Replies,      \* what the server answers: [tag, len, body], the octets of each
    MaxRequests,  \* bound: requests, of a socket that blocks and of one that does not
    MaxReplies,   \* bound: replies
    MaxIncoming,  \* sb_max_incoming, 0 for none
    Size,         \* buf_size of the readahead buffer
    Modes,        \* subset of [block : BOOLEAN, secure : BOOLEAN]
    Stale         \* octets that memory not written to may hold

BerIoAssumption ==
    /\ Requests \subseteq Seq(0..255) \ {<<>>}
    /\ MaxRequests \in [BOOLEAN -> Nat] /\ MaxReplies \in Nat /\ MaxIncoming \in Nat /\ Size \in Nat \ {0}
    /\ Modes \subseteq [block : BOOLEAN, secure : BOOLEAN] /\ Stale \subseteq 0..127 /\ Stale # {}

VARIABLES
    mode,      \* whether the socket blocks, whether the SASL layer is there
    pc,        \* the client: "idle", "flush", "select", "get", "down"
    out,       \* what ber_rwptr of the request still has to write
    pkt,       \* buf_out of the SASL layer: the rest of an encoded packet
    up,        \* what reached the server
    down,      \* octets under way from the server
    closed,    \* whether the server has closed
    ahead,     \* buffer of the readahead layer
    sec,       \* sec_buf_in of the SASL layer: an incomplete packet
    plain,     \* buf_in of the SASL layer: decoded octets
    call,      \* the ber_int_sb_read in progress: octets wanted, octets copied
    ber,       \* the BerElement of the connection, lconn_ber
    asked,     \* history: the requests flushed or being flushed; of one given up, what was written
    answered,  \* history: the replies sent
    read,      \* history: what ber_get_next returned
    torn       \* history: whether the length of a SASL packet arrived in parts

writer == <<out, pkt, up, asked>>
stack  == <<ahead, sec, plain, call, torn>>
server == <<down, closed, answered>>
vars   == <<mode, pc, writer, server, stack, ber, read>>

NoCall == [n |-> 0, got |-> <<>>]
Fresh  == [at |-> "tag", tag |-> 0, len |-> 0, left |-> 0, buf |-> <<>>]

Init ==
    /\ mode \in Modes
    /\ pc = "idle" /\ out = <<>> /\ pkt = <<>> /\ up = <<>>
    /\ down = <<>> /\ closed = FALSE
    /\ ahead = <<>> /\ sec = <<>> /\ plain = <<>> /\ call = NoCall
    /\ ber = Fresh
    /\ asked = <<>> /\ answered = <<>> /\ read = <<>> /\ torn = FALSE

Least(a, b)   == IF a < b THEN a ELSE b
First(n, s)   == SubSeq(s, 1, Least(n, Len(s)))
Rest(n, s)    == SubSeq(s, n + 1, Len(s))
Encoded(r)    == r.tag \o r.len \o r.body

(* A SASL packet: its length, then the octets encrypted by sasl_encode,    *)
(* for which each octet's highest bit is turned here.                      *)
Header        == 4
MaxBuff       == 65536   \* SASL_MAX_BUFF_SIZE
Cipher(s)     == [i \in DOMAIN s |-> (s[i] + 128) % 256]
Packet(s)     == <<0, 0, Len(s) \div 256, Len(s) % 256>> \o Cipher(s)
PktLength(s)  == LET n == FoldLeft(LAMBDA v, c : 256 * v + c, 0, First(Header, s))
                 IN  IF n > MaxBuff THEN 16 ELSE n

-----------------------------------------------------------------------------
(* Writing.  ber_flush writes until nothing is left; when a layer returns  *)
(* 0 or less it returns -1, and the next ber_flush starts where this one   *)
(* stopped.  ldap_send_server_request takes any failure for a dead         *)
(* connection (going on later is under "notyet", request.c lines 203 to    *)
(* 217), also of a socket that does not block and takes no more.           *)
Flush(request) ==
    /\ pc = "idle" /\ Len(asked) < MaxRequests[mode.block]
    /\ asked' = Append(asked, request)
    /\ out' = request /\ pc' = "flush"
    /\ UNCHANGED <<mode, pkt, up, server, stack, ber, read>>

Wrote == pc' = IF out' = <<>> THEN "select" ELSE "flush"

(* sb_stream_write took n octets *)
WriteSome(n) ==
    /\ pc = "flush" /\ ~mode.secure /\ ~closed
    /\ up' = up \o First(n, out) /\ out' = Rest(n, out)
    /\ Wrote
    /\ UNCHANGED <<mode, pkt, asked, server, stack, ber, read>>

(* ldap_free_request: the caller is told LDAP_SERVER_DOWN, the connection  *)
(* stays for other requests. *)
GiveUp == pc' = "idle" /\ out' = <<>>

WouldBlock ==
    LET request == Last(asked)
        written == First(Len(request) - Len(out), request)
    IN  /\ pc = "flush" /\ ~mode.secure /\ ~mode.block /\ ~closed
        /\ GiveUp
        /\ asked' = Append(Front(asked), written)
        /\ UNCHANGED <<mode, pkt, up, server, stack, ber, read>>

(* sb_sasl_write: the rest of an earlier packet first, then all of the     *)
(* element in a new one.  ber_pvt_sb_do_write calls a short write a        *)
(* failure, and what is left of the packet waits for the next write.       *)
(* ber_pvt_sb_do_write of n octets of a packet *)
DoWrite(p, n) == [left |-> Rest(n, p), done |-> n = Len(p)]

WriteSecure(n) ==
    LET p == IF pkt = <<>> THEN Packet(out) ELSE pkt
        w == DoWrite(p, n)
    IN  /\ pc = "flush" /\ mode.secure /\ ~closed
        /\ n <= Len(p) /\ (mode.block => w.done)
        /\ up' = up \o First(n, p) /\ pkt' = w.left
        /\ IF w.done THEN (out' = IF pkt = <<>> THEN <<>> ELSE out) /\ Wrote ELSE GiveUp
        /\ UNCHANGED <<mode, asked, server, stack, ber, read>>

WriteFails ==
    /\ pc = "flush" /\ closed
    /\ pc' = "down"
    /\ UNCHANGED <<mode, writer, server, stack, ber, read>>

-----------------------------------------------------------------------------
(* The server: what it has got so far, as a stream of octets. *)
Decoded[s \in Seq(0..255)] ==
    IF Len(s) < Header \/ Len(s) < Header + PktLength(s) THEN <<>>
    ELSE Cipher(SubSeq(s, Header + 1, Header + PktLength(s))) \o Decoded[Rest(Header + PktLength(s), s)]
Arrived == IF mode.secure THEN Decoded[up] ELSE up

(* it answers once it has a whole request *)
Answering ==
    LET begun == SelectSeq(asked, LAMBDA r : r # <<>>)
    IN  /\ ~closed /\ Len(answered) < MaxReplies
        /\ begun # <<>> /\ begun[1] \in Requests /\ Len(Arrived) >= Len(begun[1])

(* It answers, over SASL in one packet or with the last octet in another. *)
Cuts(s) == IF mode.secure
           THEN {Packet(s), Packet(Front(s)) \o Packet(<<Last(s)>>)}
           ELSE {s}

Reply(r) ==
    /\ Answering
    /\ answered' = Append(answered, r)
    /\ \E s \in Cuts(Encoded(r)) : down' = down \o s
    /\ UNCHANGED <<mode, pc, writer, closed, stack, ber, read>>

ServerCloses ==
    /\ ~closed
    /\ closed' = TRUE
    /\ UNCHANGED <<mode, pc, writer, down, answered, stack, ber, read>>

-----------------------------------------------------------------------------
(* Reading.  wait4msg reads when a layer has octets buffered               *)
(* (LBER_SB_OPT_DATA_READY) or select reports the socket readable.         *)
SaslReady == plain # <<>>

DataReadyMut == SaslReady

DataReady == ahead # <<>> \/ SaslReady

(* the application waits for a result, or gives up waiting for now *)
Wait ==
    /\ pc = "idle" /\ asked # <<>>
    /\ pc' = "select"
    /\ UNCHANGED <<mode, writer, server, stack, ber, read>>

Timeout ==
    /\ pc = "select" /\ ~DataReady
    /\ pc' = "idle"
    /\ UNCHANGED <<mode, writer, server, stack, ber, read>>

Select ==
    /\ pc = "select" /\ (DataReady \/ down # <<>> \/ closed)
    /\ pc' = "get"
    /\ UNCHANGED <<mode, writer, server, stack, ber, read>>

(* what ber_get_next asks for next *)
Wanted == CASE ber.at \in {"tag", "more", "lenbyte"} -> 1
            [] ber.at \in {"len", "value"}           -> ber.left

(* ber_get_next returns: with an element, with nothing for now (EWOULDBLOCK), or with an error *)
Return(to) == pc' = to /\ call' = NoCall

TagDone(tag) == [ber EXCEPT !.at = "lenbyte", !.tag = tag]

(* The further octets of a long tag are all read to the same place, so the *)
(* last one is kept, and the whole is shifted once.                        *)
Tagged(c) ==
    CASE ber.at = "tag" /\ c % 32 # 31 -> TagDone(c)
      [] ber.at = "tag" /\ c % 32 = 31 -> [ber EXCEPT !.at = "more", !.tag = c]
      [] ber.at = "more" /\ c >= 128   -> ber
      [] ber.at = "more" /\ c < 128    -> TagDone((ber.tag + 256 * c) \div 32)

Filling(b) == [b EXCEPT !.at = "value", !.left = b.len]
TooLong(n) == n = 0 \/ (MaxIncoming # 0 /\ n > MaxIncoming)

Sized(b) == IF TooLong(b.len) THEN [b EXCEPT !.at = "range"] ELSE Filling(b)

(* the length octet: short form, long form, or none this reader takes *)
LenByte(c) ==
    IF c < 128 THEN Sized([ber EXCEPT !.len = c])
    ELSE IF c = 128 \/ c > 132 THEN [ber EXCEPT !.at = "range"]
    ELSE [ber EXCEPT !.at = "len", !.len = 0, !.left = c - 128]

LenOctets(s) ==
    LET n == FoldLeft(LAMBDA v, c : 256 * v + c, ber.len, s)
        b == [ber EXCEPT !.len = n, !.left = @ - Len(s)]
    IN  IF b.left > 0 THEN b ELSE Sized(b)

Taken(s) ==
    CASE ber.at \in {"tag", "more"} -> Tagged(s[1])
      [] ber.at = "lenbyte"         -> LenByte(s[1])
      [] ber.at = "len"             -> LenOctets(s)
      [] ber.at = "value"           -> [ber EXCEPT !.buf = @ \o s, !.left = @ - Len(s)]

(* The read returned s: ber_get_next goes on, returns the element, or, for *)
(* a short read of the value or an error, nothing.                         *)
GotOctets(s) ==
    LET b == Taken(s)
    IN  IF b.at = "value" /\ b.left = 0
        THEN /\ read' = Append(read, [tag |-> b.tag, body |-> b.buf])
             /\ ber' = Fresh
             /\ Return("idle")
        ELSE /\ ber' = b
             /\ Return(IF b.at = "range" THEN "down"
                       ELSE IF ber.at = "value" THEN "select" ELSE "get")
             /\ UNCHANGED read

-----------------------------------------------------------------------------
(* sb_rdahead_read of m octets when the system call, made if the buffer    *)
(* has less, returned fresh.                                               *)
ReadAheadMut(m, fresh) == [out |-> First(m, ahead \o fresh), rest |-> Rest(m, fresh)]

ReadAhead(m, fresh) == [out |-> First(m, ahead \o fresh), rest |-> Rest(m, ahead \o fresh)]

(* The octets the system call may return: any part of what is under way;   *)
(* nothing when the connection is closed or the socket does not block.     *)
Received(m) ==
    IF Len(ahead) >= m THEN {<<>>}
    ELSE {First(n, down) : n \in 1..Least(Size, Len(down))}
         \cup (IF (closed /\ down = <<>>) \/ ~mode.block THEN {<<>>} ELSE {})

(* a read that had nothing: the end of the stream, or nothing for now *)
Nothing == Return(IF closed /\ down = <<>> THEN "down" ELSE "select")

ReadPlain ==
    /\ pc = "get" /\ ~mode.secure
    /\ \E fresh \in Received(Wanted) :
         LET r == ReadAhead(Wanted, fresh)
         IN  /\ down' = Rest(Len(fresh), down)
             /\ ahead' = r.rest
             /\ IF r.out = <<>> THEN Nothing /\ UNCHANGED <<ber, read>> ELSE GotOctets(r.out)
    /\ UNCHANGED <<mode, writer, closed, answered, sec, plain, torn>>

(* sb_sasl_read: first what is left of the last packet *)
ReadSecure ==
    /\ pc = "get" /\ mode.secure /\ call = NoCall
    /\ LET got == First(Wanted, plain)
       IN  IF Len(got) = Wanted
           THEN plain' = Rest(Wanted, plain) /\ GotOctets(got)
           ELSE /\ plain' = <<>> /\ call' = [n |-> Wanted, got |-> got]
                /\ UNCHANGED <<pc, ber, read>>
    /\ UNCHANGED <<mode, writer, server, ahead, sec, torn>>

(* then the length and the rest of the next packet.  A read below that has *)
(* nothing ends the call, and what it had copied is gone.                  *)
Missing == (IF Len(sec) < Header THEN Header ELSE Header + PktLength(sec)) - Len(sec)
Whole(s) == Len(s) >= Header /\ Len(s) = Header + PktLength(s)

(* Each part of the length is read to buf_base, over the parts before it,  *)
(* and behind them is what was there; the rest is read to its place.       *)
Store(octets) ==
    IF Len(sec) < Header
    THEN {[i \in 1..Len(sec) + Len(octets) |->
             IF i <= Len(octets) THEN octets[i] ELSE IF i <= Len(sec) THEN sec[i] ELSE old] : old \in Stale}
    ELSE {sec \o octets}

ReadPacket ==
    /\ pc = "get" /\ call # NoCall
    /\ \E fresh \in Received(Missing) :
         LET r == ReadAhead(Missing, fresh)
             n == call.n - Len(call.got)
         IN  /\ down' = Rest(Len(fresh), down)
             /\ ahead' = r.rest
             /\ torn' = (torn \/ (Len(sec) \in 1..Header - 1 /\ r.out # <<>>))
             /\ IF r.out = <<>> THEN Nothing /\ UNCHANGED <<sec, plain, ber, read>>
                ELSE \E s \in Store(r.out) :
                       LET p == Cipher(Rest(Header, s))
                       IN  IF ~Whole(s) THEN sec' = s /\ UNCHANGED <<pc, plain, call, ber, read>>
                           ELSE /\ sec' = <<>>
                                /\ IF torn' THEN Return("down") /\ UNCHANGED <<plain, ber, read>>
                                   ELSE plain' = Rest(n, p) /\ GotOctets(call.got \o First(n, p))
    /\ UNCHANGED <<mode, writer, closed, answered>>

-----------------------------------------------------------------------------
Client ==
    \/ Wait
    \/ \E n \in 1..Len(out) : WriteSome(n)
    \/ \E n \in 0..Header + Len(out) + Len(pkt) : WriteSecure(n)
    \/ WriteFails \/ WouldBlock
    \/ ReadPlain
    \/ ReadSecure
    \/ ReadPacket

Next ==
    \/ Client
    \/ Select
    \/ Timeout
    \/ \E r \in Requests : Flush(r)
    \/ \E r \in Replies : Reply(r)
    \/ ServerCloses

(* The application keeps waiting, what is under way arrives, and select    *)
(* reports it some time although waits may time out first.                 *)
Spec ==
    /\ Init /\ [][Next]_vars
    /\ WF_vars(Client) /\ SF_vars(Select) /\ SF_vars(Client /\ down' # down)

-----------------------------------------------------------------------------
(* Every variable has its type; what a layer buffers is octets. *)
Octets == Seq(0..255)
TypeOK ==
    /\ mode \in Modes /\ pc \in {"idle", "flush", "select", "get", "down"}
    /\ \A s \in {out, pkt, up, down, ahead, sec, plain, call.got, ber.buf} : s \in Octets
    /\ call.n \in Nat /\ closed \in BOOLEAN
    /\ ber.at \in {"tag", "more", "lenbyte", "len", "value", "range"} /\ ber.left \in Nat

(* However the octets come in, what ber_get_next returned are the elements *)
(* the server sent, in order, with their contents, and with their tags     *)
(* where these have one octet (io.c lines 404 to 602: "can safely be       *)
(* called multiple times for the same packet").                            *)
ReaderExact ==
    /\ Len(read) <= Len(answered)
    /\ \A i \in DOMAIN read : /\ read[i].body = answered[i].body
                              /\ Len(answered[i].tag) = 1 => read[i].tag = answered[i].tag[1]

(* What reaches the server is the requests, octet for octet, however often *)
(* a write was cut short (io.c lines 225 to 243); of one that was given up *)
(* its first octets do, and the next one follows these.                    *)
WriterExact == IsPrefix(Arrived, FlattenSeq(asked))
=============================================================================
