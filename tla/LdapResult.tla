----------------------------- MODULE LdapResult -----------------------------
(***************************************************************************)
(* One LDAP session over its default connection: sending requests, waiting *)
(* for results with ldap_result, abandoning operations, unbinding          *)
(* (request.c, result.c, abandon.c, unbind.c of libldap).  The session     *)
(* follows no referrals (LDAP_OPT_REFERRALS is off, or the server returns  *)
(* none); LdapReferrals models a session that does.                        *)
(*                                                                         *)
(* libldap is single threaded: the application calls it, and only a call   *)
(* of ldap_result reads from the connection.  The concurrency is that of   *)
(* the application's calls with the server and the network.                *)
(***************************************************************************)
EXTENDS ResponseList, FiniteSets

CONSTANTS
    MaxMsgid,     \* bound: the last message id the session draws
    MaxReplies,   \* bound: non-final responses per operation
    Version,      \* ld_version: 2 or 3
    Kinds,        \* the operations the application starts
    Asked         \* what it passes to ldap_result as msgid (ids, RES_ANY, 0)

MsgIds == 1..MaxMsgid

ASSUME BoundsAssumption   == MaxMsgid \in Nat \ {0} /\ MaxReplies \in Nat
ASSUME VersionAssumption  == Version \in {2, 3}
ASSUME KindsAssumption    == Kinds \subseteq {"search", "other"}
ASSUME AskedAssumption    == Asked \subseteq MsgIds \cup {RES_ANY, RES_UNSOLICITED}

VARIABLES
    ld_msgid,     \* the last message id drawn
    requests,     \* ld_requests: the ids of the requests in progress
    refcnt,       \* lconn_refcnt of the default connection
    queue, chain, \* ld_responses, as in ResponseList
    abandoned,    \* ld_abandoned, as in ResponseList
    call,         \* the call of ldap_result in progress, or NoCall
    session,      \* "open", or "closed" by ldap_unbind
    wire,         \* responses on their way from the server
    server,       \* what the server is doing: "up" or "down"
    ops,          \* per id: the operation the application started
    sent,         \* history: non-final responses the server sent, per id
    finished,     \* history: the ids whose final response was sent
    delivered,    \* history: positions of the responses handed out, per id
    aborted       \* history: ids whose ldap_abandon returned LDAP_SUCCESS

client == <<ld_msgid, requests, refcnt, queue, chain, abandoned>>
env    == <<wire, server, sent, finished>>
vars   == <<client, call, session, env, ops, delivered, aborted>>

Message == [id : MsgIds \cup {0}, type : MsgTypes, n : Nat, ref : BOOLEAN]

(* pc is where wait4msg is: about to look through ld_responses, or in      *)
(* select; timed says whether the caller passed a timeout.                 *)
Calls  == [msgid : Asked, one : BOOLEAN, timed : BOOLEAN, pc : {"check", "select"}]
NoCall == [pc |-> "none"]

Init ==
    /\ ld_msgid = 0 /\ requests = {}
    /\ refcnt = 1                       \* ldap_open_defconn holds one
    /\ queue = <<>> /\ chain = [id \in MsgIds |-> <<>>]
    /\ abandoned = [id \in MsgIds |-> 0]
    /\ call = NoCall /\ session = "open"
    /\ wire = <<>> /\ server = "up"
    /\ ops = [id \in MsgIds |-> "none"]
    /\ sent = [id \in MsgIds |-> 0] /\ finished = {}
    /\ delivered = [id \in MsgIds |-> <<>>]
    /\ aborted = {}

Idle == call = NoCall /\ session = "open"

-----------------------------------------------------------------------------
(* A request: an encoder draws the next message id and                     *)
(* ldap_send_server_request links the LDAPRequest, takes a reference to    *)
(* the connection and writes.  When ber_flush fails, which takes a broken  *)
(* connection, both are released again and the caller gets -1.             *)
Send(kind) ==
    /\ Idle /\ ld_msgid < MaxMsgid
    /\ ld_msgid' = ld_msgid + 1
    /\ \/ /\ requests' = requests \cup {ld_msgid'}
          /\ refcnt' = refcnt + 1
          /\ ops' = [ops EXCEPT ![ld_msgid'] = kind]
       \/ /\ server = "down"
          /\ UNCHANGED <<requests, refcnt, ops>>
    /\ UNCHANGED <<queue, chain, abandoned, call, session, env, delivered, aborted>>

(* ldap_result: chkResponseList, and wait4msg when it finds nothing. *)
ResultCall(msgid, one, timed) ==
    /\ Idle
    /\ call' = [msgid |-> msgid, one |-> one, timed |-> timed, pc |-> "check"]
    /\ UNCHANGED <<client, session, env, ops, delivered, aborted>>

Positions(ms) == [i \in DOMAIN ms |-> ms[i].n]
Hand(id, ms) == delivered' = [delivered EXCEPT ![id] = @ \o Positions(ms)]

(* The look through ld_responses, in ldap_result and at the top of every   *)
(* turn of wait4msg.                                                       *)
Purge(purged) ==
    /\ abandoned' = [id \in MsgIds |-> abandoned[id] - (IF id \in purged THEN 1 ELSE 0)]

TakeFrom(id, purged) ==
    LET left == Left(chain[id], call.one)
    IN  /\ chain' = [i \in MsgIds |-> IF i = id THEN left
                                      ELSE IF i \in purged THEN <<>> ELSE chain[i]]
        /\ queue' = IF left = <<>> THEN Unlinked(Discard(queue, purged), id)
                                    ELSE Discard(queue, purged)
        /\ Hand(id, Taken(chain[id], call.one))
        /\ call' = NoCall

FindNothing(purged) ==
    /\ chain' = [i \in MsgIds |-> IF i \in purged THEN <<>> ELSE chain[i]]
    /\ queue' = Discard(queue, purged)
    /\ call' = [call EXCEPT !.pc = "select"]
    /\ UNCHANGED delivered

Check ==
    /\ call.pc = "check"
    /\ LET purged == Purged(queue, abandoned, call.msgid)
           found  == ChkResponseList(queue, chain, abandoned, call.msgid, call.one)
       IN  /\ Purge(purged)
           /\ IF found # 0 THEN TakeFrom(found, purged) ELSE FindNothing(purged)
    /\ UNCHANGED <<ld_msgid, requests, refcnt, session, env, ops, aborted>>

-----------------------------------------------------------------------------
(* try_read1msg. *)

(* A version 3 reference, or a result that is a referral, which is not     *)
(* chased (v3ref = -1): it goes to the application and the request stays.  *)
Unchased(m) == Version = 3 /\ (m.type = "reference" \/ m.ref)

Completes(m) == m.type # "entry" /\ ~Unchased(m)

(* Mutant: a caller for any message is not the one looked for. *)
DirectMut(m) ==
    /\ call.msgid = m.id
    /\ call.one \/ m.type \notin {"result", "entry", "reference"}

(* The message is handed to the caller at once. *)
Direct(m) ==
    /\ call.msgid \in {RES_ANY, m.id}
    /\ call.one \/ m.type \notin {"result", "entry", "reference"}

(* It ends the search the caller waits for: the chain is handed out. *)
EndsSearch(m) ==
    call.msgid \in {RES_ANY, m.id} /\ ~call.one /\ m.type = "result"

(* Mutant: neither the list of abandoned ids nor that of requests counts. *)
WantedMut(m) == m.id # 0

(* Unsolicited messages and those of no request, or of an abandoned one,   *)
(* are tossed.                                                             *)
Wanted(m) == m.id \in requests /\ abandoned[m.id] = 0

Toss(m) ==
    /\ ~Wanted(m)
    /\ UNCHANGED <<requests, refcnt, queue, chain, delivered>>

Release(m) ==
    IF Completes(m) THEN requests' = requests \ {m.id} /\ refcnt' = refcnt - 1
                    ELSE UNCHANGED <<requests, refcnt>>

HandOver(m) ==
    /\ Wanted(m) /\ Direct(m)
    /\ Release(m)
    /\ Hand(m.id, <<m>>)
    /\ UNCHANGED <<queue, chain>>

HandChain(m) ==
    /\ Wanted(m) /\ EndsSearch(m)
    /\ Release(m)
    /\ Hand(m.id, Chained(chain[m.id], m))
    /\ chain' = [chain EXCEPT ![m.id] = <<>>]
    /\ queue' = Unlinked(queue, m.id)

Enqueue(m) ==
    /\ Wanted(m) /\ ~Direct(m) /\ ~EndsSearch(m)
    /\ Release(m)
    /\ chain' = [chain EXCEPT ![m.id] = Chained(@, m)]
    /\ queue' = Queued(queue, m.id)
    /\ UNCHANGED delivered

(* After a message that was not for the caller wait4msg looks at the clock:*)
(* a caller with a timeout may be out of time (return 0), otherwise it     *)
(* goes around.                                                            *)
GoOn == \/ call' = [call EXCEPT !.pc = "check"]
        \/ call.timed /\ call' = NoCall

Read ==
    /\ call.pc = "select" /\ wire # <<>>
    /\ wire' = Tail(wire)
    /\ LET m == Head(wire)
       IN  \/ (Toss(m) \/ Enqueue(m)) /\ GoOn
           \/ (HandOver(m) \/ HandChain(m)) /\ call' = NoCall
    /\ UNCHANGED <<ld_msgid, abandoned, session, server, ops, sent, finished, aborted>>

(* End of file: try_read1msg returns -1; nothing is released. *)
ReadError ==
    /\ call.pc = "select" /\ wire = <<>> /\ server = "down"
    /\ call' = NoCall
    /\ UNCHANGED <<client, session, env, ops, delivered, aborted>>

(* select returns 0: nothing has arrived in time. *)
Timeout ==
    /\ call.pc = "select" /\ call.timed
    /\ call' = NoCall
    /\ UNCHANGED <<client, session, env, ops, delivered, aborted>>

-----------------------------------------------------------------------------
(* do_abandon of an operation that was started.  If its queued responses   *)
(* are deleted (ldap_msgdelete returns 0) that is all; otherwise an        *)
(* abandon request is written (err when ber_flush fails), the request and  *)
(* its reference are released and the id is remembered.                    *)
DropQueued(id) ==
    /\ chain' = [chain EXCEPT ![id] = <<>>]
    /\ queue' = Unlinked(queue, id)

AbandonQueued(id) ==
    /\ MsgDeleted(chain[id])
    /\ aborted' = aborted \cup {id}
    /\ UNCHANGED <<ld_msgid, requests, refcnt, abandoned>>

(* Mutant: the request is not unlinked. *)
AbandonRunningMut(id) ==
    /\ ~MsgDeleted(chain[id])
    /\ ld_msgid < MaxMsgid /\ ld_msgid' = ld_msgid + 1
    /\ abandoned' = [abandoned EXCEPT ![id] = @ + 1]
    /\ aborted' = aborted \cup {id}
    /\ UNCHANGED <<requests, refcnt>>

AbandonRunning(id) ==
    /\ ~MsgDeleted(chain[id])
    /\ ld_msgid < MaxMsgid /\ ld_msgid' = ld_msgid + 1
    /\ requests' = requests \ {id}
    /\ refcnt' = IF id \in requests THEN refcnt - 1 ELSE refcnt
    /\ abandoned' = [abandoned EXCEPT ![id] = @ + 1]
    /\ \/ aborted' = aborted \cup {id}
       \/ server = "down" /\ UNCHANGED aborted

Abandon(id) ==
    /\ Idle /\ ops[id] # "none"
    /\ DropQueued(id)
    /\ AbandonQueued(id) \/ AbandonRunning(id)
    /\ UNCHANGED <<call, session, env, ops, delivered>>

(* ldap_unbind, ldap_ld_free: requests, connections (with an unbind        *)
(* request), responses and the list of abandoned ids are freed.            *)
Unbind ==
    /\ Idle /\ session' = "closed"
    /\ requests' = {} /\ refcnt' = 0
    /\ queue' = <<>> /\ chain' = [id \in MsgIds |-> <<>>]
    /\ abandoned' = [id \in MsgIds |-> 0]
    /\ wire' = <<>>
    /\ UNCHANGED <<ld_msgid, call, server, ops, sent, finished, delivered, aborted>>

-----------------------------------------------------------------------------
(* The server and the network: external.  Responses of an operation come   *)
(* in order, the final one last.                                           *)
(* Version 2 has neither references, nor referral results, nor partials.   *)
Responses(kind) ==
    IF kind = "search" THEN {"entry"} \cup (IF Version = 3 THEN {"reference"} ELSE {})
    ELSE IF Version = 3 THEN {"partial"} ELSE {}

Running(id) == session = "open" /\ server = "up" /\ ops[id] # "none" /\ id \notin finished

Put(m) == wire' = Append(wire, m)

ServerReply(id, type) ==
    /\ Running(id) /\ sent[id] < MaxReplies /\ type \in Responses(ops[id])
    /\ Put([id |-> id, type |-> type, n |-> sent[id] + 1, ref |-> FALSE])
    /\ sent' = [sent EXCEPT ![id] = @ + 1]
    /\ UNCHANGED <<client, call, session, server, finished, ops, delivered, aborted>>

ServerFinal(id, ref) ==
    /\ Running(id) /\ (ref => Version = 3)
    /\ Put([id |-> id, type |-> IF ops[id] = "search" THEN "result" ELSE "status",
            n |-> sent[id] + 1, ref |-> ref])
    /\ finished' = finished \cup {id}
    /\ UNCHANGED <<client, call, session, server, sent, ops, delivered, aborted>>

(* The notice of disconnection has message id 0; the server then closes. *)
ServerNotice ==
    /\ session = "open" /\ server = "up" /\ server' = "down" /\ Version = 3
    /\ Put([id |-> 0, type |-> "status", n |-> 1, ref |-> FALSE])
    /\ UNCHANGED <<client, call, session, sent, finished, ops, delivered, aborted>>

ServerCrash ==
    /\ session = "open" /\ server = "up" /\ server' = "down"
    /\ UNCHANGED <<client, call, session, wire, sent, finished, ops, delivered, aborted>>

-----------------------------------------------------------------------------
Library == Check \/ Read \/ ReadError \/ Timeout

Next ==
    \/ \E kind \in Kinds : Send(kind)
    \/ \E msgid \in Asked, one, timed \in BOOLEAN : ResultCall(msgid, one, timed)
    \/ Library
    \/ \E id \in MsgIds : Abandon(id)
    \/ Unbind
    \/ \E id \in MsgIds, type \in MsgTypes : ServerReply(id, type)
    \/ \E id \in MsgIds, ref \in BOOLEAN : ServerFinal(id, ref)
    \/ ServerNotice
    \/ ServerCrash

Spec == Init /\ [][Next]_vars

(* The wait loop of ldap_result runs until it returns, the server is       *)
(* assumed to answer every request that is not abandoned.                  *)
Answer(id) == id \in requests /\ \E ref \in BOOLEAN : ServerFinal(id, ref)

Fairness ==
    /\ WF_vars(Check) /\ WF_vars(Read) /\ WF_vars(ReadError)
    /\ \A id \in MsgIds : WF_vars(Answer(id))

FairSpec == Spec /\ Fairness

-----------------------------------------------------------------------------
(* Type invariant of the session. *)
TypeOK ==
    /\ ld_msgid \in 0..MaxMsgid
    /\ requests \subseteq MsgIds
    /\ refcnt \in Int
    /\ queue \in Seq(MsgIds)
    /\ chain \in [MsgIds -> Seq(Message)]
    /\ abandoned \in [MsgIds -> Nat]
    /\ call \in Calls \cup {NoCall}
    /\ session \in {"open", "closed"}
    /\ wire \in Seq(Message)
    /\ server \in {"up", "down"}
    /\ ops \in [MsgIds -> {"none", "search", "other"}]
    /\ sent \in [MsgIds -> Nat]
    /\ finished \subseteq MsgIds
    /\ delivered \in [MsgIds -> Seq(Nat)]
    /\ aborted \subseteq MsgIds

(* The messages of ms with that id, in their order. *)
InOrder(id, ms) ==
    LET at     == {i \in DOMAIN ms : ms[i].id = id}
        nth(k) == CHOOSE i \in at : Cardinality({j \in at : j <= i}) = k
    IN  [k \in 1..Cardinality(at) |-> ms[nth(k)]]

Got(id) == delivered[id] \o Positions(chain[id])

(* Whatever mix of calls the application makes (one message or all, one    *)
(* operation or any, with and without a timeout), what it got of an        *)
(* operation it did not abandon, what is queued and what is on its way are *)
(* together all the server sent, in the server's order, nothing lost and   *)
(* nothing twice.  Of an operation that has partial responses it gets the  *)
(* first, never less: the request ends with it, and what follows is        *)
(* tossed.                                                                 *)
StreamIntact ==
    session = "open" =>
        \A id \in MsgIds :
            \/ id \in aborted \/ abandoned[id] > 0
            \/ ops[id] = "other" /\ sent[id] > 0 /\ Got(id) = <<1>>
            \/ Got(id) \o Positions(InOrder(id, wire))
                 = [i \in 1..(sent[id] + (IF id \in finished THEN 1 ELSE 0)) |-> i]

(* ld_responses lists every operation that has queued responses, once. *)
QueueExact ==
    /\ \A i, j \in DOMAIN queue : queue[i] = queue[j] => i = j
    /\ \A id \in MsgIds : Contains(queue, id) <=> chain[id] # <<>>

(* An id in ld_abandoned has no request and no queued response: the purge  *)
(* in chkResponseList never has anything to do for a session that chases   *)
(* no referrals, and ids are never reused for a new request.               *)
AbandonedOutOfReach ==
    \A id \in MsgIds : abandoned[id] > 0 =>
        /\ id \notin requests /\ chain[id] = <<>> /\ id <= ld_msgid

(* The reference count of the default connection is one for the session    *)
(* and one per request: every path that unlinks an LDAPRequest (its last   *)
(* response, an abandon, a failed write) releases it exactly once.         *)
RefcntExact ==
    session = "open" => refcnt = 1 + Cardinality(requests)

(* No step hands out a response of an operation whose id is in             *)
(* ld_abandoned.                                                           *)
AbandonedQuiet ==
    [][\A id \in MsgIds : abandoned[id] > 0 => delivered'[id] = delivered[id]]_vars

(* With all set, a search response is handed out only in its entirety: its *)
(* final response is the last of what is handed out, and nothing of it     *)
(* stays queued.                                                           *)
AllIsWhole ==
    [][\A id \in MsgIds :
        ops[id] = "search" /\ delivered'[id] # delivered[id] /\ ~call.one =>
            /\ id \in finished /\ chain'[id] = <<>>
            /\ delivered'[id][Len(delivered'[id])] = sent[id] + 1]_vars

(* A call of ldap_result that returns 0 leaves nothing behind in           *)
(* ld_responses that it would have accepted.                               *)
TimeoutMissesNothing ==
    [][call # NoCall /\ call' = NoCall /\ delivered' = delivered =>
        ChkResponseList(queue', chain', abandoned', call.msgid, call.one) = 0]_vars

(* A caller that waits for an operation whose final response it has not    *)
(* got, and which it did not abandon, returns: the server answers or the   *)
(* connection fails.                                                       *)
Awaited ==
    /\ call # NoCall
    /\ call.msgid \in MsgIds \ aborted
    /\ \/ call.msgid \in requests \ finished
       \/ \E i \in DOMAIN chain[call.msgid] : ~NonFinal(chain[call.msgid][i])

WaitEnds == Awaited ~> (call = NoCall)

(* What each operation's responses look like to the application: a stream  *)
(* of those sent and not yet handed out, until the operation is gone.      *)
Gone == IF session = "closed" THEN MsgIds
        ELSE aborted \cup {id \in MsgIds : abandoned[id] > 0}

Box == [id \in MsgIds |->
          IF id \in Gone THEN <<>>
          ELSE Positions(chain[id]) \o Positions(InOrder(id, wire))]

Stream == INSTANCE ResponseStream WITH
    Ops <- MsgIds, gone <- Gone, box <- Box, handed <- delivered

StreamSpec == Stream!Spec
=============================================================================
