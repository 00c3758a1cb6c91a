--------------------------- MODULE LdapReferrals ---------------------------
(***************************************************************************)
(* A session of libldap that chases referrals and search references        *)
(* (request.c, result.c, abandon.c, unbind.c): the tree of requests that   *)
(* grows under each operation with its counts of outstanding referrals,    *)
(* and the table of connections with their reference counts, the           *)
(* synchronous bind on a new connection and the references that are queued *)
(* while that bind is in progress.                                         *)
(*                                                                         *)
(* The library is single threaded.  It chases inside try_read1msg, and the *)
(* bind on a new connection waits in a nested call of ldap_result, which   *)
(* reads, and chases, the messages of every other connection: "stack"      *)
(* holds the chases in progress, the innermost first.                      *)
(***************************************************************************)
EXTENDS Integers, Sequences, FiniteSets

CONSTANTS
    Servers,      \* the servers requests are sent to
    Default,      \* the server of ld_defconn
    RefLists,     \* the lists of servers a referral or a reference names
    Versions,     \* the values of ld_version
    HopLimit,     \* ld_refhoplimit
    MaxMsgid,     \* bound: the last message id the session draws
    MaxRoots,     \* bound: the operations the application starts
    MaxRefs,      \* bound: the referrals and references the servers send
    MaxFaults     \* bound: failed connects and binds, broken connections

Ids == 1..MaxMsgid

ASSUME ServersAssumption  == IsFiniteSet(Servers) /\ Default \in Servers
ASSUME RefListsAssumption == RefLists \subseteq Seq(Servers) \ {<<>>}
ASSUME VersionsAssumption == Versions \subseteq {2, 3}
ASSUME BoundsAssumption   == /\ HopLimit \in Nat /\ MaxMsgid \in Nat \ {0} /\ MaxRoots \in Nat
                             /\ MaxRefs \in Nat /\ MaxFaults \in Nat

VARIABLES
    ld_version,
    ld_msgid,     \* the last message id drawn
    req,          \* ld_requests: the LDAPRequest of each id
    conn,         \* ld_conns: the LDAPConn of each server
    stack,        \* the chases in progress
    abandoned,    \* ld_abandoned
    unread,       \* ld_responses: the ids that have messages there
    session,      \* "open", "closed" by ldap_unbind, or "undefined"
    asked,        \* per server: what it has received and not yet answered
    refsLeft,     \* the referrals and references still to be sent
    faults,       \* history: the faults so far, each "connect", "bind" or "read"
    finals,       \* history: final messages made for the application, per id
    strayed,      \* history: operations whose queued list another one chased
    left,         \* history: operations whose queued list was left where it is
    moved,        \* history: requests that ended in a referral, chased or passed on
    moved3,       \* history: those of them whose referral was one of LDAPv3
    styles,       \* history: the kinds of referrals received, 2 and 3
    ops,          \* history: the operations the application started
    aborted       \* history: those it abandoned

vars == <<ld_version, ld_msgid, req, conn, stack, abandoned, unread, session,
          asked, refsLeft, faults, finals, strayed, left, moved, moved3, styles, ops, aborted>>

(* An LDAPRequest: lr_status, lr_outrefcnt, lr_parentcnt, lr_parent,       *)
(* lr_origid, the server of lr_conn, and what was requested.               *)
Request == [st : {"free", "inprogress", "chasing", "completed"}, out : Int, hops : Nat,
            parent : Ids \cup {0}, orig : Ids \cup {0}, conn : Servers, kind : {"op", "bind"}]
NoRequest == [st |-> "free", out |-> 0, hops |-> 0, parent |-> 0, orig |-> 0,
              conn |-> Default, kind |-> "op"]

Root(id, s, kind) == [NoRequest EXCEPT !.st = "inprogress", !.orig = id, !.conn = s, !.kind = kind]
Child(p, s) ==
    [NoRequest EXCEPT !.st = "inprogress", !.hops = req[p].hops + 1, !.parent = p,
                      !.orig = req[p].orig, !.conn = s]

(* An LDAPConn: lconn_refcnt, lconn_rebind_inprogress, lconn_rebind_queue. *)
QueuedList == [refs : RefLists, op : Ids]    \* op: whose list it is (history)
Connection == [open : BOOLEAN, refcnt : Int, rebinding : BOOLEAN, queue : Seq(QueuedList),
               broken : BOOLEAN]
NoConnection == [open |-> FALSE, refcnt |-> 0, rebinding |-> FALSE, queue |-> <<>>,
                 broken |-> FALSE]

(* A call of ldap_chase_v3referrals, or of ldap_chase_referrals for the    *)
(* referrals of LDAPv2, which are in the error string of a result and may  *)
(* come in a session of version 3 as well: the request lr, whether the     *)
(* message is its final one, the list of URLs and the one it is at; then   *)
(* the id of the request it is about to send and that of the bind it waits *)
(* for.                                                                    *)
Chase == [lr : Ids, v3 : BOOLEAN, final : BOOLEAN, refs : RefLists, i : Nat \ {0},
          st : {"next", "wait", "bound", "refused", "followed"}, new : Nat, bind : Nat]

Init ==
    /\ ld_version \in Versions
    /\ ld_msgid = 0 /\ req = [id \in Ids |-> NoRequest]
    /\ conn = [s \in Servers |-> IF s = Default THEN [NoConnection EXCEPT !.open = TRUE, !.refcnt = 1]
                                 ELSE NoConnection]
    /\ stack = <<>> /\ abandoned = {} /\ unread = {} /\ session = "open"
    /\ asked = [s \in Servers |-> {}] /\ refsLeft = MaxRefs /\ faults = <<>>
    /\ finals = [id \in Ids |-> 0] /\ strayed = {} /\ left = {} /\ moved = {} /\ moved3 = {}
    /\ styles = {} /\ ops = {} /\ aborted = {}

Live(id) == req[id].st # "free"
Family(root) == {id \in Ids : Live(id) /\ req[id].orig = root}
Children(p) == {id \in Ids : Live(id) /\ req[id].parent = p}

Idle == session = "open" /\ stack = <<>>
Top == Head(stack)

-----------------------------------------------------------------------------
(* ldap_free_connection: the count goes down by n, at zero the connection  *)
(* is closed and what it carries is gone.                                  *)
(* Mutant: the last but one user closes it. *)
DroppedMut(cs, s, n) ==
    IF cs[s].refcnt - n <= 1 THEN [cs EXCEPT ![s] = NoConnection]
    ELSE [cs EXCEPT ![s].refcnt = @ - n]

Dropped(cs, s, n) ==
    IF cs[s].refcnt - n <= 0 THEN [cs EXCEPT ![s] = NoConnection]
    ELSE [cs EXCEPT ![s].refcnt = @ - n]

StillAsked(cs) == [s \in Servers |-> IF cs[s].open THEN asked[s] ELSE {}]

(* An operation of the application, on the default connection.  (What     *)
(* becomes of a write that fails is in LdapResult.)                        *)
Send ==
    /\ Idle /\ ld_msgid < MaxMsgid /\ Cardinality(ops) < MaxRoots
    /\ ~conn[Default].broken
    /\ ld_msgid' = ld_msgid + 1
    /\ req' = [req EXCEPT ![ld_msgid'] = Root(ld_msgid', Default, "op")]
    /\ conn' = [conn EXCEPT ![Default].refcnt = @ + 1]
    /\ asked' = [asked EXCEPT ![Default] = @ \cup {ld_msgid'}]
    /\ ops' = ops \cup {ld_msgid'}
    /\ UNCHANGED <<ld_version, stack, abandoned, unread, session, refsLeft, faults,
                   finals, strayed, left, moved, moved3, styles, aborted>>

-----------------------------------------------------------------------------
(* The end of a request whose result is not chased (the second half of     *)
(* try_read1msg).  Its parent has one referral less outstanding, and if    *)
(* that was its last, so has the parent's parent.                          *)
Above[id \in Ids] ==
    IF req[id].parent = 0 THEN {} ELSE {req[id].parent} \cup Above[req[id].parent]

(* Mutant: the walk stops at the parent. *)
CountedDownMut(lr) == IF req[lr].parent = 0 THEN {} ELSE {req[lr].parent}

(* Ids grow from parent to child. *)
CountedDown(lr) ==
    {a \in Above[lr] : \A b \in Above[lr] : b > a => req[b].out <= 1}

Reached(lr) == CHOOSE a \in CountedDown(lr) \cup {lr} :
                   \A b \in CountedDown(lr) \cup {lr} : a <= b

Ended(lr) ==
    [id \in Ids |->
        IF id = lr THEN [req[id] EXCEPT !.st = "completed"]
        ELSE IF id \in CountedDown(lr) THEN [req[id] EXCEPT !.out = @ - 1] ELSE req[id]]

(* "Check if all requests are finished": the count of the root and the     *)
(* status of everything under it.                                          *)
AllDone(r, top) ==
    /\ r[top].parent = 0 /\ r[top].out <= 0
    /\ \A id \in Family(top) : r[id].st = "completed"

(* Mutant: the children stay. *)
FreedMut(r, root) == [r EXCEPT ![root] = NoRequest]

Freed(r, root) == [id \in Ids |-> IF id \in Family(root) THEN NoRequest ELSE r[id]]

(* A message for the application: returned at once to a caller that waits  *)
(* for it, or put into ld_responses.  A nested call waits for its bind.    *)
Deliver(id) ==
    \/ unread' = unread \cup {id}
    \/ stack' = <<>> /\ unread' = unread

Finish(lr) ==
    LET r    == Ended(lr)
        top  == Reached(lr)
        done == AllDone(r, top)
        cs   == Dropped(conn, req[lr].conn, 1)
    IN  /\ req' = IF done THEN Freed(r, top) ELSE r
        /\ IF done /\ req[top].kind = "op"
           THEN finals' = [finals EXCEPT ![top] = @ + 1] /\ Deliver(top)
           ELSE UNCHANGED <<finals, unread>>
        /\ conn' = cs
        /\ asked' = [StillAsked(cs) EXCEPT ![req[lr].conn] = @ \ {lr}]

-----------------------------------------------------------------------------
(* Reading: the application is in ldap_result, or the innermost chase is   *)
(* in it, waiting for its bind.  The servers' answers are chosen when they *)
(* are read; those of abandoned or forgotten requests are tossed.          *)
Reading == session = "open" /\ (stack # <<>> => Top.st = "wait")

Answers(id) ==
    /\ Reading /\ Live(id) /\ id \notin abandoned
    /\ id \in asked[req[id].conn]

(* A result that is no referral. *)
ReadResult(id) ==
    /\ Answers(id) /\ req[id].kind = "op"
    /\ stack' = stack
    /\ Finish(id)
    /\ UNCHANGED <<ld_version, ld_msgid, abandoned, session, refsLeft, faults,
                   strayed, left, moved, moved3, styles, ops, aborted>>

(* The result of a bind: what the chase that sent it waits for. *)
ReadBind(id, ok) ==
    /\ Answers(id) /\ req[id].kind = "bind"
    /\ ok \/ Len(faults) < MaxFaults
    /\ faults' = IF ok THEN faults ELSE Append(faults, "bind")
    /\ stack' = [k \in DOMAIN stack |->
                    IF stack[k].bind = id
                    THEN [stack[k] EXCEPT !.st = IF ok THEN "bound" ELSE "refused"] ELSE stack[k]]
    /\ Finish(id)
    /\ UNCHANGED <<ld_version, ld_msgid, abandoned, session, refsLeft, strayed, left, moved, moved3, styles, ops, aborted>>

(* A result that is a referral, of LDAPv3 or in the error string, or a     *)
(* search reference: the chase begins.  Beyond the hop limit nothing is    *)
(* followed.                                                               *)
ReadRefs(id, refs, v3, final) ==
    /\ Answers(id) /\ req[id].kind = "op" /\ refsLeft > 0
    /\ v3 => ld_version = 3
    /\ v3 \/ final
    /\ refsLeft' = refsLeft - 1 /\ styles' = styles \cup {IF v3 THEN 3 ELSE 2}
    /\ asked' = IF final THEN [asked EXCEPT ![req[id].conn] = @ \ {id}] ELSE asked
    /\ stack' = <<[lr |-> id, v3 |-> v3, final |-> final, refs |-> refs,
                   i |-> IF req[id].hops >= HopLimit THEN Len(refs) + 1 ELSE 1,
                   st |-> "next", new |-> 0, bind |-> 0]>> \o stack
    /\ UNCHANGED <<ld_version, ld_msgid, req, conn, abandoned, unread, session, faults,
                   finals, strayed, left, moved, moved3, ops, aborted>>

(* The read fails: a nested ldap_result returns -1 and its bind with it;   *)
(* the bind's request stays where it is.                                   *)
ReadError ==
    /\ Reading /\ stack # <<>>
    /\ \E s \in Servers : conn[s].open /\ conn[s].broken
    /\ stack' = [stack EXCEPT ![1].st = "refused"]
    /\ UNCHANGED <<ld_version, ld_msgid, req, conn, abandoned, unread, session, asked,
                   refsLeft, faults, finals, strayed, left, moved, moved3, styles, ops, aborted>>

-----------------------------------------------------------------------------
(* A chase looks at its next URL.                                          *)
AtUrl(s) ==
    /\ session = "open" /\ stack # <<>> /\ Top.st = "next"
    /\ Top.i <= Len(Top.refs) /\ s = Top.refs[Top.i]

TopBecomes(f) == stack' = <<f>> \o Tail(stack)

(* A referral of LDAPv3 is sent for the operation, one of LDAPv2 for the   *)
(* request.                                                                *)
Parent(f) == IF f.v3 THEN req[f.lr].orig ELSE f.lr

(* "We must queue referrals on that connection, so we don't get a request  *)
(* going out before the bind operation completes."  Nobody looks at that   *)
(* for the referrals of LDAPv2.                                            *)
MustQueue(s) == Top.v3 /\ conn[s].rebinding

(* Mutant: "Pretend we already followed referral" is missing. *)
QueuedMut(f) == [f EXCEPT !.i = Len(f.refs) + 1]

Queued(f) == [f EXCEPT !.st = "followed"]

QueueOn(s) ==
    /\ AtUrl(s) /\ conn[s].open /\ MustQueue(s)
    /\ conn' = [conn EXCEPT ![s].queue = Append(@, [refs |-> Top.refs, op |-> req[Top.lr].orig])]
    /\ TopBecomes(Queued(Top))
    /\ UNCHANGED <<ld_version, ld_msgid, req, abandoned, unread, session, asked, refsLeft,
                   faults, finals, strayed, left, moved, moved3, styles, ops, aborted>>

(* Mutant: the queue is not looked at. *)
TakesUpMut(f, q) == FALSE

(* After a URL was followed, a chase of LDAPv3's takes up the list queued  *)
(* last on that connection.                                                *)
TakesUp(f, q) == f.v3 /\ q # <<>>

Pull(f, q) ==
    IF TakesUp(f, q) THEN [f EXCEPT !.refs = q[Len(q)].refs, !.i = 1, !.st = "next"]
    ELSE [f EXCEPT !.st = "followed"]

Pulled(f, q) == IF TakesUp(f, q) THEN SubSeq(q, 1, Len(q) - 1) ELSE q

Stray(q) ==
    strayed' = IF TakesUp(Top, q) /\ q[Len(q)].op # req[Top.lr].orig
               THEN strayed \cup {q[Len(q)].op} ELSE strayed

(* A bind for a referral of LDAPv2 leaves what is queued there.            *)
Leave(q) ==
    left' = IF Top.v3 THEN left ELSE left \cup {q[j].op : j \in DOMAIN q}

(* On a connection that is there. *)
SendOn(s) ==
    /\ AtUrl(s) /\ conn[s].open /\ ~conn[s].broken /\ ~MustQueue(s) /\ ld_msgid < MaxMsgid
    /\ ld_msgid' = ld_msgid + 1
    /\ LET p == Parent(Top)
       IN  req' = [req EXCEPT ![p].out = @ + 1, ![ld_msgid'] = Child(p, s)]
    /\ conn' = [conn EXCEPT ![s].refcnt = @ + 1, ![s].queue = Pulled(Top, @)]
    /\ asked' = [asked EXCEPT ![s] = @ \cup {ld_msgid'}]
    /\ TopBecomes(Pull(Top, conn[s].queue)) /\ Stray(conn[s].queue)
    /\ UNCHANGED <<ld_version, abandoned, unread, session, refsLeft, faults, finals,
                   left, moved, moved3, styles, ops, aborted>>

Counted(r, p) == [r EXCEPT ![p].out = @ + 1]

(* ldap_new_connection: the bind is remembered in the parent's count and   *)
(* sent; the connection is held once for it and once for the bind.         *)
Reconnect(s) ==
    /\ AtUrl(s) /\ ~conn[s].open /\ ld_msgid + 1 < MaxMsgid
    /\ ld_msgid' = ld_msgid + 2
    /\ req' = [Counted(req, Parent(Top)) EXCEPT ![ld_msgid'] = Root(ld_msgid', s, "bind")]
    /\ conn' = [conn EXCEPT ![s] = [NoConnection EXCEPT !.open = TRUE, !.refcnt = 2, !.rebinding = TRUE]]
    /\ asked' = [asked EXCEPT ![s] = {ld_msgid'}]
    /\ TopBecomes([Top EXCEPT !.st = "wait", !.new = ld_msgid + 1, !.bind = ld_msgid'])
    /\ UNCHANGED <<ld_version, abandoned, unread, session, refsLeft, faults, finals, strayed, left, moved, moved3, styles, ops, aborted>>

ConnectFails(s) ==
    /\ AtUrl(s) /\ ~conn[s].open /\ ld_msgid < MaxMsgid /\ Len(faults) < MaxFaults
    /\ ld_msgid' = ld_msgid + 1 /\ faults' = Append(faults, "connect")
    /\ TopBecomes([Top EXCEPT !.i = @ + 1])
    /\ UNCHANGED <<ld_version, req, conn, abandoned, unread, session, asked, refsLeft,
                   finals, strayed, left, moved, moved3, styles, ops, aborted>>

Binding(s, st) ==
    /\ session = "open" /\ stack # <<>> /\ Top.st = st /\ s = Top.refs[Top.i]

(* The bind succeeded: the chase's own hold on the connection passes to    *)
(* the child it now sends.                                                 *)
Bound(s) ==
    /\ Binding(s, "bound") /\ ~conn[s].broken
    /\ req' = [req EXCEPT ![Top.new] = Child(Parent(Top), s)]
    /\ conn' = [conn EXCEPT ![s].rebinding = FALSE, ![s].queue = Pulled(Top, @)]
    /\ asked' = [asked EXCEPT ![s] = @ \cup {Top.new}]
    /\ TopBecomes(Pull(Top, conn[s].queue)) /\ Stray(conn[s].queue) /\ Leave(conn[s].queue)
    /\ UNCHANGED <<ld_version, ld_msgid, abandoned, unread, session, refsLeft, faults,
                   finals, moved, moved3, styles, ops, aborted>>

(* Mutant: the bind is not forgotten in the parent's count. *)
ForgetMut(p) == req' = req

Forget(p) == req' = [req EXCEPT ![p].out = @ - 1]

(* The bind failed: the connection is closed, whatever is queued there,    *)
(* and the next URL is tried.                                              *)
Refused(s) ==
    /\ Binding(s, "refused")
    /\ Forget(Parent(Top))
    /\ conn' = [conn EXCEPT ![s] = NoConnection]
    /\ asked' = [asked EXCEPT ![s] = {}]
    /\ TopBecomes([Top EXCEPT !.i = @ + 1, !.st = "next"])
    /\ UNCHANGED <<ld_version, ld_msgid, abandoned, unread, session, refsLeft, faults,
                   finals, strayed, left, moved, moved3, styles, ops, aborted>>

(* The write of a child fails: ldap_free_request leaves it on its parent's *)
(* list, and what is read there later is undefined.                        *)
WriteFails(s) ==
    /\ conn[s].broken
    /\ \/ AtUrl(s) /\ ~MustQueue(s)
       \/ Binding(s, "bound")
    /\ session' = "undefined"
    /\ UNCHANGED <<ld_version, ld_msgid, req, conn, stack, abandoned, unread, asked,
                   refsLeft, faults, finals, strayed, left, moved, moved3, styles, ops, aborted>>

AtEnd(followed) ==
    /\ session = "open" /\ stack # <<>>
    /\ followed = (Top.st = "followed")
    /\ ~followed => Top.st = "next" /\ Top.i > Len(Top.refs)
    /\ stack' = Tail(stack)

(* A search reference: "If haven't got end search, set chasing referrals". *)
Chasing(r) == IF r.st = "completed" THEN r ELSE [r EXCEPT !.st = "chasing"]

(* A request that ends in a referral is complete, and its connection is    *)
(* not released.                                                           *)
Move(f) ==
    /\ req' = [req EXCEPT ![f.lr].st = "completed"]
    /\ moved' = moved \cup {f.lr}
    /\ moved3' = IF f.v3 THEN moved3 \cup {f.lr} ELSE moved3

(* A URL was followed, or the list was queued. *)
Chased ==
    /\ AtEnd(TRUE)
    /\ IF Top.final THEN Move(Top)
       ELSE req' = [req EXCEPT ![Top.lr] = Chasing(@)] /\ UNCHANGED <<moved, moved3>>
    /\ UNCHANGED <<ld_version, ld_msgid, conn, abandoned, unread, session, asked, refsLeft,
                   faults, finals, strayed, left, styles, ops, aborted>>

(* LDAPv3: the message itself goes to the application, under the id of the *)
(* operation; a result leaves its request completed and listed.            *)
Passed ==
    /\ AtEnd(FALSE) /\ Top.v3
    /\ LET root == req[Top.lr].orig
       IN  /\ Deliver(root)
           /\ finals' = IF Top.final THEN [finals EXCEPT ![root] = @ + 1] ELSE finals
    /\ IF Top.final THEN Move(Top) ELSE UNCHANGED <<req, moved, moved3>>
    /\ UNCHANGED <<ld_version, ld_msgid, conn, abandoned, session, asked, refsLeft,
                   faults, strayed, left, styles, ops, aborted>>

(* LDAPv2: the request ends with the referral as its result. *)
Unfollowed ==
    /\ AtEnd(FALSE) /\ ~Top.v3
    /\ Finish(Top.lr)
    /\ UNCHANGED <<ld_version, ld_msgid, abandoned, session, refsLeft, faults, strayed, left, moved, moved3, styles, ops, aborted>>

-----------------------------------------------------------------------------
(* The application takes what is queued for an operation. *)
Take(id) ==
    /\ Idle /\ id \in unread /\ unread' = unread \ {id}
    /\ UNCHANGED <<ld_version, ld_msgid, req, conn, stack, abandoned, session, asked, refsLeft,
                   faults, finals, strayed, left, moved, moved3, styles, ops, aborted>>

(* do_abandon, once per operation.  The children first: each is written to *)
(* its server and lets go of its connection if it is in progress, and is   *)
(* remembered.  Then the operation likewise, and everything of it is freed *)
(* - unless its queued messages were dropped and the last of them was no   *)
(* search entry (entries are not modelled).  Abandon requests draw message *)
(* ids too; nothing refers to those.                                       *)
LetGo(ids) ==
    [s \in Servers |->
        LET n == Cardinality({id \in ids : req[id].conn = s /\ req[id].st = "inprogress"})
        IN  IF n = 0 THEN conn[s] ELSE Dropped(conn, s, n)[s]]

Abandon(id) ==
    /\ Idle /\ id \in ops \ aborted
    /\ aborted' = aborted \cup {id}
    /\ unread' = unread \ {id}
    /\ \E dropped \in {FALSE} \cup {id \in unread} :
          LET gone == IF dropped THEN Family(id) \ {id} ELSE Family(id) \cup {id}
              cs   == LetGo(gone)
          IN  /\ conn' = cs
              /\ abandoned' = abandoned \cup gone
              /\ req' = IF dropped THEN req ELSE Freed(req, id)
              /\ asked' = [s \in Servers |-> StillAsked(cs)[s] \ gone]
    /\ UNCHANGED <<ld_version, ld_msgid, stack, session, refsLeft, faults, finals,
                   strayed, left, moved, moved3, styles, ops>>

(* ldap_ld_free: everything is freed and every connection closed.  A child *)
(* is freed before the request on whose list it stays, which frees it      *)
(* again: undefined.                                                       *)
Unbind ==
    /\ Idle
    /\ session' = IF \E id \in Ids : Live(id) /\ req[id].parent # 0 THEN "undefined" ELSE "closed"
    /\ req' = [id \in Ids |-> NoRequest]
    /\ conn' = [s \in Servers |-> NoConnection]
    /\ asked' = [s \in Servers |-> {}]
    /\ abandoned' = {} /\ unread' = {} /\ moved' = {} /\ moved3' = {}
    /\ UNCHANGED <<ld_version, ld_msgid, stack, refsLeft, faults, finals, strayed,
                   left, styles, ops, aborted>>

(* The network: external. *)
Break(s) ==
    /\ session = "open" /\ conn[s].open /\ ~conn[s].broken /\ Len(faults) < MaxFaults
    /\ conn' = [conn EXCEPT ![s].broken = TRUE]
    /\ asked' = [asked EXCEPT ![s] = {}]
    /\ faults' = Append(faults, "read")
    /\ UNCHANGED <<ld_version, ld_msgid, req, stack, abandoned, unread, session, refsLeft,
                   finals, strayed, left, moved, moved3, styles, ops, aborted>>

-----------------------------------------------------------------------------
ChaseStep ==
    \/ \E s \in Servers :
          QueueOn(s) \/ SendOn(s) \/ Reconnect(s) \/ ConnectFails(s) \/ Bound(s) \/ Refused(s)
             \/ WriteFails(s)
    \/ Chased \/ Passed \/ Unfollowed

Next ==
    \/ Send
    \/ \E id \in Ids : ReadResult(id)
    \/ \E id \in Ids, ok \in BOOLEAN : ReadBind(id, ok)
    \/ \E id \in Ids, refs \in RefLists, v3 \in BOOLEAN, final \in BOOLEAN : ReadRefs(id, refs, v3, final)
    \/ ReadError
    \/ ChaseStep
    \/ \E id \in Ids : Take(id) \/ Abandon(id)
    \/ Unbind
    \/ \E s \in Servers : Break(s)

Spec == Init /\ [][Next]_vars

(* The library runs until it has to read, the application keeps calling    *)
(* ldap_result, and the servers answer what they were asked.               *)
Answer == \E id \in Ids : ReadResult(id) \/ \E ok \in BOOLEAN : ReadBind(id, ok)

Fairness == WF_vars(ChaseStep \/ ReadError \/ Answer)

FairSpec == Spec /\ Fairness

-----------------------------------------------------------------------------
(* Type invariant of the request tree and the connection table. *)
TypeOK ==
    /\ ld_version \in Versions /\ ld_msgid \in 0..MaxMsgid
    /\ req \in [Ids -> Request]
    /\ conn \in [Servers -> Connection]
    /\ stack \in Seq(Chase)
    /\ abandoned \subseteq Ids /\ unread \subseteq Ids
    /\ session \in {"open", "closed", "undefined"}
    /\ asked \in [Servers -> SUBSET Ids]
    /\ refsLeft \in 0..MaxRefs /\ faults \in Seq({"connect", "bind", "read"})
    /\ finals \in [Ids -> Nat]
    /\ strayed \subseteq Ids /\ left \subseteq Ids /\ moved \subseteq Ids /\ moved3 \subseteq Ids /\ styles \subseteq {2, 3}
    /\ ops \subseteq Ids /\ aborted \subseteq ops

(* A child is outstanding for its parent until its last descendant is      *)
(* done; one that ended in a referral of LDAPv3, the children of which are *)
(* counted in the operation, stays so for ever.                            *)
Outstanding(p) == {c \in Children(p) :
    req[c].st # "completed" \/ req[c].out > 0 \/ c \in moved3}

Pending(p) == {k \in DOMAIN stack :
    stack[k].st \in {"wait", "bound", "refused"} /\ Parent(stack[k]) = p}

(* lr_outrefcnt is the number of children that are outstanding and of      *)
(* binds in progress for children to come, through every nesting of        *)
(* chases, failed binds and chained results.                               *)
CountExact ==
    session = "open" => \A p \in Ids : Live(p) =>
        req[p].out = Cardinality(Outstanding(p)) + Cardinality(Pending(p))

(* What a chase works on is not freed while it waits for its bind, though  *)
(* the nested calls read results that complete and free operations.        *)
ChaseHeld ==
    session = "open" => \A k \in DOMAIN stack :
        Live(stack[k].lr) /\ Live(req[stack[k].lr].orig)

(* An operation and all its children go together. *)
NoOrphans ==
    session = "open" => \A id \in Ids : Live(id) =>
        /\ Live(req[id].orig)
        /\ req[id].parent # 0 => Live(req[id].parent)

(* The tree of requests is whole: ldap_free_request frees an operation     *)
(* with everything below it, and never under a chase that will come back   *)
(* to it.                                                                  *)
TreeHeld == TypeOK /\ ChaseHeld /\ NoOrphans

(* faults of these kinds have occurred *)
Failed(kinds) == \E i \in DOMAIN faults : faults[i] \in kinds

Waiting(id) ==
    Live(id) /\ req[id].kind = "op" /\ req[id].st \in {"inprogress", "chasing"} /\ id \notin abandoned

(* An operation or a child whose answer is still to come has its           *)
(* connection: none is closed while a request holds it.  (Referrals of     *)
(* LDAPv2 are sent on a connection while it is being bound, and a bind     *)
(* that fails closes it under them.)  While there was no referral, no      *)
(* abandon and no fault but in connecting, the count of a connection is    *)
(* exact, so that it is closed with its last user: one for every request   *)
(* that waits on it, one for a chase that has it bound, and one for the    *)
(* session on the default connection.                                      *)
Users(s) == Cardinality({id \in Ids : Waiting(id) /\ req[id].conn = s})
Holds(s) == (IF s = Default THEN 1 ELSE 0)
            + Cardinality({id \in Ids : Live(id) /\ req[id].st # "completed" /\ req[id].conn = s})
            + Cardinality({k \in DOMAIN stack : /\ stack[k].st \in {"wait", "bound"}
                                                /\ stack[k].refs[stack[k].i] = s})
ConnsHeld ==
    session = "open" => \A s \in Servers :
        /\ (2 \notin styles \/ ~Failed({"bind", "read"})) /\ Users(s) > 0 =>
              conn[s].open /\ conn[s].refcnt >= Users(s)
        /\ moved = {} /\ aborted = {} /\ ~Failed({"bind", "read"}) => conn[s].refcnt = Holds(s)

(* Without faults no queued list is forgotten: when nothing is being       *)
(* chased nothing is queued, but for the lists on a connection that was    *)
(* bound for a referral of LDAPv2, which does not take them up.            *)
NoneForgotten ==
    session = "open" /\ stack = <<>> /\ faults = <<>> =>
        \A s \in Servers : \A j \in DOMAIN conn[s].queue : conn[s].queue[j].op \in left

(* The application is told of an operation's end once, unless a referral   *)
(* of LDAPv3 could not be followed: after a fault, or at the hop limit,    *)
(* which children reach if it is 1 or if there are children of children.   *)
OneFinal ==
    (3 \notin styles \/ (2 \notin styles /\ faults = <<>> /\ HopLimit # 1)) =>
        \A id \in Ids : finals[id] <= 1

(* One below it ended in a referral of LDAPv3. *)
Referred(id) == \E c \in moved3 : c # id /\ Live(c) /\ req[c].orig = id

Over(id) == finals[id] > 0 \/ id \in aborted \/ Failed({"read"}) \/ session # "open"

(* What a failed bind may leave behind: an operation of which everything   *)
(* else is complete, because the count goes down but nobody looks whether  *)
(* it is 0 (request.c line 160); or, with referrals of LDAPv2, a child     *)
(* that waits on the connection that is closed.                            *)
Unnoticed(id) == Live(id) /\ req[id].st # "inprogress" /\ req[id].out = 0
CutOff(id)    == \E c \in Ids : Waiting(c) /\ req[c].orig = id /\ ~conn[req[c].conn].open
Hung(id)      == Failed({"bind"}) /\ (Unnoticed(id) \/ (2 \in styles /\ CutOff(id)))

(* Every operation comes to its end, however its references, referrals and *)
(* nested binds interleave and connects and binds fail, but for those that *)
(* hang as described above.  (When a connection fails, ldap_result returns *)
(* -1 to the application.)                                                 *)
OperationsEnd == <>[](\A id \in ops : Over(id) \/ Referred(id) \/ Hung(id) \/ id \in strayed \cup left)

-----------------------------------------------------------------------------
(* What the documentation says and the code does not do (see README).      *)

(* lr_outrefcnt is the "count of outstanding referrals": when the servers  *)
(* have answered everything the operation comes to its end.                *)
ReferralsEnd == <>[](\A id \in ops : Over(id))
=============================================================================
