---------------------------- MODULE ClientCache ----------------------------
(***************************************************************************)
(* The client cache of a session (cache.c of libldap): the responses of    *)
(* search and compare requests are collected while they arrive and kept    *)
(* for lc_timeout seconds, and an equal request is answered from them.     *)
(* Several requests are under way at once; the application configures,     *)
(* flushes and prunes the cache at any time between.                       *)
(***************************************************************************)
EXTENDS Integers, SequencesExt

CONSTANTS
    Requests,     \* what the application asks: [type, dn, len, body]
    Entries,      \* the DNs of the entries the server returns
    Codes,        \* the result codes of its final responses
    Buckets,      \* LDAP_CACHE_BUCKETS
    Base,         \* sizeof( LDAPCache ), counted in messages
    Width,        \* 2^(bits of ber_len_t), the range of lc_memused
    Timeouts, Limits, Options,  \* what the application configures
    MaxMsgid,     \* bound: the last message id
    MaxEntries,   \* bound: entries per search
    Pauses        \* whether it disables the cache while requests are under way

MsgIds == 1..MaxMsgid
LastAge == 1 + CHOOSE t \in Timeouts : \A u \in Timeouts : t >= u

ASSUME CacheAssumption ==
    /\ Buckets \in Nat \ {0} /\ Base \in Nat \ {0} /\ Width \in Nat /\ Width > Base
    /\ Timeouts \subseteq Nat /\ Limits \subseteq Nat
    /\ \E t \in Timeouts : \A u \in Timeouts : t >= u
    /\ Options \subseteq {"none", "noerrs", "allerrs"}
    /\ MaxMsgid \in Nat /\ MaxEntries \in Nat /\ Pauses \in BOOLEAN

(* All the messages a session can collect can be counted.                  *)
ASSUME CountAssumption == Base + MaxMsgid * (MaxEntries + 2) < Width

(* The DN and the length are read out of the bytes of the request. *)
ASSUME RequestAssumption ==
    /\ \A req \in Requests : req.len \in Nat
    /\ \A req, other \in Requests : req.type = other.type /\ req.body = other.body => req = other

VARIABLES
    lc,          \* *ld_cache without its lists, or NoCache
    lc_requests, \* requests under way: [id, req, chain], the newest first
    lc_buckets,  \* per hash: answered requests, [id, req, chain, age]
    ld_msgid,    \* the last message id drawn
    reduce,      \* remove_threshold of check_cache_memused, or -1 outside it
    ops,         \* server: per id the request, its responses, how long ago it ended
    hit,         \* history: the answer the cache just gave, or <<>>
    strays       \* history: sizes subtracted without having been added

vars  == <<lc, lc_requests, lc_buckets, ld_msgid, reduce, ops, hit, strays>>
lists == <<lc_requests, lc_buckets>>

NoCache == [enabled |-> FALSE, exists |-> FALSE]
Exists  == lc.exists
Enabled == lc.exists /\ lc.enabled
Idle    == reduce = -1

NoHit == hit' = <<>>

Hash(req) == req.len % Buckets

NoOp == [state |-> "none"]

Init ==
    /\ lc = NoCache /\ lc_requests = <<>> /\ lc_buckets = [h \in 0..Buckets - 1 |-> <<>>]
    /\ ld_msgid = 0 /\ reduce = -1
    /\ ops = [id \in MsgIds |-> NoOp]
    /\ hit = <<>> /\ strays = 0

-----------------------------------------------------------------------------
(* Sizes.  A message counts one and so does each response chained to it;   *)
(* lc_memused is an unsigned count.                                        *)
MsgSize(m)  == 1 + Len(m.chain)
Pieces(mss) == UNION {UNION {{<<h, i, k>> : k \in 0..Len(mss[h][i].chain)} : i \in DOMAIN mss[h]} : h \in DOMAIN mss}
Total(mss)  == Cardinality(Pieces(mss))
Sizes(ms)   == Total(<<ms>>)
InCache     == Total(lc_buckets)

(* The messages of a list that a test holds for, in their order. *)
At(places, k)   == CHOOSE i \in places : Cardinality({j \in places : j <= i}) = k
Pick(ms, places) == [k \in 1..Cardinality(places) |-> ms[At(places, k)]]
Only(ms, Test(_)) == Pick(ms, {i \in DOMAIN ms : Test(ms[i])})

MinusMut(used, n) == used % (Width + 0 * n)

Minus(used, n) == (used - n) % Width

TooBig(c) == c.memused > (c.maxmem * 2) \div 3

(* check_cache_memused is entered: it removes only when there is a limit   *)
(* and the limit is exceeded.                                              *)
CheckMemusedMut(c) ==
    reduce' = IF ~TooBig(c) THEN -1 ELSE c.timeout

CheckMemused(c) ==
    reduce' = IF c.maxmem <= Base \/ ~TooBig(c) THEN -1 ELSE c.timeout

(* chain_contains_dn: the base of the request, and unless it is a compare  *)
(* the entries of its answer.                                              *)
ContainsDn(m, dn) ==
    \/ m.req.dn = dn
    \/ m.req.type # "compare" /\ \E i \in DOMAIN m.chain : m.chain[i] = [type |-> "entry", dn |-> dn]

(* What the application takes out of the cache no longer stands. *)
Revoke(Test(_)) ==
    LET gone(op) == IF op.state = "running" THEN [op EXCEPT !.stands = FALSE] ELSE NoOp
    IN  ops' = [id \in MsgIds |->
                  IF ops[id].state # "none" /\ Test([id |-> id, req |-> ops[id].req, chain |-> ops[id].chain])
                  THEN gone(ops[id]) ELSE ops[id]]

-----------------------------------------------------------------------------
(* ldap_enable_cache creates the cache or only changes its limits. *)
Enable(timeout, maxmem) ==
    /\ Idle
    /\ lc' = IF Exists THEN [lc EXCEPT !.timeout = timeout, !.maxmem = maxmem, !.enabled = TRUE]
             ELSE [exists |-> TRUE, enabled |-> TRUE, timeout |-> timeout, maxmem |-> maxmem,
                   memused |-> Base, options |-> "none"]
    /\ CheckMemused(lc')
    /\ NoHit /\ UNCHANGED <<lists, ld_msgid, ops, strays>>

Disable ==
    /\ Idle /\ Exists
    /\ Pauses \/ \A id \in MsgIds : ops[id].state # "running"
    /\ lc' = [lc EXCEPT !.enabled = FALSE]
    /\ NoHit /\ UNCHANGED <<lists, ld_msgid, reduce, ops, strays>>

SetOptions(opts) ==
    /\ Idle /\ Exists
    /\ lc' = [lc EXCEPT !.options = opts]
    /\ NoHit /\ UNCHANGED <<lists, ld_msgid, reduce, ops, strays>>

Emptied ==
    /\ lc_requests' = <<>>
    /\ lc_buckets' = [h \in DOMAIN lc_buckets |-> <<>>]
    /\ strays' = 0
    /\ Revoke(LAMBDA m : TRUE)

(* ldap_flush_cache; the synchronous binds call it too. *)
Flush ==
    /\ Idle /\ Exists
    /\ Emptied
    /\ lc' = [lc EXCEPT !.memused = Base]
    /\ NoHit /\ UNCHANGED <<ld_msgid, reduce>>

Destroy ==
    /\ Idle /\ Exists
    /\ Emptied
    /\ lc' = NoCache
    /\ NoHit /\ UNCHANGED <<ld_msgid, reduce>>

(* uncache_entry_or_req takes what matches out of both lists and its size  *)
(* off lc_memused, to which only what is in a bucket was added.            *)
Uncache(Test(_)) ==
    LET Out(ms)  == Only(ms, Test)
        Keep(ms) == Only(ms, LAMBDA m : ~Test(m))
        pending  == Sizes(Out(lc_requests))
        answered == Total([h \in DOMAIN lc_buckets |-> Out(lc_buckets[h])])
    IN  /\ Idle /\ Exists
        /\ lc_requests' = Keep(lc_requests)
        /\ lc_buckets' = [h \in DOMAIN lc_buckets |-> Keep(lc_buckets[h])]
        /\ lc' = [lc EXCEPT !.memused = Minus(@, pending + answered)]
        /\ strays' = strays + pending
        /\ Revoke(Test)
        /\ NoHit /\ UNCHANGED <<ld_msgid, reduce>>

UncacheRequest(id) == Uncache(LAMBDA m : m.id = id)
UncacheEntry(dn)   == Uncache(LAMBDA m : ContainsDn(m, dn))

-----------------------------------------------------------------------------
(* A search or compare: ldap_check_cache first, which drops the expired    *)
(* messages it passes; then ldap_add_request_to_cache and the request goes *)
(* to the server.                                                          *)
ExpiredMut(m) == FALSE

Expired(m) == m.age > lc.timeout

Matches(m, req) == m.req.type = req.type /\ m.req.body = req.body

(* the position of the message that answers, or 0 *)
Found(bucket, req) == SelectInSeq(bucket, LAMBDA m : ~Expired(m) /\ Matches(m, req))

(* the walk stops at the message found *)
Walked(bucket, req) ==
    LET n == IF Found(bucket, req) = 0 THEN Len(bucket) ELSE Found(bucket, req)
    IN  [kept    |-> Only(SubSeq(bucket, 1, n), LAMBDA m : ~Expired(m)) \o SubSeq(bucket, n + 1, Len(bucket)),
         dropped |-> Only(SubSeq(bucket, 1, n), Expired)]

CheckCache(req) ==
    LET b == Hash(req)
        w == Walked(lc_buckets[b], req)
    IN  /\ lc_buckets' = [lc_buckets EXCEPT ![b] = w.kept]
        /\ lc' = [lc EXCEPT !.memused = Minus(@, Sizes(w.dropped))]

Started(req) == [state |-> "running", req |-> req, chain |-> <<>>, age |-> 0, stands |-> TRUE]

Ask(req) ==
    /\ Idle /\ ld_msgid < MaxMsgid
    /\ ld_msgid' = ld_msgid + 1
    /\ IF Enabled
       THEN LET i == Found(lc_buckets[Hash(req)], req)
            IN  /\ CheckCache(req)
                /\ IF i # 0
                   THEN /\ hit' = [id |-> ld_msgid', req |-> req, chain |-> lc_buckets[Hash(req)][i].chain]
                        /\ UNCHANGED <<lc_requests, ops>>
                   ELSE /\ lc_requests' = <<[id |-> ld_msgid', req |-> req, chain |-> <<>>]>> \o lc_requests
                        /\ ops' = [ops EXCEPT ![ld_msgid'] = Started(req)]
                        /\ NoHit
       ELSE /\ ops' = [ops EXCEPT ![ld_msgid'] = Started(req)]
            /\ NoHit /\ UNCHANGED <<lc, lists>>
    /\ UNCHANGED <<reduce, strays>>

-----------------------------------------------------------------------------
(* A response arrives: ldap_add_result_to_cache appends it to the chain of *)
(* its request; the last one decides whether the answer is kept.           *)
Appended(id, msg) ==
    [i \in DOMAIN lc_requests |->
        IF lc_requests[i].id = id THEN [lc_requests[i] EXCEPT !.chain = Append(@, msg)] ELSE lc_requests[i]]

Pending(id) == SelectInSeq(lc_requests, LAMBDA m : m.id = id)

Keep(type, code) ==
    \/ code = "success"
    \/ type = "compare" /\ code \in {"compareFalse", "compareTrue", "noSuchAttribute"}
    \/ lc.options = "none" /\ code = "sizeLimitExceeded"
    \/ lc.options = "allerrs"

Part(id, msg) ==
    /\ lc_requests' = IF Enabled THEN Appended(id, msg) ELSE lc_requests
    /\ UNCHANGED <<lc, lc_buckets, reduce>>

Put(m) ==
    /\ lc_buckets' = [lc_buckets EXCEPT ![Hash(m.req)] = <<[id |-> m.id, req |-> m.req, chain |-> m.chain, age |-> 0]>> \o @]
    /\ lc' = [lc EXCEPT !.memused = (@ + MsgSize(m)) % Width]
    /\ CheckMemused(lc')

Complete(id, msg) ==
    IF Enabled /\ Pending(id) # 0
    THEN LET m == Appended(id, msg)[Pending(id)]
         IN  /\ lc_requests' = RemoveAt(lc_requests, Pending(id))
             /\ IF Keep(m.req.type, msg.code) THEN Put(m) ELSE UNCHANGED <<lc, lc_buckets, reduce>>
    ELSE UNCHANGED <<lc, lists, reduce>>

Answer(id, msg, state) ==
    LET op == ops[id]
    IN  ops' = [ops EXCEPT ![id] = IF state = "ended" /\ ~op.stands THEN NoOp
                                   ELSE [op EXCEPT !.chain = Append(@, msg), !.state = state]]

Entry(id, dn) ==
    LET msg == [type |-> "entry", dn |-> dn]
    IN  /\ Idle /\ ops[id].state = "running" /\ ops[id].req.type = "search"
        /\ Len(ops[id].chain) < MaxEntries
        /\ Answer(id, msg, "running")
        /\ Part(id, msg)
        /\ NoHit /\ UNCHANGED <<ld_msgid, strays>>

Final(id, code) ==
    LET msg == [type |-> "result", code |-> code]
    IN  /\ Idle /\ ops[id].state = "running"
        /\ Answer(id, msg, "ended")
        /\ Complete(id, msg)
        /\ NoHit /\ UNCHANGED <<ld_msgid, strays>>

-----------------------------------------------------------------------------
(* One round of check_cache_memused.  THRESHOLD_FACTOR expands to          *)
(* remove_threshold *= 3 / 4, an integer quotient.                         *)
Round ==
    LET Old(m) == m.age > reduce
        gone   == Total([h \in DOMAIN lc_buckets |-> Only(lc_buckets[h], Old)])
    IN  /\ reduce # -1
        /\ lc_buckets' = [h \in DOMAIN lc_buckets |-> Only(lc_buckets[h], LAMBDA m : ~Old(m))]
        /\ lc' = [lc EXCEPT !.memused = Minus(@, gone)]
        /\ reduce' = IF TooBig(lc') THEN reduce * (3 \div 4) ELSE -1
        /\ NoHit /\ UNCHANGED <<lc_requests, ld_msgid, ops, strays>>

(* A second passes; ages beyond every timeout are equal, and answers that  *)
(* old are forgotten on the server's side.                                 *)
Older(age) == IF age < LastAge THEN age + 1 ELSE age
Aged(op)   == IF op.state # "ended" THEN op ELSE IF op.age + 1 = LastAge THEN NoOp ELSE [op EXCEPT !.age = @ + 1]
Tick ==
    /\ lc_buckets' = [h \in DOMAIN lc_buckets |->
                        [i \in DOMAIN lc_buckets[h] |-> [lc_buckets[h][i] EXCEPT !.age = Older(@)]]]
    /\ ops' = [id \in MsgIds |-> Aged(ops[id])]
    /\ NoHit /\ UNCHANGED <<lc, lc_requests, ld_msgid, reduce, strays>>

Next ==
    \/ \E t \in Timeouts, n \in Limits : Enable(t, n)
    \/ Disable
    \/ \E o \in Options : SetOptions(o)
    \/ Flush
    \/ Destroy
    \/ \E id \in MsgIds : UncacheRequest(id)
    \/ \E dn \in Entries : UncacheEntry(dn)
    \/ \E req \in Requests : Ask(req)
    \/ \E id \in MsgIds, dn \in Entries : Entry(id, dn)
    \/ \E id \in MsgIds, c \in Codes : Final(id, c)
    \/ Round
    \/ Tick

(* The loop runs on and the clock with it; the application and the server  *)
(* owe nothing.                                                            *)
Spec == Init /\ [][Next]_vars /\ WF_vars(Round) /\ WF_vars(Tick)

-----------------------------------------------------------------------------
Message == [type : {"entry"}, dn : Entries] \cup [type : {"result"}, code : Codes]
Held(ms) == \A i \in DOMAIN ms : ms[i].id \in MsgIds /\ ms[i].req \in Requests /\ ms[i].chain \in Seq(Message)

(* Types of the variables; the lists hold requests of this session. *)
TypeOK ==
    /\ lc = NoCache \/ lc \in [exists : {TRUE}, enabled : BOOLEAN, timeout : Timeouts, maxmem : Limits,
                               memused : 0..Width - 1, options : {"none"} \cup Options]
    /\ Held(lc_requests) /\ \A h \in DOMAIN lc_buckets : Held(lc_buckets[h])
    /\ ld_msgid \in 0..MaxMsgid /\ strays \in Nat /\ reduce \in Timeouts \cup {-1, 0}

(* lc_memused is what the buckets hold, less what was subtracted for       *)
(* requests that were still under way when they were uncached (cache.c     *)
(* line 183), and outside check_cache_memused it is within the limit       *)
(* unless such subtractions have happened since the last flush, or nothing *)
(* is left to remove; the lists it counts are well formed.                 *)
MemusedExact ==
    /\ TypeOK
    /\ Exists => /\ lc.memused = (Base + InCache - strays) % Width
                 /\ Idle /\ strays = 0 /\ lc.maxmem > Base => ~TooBig(lc) \/ InCache = 0

(* What ldap_check_cache puts on ld_responses is the whole answer the      *)
(* server gave to the same request, no longer than lc_timeout ago, that no *)
(* flush or uncache call has taken out since (cache.c lines 377 to 452).   *)
AnswersTrue ==
    [][hit' # <<>> =>
         \E id \in MsgIds : /\ ops[id].state = "ended"
                           /\ ops[id].req = hit'.req /\ ops[id].chain = hit'.chain
                           /\ ops[id].age <= lc.timeout]_vars

(* The loop of check_cache_memused ends, if lc_memused has not been        *)
(* decreased for requests under way: the clock moves on and everything     *)
(* becomes old enough to go (cache.c lines 615 to 659).                    *)
ReduceEnds == ~Idle /\ strays = 0 ~> Idle

=============================================================================
