----------------------------- MODULE SyncCalls -----------------------------
(***************************************************************************)
(* The calls that start an operation and wait for its result, from what    *)
(* starting it gave, [code, errno, msgid], and what ldap_result then gave:   *)
(* an error, no message within the caller's time, or the chain of all      *)
(* messages of the operation.  A call leaves its value, a Code, and what   *)
(* the caller has, whether the chain was freed and whether the operation   *)
(* was abandoned.                                                          *)
(***************************************************************************)
EXTENDS Results

Lost(errno)    == [kind |-> "lost", errno |-> errno]
TimedOut       == [kind |-> "timeout"]
Answered(msgs) == [kind |-> "answered", chain |-> msgs]

Local(rc)     == Code(0, rc)
Success       == Local("success")
Returns(code) == [given |-> None, freed |-> FALSE, abandoned |-> FALSE] @@ code
Frees(code)   == [Returns(code) EXCEPT !.freed = TRUE]
Gives(code, x) == [Returns(code) EXCEPT !.given = x]

(* calls that return a message id *)
Msgid(start) == IF start.code = Success THEN start.msgid ELSE -1

-----------------------------------------------------------------------------
(* The calls with one answer; ldap_delete_ext_s takes the session's error  *)
(* for its own when it cannot start *)
Waits(version, failed, start, outcome) ==
    IF start.code # Success THEN Returns(failed)
    ELSE IF outcome.kind = "lost" THEN Returns(outcome.errno)
    ELSE Frees(Result2Error(version, outcome.chain))

AddS(version, start, outcome)     == Waits(version, start.code, start, outcome)
ModifyS(version, start, outcome)  == Waits(version, start.code, start, outcome)
RenameS(version, start, outcome)  == Waits(version, start.code, start, outcome)
CompareS(version, start, outcome) == Waits(version, start.code, start, outcome)
DeleteS(version, start, outcome)  == Waits(version, start.errno, start, outcome)

Extended(version, start, outcome) ==
    IF start.code # Success THEN Returns(start.code)
    ELSE IF outcome.kind = "lost" THEN Returns(outcome.errno)
    ELSE LET p == ParseExtended(version, Head(outcome.chain))
         IN  IF p.rc # "success" THEN Frees(Local(p.rc))
             ELSE [Frees(Result2Error(version, outcome.chain)) EXCEPT !.given = [oid |-> p.oid, data |-> p.data]]

(* ldap_search_ext_s: a chain with a reference or a partial response at    *)
(* its head is given as it is; the operation is left as it is when the     *)
(* time is over *)
SearchExt(version, start, outcome) ==
    CASE start.code # Success -> Returns(start.code)
      [] outcome.kind = "lost" -> Returns(outcome.errno)
      [] outcome.kind = "timeout" -> Returns(Local("timeout"))
      [] Head(outcome.chain).type \in {ResReference, ResPartial} -> Gives(Success, outcome.chain)
      [] OTHER -> Gives(Result2Error(version, outcome.chain), outcome.chain)

(* ldap_search_st; ldap_search_s has no time and is the same *)
SearchSt(version, start, outcome) ==
    CASE start.code # Success -> Returns(start.errno)
      [] outcome.kind = "lost" -> Returns(outcome.errno)
      [] outcome.kind = "timeout" -> [Returns(Local("timeout")) EXCEPT !.abandoned = TRUE]
      [] OTHER -> Gives(Result2Error(version, outcome.chain), outcome.chain)

-----------------------------------------------------------------------------
(* Binds.  A server's credentials are read when they are wanted, and given *)
(* when the bind has succeeded or is to go on. *)
InProgress  == Code(14, "success")
GoesOn(code) == code \in {Success, InProgress}

SaslBindS(version, want, start, outcome) ==
    LET p    == ParseBind(version, Head(outcome.chain))
        read == "creds" \in DOMAIN p
        code == IF ~want THEN Success ELSE IF read THEN Code(p.rc, "success") ELSE Local(p.rc)
        all  == Result2Error(version, outcome.chain)
    IN  IF want /\ version < 3 THEN Returns(Local("not supported"))
        ELSE IF start.code # Success THEN Returns(start.code)
        ELSE IF outcome.kind = "lost" THEN Returns(outcome.errno)
        ELSE IF ~GoesOn(code) THEN Frees(code)
        ELSE [Frees(all) EXCEPT !.given = IF want /\ GoesOn(all) THEN p.creds ELSE None]

(* ldap_bind_s and ldap_simple_bind_s *)
BindS(version, method, start, outcome) ==
    IF method = "simple" THEN SaslBindS(version, FALSE, start, outcome) ELSE Returns(Local("auth unknown"))

(* ldap_pvt_sasl_getmechs: the values of the attribute in the first entry  *)
(* of the root DSE, in one string; the chain is freed unless the search    *)
(* itself fails *)
Joined(values, sep) == FoldLeft(LAMBDA s, v : IF s = <<>> THEN v ELSE s \o sep \o v, <<>>, values)

GetMechs(version, attr, start, outcome) ==
    LET found  == SearchSt(version, start, outcome)
        entry  == FirstOf(found.given, ResEntry)
        values == GetValues(found.given[entry], attr)
    IN  IF found.given = None \/ found.rc # "success" THEN found
        ELSE IF entry = 0 THEN Frees(Local("no such object"))
        ELSE IF values = None THEN Frees(Local("no such attribute"))
        ELSE [Frees(Success) EXCEPT !.given = Joined(values, <<32>>)]

-----------------------------------------------------------------------------
(* A SASL bind with interaction.  The SASL library's answers are the       *)
(* sequence client: those of sasl_client_start and then sasl_client_step;  *)
(* "interact" is answered where the application can.  A server's are       *)
(* [rc, data]: the bind's result and whether it has credentials.           *)
SaslError == [s \in {"continue", "interact", "fail", "nomem", "nomech", "badauth", "noauthz", "tooweak", "encrypt"} |->
                CASE s = "continue" -> "more results to return"
                  [] s \in {"interact", "fail"} -> "local error"
                  [] s = "nomem" -> "no memory"
                  [] s = "noauthz" -> "param error"
                  [] OTHER -> "auth unknown"]
Proceeds(saslrc) == saslrc \in {"ok", "continue"}

RECURSIVE Settled(_, _)
Settled(client, answers) ==
    IF Head(client) = "interact" /\ answers THEN Settled(Tail(client), answers) ELSE client

Unbound(code) == [installed |-> FALSE] @@ code
Fails(saslrc) == Unbound(Local(SaslError[saslrc]))
Bound(ssf)    == [installed |-> ssf > 0] @@ Success

(* one bind of the exchange, with the client's state before it *)
RECURSIVE Exchange(_, _, _, _, _)
Exchange(saslrc, client, server, answers, ssf) ==
    LET s    == Head(server)
        next == Settled(client, answers)
    IN  CASE ~GoesOn(Code(s.rc, "success")) -> Unbound(Code(s.rc, "success"))
          [] s.rc = 0 /\ saslrc = "ok" ->
               IF s.data THEN Unbound(Local("local error")) ELSE Bound(ssf)
          [] OTHER ->
               IF ~Proceeds(Head(next)) THEN Fails(Head(next))
               ELSE IF s.rc # 0 THEN Exchange(Head(next), Tail(next), Tail(server), answers, ssf)
               ELSE IF Head(next) = "ok" THEN Bound(ssf) ELSE Fails(Head(next))

(* ldap_int_sasl_bind on an open connection *)
SaslBind(version, client, server, answers, ssf) ==
    LET start == Settled(client, answers)
    IN  IF version < 3 THEN Unbound(Local("not supported"))
        ELSE IF ~Proceeds(Head(start)) THEN Fails(Head(start))
        ELSE Exchange(Head(start), Tail(start), server, answers, ssf)
=============================================================================
