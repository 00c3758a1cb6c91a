-------------------------------- MODULE Url --------------------------------
(***************************************************************************)
(* LDAP URLs (url.c).  A URL is a sequence of tokens: a delimiter is a     *)
(* token of its own, "ldap://" one, and so is an escape, which Unescaped   *)
(* maps to what it stands for.                                             *)
(***************************************************************************)
EXTENDS Integers, SequencesExt, Names

CONSTANTS
    Unescaped,   \* what each escaped token stands for: a function
    Ports        \* what atoi makes of a token: a function

Failure(code) == [rc |-> code]

(* strchr: where c is first, and the parts before and after it *)
Has(s, c)    == \E i \in DOMAIN s : s[i] = c
Before(s, c) == IF Has(s, c) THEN SubSeq(s, 1, SelectInSeq(s, LAMBDA t : t = c) - 1) ELSE s
After(s, c)  == SubSeq(s, SelectInSeq(s, LAMBDA t : t = c) + 1, Len(s))

(* ldap_pvt_hex_unescape, in place: the string ends where a NUL comes out *)
HexUnescape(s) == Before(MapSeq(LAMBDA t : IF t \in DOMAIN Unescaped THEN Unescaped[t] ELSE t, s), "NUL")

Schemes       == [ldap |-> "ldap://", ldaps |-> "ldaps://", ldapi |-> "ldapi://"]
DefaultPort(scheme) == IF scheme = "ldaps" THEN 636 ELSE 389
Scopes        == [base |-> 0, one |-> 1, onetree |-> 1, sub |-> 2, subtree |-> 2]
ScopeDefault  == -1                                   \* LDAP_SCOPE_DEFAULT

(* ldap_pvt_url_scheme2proto, ldap_pvt_url_scheme2tls *)

(* skip_url_prefix: "<", "URL:" and the scheme *)
SkipPrefix(url) ==
    LET enclosed == url # <<>> /\ url[1] = "<"
        s == IF enclosed THEN Tail(url) ELSE url
        r == IF s # <<>> /\ s[1] = "URL:" THEN Tail(s) ELSE s
        scheme == {x \in DOMAIN Schemes : r # <<>> /\ r[1] = Schemes[x]}
    IN  IF scheme = {} THEN Failure("badscheme")
        ELSE [rc |-> "success", enclosed |-> enclosed, scheme |-> CHOOSE x \in scheme : TRUE, rest |-> Tail(r)]

IsScheme(url, scheme) == LET p == SkipPrefix(url) IN p.rc = "success" /\ p.scheme = scheme

(* The host and the port: with "[" the host ends at "]". *)
HostPort(s, default) ==
    LET v6   == s # <<>> /\ s[1] = "["
        tail == IF v6 THEN After(s, "]") ELSE s
        port == HexUnescape(After(tail, ":"))
    IN  IF (v6 /\ ~Has(s, "]")) \/ (Has(tail, ":") /\ port = <<>>) THEN Failure("badurl")
        ELSE [rc |-> "success",
              host |-> HexUnescape(IF v6 THEN Before(Tail(s), "]") ELSE Before(s, ":")),
              port |-> IF Has(tail, ":") THEN Ports[port[1]] ELSE default,
              query |-> IF Has(tail, ":") /\ Has(port, "?") THEN After(port, "?") ELSE <<>>]

(* the parts between question marks; the DN that early Novell servers put  *)
(* after the port is unescaped twice *)
Fields(s) == LET marks == <<0>> \o SetToSortSeq({i \in DOMAIN s : s[i] = "?"}, LAMBDA a, b : a < b)
             IN  MapSeq(LAMBDA k : SubSeq(s, marks[k] + 1, Min({Len(s) + 1} \cup {m \in Range(marks) : m > marks[k]}) - 1), [k \in DOMAIN marks |-> k])
NovellDn(query) == IF query # <<>> /\ query[1] = "?" THEN HexUnescape(Tail(query)) ELSE Null

(* ldap_url_parse_ext, a filter that is not there being empty, and one of  *)
(* which nothing is left an error.  Attributes are unescaped before they   *)
(* are split, extensions after. *)
ParseFields(d, f) ==
    LET given(k) == Len(f) >= k /\ f[k] # <<>>
        exts     == Str2Charray(f[5], {","})
        scope    == HexUnescape(f[3])
    IN  IF given(3) /\ ~(scope # <<>> /\ scope[1] \in DOMAIN Scopes) THEN Failure("badscope")
        ELSE IF given(4) /\ HexUnescape(f[4]) = <<>> THEN Failure("badfilter")
        ELSE IF Len(f) > 5 THEN Failure("badurl")
        ELSE IF Len(f) = 5 /\ exts = <<>> THEN Failure("badexts")
        ELSE [d EXCEPT !.dn = HexUnescape(f[1]),
                       !.attrs  = IF Len(f) >= 2 THEN Str2Charray(HexUnescape(f[2]), {","}) ELSE <<>>,
                       !.scope  = IF given(3) THEN Scopes[scope[1]] ELSE ScopeDefault,
                       !.filter = IF given(4) THEN HexUnescape(f[4]) ELSE <<>>,
                       !.exts   = IF Len(f) = 5 THEN MapSeq(HexUnescape, exts) ELSE <<>>]

ParseExt(url) ==
    LET p == SkipPrefix(url)
        s == IF p.enclosed THEN Front(p.rest) ELSE p.rest
        h == HostPort(Before(s, "/"), DefaultPort(p.scheme))
        d == [rc |-> "success", scheme |-> p.scheme, host |-> h.host, port |-> h.port, dn |-> NovellDn(h.query),
              attrs |-> <<>>, scope |-> ScopeDefault, filter |-> <<>>, exts |-> <<>>]
    IN  IF p.rc # "success" THEN p
        ELSE IF p.enclosed /\ (p.rest = <<>> \/ Last(p.rest) # ">") THEN Failure("badenclosure")
        ELSE IF h.rc # "success" THEN h
        ELSE IF ~Has(s, "/") THEN d ELSE ParseFields(d, Fields(After(s, "/")))

(* ldap_url_parse *)
Parse(url) ==
    LET d == ParseExt(url)
    IN  IF d.rc # "success" THEN d
        ELSE [d EXCEPT !.scope = IF @ = ScopeDefault THEN Scopes.base ELSE @,
                       !.host  = IF @ = <<>> THEN Null ELSE @]

-----------------------------------------------------------------------------
(* Lists.  ldap_url_parselist fails with the last URL that is wrong, since *)
(* it goes through the list from its end. *)
ParseList(s) ==
    LET urls == Str2Charray(s, {",", " "})
        list == MapSeq(Parse, urls)
        bad  == {i \in DOMAIN list : list[i].rc # "success"}
    IN  IF bad = {} THEN list ELSE list[Max(bad)]

(* ldap_url_parsehosts: with more than one ":" the host is an IPv6         *)
(* address, in brackets when a port follows *)
ParseHost(spec, port) ==
    LET v6   == Has(spec, ":") /\ Has(After(spec, ":"), ":")
        wrap == v6 /\ spec[1] = "["
        tail == IF wrap THEN After(spec, "]") ELSE IF v6 THEN <<>> ELSE spec
        ok   == wrap => Has(spec, "]") /\ (tail = <<>> \/ tail[1] = ":")
    IN  IF ~ok THEN Failure("paramerror")
        ELSE [rc |-> "success", scheme |-> "ldap",
              host |-> HexUnescape(IF wrap THEN Before(Tail(spec), "]") ELSE IF v6 THEN spec ELSE Before(spec, ":")),
              port |-> IF Has(tail, ":") THEN Ports[HexUnescape(After(tail, ":"))[1]] ELSE port]

ParseHosts(s, port) ==
    LET specs == Str2Charray(s, {",", " "})
        list  == MapSeq(LAMBDA spec : ParseHost(spec, port), specs)
    IN  IF \E i \in DOMAIN list : list[i].rc # "success" THEN Failure("paramerror") ELSE list

(* ldap_url_list2hosts, ldap_url_list2urls; nothing is escaped *)
HostText(d, port) == (IF Has(d.host, ":") THEN <<"[">> \o d.host \o <<"]">> ELSE d.host) \o (IF d.port # 0 THEN <<":", port>> ELSE <<>>)
Joined(a) == Charray2Str(a, <<" ">>)
PortToken(n) == CHOOSE t \in DOMAIN Ports : Ports[t] = n
List2Hosts(list) == Joined(MapSeq(LAMBDA d : HostText(d, PortToken(d.port)), list))
List2Urls(list)  == Joined(MapSeq(LAMBDA d : <<Schemes[d.scheme]>> \o HostText(d, PortToken(d.port)) \o <<"/">>, list))
=============================================================================
