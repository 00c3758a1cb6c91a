------------------------------- MODULE Names -------------------------------
(***************************************************************************)
(* Distinguished names and lists of strings: charray.c, getdn.c and        *)
(* dnssrv.c.  A string is a sequence of tokens; a token is one character,  *)
(* or a run of characters none of which is special, such as the type of an *)
(* attribute.  An array of strings is a sequence.                          *)
(***************************************************************************)
EXTENDS Integers, SequencesExt, FiniteSetsExt

Null     == "null"
Space(t) == t = " "

(* Op of each element, as a tuple (TLC evaluates it once) *)
MapSeq(Op(_), s) == SubSeq([i \in DOMAIN s |-> Op(s[i])], 1, Len(s))

SkipSpaces(s) == LET n == Min({Len(s) + 1} \cup {i \in DOMAIN s : ~Space(s[i])}) IN SubSeq(s, n, Len(s))
DropSpaces(s) == LET n == Max({0} \cup {i \in DOMAIN s : ~Space(s[i])}) IN SubSeq(s, 1, n)

-----------------------------------------------------------------------------
(* charray.c *)
(* ldap_charray2str; NULL when nothing but separators is left *)
Charray2Str(a, sep) ==
    IF a = <<>> \/ (sep = <<>> /\ Range(a) = {<<>>}) THEN Null
    ELSE FoldLeft(LAMBDA s, v : s \o sep \o v, a[1], Tail(a))

(* ldap_str2charray: the runs between separators, none of them empty *)
RECURSIVE Str2Charray(_, _)
Str2Charray(s, brk) ==
    LET from == Min({Len(s) + 1} \cup {i \in DOMAIN s : s[i] \notin brk})
        to   == Min({Len(s) + 1} \cup {i \in DOMAIN s : i > from /\ s[i] \in brk})
    IN  IF from > Len(s) THEN <<>>
        ELSE <<SubSeq(s, from, to - 1)>> \o Str2Charray(SubSeq(s, to, Len(s)), brk)

-----------------------------------------------------------------------------
(* explode_name walks the name; a part ends at a separator of the kind of  *)
(* name, outside of quotes and not escaped, or at the end of the name, and *)
(* one whose quote stays open is dropped. *)
Separators == [rdn |-> {"+"}, dn |-> {",", ";"}, dce |-> {"/"}]

(* one token: part is what was read since the last separator *)
Step(st, c, kind) ==
    IF ~st.quote /\ ~st.escaped /\ c \in Separators[kind]
    THEN [st EXCEPT !.parts = Append(@, st.part), !.part = <<>>]
    ELSE [st EXCEPT !.part = Append(@, c), !.quote = @ # (c = "\"" /\ ~st.escaped), !.escaped = c = "\\" /\ ~@]

(* a part: with notypes what follows the first "=", without its quotes;    *)
(* trailing spaces go unless they were in a closing quote *)
Part(raw, notypes) ==
    LET eq    == Min({Len(raw) + 1} \cup {i \in DOMAIN raw : raw[i] = "="})
        value == IF eq > Len(raw) THEN raw ELSE SubSeq(raw, eq + 1, Len(raw))
        open  == IF value # <<>> /\ value[1] = "\"" THEN Tail(value) ELSE value
    IN  IF ~notypes THEN DropSpaces(raw)
        ELSE IF raw # <<>> /\ Last(raw) = "\"" THEN Front(open)
        ELSE DropSpaces(open)

Explode(name, notypes, kind) ==
    LET start == [parts |-> <<>>, part |-> <<>>, quote |-> FALSE, escaped |-> FALSE]
        end   == FoldLeft(LAMBDA st, c : Step(st, c, kind), start, name)
        raw   == IF end.quote THEN end.parts ELSE Append(end.parts, end.part)
    IN  MapSeq(LAMBDA r : Part(SkipSpaces(r), notypes), raw)

ExplodeDn(dn, notypes)   == Explode(dn, notypes, "dn")
ExplodeRdn(rdn, notypes) == Explode(rdn, notypes, "rdn")

Dn2Ufn(dn) ==
    LET rdns == ExplodeDn(dn, FALSE)
    IN  Charray2Str(MapSeq(LAMBDA r : Charray2Str(ExplodeRdn(r, TRUE), <<" ", "+", " ">>), rdns), <<",", " ">>)

(* The parts in the other order; a name with a leading slash has an empty  *)
(* first part, which goes. *)
Dn2Dce(dn) ==
    LET rdns == Reverse(ExplodeDn(dn, FALSE)) IN FlattenSeq([i \in DOMAIN rdns |-> <<"/">> \o rdns[i]])
Dce2Dn(dce) ==
    LET rdns == Reverse(Explode(dce, FALSE, "dce"))
    IN  Charray2Str(IF dce[1] = "/" THEN Front(rdns) ELSE rdns, <<",">>)

-----------------------------------------------------------------------------
(* ldap_dn2domain: the dc values of the single-valued RDNs at the end of   *)
(* the name; one that is no dc starts over *)
Dc(rdn) == IF rdn # <<>> /\ rdn[1] \in {"dc", "0.9.2342.19200300.100.1.25"} /\ Len(rdn) >= 2 /\ rdn[2] = "="
           THEN SubSeq(rdn, 3, Len(rdn)) ELSE Null

Dn2Domain(dn) ==
    LET rdns == MapSeq(LAMBDA r : ExplodeRdn(r, FALSE), ExplodeDn(dn, FALSE))
        dcs  == MapSeq(LAMBDA r : IF Len(r) = 1 THEN Dc(r[1]) ELSE Null, rdns)
        last == SelectLastInSeq(dcs, LAMBDA dc : dc = Null)
    IN  IF <<>> \in Range(rdns) \cup Range(dcs) THEN "error"
        ELSE IF last = Len(dcs) THEN Null ELSE Charray2Str(SubSeq(dcs, last + 1, Len(dcs)), <<".">>)

Domain2Dn(domain) ==
    LET parts == Str2Charray(domain, {"."})
    IN  Charray2Str(MapSeq(LAMBDA p : <<"dc", "=">> \o p, parts), <<",">>)

(* ldap_domain2hostlist: the targets of the SRV records in the order of    *)
(* the reply; the 16 bits of a port are printed as a signed number (%hd).  *)
Printed(port) == IF port >= 2^15 THEN port - 2^16 ELSE port
Domain2Hostlist(records) ==
    IF records = <<>> THEN "unavailable"
    ELSE [i \in DOMAIN records |-> [host |-> records[i].host, port |-> Printed(records[i].port)]]
=============================================================================
