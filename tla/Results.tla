------------------------------ MODULE Results ------------------------------
(***************************************************************************)
(* The messages of a result and what the library takes out of them.  A     *)
(* result is a sequence of messages [type, octets], octets the operation   *)
(* of the message and the controls after it; a failure to decode is Bad.   *)
(***************************************************************************)
EXTENDS BerCode

CONSTANT Lower      \* the case of a character, for strcasecmp

ResEntry     == 100
ResReference == 115
ResBind      == 97
ResExtended  == 120
ResPartial   == 121

Bad     == [rc |-> "decoding error"]
Param   == [rc |-> "param error"]
Peek(s) == LET t == SkipTag(s) IN IF t.ok THEN t.tag ELSE -1
Scan(fmt, s) == Scanf(fmt, s, 0)

Lowered(s) == [i \in DOMAIN s |-> IF s[i] \in DOMAIN Lower THEN Lower[s[i]] ELSE s[i]]
SameCase(a, b) == Lowered(a) = Lowered(b)

-----------------------------------------------------------------------------
(* Controls *)

(* One control.  The tag that follows is looked at for a criticality and   *)
(* again for a value; where nothing follows, that look fails. *)
Criticality(b) == b = 0

GetControl(s) ==
    LET oid  == Scan(<<"{", "a">>, s)
        crit == IF Peek(oid.rest) = 1 THEN Scan(<<"b">>, oid.rest) ELSE [ok |-> TRUE, rest |-> oid.rest, out |-> <<>>]
        val  == IF Peek(crit.rest) = 4 THEN Scan(<<"o">>, crit.rest) ELSE [ok |-> Peek(crit.rest) # -1, rest |-> crit.rest, out |-> <<None>>]
    IN  IF ~oid.ok \/ ~crit.ok \/ ~val.ok THEN Failed
        ELSE [ok |-> TRUE, rest |-> val.rest,
              c |-> [oid |-> oid.out[1], critical |-> crit.out # <<>> /\ Criticality(crit.out[1]), value |-> val.out[1]]]

(* ldap_int_get_controls: the elements up to the end of the sequence *)
RECURSIVE ControlsUpTo(_, _)
ControlsUpTo(s, left) ==
    IF Len(s) = left THEN [rc |-> "success", ctrls |-> <<>>]
    ELSE LET one == GetControl(s)
             all == ControlsUpTo(one.rest, left)
         IN  IF Peek(s) = -1 THEN [rc |-> "success", ctrls |-> <<>>]
             ELSE IF ~one.ok \/ all.rc # "success" THEN Bad
             ELSE [rc |-> "success", ctrls |-> <<one.c>> \o all.ctrls]

GetControls(s) ==
    LET t == SkipTag(s)
    IN  IF s = <<>> THEN [rc |-> "success", ctrls |-> <<>>]
        ELSE IF ~t.ok THEN Bad
        ELSE IF t.tag # 160 THEN [rc |-> "success", ctrls |-> <<>>]
        ELSE ControlsUpTo(t.rest, Len(t.rest) - t.len)

-----------------------------------------------------------------------------
(* The result of an operation *)
Final(m)  == m.type \notin {ResEntry, ResReference, ResPartial}
FinalAt(chain) == {i \in DOMAIN chain : Final(chain[i])}
First(S)  == CHOOSE i \in S : \A j \in S : i <= j

(* the scan that goes on after another, and the element that may come next *)
Then(st, fmt) == IF ~st.ok THEN st
                 ELSE LET n == Scan(fmt, st.rest) IN IF n.ok THEN [n EXCEPT !.out = st.out \o @] ELSE n
Optional(st, tag, letter) ==
    IF st.ok /\ Peek(st.rest) = tag THEN Then(st, <<letter>>)
    ELSE IF letter = "x" THEN st ELSE [st EXCEPT !.out = Append(@, None)]

SkipMut(st, type) == st

(* what a bind or an extended operation has after the common part *)
Skip(st, type) ==
    CASE ~st.ok -> st
      [] type = ResBind -> Optional(st, 135, "x")
      [] type = ResExtended -> LET oid == Optional(st, 138, "x") IN IF oid.ok THEN Optional(oid, 139, "x") ELSE oid
      [] OTHER -> st

(* ldap_parse_result: the first message of the chain that is final.  The   *)
(* referrals and controls are only read when they are asked for. *)
ParseResult(version, chain, all) ==
    LET m     == chain[First(FinalAt(chain))]
        v1    == Scan(<<"{", "i", "a", "}">>, m.octets)
        head  == Scan(<<"{", "i", "a", "a">>, m.octets)
        refs  == IF ~head.ok THEN head
                 ELSE IF all THEN Optional(head, 163, "v")
                 ELSE LET x == Optional(head, 163, "x") IN IF x.ok THEN [x EXCEPT !.out = Append(@, None)] ELSE x
        end   == Skip(refs, m.type)
        ctrls == IF all THEN GetControls(end.rest) ELSE [rc |-> "success", ctrls |-> <<>>]
        rc    == IF Cardinality(FinalAt(chain)) > 1 THEN "more results to return" ELSE "success"
    IN  IF FinalAt(chain) = {} THEN [rc |-> "no results returned"]
        ELSE IF version < 2
        THEN IF v1.ok THEN [rc |-> rc, err |-> v1.out[1], matched |-> None, msg |-> v1.out[2], refs |-> None, ctrls |-> <<>>]
             ELSE Bad
        ELSE IF ~end.ok THEN Bad
        ELSE IF ctrls.rc # "success" THEN Bad
        ELSE [rc |-> rc, err |-> end.out[1], matched |-> end.out[2], msg |-> end.out[3], refs |-> end.out[4],
              ctrls |-> ctrls.ctrls]

(* a return value: the server's result code, or a name where that is 0 *)
Code(n, rc) == IF n # 0 THEN [rc |-> "result code", err |-> n] ELSE [rc |-> rc, err |-> 0]

Result2Error(version, chain) ==
    LET r == ParseResult(version, chain, FALSE)
    IN  IF r.rc \in {"success", "more results to return"} THEN Code(r.err, r.rc) ELSE Code(0, r.rc)

(* ldap_parse_sasl_bind_result and ldap_parse_extended_result pass over    *)
(* referrals and read what ldap_parse_result passes over *)
ParseBind(version, m) ==
    LET head == Scan(IF version < 2 THEN <<"{", "i", "a", "}">> ELSE <<"{", "i", "a", "a">>, m.octets)
        refs == IF head.ok THEN Optional(head, 163, "x") ELSE head
        st   == IF ~refs.ok \/ version < 2 THEN refs ELSE Optional(refs, 135, "O")
    IN  IF m.type # ResBind THEN Param
        ELSE IF ~st.ok THEN Bad
        ELSE [rc |-> st.out[1], creds |-> IF version < 2 THEN None ELSE st.out[4]]

OidValue(st) ==
    LET oid == IF st.ok THEN Optional(st, 138, "a") ELSE st
    IN  IF oid.ok THEN Optional(oid, 139, "O") ELSE oid

ParseExtended(version, m) ==
    LET head == Scan(<<"{", "i", "a", "a">>, m.octets)
        st   == OidValue(IF head.ok THEN Optional(head, 163, "x") ELSE head)
    IN  IF version < 3 THEN [rc |-> "not supported"]
        ELSE IF m.type # ResExtended THEN Param
        ELSE IF ~st.ok THEN Bad
        ELSE [rc |-> "success", err |-> st.out[1], oid |-> st.out[4], data |-> st.out[5]]

(* a partial response; a failure to read its controls is not reported *)
ParsePartial(version, m) ==
    LET st    == OidValue(Scan(<<"{">>, m.octets))
        ctrls == GetControls(st.rest)
    IN  IF version < 3 THEN [rc |-> "not supported"]
        ELSE IF m.type # ResPartial THEN Param
        ELSE IF ~st.ok THEN Bad
        ELSE [rc |-> "success", oid |-> st.out[1], data |-> st.out[2],
              ctrls |-> IF ctrls.rc = "success" THEN ctrls.ctrls ELSE <<>>]

ParseReference(m) ==
    LET st    == Scan(<<"{", "v">>, m.octets)
        ctrls == GetControls(st.rest)
    IN  IF m.type # ResReference THEN Param
        ELSE IF ~st.ok THEN Bad
        ELSE IF ctrls.rc # "success" THEN Bad
        ELSE [rc |-> "success", refs |-> st.out[1], ctrls |-> ctrls.ctrls]

-----------------------------------------------------------------------------
(* Entries *)
GetDn(m) == LET st == Scan(<<"{", "a">>, m.octets) IN IF st.ok THEN st.out[1] ELSE None

EntryControls(m) ==
    LET st == Scan(<<"{", "x", "x">>, m.octets)
    IN  IF m.type # ResEntry THEN Param
        ELSE IF ~st.ok THEN Bad
        ELSE GetControls(st.rest)

(* ldap_first_attribute and ldap_next_attribute: to the end of the list of *)
(* attributes, or the first that cannot be read *)
RECURSIVE AttributesOf(_)
AttributesOf(s) ==
    LET one == Scan(<<"{", "a", "x">>, s)
    IN  IF s = <<>> THEN <<>> ELSE IF ~one.ok THEN <<None>> ELSE one.out \o AttributesOf(one.rest)

Attributes(m) ==
    LET st == Scan(<<"{", "x", "l", "{">>, m.octets)
    IN  IF ~st.ok THEN <<None>> ELSE AttributesOf(SubSeq(st.rest, 1, st.out[1]))

(* ldap_get_values: from one attribute to the next, by their type; it does *)
(* not know where the list ends *)
RECURSIVE ValuesFrom(_, _)
ValuesFrom(st, target) ==
    IF ~st.ok THEN None
    ELSE IF SameCase(Last(st.out), target)
    THEN LET v == Scan(<<"[", "v", "]">>, st.rest) IN IF v.ok THEN v.out[1] ELSE None
    ELSE ValuesFrom(Scan(<<"x", "}", "{", "a">>, st.rest), target)
GetValues(m, target) == ValuesFrom(Scan(<<"{", "x", "{", "{", "a">>, m.octets), target)

-----------------------------------------------------------------------------
(* Chains: the messages of one type in order, as ldap_first_entry and      *)
(* ldap_next_entry find them (ldap_first_reference alike) and ldap_count_  *)
(* entries counts them; 0 is no message. *)
RECURSIVE Walk(_, _, _)
NextOf(chain, i, type) ==
    LET later == {j \in i + 1..Len(chain) : chain[j].type = type} IN IF later = {} THEN 0 ELSE First(later)
FirstOf(chain, type) == IF chain[1].type = type THEN 1 ELSE NextOf(chain, 1, type)
Walk(chain, i, type) == IF i = 0 THEN <<>> ELSE <<i>> \o Walk(chain, NextOf(chain, i, type), type)
Count(chain, type)   == Cardinality({i \in DOMAIN chain : chain[i].type = type})

DeleteEntry(chain, i) == SubSeq(chain, 1, i - 1) \o SubSeq(chain, i + 1, Len(chain))
AddEntry(chain, m)    == <<m>> \o chain

(* strcasecmp of two strings *)
Before1(a, b) ==
    LET x == Lowered(a)  y == Lowered(b)
        differ == {i \in DOMAIN x : i \in DOMAIN y /\ x[i] # y[i]}
    IN  IF differ = {} THEN Len(a) < Len(b) ELSE x[First(differ)] < y[First(differ)]

(* et_cmp: by the first value that differs, a list that ends before one    *)
(* that goes on, and no values before any *)
Less(a, b) ==
    LET differ == {i \in DOMAIN a : i \in DOMAIN b /\ (Before1(a[i], b[i]) \/ Before1(b[i], a[i]))}
    IN  IF b = None THEN FALSE
        ELSE IF a = None THEN TRUE
        ELSE IF differ = {} THEN Len(a) < Len(b) ELSE Before1(a[First(differ)], b[First(differ)])

(* ldap_sort_entries: as many messages from the head as there are entries *)
SortEntries(chain, attr) ==
    LET n    == Count(chain, ResEntry)
        keys == [i \in 1..n |-> [m |-> chain[i], vals |-> GetValues(chain[i], attr)]]
        less(a, b) == Less(a.vals, b.vals)
        sorted == SortSeq(SubSeq(keys, 1, n), less)
    IN  IF n < 2 THEN chain
        ELSE [i \in 1..n |-> sorted[i].m] \o SubSeq(chain, n + 1, Len(chain))
=============================================================================
