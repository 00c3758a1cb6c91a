------------------------------- MODULE Filter -------------------------------
(***************************************************************************)
(* Search filters: put_filter of search.c, which writes the elements of a  *)
(* filter's string.  A string is a sequence of characters, runs of letters *)
(* being one.  What is written is a sequence of filters: [op, list] for    *)
(* "&", "|" and "!", [op, type, parts] for substrings and [op, type,       *)
(* value] for the others.                                                  *)
(***************************************************************************)
EXTENDS Integers, SequencesExt, FiniteSetsExt

CONSTANT Hex        \* what two hexadecimal digits stand for: a function of pairs

HexDigits == UNION {Range(pair) : pair \in DOMAIN Hex}
Special   == {"(", ")", "&", "|", "!", "=", "<", ">", "~", ":", "*", "\\", " ", "_"}
Digits    == {"0", "1", "2", "3"}
Failed    == <<[op |-> "failed"]>>
Bad(fs)   == fs = Failed
NoValue   == <<"no value">>       \* what an escape that is cut off stands for

SkipBlanks(s) == LET n == Min({Len(s) + 1} \cup {i \in DOMAIN s : s[i] # " "}) IN SubSeq(s, n, Len(s))
Before(s, c) == LET n == SelectInSeq(s, LAMBDA t : t = c) IN IF n = 0 THEN s ELSE SubSeq(s, 1, n - 1)
After(s, c)  == SubSeq(s, SelectInSeq(s, LAMBDA t : t = c) + 1, Len(s))
Has(s, c)    == c \in Range(s)

(* ldap_is_attr_desc, ldap_is_attr_oid *)
IsAttrDesc(s) == s # <<>> /\ Range(s) \cap Special = {}
IsAttrOid(s)  == /\ Range(s) \subseteq Digits \cup {"."} /\ s # <<>>
                 /\ Last(s) # "." /\ s[1] # "."
                 /\ \A i \in 1..Len(s) - 1 : s[i] = "." => s[i + 1] # "."

(* find_right_paren: the parenthesis that closes the one before s, or 0; a *)
(* character after a backslash is not looked at *)
RightParen(s) ==
    LET step(st, i) ==
            IF st.balance = 0 THEN st
            ELSE IF st.escape \/ s[i] \notin {"\\", "(", ")"} THEN [st EXCEPT !.escape = FALSE]
            ELSE CASE s[i] = "\\" -> [st EXCEPT !.escape = TRUE]
                   [] s[i] = "("  -> [st EXCEPT !.balance = @ + 1]
                   [] s[i] = ")"  -> [st EXCEPT !.balance = @ - 1, !.at = i]
        end == FoldLeftDomain(step, [balance |-> 1, at |-> 0, escape |-> FALSE], s)
    IN  IF end.balance = 0 THEN end.at ELSE 0

(* ldap_pvt_find_wildcard, or 0 *)
Wildcard(s) ==
    LET step(st, i) == IF st.at > 0 THEN st
                       ELSE IF st.escape THEN [st EXCEPT !.escape = FALSE]
                       ELSE [at |-> IF s[i] = "*" THEN i ELSE 0, escape |-> s[i] = "\\"]
    IN  FoldLeftDomain(step, [at |-> 0, escape |-> FALSE], s).at

(* ldap_pvt_filter_value_unescape: two digits (LDAPv3) or a character *)
RECURSIVE ValueUnescape(_)
ValueUnescape(s) ==
    LET next(n, c) == LET r == ValueUnescape(SubSeq(s, n + 1, Len(s))) IN IF r = NoValue THEN r ELSE <<c>> \o r
    IN  IF s = <<>> THEN <<>>
        ELSE IF s[1] # "\\" THEN next(1, s[1])
        ELSE IF Len(s) = 1 THEN NoValue
        ELSE IF s[2] \notin HexDigits THEN next(2, s[2])
        ELSE IF Len(s) = 2 \/ s[3] \notin HexDigits THEN NoValue
        ELSE next(3, Hex[<<s[2], s[3]>>])

-----------------------------------------------------------------------------
Assertion(op, type, value) ==
    LET v == ValueUnescape(value) IN IF v = NoValue THEN Failed ELSE <<[op |-> op, type |-> type, value |-> v]>>

(* put_substring_filter: the parts between the stars, those that are empty *)
(* left out *)
RECURSIVE Parts(_)
Parts(s) == IF Wildcard(s) = 0 THEN <<s>>
            ELSE <<SubSeq(s, 1, Wildcard(s) - 1)>> \o Parts(SubSeq(s, Wildcard(s) + 1, Len(s)))

PutSubstring(type, value) ==
    LET parts == Parts(value)
        kind(k) == IF k = 1 THEN "initial" ELSE IF k = Len(parts) THEN "final" ELSE "any"
        strings == [k \in DOMAIN parts |-> [kind |-> kind(k), value |-> ValueUnescape(parts[k])]]
    IN  IF \E k \in DOMAIN strings : strings[k].value = NoValue THEN Failed
        ELSE <<[op |-> "substrings", type |-> type, parts |-> SelectSeq(strings, LAMBDA p : p.value # <<>>)]>>

(* type[:dn][:rule] or [:dn]:rule before ":=" *)
PutExtensible(s, value) ==
    LET type == Before(s, ":")
        one  == After(s, ":")
        two  == Has(one, ":")
        dn   == Has(s, ":") /\ Before(one, ":") = <<"dn">>
        rule == IF ~Has(s, ":") THEN <<>> ELSE IF two THEN After(one, ":") ELSE IF dn THEN <<>> ELSE one
        v    == ValueUnescape(value)
    IN  IF \/ two /\ ~dn
           \/ ((~two /\ (dn \/ ~Has(s, ":"))) \/ type # <<>>) /\ ~IsAttrDesc(type)
           \/ type = <<>> /\ rule = <<>>
           \/ rule # <<>> /\ ~IsAttrOid(rule)
           \/ v = NoValue
        THEN Failed
        ELSE <<[op |-> "extensible", type |-> type, rule |-> rule, dn |-> dn, value |-> v]>>

Ordering == [c \in {"<", ">", "~"} |-> CASE c = "<" -> "le" [] c = ">" -> "ge" [] c = "~" -> "approx"]

PutSimple(s) ==
    LET left  == Before(s, "=")
        value == After(s, "=")
        c     == IF left = <<>> THEN "" ELSE Last(left)
    IN  IF ~Has(s, "=") THEN Failed
        ELSE IF c \in DOMAIN Ordering
        THEN IF IsAttrDesc(Front(left)) THEN Assertion(Ordering[c], Front(left), value) ELSE Failed
        ELSE IF c = ":" THEN PutExtensible(Front(left), value)
        ELSE IF Wildcard(value) = 0 THEN Assertion("equality", left, value)
        ELSE IF value = <<"*">> THEN <<[op |-> "present", type |-> left, value |-> <<>>]>>
        ELSE PutSubstring(left, value)

(* both failed, or one after the other *)
Both(a, b) == IF Bad(a) \/ Bad(b) THEN Failed ELSE a \o b

RECURSIVE PutFilter(_), PutList(_)

(* put_filter_list: one filter after another; a parenthesis is only looked *)
(* for from the second character on *)
PutList(str) ==
    LET s   == SkipBlanks(str)
        end == RightParen(Tail(s)) + 1
    IN  IF s = <<>> THEN <<>>
        ELSE IF end = 1 THEN Failed
        ELSE Both(PutFilter(SubSeq(s, 1, end)), PutList(SubSeq(s, end + 1, Len(s))))

(* put_complex_filter; "!" is written as "&" is *)
PutComplex(op, s) ==
    LET list == PutList(s) IN IF Bad(list) THEN Failed ELSE <<[op |-> op, list |-> list]>>

PutFilter(s) ==
    LET inner == SkipBlanks(Tail(s))
        body  == IF inner[1] \in {"&", "|", "!"} THEN Tail(inner) ELSE inner
        end   == RightParen(body)
        within == SubSeq(body, 1, end - 1)
    IN  IF s = <<>> THEN <<>>
        ELSE IF s[1] = " " THEN PutFilter(Tail(s))
        ELSE IF s[1] = ")" THEN Failed
        ELSE IF s[1] # "(" THEN PutSimple(s)
        ELSE IF inner = <<>> \/ end = 0 THEN Failed
        ELSE Both(IF inner[1] \in {"&", "|", "!"} THEN PutComplex(inner[1], within) ELSE PutSimple(within),
                  PutFilter(SubSeq(body, end + 1, Len(body))))
=============================================================================
