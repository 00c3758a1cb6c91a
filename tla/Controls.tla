------------------------------ MODULE Controls ------------------------------
(***************************************************************************)
(* The controls that the library makes and takes apart itself: server side *)
(* sorting and virtual lists.  A control is a record of oid, critical and  *)
(* value, and lists are as in Requests; an OID is a name of one octet.     *)
(***************************************************************************)
EXTENDS Requests

SortRequest  == <<1>>
SortResponse == <<2>>
VlvRequest   == <<3>>
VlvResponse  == <<4>>

(* ldap_create_control: the octets that were written, flattened *)
Create(oid, fmt, der, critical) == [oid |-> oid, critical |-> critical, value |-> Printf(fmt, der)]

-----------------------------------------------------------------------------
(* Sort keys, [attr, rule, reverse], from a string of octets               *)
Blanks     == {9, 10, 32}       \* LDAP_SPACE
Ends       == {9, 32}           \* what ends a key or a rule for strcspn
Colon      == 58
Minus      == 45
Fails(rc)  == [rc |-> rc]

(* the length of what has none of the octets of a set in front *)
Cspn(s, set) ==
    LET ends == {i \in DOMAIN s : s[i] \in set}
    IN  IF ends = {} THEN Len(s) ELSE (CHOOSE i \in ends : \A j \in ends : i <= j) - 1
From(s, n)     == SubSeq(s, n + 1, Len(s))
SkipBlank(s)   == From(s, Cspn(s, 0..255 \ Blanks))

(* countKeys: the places where a key starts *)
CountKeys(s) == Cardinality({i \in DOMAIN s : s[i] \notin Blanks /\ (i = 1 \/ s[i - 1] \in Blanks)})

(* readNextKey: [-]attribute[:[OID]]; a key ends at a space or a tab only *)
ReadNextKey(st) ==
    LET p    == SkipBlank(st.rest)
        q    == IF p # <<>> /\ p[1] = Minus THEN Tail(p) ELSE p
        n    == Cspn(q, Ends \cup {Colon})
        more == From(q, n)
        rule == IF more # <<>> /\ more[1] = Colon THEN SubSeq(more, 2, Cspn(more, Ends)) ELSE <<>>
        rest == IF more # <<>> /\ more[1] = Colon THEN From(more, Cspn(more, Ends)) ELSE more
    IN  IF st.rc # "success" THEN st
        ELSE IF n = 0 THEN Fails("param error")
        ELSE [rc |-> "success", rest |-> rest,
              keys |-> Append(st.keys, [attr |-> SubSeq(q, 1, n), reverse |-> q # p,
                                        rule |-> IF rule = <<>> THEN None ELSE rule])]

(* ldap_create_sort_keylist: as many keys as were counted, or none of them *)
KeyList(s) ==
    LET read == FoldLeft(LAMBDA st, i : ReadNextKey(st), [rc |-> "success", rest |-> s, keys |-> <<>>],
                         [i \in 1..CountKeys(s) |-> i])
    IN  IF CountKeys(s) = 0 \/ read.rc # "success" THEN Fails("param error")
        ELSE [rc |-> "success", keys |-> read.keys]

SortKey(k) ==
    Braces(Arg("s", k.attr) \o (IF k.rule = None THEN <<>> ELSE Tagged(128, Arg("s", k.rule)))
           \o (IF k.reverse THEN Tagged(129, Arg("b", 1)) ELSE <<>>))

SortControl(keys, critical, der) == Create(SortRequest, Braces(Each(SortKey, keys)), der, critical)

-----------------------------------------------------------------------------
(* A virtual list, [before, after, offset, count, value, context]: by      *)
(* offset where there is no value.  Its control is always critical. *)
Target(v) ==
    IF v.value = None THEN Tagged(160, Braces(Arg("i", v.offset) \o Arg("i", v.count)))
    ELSE Tagged(129, Arg("O", v.value))

VlvControl(v, der) ==
    Create(VlvRequest,
           Braces(Arg("i", v.before) \o Arg("i", v.after) \o Target(v)
                  \o (IF v.context = None THEN <<>> ELSE Tagged(4, Arg("O", v.context)))),
           der, TRUE)

-----------------------------------------------------------------------------
(* Answers: the first control with the OID, what it begins with, and then  *)
(* the element that the caller may want and the server may have sent.      *)
Find(ctrls, oid) == IF ctrls = None THEN 0 ELSE SelectInSeq(ctrls, LAMBDA c : c.oid = oid)

Then(head, wanted, tag, letter) ==
    LET next == SkipTag(head.rest)
    IN  IF ~head.ok THEN head
        ELSE IF ~wanted \/ ~next.ok \/ next.tag # tag THEN [head EXCEPT !.out = Append(@, None)]
        ELSE LET st == Scanf(<<"t", letter>>, head.rest, 0)
             IN  IF st.ok THEN [st EXCEPT !.out = Append(head.out, @[2])] ELSE st

ParseSort(ctrls, wanted) ==
    LET i  == Find(ctrls, SortResponse)
        st == Then(Scanf(<<"{", "e">>, ctrls[i].value, 0), wanted, 128, "a")
    IN  IF i = 0 THEN Fails("control not found")
        ELSE IF ~st.ok THEN Fails("decoding error")
        ELSE [rc |-> "success", code |-> st.out[1], attribute |-> st.out[2]]

ParseVlv(ctrls, wanted) ==
    LET i  == Find(ctrls, VlvResponse)
        st == Then(Scanf(<<"{", "i", "i", "e">>, ctrls[i].value, 0), wanted, 4, "O")
    IN  IF i = 0 THEN Fails("control not found")
        ELSE IF ~st.ok THEN Fails("decoding error")
        ELSE [rc |-> "success", pos |-> st.out[1], count |-> st.out[2], code |-> st.out[3], context |-> st.out[4]]
=============================================================================
