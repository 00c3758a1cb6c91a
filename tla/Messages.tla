------------------------------ MODULE Messages ------------------------------
(***************************************************************************)
(* Requests and results against LDAPMessage of the protocol, as its        *)
(* definition stands in the comments of the operations (search.c 278,      *)
(* modify.c 57, sbind.c 14, error.c 178, references.c): the tree of the    *)
(* elements of a request, and messages that a server writes.               *)
(***************************************************************************)
EXTENDS Integers, SequencesExt, FiniteSetsExt

CONSTANTS None, Lower

R == INSTANCE Requests
S == INSTANCE Results
T == INSTANCE Controls
Y == INSTANCE SyncCalls

-----------------------------------------------------------------------------
(* The tree of elements; bit 6 of a tag says that an element has elements *)
Node(tag, kids)   == [tag |-> tag, kids |-> kids]
Leaf(tag, octets) == [tag |-> tag, octets |-> octets]
Number(tag, n)    == [tag |-> tag, n |-> n]

RECURSIVE Tree(_)
Tree(s) ==
    LET e == R!Take(s)
        x == IF (e.tag \div 32) % 2 = 1 THEN Node(e.tag, Tree(e.octets))
             ELSE IF e.tag \in {1, 2, 10} THEN Number(e.tag, R!Signed(e.octets))
             ELSE Leaf(e.tag, e.octets)
    IN  IF s = <<>> THEN <<>> ELSE IF ~e.ok THEN <<Node(-1, <<>>)>> ELSE <<x>> \o Tree(e.rest)

Str(s)      == Leaf(4, s)
Str0(s)     == Str(IF s = None THEN <<>> ELSE s)
IntElement(n)      == Number(2, n)
Enum(n)     == Number(10, n)
Bool(b)     == Number(1, IF b THEN -1 ELSE 0)
Sequence(k) == Node(48, k)
Map(Op(_), s) == [i \in DOMAIN s |-> Op(s[i])]
Maybe(b, x) == IF b THEN <<x>> ELSE <<>>

Control(c)  == Sequence(<<Str(c.oid)>> \o Maybe(c.critical, Bool(TRUE))
                        \o (IF c.value = None THEN <<>> ELSE <<Str(c.value)>>))
Attribute(a) == Sequence(<<Str(a.type), Node(49, Map(Str, a.values))>>)

RECURSIVE FilterTree(_)
FilterTree(f) ==
    CASE f.op = "&" -> Node(160, Map(FilterTree, f.list))
      [] f.op = "|" -> Node(161, Map(FilterTree, f.list))
      [] f.op = "!" -> Node(162, Map(FilterTree, f.list))
      [] f.op = "equality" -> Node(163, <<Str(f.type), Str(f.value)>>)
      [] f.op = "substrings" ->
           Node(164, <<Str(f.type), Sequence(Map(LAMBDA p : Leaf(CASE p.kind = "initial" -> 128 [] p.kind = "any" -> 129
                                                                   [] p.kind = "final" -> 130, p.value), f.parts))>>)
      [] f.op = "ge" -> Node(165, <<Str(f.type), Str(f.value)>>)
      [] f.op = "le" -> Node(166, <<Str(f.type), Str(f.value)>>)
      [] f.op = "present" -> Leaf(135, f.type)
      [] f.op = "approx" -> Node(168, <<Str(f.type), Str(f.value)>>)
      [] f.op = "extensible" ->
           Node(169, Maybe(f.rule # <<>>, Leaf(129, f.rule)) \o Maybe(f.type # <<>>, Leaf(130, f.type))
                     \o <<Leaf(131, f.value), Leaf(132, IF f.dn THEN <<255>> ELSE <<0>>)>>)

Operation(ld, op) ==
    CASE op.kind = "bind" ->
           Node(96, <<IntElement(ld.version), Str0(IF op.dn = None /\ op.mech = None /\ op.cred # None THEN ld.binddn ELSE op.dn),
                      IF op.mech = None THEN Leaf(128, IF op.cred = None THEN <<>> ELSE op.cred)
                      ELSE Node(163, <<Str(op.mech)>> \o (IF op.cred \in {None, <<>>} THEN <<>> ELSE <<Str(op.cred)>>))>>)
      [] op.kind = "search" ->
           Node(99, <<Str0(IF op.base = None THEN ld.defbase ELSE op.base), Enum(op.scope), Enum(ld.deref),
                      IntElement(IF op.sizelimit < 0 THEN ld.sizelimit ELSE op.sizelimit),
                      IntElement(IF op.timeout = None THEN ld.timelimit ELSE Max({1, op.timeout.sec})),
                      Bool(op.attrsonly = 1), FilterTree(op.filter), Sequence(Map(Str, op.attrs))>>)
      [] op.kind = "add" -> Node(104, <<Str(op.dn), Sequence(Map(Attribute, op.attrs))>>)
      [] op.kind = "modify" ->
           Node(102, <<Str(op.dn), Sequence(Map(LAMBDA m : Sequence(<<Enum(m.op), Attribute(m)>>), op.mods))>>)
      [] op.kind = "rename" ->
           Node(108, <<Str(op.dn), Str(op.newrdn), Bool(op.deleteold = 1)>>
                     \o (IF op.superior = None THEN <<>> ELSE <<Leaf(128, op.superior)>>))
      [] op.kind = "compare" -> Node(110, <<Str(op.dn), Sequence(<<Str(op.attr), Str(op.value)>>)>>)
      [] op.kind = "delete" -> Leaf(74, op.dn)
      [] op.kind = "extended" ->
           Node(119, <<Leaf(128, op.oid)>> \o (IF op.data = None THEN <<>> ELSE <<Leaf(129, op.data)>>))

Wanted(ctrls, default) == IF ctrls # None THEN ctrls ELSE IF default # None THEN default ELSE <<>>
Critical(ctrls) == {i \in DOMAIN ctrls : ctrls[i].critical}

(* A request has the tree of its operation and the controls that the call  *)
(* or the session wants, or is not sent: when it would leave out a control *)
(* that is critical or needs LDAPv3.                                       *)
RequestExact(x) ==
    LET ld == x.ld  op == x.op
        server == Wanted(op.sctrls, ld.sctrls)
        client == Wanted(op.cctrls, ld.cctrls)
        v3     == \/ op.kind = "extended" \/ (op.kind = "bind" /\ op.mech # None) \/ (op.kind = "rename" /\ op.superior # None)
        nothing == op.kind = "search" /\ op.timeout = [sec |-> 0, usec |-> 0]
        ctrls  == IF ld.version = 3 /\ server # <<>> THEN <<Node(160, Map(Control, server))>> ELSE <<>>
        tree   == <<Sequence(<<IntElement(7), Operation(ld, op)>> \o ctrls)>>
    IN  \A der \in BOOLEAN :
          LET r == R!Request(ld, op, 7, der)
          IN  /\ r.sent <=> /\ Critical(client) = {} \/ op.kind = "extended"
                            /\ ld.version = 3 \/ (Critical(server) = {} /\ ~v3)
                            /\ ~nothing
              /\ r.sent => Tree(r.octets) = tree

-----------------------------------------------------------------------------
(* Messages of a server: [type, body, ctrls], body by type *)
Strings(tag, strs) == R!Tagged(tag, R!Letter("{") \o R!Arg("v", strs) \o R!Letter("}"))
OrNot(tag, v)      == IF v = None THEN <<>> ELSE R!Tagged(tag, R!Arg("O", v))

Common(b) == R!Arg("e", b.err) \o R!Arg("s", b.matched) \o R!Arg("s", b.msg)
             \o (IF b.refs = None THEN <<>> ELSE Strings(163, b.refs))

ServerBody(m) ==
    LET b == m.body
    IN  CASE m.type = 100 -> R!Arg("s", b.dn) \o R!Braces(R!Each(R!ModAdd, b.attrs))
          [] m.type = 115 -> R!Arg("v", b)
          [] m.type = 121 -> OrNot(138, b.oid) \o OrNot(139, b.data)
          [] m.type = 97  -> Common(b) \o OrNot(135, b.creds)
          [] m.type = 120 -> Common(b) \o OrNot(138, b.oid) \o OrNot(139, b.data)
          [] OTHER -> Common(b)

ServerControls(ctrls) ==
    IF ctrls = <<>> THEN <<>> ELSE R!Tagged(160, R!Letter("{") \o R!Each(R!Control, ctrls) \o R!Letter("}"))

Received(m, der) ==
    [type |-> m.type,
     octets |-> R!Printf(R!Tagged(m.type, R!Braces(ServerBody(m))) \o ServerControls(m.ctrls), der)]

Named(ctrls) == Map(LAMBDA c : [oid |-> c.oid, value |-> c.value], ctrls)
Is(m, type)  == m.type = type
IsFinal(m)   == m.type \notin {100, 115, 121}

(* what the message says, and what is read out of it *)
EntryExact(m, w) ==
    LET types == Map(LAMBDA a : a.type, m.body.attrs)
    IN  /\ S!GetDn(w) = m.body.dn
        /\ S!Attributes(w) = types
        /\ Named(S!EntryControls(w).ctrls) = Named(m.ctrls)
        /\ \A i \in DOMAIN types : S!GetValues(w, types[i]) = m.body.attrs[SelectInSeq(types, LAMBDA t : S!SameCase(t, types[i]))].values
        /\ S!GetValues(w, <<0>>) = None

MessageExact(m, w) ==
    LET b == m.body
    IN  CASE m.type = 100 -> EntryExact(m, w)
          [] m.type = 115 -> LET r == S!ParseReference(w) IN r.rc = "success" /\ r.refs = b /\ Named(r.ctrls) = Named(m.ctrls)
          [] m.type = 121 -> LET r == S!ParsePartial(3, w)
                             IN  r.rc = "success" /\ r.oid = b.oid /\ r.data = b.data /\ Named(r.ctrls) = Named(m.ctrls)
          [] m.type = 97  -> S!ParseBind(3, w) = [rc |-> b.err, creds |-> b.creds]
          [] m.type = 120 -> S!ParseExtended(3, w) = [rc |-> "success", err |-> b.err, oid |-> b.oid, data |-> b.data]
          [] OTHER -> TRUE

(* The chain's result is that of its first final message, with everything  *)
(* that the message says wherever it stands in the chain, and the messages *)
(* of each type are found in their order; of a message that is cut off,    *)
(* nothing is read.                                                        *)
ResultExact(chain) ==
    LET finals == SelectSeq(chain, IsFinal)
        f      == finals[1]
        rc     == IF Len(finals) > 1 THEN "more results to return" ELSE "success"
    IN  \A der \in BOOLEAN :
          LET recv  == [i \in DOMAIN chain |-> Received(chain[i], der)]
              full  == S!ParseResult(3, recv, TRUE)
              short == [i \in DOMAIN recv |-> [recv[i] EXCEPT !.octets = SubSeq(@, 1, Len(@) - 1)]]
          IN  /\ \A i \in DOMAIN chain : MessageExact(chain[i], recv[i])
              /\ \A type \in {100, 115} :
                   /\ S!Walk(recv, S!FirstOf(recv, type), type) = SelectSeq([i \in DOMAIN chain |-> i], LAMBDA i : chain[i].type = type)
                   /\ S!Count(recv, type) = Len(SelectSeq(chain, LAMBDA m : m.type = type))
              /\ IF finals = <<>> THEN full = [rc |-> "no results returned"]
                 ELSE /\ [full EXCEPT !.ctrls = Named(@)] =
                           [rc |-> rc, err |-> f.body.err, matched |-> f.body.matched, msg |-> f.body.msg, refs |-> f.body.refs,
                            ctrls |-> Named(f.ctrls)]
                      /\ S!Result2Error(3, recv) = S!Code(f.body.err, rc)
                      /\ S!ParseResult(3, short, TRUE) = S!Bad

Below(x, y, Le(_, _)) ==
    \/ \A i \in DOMAIN x : i \in DOMAIN y /\ x[i] = y[i]
    \/ \E k \in DOMAIN x : /\ k \in DOMAIN y /\ x[k] # y[k] /\ Le(x[k], y[k])
                          /\ \A i \in 1..k - 1 : x[i] = y[i]
StringsInOrder(a, b) == Below(a, b, LAMBDA c, d : c <= d)
InOrder(a, b) ==
    a = None \/ (b # None /\ Below(Map(S!Lowered, a), Map(S!Lowered, b), StringsInOrder))

(* An entry taken out of a chain and put at its head is sorted as well as  *)
(* where it was *)
Keys(chain, type) == Map(LAMBDA m : S!GetValues(m, type), S!SortEntries(chain, type))
SortedSame(chain, i, type) ==
    Is(chain[i], 100) => Keys(S!AddEntry(S!DeleteEntry(chain, i), chain[i]), type) = Keys(chain, type)

(* Sorting the entries of a chain keeps its messages, and puts the entries *)
(* in the order of their values.                                           *)
SortExact(chain) ==
    LET recv   == [i \in DOMAIN chain |-> Received(chain[i], FALSE)]
        type   == <<97>>
        sorted == S!SortEntries(recv, type)
        at     == SelectSeq([i \in DOMAIN sorted |-> i], LAMBDA i : Is(sorted[i], 100))
        vals(i) == S!GetValues(sorted[i], type)
    IN  /\ \E p \in [DOMAIN recv -> DOMAIN recv] : /\ \A i, j \in DOMAIN recv : i # j => p[i] # p[j]
                                                   /\ \A i \in DOMAIN recv : sorted[i] = recv[p[i]]
        /\ \A i, j \in DOMAIN at : i < j => InOrder(vals(at[i]), vals(at[j]))
        /\ \A i \in DOMAIN recv : SortedSame(recv, i, type)

-----------------------------------------------------------------------------
(* The calls that wait.  Of a chain that answers its operation, a call     *)
(* returns what its first final message says, and the chain is either      *)
(* given to the caller or freed; without one, it returns why, and there is *)
(* nothing to free.  ldap_search_ext_s does not look past a reference.     *)
Started      == [code |-> Y!Success, errno |-> Y!Success, msgid |-> 3]
NotStarted   == [code |-> Y!Local("encoding error"), errno |-> Y!Local("encoding error"), msgid |-> -1]
WithoutChain == {<<NotStarted, Y!TimedOut, "encoding error">>, <<Started, Y!Lost(Y!Local("server down")), "server down">>,
                 <<Started, Y!TimedOut, "timeout">>}
Keeps(left, code, given) == left = [given |-> given, freed |-> FALSE, abandoned |-> FALSE] @@ code
Drops(left, code, given) == left = [given |-> given, freed |-> TRUE, abandoned |-> FALSE] @@ code
Updates(start, out) == {Y!AddS(3, start, out), Y!ModifyS(3, start, out), Y!RenameS(3, start, out), Y!CompareS(3, start, out),
                        Y!DeleteS(3, start, out)}
Oks == {Y!Success, Y!InProgress}

UnansweredExact(w) ==
    LET start == w[1]  out == w[2]  code == Y!Local(w[3])
    IN  /\ Keeps(Y!SearchExt(3, start, out), code, None)
        /\ Y!SearchSt(3, start, out) = [abandoned |-> out = Y!TimedOut /\ start = Started, given |-> None, freed |-> FALSE] @@ code
        /\ (out # Y!TimedOut \/ start # Started) =>
             /\ \A left \in Updates(start, out) : Keeps(left, code, None)
             /\ Keeps(Y!Extended(3, start, out), code, None)
             /\ \A want \in BOOLEAN : Keeps(Y!SaslBindS(3, want, start, out), code, None)
             /\ Y!GetMechs(3, <<97>>, start, out).rc = w[3]
        /\ Y!Msgid(start) = IF start = Started THEN 3 ELSE -1

AnsweredExact(chain, f, rc) ==
    LET recv  == [i \in DOMAIN chain |-> Received(chain[i], FALSE)]
        out   == Y!Answered(recv)
        code  == S!Code(f.body.err, rc)
        search == Y!SearchExt(3, Started, out)
    IN  /\ \A left \in Updates(Started, out) : Drops(left, code, None)
        /\ Keeps(Y!SearchSt(3, Started, out), code, recv)
        /\ Keeps(search, IF chain[1].type \in {115, 121} THEN Y!Success ELSE code, recv)
        /\ IF chain[1].type = 120
           THEN Drops(Y!Extended(3, Started, out), code, [oid |-> f.body.oid, data |-> f.body.data])
           ELSE Drops(Y!Extended(3, Started, out), Y!Local("param error"), None)
        /\ Drops(Y!BindS(3, "simple", Started, out), code, None)
        /\ IF chain[1].type = 97
           THEN Drops(Y!SaslBindS(3, TRUE, Started, out), code, IF code \in Oks THEN f.body.creds ELSE None)
           ELSE Drops(Y!SaslBindS(3, TRUE, Started, out), Y!Local("param error"), None)
        /\ Keeps(Y!BindS(3, "krbv4", Started, out), Y!Local("auth unknown"), None)
        /\ Keeps(Y!SaslBindS(2, TRUE, Started, out), Y!Local("not supported"), None)

MechsExact(chain, f) ==
    LET recv    == [i \in DOMAIN chain |-> Received(chain[i], FALSE)]
        mechs   == Y!GetMechs(3, <<97>>, Started, Y!Answered(recv))
        entries == SelectSeq(chain, LAMBDA m : m.type = 100)
        attrs   == SelectSeq(entries[1].body.attrs, LAMBDA a : S!SameCase(a.type, <<97>>))
    IN  f.body.err = 0 =>
          IF entries = <<>> THEN Drops(mechs, Y!Local("no such object"), None)
          ELSE IF attrs = <<>> THEN Drops(mechs, Y!Local("no such attribute"), None)
          ELSE /\ Drops(mechs, Y!Success, mechs.given)
               /\ mechs.given = FlattenSeq([i \in DOMAIN attrs[1].values |->
                                              (IF \E j \in 1..i - 1 : attrs[1].values[j] # <<>> THEN <<32>> ELSE <<>>) \o attrs[1].values[i]])

SyncExact(chain) ==
    LET finals == SelectSeq(chain, IsFinal)
    IN  /\ \A w \in WithoutChain : UnansweredExact(w)
        /\ finals # <<>> =>
             /\ AnsweredExact(chain, finals[1], IF Len(finals) > 1 THEN "more results to return" ELSE "success")
             /\ Len(finals) = 1 => MechsExact(chain, finals[1])

(* A SASL bind succeeds where the server's last answer is success and the  *)
(* client is satisfied: before it, and then the server has no more to say, *)
(* or by it.  Only then is its security layer installed.                   *)
SaslExact(x) ==
    LET client == IF x.answers THEN SelectSeq(x.client, LAMBDA c : c # "interact") ELSE x.client
        n      == S!First({i \in DOMAIN x.server : x.server[i].rc # 14})
        good(k) == \A i \in 1..k : client[i] \in {"ok", "continue"}
        happy  == /\ x.server[n].rc = 0 /\ good(n)
                  /\ IF client[n] = "ok" THEN ~x.server[n].data ELSE client[n + 1] = "ok"
        r      == Y!SaslBind(3, x.client, x.server, x.answers, x.ssf)
    IN  /\ r.rc = "success" <=> happy
        /\ r.installed <=> happy /\ x.ssf > 0
        /\ good(n) /\ x.server[n].rc # 0 => r.rc = "result code" /\ r.err = x.server[n].rc

-----------------------------------------------------------------------------
(* The library's own controls *)

(* A list of sort keys, separated by blanks, is read as its keys, and the  *)
(* control holds these keys; one with nothing where an attribute belongs,  *)
(* or with nothing but a newline between its keys, is refused. *)
KeyText(k) == (IF k.reverse THEN <<45>> ELSE <<>>) \o k.attr \o (IF k.rule = None THEN <<>> ELSE <<58>> \o k.rule)
KeysText(keys, gap) == FlattenSeq(Map(LAMBDA k : gap \o KeyText(k), keys))
KeyTree(k) == Sequence(<<Str(k.attr)>> \o (IF k.rule = None THEN <<>> ELSE <<Leaf(128, k.rule)>>)
                       \o Maybe(k.reverse, Leaf(129, <<255>>)))

SortKeysExact(keys) ==
    /\ \A gap \in {<<32>>, <<9, 32>>, <<32, 10>>} : \A end \in {<<>>, <<32>>} :
         T!KeyList(KeysText(keys, gap) \o end) = IF keys = <<>> THEN [rc |-> "param error"] ELSE [rc |-> "success", keys |-> keys]
    /\ \A bad \in {<<32, 45>>, <<32, 58, 50>>, <<32, 45, 32>>} : T!KeyList(KeysText(keys, <<32>>) \o bad) = [rc |-> "param error"]
    /\ Len(keys) > 1 => T!KeyList(KeysText(keys, <<10>>)) = [rc |-> "param error"]
    /\ \A der, critical \in BOOLEAN :
         LET c == T!SortControl(keys, critical, der)
         IN  Tree(c.value) = <<Sequence(Map(KeyTree, keys))>> /\ c.critical = critical

(* A virtual list's control asks for the place in the list. *)
ListExact(v) ==
    \A der \in BOOLEAN :
      Tree(T!VlvControl(v, der).value) =
        <<Sequence(<<IntElement(v.before), IntElement(v.after),
                     IF v.value = None THEN Node(160, <<IntElement(v.offset), IntElement(v.count)>>) ELSE Leaf(129, v.value)>>
                   \o (IF v.context = None THEN <<>> ELSE <<Str(v.context)>>))>>

(* What the controls of a response say of sorting and of the list is found *)
(* among them and read back. *)
SortAnswer(a, der) == R!Printf(R!Letter("{") \o R!Arg("e", a.code) \o OrNot(128, a.attribute) \o R!Letter("}"), der)
ListAnswer(a, der) == R!Printf(R!Letter("{") \o R!Arg("i", a.pos) \o R!Arg("i", a.count) \o R!Arg("e", a.code)
                               \o OrNot(4, a.context) \o R!Letter("}"), der)
Answered(oid, octets) == [oid |-> oid, critical |-> FALSE, value |-> octets]

AnswerExact(x) ==
    \A der \in BOOLEAN :
      LET other == Answered(<<9>>, <<5, 0>>)
          sort  == Answered(T!SortResponse, SortAnswer(x.sort, der))
          list  == Answered(T!VlvResponse, ListAnswer(x.list, der))
          read(ctrls) == S!ParseResult(3, <<Received([type |-> 101, ctrls |-> ctrls,
                                                      body |-> [err |-> 0, matched |-> <<>>, msg |-> <<>>, refs |-> None]], der)>>, TRUE).ctrls
          all   == read(<<other, list, sort, Answered(T!SortResponse, <<1>>)>>)
          cut(c) == read(<<[c EXCEPT !.value = SubSeq(@, 1, Len(@) - 1)]>>)
      IN  /\ T!ParseSort(all, TRUE) = [rc |-> "success"] @@ x.sort
          /\ T!ParseVlv(all, TRUE) = [rc |-> "success"] @@ x.list
          /\ T!ParseSort(all, FALSE) = [T!ParseSort(all, TRUE) EXCEPT !.attribute = None]
          /\ T!ParseVlv(all, FALSE) = [T!ParseVlv(all, TRUE) EXCEPT !.context = None]
          /\ T!ParseSort(read(<<other, list>>), TRUE) = [rc |-> "control not found"]
          /\ T!ParseVlv(None, TRUE) = [rc |-> "control not found"]
          /\ T!ParseSort(cut(sort), TRUE) = [rc |-> "decoding error"]
          /\ T!ParseVlv(cut(list), TRUE) = [rc |-> "decoding error"]
=============================================================================
