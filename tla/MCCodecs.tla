------------------------------ MODULE MCCodecs ------------------------------
(* Codecs for TLC: items at the boundaries of each format. *)
EXTENDS Codecs

Run(n) == [i \in 1..n |-> i % 256]

Ints == {-2147483647 - 1, -32769, -32768, -129, -128, -1, 0, 127, 128, 255, 32767, 32768, 8388608, 2147483647}
BerFields ==
    {[f |-> f, v |-> n, tag |-> t] : f \in {"i", "e"}, n \in Ints, t \in {0}}
    \cup {[f |-> "i", v |-> 1, tag |-> t] : t \in {128, 135, 7937, 2064641}}
    \cup {[f |-> "b", v |-> n, tag |-> 0] : n \in {0, 1}}
    \cup {[f |-> f, v |-> Run(n), tag |-> t] : f \in {"o"}, n \in {0, 1, 127, 128, 255, 256}, t \in {0, 128}}
    \cup {[f |-> "B", v |-> [octets |-> Run((n + 7) \div 8), bits |-> n], tag |-> 0] : n \in {0, 1, 7, 8, 9}}
    \cup {[f |-> "n", v |-> None, tag |-> 0], [f |-> "v", v |-> <<>>, tag |-> 0],
          [f |-> "v", v |-> <<<<>>, <<1>>, Run(128)>>, tag |-> 163]}
Some == [f |-> "o", v |-> <<7>>, tag |-> 129]
BerItems == {<<x>> : x \in BerFields} \cup {<<x, Some>> : x \in BerFields}

Points == {0, 1, 127, 128, 2047, 2048, 65535, 65536, 2097151, 2097152, 67108863, 67108864, 2147483647}
Utf8Items == {<<a, b, a>> : a, b \in Points \ {0}} \cup {<<a, a, 65>> : a \in Points \ {0}}

Values == {<<"v">>, <<"a", "\\", ",", "b">>, <<"\"", "a", ",", "b", "+", "c", "\"">>, <<"a", " ", "b">>, <<"\\", "\\">>,
           <<"\"", "a", "\\", "\"", ",", "\"">>}
Rdns   == {<<[type |-> t, value |-> v]>> : t \in {"cn", "dc"}, v \in Values}
          \cup {<<[type |-> "cn", value |-> v], [type |-> "dc", value |-> <<"w">>]>> : v \in Values}
NameItems == {<<r>> : r \in Rdns} \cup {<<q, r>> : q, r \in Rdns}

Texts == {<<>>, <<"x">>, <<"a", ",", "b">>, <<"a", "?", " ", "%">>}
UrlItems ==
    {[rc |-> "success", scheme |-> "ldap", host |-> h, port |-> p, dn |-> t, attrs |-> a, scope |-> s, filter |-> <<>>, exts |-> <<>>] :
       h \in {<<"h">>, <<"f", ":", ":", "1">>}, p \in {389, 65535}, t \in Texts, a \in {<<>>, <<<<"x">>, <<"y">>>>}, s \in {-1, 2}}
    \cup
    {[rc |-> "success", scheme |-> s, host |-> <<"h">>, port |-> L!DefaultPort(s), dn |-> <<>>, attrs |-> <<>>, scope |-> 0,
      filter |-> t, exts |-> e] :
       s \in {"ldaps", "ldap"}, t \in Texts \ {<<>>}, e \in {<<>>, <<<<"!", "x">>>>, <<<<"a", ",", "b">>, <<"c">>>>}}

Words == {<<"v">>, <<"*">>, <<"(", "w">>, <<"\\", "*", ")">>}
Simple == {[op |-> op, type |-> <<"cn">>, value |-> v] : op \in DOMAIN Marks, v \in Words}
          \cup {[op |-> "equality", type |-> <<"cn">>, value |-> <<>>], [op |-> "present", type |-> <<"cn">>, value |-> <<>>]}
Part(k, v) == [kind |-> k, value |-> v]
Substrings == {[op |-> "substrings", type |-> <<"cn">>, parts |-> v] :
                 v \in {<<Part("initial", w)>> : w \in Words} \cup {<<Part("final", w)>> : w \in Words}
                       \cup {<<Part("initial", w), Part("any", <<"x">>), Part("final", w)>> : w \in Words}
                       \cup {<<Part("any", w), Part("any", w)>> : w \in Words}}
Extensible == {[op |-> "extensible", type |-> t, rule |-> r, dn |-> d, value |-> v] :
                 t \in {<<>>, <<"cn">>}, r \in {<<>>, <<"1", ".", "2">>}, d \in BOOLEAN, v \in Words}
Leaves == Simple \cup Substrings \cup {f \in Extensible : f.type # <<>> \/ f.rule # <<>>}
Lists  == {[op |-> op, list |-> l] : op \in {"&", "|"}, l \in {<<>>} \cup {<<f>> : f \in Leaves} \cup {<<f, f>> : f \in Substrings}}
          \cup {[op |-> "!", list |-> <<f>>] : f \in Leaves}
Nested == {[op |-> "|", list |-> <<g, [op |-> "!", list |-> <<g>>]>>] : g \in {h \in Lists : Len(h.list) = 1}}
FilterItems == Leaves \cup Lists \cup Nested

Letters(n) == [i \in 1..n |-> 97 + (i % 26)]
Octets == {<<>>, <<255>>, <<32, 97>>, <<97, 32>>, <<58>>, <<60, 97>>, <<97, 10, 98>>, <<1, 1>>}
          \cup {Letters(n) : n \in {1, 2, 3, 72, 73, 74, 75, 150, 151, 152, 153}}
          \cup {Append(Letters(n), 128) : n \in {52, 53, 54, 55, 56, 57, 112, 113, 114}}
LdifLines == {[name |-> Letters(2), value |-> v] : v \in Octets} \cup {[name |-> n, value |-> Letters(2)] : n \in {<<117, 80>>} \cup {Letters(k) : k \in 74..77}}
LdifItems == {[lines |-> <<l, [name |-> Letters(2), value |-> Letters(3)]>>, size |-> z] : l \in LdifLines, z \in {10, 8192}}

(* requests *)
Base == [version |-> 3, deref |-> 0, sizelimit |-> 128, timelimit |-> 0, defbase |-> <<111>>, binddn |-> <<99>>, sctrls |-> None, cctrls |-> None]
Ctrl(c, v) == [oid |-> <<49, 46, 50>>, critical |-> c, value |-> v]
CtrlLists == {None, <<>>, <<Ctrl(FALSE, None)>>, <<Ctrl(FALSE, <<5>>), Ctrl(TRUE, <<>>)>>}
Str == <<97>>
Values3 == {<<>>, <<Str>>, <<<<>>, Run(200)>>}
Filters == {[op |-> "equality", type |-> Str, value |-> <<98>>], [op |-> "present", type |-> Str, value |-> <<>>],
            [op |-> "substrings", type |-> Str, parts |-> <<[kind |-> "initial", value |-> Str], [kind |-> "any", value |-> <<>>], [kind |-> "final", value |-> Str]>>],
            [op |-> "extensible", type |-> Str, rule |-> <<>>, dn |-> TRUE, value |-> <<>>],
            [op |-> "extensible", type |-> <<>>, rule |-> Str, dn |-> FALSE, value |-> Str]}
FilterTrees == Filters \cup {[op |-> o, list |-> <<f, [op |-> "!", list |-> <<f>>]>>] : o \in {"&", "|"}, f \in Filters}
Searches == {[kind |-> "search", base |-> b, scope |-> 2, filter |-> f, attrs |-> a, attrsonly |-> o, sizelimit |-> z, timeout |-> t] :
               b \in {None, Str}, f \in FilterTrees, a \in {<<>>, <<Str, <<42>>>>}, o \in {0, 1}, z \in {-1}, t \in {None, [sec |-> 0, usec |-> 0]}}
            \cup {[kind |-> "search", base |-> Str, scope |-> 0, filter |-> f, attrs |-> <<>>, attrsonly |-> 0, sizelimit |-> z, timeout |-> t] :
               f \in Filters, z \in {-1, 0, 200}, t \in {None, [sec |-> 0, usec |-> 7], [sec |-> 300, usec |-> 0]}}
Updates == {[kind |-> "add", dn |-> d, attrs |-> a] : d \in {Str, Run(130)}, a \in {<<>>} \cup {<<[type |-> Str, values |-> v], [type |-> Str, values |-> v]>> : v \in Values3}}
           \cup {[kind |-> "modify", dn |-> Str, mods |-> <<[op |-> o, type |-> Str, values |-> v], [op |-> 2, type |-> Str, values |-> v]>>] : o \in 0..2, v \in Values3}
           \cup {[kind |-> "rename", dn |-> Str, newrdn |-> Str, deleteold |-> o, superior |-> p] : o \in {0, 1}, p \in {None, <<>>, Str}}
           \cup {[kind |-> "compare", dn |-> Str, attr |-> Str, value |-> v] : v \in {<<>>, Run(128)}}
           \cup {[kind |-> "delete", dn |-> Run(n)] : n \in {0, 1, 128}}
Binds == {[kind |-> "bind", dn |-> d, mech |-> m, cred |-> c] : d \in {None, Str}, m \in {None, Str}, c \in {None, <<>>, Run(128)}}
Extensions == {[kind |-> "extended", oid |-> Str, data |-> d] : d \in {None, <<>>, Run(128)}}
With(s, c) == [sctrls |-> s, cctrls |-> c]
Plain == {[ld |-> Base, op |-> With(None, None) @@ o] : o \in Searches \cup Updates \cup Binds \cup Extensions}
One(S) == CHOOSE x \in S : TRUE
Chosen == {One(Searches), One(Updates), [kind |-> "delete", dn |-> Str],
           [kind |-> "rename", dn |-> Str, newrdn |-> Str, deleteold |-> 1, superior |-> Str]} \cup {One(Binds), One(Extensions)}
Controlled == {[ld |-> [Base EXCEPT !.version = v, !.sctrls = s, !.cctrls = c], op |-> With(t, d) @@ o] :
                 v \in {2, 3}, s \in CtrlLists, c \in {None, <<Ctrl(TRUE, None)>>}, t \in CtrlLists, d \in {None, <<>>}, o \in Chosen}
RequestItems == Plain \cup Controlled

(* results *)
Valued == {<<>>, <<Ctrl(FALSE, <<5>>)>>, <<Ctrl(TRUE, None), Ctrl(FALSE, None), Ctrl(TRUE, Run(128))>>}
Attr(t, v) == [type |-> t, values |-> v]
Entries == {[type |-> 100, body |-> [dn |-> Str, attrs |-> a], ctrls |-> c] :
              a \in {<<>>} \cup {<<Attr(<<97>>, v), Attr(<<65, 97>>, v), Attr(<<66>>, <<Str>>), Attr(<<98>>, <<>>)>> : v \in Values3}, c \in Valued}
Referrals == {None, <<Str>>, <<Str, Run(140)>>}
Dones == {[type |-> t, body |-> [err |-> e, matched |-> m, msg |-> Str, refs |-> r, creds |-> x, oid |-> y, data |-> x], ctrls |-> c] :
            t \in {101, 97, 120}, e \in {0, 14, 128}, m \in {<<>>}, r \in Referrals, x \in {None, Str}, y \in {None, Str}, c \in Valued}
Others == {[type |-> 115, body |-> r, ctrls |-> c] : r \in Referrals \ {None}, c \in Valued}
          \cup {[type |-> 121, body |-> [oid |-> x, data |-> y], ctrls |-> c] : x, y \in {None, Str}, c \in Valued}
AnEntry == One(Entries)
AnOther == One(Others)
ADone == One(Dones)
ResultItems == {<<m>> : m \in Entries \cup Others} \cup {<<AnEntry, AnOther, d, AnEntry>> : d \in Dones} \cup {<<d, AnEntry, ADone>> : d \in Dones}

SortValues == {<<Attr(<<65>>, v)>> : v \in {<<>>, <<<<97>>>>, <<<<66>>, <<97>>>>, <<<<98>>, <<>>>>, <<<<97, 97>>>>}} \cup {<<>>}
SortItems == {Append([i \in DOMAIN s |-> [type |-> 100, body |-> [dn |-> Str, attrs |-> s[i]], ctrls |-> <<>>]], m) :
                s \in {<<a, b, c>> : a, b, c \in SortValues} \cup {<<a>> : a \in SortValues} , m \in {AnOther, ADone}}

(* sort keys, virtual lists and the answers to them *)
Keys1 == {[attr |-> a, rule |-> r, reverse |-> b] : a \in {<<97>>, <<97, 45>>}, r \in {None, <<50>>, <<50, 58>>}, b \in BOOLEAN}
KeyItems == {<<>>} \cup {<<k>> : k \in Keys1} \cup {<<k, l>> : k, l \in Keys1} \cup {<<k, l, k>> : k, l \in Keys1}
Ints1 == {0, 1, 128}
ListItems == {[before |-> b, after |-> a, offset |-> o, count |-> c, value |-> v, context |-> x] :
                b, a, o, c \in Ints1, v \in {None, <<>>, Str}, x \in {None, <<>>, Run(128)}}
AnswerItems == {[sort |-> [code |-> c, attribute |-> a], list |-> [pos |-> p, count |-> n, code |-> c, context |-> x]] :
                  c \in {0, 53, 80}, a \in {None, <<>>, Str}, p, n \in {0, 128}, x \in {None, <<>>, Run(128)}}

(* SASL exchanges: the client goes on as long as the server may ask it to  *)
ClientAnswers == {"ok", "continue", "interact", "fail"}
ServerAnswers == {[rc |-> c, data |-> d] : c \in {0, 49}, d \in BOOLEAN}
More          == [rc |-> 14, data |-> TRUE]
SaslItems == {[client |-> c \o <<"ok", "ok">>, server |-> s, answers |-> b, ssf |-> n] :
                c \in {<<a>> : a \in ClientAnswers} \cup {<<a, b, c>> : a, b, c \in ClientAnswers},
                s \in {<<a>> : a \in ServerAnswers} \cup {<<More, a>> : a \in ServerAnswers}, b \in BOOLEAN, n \in {0, 56}}

(* schema *)
Names1 == {<<<<"cn">>>>, <<<<"cn">>, <<"sn">>, <<"ou">>>>, <<>>}
Exts1  == {<<>>, <<[name |-> "X-A", values |-> <<<<"cn">>, <<>>>>], [name |-> "X-B", values |-> <<<<"sn", " ", "ou">>>>]>>}
Oids1  == {<<<<"cn">>>>, <<<<"cn">>, <<"1.3">>, <<"sn">>>>}
Def(k, f, x) == [kind |-> k, def |-> [oid |-> <<"1.2">>, fields |-> f, ext |-> x]]
Desc1  == {<<>>} \cup {"DESC" :> <<"a", " ", "b">>}
Named1 == {<<>>} \cup {"NAME" :> n : n \in Names1}
Flags1 == {<<>>, "OBSOLETE" :> TRUE}
Sup1   == {<<>>, "SUP" :> <<"cn">>}
Rules1 == {<<>>, "EQUALITY" :> <<"cn">>, ("EQUALITY" :> <<"cn">>) @@ ("ORDERING" :> <<"1.3">>) @@ ("SUBSTR" :> <<"cn">>)}
Syntax1 == {<<>>, "SYNTAX" :> [oid |-> <<"1.3">>, len |-> 0], "SYNTAX" :> [oid |-> <<"1.3">>, len |-> 16]}
Uses1  == {<<>>, "USAGE" :> "dSAOperation", ("SINGLE-VALUE" :> TRUE) @@ ("COLLECTIVE" :> TRUE) @@ ("NO-USER-MODIFICATION" :> TRUE) @@ ("USAGE" :> "directoryOperation")}
SchemaItems ==
    {Def("syntax", n @@ d, x) : n \in Named1, d \in Desc1, x \in Exts1}
    \cup {Def("matchingrule", n @@ d @@ o @@ y, x) : n \in Named1, d \in Desc1, o \in Flags1, y \in {<<>>, "SYNTAX" :> <<"1.3">>}, x \in Exts1}
    \cup {Def("attributetype", n @@ o @@ u @@ r @@ y @@ w, x) :
            n \in {<<>>, "NAME" :> <<<<"cn">>>>}, o \in Flags1, u \in Sup1, r \in Rules1, y \in Syntax1, w \in Uses1, x \in Exts1}
    \cup {Def("objectclass", n @@ u @@ ("KIND" :> k) @@ m @@ y, <<>>) :
            n \in Named1, u \in {"SUP" :> o : o \in Oids1} \cup {<<>>}, k \in {"ABSTRACT", "STRUCTURAL", "AUXILIARY"},
            m \in {"MUST" :> o : o \in Oids1} \cup {<<>>}, y \in {"MAY" :> o : o \in Oids1} \cup {<<>>}}

(* files *)
T1 == {<<"a">>, <<>>, <<"a", " ", "b">>}
SearchObjs1 == {[objtypeprompt |-> <<"p">>, options |-> o, prompt |-> t, filterprefix |-> u, filtertag |-> <<"t">>, selectattr |-> t, selecttext |-> u,
                 scope |-> s, attrs |-> a, matches |-> m] :
                  o \in {{}, {"internal"}}, t, u \in T1, s \in {"base"},
                  a \in {<<>>} \cup {<<[label |-> <<"l">>, attr |-> <<"b">>, matchtypes |-> b, selectattr |-> <<>>, selecttext |-> <<"c">>],
                                     [label |-> <<>>, attr |-> <<"d">>, matchtypes |-> {0}, selectattr |-> <<>>, selecttext |-> <<>>]>> :
                                     b \in {{}, {2, 4}}},
                  m \in {<<>>, <<[prompt |-> <<"is", " ", "x">>, filter |-> <<"(", "%", "v", ")">>]>>}}
SearchPrefItems ==
    {[version |-> v, list |-> IF v = 0 THEN <<[o EXCEPT !.options = {}]>> ELSE <<o>>] : v \in {0, 1}, o \in {q \in SearchObjs1 : q.prompt # q.filterprefix}}
    \cup {[version |-> 1, list |-> <<o, [o EXCEPT !.scope = "subtree"]>>] : o \in {q \in SearchObjs1 : q.prompt = <<"a">> /\ q.matches # <<>>}}

TItem(s, o, a) == [syntax |-> s, options |-> o, label |-> <<"L">>, attr |-> a, args |-> IF s = "linkact" THEN <<<<"x">>, <<>>>> ELSE <<>>]
Rows1 == {<<TItem("cis", {}, <<"cn">>)>>, <<TItem("dn", {"ro", "hide"}, <<"sn">>), TItem("mls", {"required"}, None)>>,
          <<TItem("linkact", {"1val"}, None), TItem("cis", {}, <<"ou">>), TItem("bool", {}, <<"cn">>)>>}
Tmpls1 == {[name |-> <<n>>, pluralname |-> <<"P">>, iconname |-> <<>>, options |-> o, oclist |-> c, authattr |-> u, rdnattr |-> <<"cn">>, location |-> l,
            adddefs |-> d, items |-> i] :
             n \in {"T", "U"}, o \in {{}, {"addable", "altview"}}, c \in {<<<<<<"top">>, <<"person">>>>>>, <<<<<<"person">>>>, <<<<"top">>, <<"ou">>>>>>},
             u \in {None, <<"sn">>}, l \in {None}, d \in {<<>>, <<[source |-> "constant", attr |-> <<"c">>, value |-> <<"v", " ">>], [source |-> "addersdn", attr |-> <<"o">>, value |-> None]>>},
             i \in {<<>>} \cup {<<a, b>> : a, b \in Rows1}}
TemplateItems == {<<t>> : t \in {x \in Tmpls1 : x.name = <<"T">> /\ (x.items = <<>> \/ (x.adddefs = <<>>) = (x.authattr = None))}}
                 \cup {<<t, u>> : t \in {x \in Tmpls1 : x.items = <<>> /\ x.options = {} /\ x.adddefs = <<>>},
                                 u \in {x \in Tmpls1 : x.items = <<>> /\ x.options = {} /\ x.authattr = None}}

FriendlyItems == {<<[unfriendly |-> u, friendly |-> <<"f">>], [unfriendly |-> v, friendly |-> w]>> :
                    u, v \in {<<"c">>, <<"c", "n">>}, w \in {<<"g">>, <<>>, <<"g", "\"", " ", "h">>, <<"\\", "\"">>}}

Pat(k, a, b) == [kind |-> k, from |-> a, to |-> b]
PatParts == {Pat("char", "%", None), Pat("value", None, None), Pat("last", None, None), Pat("word", "1", None), Pat("rest", "2", None),
             Pat("words", "1", "2"), Pat("words", "2", "3"), Pat("words", "3", "1")}
Infos1 == {[parts |-> <<Pat("char", "(", None), p, Pat("char", c, None), q>>, desc |-> <<"d", " ">>, scope |-> s] :
             p, q \in PatParts, c \in {"="}, s \in {"base"}}
          \cup {[parts |-> <<p, Pat("char", "*", None)>>, desc |-> <<>>, scope |-> "subtree"] : p \in PatParts}
AnInfo == [parts |-> <<Pat("char", "w", None)>>, desc |-> <<"d">>, scope |-> "onelevel"]
List1(t, p, d, i) == [tag |-> t, pattern |-> p, delims |-> d, infos |-> <<i, AnInfo>>]
FilterFileItems ==
    {[lists |-> l, affixes |-> f, value |-> v, tagpat |-> <<"people">>] :
       l \in {<<List1(t, <<"two">>, <<" ">>, i), List1(<<"people">>, p, <<" ", ",">>, i)>> :
                i \in Infos1, t \in {<<"other">>}, p \in {<<"any">>}}
             \cup {<<List1(t, <<"two">>, <<" ">>, AnInfo), List1(<<"people">>, p, <<" ", ",">>, AnInfo)>> :
                    t \in {<<"people">>, <<"other">>}, p \in {<<"any">>, <<"two">>}},
       f \in {[prefix |-> <<"&">>, suffix |-> <<")">>]},
       v \in {<<"x">>, <<"x", " ", "y">>, <<" ", "x", " ", " ", "y", ",", "z">>}}

MCItems == [schema |-> SchemaItems, request |-> RequestItems, result |-> ResultItems, sort |-> SortItems, ber |-> BerItems, utf8 |-> Utf8Items, name |-> NameItems, url |-> UrlItems,
            filter |-> FilterItems, base64 |-> Octets, ldif |-> LdifItems,
            keys |-> KeyItems, list |-> ListItems, answer |-> AnswerItems, sasl |-> SaslItems,
            prefs |-> SearchPrefItems, templates |-> TemplateItems, friendly |-> FriendlyItems, filters |-> FilterFileItems]
=============================================================================
