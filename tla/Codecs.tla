------------------------------- MODULE Codecs -------------------------------
(***************************************************************************)
(* What is written is read back: for each of the codecs of the libraries,  *)
(* items to encode, in all of which some boundary of the format lies.  A   *)
(* behaviour picks one item.                                               *)
(***************************************************************************)
EXTENDS Integers, SequencesExt, FiniteSetsExt

CONSTANTS Items,    \* the items of each kind: [kind |-> set]
          None      \* no value

VARIABLE item       \* [kind, v], v = None before one is picked

B == INSTANCE BerCode
U == INSTANCE Utf8

Unescaped == [t \in {"%00", "%20", "%2c", "%3f", "%2f", "%25"} |->
                CASE t = "%00" -> "NUL" [] t = "%20" -> " " [] t = "%2c" -> "," [] t = "%3f" -> "?" [] t = "%2f" -> "/" [] t = "%25" -> "%"]
Ports     == [t \in {"0", "389", "636", "65535"} |->
                CASE t = "0" -> 0 [] t = "389" -> 389 [] t = "636" -> 636 [] t = "65535" -> 65535]
L == INSTANCE Url

Hex == [p \in {<<"2", "8">>, <<"2", "9">>, <<"2", "a">>, <<"5", "c">>} |->
          CASE p = <<"2", "8">> -> "(" [] p = <<"2", "9">> -> ")" [] p = <<"2", "a">> -> "*" [] p = <<"5", "c">> -> "\\"]
F == INSTANCE Filter

Coded == {<<117, 80>>}                          \* one name that stands for userPassword
Files == [url \in {<<102, 58>>} |-> <<0, 10>>]   \* and one file
D == INSTANCE Ldif

Numbers   == [n \in {"16"} |-> 16]
Numeric   == {"1.2", "1.3", "16"}
Extension == {"X-A", "X-B"}
C == INSTANCE Schema WITH NoOid <- None

Lower == [c \in 65..90 |-> c + 32]
P == INSTANCE Messages

Atoi    == [n \in {"1", "7", "0"} |-> CASE n = "1" -> 1 [] n = "7" -> 7 [] n = "0" -> 0]
Basic   == {<<"any">>, <<"two">>, <<"only basic">>}    \* patterns of files, and those that compile when used
Extended == [p \in {<<"any">>, <<"two">>, <<"people">>} |->
               CASE p = <<"any">>    -> {<<"x">>, <<"x", " ", "y">>, <<" ", "x", " ", " ", "y", ",", "z">>}
                 [] p = <<"two">>    -> {<<"x", " ", "y">>, <<" ", "x", " ", " ", "y", ",", "z">>}
                 [] p = <<"people">> -> {<<"people">>}]
A == INSTANCE TemplateFiles

Init == item \in {[kind |-> k, v |-> None] : k \in DOMAIN Items}
Pick == item.v = None /\ \E v \in Items[item.kind] : item' = [item EXCEPT !.v = v]
Next == Pick
Spec == Init /\ [][Next]_item
-----------------------------------------------------------------------------
(* BER.  An item is a sequence of [f, v, tag] written in a sequence, each  *)
(* with the tag of a "t" before it unless that is 0.                       *)
Writes(x) == (IF x.tag = 0 THEN <<>> ELSE <<[f |-> "t", v |-> x.tag]>>)
             \o (IF x.f = "v" THEN <<[f |-> "{", v |-> None], [f |-> "v", v |-> x.v], [f |-> "}", v |-> None]>>
                 ELSE <<[f |-> x.f, v |-> x.v]>>)
Reads(f)  == CASE f = "v" -> <<"{", "v", "}">> [] f \in {"o", "s"} -> <<"O">> [] OTHER -> <<f>>
BerFormat(fields) == <<[f |-> "{", v |-> None]>> \o FlattenSeq([i \in DOMAIN fields |-> Writes(fields[i])])
                     \o <<[f |-> "}", v |-> None]>>
BerReads(fields)  == <<"{">> \o FlattenSeq([i \in DOMAIN fields |-> Reads(fields[i].f)]) \o <<"}">>
BerValue(x) == IF x.f = "b" /\ x.v # 0 THEN -1 ELSE x.v

BerReadsBack(fields) ==
    \A der \in BOOLEAN :
      LET octets == B!Printf(BerFormat(fields), der)
          back   == B!Scanf(BerReads(fields), octets, 4)
      IN  /\ back.ok /\ back.rest = <<>>
          /\ back.out = [i \in DOMAIN fields |-> BerValue(fields[i])]
          /\ \A n \in {0, 1, 2, 3, Len(octets) - 1} :
               n < Len(octets) => ~B!Scanf(BerReads(fields), SubSeq(octets, 1, n), 4).ok

-----------------------------------------------------------------------------
(* UTF-8.  An item is a sequence of code points: their string has as many  *)
(* characters, each of which is found from either side and decodes to its  *)
(* code point; the tokens of a string between separators are what is       *)
(* between them.                                                           *)
Utf8ReadsBack(points) ==
    LET chars == [i \in DOMAIN points |-> U!FromUcs4(points[i])]
        s     == FlattenSeq(chars)
        at(i) == 1 + Len(FlattenSeq(SubSeq(chars, 1, i - 1)))
        seps  == {i \in DOMAIN points : points[i] = points[1]}
    IN  /\ U!Chars(s) = Len(points)
        /\ \A i \in DOMAIN points : /\ U!ToUcs4(s, at(i)) = points[i]
                                    /\ U!Next(s, at(i)) = at(i + 1)
                                    /\ U!Prev(s, at(i + 1)) = at(i)
                                    /\ U!StrChr(s, chars[i]) = at(SelectInSeq(points, LAMBDA c : c = points[i]))
        /\ FlattenSeq(U!Tokens(s, chars[1])) = FlattenSeq(SelectSeq(chars, LAMBDA c : c # chars[1]))
        /\ \A k \in DOMAIN U!Tokens(s, chars[1]) : U!Tokens(s, chars[1])[k] # <<>>

-----------------------------------------------------------------------------
(* Names.  An item is a sequence of RDNs, each a sequence of [type, value] *)
(* with the value as it is written in a name.                              *)
Rdn(r) == L!Charray2Str(L!MapSeq(LAMBDA a : <<a.type, "=">> \o a.value, r), <<"+">>)
Dn(rdns, sep) == L!Charray2Str(L!MapSeq(Rdn, rdns), sep)
Unquoted(v)    == IF v[1] = "\"" THEN SubSeq(v, 2, Len(v) - 1) ELSE v
Untyped(r)     == L!Charray2Str(L!MapSeq(LAMBDA a : Unquoted(a.value), r), <<" ", "+", " ">>)

NameReadsBack(rdns) ==
    LET texts == L!MapSeq(Rdn, rdns)
        plain == \A i \in DOMAIN rdns : Len(rdns[i]) = 1
    IN  /\ \A sep \in {<<",">>, <<";">>, <<",", " ">>} : L!ExplodeDn(Dn(rdns, sep), FALSE) = texts
        /\ \A i \in DOMAIN rdns : L!ExplodeRdn(texts[i], FALSE) = [k \in DOMAIN rdns[i] |-> <<rdns[i][k].type, "=">> \o rdns[i][k].value]
        /\ L!Dce2Dn(L!Dn2Dce(Dn(rdns, <<",">>))) = Dn(rdns, <<",">>)
        /\ L!Dn2Ufn(Dn(rdns, <<";">>)) = L!Charray2Str(L!MapSeq(Untyped, rdns), <<",", " ">>)
        /\ plain /\ (\A i \in DOMAIN rdns : rdns[i][1].type = "dc") =>
             L!Domain2Dn(L!Dn2Domain(Dn(rdns, <<",">>))) = Dn(rdns, <<",">>)

-----------------------------------------------------------------------------
(* URLs.  An item is what ldap_url_parse_ext returns; its text has the     *)
(* tokens that mean something where they stand escaped.                    *)
Escaped(c) == {t \in DOMAIN Unescaped : Unescaped[t] = c}
Escape(s)  == L!MapSeq(LAMBDA c : IF Escaped(c) = {} THEN c ELSE CHOOSE t \in Escaped(c) : TRUE, s)
Commas(a) == IF a = <<>> THEN <<>> ELSE L!Charray2Str(L!MapSeq(Escape, a), <<",">>)
ScopeText(n) == IF n = L!ScopeDefault THEN <<>> ELSE <<CHOOSE t \in DOMAIN L!Scopes : L!Scopes[t] = n>>
UrlText(d) ==
    <<L!Schemes[d.scheme]>>
    \o (IF L!Has(d.host, ":") THEN <<"[">> \o d.host \o <<"]">> ELSE Escape(d.host))
    \o (IF d.port = L!DefaultPort(d.scheme) THEN <<>> ELSE <<":", L!PortToken(d.port)>>)
    \o <<"/">> \o Escape(d.dn) \o <<"?">> \o Commas(d.attrs) \o <<"?">> \o ScopeText(d.scope)
    \o <<"?">> \o Escape(d.filter)
    \o (IF d.exts = <<>> THEN <<>> ELSE <<"?">> \o Commas(d.exts))

Host(d) == [rc |-> "success", scheme |-> "ldap", host |-> d.host, port |-> d.port]
HostsText(hosts) == L!Charray2Str(L!MapSeq(LAMBDA h : h.host \o <<":", L!PortToken(h.port)>>, hosts), <<" ">>)
UrlReadsBack(d) ==
    LET list == <<d, [d EXCEPT !.port = 0], d>>
        urls == L!ParseList(L!List2Urls(list))
        srvs == L!Domain2Hostlist(<<d, d>>)
    IN  /\ L!ParseExt(UrlText(d)) = d
        /\ L!ParseExt(UrlText([d EXCEPT !.filter = <<"NUL">> \o @])).rc = "badfilter"
        /\ L!ParseExt(UrlText([d EXCEPT !.filter = @ \o <<"NUL">>])) = IF d.filter = <<>> THEN L!Failure("badfilter") ELSE d
        /\ \A s \in DOMAIN L!Schemes : L!IsScheme(UrlText(d), s) <=> s = d.scheme
        /\ ~L!Has(d.host, ":") /\ d.port < 2^15 => L!ParseHosts(HostsText(srvs), 0) = [i \in 1..2 |-> Host(d)]
        /\ L!ParseExt(<<"<", "URL:">> \o UrlText(d) \o <<">">>) = d
        /\ L!ParseHosts(L!List2Hosts(list), 0) = [i \in DOMAIN list |-> Host(list[i])]
        /\ ~L!Has(d.host, "/") => \A i \in DOMAIN urls :
             /\ urls[i].scheme = d.scheme /\ urls[i].host = d.host
             /\ urls[i].port = IF list[i].port = 0 THEN L!DefaultPort(d.scheme) ELSE list[i].port

-----------------------------------------------------------------------------
(* Filters.  An item is what put_filter writes for one filter; its text    *)
(* has the special characters of values escaped as LDAPv3 or as LDAPv2     *)
(* has it, and may have blanks.                                            *)
HexOf(c) == CHOOSE p \in DOMAIN Hex : Hex[p] = c
EscapeV(v, v3) == FlattenSeq(L!MapSeq(LAMBDA c : IF c \notin Range(Hex) THEN <<c>>
                                                ELSE IF v3 THEN <<"\\">> \o HexOf(c) ELSE <<"\\", c>>, v))
Marks == [op \in {"equality", "le", "ge", "approx"} |->
            CASE op = "equality" -> <<"=">> [] op = "le" -> <<"<", "=">> [] op = "ge" -> <<">", "=">> [] op = "approx" -> <<"~", "=">>]

SimpleText(f, v3) ==
    CASE f.op \in DOMAIN Marks -> f.type \o Marks[f.op] \o EscapeV(f.value, v3)
      [] f.op = "present" -> f.type \o <<"=", "*">>
      [] f.op = "substrings" ->
           f.type \o <<"=">>
           \o FlattenSeq([k \in DOMAIN f.parts |->
                (IF k = 1 /\ f.parts[k].kind # "initial" THEN <<"*">> ELSE <<>>)
                \o EscapeV(f.parts[k].value, v3)
                \o (IF f.parts[k].kind # "final" THEN <<"*">> ELSE <<>>)])
      [] f.op = "extensible" ->
           f.type \o (IF f.dn THEN <<":", "dn">> ELSE <<>>)
           \o (IF f.rule = <<>> THEN <<>> ELSE <<":">> \o f.rule) \o <<":", "=">> \o EscapeV(f.value, v3)

RECURSIVE FilterText(_, _, _)
FilterText(f, v3, gap) ==
    <<"(">> \o gap
    \o (IF f.op \in {"&", "|", "!"} THEN <<f.op>> \o gap \o FlattenSeq(L!MapSeq(LAMBDA g : FilterText(g, v3, gap) \o gap, f.list))
        ELSE SimpleText(f, v3))
    \o <<")">> \o gap

FilterReadsBack(f) ==
    \A v3 \in BOOLEAN :
      LET text == FilterText(f, v3, <<>>)
      IN  /\ \A gap \in {<<>>, <<" ">>, <<" ", " ">>} : F!PutFilter(FilterText(f, v3, gap)) = <<f>>
          /\ f.op \notin {"&", "|", "!"} => F!PutFilter(SimpleText(f, v3)) = <<f>>
          /\ v3 => \A n \in 1..Len(text) - 1 : F!Bad(F!PutFilter(SubSeq(text, 1, n)))

-----------------------------------------------------------------------------
(* Base 64 and LDIF.  An item is the sequence of lines of a record, of     *)
(* [name, value], and the room that fgets has.                             *)
Base64ReadsBack(octets) ==
    LET text == D!Encode(octets)
        n    == Len(octets)
        room == (3 * Len(text)) \div 4
    IN  /\ D!Ntop(octets, Len(text) + 1) = text /\ D!Ntop(octets, Len(text)) = D!Error
        /\ D!Pton(text, room) = octets
        /\ D!Pton(FlattenSeq([i \in DOMAIN text |-> <<32, text[i], 10>>]), room) = octets
        /\ n > 0 => /\ D!Pton(text, n - 1) = D!Error
                    /\ \A k \in 1..3 : D!Pton(SubSeq(text, 1, Len(text) - k), room) = D!Error

PutLine(l) == D!Sput("value", l.name, l.value)
LdifReadsBack(r) ==
    LET lines  == FlattenSeq([i \in DOMAIN r.lines |-> PutLine(r.lines[i])])
        text   == D!Sput("comment", <<>>, <<32, 49>>) \o lines
        first  == D!ReadRecord(<<10>> \o <<49, 10>> \o text \o D!Sput("sep", <<>>, <<>>) \o <<10>> \o Front(lines), r.size)
        second == D!ReadRecord(first.rest, r.size)
        back   == [i \in DOMAIN r.lines |-> [ok |-> TRUE, type |-> r.lines[i].name, value |-> r.lines[i].value]]
    IN  /\ \A i \in DOMAIN r.lines : \A type \in {"value", "binary"} :
             LET l == r.lines[i]
             IN  Len(D!Sput(type, l.name, l.value)) <= D!SizeNeeded(Len(l.name), Len(l.value))
        /\ \A i \in DOMAIN r.lines : D!IsNotPrintable(r.lines[i].value) = 0 =>
             L!MapSeq(D!ParseLine, D!Lines(D!Sput("text", r.lines[i].name, r.lines[i].value))) = <<back[i]>>
        /\ first.found /\ first.record = text
        /\ L!MapSeq(D!ParseLine, D!Lines(first.record)) = back
        /\ second.found /\ second.record = lines /\ second.rest = <<>>
        /\ L!MapSeq(D!ParseLine, D!Lines(second.record)) = back
        /\ ~D!ReadRecord(second.rest, r.size).found

-----------------------------------------------------------------------------
(* Schema definitions.  An item is a definition and its kind.  Its text    *)
(* has the fields in the order they are printed in, or the reverse.  The   *)
(* parser of one that has neither OID nor fields takes the parenthesis     *)
(* that closes it for an OID it does not know.                             *)
Kept(x)    == IF x.kind = "syntax" THEN [x.def EXCEPT !.fields = [k \in DOMAIN @ \ {"NAME"} |-> @[k]]] ELSE x.def
Field(x, key) == IF key \in DOMAIN x.def.fields THEN C!FieldToStr(<<" ">>, x.kind, key, x.def.fields[key]) ELSE <<>>
Reversed(x)   == <<"(", " ">> \o x.def.oid \o FlattenSeq(Reverse([i \in DOMAIN C!Order[x.kind] |-> Field(x, C!Order[x.kind][i])]))
                 \o FoldLeft(LAMBDA t, e : C!Qdescrs(Append(C!Whsp(t), e.name), e.values), <<" ">>, x.def.ext) \o <<")">>
Quoted(text, i) == Cardinality({j \in 1..i : text[j] = "'"}) % 2 = 1
Widen(t)      == IF t = " " THEN <<t, t>> ELSE IF t \in {"(", ")", "$"} THEN <<t, " ">> ELSE <<t>>
Wide(text)    == FlattenSeq(L!MapSeq(LAMBDA i : IF Quoted(text, i) THEN <<text[i]>> ELSE Widen(text[i]), [i \in DOMAIN text |-> i]))
InQuotes(text) == FlattenSeq(L!MapSeq(LAMBDA t : IF t \in Numeric THEN <<"'", t, "'">> ELSE <<t>>, text))
All == {"no oid", "quoted", "descr", "macro"}

SchemaReadsBack(x) ==
    LET text == C!ToStr(x.kind, x.def)
        good == [rc |-> "success", def |-> Kept(x)]
        bare == C!ToStr(x.kind, [x.def EXCEPT !.oid = None])
        none == [good EXCEPT !.def.oid = None]
    IN  /\ \A flags \in {{}, All} : /\ C!Parse(x.kind, text, flags) = good
                                  /\ C!Parse(x.kind, Wide(text), flags) = good
                                  /\ C!Parse(x.kind, Reversed(x), flags) = good
        /\ \A n \in 0..Len(text) - 1 : C!Parse(x.kind, SubSeq(text, 1, n), {}).rc # "success"
        /\ \A key \in DOMAIN Kept(x).fields \ {"KIND"} :
             C!Parse(x.kind, SubSeq(text, 1, Len(text) - 1) \o Field(x, key) \o <<")">>, {}) = [rc |-> "duplicate option"]
        /\ x.kind # "syntax" =>
             /\ C!Parse(x.kind, bare, {}).rc # "success"
             /\ C!Parse(x.kind, bare, All) = IF x.def.fields = <<>> /\ x.def.ext = <<>>
                                             THEN [rc |-> "missing closing parenthesis"] ELSE none
        /\ x.kind = "matchingrule" => /\ C!Parse(x.kind, InQuotes(text), {"quoted"}) = good
                                      /\ C!Parse(x.kind, InQuotes(text), {}).rc # "success"

-----------------------------------------------------------------------------
(* What each codec writes, it reads back, in every form of it: BER, UTF-8, *)
(* names, URLs, base 64 and files of preferences, templates, friendly      *)
(* names and filters.  BER, base 64 and the files of preferences and       *)
(* templates are refused when they are cut off; a URL is when nothing is   *)
(* left of its filter.  An LDIF record keeps its names and values, whatever *)
(* they hold and wherever a line is folded, and each line fits in what is  *)
(* allocated for it.                                                       *)
ReadsBack == [][\A x \in {item'} :
    /\ x.kind = "ber"  => BerReadsBack(x.v)
    /\ x.kind = "utf8" => Utf8ReadsBack(x.v)
    /\ x.kind = "name" => NameReadsBack(x.v)
    /\ x.kind = "url"  => UrlReadsBack(x.v)
    /\ x.kind = "base64" => Base64ReadsBack(x.v)
    /\ x.kind = "ldif" => LdifReadsBack(x.v)
    /\ x.kind = "prefs" => A!SearchPrefsReadBack(x.v)
    /\ x.kind = "templates" => A!TemplatesReadBack(x.v)
    /\ x.kind = "friendly" => A!FriendlyReadsBack(x.v)
    /\ x.kind = "filters" => A!FiltersReadBack(x.v)]_item

(* A request is encoded as the operation it is, with the controls that the *)
(* call or else the session wants, or it is refused for a reason: the      *)
(* builders of all operations over ber_printf.  A filter's string is       *)
(* encoded as what it says, with its special characters escaped in either  *)
(* way, and no part of it is taken for a filter: put_filter.               *)
RequestsExact == [][\A x \in {item'} :
    /\ x.kind = "request" => P!RequestExact(x.v)
    /\ x.kind = "filter" => FilterReadsBack(x.v)
    /\ x.kind = "keys" => P!SortKeysExact(x.v)
    /\ x.kind = "list" => P!ListExact(x.v)]_item

(* What a server says in a message is what the parsers give back, for      *)
(* every type of message wherever it stands in a chain, and what the calls *)
(* that wait for it return; a sorted chain has its entries in order. *)
ResultsExact == [][\A x \in {item'} :
    /\ x.kind = "result" => P!ResultExact(x.v) /\ P!SyncExact(x.v)
    /\ x.kind = "sort" => P!SortExact(x.v) /\ P!SyncExact(x.v)
    /\ x.kind = "sasl" => P!SaslExact(x.v)
    /\ x.kind = "answer" => P!AnswerExact(x.v)]_item

(* A schema definition is read back as it was printed, with its fields in  *)
(* any order and any blanks between them; one that is cut off, or has a    *)
(* field twice, is refused: schema.c.                                      *)
SchemaExact == [][\A x \in {item'} : x.kind = "schema" => SchemaReadsBack(x.v)]_item
=============================================================================
