------------------------------- MODULE Schema -------------------------------
(***************************************************************************)
(* Schema definitions (schema.c): how a syntax, matching rule, attribute   *)
(* type or object class is printed and parsed.  Text is a sequence of      *)
(* pieces: a blank, one of the delimiters ( ) $ ' { }, a string of digits  *)
(* and dots, a number, or a name.  Pieces that nothing separates run into  *)
(* one word, so a word is a sequence of pieces too.                        *)
(*                                                                         *)
(* A definition is [oid, fields, ext]: fields maps the keywords it has to  *)
(* their values, ext is the sequence of its [name, values] extensions.     *)
(***************************************************************************)
EXTENDS Integers, SequencesExt, TLC

CONSTANTS
    Numeric,    \* the pieces that are digits and dots
    Numbers,    \* those that are numbers, and what atoi makes of them: a function
    Extension,  \* the pieces that begin with "X-"
    NoOid       \* no OID

Fail(code)     == [rc |-> code]
FailAt(code, s) == [rc |-> code, rest |-> s]

(* what stands after a keyword, by kind of definition *)
Common == [NAME |-> "names", DESC |-> "string"]
Grammar ==
    [syntax        |-> Common,
     matchingrule  |-> [OBSOLETE |-> "flag", SYNTAX |-> "oid"] @@ Common,
     attributetype |-> [OBSOLETE |-> "flag", SUP |-> "word", EQUALITY |-> "word", ORDERING |-> "word", SUBSTR |-> "word",
                        SYNTAX |-> "oidlen", COLLECTIVE |-> "flag", USAGE |-> "usage"]
                       @@ ("SINGLE-VALUE" :> "flag") @@ ("NO-USER-MODIFICATION" :> "flag") @@ Common,
     objectclass   |-> [OBSOLETE |-> "flag", SUP |-> "quotable oids", ABSTRACT |-> "kind", STRUCTURAL |-> "kind",
                        AUXILIARY |-> "kind", MUST |-> "oids", MAY |-> "oids"] @@ Common]

(* the key of a field in a definition: one for the three kinds of class *)
KeyOf(kind, keyword) == IF Grammar[kind][keyword] = "kind" THEN "KIND" ELSE keyword

(* the order in which they are printed; a syntax is printed without names *)
Order ==
    [syntax        |-> <<"DESC">>,
     matchingrule  |-> <<"NAME", "DESC", "OBSOLETE", "SYNTAX">>,
     attributetype |-> <<"NAME", "DESC", "OBSOLETE", "SUP", "EQUALITY", "ORDERING", "SUBSTR", "SYNTAX", "SINGLE-VALUE",
                         "COLLECTIVE", "NO-USER-MODIFICATION", "USAGE">>,
     objectclass   |-> <<"NAME", "DESC", "OBSOLETE", "SUP", "KIND", "MUST", "MAY">>]
Usages == {"userApplications", "directoryOperation", "distributedOperation", "dSAOperation"}

-----------------------------------------------------------------------------
(* Printing, piece after piece *)

(* print_whsp: a blank, unless the text ends with one *)
Whsp(t) == IF t # <<>> /\ Last(t) = " " THEN t ELSE Append(t, " ")

WoidMut(t, s) == Whsp(t) \o s

Woid(t, s)     == Whsp(Whsp(t) \o s)

Qdescr(t, s)   == Whsp(Whsp(t) \o <<"'">> \o s \o <<"'">>)
Qdescrs(t, names) ==
    IF Len(names) = 1 THEN Qdescr(t, names[1])
    ELSE Whsp(Append(FoldLeft(Qdescr, Append(Whsp(t), "("), names), ")"))
Oids(t, oids)  ==
    IF Len(oids) = 1 THEN Woid(t, oids[1])
    ELSE Append(Whsp(FoldLeft(LAMBDA u, s : Woid(Append(u, "$"), s), Woid(Append(t, "("), oids[1]), Tail(oids))), ")")
Noidlen(t, v)  == t \o v.oid \o (IF v.len = 0 THEN <<>> ELSE <<"{", CHOOSE n \in DOMAIN Numbers : Numbers[n] = v.len, "}">>)

FieldToStr(t, kind, key, v) ==
    CASE key = "KIND" -> Whsp(Append(t, v))
      [] key = "USAGE" -> IF v = "userApplications" THEN t ELSE Append(Whsp(Append(t, key)), v)
      [] OTHER ->
           LET u == Append(t, key)
               p == Grammar[kind][key]
           IN  CASE p = "names"  -> Qdescrs(u, v)
                 [] p = "string" -> Qdescr(u, v)
                 [] p = "flag"   -> Whsp(u)
                 [] p = "word"   -> Woid(u, v)
                 [] p = "oid"    -> Whsp(Whsp(u) \o v)
                 [] p = "oidlen" -> Whsp(Noidlen(Whsp(u), v))
                 [] p \in {"oids", "quotable oids"} -> Whsp(Oids(Whsp(u), v))

(* ldap_syntax2str, ldap_matchingrule2str, ldap_attributetype2str and      *)
(* ldap_objectclass2str *)
ToStr(kind, def) ==
    LET head   == Whsp(Whsp(<<"(">>) \o (IF def.oid = NoOid THEN <<>> ELSE def.oid))
        fields == FoldLeft(LAMBDA t, key : IF key \in DOMAIN def.fields THEN FieldToStr(t, kind, key, def.fields[key]) ELSE t,
                           head, Order[kind])
        exts   == FoldLeft(LAMBDA t, x : Whsp(Qdescrs(Whsp(Append(t, x.name)), x.values)), Whsp(fields), def.ext)
    IN  Append(exts, ")")

-----------------------------------------------------------------------------
(* Parsing.  A parser takes text and gives back what it read and what is   *)
(* left, or the error. *)
Read(v, rest) == [rc |-> "success", v |-> v, rest |-> rest]
Good(r)       == r.rc = "success"
Drop(s, n)    == SubSeq(s, n + 1, Len(s))

(* parse_whsp *)
SkipWhsp(s) ==
    LET stops == {i \in DOMAIN s : s[i] # " "}
    IN  IF stops = {} THEN <<>> ELSE Drop(s, (CHOOSE i \in stops : \A j \in stops : i <= j) - 1)

(* the pieces of s up to the first in a set *)
UpTo(s, set) ==
    LET stops == {i \in DOMAIN s : s[i] \in set}
    IN  IF stops = {} THEN s ELSE SubSeq(s, 1, (CHOOSE i \in stops : \A j \in stops : i <= j) - 1)

(* get_token *)
Token(s) ==
    LET quoted == UpTo(Tail(s), {"'"})
        word   == UpTo(s, {" ", "(", ")", "$", "'"})
    IN  IF s = <<>> THEN [k |-> "eos", v |-> <<>>, rest |-> <<>>]
        ELSE IF s[1] \in {"(", ")", "$"} THEN [k |-> s[1], v |-> <<>>, rest |-> Tail(s)]
        ELSE IF s[1] # "'" THEN [k |-> "word", v |-> word, rest |-> Drop(s, Len(word))]
        ELSE IF Len(quoted) = Len(s) - 1 THEN [k |-> "no end quote", v |-> <<>>, rest |-> <<>>]
        ELSE [k |-> "string", v |-> quoted, rest |-> Drop(s, Len(quoted) + 2)]

(* parse_numericoid and parse_noidlen, in quotes where that is allowed:    *)
(* none at the end of the text is an OID of no digits *)
Quoted(s, allow) == allow /\ s # <<>> /\ s[1] = "'"
Unquote(r, quoted) ==
    IF ~Good(r) \/ ~quoted THEN r
    ELSE IF r.rest # <<>> /\ r.rest[1] = "'" THEN Read(r.v, Tail(r.rest)) ELSE FailAt("unexpected token", r.rest)

Digits(s) ==
    LET others == {i \in DOMAIN s : s[i] \notin Numeric}
        n      == IF others = {} THEN Len(s) ELSE (CHOOSE i \in others : \A j \in others : i <= j) - 1
    IN  IF s # <<>> /\ n = 0 THEN FailAt("expecting digit", s) ELSE Read(SubSeq(s, 1, n), Drop(s, n))

Bound(r) ==
    LET s == r.rest
    IN  IF ~Good(r) THEN r
        ELSE IF s = <<>> \/ s[1] # "{" THEN Read([oid |-> r.v, len |-> 0], s)
        ELSE IF Len(s) >= 3 /\ s[2] \in DOMAIN Numbers /\ s[3] = "}" THEN Read([oid |-> r.v, len |-> Numbers[s[2]]], Drop(s, 3))
        ELSE IF Len(s) >= 2 /\ s[2] = "}" THEN Read([oid |-> r.v, len |-> 0], Drop(s, 2))
        ELSE FailAt("unexpected token", Drop(s, IF Len(s) >= 2 /\ s[2] \in DOMAIN Numbers THEN 2 ELSE 1))

NumericOid(s, allow) ==
    LET q == Quoted(s, allow) IN Unquote(Digits(IF q THEN Tail(s) ELSE s), q)
NoidLen(s, allow) ==
    LET q == Quoted(s, allow) IN Unquote(Bound(Digits(IF q THEN Tail(s) ELSE s)), q)

(* parse_woid *)
ReadWoid(s) ==
    LET t == Token(SkipWhsp(s)) IN IF t.k = "word" THEN Read(t.v, SkipWhsp(t.rest)) ELSE Fail("unexpected token")

(* parse_qdescrs: one string, or any number in parentheses *)
RECURSIVE QdescrList(_, _)
QdescrList(s, found) ==
    LET t == Token(SkipWhsp(s))
    IN  IF t.k = ")" THEN Read(found, SkipWhsp(t.rest))
        ELSE IF t.k = "string" THEN QdescrList(t.rest, Append(found, t.v))
        ELSE Fail("unexpected token")
ReadQdescrs(s) ==
    LET t == Token(SkipWhsp(s))
    IN  IF t.k = "(" THEN QdescrList(t.rest, <<>>)
        ELSE IF t.k = "string" THEN Read(<<t.v>>, SkipWhsp(t.rest))
        ELSE Fail("expecting a name")

(* parse_oids: one OID, or some in parentheses with "$" between them *)
RECURSIVE OidList(_, _, _)
OidList(s, found, kinds) ==
    LET t == Token(s)
        d == Token(SkipWhsp(t.rest))
    IN  IF t.k = ")" THEN Read(found, SkipWhsp(t.rest))
        ELSE IF t.k = "$" /\ d.k \in kinds THEN OidList(SkipWhsp(d.rest), Append(found, d.v), kinds)
        ELSE Fail("unexpected token")
ReadOids(s, allow) ==
    LET kinds == IF allow THEN {"word", "string"} ELSE {"word"}
        t     == Token(SkipWhsp(s))
        first == Token(SkipWhsp(t.rest))
    IN  IF t.k = "(" THEN IF first.k \in kinds THEN OidList(SkipWhsp(first.rest), <<first.v>>, kinds) ELSE Fail("unexpected token")
        ELSE IF t.k \in kinds THEN Read(<<t.v>>, SkipWhsp(t.rest))
        ELSE Fail("expecting a name")

ReadString(s) ==
    LET t == Token(SkipWhsp(s)) IN IF t.k = "string" THEN Read(t.v, SkipWhsp(t.rest)) ELSE Fail("unexpected token")
ReadUsage(s) ==
    LET t == Token(SkipWhsp(s))
    IN  IF t.k = "word" /\ \E u \in Usages : t.v = <<u>> THEN Read(t.v[1], SkipWhsp(t.rest)) ELSE Fail("unexpected token")

After(r) == IF Good(r) THEN Read(r.v, SkipWhsp(r.rest)) ELSE r

(* a SYNTAX that is no OID is a word where macros are allowed, with its    *)
(* length in braces; it is read from where the OID was found not to be one *)
ReadSyntax(s, flags) ==
    LET plain == NoidLen(s, flags # {})
        t     == Token(plain.rest)
        name  == UpTo(t.v, {"{"})
        len   == Bound(Read(name, Drop(t.v, Len(name))))
    IN  IF Good(plain) \/ "macro" \notin flags THEN plain
        ELSE IF t.k # "word" THEN Read([oid |-> NoOid, len |-> 0], t.rest)
        ELSE IF Good(len) THEN Read(len.v, t.rest) ELSE len

ReadField(kind, keyword, s, flags) ==
    LET p == Grammar[kind][keyword]
    IN  CASE p = "names"  -> LET r == ReadQdescrs(s) IN IF Good(r) THEN r ELSE Fail("expecting a name")
          [] p = "string" -> ReadString(s)
          [] p = "flag"   -> Read(TRUE, SkipWhsp(s))
          [] p = "kind"   -> Read(keyword, SkipWhsp(s))
          [] p = "word"   -> ReadWoid(s)
          [] p = "oid"    -> After(NumericOid(SkipWhsp(s), "quoted" \in flags))
          [] p = "oidlen" -> After(ReadSyntax(SkipWhsp(s), flags))
          [] p = "usage"  -> ReadUsage(s)
          [] p = "quotable oids" -> After(ReadOids(s, flags # {}))
          [] p = "oids"   -> After(ReadOids(s, FALSE))

-----------------------------------------------------------------------------
IsExtension(word) == word # <<>> /\ word[1] \in Extension

(* the keywords that show that the OID is missing: MAY is not among them *)
AtKeyword(kind, word) ==
    \/ IsExtension(word)
    \/ Len(word) = 1 /\ word[1] \in DOMAIN Grammar[kind] \ (IF kind = "objectclass" THEN {"MAY"} ELSE {})

(* the OID at the head; where it is no numeric one and that is allowed,    *)
(* there is none, or a word that is a macro, or one that is passed over *)
ReadOid(kind, s, flags) ==
    LET oid    == NumericOid(s, kind = "matchingrule" /\ "quoted" \in flags)
        t      == Token(s)
        may    == CASE kind = "syntax" -> FALSE
                    [] kind = "matchingrule" -> "no oid" \in flags
                    [] kind = "attributetype" -> {"no oid", "macro"} \cap flags # {}
                    [] kind = "objectclass" -> flags # {}
    IN  IF Good(oid) \/ ~may THEN oid
        ELSE IF t.k = "word" /\ AtKeyword(kind, t.v) THEN Read(NoOid, s)
        ELSE IF t.k = "word" /\ "macro" \in flags /\ kind # "matchingrule" THEN Read(t.v, t.rest)
        ELSE Read(NoOid, t.rest)

Duplicate(def, key) == key \in DOMAIN def.fields

(* a class is structural unless it says otherwise *)
Complete(kind, def) ==
    IF kind = "objectclass" THEN [def EXCEPT !.fields = @ @@ ("KIND" :> "STRUCTURAL")] ELSE def

(* the fields in any order, none twice, and the extensions, to the         *)
(* parenthesis that closes the definition; what follows is not looked at *)
RECURSIVE Fields(_, _, _, _)
Fields(kind, s, def, flags) ==
    LET t   == Token(s)
        key == t.v[1]
        r   == ReadField(kind, key, t.rest, flags)
        x   == ReadQdescrs(t.rest)
    IN  IF t.k = "eos" THEN Fail("missing closing parenthesis")
        ELSE IF t.k = ")" THEN [rc |-> "success", def |-> Complete(kind, def)]
        ELSE IF t.k # "word" THEN Fail("unexpected token")
        ELSE IF Len(t.v) = 1 /\ key \in DOMAIN Grammar[kind]
        THEN IF Duplicate(def, KeyOf(kind, key)) THEN Fail("duplicate option")
             ELSE IF ~Good(r) THEN r
             ELSE Fields(kind, r.rest, [def EXCEPT !.fields = (KeyOf(kind, key) :> r.v) @@ @], flags)
        ELSE IF IsExtension(t.v)
        THEN IF ~Good(x) THEN x
             ELSE Fields(kind, x.rest, [def EXCEPT !.ext = Append(@, [name |-> key, values |-> x.v])], flags)
        ELSE Fail("unexpected token")

(* ldap_str2syntax, ldap_str2matchingrule, ldap_str2attributetype and      *)
(* ldap_str2objectclass *)
Parse(kind, s, flags) ==
    LET t   == Token(s)
        oid == ReadOid(kind, SkipWhsp(t.rest), flags)
    IN  IF t.k # "(" THEN Fail("missing opening parenthesis")
        ELSE IF ~Good(oid) THEN oid
        ELSE Fields(kind, SkipWhsp(oid.rest), [oid |-> oid.v, fields |-> <<>>, ext |-> <<>>], flags)
=============================================================================
