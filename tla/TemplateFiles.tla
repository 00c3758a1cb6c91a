--------------------------- MODULE TemplateFiles ---------------------------
(***************************************************************************)
(* The files that applications are configured with: the lines of tokens    *)
(* that they are made of, search preferences, display templates, friendly  *)
(* names and filters.  A text is a sequence of tokens that are characters, *)
(* or words without any of the characters that mean something; upper and   *)
(* lower case are the same.  Atoi has the words that are numbers.          *)
(***************************************************************************)
EXTENDS Integers, SequencesExt, FiniteSetsExt

CONSTANTS None, Atoi

Newlines == {"\n", "\r"}
Space(c) == c \in {" ", "\t", "\n"}
From(s, n) == SubSeq(s, n + 1, Len(s))
SplitAt(s, sep) ==
    FoldLeft(LAMBDA parts, c : IF c = sep THEN Append(parts, <<>>) ELSE Append(Front(parts), Append(Last(parts), c)), <<<<>>>>, s)

-----------------------------------------------------------------------------
(* Lines.  A line ends at a newline, or two different ones in a row; the   *)
(* last octet of these is cut off.  Comments and lines of one newline are  *)
(* passed over.  A line that ends where the text ends is not read.         *)
LineEnd(s) ==
    LET i == SelectInSeq(s, LAMBDA c : c \in Newlines)
    IN  IF i = 0 THEN Len(s) + 1
        ELSE IF i < Len(s) /\ s[i + 1] \in Newlines \ {s[i]} THEN i + 1 ELSE i

RECURSIVE NextLine(_)
NextLine(s) ==
    LET end == LineEnd(s)
    IN  IF end >= Len(s) THEN [found |-> FALSE, rest |-> <<>>]
        ELSE IF s[1] = "#" \/ end = 1 THEN NextLine(From(s, end))
        ELSE [found |-> TRUE, line |-> SubSeq(s, 1, end - 1), rest |-> From(s, end)]

(* next_token over a line: blanks separate tokens, but not in quotes, of   *)
(* which there may be some anywhere in a token *)
TokenStep(st, c) ==
    LET sofar == IF st.token = None THEN <<>> ELSE st.token
    IN  CASE c = "\"" -> [st EXCEPT !.quoted = ~@, !.token = sofar]
          [] Space(c) /\ ~st.quoted ->
               IF st.token = None THEN st ELSE [st EXCEPT !.toks = Append(@, st.token), !.token = None]
          [] OTHER -> [st EXCEPT !.token = Append(sofar, c)]

LineTokens(line) ==
    LET st == FoldLeft(TokenStep, [quoted |-> FALSE, token |-> None, toks |-> <<>>], line)
    IN  IF st.token = None THEN st.toks ELSE Append(st.toks, st.token)

(* ldap_int_next_line_tokens: no tokens at the end of the text, for END,   *)
(* and for a line of blanks *)
NextLineTokens(s) ==
    LET n    == NextLine(s)
        toks == LineTokens(n.line)
    IN  IF ~n.found THEN [toks |-> <<>>, rest |-> <<>>]
        ELSE [toks |-> IF toks = <<<<"END">>>> THEN <<>> ELSE toks, rest |-> n.rest]

-----------------------------------------------------------------------------
(* Reading what is made of such lines.  A reader goes on from [rc, rest,   *)
(* v], v the record that it adds a field to. *)
SyntaxError == [rc |-> "syntax"]
Reader(s)   == [rc |-> "success", rest |-> s, v |-> <<>>]

(* a line of tokens, if there are as many as Fits says *)
Line(st, key, Fits(_), Value(_)) ==
    LET n == NextLineTokens(st.rest)
    IN  IF st.rc # "success" THEN st
        ELSE IF ~Fits(n.toks) THEN SyntaxError
        ELSE [st EXCEPT !.rest = n.rest, !.v = (key :> Value(n.toks)) @@ @]

OneToken(st, key, Value(_)) == Line(st, key, LAMBDA toks : Len(toks) = 1, LAMBDA toks : Value(toks[1]))
Plain(st, key)   == OneToken(st, key, LAMBDA t : t)
OrNone(st, key)  == OneToken(st, key, LAMBDA t : IF t = <<>> THEN None ELSE t)
Options(st, key, known) ==
    Line(st, key, LAMBDA toks : toks # <<>>, LAMBDA toks : {o \in known : <<o>> \in Range(toks)})

(* lines up to one without tokens *)
RECURSIVE Rows(_)
Rows(s) ==
    LET n    == NextLineTokens(s)
        more == Rows(n.rest)
    IN  IF n.toks = <<>> THEN [rest |-> n.rest, rows |-> <<>>] ELSE [more EXCEPT !.rows = <<n.toks>> \o @]

List(st, key, Fits(_), Value(_)) ==
    LET r == Rows(st.rest)
    IN  IF st.rc # "success" THEN st
        ELSE IF \E i \in DOMAIN r.rows : ~Fits(r.rows[i]) THEN SyntaxError
        ELSE [st EXCEPT !.rest = r.rest, !.v = (key :> Value(r.rows)) @@ @]

Each(Op(_), s) == [i \in DOMAIN s |-> Op(s[i])]

(* a file of objects: a line of its version, and objects up to a line      *)
(* without tokens.  A word that is no number is version 0. *)
Number(word) == IF word # <<>> /\ word[1] \in DOMAIN Atoi THEN Atoi[word[1]] ELSE 0
VersionOf(s) ==
    Line(Reader(s), "version", LAMBDA toks : Len(toks) = 2 /\ toks[1] = <<"version">>, LAMBDA toks : Number(toks[2]))
AtEnd(s)      == NextLineTokens(s).toks = <<>>
Objects(list) == [rc |-> "success", list |-> list]

-----------------------------------------------------------------------------
(* Search preferences *)
ScopeNames == {"subtree", "onelevel", "base"}
Scope(st)  == Line(st, "scope", LAMBDA toks : Len(toks) = 1 /\ \E n \in ScopeNames : toks[1] = <<n>>, LAMBDA toks : toks[1][1])

(* the bits of a word of 0 and 1, the last one bit 0 *)
Bitmap(t) == {j \in 0..Len(t) - 1 : t[Len(t) - j] = "1"}

SearchAttr(toks)  == [label |-> toks[1], attr |-> toks[2], matchtypes |-> Bitmap(toks[3]),
                      selectattr |-> toks[4], selecttext |-> toks[5]]
SearchMatch(toks) == [prompt |-> toks[1], filter |-> toks[2]]

ReadNextSearchObj(s, version) ==
    LET name    == Plain(Reader(s), "objtypeprompt")
        options == IF version > 0 THEN Options(name, "options", {"internal"})
                   ELSE IF name.rc # "success" THEN name ELSE [name EXCEPT !.v = ("options" :> {}) @@ @]
        single  == FoldLeft(Plain, options, <<"prompt", "filterprefix", "filtertag", "selectattr", "selecttext">>)
        attrs   == List(Scope(single), "attrs", LAMBDA toks : Len(toks) >= 5, LAMBDA rows : Each(SearchAttr, rows))
    IN  List(attrs, "matches", LAMBDA toks : Len(toks) >= 2, LAMBDA rows : Each(SearchMatch, rows))

RECURSIVE SearchObjs(_, _)
SearchObjs(s, version) ==
    LET one  == ReadNextSearchObj(s, version)
        more == SearchObjs(one.rest, version)
    IN  IF AtEnd(s) THEN Objects(<<>>)
        ELSE IF one.rc # "success" \/ more.rc # "success" THEN SyntaxError
        ELSE Objects(<<one.v>> \o more.list)

InitSearchPrefs(s) ==
    IF VersionOf(s).rc = "success" /\ VersionOf(s).v.version \notin {0, 1} THEN [rc |-> "version"]
    ELSE IF VersionOf(s).rc # "success" THEN SyntaxError
    ELSE SearchObjs(VersionOf(s).rest, VersionOf(s).v.version)

-----------------------------------------------------------------------------
(* Display templates *)
TmplOptions == {"addable", "modrdn", "altview"}
ItemOptions == {"ro", "sort", "1val", "hide", "required", "hideiffalse"}
ItemTypes   == {"cis", "mls", "dn", "bool", "jpeg", "jpegbtn", "fax", "faxbtn", "audiobtn", "time", "date", "url",
                "searchact", "linkact", "adddnact", "addact", "verifyact", "mail"}
Syntax(type) == IF type = "addact" THEN "adddnact" ELSE type

AddDefault(toks) ==
    \/ toks[1] = <<"constant">> /\ Len(toks) = 3
    \/ toks[1] = <<"addersdn">> /\ Len(toks) = 2
AddDef(toks) == [source |-> toks[1][1], attr |-> toks[2], value |-> IF toks[1] = <<"constant">> THEN toks[3] ELSE None]

(* an item's type and its options, each after a comma *)
Parts(t) == SplitAt(t, ",")
IsItem(toks) ==
    /\ toks[1] = <<"item">> /\ Len(toks) >= 4
    /\ \E type \in ItemTypes : Parts(toks[2])[1] = <<type>>
    /\ \A i \in 2..Len(Parts(toks[2])) : \E o \in ItemOptions : Parts(toks[2])[i] = <<o>>
IsRowMark(toks) == toks[1] = <<"samerow">>

Item(toks) ==
    LET parts == Parts(toks[2])
    IN  [syntax |-> Syntax(parts[1][1]), options |-> {parts[i][1] : i \in 2..Len(parts)}, label |-> toks[3],
         attr |-> IF toks[4] = <<>> THEN None ELSE toks[4], args |-> From(toks, 4)]

(* items stand below each other; an item after "samerow" stands in the row *)
(* of the one before it *)
ItemRows(rows) ==
    FoldLeft(LAMBDA grid, i :
               IF IsRowMark(rows[i]) THEN grid
               ELSE IF grid # <<>> /\ IsRowMark(rows[i - 1]) THEN Append(Front(grid), Append(Last(grid), Item(rows[i])))
               ELSE Append(grid, <<Item(rows[i])>>),
             <<>>, [i \in DOMAIN rows |-> i])

ReadNextTmpl(s) ==
    LET names   == FoldLeft(Plain, Reader(s), <<"name", "pluralname", "iconname">>)
        classes == List(Options(names, "options", TmplOptions), "oclist", LAMBDA toks : TRUE, LAMBDA rows : rows)
        adding  == OrNone(Plain(OrNone(classes, "authattr"), "rdnattr"), "location")
        defs    == List(adding, "adddefs", AddDefault, LAMBDA rows : Each(AddDef, rows))
    IN  List(defs, "items", LAMBDA toks : IsItem(toks) \/ IsRowMark(toks), ItemRows)

RECURSIVE Tmpls(_)
Tmpls(s) ==
    LET one  == ReadNextTmpl(s)
        more == Tmpls(one.rest)
    IN  IF AtEnd(s) THEN Objects(<<>>)
        ELSE IF one.rc # "success" \/ more.rc # "success" THEN SyntaxError
        ELSE Objects(<<one.v>> \o more.list)

InitTemplates(s) ==
    IF VersionOf(s).rc = "success" /\ VersionOf(s).v.version # 1 THEN [rc |-> "version"]
    ELSE IF VersionOf(s).rc # "success" THEN SyntaxError
    ELSE Tmpls(VersionOf(s).rest)

(* the first template of a list that Is says, or none *)
FirstTmpl(list, Is(_)) == LET i == SelectInSeq(list, Is) IN IF i = 0 THEN None ELSE list[i]
Name2Template(name, list) == FirstTmpl(list, LAMBDA t : t.name = name)

(* ldap_oc2template counts the pairs of equal names, and needs as many as  *)
(* there are classes in one of a template's lists *)
Matches(need, have) == Cardinality({p \in (DOMAIN need) \X (DOMAIN have) : need[p[1]] = have[p[2]]})
Oc2Template(have, list) ==
    IF have = <<>> THEN None
    ELSE FirstTmpl(list, LAMBDA t : \E i \in DOMAIN t.oclist : Matches(t.oclist[i], have) = Len(t.oclist[i]))

(* ldap_tmplattrs: those to include and those of the items whose syntax is *)
(* in the mask, or is not *)
TmplAttrs(t, include, exclude, mask) ==
    LET wanted(i) == i.attr # None /\ (mask = {} \/ (i.syntax \in mask) # exclude)
        found     == include \o Each(LAMBDA i : i.attr, SelectSeq(FlattenSeq(t.items), wanted))
    IN  IF found = <<>> THEN None ELSE found

-----------------------------------------------------------------------------
(* Friendly names: lines of a name, a tab and its friendly name.  What is  *)
(* kept of a quoted friendly name is what follows it. *)
FriendlyLine(l) ==
    LET tab   == SelectInSeq(l, LAMBDA c : c = "\t")
        value == From(l, tab)
        ends  == {i \in 2..Len(value) : value[i] = "\"" /\ value[i - 1] # "\\"}
        end   == IF ends = {} THEN Len(value) ELSE CHOOSE i \in ends : \A j \in ends : i <= j
    IN  [unfriendly |-> SubSeq(l, 1, tab - 1),
         friendly   |-> IF value # <<>> /\ value[1] = "\"" THEN From(value, end) ELSE value]

FriendlyMap(s) ==
    Each(FriendlyLine, SelectSeq(SplitAt(s, "\n"), LAMBDA l : l # <<>> /\ l[1] # "#" /\ \E i \in DOMAIN l : l[i] = "\t"))

FriendlyName(s, uname) ==
    LET map == FriendlyMap(s)
        i   == SelectInSeq(map, LAMBDA m : m.unfriendly = uname)
    IN  IF i = 0 THEN uname ELSE map[i].friendly

-----------------------------------------------------------------------------
(* Filter files: which filters an application tries for what a user wrote. *)
(* A description is a sequence of lists [tag, pattern, delims, infos] in   *)
(* the order of the file, an info [filter, desc, scope, isexact].  Regular *)
(* expressions are the system's: Basic are those that compile when a file  *)
(* is read, Extended has those that compile when they are used, each with  *)
(* the texts that it matches.  Filters fit in the buffer they are built in.*)
CONSTANTS Basic, Extended

NoFilters   == [rc |-> "invalid"]
Fault       == [rc |-> "fault"]     \* a null pointer is used

IsExact(filter) == \A i \in DOMAIN filter : filter[i] \notin {"*", "~"}

(* a filter, its description and perhaps a scope, added to the last list;  *)
(* without a list it is dropped *)
AddInfo(st, toks) ==
    LET scope == IF Len(toks) < 3 THEN <<"subtree">> ELSE toks[3]
        info  == [filter |-> toks[1], desc |-> toks[2], scope |-> scope[1], isexact |-> IsExact(toks[1])]
    IN  IF st.lists = <<>> THEN st
        ELSE IF \A n \in ScopeNames : scope # <<n>> THEN NoFilters
        ELSE [st EXCEPT !.lists[Len(st.lists)].infos = Append(@, info)]

StartList(st, toks) ==
    IF st.tag = None THEN Fault
    ELSE IF toks[1] \notin Basic THEN NoFilters
    ELSE AddInfo([st EXCEPT !.lists = Append(@, [tag |-> st.tag, pattern |-> toks[1], delims |-> toks[2], infos |-> <<>>])],
                 From(toks, 2))

FilterLine(st, toks) ==
    CASE st.rc # "success" -> st
      [] Len(toks) = 1 -> [st EXCEPT !.tag = toks[1]]
      [] Len(toks) \in {2, 3} -> AddInfo(st, toks)
      [] Len(toks) \in {4, 5} -> StartList(st, toks)
      [] OTHER -> NoFilters

InitGetFilter(s) ==
    FoldLeft(FilterLine, [rc |-> "success", tag |-> None, lists |-> <<>>], Rows(s).rows)

-----------------------------------------------------------------------------
(* break_into_words: what is between delimiters, without what is empty *)
Words(value, delims) ==
    SelectSeq(FoldLeft(LAMBDA ws, c : IF \E i \in DOMAIN delims : delims[i] = c THEN Append(ws, <<>>)
                                      ELSE Append(Front(ws), Append(Last(ws), c)), <<<<>>>>, value),
              LAMBDA w : w # <<>>)

(* ldap_build_filter.  %v is the value, %v$ its last word, %v1 its first   *)
(* word and %v2-3 or %v2- a range of them; %a is the attribute.            *)
Digits == ("1" :> 1) @@ ("2" :> 2) @@ ("3" :> 3)
IsDigit(p, i) == i <= Len(p) /\ p[i] \in DOMAIN Digits
Is(p, i, c)   == i <= Len(p) /\ p[i] = c
Smaller(m, n) == IF m < n THEN m ELSE n

Blanked(words) == FoldLeft(LAMBDA s, i : s \o (IF i > 1 THEN <<" ">> ELSE <<>>) \o words[i], <<>>, [i \in DOMAIN words |-> i])

(* the words that %v at p has after it, and how much of the pattern that is *)
Piece(p, value, words) ==
    LET n     == Len(words)
        first == Digits[p[3]]
        some(last, len) == [len |-> len, text |-> IF n = 0 THEN <<>> ELSE Blanked(SubSeq(words, first, last))]
    IN  CASE IsDigit(p, 3) /\ Is(p, 4, "-") /\ IsDigit(p, 5) -> some(Smaller(Digits[p[5]], n), 5)
          [] IsDigit(p, 3) /\ Is(p, 4, "-") /\ ~IsDigit(p, 5) -> some(n, 4)
          [] IsDigit(p, 3) /\ ~Is(p, 4, "-") -> some(first, 3)
          [] Is(p, 3, "$") -> [len |-> 3, text |-> IF n = 0 THEN <<>> ELSE words[n]]
          [] OTHER -> [len |-> 2, text |-> IF value = None THEN <<>> ELSE value]

RECURSIVE Expand(_, _, _, _)
Expand(p, attr, value, words) ==
    LET v == Piece(p, value, words)
    IN  CASE p = <<>> -> <<>>
          [] Is(p, 1, "%") /\ Is(p, 2, "v") -> v.text \o Expand(From(p, v.len), attr, value, words)
          [] Is(p, 1, "%") /\ Is(p, 2, "a") /\ attr # None -> attr \o Expand(From(p, 2), attr, value, words)
          [] Is(p, 1, "%") -> <<p[2]>> \o Expand(From(p, 2), attr, value, words)
          [] OTHER -> <<p[1]>> \o Expand(From(p, 1), attr, value, words)

BuildFilter(p, prefix, suffix, attr, value, words) ==
    (IF prefix = None THEN <<>> ELSE prefix) \o Expand(p, attr, value, words)
    \o (IF suffix = None THEN <<>> ELSE suffix)

(* What ldap_getfirstfilter and then ldap_getnextfilter give until they    *)
(* give nothing: the filters of the first list whose tag and pattern match *)
Compiles(p)      == p \in DOMAIN Extended
Applies(l, tagpat, value) ==
    Compiles(tagpat) /\ l.tag \in Extended[tagpat] /\ Compiles(l.pattern) /\ value \in Extended[l.pattern]

GetFilters(lists, affixes, tagpat, value) ==
    LET i == SelectInSeq(lists, LAMBDA l : Applies(l, tagpat, value))
        words == Words(value, lists[i].delims)
    IN  IF i = 0 THEN <<>>
        ELSE Each(LAMBDA f : [f EXCEPT !.filter = BuildFilter(f.filter, affixes.prefix, affixes.suffix, None, value, words)],
                  lists[i].infos)

-----------------------------------------------------------------------------
(* The texts of such files, as a user writes them, against what is read.   *)
(* A style of writing is [newline, gap, quoted, comments]: what ends a     *)
(* line, what is between tokens, whether tokens are quoted that need not   *)
(* be, and whether there are comments and empty lines.                     *)
Blank(t) == t = <<>> \/ \E i \in DOMAIN t : t[i] \in {" ", "\t"}
TokenText(t, style) == IF style.quoted \/ Blank(t) THEN <<"\"">> \o t \o <<"\"">> ELSE t
LineText(toks, style) ==
    (IF style.comments THEN <<"#", " ", "END">> \o style.newline \o style.newline ELSE <<>>)
    \o FlattenSeq([i \in DOMAIN toks |-> style.gap \o TokenText(toks[i], style)]) \o style.newline
FileText(lines, style) == FlattenSeq(Each(LAMBDA toks : LineText(toks, style), lines))

Styles == {[newline |-> <<"\n">>, gap |-> <<" ">>, quoted |-> FALSE, comments |-> FALSE],
           [newline |-> <<"\r">>, gap |-> <<" ">>, quoted |-> TRUE, comments |-> TRUE],
           [newline |-> <<"\n">>, gap |-> <<"\t", " ">>, quoted |-> TRUE, comments |-> TRUE]}
End == <<<<"END">>>>
Singles(ts) == Each(LAMBDA t : <<t>>, ts)
SomeOrNone(known, chosen) == <<<<"x">>>> \o SetToSeq({<<o>> : o \in known \cap chosen})
OrEmpty(t) == IF t = None THEN <<>> ELSE t
Version(n) == <<<<<<"version">>, <<CHOOSE w \in DOMAIN Atoi : Atoi[w] = n>>>>>>

(* A file read in each style is what was written; one that ends after its  *)
(* version, or after one of the lines that its first object begins with,   *)
(* the first of these apart, is refused.                                   *)
SameInStyles(lines, head, Init(_), list) ==
    \A style \in Styles :
      /\ Init(FileText(lines, style)) = Objects(list)
      /\ \A n \in {1} \cup 3..head : Init(FileText(SubSeq(lines, 1, n), style)) = SyntaxError
      /\ Init(FileText(Version(7) \o Tail(lines), style)) = [rc |-> "version"]

(* search preferences *)
BitText(bits) == LET n == IF bits = {} THEN 0 ELSE Max(bits)
                 IN  [i \in 1..n + 1 |-> IF n + 1 - i \in bits THEN "1" ELSE "0"]
ObjLines(o, version) ==
    <<<<o.objtypeprompt>>>> \o (IF version = 0 THEN <<>> ELSE <<SomeOrNone({"internal"}, o.options)>>)
    \o Singles(<<o.prompt, o.filterprefix, o.filtertag, o.selectattr, o.selecttext, <<o.scope>>>>)
    \o Each(LAMBDA a : <<a.label, a.attr, BitText(a.matchtypes), a.selectattr, a.selecttext>>, o.attrs) \o <<End>>
    \o Each(LAMBDA m : <<m.prompt, m.filter>>, o.matches) \o <<End>>

(* An item is [version, list]. *)
SearchPrefsReadBack(x) ==
    SameInStyles(Version(x.version) \o FlattenSeq(Each(LAMBDA o : ObjLines(o, x.version), x.list)), 8 + x.version,
                 InitSearchPrefs, x.list)

(* display templates *)
ItemToken(i) == <<CHOOSE type \in ItemTypes : Syntax(type) = i.syntax>> \o FlattenSeq(SetToSeq({<<",", o>> : o \in i.options}))
ItemLine(i)  == <<<<"item">>, ItemToken(i), i.label, OrEmpty(i.attr)>> \o i.args
RowLines(row) == FlattenSeq([k \in DOMAIN row |-> (IF k > 1 THEN <<<<<<"samerow">>>>>> ELSE <<>>) \o <<ItemLine(row[k])>>])
TmplLines(t) ==
    Singles(<<t.name, t.pluralname, t.iconname>>) \o <<SomeOrNone(TmplOptions, t.options)>>
    \o t.oclist \o <<End>> \o Singles(<<OrEmpty(t.authattr), t.rdnattr, OrEmpty(t.location)>>)
    \o Each(LAMBDA d : <<<<d.source>>, d.attr>> \o (IF d.value = None THEN <<>> ELSE <<d.value>>), t.adddefs) \o <<End>>
    \o FlattenSeq(Each(RowLines, t.items)) \o <<End>>

(* An item is a sequence of templates.  Without a class twice, a template  *)
(* is found for an entry by the first of the lists of which the entry has  *)
(* every class. *)
TemplatesReadBack(list) ==
    LET classes == UNION {UNION {Range(t.oclist[i]) : i \in DOMAIN t.oclist} : t \in Range(list)}
        fits(t, have) == \E i \in DOMAIN t.oclist : Range(t.oclist[i]) \subseteq have
        attrs(t) == {i.attr : i \in Range(FlattenSeq(t.items))} \ {None}
    IN  /\ SameInStyles(Version(1) \o FlattenSeq(Each(TmplLines, list)), 5, InitTemplates, list)
        /\ \A have \in SUBSET classes :
             LET found == Oc2Template(SetToSeq(have), list)
                 fit   == {i \in DOMAIN list : fits(list[i], have)}
             IN  found = IF have = {} \/ fit = {} THEN None ELSE list[Min(fit)]
        /\ \A i \in DOMAIN list :
             LET t == list[i]
             IN  /\ Name2Template(t.name, list) = list[Min({j \in DOMAIN list : list[j].name = t.name})]
                 /\ TmplAttrs(t, <<>>, FALSE, {}) # None => Range(TmplAttrs(t, <<>>, FALSE, {})) = attrs(t)
                 /\ \A mask \in {{"cis"}, {"dn", "mls"}} :
                      UNION {Range(TmplAttrs(t, <<<<"x">>>>, e, mask)) : e \in BOOLEAN} = attrs(t) \cup {<<"x">>}

(* Friendly names.  An item is a sequence of [unfriendly, friendly]. *)
FriendlyReadsBack(x) ==
    LET lines == Each(LAMBDA m : m.unfriendly \o <<"\t">> \o m.friendly \o <<"\n">>, x)
        text  == <<"#", "a", "\t", "b", "\n", "\n", "a", "\n">> \o FlattenSeq(lines)
        first(i) == Min({j \in DOMAIN x : x[j].unfriendly = x[i].unfriendly})
    IN  /\ \A i \in DOMAIN x : FriendlyName(text, x[i].unfriendly) = x[first(i)].friendly
        /\ FriendlyName(text, <<"#", "a">>) = <<"#", "a">>

-----------------------------------------------------------------------------
(* Filter files.  An item is [lists, affixes, value, tagpat], the filters  *)
(* of a list sequences of [kind, from, to]: a character, the value, its    *)
(* last word, or a range of its words.                                     *)
PartText(p) ==
    CASE p.kind = "char"  -> IF p.from = "%" THEN <<"%", "%">> ELSE <<p.from>>
      [] p.kind = "value" -> <<"%", "v">>
      [] p.kind = "last"  -> <<"%", "v", "$">>
      [] p.kind = "word"  -> <<"%", "v", p.from>>
      [] p.kind = "rest"  -> <<"%", "v", p.from, "-">>
      [] p.kind = "words" -> <<"%", "v", p.from, "-", p.to>>
PartSays(p, value, words) ==
    LET n == Len(words)
        between(a, b) == FlattenSeq([i \in 1..n |-> IF i \notin a..b THEN <<>> ELSE IF i = a THEN words[i] ELSE <<" ">> \o words[i]])
    IN  CASE p.kind = "char"  -> <<p.from>>
          [] p.kind = "value" -> value
          [] p.kind = "last"  -> between(n, n)
          [] p.kind = "word"  -> between(Digits[p.from], Digits[p.from])
          [] p.kind = "rest"  -> between(Digits[p.from], n)
          [] p.kind = "words" -> between(Digits[p.from], Digits[p.to])
PatternText(parts) == FlattenSeq(Each(PartText, parts))

InfoLine(i) == <<PatternText(i.parts), i.desc>> \o (IF i.scope = "subtree" THEN <<>> ELSE <<<<i.scope>>>>)
ListLines(l) ==
    <<<<l.tag>>>> \o [k \in DOMAIN l.infos |-> (IF k = 1 THEN <<l.pattern, l.delims>> ELSE <<>>) \o InfoLine(l.infos[k])]

ReadInfo(i)  == [filter |-> PatternText(i.parts), desc |-> i.desc, scope |-> i.scope, isexact |-> IsExact(PatternText(i.parts))]
GivenInfo(i, x, words) ==
    [ReadInfo(i) EXCEPT !.filter =
       x.affixes.prefix \o FlattenSeq(Each(LAMBDA p : PartSays(p, x.value, words), i.parts)) \o x.affixes.suffix]

(* The lists are read back, and the filters that are tried for a value are *)
(* those of the first list for the tag and the value, each with the words  *)
(* of the value where it says; a value without one gets none.              *)
FiltersReadBack(x) ==
    LET lines == FlattenSeq(Each(ListLines, x.lists))
        read  == Each(LAMBDA l : [l EXCEPT !.infos = Each(ReadInfo, @)], x.lists)
        able  == {i \in DOMAIN x.lists : x.lists[i].tag \in Extended[x.tagpat] /\ x.value \in Extended[x.lists[i].pattern]}
        l     == x.lists[Min(able)]
        cut   == {0} \cup {i \in DOMAIN x.value : x.value[i] \in Range(l.delims)} \cup {Len(x.value) + 1}
        words == Each(LAMBDA p : SubSeq(x.value, p[1] + 1, p[2] - 1),
                      SetToSortSeq({p \in cut \X cut : p[1] + 1 < p[2] /\ \A i \in cut : ~(p[1] < i /\ i < p[2])},
                                   LAMBDA p, q : p[1] < q[1]))
    IN  /\ \A style \in Styles : InitGetFilter(FileText(lines \o <<End>>, style)).lists = read
        /\ GetFilters(read, x.affixes, x.tagpat, x.value) =
             IF able = {} THEN <<>> ELSE Each(LAMBDA i : GivenInfo(i, x, words), l.infos)
=============================================================================
