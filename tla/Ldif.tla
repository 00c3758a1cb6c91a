-------------------------------- MODULE Ldif --------------------------------
(***************************************************************************)
(* LDIF (line64.c): lines "name: value" of a record, folded where they are *)
(* too long, with the values that are no plain text in base 64.  Text is a *)
(* sequence of octets, the numbers of its ASCII characters.  Base 64       *)
(* (base64.c) makes octets ASCII characters and back.                      *)
(***************************************************************************)
EXTENDS Integers, SequencesExt

CONSTANTS Coded,      \* names whose values are never text: userPassword, ;binary
          Files       \* what ldif_fetch_url finds: a function of URLs

Newline == 10
Space   == 32
Hash    == 35
Colon   == 58
Less    == 60
Marker  == 1          \* CONTINUED_LINE_MARKER
Width   == 76         \* LDIF_LINE_WIDTH
Kludge  == 1          \* LDIF_KLUDGE
Graph   == 33..126
Printable == 32..126

-----------------------------------------------------------------------------
(* Base 64. *)
Pad   == 61                                     \* '='
Error == <<-1>>
Blank == {32} \cup 9..13                        \* isspace

(* the character of six bits, and the six bits of a character *)
Digit == [n \in 0..63 |-> IF n < 26 THEN 65 + n ELSE IF n < 52 THEN 71 + n
                          ELSE IF n < 62 THEN n - 4 ELSE IF n = 62 THEN 43 ELSE 47]
Nib   == [c \in {Digit[n] : n \in 0..63} |-> CHOOSE n \in 0..63 : Digit[n] = c]

(* the digits of octets: of each three four, of which those that hold no   *)
(* octet are padding *)
Digits(src, full(_)) ==
    LET octet(i) == IF i <= Len(src) THEN src[i] ELSE 0
        bits(g)  == 65536 * octet(3 * g + 1) + 256 * octet(3 * g + 2) + octet(3 * g + 3)
        digit(i) == IF full(i) THEN Digit[(bits((i - 1) \div 4) \div 64^(3 - ((i - 1) % 4))) % 64] ELSE Pad
        n        == 4 * ((Len(src) + 2) \div 3)
    IN  SubSeq([i \in 1..n |-> digit(i)], 1, n)

Encode(src) == Digits(src, LAMBDA i : 6 * (i - 1) < 8 * Len(src))

(* lutil_b64_ntop: with room for the terminating zero, or an error *)
Ntop(src, targsize) == IF Len(Encode(src)) >= targsize THEN Error ELSE Encode(src)

(* lutil_b64_pton: white space is skipped; nothing but padding may follow  *)
(* the digits, and the bits that are left over are zero.  A digit that     *)
(* starts an octet needs room for it.                                      *)
Pton(chars, targsize) ==
    LET s      == SelectSeq(chars, LAMBDA c : c \notin Blank)
        n      == SelectInSeq(s, LAMBDA c : c = Pad)
        digits == IF n = 0 THEN s ELSE SubSeq(s, 1, n - 1)
        rest   == SubSeq(s, Len(digits) + 1, Len(s))
        state  == Len(digits) % 4
        out    == (3 * Len(digits)) \div 4                     \* whole octets
        octet(k) == LET i == (4 * (k - 1)) \div 3 + 1             \* its first digit
                        d(j) == Nib[digits[j]]
                    IN  CASE k % 3 = 1 -> 4 * d(i) + d(i + 1) \div 16
                          [] k % 3 = 2 -> 16 * (d(i) % 16) + d(i + 1) \div 4
                          [] k % 3 = 0 -> 64 * (d(i) % 4) + d(i + 1)
        left   == CASE state = 2 -> Nib[Last(digits)] % 16
                    [] state = 3 -> Nib[Last(digits)] % 4
                    [] OTHER -> 0
        room   == IF state = 0 THEN out ELSE out + 1
    IN  IF \/ \E i \in DOMAIN digits : digits[i] \notin DOMAIN Nib
           \/ room > targsize
           \/ state = 1
           \/ rest # (CASE state = 2 -> <<Pad, Pad>> [] state = 3 -> <<Pad>> [] OTHER -> <<>>)
           \/ left # 0
        THEN Error
        ELSE SubSeq([k \in 1..out |-> octet(k)], 1, out)

-----------------------------------------------------------------------------
(* a newline and a space before every character that would make the line   *)
(* longer than width: len characters stand on it already, so that full     *)
(* more fit there and, behind a newline and a space, width on any other    *)
Wrap(len, chars, width) ==
    LET full == IF len > width THEN 0 ELSE width - len + 1
        n    == Len(chars) + (IF Len(chars) <= full THEN 0 ELSE 2 * ((Len(chars) - full - 1) \div width + 1))
        at(j) == LET k == j - full - 1
                     c == k % (width + 2)
                 IN  IF j <= full THEN chars[j]
                     ELSE CASE c = 0 -> Newline [] c = 1 -> Space
                            [] OTHER -> chars[full + (k \div (width + 2)) * width + c - 1]
    IN  SubSeq([j \in 1..n |-> at(j)], 1, n)

(* a value that can stand in a line as it is *)
Plain(val) == /\ val[1] \in Graph \ {Colon, Less}
              /\ Last(val) \in Graph
              /\ Range(val) \subseteq Printable

(* ldif_is_not_printable *)
IsNotPrintable(val) == IF val = <<>> THEN -1 ELSE IF Plain(val) THEN 0 ELSE 1

(* ldif_sput *)
Sput(type, name, val) ==
    LET head == CASE type = "comment" -> IF val = <<>> THEN <<Hash>> \o name ELSE <<Hash, Space>> \o name
                  [] type = "url"     -> name \o <<Colon, Less, Space>>
                  [] type = "b64"     -> name \o <<Colon, Colon, Space>>
                  [] OTHER            -> name \o <<Colon, Space>>
        text == type \in {"comment", "url", "b64", "text"}
        coded == name \o <<Colon, Colon, Space>>
    IN  IF type = "sep" THEN <<Newline>>
        ELSE IF val = <<>> \/ type = "novalue"
        THEN (IF type = "comment" THEN head ELSE Append(name, Colon)) \o <<Newline>>
        ELSE IF text THEN head \o Wrap(Len(head), val, Width) \o <<Newline>>
        ELSE IF type = "value" /\ Plain(val) /\ name \notin Coded
        THEN head \o Wrap(Len(head), val, Width + Kludge) \o <<Newline>>
        ELSE coded \o Wrap(Len(coded), Encode(val), Width + Kludge) \o <<Newline>>

(* what ldif_put allocates for it: LDIF_SIZE_NEEDED and the final zero *)
Base64Len(len) == (len * 4) \div 3 + 3
SizeNeeded(nlen, vlen) == nlen + 4 + Base64Len(vlen) + ((Base64Len(vlen) + nlen + 3) \div Width) * 2

-----------------------------------------------------------------------------
(* ldif_getline, until there is no other line: a newline before white      *)
(* space, and the white space, become markers; comments are skipped        *)
RECURSIVE Lines(_)
Lines(buf) ==
    LET ends(i)  == buf[i] = Newline /\ (i = Len(buf) \/ buf[i + 1] \notin Blank \ {Newline})
        end      == SelectInSeq([i \in DOMAIN buf |-> ends(i)], LAMBDA b : b)
        line     == IF end = 0 THEN buf ELSE SubSeq(buf, 1, end - 1)
        marks(i) == line[i] = Newline \/ (i > 1 /\ line[i - 1] = Newline)
        rest     == IF end = 0 THEN <<>> ELSE Lines(SubSeq(buf, end + 1, Len(buf)))
    IN  IF buf = <<>> \/ buf[1] = Newline THEN <<>>
        ELSE IF line[1] = Hash THEN rest
        ELSE <<SubSeq([i \in DOMAIN line |-> IF marks(i) THEN Marker ELSE line[i]], 1, Len(line))>> \o rest

SkipSpace(s) == IF Range(s) \subseteq Blank THEN <<>>
                ELSE SubSeq(s, CHOOSE i \in DOMAIN s : s[i] \notin Blank /\ \A j \in 1..i - 1 : s[j] \in Blank, Len(s))
TrimSpace(s) == SubSeq(s, 1, CHOOSE n \in {1} \cup DOMAIN s : (n = 1 \/ s[n] \notin Blank) /\ \A j \in n + 1..Len(s) : s[j] \in Blank)

(* the octets of base 64 in a line: groups of four, of which the first     *)
(* with a "=" in its third or fourth place is the last; a "=" in its first *)
(* or second is taken for a digit of ones, which fill the octet            *)
Decode(s) ==
    LET groups == (Len(s) + 3) \div 4
        d(g, i) == IF s[4 * g - 4 + i] = Pad THEN 63 ELSE Nib[s[4 * g - 4 + i]]
        all(g) == <<IF s[4 * g - 2] = Pad THEN 255 ELSE 4 * d(g, 1) + d(g, 2) \div 16,
                    16 * (d(g, 2) % 16) + d(g, 3) \div 4, 64 * (d(g, 3) % 4) + d(g, 4)>>
        many(g) == IF s[4 * g - 1] = Pad THEN 1 ELSE IF s[4 * g] = Pad THEN 2 ELSE 3
        octets == FoldLeft(LAMBDA st, g : IF st.done THEN st
                                          ELSE [out |-> st.out \o SubSeq(all(g), 1, many(g)), done |-> many(g) < 3],
                           [out |-> <<>>, done |-> FALSE], [g \in 1..groups |-> g])
    IN  IF Len(s) % 4 # 0 \/ \E i \in DOMAIN s : s[i] # Pad /\ s[i] \notin DOMAIN Nib THEN Error ELSE octets.out

(* ldif_parse_line: the octets after a padded group are not looked at; the *)
(* value of a colon without one is missing, which is no error              *)
Failed  == [ok |-> FALSE]
Missing == <<-2>>
ParseLine(raw) ==
    LET line  == SkipSpace(raw)
        colon == SelectInSeq(line, LAMBDA c : c = Colon)
        type  == TrimSpace(SubSeq(line, 1, colon - 1))
        tail  == SubSeq(line, colon + 1, Len(line))
        form  == IF tail # <<>> /\ tail[1] \in {Less, Colon} THEN tail[1] ELSE Space
        text  == SelectSeq(SkipSpace(IF form = Space THEN tail ELSE Tail(tail)), LAMBDA c : c # Marker)
        padded == {g \in 1..Len(text) \div 4 : Pad \in {text[4 * g - 1], text[4 * g]}}
        seen  == IF padded = {} THEN text ELSE SubSeq(text, 1, 4 * (CHOOSE g \in padded : \A h \in padded : g <= h))
        value == IF tail = <<>> THEN <<>>
                 ELSE IF text = <<>> THEN Missing
                 ELSE CASE form = Space -> text
                        [] form = Colon -> Decode(seen)
                        [] form = Less  -> IF text \in DOMAIN Files THEN Files[text] ELSE Error
    IN  IF colon = 0 \/ value = Error THEN Failed
        ELSE [ok |-> TRUE, type |-> type, value |-> value]

-----------------------------------------------------------------------------
(* ldif_read_record: what fgets returns with room for size octets, and the *)
(* newline that is added at the end of the file                            *)
RECURSIVE Chunks(_, _)
Chunks(file, size) ==
    LET n   == SelectInSeq(file, LAMBDA c : c = Newline)
        len == IF n > 0 /\ n < size THEN n ELSE IF Len(file) < size THEN Len(file) ELSE size - 1
    IN  IF file = <<>> THEN <<<<Newline>>>> ELSE <<SubSeq(file, 1, len)>> \o Chunks(SubSeq(file, len + 1, Len(file)), size)

(* A record ends at an empty line; an index, a line of digits before it,   *)
(* and the empty lines before it are skipped.                              *)
ReadRecord(file, size) ==
    LET index(line) == line[1] \in 48..57
        step(st, line) ==
            LET new   == st.last = Newline
                next  == [st EXCEPT !.used = @ + Len(line), !.last = Last(line)]
            IN  IF st.done THEN st
                ELSE IF new /\ line[1] = Newline THEN [next EXCEPT !.done = st.found]
                ELSE IF new /\ ~st.found
                THEN [next EXCEPT !.found = TRUE, !.out = IF index(line) THEN @ ELSE @ \o line]
                ELSE [next EXCEPT !.out = @ \o line]
        end == FoldLeft(step, [last |-> Newline, found |-> FALSE, done |-> FALSE, used |-> 0, out |-> <<>>], Chunks(file, size))
    IN  [found |-> end.found, record |-> end.out, rest |-> SubSeq(file, end.used + 1, Len(file))]
=============================================================================
