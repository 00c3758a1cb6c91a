-------------------------------- MODULE Utf8 --------------------------------
(***************************************************************************)
(* The UTF-8 routines of libldap (utf-8.c) on octet strings.  A string is  *)
(* a sequence of octets without its terminating zero; a position is an     *)
(* index, Len + 1 for the zero.                                            *)
(***************************************************************************)
EXTENDS Integers, SequencesExt, FiniteSetsExt

Invalid  == -1                          \* UCS4_INVALID
At(s, i) == IF i <= Len(s) THEN s[i] ELSE 0
Continues(c) == c \div 64 = 2           \* (c & 0xc0) == 0x80

(* LDAP_UTF8_CHARLEN: the length the first octet announces *)
CharLen(c) ==
    CASE c < 128           -> 1
      [] c \in 128..191    -> 0
      [] c \in 192..223    -> 2
      [] c \in 224..239    -> 3
      [] c \in 240..247    -> 4
      [] c \in 248..251    -> 5
      [] c \in 252..253    -> 6
      [] OTHER             -> 0

(* the bits of the first octet that belong to the character *)
Payload(c, len) == c % (IF len = 1 THEN 128 ELSE 2^(7 - len))

ToUcs4(s, i) ==
    LET len == CharLen(At(s, i))
        rest == [k \in 1..len - 1 |-> At(s, i + k)]
    IN  IF len = 0 \/ \E k \in DOMAIN rest : ~Continues(rest[k]) THEN Invalid
        ELSE FoldLeft(LAMBDA ch, c : 64 * ch + (c % 64), Payload(At(s, i), len), rest)

(* octets of a character, each range with its first octet *)
Ranges == << [below |-> 2^7,  lead |-> 0],   [below |-> 2^11, lead |-> 192],
             [below |-> 2^16, lead |-> 224], [below |-> 2^21, lead |-> 240],
             [below |-> 2^26, lead |-> 248] >>
LengthOf(c) == Min({6} \cup {n \in DOMAIN Ranges : c < Ranges[n].below})

FromUcs4(c) ==
    LET n == LengthOf(c)
        lead == IF n = 6 THEN 252 ELSE Ranges[n].lead
    IN  [k \in 1..n |-> IF k = 1 THEN lead + c \div 64^(n - 1) ELSE 128 + ((c \div 64^(n - k)) % 64)]

(* LDAP_UTF8_NEXT, LDAP_UTF8_PREV: the neighbours go by the markers of the *)
(* continuation octets, six octets at most *)
Next(s, i) ==
    IF At(s, i) < 128 THEN i + 1
    ELSE i + Min({6} \cup {k \in 1..5 : ~Continues(At(s, i + k))})
Prev(s, i) == i - Min({6} \cup {k \in 1..5 : k < i /\ ~Continues(s[i - k])})

(* ldap_utf8_copy *)
Copy(s, i) == SubSeq(s, i, Next(s, i) - 1)

(* where a walk with Next from the start of s passes *)
Starts(s) ==
    FoldLeftDomain(LAMBDA w, i : IF i = w.next THEN [at |-> w.at \cup {i}, next |-> Next(s, i)] ELSE w,
                   [at |-> {}, next |-> 1], s).at

Chars(s) == Cardinality(Starts(s))

-----------------------------------------------------------------------------
(* A character of str is in a set when it is one of the set's characters;  *)
(* two invalid ones are the same character. *)
InSet(s, i, set) == \E k \in Starts(set) : ToUcs4(s, i) = ToUcs4(set, k)
First(s, from, P(_)) == Min({Len(s) + 1} \cup {i \in Starts(s) : i >= from /\ P(i)})

(* strchr and strpbrk as positions, strspn and strcspn as octets from a start *)
StrPbrk(s, set)        == First(s, 1, LAMBDA i : InSet(s, i, set))
StrChr(s, chr)         == StrPbrk(s, Copy(chr, 1))
StrCspn(s, from, set)  == First(s, from, LAMBDA i : InSet(s, i, set)) - from
StrSpn(s, from, set)   == First(s, from, LAMBDA i : ~InSet(s, i, set)) - from

(* ldap_utf8_strtok until it returns NULL *)
RECURSIVE TokensFrom(_, _, _)
TokensFrom(s, last, set) ==
    LET begin == last + StrSpn(s, last, set)
        end   == begin + StrCspn(s, begin, set)
    IN  IF begin > Len(s) THEN <<>>
        ELSE <<SubSeq(s, begin, end - 1)>> \o TokensFrom(s, IF end > Len(s) THEN end ELSE Next(s, end), set)
Tokens(s, set) == TokensFrom(s, 1, set)
=============================================================================
