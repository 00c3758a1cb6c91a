------------------------------ MODULE BerCode ------------------------------
(***************************************************************************)
(* BER elements: what ber_printf writes for a format and its arguments     *)
(* (encode.c) and what ber_scanf reads back (decode.c).                    *)
(*                                                                         *)
(* A format with its arguments is a sequence of [f, v], f the letter and v *)
(* the argument, None for a letter that has none; a string is a sequence   *)
(* of octets.  ber_int_t, ber_tag_t and ber_len_t have four octets.        *)
(***************************************************************************)
EXTENDS Integers, SequencesExt

CONSTANT None       \* no argument, no value

Failed  == [ok |-> FALSE]
Default == 0                     \* LBER_DEFAULT, as the tag to write

Octet(n, i)     == (n \div 256^i) % 256
BigEndian(n, k) == [j \in 1..k |-> Octet(n, k - j)]
Highest(S)      == CHOOSE i \in S : \A j \in S : j <= i

-----------------------------------------------------------------------------
(* Writing *)
TagLen(tag) == 1 + Highest({0} \cup {i \in 1..3 : Octet(tag, i) # 0})
Tag(tag)    == BigEndian(tag, TagLen(tag))

(* octets of the length, with the one that counts them *)
LenLen(len) ==
    IF len <= 127 THEN 1 ELSE 2 + Highest({0} \cup {i \in 1..3 : Octet(len, i) # 0})

Length(len) ==
    IF LenLen(len) = 1 THEN <<len>>
    ELSE <<127 + LenLen(len)>> \o BigEndian(len, LenLen(len) - 1)

IntLenMut(num) == 1 + Highest({0} \cup {j \in 1..3 : Octet(num, j) # (IF num < 0 THEN 255 ELSE 0)})

(* the octets of an integer: none that only repeat the sign, but one more  *)
(* when the leading one has the other sign *)
IntLen(num) ==
    LET fill == IF num < 0 THEN 255 ELSE 0
        i    == Highest({0} \cup {j \in 1..3 : Octet(num, j) # fill})
    IN  IF (Octet(num, i) >= 128) # (num < 0) THEN i + 2 ELSE i + 1

Element(tag, octets) == Tag(tag) \o Length(Len(octets)) \o octets

BitsOf(octets, blen) == <<8 * Len(octets) - blen>> \o octets

(* the element of one letter, with the tag of a "t" before it or its own *)
Put(f, v, tag) ==
    LET t(default) == IF tag = Default THEN default ELSE tag
    IN  CASE f = "b" -> Element(t(1), <<IF v = 0 THEN 0 ELSE 255>>)
          [] f = "i" -> Element(t(2), BigEndian(v, IntLen(v)))
          [] f = "e" -> Element(t(10), BigEndian(v, IntLen(v)))
          [] f = "B" -> Element(t(3), BitsOf(v.octets, v.bits))
          [] f \in {"o", "O", "s"} -> Element(t(4), v)
          [] f \in {"v", "V"} -> FlattenSeq([i \in DOMAIN v |-> Element(t(4), v[i])])
          [] f = "n" -> Element(t(5), <<>>)

(* ber_put_seqorset: four octets of length, or with LBER_USE_DER as few as *)
(* possible.  The tag of an inner sequence has one octet: the length is    *)
(* written over the second one of a longer tag (encode.c line 634).        *)
SeqHeader(tag, len, der) == Tag(tag) \o (IF der THEN Length(len) ELSE <<132>> \o BigEndian(len, 4))

(* ber_printf: sos is the chain of open sequences, the outermost element   *)
(* last, each with its tag and the contents so far *)
PrintStep(st, x, der) ==
    LET top  == Head(st.sos)
        sos  == Tail(st.sos)
        into(chain, octets) == <<[chain[1] EXCEPT !.octets = @ \o octets]>> \o Tail(chain)
        done == [st EXCEPT !.tag = Default]
        opened(default) == <<[tag |-> IF st.tag = Default THEN default ELSE st.tag, octets |-> <<>>]>> \o st.sos
    IN  CASE x.f = "t" -> [st EXCEPT !.tag = x.v]
          [] x.f = "{" -> [done EXCEPT !.sos = opened(48)]
          [] x.f = "[" -> [done EXCEPT !.sos = opened(49)]
          [] x.f \in {"}", "]"} ->
               [done EXCEPT !.sos = into(sos, SeqHeader(top.tag, Len(top.octets), der) \o top.octets)]
          [] x.f = "N" -> done
          [] OTHER -> [done EXCEPT !.sos = into(st.sos, Put(x.f, x.v, st.tag))]

Printf(fmt, der) ==
    LET outer == [tag |-> Default, octets |-> <<>>]
    IN  FoldLeft(LAMBDA st, x : PrintStep(st, x, der), [sos |-> <<outer>>, tag |-> Default], fmt).sos[1].octets

-----------------------------------------------------------------------------
(* Reading: ber_read takes n octets or fails *)
GetTag(s) ==
    IF s = <<>> THEN Failed
    ELSE IF s[1] % 32 # 31 THEN [ok |-> TRUE, tag |-> s[1], rest |-> Tail(s)]
    ELSE LET ends == {i \in 2..4 : i <= Len(s) /\ s[i] < 128}
             n    == CHOOSE i \in ends : \A j \in ends : i <= j
         IN  IF ends = {} THEN Failed
             ELSE [ok |-> TRUE, rest |-> SubSeq(s, n + 1, Len(s)),
                   tag |-> FoldLeft(LAMBDA t, c : 256 * t + c, 0, SubSeq(s, 1, n))]

(* A length may have four octets; one that is larger than any buffer here  *)
(* stays larger. *)
Huge == 2^22
Value(octets) == FoldLeft(LAMBDA n, c : IF n >= Huge THEN Huge ELSE 256 * n + c, 0, octets)

SkipTag(s) ==
    LET t == GetTag(s)
        k == IF t.rest[1] >= 128 THEN t.rest[1] - 128 ELSE 0
        n == IF k = 0 THEN t.rest[1] % 128 ELSE Value(SubSeq(t.rest, 2, 1 + k))
        r == SubSeq(t.rest, 2 + k, Len(t.rest))
    IN  IF ~t.ok \/ t.rest = <<>> \/ k > 4 \/ Len(t.rest) < 1 + k \/ n > Len(r) THEN Failed
        ELSE [ok |-> TRUE, tag |-> t.tag, len |-> n, rest |-> r]

(* the element at s, taken off: its tag, its contents, and what follows *)
Take(s) ==
    LET t == SkipTag(s)
    IN  IF ~t.ok THEN Failed
        ELSE [ok |-> TRUE, tag |-> t.tag, octets |-> SubSeq(t.rest, 1, t.len),
              rest |-> SubSeq(t.rest, t.len + 1, Len(t.rest))]

Signed(octets) ==
    FoldLeft(LAMBDA n, c : 256 * n + c, IF octets # <<>> /\ octets[1] >= 128 THEN -1 ELSE 0, octets)

(* the value of one letter; Failed where its ber_get returns LBER_DEFAULT; *)
(* room is the caller's buffer of an "s" *)
Get(f, e, room) ==
    CASE f \in {"b", "i", "e"} /\ Len(e.octets) <= 4 -> [ok |-> TRUE, v |-> Signed(e.octets)]
      [] f \in {"a", "o", "O"} -> [ok |-> TRUE, v |-> e.octets]
      [] f = "s" /\ Len(e.octets) < room -> [ok |-> TRUE, v |-> e.octets]
      [] f = "B" /\ e.octets # <<>> ->
           [ok |-> TRUE, v |-> [octets |-> Tail(e.octets), bits |-> 8 * (Len(e.octets) - 1) - e.octets[1]]]
      [] f = "n" /\ e.octets = <<>> -> [ok |-> TRUE, v |-> None]
      [] OTHER -> Failed

(* ber_first_element and ber_next_element over the strings of a "v" in a   *)
(* sequence that is whole; an element that is cut off ends them, which is  *)
(* no error *)
RECURSIVE Strings(_)
Strings(s) == LET e == Take(s) IN IF ~e.ok THEN <<>> ELSE <<e.octets>> \o Strings(e.rest)

(* ber_scanf.  A failure gives back nothing of what was read before it.    *)
ScanStep(st, fmt, i, room) ==
    LET f == fmt[i]
        e == Take(st.rest)
        g == Get(f, e, room)
        sequence == f \in {"{", "["}
    IN  CASE ~st.ok -> st
          [] f \in {"}", "]"} -> st
          [] sequence /\ i < Len(fmt) /\ fmt[i + 1] \in {"v", "V"} -> st
          [] sequence -> LET t == SkipTag(st.rest)
                         IN  IF t.ok THEN [st EXCEPT !.rest = t.rest] ELSE Failed
          [] f \in {"v", "V"} ->
               IF e.ok THEN [st EXCEPT !.rest = e.rest, !.out = Append(@, Strings(e.octets))]
               ELSE [st EXCEPT !.out = Append(@, <<>>)]
          [] f = "t" /\ e.ok -> [st EXCEPT !.out = Append(@, e.tag)]
          [] f = "T" /\ e.ok -> [st EXCEPT !.out = Append(@, e.tag), !.rest = SkipTag(@).rest]
          [] f = "l" /\ e.ok -> [st EXCEPT !.out = Append(@, Len(e.octets))]
          [] f = "x" /\ e.ok -> [st EXCEPT !.rest = e.rest]
          [] e.ok /\ g.ok -> [st EXCEPT !.rest = e.rest, !.out = Append(@, g.v)]
          [] OTHER -> Failed

Scanf(fmt, s, room) ==
    FoldLeft(LAMBDA st, i : ScanStep(st, fmt, i, room), [ok |-> TRUE, rest |-> s, out |-> <<>>],
             [i \in 1..Len(fmt) |-> i])
=============================================================================
