------------------------------- MODULE Uuid -------------------------------
(***************************************************************************)
(* The uuids of uuid.h: how one is read from a text, written, and made     *)
(* from a name or from random bytes.                                       *)
(*                                                                         *)
(* A uuid is a sequence of 16 bytes.  A text is a sequence of digits from  *)
(* 0 to 15, of Dash and of Other, which no hexadecimal digit is.           *)
(***************************************************************************)
EXTENDS Digests

Dash == 16
Other == 17
Nil == Zeros(16)

HexPair(a, b) == a * 16 + b

\* create, one character: dashes are skipped, pairs of digits make bytes, and anything
\* else, or a digit too many, makes the uuid nil for good.
Taken(c, ch) ==
  CASE ch = Dash \/ c.nil -> c
    [] ch # Dash /\ ~c.nil /\ (Len(c.data) = 16 \/ ch = Other) -> [c EXCEPT !.nil = TRUE]
    [] OTHER -> IF c.digit = << >> THEN [c EXCEPT !.digit = <<ch>>]
                ELSE [c EXCEPT !.digit = << >>, !.data = Append(@, HexPair(c.digit[1], ch))]

Create(text) ==
  LET c == FoldLeft(Taken, [data |-> << >>, digit |-> << >>, nil |-> FALSE], text)
  IN IF c.nil \/ Len(c.data) < 16 THEN Nil ELSE c.data

\* to_short_str, and operator<< with its dashes.
ShortStr(u) == FlattenSeq([i \in 1..16 |-> <<u[i] \div 16, u[i] % 16>>])
Written(u) ==
  LET s == ShortStr(u) IN
  SubSeq(s, 1, 8) \o <<Dash>> \o SubSeq(s, 9, 12) \o <<Dash>> \o SubSeq(s, 13, 16) \o <<Dash>>
    \o SubSeq(s, 17, 20) \o <<Dash>> \o SubSeq(s, 21, 32)

Variant(u) == CASE u[9] < 128 -> "ncs" [] u[9] \in 128..191 -> "rfc" [] u[9] \in 192..223 -> "microsoft" [] OTHER -> "reserved"

Version(u) == IF u[7] \div 16 \in 1..5 THEN u[7] \div 16 ELSE 0

\* The bits of the variant and of the version, over the ones that are there.
Stamped(b, version) ==
  [b EXCEPT ![9] = (@ & 191) | 128, ![7] = (@ & (version * 16 + 15)) | (version * 16)]

\* basic_uuid_random_generator, of the random bytes.
RandomUuid(bytes) == Stamped(bytes, 4)

\* A character of a wide name is four bytes, of other names it is one.
Characters(name, wide) == IF wide THEN FlattenSeq([i \in DOMAIN name |-> <<name[i], 0, 0, 0>>]) ELSE name

\* uuid_name_generator: the namespace and the name are hashed.
NameUuid(space, name, wide) ==
  Stamped(SubSeq(NameDigest(space \o Characters(name, wide)), 1, 16), 5)

----------------------------------------------------------------------------

\* A uuid that was made says how it was, and is read back as it was written, with
\* dashes and without.
SaysWhatItIs(u, version) ==
  Variant(u) = "rfc" /\ Version(u) = version /\ Create(Written(u)) = u /\ Create(ShortStr(u)) = u

=============================================================================
