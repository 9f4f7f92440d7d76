---------------------------- MODULE UnitAlgorithms ----------------------------
(***************************************************************************)
(* The algorithms of unit.hpp: addresses of both families to and from      *)
(* text, the sorts and the search.                                         *)
(*                                                                         *)
(* A text is a sequence of numbers: 0 to 15 for the hexadecimal digits,    *)
(* Colon and Dot.  An address is a sequence of bytes, or Refused.          *)
(* An operator marked "Fault" is a wrong version of the one below it.      *)
(***************************************************************************)
EXTENDS Integers, Sequences, SequencesExt, FiniteSetsExt, Functions

Colon == 16
Dot == 17
Refused == << >>
Zeros(n) == [i \in 1..n |-> 0]

RECURSIVE Digits(_, _)
Digits(n, base) == IF n < base THEN <<n>> ELSE Append(Digits(n \div base, base), n % base)

\* inet4_ntop.
Inet4Text(a) == Digits(a[1], 10) \o <<Dot>> \o Digits(a[2], 10) \o <<Dot>> \o Digits(a[3], 10) \o <<Dot>> \o Digits(a[4], 10)

\* inet4_pton, one character: a dot ends a number; what is no digit and no dot is
\* passed over.
Inet4Char(s, c) ==
  IF s.refused THEN s
  ELSE IF c < 10 THEN [s EXCEPT !.acc = @ * 10 + c]
  ELSE IF c # Dot THEN s
  ELSE IF s.dots = 3 \/ s.acc > 255 THEN [s EXCEPT !.refused = TRUE]
  ELSE [s EXCEPT !.dots = @ + 1, !.bytes = Append(@, s.acc), !.acc = 0]

\* The end of the text ends a number too, and is counted as a dot: of fewer than three
\* numbers, one byte fewer is added than there are missing.
Inet4Address(text) ==
  LET s == FoldLeft(Inet4Char, [acc |-> 0, dots |-> 0, bytes |-> << >>, refused |-> FALSE], text)
      given == Append(s.bytes, s.acc)
  IN IF s.refused \/ s.acc > 255 THEN Refused
     ELSE IF Len(given) = 4 THEN given
     ELSE Zeros(1) \o given \o Zeros(3 - Len(given))

----------------------------------------------------------------------------

Word(a, i) == a[2 * i + 1] * 256 + a[2 * i + 2]

\* The runs of words that are zero, and the first of the longest of two or more.
ZeroRuns(a) == {r \in (0..7) \X (2..8) : r[1] + r[2] <= 8 /\ \A i \in r[1]..(r[1] + r[2] - 1) : Word(a, i) = 0}

BestRun(a) ==
  IF ZeroRuns(a) = {} THEN <<-1, 0>>
  ELSE CHOOSE r \in ZeroRuns(a) : \A o \in ZeroRuns(a) : o[2] < r[2] \/ (o[2] = r[2] /\ o[1] >= r[1])

\* An IPv4 address that is in one of version 6.
Encapsulates(a, best) == best[1] = 0 /\ (best[2] = 6 \/ (best[2] = 5 /\ Word(a, 5) = 65535))

\* The run at the end has a colon behind it.
Trailing(a, best) == IF best[1] # -1 /\ best[1] + best[2] = 8 THEN <<Colon>> ELSE << >>

\* inet6_ntop, of words i and on.  inet4_ntop takes the bytes from the last to the
\* first, since they are in memory as they are in the address.
RECURSIVE Inet6Words(_, _, _)
Inet6Words(a, best, i) ==
  LET colon == IF i = 0 THEN << >> ELSE <<Colon>> IN
  CASE i = 8 -> Trailing(a, best)
    [] i # 8 /\ i \in best[1]..(best[1] + best[2] - 1) -> (IF i = best[1] THEN <<Colon>> ELSE << >>) \o Inet6Words(a, best, i + 1)
    [] i = 6 /\ Encapsulates(a, best) -> colon \o Inet4Text(<<a[16], a[15], a[14], a[13]>>)
    [] OTHER -> colon \o Digits(Word(a, i), 16) \o Inet6Words(a, best, i + 1)

Inet6Text(a) == Inet6Words(a, BestRun(a), 0)

\* inet6_pton, from character i on: s has the bytes so far, how many of them were
\* before the "::" (or none), the digits seen, their value and where the token begins.
Stored(s) == [s EXCEPT !.bytes = @ \o <<s.val \div 256, s.val % 256>>, !.seen = 0, !.val = 0]

RECURSIVE Inet6Chars(_, _, _)
Inet6Chars(text, i, s) ==
  IF i > Len(text) THEN s
  ELSE LET c == text[i] IN
  CASE c < 16 -> IF s.seen = 4 THEN [s EXCEPT !.refused = TRUE]
                 ELSE Inet6Chars(text, i + 1, [s EXCEPT !.val = @ * 16 + c, !.seen = @ + 1])
    [] c = Colon /\ s.seen = 0 ->
         IF s.gap # << >> THEN [s EXCEPT !.refused = TRUE]
         ELSE Inet6Chars(text, i + 1, [s EXCEPT !.gap = <<Len(s.bytes)>>, !.token = i + 1])
    [] c = Colon /\ s.seen > 0 ->
         IF i = Len(text) \/ Len(s.bytes) > 14 THEN [s EXCEPT !.refused = TRUE]
         ELSE Inet6Chars(text, i + 1, [Stored(s) EXCEPT !.token = i + 1])
    [] OTHER ->
         LET four == Inet4Address(SubSeq(text, s.token, Len(text))) IN
         IF Len(s.bytes) > 12 \/ four = Refused THEN [s EXCEPT !.refused = TRUE]
         ELSE [s EXCEPT !.bytes = @ \o Reverse(four), !.seen = 0]

\* Fault: the bytes after the "::" stay where they are.
NotMoved(bytes, gap) == bytes \o Zeros(16 - Len(bytes))

\* What is behind the "::" is moved to the end.
Spread(bytes, gap) ==
  SubSeq(bytes, 1, gap) \o Zeros(16 - Len(bytes)) \o SubSeq(bytes, gap + 1, Len(bytes))

Inet6Address(text) ==
  IF text # << >> /\ text[1] = Colon /\ (Len(text) = 1 \/ text[2] # Colon) THEN Refused
  ELSE LET start == IF text # << >> /\ text[1] = Colon THEN 2 ELSE 1
           read == Inet6Chars(text, start, [bytes |-> << >>, gap |-> << >>, seen |-> 0, val |-> 0, token |-> 1, refused |-> FALSE])
           s == IF read.seen > 0 /\ Len(read.bytes) <= 14 THEN Stored(read) ELSE read
       IN IF s.refused \/ s.seen > 0 THEN Refused
          ELSE IF s.gap # << >> THEN IF Len(s.bytes) = 16 THEN Refused ELSE Spread(s.bytes, s.gap[1])
          ELSE IF Len(s.bytes) = 16 THEN s.bytes ELSE Refused

----------------------------------------------------------------------------
(* The sorts, and the search *)

Swapped(a, i, j) == [a EXCEPT ![i] = a[j], ![j] = a[i]]

\* bubble_sort_big, from the largest on: pass i goes to the end less i, and a pass
\* without a swap is the last one.
RECURSIVE Bubble(_, _)
Bubble(a, i) ==
  IF i >= Len(a) THEN a
  ELSE LET passed == FoldLeft(LAMBDA b, j : IF b[j] < b[j + 1] THEN Swapped(b, j, j + 1) ELSE b, a, [j \in 1..(Len(a) - i) |-> j])
       IN IF passed = a THEN a ELSE Bubble(passed, i + 1)

BubbleSortBig(a) == Bubble(a, 1)

\* insert_sort: item i goes behind the last of the sorted ones that is not larger.
InsertSort(a) ==
  FoldLeft(LAMBDA b, i : LET j == Max({0} \union {k \in 1..(i - 1) : b[k] <= b[i]})
                         IN [k \in DOMAIN b |-> IF k = j + 1 THEN b[i] ELSE IF k \in (j + 2)..i THEN b[k - 1] ELSE b[k]],
           a, [i \in 1..(Len(a) - 1) |-> i + 1])

\* The exchange by exclusive or, of two places.
Exchanged(b, i, least) == IF i = least THEN b ELSE Swapped(b, i, least)

\* selection_sort: item i is exchanged with the first of the least that follow.
SelectionSort(a) ==
  FoldLeft(LAMBDA b, i : Exchanged(b, i, CHOOSE k \in i..Len(b) :
                                           /\ \A j \in i..Len(b) : b[k] <= b[j]
                                           /\ \A j \in i..(k - 1) : b[k] < b[j]),
           a, [i \in 1..(Len(a) - 1) |-> i])

\* binary_search, of places from 0: it returns the place before the one of the key.
RECURSIVE Searched(_, _, _, _)
Searched(a, key, low, high) ==
  IF low > high THEN -1
  ELSE LET mid == (low + high) \div 2 IN
       CASE a[mid + 1] = key -> mid - 1
         [] a[mid + 1] < key -> Searched(a, key, mid + 1, high)
         [] OTHER -> Searched(a, key, low, mid - 1)

BinarySearch(a, key) == Searched(a, key, 0, Len(a) - 1)

----------------------------------------------------------------------------

\* An address that was written as text is read back, zeros shortened or not and with
\* an IPv4 address in it or not.
AddressComesBack(a) == Inet6Address(Inet6Text(a)) = a

\* The sorts give the numbers that were there, in order, and the search among them
\* returns the place before the one of a number that is there, or -1.
SortedAndFound(a) ==
  /\ \A key \in Range(a) \union {-2} :
       LET at == BinarySearch(SortSeq(a, <), key)
       IN IF key \in Range(a) THEN SortSeq(a, <)[at + 2] = key ELSE at = -1
  /\ InsertSort(a) = SortSeq(a, <)
  /\ SelectionSort(a) = SortSeq(a, <)
  /\ BubbleSortBig(a) = Reverse(SortSeq(a, <))

=============================================================================
