------------------------------- MODULE HttpQuery -------------------------------
(***************************************************************************)
(* What a request says of itself (http_request.hpp): queries and forms,    *)
(* the values a handler asks for, header fields and cookies; with the url  *)
(* encoding of url_encode_decode.hpp and the split of unit.hpp.            *)
(*                                                                         *)
(* A text is a sequence of characters, which are strings of one character. *)
(* An operator marked "Fault" is a wrong version of the one below it.      *)
(***************************************************************************)
EXTENDS Naturals, Sequences, SequencesExt, FiniteSetsExt, Functions

\* unit::trim: of blanks, at both ends.
Trim(s) ==
  LET kept == {i \in DOMAIN s : s[i] # " "}
  IN IF kept = {} THEN << >> ELSE SubSeq(s, Min(kept), Max(kept))

\* map::emplace: a key that is there keeps its value.
Emplace(map, key, value) == map @@ (key :> value)

\* parse_query, one character: "=" ends a key, "&" a value.
QueryChar(q, c, i, s) ==
  CASE c = "=" -> [q EXCEPT !.key = Trim(SubSeq(s, q.pos, i - 1)), !.pos = i + 1]
    [] c = "&" -> [q EXCEPT !.map = Emplace(@, q.key, Trim(SubSeq(s, q.pos, i - 1))), !.pos = i + 1]
    [] OTHER -> q

\* Fault: the last value is left out.
NoLast(q, s) == q.map

\* The value behind the last "&" or "=", which no "&" ends.
LastValue(q, s) == Emplace(q.map, q.key, Trim(SubSeq(s, q.pos, Len(s))))

\* parse_query: a text without either has no queries.
ParseQuery(s) ==
  LET q == FoldLeft(LAMBDA a, i : QueryChar(a, s[i], i, s), [key |-> << >>, pos |-> 1, map |-> << >>],
                    [i \in DOMAIN s |-> i])
  IN IF q.pos = 1 THEN << >> ELSE LastValue(q, s)

----------------------------------------------------------------------------
(* url_encode_decode.hpp; a character that needs it is "%" with two digits *)

Plain(c) == c \notin {"%", "+", " ", "&", "="}
Hex == "%" :> <<"2", "5">> @@ "+" :> <<"2", "B">> @@ " " :> <<"2", "0">>
         @@ "&" :> <<"2", "6">> @@ "=" :> <<"3", "D">>

\* url_encode.
UrlEncode(s) == FlattenSeq([i \in DOMAIN s |-> IF Plain(s[i]) THEN <<s[i]>> ELSE <<"%">> \o Hex[s[i]]])

\* strtol of two characters: those that no character here is encoded as are "?".
Decoded(digits) == IF digits \in Range(Hex) THEN CHOOSE c \in DOMAIN Hex : Hex[c] = digits ELSE "?"

\* url_decode, one position: "%" takes the two behind it, when there are two.
DecodeAt(d, i, s) ==
  IF i < d.next THEN d
  ELSE IF s[i] = "%" /\ i + 2 <= Len(s)
       THEN [text |-> Append(d.text, Decoded(SubSeq(s, i + 1, i + 2))), next |-> i + 3]
  ELSE [text |-> Append(d.text, IF s[i] = "+" THEN " " ELSE s[i]), next |-> i + 1]

UrlDecode(s) == FoldLeft(LAMBDA d, i : DecodeAt(d, i, s), [text |-> << >>, next |-> 1],
                         [i \in DOMAIN s |-> i]).text

IsUrlEncode(s) == \E i \in DOMAIN s : s[i] \in {"%", "+"}

----------------------------------------------------------------------------
(* What handlers ask for *)

\* get_query_value(key): of the url, then of the form.  What was decoded is kept
\* under the key, for both.
QueryValue(request, key) ==
  IF key \in DOMAIN request.queries
  THEN IF IsUrlEncode(request.queries[key]) THEN UrlDecode(request.queries[key])
                                            ELSE request.queries[key]
  ELSE IF key \notin DOMAIN request.form THEN << >>
  ELSE IF IsUrlEncode(request.form[key]) THEN UrlDecode(request.form[key]) ELSE request.form[key]

\* get_query_value(n) of n from 0, in the order of the keys, which is the set of pairs
\* "before": the form is asked for the same n, and nothing is decoded.
NthValue(request, n, before) ==
  LET nth(map) == map[SetToSortSeq(DOMAIN map, LAMBDA a, b : <<a, b>> \in before)[n + 1]]
  IN IF n < Cardinality(DOMAIN request.queries) THEN nth(request.queries)
     ELSE IF n < Cardinality(DOMAIN request.form) THEN nth(request.form) ELSE << >>

\* unit::split: strtok ends the text at its first delimiter, so that the first token
\* is compared with itself and left out; the others are kept when strcmp calls them
\* less, and returns -1 for it: the pairs in "less" stand for both.
Tokens(s, delimiters) ==
  LET at == {i \in DOMAIN s : s[i] \notin delimiters}
      begins == {i \in at : i = 1 \/ i - 1 \notin at}
      end(i) == Min({j \in (i..Len(s)) \union {Len(s)} : j = Len(s) \/ j + 1 \notin at})
  IN [k \in 1..Cardinality(begins) |->
        LET i == SetToSortSeq(begins, <)[k] IN SubSeq(s, i, end(i))]

Split(s, delimiters, less) ==
  LET all == Tokens(s, delimiters)
      skipped == SelectInSeq(s, LAMBDA c : c \notin delimiters) - 1
  IN IF all = << >> THEN << >>
     ELSE SelectSeq(all, LAMBDA t : <<t, SubSeq(s, 1, skipped) \o all[1]>> \in less)

\* get_cookies: two tokens make a cookie.
Cookies(s, less) ==
  FoldLeft(LAMBDA map, t : LET kv == Split(t, {"="}, less)
                           IN IF Len(kv) = 2 THEN (kv[1] :> kv[2]) @@ map ELSE map,
           << >>, Split(s, {";", " "}, less))

----------------------------------------------------------------------------

\* The text of pairs, as forms are sent.
Encoded(pairs) ==
  FlattenSeq([i \in DOMAIN pairs |->
    (IF i = 1 THEN << >> ELSE <<"&">>) \o pairs[i][1] \o <<"=">> \o UrlEncode(pairs[i][2])])

\* Pairs that are encoded come out as they went in, the first of those with the same
\* key: whatever characters the values have, separators and blanks at their ends too,
\* and by number as well as by key.
PairsComeOut(pairs, before) ==
  LET request == [queries |-> << >>, form |-> ParseQuery(Encoded(pairs))]
      keys == {pairs[i][1] : i \in DOMAIN pairs}
  IN /\ \A i \in DOMAIN pairs :
         (\A j \in 1..(i - 1) : pairs[j][1] # pairs[i][1]) =>
           QueryValue(request, pairs[i][1]) = pairs[i][2]
     /\ \A key \in keys :
         LET n == Cardinality({k \in keys : k # key /\ <<k, key>> \in before})
         IN UrlDecode(NthValue(request, n, before)) = QueryValue(request, key)

\* get_cookies finds none of the cookies of a request, whichever of their texts are
\* less than others: both splits leave out their first token, and a name is one.
NoCookieFound(pairs) ==
  LET plain == [i \in DOMAIN pairs |->
                  <<pairs[i][1], SelectSeq(pairs[i][2], LAMBDA c : c \notin {"=", ";", " "})>>]
      cookie(i) == plain[i][1] \o <<"=">> \o plain[i][2]
      text == FlattenSeq([i \in DOMAIN plain |->
                (IF i = 1 THEN << >> ELSE <<";", " ">>) \o cookie(i)])
      texts == UNION {{cookie(i), plain[i][1], plain[i][2]} : i \in DOMAIN plain}
  IN \A less \in {{t \in texts \X texts : t[1] # t[2]}, {}} : Cookies(text, less) = << >>

=============================================================================
