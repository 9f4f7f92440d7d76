---------------------------------- MODULE Json ----------------------------------
(***************************************************************************)
(* json.hpp and serialize.hpp: values written as text and read back.  Both *)
(* have the same reader but for what the definitions below tell apart by   *)
(* "kind": "json" for json.hpp, "ser" for serialize.hpp.                   *)
(*                                                                         *)
(* A text is a sequence of characters; Control is any that has no escape   *)
(* of one letter, and two hexadecimal digits are one character.  A type is *)
(* <<"text">>, <<"int">>, <<"bool">>, <<"float">> (in millionths),         *)
(* <<"seq", T>>, <<"map", T>> of texts, or <<"struct", names, types>>, the *)
(* values of which are sequences.                                          *)
(* An error ends a reading here: json.hpp throws, and serialize.hpp only   *)
(* notes it, but returns false whatever it reads afterwards.               *)
(* An operator marked "Fault" is a wrong version of the one below it.      *)
(***************************************************************************)
EXTENDS Integers, Sequences, SequencesExt, FiniteSetsExt, Functions

End == "end"
Control == "ctl"
Quote == "\""
Blanks == {" ", "\t", "\n"}
Controls == {"{", "}", "[", "]", ":", ","}
DigitOf == "0" :> 0 @@ "1" :> 1 @@ "2" :> 2 @@ "3" :> 3 @@ "4" :> 4 @@ "5" :> 5 @@ "6" :> 6 @@ "7" :> 7 @@ "8" :> 8 @@ "9" :> 9
Numeral == [d \in 0..9 |-> CHOOSE c \in DOMAIN DigitOf : DigitOf[c] = d]

\* The two digits of a character.
Pair == Control :> "01" @@ "a" :> "61" @@ "1" :> "31" @@ "]" :> "5D" @@ Quote :> "22" @@ "\\" :> "5C" @@ "\n" :> "0A"

At(text, i) == IF i \in DOMAIN text THEN text[i] ELSE End

----------------------------------------------------------------------------
(* Numbers as text (itoa.hpp) *)

Ten(n) == 10 ^ n

\* tail: all of the 2n digits of u, zeros too.
RECURSIVE TailDigits(_, _)
TailDigits(n, u) ==
  IF n = 1 THEN <<u \div 10, u % 10>>
  ELSE TailDigits(n \div 2, u \div Ten(n)) \o TailDigits(n \div 2, u % Ten(n))

\* head: from the first digit that is no zero.
RECURSIVE HeadDigits(_, _)
HeadDigits(n, u) ==
  CASE n = 1 -> IF u < 10 THEN <<u>> ELSE <<u \div 10, u % 10>>
    [] n > 1 /\ u < Ten(n) -> HeadDigits(n \div 2, u)
    [] OTHER -> HeadDigits(n \div 2, u \div Ten(n)) \o TailDigits(n \div 2, u % Ten(n))

\* itoa of four bytes; large, of three parts, from 10^8 on.
ItoaDigits(u) ==
  IF u < Ten(8) THEN HeadDigits(4, u)
  ELSE HeadDigits(2, u \div Ten(8)) \o TailDigits(2, (u \div Ten(4)) % Ten(4)) \o TailDigits(2, u % Ten(4))

\* itoa_fwd, of a number with a sign.
Itoa(i) ==
  LET digits == ItoaDigits(IF i < 0 THEN -i ELSE i)
  IN (IF i < 0 THEN <<"-">> ELSE << >>) \o [k \in DOMAIN digits |-> Numeral[digits[k]]]

\* sprintf of "%f": six places.
Float(m) ==
  LET u == IF m < 0 THEN -m ELSE m
  IN (IF m < 0 THEN <<"-">> ELSE << >>) \o Itoa(u \div Ten(6)) \o <<".">>
       \o [k \in 1..6 |-> Numeral[(u \div Ten(6 - k)) % 10]]

----------------------------------------------------------------------------
(* Writers *)

\* The characters that are escaped; "\\b", "\\f" and "\\r" are as the two letters here.
Escape == Quote :> Quote @@ "\n" :> "n" @@ "\t" :> "t" @@ "\\" :> "\\" @@ Control :> "u"

\* Fault: nothing is escaped.
NoEscapes(s) == s

\* write_str: a control character takes the one behind it into its four digits.
RECURSIVE Escaped(_)
Escaped(s) ==
  IF s = << >> THEN << >>
  ELSE CASE s[1] \notin DOMAIN Escape -> <<s[1]>> \o Escaped(Tail(s))
         [] s[1] # Control /\ s[1] \in DOMAIN Escape -> <<"\\", Escape[s[1]]>> \o Escaped(Tail(s))
         [] s[1] = Control /\ Len(s) > 1 -> <<"\\", "u", Pair[s[1]], Pair[s[2]]>> \o Escaped(SubSeq(s, 3, Len(s)))
         [] OTHER -> <<"\\", "u", "00", Pair[s[1]]>>

WriteStr(s) == <<Quote>> \o Escaped(s) \o <<Quote>>

\* render_json_value of a text, and render_key: json.hpp has no quotes.
RenderText(kind, s) == IF kind = "json" THEN s ELSE WriteStr(s)

\* join.
Join(parts) == FlattenSeq([i \in DOMAIN parts |-> IF i = 1 THEN parts[i] ELSE <<",">> \o parts[i]])

WriteKey(name) == <<Quote>> \o name \o <<Quote>>

\* Sequences and arrays; maps.
RenderArray(parts) == <<"[">> \o Join(parts) \o <<"]">>
RenderMap(pairs) == <<"{">> \o Join([i \in DOMAIN pairs |-> pairs[i][1] \o <<":">> \o pairs[i][2]]) \o <<"}">>

\* to_json of a struct: the fields in the order they are declared in.
ToJson(names, texts) ==
  <<"{">> \o Join([i \in DOMAIN names |-> WriteKey(names[i]) \o <<":">> \o texts[i]]) \o <<"}">>

\* render_json_value.
RECURSIVE Render(_, _, _)
Render(kind, type, v) ==
  CASE type[1] = "text" -> RenderText(kind, v)
    [] type[1] = "int" -> Itoa(v)
    [] type[1] = "float" -> Float(v)
    [] type[1] = "bool" -> IF v THEN <<"t", "r", "u", "e">> ELSE <<"f", "a", "l", "s", "e">>
    [] type[1] = "seq" -> RenderArray([i \in DOMAIN v |-> Render(kind, type[2], v[i])])
    [] type[1] = "map" ->
         LET keys == SetToSeq(DOMAIN v)
         IN RenderMap([i \in DOMAIN keys |-> <<RenderText(kind, keys[i]), Render(kind, type[2], v[keys[i]])>>])
    [] type[1] = "struct" -> ToJson(type[2], [i \in DOMAIN v |-> Render(kind, type[3][i], v[i])])

----------------------------------------------------------------------------
(* Tokens: type, text, first character, sign, digits and how many of them  *)
(* are behind the dot, where the next one begins, and whether it is one.   *)

TokenOf(type, text, next) ==
  [type |-> type, text |-> text, first |-> IF text = << >> THEN Quote ELSE text[1],
   neg |-> FALSE, digits |-> 0, places |-> 0, next |-> next, ok |-> TRUE]
NoToken == [TokenOf("none", <<End>>, 1) EXCEPT !.ok = FALSE]

Unescape == "/" :> "/" @@ "n" :> "\n" @@ "r" :> "\r" @@ "t" :> "\t" @@ Quote :> Quote

\* read_utf and esacpe_utf8: a code above those of a byte becomes more than one.
Utf8(high, low) ==
  IF high = "00" THEN <<CHOOSE c \in DOMAIN Pair : Pair[c] = low>> ELSE <<"utf", "utf">>

\* parser_quote_string of serialize.hpp; a backslash is no escape of itself.
RECURSIVE QuotedSer(_, _, _)
QuotedSer(text, i, s) ==
  CASE At(text, i) \in {End, "\n"} -> NoToken
    [] At(text, i) = Quote -> TokenOf("string", s, i + 1)
    [] At(text, i) = "\\" /\ At(text, i + 1) \in DOMAIN Unescape -> QuotedSer(text, i + 2, Append(s, Unescape[text[i + 1]]))
    [] At(text, i) = "\\" /\ At(text, i + 1) = "u" -> QuotedSer(text, i + 4, s \o Utf8(text[i + 2], text[i + 3]))
    [] At(text, i) = "\\" /\ At(text, i + 1) \notin DOMAIN Unescape \union {"u"} -> NoToken
    [] OTHER -> QuotedSer(text, i + 1, Append(s, text[i]))

\* parser_quote_string of json.hpp: escapes are passed over, and stay in the text.
RECURSIVE QuotedJson(_, _, _)
QuotedJson(text, i, from) ==
  CASE At(text, i) \in {End, "\n"} -> NoToken
    [] At(text, i) = Quote -> TokenOf("string", SubSeq(text, from, i - 1), i + 1)
    [] At(text, i) = "\\" -> QuotedJson(text, i + 2, from)
    [] OTHER -> QuotedJson(text, i + 1, from)

\* parser_string: the first character is taken, the text has to go on behind it.  (The
\* escapes of serialize.hpp here are left out: it writes no such text.)
Bare(text, i) ==
  LET ends == {j \in (i + 1)..Len(text) : text[j] \in Blanks \union Controls}
  IN IF ends = {} THEN NoToken ELSE TokenOf("string", SubSeq(text, i, Min(ends) - 1), Min(ends))

DigitsFrom(text, i) == SelectInSubSeq(text, i, Len(text), LAMBDA c : c \notin DOMAIN DigitOf)
AfterDigits(text, i) == IF DigitsFrom(text, i) = 0 THEN Len(text) + 1 ELSE DigitsFrom(text, i)
ValueOf(text, i, j) == FoldLeft(LAMBDA n, c : n * 10 + DigitOf[c], 0, SubSeq(text, i, j - 1))

\* parser_exp, parser_exp_pos and parser_exp_neg: only json.hpp has them, and "+" ends
\* the number before the exponent.
Exponent(t, text, i) ==
  LET from == IF At(text, i + 1) = "-" THEN i + 2 ELSE i + 1
      end == AfterDigits(text, from)
      exp == ValueOf(text, from, end)
  IN [t EXCEPT !.type = "number", !.next = end, !.places = @ + (IF from = i + 2 THEN exp ELSE -exp)]

\* parser_number: the digits to a dot, those behind it, and an exponent.
Number(kind, text, i) ==
  LET from == IF text[i] = "-" THEN i + 1 ELSE i
      dot == AfterDigits(text, from)
      whole == ValueOf(text, from, dot)
      fraction == AfterDigits(text, dot + 1)
      dotted == At(text, dot) = "."
      end == IF dotted THEN fraction ELSE dot
      t == [TokenOf(IF dotted THEN "number" ELSE IF from = i THEN "uint" ELSE "int", SubSeq(text, i, end - 1), end) EXCEPT
              !.neg = from = i + 1,
              !.digits = IF dotted THEN whole * Ten(fraction - dot - 1) + ValueOf(text, dot + 1, fraction) ELSE whole,
              !.places = IF dotted THEN fraction - dot - 1 ELSE 0]
  IN IF dotted /\ At(text, end) = "." THEN NoToken
     ELSE IF kind = "json" /\ At(text, end) \in {"e", "E"} THEN Exponent(t, text, end) ELSE t

\* next: a comment to the end of the line is passed over, one of the other form is an
\* error wherever it ends.
RECURSIVE Lex(_, _, _)
Lex(kind, text, i) ==
  LET c == At(text, i) IN
  CASE c \in Blanks -> Lex(kind, text, i + 1)
    [] c = End -> TokenOf("end", <<End>>, i)
    [] c \in Controls -> TokenOf("ctrl", <<c>>, i + 1)
    [] c = "/" /\ At(text, i + 1) = "/" ->
         Lex(kind, text, Min({j \in i..(Len(text) + 1) : At(text, j) \in {"\n", End}}))
    [] c = "/" /\ At(text, i + 1) # "/" -> NoToken
    [] c = Quote -> IF kind = "json" THEN QuotedJson(text, i + 1, i + 1) ELSE QuotedSer(text, i + 1, << >>)
    [] c \in DOMAIN DigitOf \union {"-"} -> Number(kind, text, i)
    [] OTHER -> Bare(text, i)

----------------------------------------------------------------------------
(* Readers: r has the text and the token that is looked at, n(r) the next. *)

Reader(kind, text) == [kind |-> kind, text |-> text, tok |-> Lex(kind, text, 1)]
Next1(r) == IF r.tok.ok THEN [r EXCEPT !.tok = Lex(r.kind, r.text, @.next)] ELSE r
Next2(r) == Next1(Next1(r))
Next3(r) == Next1(Next2(r))
Failed(r) == [r EXCEPT !.tok = NoToken]
Going(r) == r.tok.ok /\ r.tok.type # "end"
Result(r, v) == [r |-> r, v |-> v]

RECURSIVE Default(_)
Default(type) ==
  CASE type[1] = "text" -> << >> [] type[1] \in {"int", "float"} -> 0 [] type[1] = "bool" -> FALSE
    [] type[1] \in {"seq", "map"} -> << >>
    [] type[1] = "struct" -> [i \in DOMAIN type[3] |-> Default(type[3][i])]

Scaled(n, places) == IF places < 0 THEN n * Ten(-places) ELSE n \div Ten(places)
Signed(t, n) == IF t.neg THEN -n ELSE n

\* strtoll of a text, and check_result of serialize.hpp: no number where there is none.
Strtoll(text) ==
  LET from == IF At(text, 1) = "-" THEN 2 ELSE 1
      end == AfterDigits(text, from)
  IN IF from = 2 THEN -ValueOf(text, from, end) ELSE ValueOf(text, from, end)
Checks(kind, t, n) == kind = "json" \/ t.first \in {"n", "0"} \/ n # 0

\* read_json of numbers, words and texts.
ReadNumber(r, type) ==
  LET t == r.tok
      places == IF type[1] = "float" THEN 6 ELSE 0
  IN CASE t.type = "string" -> IF Checks(r.kind, t, Strtoll(t.text)) THEN Result(Next1(r), Strtoll(t.text) * Ten(places))
                               ELSE Result(Failed(r), 0)
       [] t.type \in {"int", "uint", "number"} -> Result(Next1(r), Signed(t, Scaled(t.digits, t.places - places)))
       [] OTHER -> Result(Failed(r), 0)

ReadBool(r) ==
  CASE r.tok.type = "string" ->
         Result(Next1(r), /\ Len(r.tok.text) = 4 /\ r.tok.text[1] \in {"t", "T"} /\ r.tok.text[2] \in {"r", "R"}
                          /\ r.tok.text[3] \in {"u", "U"} /\ r.tok.text[4] \in {"e", "E"})
    [] r.tok.type \in {"int", "uint", "number"} -> Result(Next1(r), r.tok.digits # 0)
    [] OTHER -> Result(Failed(r), FALSE)

ReadText(r) == IF r.tok.type = "string" THEN Result(Next1(r), r.tok.text) ELSE Result(Failed(r), << >>)

\* Behind an element: a comma is passed over, the end is stopped at.
Behind(r, closing) ==
  CASE r.tok.first = "," -> Next1(r) [] r.tok.first = closing -> r [] OTHER -> Failed(r)

\* get_index: the first field of the name, or one behind the last.
FieldOf(names, text) ==
  LET of == {i \in DOMAIN names : names[i] = text} IN IF of = {} THEN Len(names) + 1 ELSE Min(of)

RECURSIVE Read(_, _), ReadElements(_, _, _), ReadPairs(_, _, _), ReadFields(_, _, _, _), ReadByName(_, _, _, _)

\* Elements up to the closing bracket: the first character of a token is looked at, that
\* of a text in quotes too.
ReadElements(r, type, v) ==
  IF ~Going(r) \/ r.tok.first = "]" THEN Result(Next1(r), v)
  ELSE LET e == Read(r, type[2])
           b == Behind(e.r, "]")
       IN IF ~e.r.tok.ok THEN e ELSE ReadElements(b, type, Append(v, e.v))

ReadPairs(r, type, v) ==
  IF ~Going(r) \/ r.tok.first = "}" THEN Result(Next1(r), v)
  ELSE LET key == ReadText(r) IN
       IF ~key.r.tok.ok \/ key.r.tok.first # ":" THEN Result(Failed(r), v)
       ELSE LET e == Read(Next1(key.r), type[2])
            IN ReadPairs(Behind(e.r, "}"), type, (key.v :> e.v) @@ v)

\* do_read of serialize.hpp and do_read_aux of json.hpp, from field i on: in the order
\* the fields are declared in.  A name that is another one is an error of the first and
\* leaves the field of the second as it is; json.hpp reads the struct in a field into
\* the one it is in.
ReadFields(r, type, v, i) ==
  LET key == Next1(r)
      inner == i <= Len(v) /\ type[3][i][1] = "struct"
  IN CASE i > Len(v) \/ ~r.tok.ok -> Result(r, v)
       [] i <= Len(v) /\ r.tok.ok /\ inner ->
            LET s == IF r.kind = "ser" THEN ReadFields(Next3(r), type[3][i], Default(type[3][i]), 1)
                                       ELSE ReadByName(Next3(r), type, v, 0)
            IN ReadFields(Next1(s.r), type, IF r.kind = "ser" THEN [v EXCEPT ![i] = s.v] ELSE s.v, i + 1)
       [] i <= Len(v) /\ r.tok.ok /\ ~inner /\ key.tok.text # type[2][i] ->
            IF r.kind = "ser" THEN Result(Failed(r), v) ELSE ReadFields(key, type, v, i + 1)
       [] OTHER -> LET e == Read(Next2(key), type[3][i])
                   IN ReadFields(e.r, type, [v EXCEPT ![i] = e.v], i + 1)

\* do_read0 of serialize.hpp and do_read of json.hpp: in any order, with fields that are
\* not known passed over.  serialize.hpp counts those it has read, and does not look
\* for more behind the last one; json.hpp goes on to the end of the text.
ReadByName(r, type, v, loop) ==
  LET key == IF r.kind = "ser" /\ loop = Len(v) THEN r ELSE Next1(r)
      i == FieldOf(type[2], key.tok.text)
  IN IF ~Going(r) \/ ~key.tok.ok THEN Result(key, v)
     ELSE IF i > Len(v)
          THEN IF key.tok.type = "end" \/ (r.kind = "ser" /\ key.tok.type = "ctrl") THEN Result(key, v)
               ELSE ReadByName(Next3(key), type, v, loop)
     ELSE IF type[3][i][1] = "struct"
          THEN LET s == IF r.kind = "ser" THEN ReadByName(Next2(key), type[3][i], v[i], 0)
                                          ELSE ReadByName(Next2(key), type, v, 0)
               IN ReadByName(Next1(s.r), type, IF r.kind = "ser" THEN [v EXCEPT ![i] = s.v] ELSE s.v, loop + 1)
     ELSE LET e == Read(Next2(key), type[3][i])
          IN ReadByName(e.r, type, [v EXCEPT ![i] = e.v], loop + 1)

Read(r, type) ==
  CASE type[1] = "text" -> ReadText(r)
    [] type[1] \in {"int", "float"} -> ReadNumber(r, type)
    [] type[1] = "bool" -> ReadBool(r)
    [] type[1] = "seq" -> IF r.tok.first = "[" THEN ReadElements(Next1(r), type, << >>) ELSE Result(Failed(r), << >>)
    [] type[1] = "map" -> IF r.tok.first = "{" THEN ReadPairs(Next1(r), type, << >>) ELSE Result(Failed(r), << >>)
    [] type[1] = "struct" -> LET s == ReadFields(r, type, Default(type), 1) IN Result(Next1(s.r), s.v)

\* from_json of both: a struct.
FromJson(kind, type, text) ==
  LET s == ReadByName(Reader(kind, text), type, Default(type), 0) IN [ok |-> s.r.tok.ok, v |-> s.v]

\* from_json_container of a sequence, which begins with the error another reading left,
\* and of a struct.
RECURSIVE Assigned(_, _, _)
Assigned(r, type, v) ==
  IF ~Going(r) THEN [ok |-> r.tok.ok, v |-> v]
  ELSE LET e == Read(r, type[2]) IN IF e.r.tok.ok THEN Assigned(Next1(e.r), type, Append(v, e.v)) ELSE [ok |-> FALSE, v |-> v]

FromJsonContainer(type, text, has_error) ==
  IF type[1] = "struct" THEN LET s == ReadFields(Reader("ser", text), type, Default(type), 1) IN [ok |-> s.r.tok.ok, v |-> s.v]
  ELSE IF has_error THEN [ok |-> FALSE, v |-> << >>]
  ELSE Assigned(Next1(Reader("ser", text)), type, << >>)

----------------------------------------------------------------------------

\* What the two can say.  A text of json.hpp is a word; one of serialize.hpp has no
\* backslash, no control character but as its last, and does not begin as the sequence
\* or the map it is in ends.  Only serialize.hpp has structs in structs.
Word(s) == /\ s # << >> /\ s[1] \notin {Quote, "/", "-"} \union DOMAIN DigitOf
           /\ Range(s) \cap (Blanks \union Controls) = {}
Escapable(s) == "\\" \notin Range(s) /\ \A i \in 1..(Len(s) - 1) : s[i] # Control
Says(kind, s, closing) == IF kind = "json" THEN Word(s) ELSE Escapable(s) /\ At(s, 1) # closing

RECURSIVE Sayable(_, _, _, _)
Sayable(kind, type, v, closing) ==
  CASE type[1] = "text" -> Says(kind, v, closing)
    [] type[1] = "seq" -> \A i \in DOMAIN v : Sayable(kind, type[2], v[i], "]")
    [] type[1] = "map" -> \A k \in DOMAIN v : Says(kind, k, "}") /\ Sayable(kind, type[2], v[k], End)
    [] type[1] = "struct" -> \A i \in DOMAIN v : /\ kind = "json" => type[3][i][1] # "struct"
                                                 /\ Sayable(kind, type[3][i], v[i], End)
    [] OTHER -> TRUE

\* The same fields in the opposite order.
Reversed(type) == <<"struct", Reverse(type[2]), Reverse(type[3])>>

\* A struct that was written is read back by the one that wrote it, whatever order the
\* reader declares its fields in, and a sequence that is not empty is.
ComesBack(kind, type, v) ==
  Sayable(kind, type, v, End) =>
    LET text == Render(kind, type, v) IN
    /\ type[1] = "struct" =>
         /\ FromJson(kind, type, text) = [ok |-> TRUE, v |-> v]
         /\ FromJson(kind, Reversed(type), text) = [ok |-> TRUE, v |-> Reverse(v)]
    /\ kind = "ser" /\ (type[1] = "struct" \/ v # << >>) =>
         FromJsonContainer(type, text, FALSE) = [ok |-> TRUE, v |-> v]

=============================================================================
