------------------------------- MODULE MCLibrary -------------------------------
(***************************************************************************)
(* The parts of the library that serve one connection, or no connection,   *)
(* on the instances that TLC checks.  A behaviour is one of "mode": the    *)
(* steps of one of the components with state, or one input of one of the   *)
(* algorithms, in "input".                                                 *)
(***************************************************************************)
EXTENDS BinParser, HttpResponse, MysqlSession, Multipart, TLC

\* What the theorems about BinParser assume holds of this instance.
ASSUME LibraryFlags == FlagsApart

VARIABLES mode, input

\* Two parts.  The data of the first is what begins like a boundary, or ends so.
Data == {<< >>, <<"x">>, <<"CR">>, <<"CR", "LF">>, <<"CR", "CR", "LF", "-">>, <<"CR", "LF", "-", "-", "x">>,
         <<"CR", "LF", "-", "CR", "LF", "-", "-">>, [i \in 1..12 |-> IF i = 12 THEN "b" ELSE "x"],
         <<"b", "x", "x", "x", "x", "x", "CR">>}
TokenOne == <<"b">>
TwoFields ==
  <<[key : {"x"}, file : BOOLEAN, typed : BOOLEAN, data : Data],
    [key : {"x", "y"}, file : BOOLEAN, typed : {FALSE}, data : {<<"CR", "LF">>}]>>

Router == INSTANCE HttpRouter
Query == INSTANCE HttpQuery
Dig == INSTANCE Digests
Ids == INSTANCE Uuid
Frames == INSTANCE WsFrame
Unit == INSTANCE UnitAlgorithms
Sql == INSTANCE MysqlRows
Values == INSTANCE Json

----------------------------------------------------------------------------
(* Routes: two registrations and a request *)

Aspect(n) == [before |-> n % 2 = 0, after |-> n \div 2 = 0]
AspectLists == {<< >>, <<Aspect(0), Aspect(1), Aspect(0)>>, <<Aspect(0), Aspect(2), Aspect(0)>>}
                 \union {<<Aspect(i), Aspect(j)>> : i, j \in 0..3}
Entry(name, methods, handler, aspects) ==
  [name |-> name, methods |-> methods, handler |-> handler, aspects |-> aspects]
Names == {<<"a">>, <<"a", "*">>, <<"*">>, <<"s">>, <<"b", ".", "c">>}
Routes ==
  {[registered |-> <<Entry(n1, m, 1, a), Entry(n2, {"GET"}, 2, <<Aspect(0)>>)>>, method |-> method, url |-> url] :
     n1 \in Names, n2 \in Names, m \in {{"GET"}, {"PUT", "DELETE"}}, a \in AspectLists,
     method \in {"GET", "POST"}, url \in {<<"a">>, <<"b", ".", "c">>, <<"x", "a">>, <<"x">>}}

RouterOf(registered) ==
  LET r[n \in 0..Len(registered)] ==
        IF n = 0 THEN Router!NoRouter
        ELSE LET e == registered[n] IN Router!Register(r[n - 1], e.name, e.methods, e.handler, e.aspects)
  IN r[Len(registered)]

----------------------------------------------------------------------------
(* Texts of queries: two pairs, with the characters that are encoded *)

Signs == {"a", "=", "&", " ", "%", "+"}
Texts == {<< >>} \union {<<c>> : c \in Signs} \union {<<c, d>> : c, d \in Signs}
PairLists == {<<<<<<"k">>, v>>, <<k, w>>>> : k \in {<<"k">>, <<"q">>}, v \in Texts, w \in {<< >>, <<" ", "a">>, <<"=">>}}
               \union {<<<<<<"k">>, v>>>> : v \in Texts}

----------------------------------------------------------------------------
(* Digests, at the lengths where the padding changes; frames *)

Counted(n) == [i \in 1..n |-> (7 * i) % 256]
DigestLengths == {0, 1, 3, 55, 56, 63, 64, 119, 120}
NilSpace == Counted(16)
GuidOfRfc == <<50, 53, 56, 69, 65, 70, 65, 53, 45, 69, 57, 49, 52, 45, 52, 55, 68, 65,
               45, 57, 53, 67, 65, 45, 67, 53, 65, 66, 48, 68, 67, 56, 53, 66, 49, 49>>
KeyOfRfc == <<100, 71, 104, 108, 73, 72, 78, 104, 98, 88, 66, 115, 90, 83, 66, 117, 98, 50, 53, 106, 90, 81, 61, 61>>
AcceptOfRfc == <<44, 55, 41, 15, 11, 12, 1, 34, 19, 49, 26, 16, 61, 36, 24, 6, 51, 51, 33, 25, 17, 27, 10, 62, 49, 14, 40, 64>>

Payloads == {Counted(n) : n \in {0, 1, 2, 5, 125, 126, 127, 128, 255, 256, 300}}
              \union {Frames!ClosePayload(code, Counted(3)) : code \in {0, 1000}}
FrameCases ==
  {[payload |-> payload, fin |-> fin, opcode |-> opcode, key |-> key] :
     payload \in Payloads, fin \in {0, 1}, opcode \in {0, 1, 2, 8, 9, 10},
     key \in {<<0, 0, 0, 0>>, <<1, 130, 255, 7>>}}

----------------------------------------------------------------------------
(* Addresses of version 6, by their words, and lists to sort *)

AddressOf(words) == [i \in 1..16 |-> IF i % 2 = 1 THEN words[(i + 1) \div 2] \div 256 ELSE words[i \div 2] % 256]
Addresses == {AddressOf(words) : words \in [1..8 -> {0, 258, 65535}]}
Lists == UNION {[1..n -> 1..3] : n \in 1..5}

----------------------------------------------------------------------------
(* Rows of a query *)

Cells(kind) == {Sql!Null} \union (IF kind = "number" THEN {<<"7">>, <<"4", "2">>}
                                  ELSE {<< >>, <<"x", "nul", "y">>, <<"x", "y", "z", "w">>})
RowsOf(kinds) == {r \in [DOMAIN kinds -> UNION {Cells(kinds[c]) : c \in DOMAIN kinds}] :
                    \A c \in DOMAIN kinds : r[c] \in Cells(kinds[c])}
RowLists == UNION {{[kinds |-> kinds, rows |-> <<a, b>>] : a, b \in RowsOf(kinds)} :
                     kinds \in {<<"string", "number">>, <<"array", "string">>, <<"number", "string", "string">>}}
Room == 3
ResultOf(i) ==
  [fields |-> [c \in DOMAIN i.kinds |-> [name |-> IF c = 3 THEN 1 ELSE c, type |-> IF i.kinds[c] = "array" THEN "BIN" ELSE "OTHER"]],
   rows |-> i.rows]
Constraints == {[kind |-> kind, fields |-> fields] : kind \in {"not_null", "key", "auto_key", "unique"},
                                                     fields \in (SUBSET {"f", "g"} \ {{}})}
Keyed(a, b) == Cardinality({c \in {a.kind, b.kind} : c \in {"key", "auto_key"}}) = 1

----------------------------------------------------------------------------
(* Values that are written and read back *)

Letters == {"a", "1", "]", "}", "\\", "ctl", "\"", "\n", " ", "-"}
Words == {<< >>} \union {<<c>> : c \in Letters} \union {<<c, d>> : c \in {"a", "\\", "ctl", "\"", "1"}, d \in {"a", "\\", "ctl", "]", "\n"}}
A == <<"a">>
B == <<"b">>
C == <<"c">>
Inner == <<"struct", <<A, B>>, <<<<"int">>, <<"text">>>>>>
Inners == {<< >>, <<<<1, <<"x">>>>, <<-20, <<"w">>>>>>}
TypeOne == <<"struct", <<A, B, C>>, <<<<"text">>, <<"int">>, <<"seq", <<"text">>>>>>>>
TypeTwo == <<"struct", <<A, B>>, <<<<"map", <<"int">>>>, <<"seq", Inner>>>>>>
TypeThree == <<"struct", <<A, B, C>>, <<Inner, <<"float">>, <<"bool">>>>>>
Kinds == {"json", "ser"}
Jsons ==
  [kind : Kinds, type : {TypeOne},
   v : {<<t, n, <<<<"x">>, t>>>> : t \in Words, n \in {0, -7, 12345678, 2147483647}}]
  \union [kind : Kinds, type : {TypeTwo}, v : {<<(t :> 1) @@ (<<"q">> :> -2), s>> : t \in Words, s \in Inners}]
  \union [kind : Kinds, type : {TypeThree}, v : {<<<<n, t>>, f, b>> : n \in {4, -99999}, t \in Words, f \in {0, 1500000, -250000}, b \in BOOLEAN}]
  \union [kind : {"ser"}, type : {<<"seq", Inner>>}, v : Inners]
  \union [kind : {"ser"}, type : {<<"seq", <<"text">>>>}, v : {<<t, u>> : t \in Words, u \in {A, << >>}}]

----------------------------------------------------------------------------

noInput == << >>
componentVars == <<responseVars, mysqlVars, multipartVars>>
allVars == <<vars, mode, input, componentVars>>

Components == {"parser", "response", "mysql", "multipart"}
Algorithms == {"route", "query", "digest", "frame", "address", "list", "rows", "table", "json"}

LibraryInit ==
  /\ input = noInput
  /\ mode \in Components \union Algorithms
  /\ Init /\ ResponseInit /\ MysqlInit /\ MultipartInit
  /\ mode # "multipart" => reader = NewReader("d")

\* One call of the algorithm, with one of its inputs.
Called(algorithm, inputs) ==
  /\ mode = algorithm /\ input = noInput
  /\ \E x \in inputs : input' = x

Call ==
  /\ \/ Called("route", Routes) \/ Called("query", PairLists)
     \/ Called("digest", [length : DigestLengths]) \/ Called("frame", FrameCases)
     \/ Called("address", Addresses) \/ Called("list", Lists)
     \/ Called("rows", RowLists) \/ Called("table", {<<a, b>> : a, b \in Constraints})
     \/ Called("json", Jsons)
  /\ UNCHANGED <<mode, vars, componentVars>>

LibraryNext ==
  \/ Call
  \/ /\ mode = "parser" /\ Next
     /\ UNCHANGED <<mode, input, componentVars>>
  \/ /\ mode = "response" /\ ResponseNext
     /\ UNCHANGED <<mode, input, vars, mysqlVars, multipartVars>>
  \/ /\ mode = "mysql" /\ MysqlNext
     /\ UNCHANGED <<mode, input, vars, responseVars, multipartVars>>
  \/ /\ mode = "multipart" /\ MultipartNext
     /\ UNCHANGED <<mode, input, vars, responseVars, mysqlVars>>

LibrarySpec == LibraryInit /\ [][LibraryNext]_allVars

----------------------------------------------------------------------------

\* A request is answered by a handler that was registered for it, inside its aspects,
\* refused only when there is none, and never answered by one that was removed: RoutedTo
\* and Removed of HttpRouter, for every call.
Routed ==
  [][mode = "route" =>
       \A i \in {input'} :
         LET e == i.registered[1] IN
         /\ Router!RoutedTo(RouterOf(i.registered), i.registered, i.method, i.url)
         /\ e.name[Len(e.name)] # "*" =>
              Router!Removed(RouterOf(i.registered), e.name, e.handler, i.method, i.url)]_allVars

\* Encoded pairs come out of a query as they went in, and cookies never do:
\* PairsComeOut and NoCookieFound of HttpQuery.
PairsComeOut ==
  [][mode = "query" =>
       \A i \in {input'} : /\ Query!PairsComeOut(i, {<<<<"k">>, <<"q">>>>})
                           /\ Query!NoCookieFound(i)]_allVars

\* The two SHA-1 agree on texts whose padding ends in the same block or in one more,
\* base64 gives back what it was given, the answer to the handshake of the RFC is the
\* one of the RFC, and the uuids made from such bytes say how they were made.
DigestsAgree ==
  [][mode = "digest" => \A i \in {input'} :
       /\ Dig!Sha1(Counted(i.length)) = Dig!NameDigest(Counted(i.length))
       /\ Dig!Base64Decode(Dig!Base64Encode(Counted(i.length))) = Counted(i.length)
       /\ i.length = 0 => /\ Dig!AcceptKey(KeyOfRfc, GuidOfRfc) = AcceptOfRfc
                          /\ Dig!CompareKey(AcceptOfRfc, KeyOfRfc, GuidOfRfc)
       /\ \A u \in {Ids!NameUuid(NilSpace, Counted(i.length), wide) : wide \in BOOLEAN} : Ids!SaysWhatItIs(u, 5)
       /\ \A u \in {Ids!RandomUuid([k \in 1..16 |-> (i.length * k) % 256])} : Ids!SaysWhatItIs(u, 4)]_allVars

\* A frame of a client comes out as the payload it was made of: FrameComesOut of
\* WsFrame.
FramesComeOut ==
  [][mode = "frame" => \A i \in {input'} : Frames!FrameComesOut(i.payload, i.fin, i.opcode, i.key)]_allVars

\* Addresses are read back from their text, and lists are sorted and searched:
\* AddressComesBack and SortedAndFound of UnitAlgorithms.
AlgorithmsRight ==
  [][\A i \in {input'} :
       /\ mode = "address" => Unit!AddressComesBack(i)
       /\ mode = "list" => Unit!SortedAndFound(i)]_allVars

\* What a query makes of its rows is what they have, up to the first that does not
\* fit, the values of a statement go to their places, and the clauses of a table are
\* in the order SQL asks for: StructsAreRows, TuplesAreRows, ItemsAreCells,
\* ValuesInPlace and TableWellFormed of MysqlRows.
RowsAsStored ==
  [][\A i \in {input'} :
       /\ mode = "rows" => /\ Sql!StructsAreRows(i.kinds, i.rows, Room)
                           /\ Sql!TuplesAreRows(i.kinds, i.rows, Room)
                           /\ Sql!ItemsAreCells(ResultOf(i))
                           /\ \A row \in {i.rows[1]} : Sql!Null \notin Range(row) =>
                                Sql!ValuesInPlace("t", i.kinds, row)
       /\ mode = "table" /\ Keyed(i[1], i[2]) => Sql!TableWellFormed(<<"f", "g">>, i)]_allVars

\* What json.hpp and serialize.hpp write they read back: ComesBack of Json.
JsonComesBack == [][mode = "json" => \A i \in {input'} : Values!ComesBack(i.kind, i.type, i.v)]_allVars

=============================================================================
