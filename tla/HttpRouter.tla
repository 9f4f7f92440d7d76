------------------------------- MODULE HttpRouter -------------------------------
(***************************************************************************)
(* http_router.hpp: the handlers an application registers for urls, with   *)
(* the methods they take and the aspects that run before and after them,   *)
(* and the handler a request is given to.                                  *)
(*                                                                         *)
(* A url is a sequence of characters.  A router is a record of two         *)
(* functions, from urls and from the beginnings of urls to entries.        *)
(* An operator marked "Fault" is a wrong version of the one below it.      *)
(***************************************************************************)
EXTENDS Naturals, Sequences, SequencesExt, FiniteSetsExt, Functions

Methods == {"GET", "POST", "PUT", "DELETE"}

\* type_to_name, and the first letter of it: POST and PUT have the same.
Letter(method) == CASE method = "GET" -> "G"
                    [] method \in {"POST", "PUT"} -> "P"
                    [] OTHER -> "D"

\* get_method_arr: no methods at all leave an array that takes none.
MethodArr(methods) == {Letter(m) : m \in methods}

NoRouter == [exact |-> << >>, wild |-> << >>]
StaticResource == <<"s">>

\* register_nonmember_func and register_member_func: a name ending in * is for all
\* urls that hold what is before it.  A name that is there is replaced.
Register(router, name, methods, handler, aspects) ==
  LET entry == [arr |-> MethodArr(methods), handler |-> handler, aspects |-> aspects]
  IN IF Last(name) = "*" THEN [router EXCEPT !.wild = (Front(name) :> entry) @@ @]
                         ELSE [router EXCEPT !.exact = (name :> entry) @@ @]

\* remove_handler: only of a name without *.
RemoveHandler(router, name) ==
  [router EXCEPT !.exact = [n \in DOMAIN @ \ {name} |-> @[n]]]

Holds(url, part) == \E i \in 1..(Len(url) + 1) :
                      i + Len(part) - 1 <= Len(url) /\ SubSeq(url, i, i + Len(part) - 1) = part

\* for_each_l over the aspects: up to the first whose before returns false.
BeforeRun(aspects) ==
  LET no == {i \in DOMAIN aspects : ~aspects[i].before}
  IN IF no = {} THEN Len(aspects) ELSE Min(no)

\* for_each_r: from the last aspect down to the first whose after returns false.
AfterRun(aspects) ==
  LET no == {i \in DOMAIN aspects : ~aspects[i].after}
      last == IF no = {} THEN 1 ELSE Max(no)
  IN [i \in 1..(Len(aspects) + 1 - last) |-> Len(aspects) + 1 - i]

Step(what, which) == [what |-> what, which |-> which]

\* invoke and invoke_mem: what runs, in order.
Invoke(entry) ==
  LET a == entry.aspects
      before == [i \in 1..BeforeRun(a) |-> Step("before", i)]
      after == AfterRun(a)
  IN IF \E i \in DOMAIN a : ~a[i].before THEN before
     ELSE before \o <<Step("handler", entry.handler)>>
                 \o [i \in DOMAIN after |-> Step("after", after[i])]

NotFound == <<Step("refused", 0)>>

\* Fault: a wildcard answers whether it fits or not.
SomeWildcard(router, key) ==
  IF DOMAIN router.wild = {} THEN {NotFound} ELSE {Invoke(router.wild[part]) : part \in DOMAIN router.wild}

\* get_wildcard_function: any of those that fit, as the unordered_map has them; the
\* methods are not looked at.
Wildcard(router, key) ==
  LET fits == {part \in DOMAIN router.wild : Holds(key, part)}
  IN IF fits = {} THEN {NotFound} ELSE {Invoke(router.wild[part]) : part \in fits}

\* route, of a url that is registered.
RouteExact(router, method, url) ==
  IF Letter(method) \in router.exact[url].arr THEN {Invoke(router.exact[url])} ELSE {NotFound}

\* route: a url with a dot in it is taken for a file, which has a name of its own.
Route(router, method, url) ==
  IF url \in DOMAIN router.exact THEN RouteExact(router, method, url)
  ELSE IF "." \in Range(url)
       THEN IF StaticResource \in DOMAIN router.exact
            THEN RouteExact(router, method, StaticResource)
            ELSE Wildcard(router, StaticResource)
  ELSE Wildcard(router, url)

----------------------------------------------------------------------------

Ran(steps, what) == SelectSeq(steps, LAMBDA s : s.what = what)

\* A handler that was removed, under a name of its own, is not run any more.
Removed(router, name, handler, method, url) ==
  \A steps \in Route(RemoveHandler(router, name), method, url) :
    Step("handler", handler) \notin Range(steps)

\* What is registered: the last registration of each name.
Standing(registered) ==
  {registered[i] : i \in {k \in DOMAIN registered :
                            \A j \in DOMAIN registered : j > k => registered[j].name # registered[k].name}}

\* The name a url is looked up by.
AskedFor(registered, url) ==
  IF "." \in Range(url) /\ \A e \in Standing(registered) : e.name # url THEN StaticResource ELSE url

\* The registrations that may answer: the one of that name, for a method with the
\* same first letter, or, when the name is not registered, every wildcard that fits.
MayAnswer(registered, method, url) ==
  LET name == AskedFor(registered, url)
      named == {e \in Standing(registered) : e.name = name}
  IN IF named # {} THEN {e \in named : \E m \in e.methods : Letter(m) = Letter(method)}
     ELSE {e \in Standing(registered) : Last(e.name) = "*" /\ Holds(name, Front(e.name))}

\* The aspects enclose the handler of a registration: it runs once, behind the before of
\* all of them, and then their after, from the last one to the first that refuses; when
\* a before refuses, only the ones up to it run.
Encloses(entry, steps) ==
  LET Which(what) == LET ran == Ran(steps, what) IN [k \in DOMAIN ran |-> ran[k].which]
      a == entry.aspects
      before == Which("before")
      after == Which("after")
  IN /\ steps = Ran(steps, "before") \o Ran(steps, "handler") \o Ran(steps, "after")
     /\ \A k \in DOMAIN before : before[k] = k /\ k \in DOMAIN a
     /\ \A k \in DOMAIN before : ~a[k].before => k = Len(before)
     /\ IF \A k \in DOMAIN a : a[k].before
        THEN /\ Which("handler") = <<entry.handler>> /\ Len(before) = Len(a)
             /\ \A k \in DOMAIN after : after[k] = Len(a) + 1 - k
             /\ \A k \in DOMAIN after : ~a[after[k]].after => k = Len(after)
             /\ Len(after) = Len(a) \/ \E k \in DOMAIN after : ~a[after[k]].after
        ELSE /\ Which("handler") = << >> /\ after = << >>
             /\ \E k \in DOMAIN before : ~a[before[k]].before

\* A request is answered by a handler that was registered for it, inside its aspects, and
\* is refused only when there is none: a url that is registered has its own handler, any
\* other the one of a wildcard that it holds.  Which of several wildcards is left open,
\* and a wildcard's methods are not looked at.
RoutedTo(router, registered, method, url) ==
  LET may == MayAnswer(registered, method, url)
  IN \A steps \in Route(router, method, url) :
       IF may = {} THEN steps = NotFound ELSE \E e \in may : Encloses(e, steps)

=============================================================================
