----------------------------- MODULE MCRefactor -----------------------------
(* Small programs for Refactor: a function f, the tests t and u that call it  *)
(* or not, a helper h, and one feature at a time that an operation must see.  *)
EXTENDS Meaning

MCFileOf == [a |-> "a", m |-> "a", b |-> "b"]    \* m is a module inside a

A == Var("a")
B == Var("b")
CallF(x, y) == Call("call", "f", "", <<x, y>>)
CallH == Do(Call("call", "h", "", <<>>))
One == Lit("1")
Two == Lit("2")

F(at, body) == [Item("fn", "f", at, <<"a", "b">>, body, A) EXCEPT !.id = 1]
T(at, body) == [Item("fn", "t", at, <<>>, body, None) EXCEPT !.id = 2, !.test = TRUE, !.fallible = TRUE]
U(at) == [Item("fn", "u", at, <<>>, <<CallH>>, None) EXCEPT !.id = 3, !.test = TRUE]
H(at, shown, id) == [Item("fn", "h", at, <<>>, <<Out(Lit(shown))>>, None) EXCEPT !.id = id]

Plain == <<Out(A), Out(B)>>
Shadowing == <<Let("c", B), Let("c", A), Out(Var("c"))>>
Calling == <<MacroOut(A), CallH>>
Failing == <<CallH, Try, Out(A)>>
Recursive == <<Out(A), Do(CallF(B, A))>>
Returning == <<Out(B), Return, Out(A)>>
Bodies == {Plain, Shadowing, Calling, Failing, Recursive, Returning}

Direct == <<Do(CallF(One, Two))>>
Nested == <<Do(CallF(CallF(One, Two), Lit("3")))>>
Swapped == <<Let("a", One), Let("b", Two), Do(CallF(B, A))>>
Qualified == <<Do(Call("path", "f", "a", <<One, Two>>))>>
InMacro == <<MacroOut(CallF(One, Two))>>
AsValue == <<Let("g", Var("f")), Do(CallF(One, Two))>>
Result == <<Let("x", CallF(Two, One)), Out(Var("x"))>>
Calls == {Direct, Nested, Swapped, Qualified, InMacro, AsValue, Result}

Use(n, at, from) == [at |-> at, name |-> n, from |-> from]
Program(fAt, tAt, body, call, more) ==
    [items |-> {[F(fAt, body) EXCEPT !.fallible = (Try \in ToSet(body))],
                T(tAt, call), H(fAt, "h", 4), U(fAt)} \cup more,
     imports |-> IF tAt = fAt THEN {} ELSE {Use("f", tAt, fAt)}]

Together == {Program("a", "a", body, call, {}) : body \in Bodies, call \in Calls}
Apart == {Program(at[1], at[2], body, call, {H(at[2], "other", 5)}) :
            at \in {<<"a", "b">>, <<"m", "a">>}, body \in {Plain, Calling}, call \in {Direct, Result}}
\* f is refused for its shape, ambiguous, a method too or called by one.
M(n, at, body) == [Item("method", n, at, <<>>, body, None) EXCEPT !.id = 6, !.owner = "S"]
S(attrs) == [Item("struct", "S", "a", <<>>, <<>>, None) EXCEPT !.id = 7, !.attrs = attrs]
Odd == {[p EXCEPT !.items = {IF it.name = "f" THEN [it EXCEPT !.shape = s] ELSE it : it \in @}] :
          s \in {"generic", "async"}, p \in {Program("a", "a", Plain, Direct, {})}}
Twice == {Program("a", "a", Plain, Direct, {[F("b", Shadowing) EXCEPT !.id = 5]})}
Methods == {Program("a", "a", Plain, <<Do(Call("dot", n, "", <<>>))>>,
                    {S(<<>>), M(n, "a", Direct)}) : n \in {"f", "k"}}
Defaults == {Program("a", "a", Plain, <<Do(Call("dot", "k", "", <<>>))>>,
                     {[M("k", "a", Direct) EXCEPT !.kind = "default", !.owner = ""]})}
\* A test that reaches f through another function.
Chained == {Program("a", "a", Plain, <<Do(Call("call", "k", "", <<>>))>>,
                    {[M("k", "a", Nested) EXCEPT !.kind = "fn", !.owner = ""]})}
\* Structs to derive for and to move, with and without uses.
Structured == {Program("a", "a", Plain, call, {S(attrs)}) : call \in {Direct, <<Do(Var("S"))>>},
                 attrs \in {<<>>, <<<<"D">>>>, <<<<"D">>, <<"E">>>>}}
OneLine == {Program("a", "a", Plain, Direct, {[S(<<<<"D">>>>) EXCEPT !.oneLine = TRUE]})}
\* A test that can move to where h is another function, and one that stays.
Standing == {Program("a", "a", Plain, <<CallH>>, {H("b", "other", 5)} \cup s)
              : s \in {{}, {[S(<<>>) EXCEPT !.at = "b"]}}}
\* Three parameters, so that a permutation differs from its inverse.
F3 == [Item("fn", "f", "a", <<"a", "b", "c">>, <<Out(A), Out(B), Out(Var("c"))>>, None) EXCEPT !.id = 1]
Three == {[items |-> {F3, T("a", <<Do(Call("call", "f", "", <<One, Two, Lit("3")>>))>>), H("a", "h", 4), U("a")},
           imports |-> {}]}

MCPrograms ==
    {p \in Together \cup Apart \cup Odd \cup Twice \cup Methods \cup Defaults \cup Chained
             \cup Structured \cup OneLine \cup Standing \cup Three : Compiles(p)}
NestedPrograms == {Program("a", "a", Plain, call, {}) : call \in {Direct, Nested, Result}}

Slot(from, rename) == [from |-> from, rename |-> rename]
MCRenames == {<<"f", "g">>, <<"f", "h">>, <<"a", "b">>}
MCSignatures ==
    {<<"f", np>> : np \in {<<>>, <<Slot(2, ""), Slot(1, "")>>, <<Slot(1, "b"), Slot(2, "a")>>,
                           <<Slot(2, "z"), Slot(1, "")>>, <<Slot(2, "c"), Slot(1, "")>>,
                           <<Slot(1, "b"), Slot(2, "")>>, <<Slot(1, ""), Slot(1, "")>>,
                           <<Slot(2, ""), Slot(3, ""), Slot(1, "")>>}}
MCHelpers == {<<"g", ps>> : ps \in {<<>>, <<"a">>, <<"a", "b">>}}
MCTraits == {<<"D">>, <<"E">>, <<"D", "E">>}
MCFilters == {{}, {"a"}}
=============================================================================
