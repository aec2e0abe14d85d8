------------------------------ MODULE Meaning ------------------------------
(* What the programs of Refactor mean, as the compiler and the machine see    *)
(* them, and what a plan owes it: a plan that goes through and compiles does  *)
(* what the program did.  Nothing here is code of the planner.                *)
EXTENDS Refactor, TLC

Callee(p, at, e) ==
    CASE e.form = "call" -> Resolve(p, at, e.n)
      [] e.form = "path" -> Resolve(p, e.at, e.n)
      [] e.form = "dot" -> {it \in p.items : it.kind \in {"method", "default"} /\ it.name = e.n}

RECURSIVE ScopedE(_, _, _, _, _), ScopedS(_, _, _, _, _, _)
ScopedE(p, at, bound, q, e) ==
    CASE e.k = "var" -> e.n \in bound \/ Resolve(p, at, e.n) # {}
      [] e.k = "call" -> /\ e.form = "call" => e.n \notin bound
                         /\ \E it \in Callee(p, at, e) :
                              it.kind # "struct" /\ Len(it.params) = Len(e.args)
                         /\ \A i \in DOMAIN e.args : ScopedE(p, at, bound, q, e.args[i])
      [] e.k = "block" -> ScopedS(p, at, bound, q, e.body, e.tail)
      [] OTHER -> TRUE
\* q: may the enclosing function use the ? operator
ScopedS(p, at, bound, q, ss, tail) ==
    IF ss = <<>> THEN ScopedE(p, at, bound, q, tail)
    ELSE LET s == Head(ss)
         IN  /\ s.k = "try" => q
             /\ ScopedE(p, at, bound, q, s.e)
             /\ ScopedS(p, at, IF s.k = "let" THEN bound \cup {s.x} ELSE bound, q, Tail(ss), tail)

Compiles(p) ==
    /\ \A i, j \in p.items :
         i # j /\ i.name = j.name => i.at # j.at \/ i.kind \in {"method", "default"} \/ j.kind \in {"method", "default"}
    /\ \A im \in p.imports : /\ Cardinality(Resolve(p, im.at, im.name)) = 1
                             /\ \E it \in p.items : it.at = im.from /\ it.name = im.name
    /\ \A it \in p.items :
         /\ IsInjective(it.params) /\ NoneTwice(it)
         /\ ScopedS(p, it.at, ToSet(it.params), it.fallible, it.body, it.tail)

\* Running it: a value, what was shown, and whether the function was left early.
\* d bounds the nesting of calls; recursion beyond it is cut.
Res(v, out, st) == [v |-> v, out |-> out, st |-> st]
After(out, r) == [r EXCEPT !.out = out \o @]
RECURSIVE EvalE(_, _, _, _, _), EvalS(_, _, _, _, _, _), EvalArgs(_, _, _, _, _)
EvalArgs(p, at, env, d, es) ==
    IF es = <<>> THEN Res(<<>>, <<>>, "ok")
    ELSE LET r == EvalE(p, at, env, d, Head(es))
         IN  IF r.st # "ok" THEN r
             ELSE LET rs == EvalArgs(p, at, env, d, Tail(es))
                  IN  After(r.out, IF rs.st # "ok" THEN rs ELSE [rs EXCEPT !.v = <<r.v>> \o @])
EvalE(p, at, env, d, e) ==
    CASE e.k = "lit" -> Res(e.n, <<>>, "ok")
      [] e.k = "none" -> Res("()", <<>>, "ok")
      [] e.k = "var" -> Res(IF e.n \in DOMAIN env THEN env[e.n] ELSE "item", <<>>, "ok")
      [] e.k = "block" -> EvalS(p, at, env, d, e.body, e.tail)
      [] e.k = "call" ->
           LET as == EvalArgs(p, at, env, d, e.args)
               it == CHOOSE it \in Callee(p, at, e) : TRUE
           IN  IF as.st # "ok" THEN as
               ELSE IF d = 0 THEN Res("cut", as.out, "cut")
               ELSE LET params == {it.params[i] : i \in DOMAIN it.params}
                        r == EvalS(p, it.at,
                                   [n \in params |-> as.v[CHOOSE i \in DOMAIN it.params : it.params[i] = n]],
                                   d - 1, it.body, it.tail)
                    IN  After(as.out, IF r.st = "left" THEN [r EXCEPT !.st = "ok"] ELSE r)
EvalS(p, at, env, d, ss, tail) ==
    IF ss = <<>> THEN EvalE(p, at, env, d, tail)
    ELSE LET s == Head(ss)
             r == EvalE(p, at, env, d, s.e)
         IN  CASE s.k = "ret" -> Res("()", <<>>, "left")
               [] s.k = "try" -> Res("failure", <<>>, "left")
               [] r.st # "ok" -> r
               [] OTHER ->
                    After(IF s.k = "out" THEN Append(r.out, r.v) ELSE r.out,
                          EvalS(p, at, IF s.k = "let" THEN (s.x :> r.v) @@ env ELSE env,
                                d, Tail(ss), tail))

\* What a test shows: its first effects, enough to tell any two runs apart.
Shown == 5
Behaviour(p, t) ==
    LET it == CHOOSE it \in p.items : it.name = t /\ it.test
        r == EvalS(p, it.at, <<>>, 2 * Shown + 2, it.body, it.tail)
    IN  SubSeq(r.out, 1, IF Len(r.out) < Shown THEN Len(r.out) ELSE Shown)

-----------------------------------------------------------------------------
(* Properties.                                                                *)

\* Inlining a test, which nothing calls, removes it.
Kept == Tests(orig) \cap Tests(prog)

\* A plan that went through and still compiles does what the program did,
\* unless an operation rebound a name in one of the known ways: no other order
\* of operations, filter, shape or placement changes a test's effects.
BehaviourKept ==
    ~captured /\ Compiles(prog) => \A t \in Kept : Behaviour(prog, t) = Behaviour(orig, t)

\* The documented contract of ChangeSignature: arguments stay with the
\* parameters they were bound to.
ArgumentsLineUp ==
    kinds = {"signature"} /\ Compiles(prog)
       => \A t \in Kept : Behaviour(prog, t) = Behaviour(orig, t)

\* A test whose effects a plan changed, by a rebound name too, is never
\* skipped: the selected tests are the last stage that could notice.  Known
\* exceptions: a plan that extracts, whose only anchor is the new name,
\* effects reached through a default method of a trait, and a test that the
\* plan moves or renames itself.
ImpactedTestsRun ==
    "extract" \notin kinds /\ Compiles(prog) =>
       \A t \in (Skipped \cap Kept) \ anchors :
          (\A it \in orig.items : it.kind = "default" => it.name \notin Reachable(orig, t))
             => Behaviour(prog, t) = Behaviour(orig, t)

\* No half-rewritten program: over the whole workspace, a change of signature
\* or an inlining that goes through leaves a program that compiled compiling.
\* Known exceptions: a macro that reads a renamed parameter, a body that uses ?
\* and one that names what its caller's place does not have or has shadowed, and
\* a call within the arguments of a call that is inlined: the inner one stays.
NeverHalfRewritten ==
    [][prog' # prog /\ Compiles(prog) /\ ~Compiles(prog') =>
        /\ \A s \in Signatures : ChangeSignatureOf(s[1], s[2], {}) =>
              LET d == The(Definitions(prog, Files, s[1]))
              IN  \E r \in BodyRenames(d, s[2]) : <<"macro", r[1], 0>> \in OccS(d.body)
        /\ \A f \in FnNames : InlineOf(f, {}) => InlineCaptures(prog, f, {})]_vars
=============================================================================
