------------------------------ MODULE Refactor ------------------------------
(* The operations of a patch plan, on programs of a small language, and the   *)
(* choice of the tests a plan is checked with.                                *)
(*                                                                            *)
(* A program is a set of items and of imports.  An item is a function, a      *)
(* method, a default method of a trait or a struct, at a place: the top of a  *)
(* file or a nested module of it.  What the operations look at is kept: which *)
(* names occur, as what (a bare call, a qualified or method call, a read, a   *)
(* binding, inside a macro), the order of arguments and statements, shapes    *)
(* that are refused.  Every operation reads the files as the operations       *)
(* before it left them, and one that refuses leaves them as they are.         *)
EXTENDS Integers, Sequences, FiniteSets, SequencesExt

CONSTANTS FileOf,         \* the file of every place; a file is its own top place
          Programs,       \* the programs a plan may start from
          Renames, Signatures, Helpers, Traits,   \* arguments of operations
          Filters,        \* sets of files an operation is restricted to
          Depth,          \* bound on the nesting of expressions: nothing looks deeper
          MaxOps          \* bound on the length of a plan

VARIABLES orig,           \* the program before the plan
          prog,           \* the shadow files after the operations so far
          anchors,        \* the names the plan is about
          kinds,          \* the operations that changed something
          captured,       \* has an operation rebound a name, in a known way
          left            \* operations the plan may still have
vars == <<orig, prog, anchors, kinds, captured, left>>

Places == DOMAIN FileOf
Files == {FileOf[at] : at \in Places}

-----------------------------------------------------------------------------
(* Expressions, statements and items.                                         *)
NoName == ""
None == [k |-> "none"]
Lit(c) == [k |-> "lit", n |-> c]
Var(n) == [k |-> "var", n |-> n]
\* form: "call" f(..), "path" at::f(..), "dot" x.f(..)
Call(form, n, at, args) == [k |-> "call", form |-> form, n |-> n, at |-> at, args |-> args]
Block(ss, tail) == [k |-> "block", body |-> ss, tail |-> tail]

Stmt(k, x, e, mac) == [k |-> k, x |-> x, e |-> e, mac |-> mac]
Let(x, e) == Stmt("let", x, e, FALSE)
Do(e) == Stmt("do", NoName, e, FALSE)
Out(e) == Stmt("out", NoName, e, FALSE)         \* an effect that shows e
MacroOut(e) == Stmt("out", NoName, e, TRUE)     \* the same in a macro: println!(e)
Return == Stmt("ret", NoName, None, FALSE)
Try == Stmt("try", NoName, None, FALSE)         \* the ? operator on a failure

Item(kind, name, at, params, body, tail) ==
    [kind |-> kind, name |-> name, at |-> at, params |-> params, body |-> body, tail |-> tail,
     shape |-> "plain", fallible |-> FALSE, test |-> FALSE, owner |-> NoName,
     attrs |-> <<>>, oneLine |-> FALSE, id |-> 0]

\* The parts of an expression, itself included, as <<in a macro?, part>>.
Under(x) ==
    CASE x[2].k = "call" -> {<<x[1], a>> : a \in ToSet(x[2].args)}
      [] x[2].k = "block" -> {<<x[1] \/ s.mac, s.e>> : s \in ToSet(x[2].body)} \cup {<<x[1], x[2].tail>>}
      [] OTHER -> {}
Parts(e) ==
    LET within[n \in Nat] ==
            IF n = 0 THEN [all |-> {<<FALSE, e>>}, last |-> {<<FALSE, e>>}]
            ELSE LET S == within[n - 1]
                     new == UNION {Under(x) : x \in S.last}
                 IN  IF new = {} THEN S ELSE [all |-> S.all \cup new, last |-> new]
    IN  within[Depth].all

\* What occurs in an expression or in statements: <<role, name, arguments>>.
\* Of what a macro encloses, only the names are known.
StmtShows(s) ==
    (IF s.mac THEN {<<"mac", NoName, 0>>} ELSE {})
    \cup (CASE s.k = "let" -> {<<"bind", s.x, 0>>}
            [] s.k \in {"ret", "try"} -> {<<s.k, NoName, 0>>}
            [] OTHER -> {})
Shows(e) ==
    CASE e.k = "var" -> {<<"read", e.n, 0>>}
      [] e.k = "call" -> {<<e.form, e.n, Len(e.args)>>}
      [] e.k = "block" -> UNION {StmtShows(s) : s \in ToSet(e.body)}
      [] OTHER -> {}
OccPart(x) == IF x[1] THEN {<<"macro", o[2], 0>> : o \in Shows(x[2])} ELSE Shows(x[2])
OccE(e) == UNION {OccPart(x) : x \in Parts(e)}
OccS(ss) == OccE(Block(ss, None))

Text(it) == Block(it.body, it.tail)
Occ(it) == {<<"param", n, 0>> : n \in ToSet(it.params)} \cup OccE(Text(it))
Names(os) == {o[2] : o \in os} \ {NoName}

In(p, F) == {it \in p.items : FileOf[it.at] \in F}
Occurs(p, F) == UNION {Occ(it) \cup {<<it.kind, it.name, 0>>} : it \in In(p, F)}
                \cup {<<"use", im.name, 0>> : im \in {im \in p.imports : FileOf[im.at] \in F}}

\* Bare calls, by what they call; a call with one of the same in its arguments.
Bare(x, f) == ~x[1] /\ x[2].k = "call" /\ x[2].form = "call" /\ x[2].n = f
NestedCalls(p, F, f) ==
    \E it \in In(p, F) : \E x \in Parts(Text(it)) :
       Bare(x, f) /\ \E a \in ToSet(x[2].args) : \E y \in Parts(a) : Bare(y, f)

\* The items a name stands for at a place.
Resolve(p, at, n) ==
    {it \in p.items : /\ it.kind \in {"fn", "struct"} /\ it.name = n
                      /\ \/ it.at = at
                         \/ \E im \in p.imports : im.at = at /\ im.name = n /\ im.from = it.at}

\* What a parsed program is made of.
IsSeq(s) == s \in Seq(ToSet(s))
IsExpr(e) ==
    \/ e = None
    \/ e.k = "lit" /\ e = Lit(e.n)
    \/ e.k = "var" /\ e = Var(e.n)
    \/ e.k = "call" /\ e = Call(e.form, e.n, e.at, e.args) /\ IsSeq(e.args)
    \/ /\ e.k = "block" /\ e = Block(e.body, e.tail) /\ IsSeq(e.body)
       /\ \A s \in ToSet(e.body) : s = Stmt(s.k, s.x, s.e, s.mac) /\ (s.k # "let" => s.x = NoName)
IsText(it) == IsSeq(it.params) /\ \A x \in Parts(Text(it)) : IsExpr(x[2])
Fields == {"kind", "name", "at", "params", "body", "tail", "shape", "fallible", "test", "owner",
           "attrs", "oneLine", "id"}
IsItem(it) ==
    /\ it = [f \in Fields |-> it[f]] /\ it.name # NoName
    /\ it.kind \in {"fn", "method", "default", "struct"} /\ it.at \in Places /\ it.id \in Nat
    /\ IsSeq(it.attrs) /\ \A i \in DOMAIN it.attrs : IsSeq(it.attrs[i])
IsProgram(p) ==
    /\ p = [items |-> p.items, imports |-> p.imports] /\ IsFiniteSet(p.items)
    /\ \A it \in p.items : IsItem(it) /\ IsText(it)
    /\ \A i, j \in p.items : i.id = j.id => i = j

ASSUME FilesAssumption == \A at \in Places : FileOf[at] \in Places
ASSUME ProgramsAssumption == \A p \in Programs : IsProgram(p)
\* A name is an identifier, never empty.
ASSUME NamesAssumption == /\ \A r \in Renames : NoName \notin {r[1], r[2]}
                          /\ \A s \in Signatures \cup Helpers : s[1] # NoName
ASSUME TraitsAssumption == \A ds \in Traits : IsSeq(ds)
ASSUME BoundsAssumption == Depth \in Nat /\ MaxOps \in Nat

-----------------------------------------------------------------------------
(* Rewriting.  w says what: every name ("all"), the names read ("read"), the  *)
(* arguments of the bare calls of a function ("perm") or those calls          *)
(* themselves ("inline").  Macro tokens are opaque to all but the first.      *)
Sub(map, n) == IF n \in DOMAIN map THEN map[n] ELSE n
Rewrite(mode, map, f, perm, d) == [mode |-> mode, map |-> map, fn |-> f, perm |-> perm, d |-> d]

PermuteArgsInverse(e, w) ==
    [e EXCEPT !.args = [i \in DOMAIN w.perm |-> e.args[CHOOSE j \in DOMAIN w.perm : w.perm[j] = i]]]
\* A call whose arguments contain a call of the same function: the descending
\* splice rewrites the inner one and then replaces the outer argument list by
\* the original text of its arguments.
PermuteArgs(e, w) == [e EXCEPT !.args = [i \in DOMAIN w.perm |-> e.args[w.perm[i]]]]
\* ({ let p1 = a1; let p2 = a2; body })
InlineCall(e, w) ==
    Block([i \in DOMAIN e.args |-> Let(w.d.params[i], e.args[i])] \o w.d.body, w.d.tail)
\* One part rewritten, r giving the parts under it.
Now(r, e) == IF e \in DOMAIN r THEN r[e] ELSE e
RewStmt(s, w, r) ==
    IF s.mac /\ w.mode # "all" THEN s
    ELSE [s EXCEPT !.x = IF w.mode = "all" THEN Sub(w.map, @) ELSE @, !.e = Now(r, @)]
RewPart(e, w, r) ==
    CASE e.k = "var" -> IF w.mode \in {"all", "read"} THEN [e EXCEPT !.n = Sub(w.map, @)] ELSE e
      [] e.k = "block" -> [e EXCEPT !.body = [i \in DOMAIN @ |-> RewStmt(@[i], w, r)], !.tail = Now(r, @)]
      [] e.k = "call" ->
           IF e.form = "call" /\ e.n = w.fn /\ w.mode \in {"perm", "inline"}
           THEN IF w.mode = "perm" THEN PermuteArgs(e, w) ELSE InlineCall(e, w)
           ELSE [e EXCEPT !.n = IF w.mode = "all" THEN Sub(w.map, @) ELSE @,
                          !.args = [i \in DOMAIN @ |-> Now(r, @[i])]]
      [] OTHER -> e
RewE(e, w) ==
    LET S == {x[2] : x \in Parts(e)}
        to[n \in Nat] == IF n = 0 THEN [x \in S |-> x]
                         ELSE LET r == to[n - 1] IN [x \in S |-> RewPart(x, w, r)]
    IN  Now(to[Depth], e)
RewItem(it, w) ==
    LET new == RewE(Text(it), w) IN [it EXCEPT !.body = new.body, !.tail = new.tail]

\* The items of the files F rewritten, the others as they are.
RewIn(p, F, w) == [p EXCEPT !.items = {IF FileOf[it.at] \in F THEN RewItem(it, w) ELSE it : it \in @}]

\* An empty filter means every file.
Scope(flt) == IF flt = {} THEN Files ELSE flt \cap Files

-----------------------------------------------------------------------------
(* RenameFunction: every identifier of the files that matches, whatever it    *)
(* stands for, macro bodies included.                                         *)
Renamed(it, w) == [RewItem(it, w) EXCEPT !.name = Sub(w.map, @), !.owner = Sub(w.map, @),
                                         !.params = [i \in DOMAIN @ |-> Sub(w.map, @[i])]]
RenameOf(old, new) == Rewrite("all", [n \in {old} |-> new], NoName, <<>>, None)
Rename(p, old, new, flt) ==
    LET F == Scope(flt)
        w == RenameOf(old, new)
    IN  [items |-> {IF FileOf[it.at] \in F THEN Renamed(it, w) ELSE it : it \in p.items},
         imports |-> {IF FileOf[im.at] \in F THEN [im EXCEPT !.name = Sub(w.map, @)] ELSE im
                        : im \in p.imports}]

\* The one definition that ChangeSignature and InlineFunction work on.
Definitions(p, F, f) == {it \in In(p, F) : it.kind = "fn" /\ it.name = f}
The(S) == CHOOSE x \in S : TRUE

\* No mention in the files but bare calls and the definition: no qualified
\* path, import, macro, method, value or local of that name.
OnlyBareCallsInBodies(p, F, f) == \A it \in In(p, F) : \A o \in Occ(it) : o[2] = f => o[1] # "path"
OnlyBareCalls(p, F, f) == \A o \in Occurs(p, F) : o[2] = f => o[1] \in {"call", "fn"}
ArityFits(p, F, d) == \A o \in Occurs(p, F) : o[1] = "call" /\ o[2] = d.name => o[3] = Len(d.params)

\* No generics, async, const, unsafe, where clause or self.
PlainShape(d) == d.shape = "plain"

\* A rename within a body is refused where a binding has the old or new name.
BodyRenamesAllowed(d, renames) ==
    \A r \in renames : \A o \in OccS(d.body) : o[1] = "bind" => o[2] \notin {r[1], r[2]}

(* ChangeSignature: np[i] is the old position of the i-th parameter and its   *)
(* new name, NoName to keep it.                                               *)
FinalNames(d, np) ==
    [i \in DOMAIN np |-> IF np[i].rename = NoName THEN d.params[np[i].from] ELSE np[i].rename]
BodyRenames(d, np) ==
    {<<d.params[np[i].from], np[i].rename>> : i \in {i \in DOMAIN np :
        np[i].rename # NoName /\ np[i].rename # d.params[np[i].from]}}
SignatureAllowed(p, f, np, flt) ==
    LET F == Scope(flt)
        ds == Definitions(p, F, f)
        d == The(ds)
    IN  /\ np # <<>> /\ Cardinality(ds) = 1
        /\ PlainShape(d)
        /\ Len(np) = Len(d.params) /\ {np[i].from : i \in DOMAIN np} = DOMAIN d.params
        /\ OnlyBareCalls(p, F, f)
        /\ IsInjective(FinalNames(d, np))
        /\ ArityFits(p, F, d)
        /\ BodyRenamesAllowed(d, BodyRenames(d, np))

ChangeSignature(p, f, np, flt) ==
    LET F == Scope(flt)
        calls == RewIn(p, F, Rewrite("perm", <<>>, f, [i \in DOMAIN np |-> np[i].from], None))
        d == The(Definitions(calls, F, f))
        rs == BodyRenames(d, np)
        map == [n \in {r[1] : r \in rs} |-> The({r \in rs : r[1] = n})[2]]
        signed == [RewItem(d, Rewrite("read", map, NoName, <<>>, None)) EXCEPT !.params = FinalNames(d, np)]
    IN  [calls EXCEPT !.items = (@ \ {d}) \cup {signed}]

(* InlineFunction: every bare call of the files becomes the body of the       *)
(* function, which is removed.                                                *)
Inlinable(d) ==
    /\ d.shape = "plain"
    /\ \A o \in OccS(d.body) : o[1] # "ret"
    /\ d.name \notin Names(Occ(d))
InlineAllowed(p, f, flt) ==
    LET F == Scope(flt)
        ds == Definitions(p, F, f)
        d == The(ds)
    IN  /\ Cardinality(ds) = 1
        /\ Inlinable(d)
        /\ OnlyBareCalls(p, F, f)
        /\ ArityFits(p, F, d)
WithoutDefinition(p, d) == [p EXCEPT !.items = @ \ {d}]
Inline(p, f, flt) ==
    LET d == The(Definitions(p, Scope(flt), f))
    IN  RewIn(WithoutDefinition(p, d), Scope(flt), Rewrite("inline", <<>>, f, <<>>, d))

(* ExtractFunction: statements i to j of a function become a new function     *)
(* after it, which takes the parameters asked for and returns nothing.        *)
Encloses(d, i, j) == d.kind = "fn" /\ i <= j /\ j <= Len(d.body)
ParentShape(d) == d.shape = "plain"
Selection(d, i, j) == SubSeq(d.body, i, j)
ControlLeaks == {"ret", "try", "mac"}
ExtractAllowed(d, i, j, params, flt) ==
    LET sel == OccS(Selection(d, i, j))
    IN  /\ flt = {} \/ FileOf[d.at] \in flt
        /\ Encloses(d, i, j) /\ ParentShape(d)
        /\ IsInjective(params)
        /\ \A o \in sel : o[1] \notin ControlLeaks
        /\ ToSet(params) \subseteq Names(sel)
HelperOf(p, d, i, j, new, params) ==
    [Item("fn", new, d.at, params, Selection(d, i, j), None)
       EXCEPT !.id = 1 + Max({it.id : it \in p.items})]
Extract(p, d, i, j, new, params) ==
    LET call == Do(Call("call", new, NoName, [k \in DOMAIN params |-> Var(params[k])]))
        parent == [d EXCEPT !.body = SubSeq(@, 1, i - 1) \o <<call>> \o SubSeq(@, j + 1, Len(@))]
    IN  [p EXCEPT !.items = (@ \ {d}) \cup {parent, HelperOf(p, d, i, j, new, params)}]

(* MoveItem: a function or struct goes from the top of one file to another's. *)
\* References the scan sees; it does not look into the trees of use items.
Referenced(p, F, it) ==
    \/ \E o \in UNION {Occ(i) : i \in In(p, F) \ {it}} :
          o[2] = it.name /\ o[1] \in {"call", "path", "read", "macro"}
    \/ \E i \in In(p, F) : i.kind = "method" /\ i.owner = it.name
    \/ FileOf[it.at] \in F /\ <<"macro", it.name, 0>> \in Occ(it)
TopLevel(p, kind, name, file) ==
    {i \in p.items : i.kind = kind /\ i.name = name /\ i.at = file /\ file \in Files}
Movable(p, it) ==
    /\ it.shape # "generic"
    /\ it.kind = "struct" => ~ \E i \in p.items : i.owner = it.name /\ i.at = it.at
MoveAllowed(p, it, to, flt) ==
    /\ it.at # to
    /\ it \in TopLevel(p, it.kind, it.name, it.at)
    /\ TopLevel(p, it.kind, it.name, to) = {}
    /\ Movable(p, it)
    /\ ~ Referenced(p, Scope(flt), it)
Move(p, it, to) == [p EXCEPT !.items = (@ \ {it}) \cup {[it EXCEPT !.at = to]}]

(* AddDeriveToStruct, RemoveDeriveFromStruct: only the first derive attribute *)
(* is edited.  An emptied one goes with the whole of its line.                *)
Listed(it) == ToSet(it.attrs[1])
Derived(it) == UNION {ToSet(ds) : ds \in ToSet(it.attrs)}
NoneTwice(it) ==
    \A i, j \in DOMAIN it.attrs : /\ IsInjective(it.attrs[i])
                                  /\ i # j => ToSet(it.attrs[i]) \cap ToSet(it.attrs[j]) = {}
Without(s, S) ==
    LET upto[n \in Nat] == IF n = 0 THEN <<>>
                           ELSE LET r == upto[n - 1] IN IF s[n] \in S THEN r ELSE Append(r, s[n])
    IN  upto[Len(s)]
AddDerives(it, ds) ==
    CASE ds = <<>> -> it
      [] ds # <<>> /\ it.attrs = <<>> -> [it EXCEPT !.attrs = <<ds>>]
      [] OTHER -> [it EXCEPT !.attrs[1] = @ \o Without(ds, Listed(it))]
WithoutAttribute(it) == IF it.oneLine THEN {} ELSE {[it EXCEPT !.attrs = Tail(@)]}
RemoveDerivesStub(it, ds) ==
    IF it.attrs = <<>> THEN {it}
    ELSE {[it EXCEPT !.attrs[1] = Without(@, ToSet(ds))]}
RemoveDerives(it, ds) ==
    IF it.attrs = <<>> THEN {it}
    ELSE LET kept == Without(it.attrs[1], ToSet(ds))
         IN  CASE Listed(it) \cap ToSet(ds) = {} -> {it}
               [] Listed(it) \cap ToSet(ds) # {} /\ kept # <<>> -> {[it EXCEPT !.attrs[1] = kept]}
               [] OTHER -> WithoutAttribute(it)

-----------------------------------------------------------------------------
(* The known ways an operation that goes through rebinds a name.              *)
RenameCaptures(p, new) == new \in Names(Occurs(p, Files))
SignatureCaptures(p, f, np, flt) ==
    LET d == The(Definitions(p, Scope(flt), f))
    IN  \/ NestedCalls(p, Scope(flt), f)
        \/ f \in Names(Occurs(p, Files \ Scope(flt)))
        \/ \E r \in BodyRenames(d, np) :
             <<"macro", r[1], 0>> \in OccS(d.body) /\ r[1] \in ToSet(FinalNames(d, np))
Callers(p, F, f) == {it \in In(p, F) : \E o \in Occ(it) : o[1] = "call" /\ o[2] = f}
MeansElse(p, d, at) ==
    \E n \in Names(Occ(d)) \ {d.name} : Resolve(p, d.at, n) # Resolve(p, at, n)
InlineCaptures(p, f, flt) ==
    LET d == The(Definitions(p, Scope(flt), f))
    IN  \/ NestedCalls(p, Scope(flt), f)
        \/ <<"try", NoName, 0>> \in Occ(d)
        \/ \E it \in Callers(p, Scope(flt), f) :
             \/ MeansElse(p, d, it.at)
             \/ \E x \in Parts(Text(it)) :
                  Bare(x, f) /\ \E i \in DOMAIN x[2].args, k \in DOMAIN d.params :
                                   k < i /\ d.params[k] \in Names(OccE(x[2].args[i]))
             \/ \E o \in Occ(it) : o[1] \in {"bind", "param"} /\ Resolve(p, d.at, o[2]) # {}
ExtractCaptures(d, i, j) ==
    \E o \in OccS(SubSeq(d.body, i, j)) :
       o[1] = "bind" /\ o[2] \in Names(OccS(SubSeq(d.body, j + 1, Len(d.body))) \cup OccE(d.tail))

-----------------------------------------------------------------------------
(* One operation of the plan.  Its names join the plan's whether it changes   *)
(* anything or refuses.                                                       *)
Step(kind, names, q, capture) ==
    /\ left' = left - 1
    /\ prog' = q
    /\ anchors' = anchors \cup names
    /\ kinds' = IF q = prog THEN kinds ELSE kinds \cup {kind}
    /\ captured' = (captured \/ (q # prog /\ capture))
    /\ UNCHANGED orig

RenameFunction ==
    \E r \in Renames, flt \in Filters :
       Step("rename", {r[1], r[2]}, Rename(prog, r[1], r[2], flt), RenameCaptures(prog, r[2]))

SignatureAnchors(f, np) == {f} \cup ({np[i].rename : i \in DOMAIN np} \ {NoName})
ChangeSignatureOf(f, np, flt) ==
    IF SignatureAllowed(prog, f, np, flt)
    THEN Step("signature", SignatureAnchors(f, np), ChangeSignature(prog, f, np, flt),
              SignatureCaptures(prog, f, np, flt))
    ELSE Step("signature", SignatureAnchors(f, np), prog, FALSE)
ChangeSignatureOp == \E s \in Signatures, flt \in Filters : ChangeSignatureOf(s[1], s[2], flt)

\* A call within the arguments of another is spliced first, and then lost: the
\* outer splice puts the arguments back as they were, over a text whose length
\* has changed.  What is left of a longer one does not parse; one as long, or
\* shorter before blanks, goes through.
InlineOf(f, flt) ==
    \/ /\ InlineAllowed(prog, f, flt)
       /\ Step("inline", {f}, Inline(prog, f, flt), InlineCaptures(prog, f, flt))
    \/ /\ InlineAllowed(prog, f, flt) => NestedCalls(prog, Scope(flt), f)
       /\ Step("inline", {f}, prog, FALSE)
FnNames == {it.name : it \in {it \in prog.items : it.kind = "fn"}}
InlineFunction == \E f \in FnNames, flt \in Filters : InlineOf(f, flt)

ExtractFunction ==
    \E d \in {it \in prog.items : it.kind \in {"fn", "method"}}, h \in Helpers, flt \in Filters :
    \E i \in 1..Len(d.body), j \in 1..(Len(d.body) + 1) :
       IF ExtractAllowed(d, i, j, h[2], flt)
       THEN Step("extract", {h[1]}, Extract(prog, d, i, j, h[1], h[2]), ExtractCaptures(d, i, j))
       ELSE Step("extract", {h[1]}, prog, FALSE)

MoveItem ==
    \E it \in prog.items, to \in Files, flt \in Filters :
       /\ it.kind \in {"fn", "struct"}
       /\ IF MoveAllowed(prog, it, to, flt)
          THEN Step("move", {it.name}, Move(prog, it, to), MeansElse(prog, it, to))
          ELSE Step("move", {it.name}, prog, FALSE)

\* In each file of the filter, the struct of that name.
Structs(p, n, flt) == {it \in In(p, Scope(flt)) : it.kind = "struct" /\ it.name = n}
StructNames == {it.name : it \in {it \in prog.items : it.kind = "struct"}}
DeriveAdded(p, n, ds, flt) ==
    LET S == Structs(p, n, flt) IN [p EXCEPT !.items = (@ \ S) \cup {AddDerives(it, ds) : it \in S}]
DeriveRemoved(p, n, ds, flt) ==
    LET S == Structs(p, n, flt) IN [p EXCEPT !.items = (@ \ S) \cup UNION {RemoveDerives(it, ds) : it \in S}]
AddDeriveToStruct ==
    \E n \in StructNames, ds \in Traits, flt \in Filters :
       Step("derive", {n} \cup ToSet(ds), DeriveAdded(prog, n, ds, flt), FALSE)
RemoveDeriveFromStruct ==
    \E n \in StructNames, ds \in Traits, flt \in Filters :
       Step("derive", {n} \cup ToSet(ds), DeriveRemoved(prog, n, ds, flt), FALSE)

Init ==
    /\ orig \in Programs /\ prog = orig
    /\ anchors = {} /\ kinds = {} /\ captured = FALSE
    /\ left = MaxOps

Next ==
    /\ left > 0
    /\ \/ RenameFunction \/ ChangeSignatureOp \/ InlineFunction \/ ExtractFunction
       \/ MoveItem \/ AddDeriveToStruct \/ RemoveDeriveFromStruct
Spec == Init /\ [][Next]_vars

-----------------------------------------------------------------------------
(* The choice of the tests (test_impact.rs), from the files before the plan.  *)
\* The names in the functions and methods called n, without n.  The default
\* methods of traits are not in the catalog.
Catalogued(p) == {it \in p.items : it.kind \in {"fn", "method"}}
FnIdents(p, n) ==
    UNION {Names(Occ(it)) \ {n} : it \in {it \in Catalogued(p) : it.name = n}}
Tests(p) == {it.name : it \in {it \in p.items : it.test}}
ReachableDirectly(p, t) == FnIdents(p, t)
\* Round after round the names are looked up in turn; a round that finds a
\* function not seen before is followed by another.
Reachable(p, t) ==
    LET within[n \in Nat] ==
            IF n = 0 THEN FnIdents(p, t)
            ELSE LET S == within[n - 1] IN S \cup UNION {FnIdents(p, m) : m \in S}
    IN  within[Cardinality(Catalogued(p))]
Impacted(p, names) == {t \in Tests(p) : Reachable(p, t) \cap names # {}}

\* Nothing selected means that every test runs.
Skipped == LET run == Impacted(orig, anchors) IN IF run = {} THEN {} ELSE Tests(orig) \ run

-----------------------------------------------------------------------------
(* Properties.                                                                *)

\* The program keeps its shape: items at known places, with distinct ids.
TypeOK ==
    /\ \A it \in prog.items : /\ it.at \in Places
                              /\ it.kind \in {"fn", "method", "default", "struct"}
    /\ \A i, j \in prog.items : i.id = j.id => i = j
    /\ kinds \subseteq {"rename", "signature", "inline", "extract", "move", "derive"}
    /\ left \in 0..MaxOps

\* A test that the plan's choice leaves out reads, in itself and in every
\* function it can reach, to the letter what it read before the plan: nothing
\* there was rewritten, renamed, added or removed, whatever the operations and
\* their order; only the impl a method stands in may have been renamed.  Known
\* exceptions: a plan that extracts, whose only anchor is the new name, a test
\* that the plan names itself, and default methods of traits (test_impact.rs:150).
Read(p, n) == {[it EXCEPT !.owner = NoName] : it \in {it \in Catalogued(p) : it.name = n}}
SkippedUntouched ==
    "extract" \notin kinds =>
       \A t \in Skipped \ anchors : \A n \in Reachable(orig, t) \cup {t} : Read(prog, n) = Read(orig, n)

\* Adding derives a struct does not list and removing them gives the struct
\* back, adding makes no derive appear twice, and removing leaves no attribute
\* empty, in any state of the plan (add_derive.rs:466).  Known exceptions: a
\* struct that shares its line with the attribute, one that has an empty
\* attribute and one that lists the trait in a second attribute.
DerivesCancel ==
    \A it \in prog.items, ds \in Traits :
       it.kind = "struct" /\ ~it.oneLine /\ <<>> \notin ToSet(it.attrs) =>
          /\ ToSet(ds) \cap Derived(it) = {} => RemoveDerives(AddDerives(it, ds), ds) = {it}
          /\ Len(it.attrs) < 2 /\ NoneTwice(it) /\ IsInjective(ds) => NoneTwice(AddDerives(it, ds))
          /\ \A r \in RemoveDerives(it, ds) : <<>> \notin ToSet(r.attrs) /\ (NoneTwice(it) => NoneTwice(r))
=============================================================================
