--------------------------- MODULE Refactor_proofs ---------------------------
(* Proofs about Refactor: what an operation does not mention it leaves to the *)
(* letter as it is, and so does a whole plan; the choice of the tests is the  *)
(* least closed set; derives that are added and removed again are gone.       *)
EXTENDS Refactor, TLAPS, FiniteSetTheorems, SequenceTheorems, WellFoundedInduction

-----------------------------------------------------------------------------
(* Facts about numbers, finite sets and recursion over numbers.               *)

\* A set of natural numbers that is not empty has a least element.
LEMMA Least ==
  ASSUME NEW Q, Q \subseteq Nat, Q # {}
  PROVE  \E n \in Q : \A m \in Q : n <= m
<1> DEFINE R == OpToRel(<, Nat)
<1>1. IsWellFoundedOn(R, Nat)
  BY NatLessThanWellFounded, Zenon
<1>2. \A x, y \in Nat : x < y => <<x, y>> \in R
  BY DEF OpToRel
<1> HIDE DEF R
<1>3. PICK n \in Q : \A m \in Q : <<m, n>> \notin R
  BY <1>1, WFMin
<1>4. \A m \in Q : m \in Nat /\ n \in Nat /\ ~(m < n)
  BY <1>2, <1>3
<1>5. \A m \in Q : n <= m
  BY <1>4
<1>6. QED
  BY <1>3, <1>5

\* A set of natural numbers with 0 in it and with every successor holds them all.
LEMMA Induction ==
  ASSUME NEW S, 0 \in S, \A n \in Nat : n \in S => n + 1 \in S
  PROVE  Nat \subseteq S
<1> DEFINE Q == {n \in Nat : n \notin S}
<1>1. SUFFICES ASSUME Q # {} PROVE FALSE
  OBVIOUS
<1>2. Q \subseteq Nat
  OBVIOUS
<1> HIDE DEF Q
<1>3. PICK n \in Q : \A m \in Q : n <= m
  BY <1>1, <1>2, Least
<1> USE DEF Q
<1>4. n \in Nat /\ n \notin S /\ n # 0
  BY <1>3
<1>5. n - 1 \in Nat /\ n - 1 \notin Q
  BY <1>3, <1>4
<1>6. (n - 1) + 1 \in S
  BY <1>5
<1>7. QED
  BY <1>4, <1>6

\* A sequence of values, each given by its number and the one before.
Chain(A, G, U, n, h) ==
    /\ h \in [0..n -> U] /\ h[0] = A
    /\ \A i \in 1..n : h[i] = G[<<i, h[i - 1]>>]

LEMMA ChainUnique ==
  ASSUME NEW A, NEW G, NEW U, NEW n \in Nat, NEW h, Chain(A, G, U, n, h),
         NEW m \in Nat, NEW g, Chain(A, G, U, m, g), n <= m
  PROVE  \A i \in 0..n : h[i] = g[i]
<1> DEFINE T == {i \in Nat : i <= n => h[i] = g[i]}
<1>1. 0 \in T
  BY DEF Chain
<1>2. ASSUME NEW i \in Nat, i \in T PROVE i + 1 \in T
  <2>1. SUFFICES ASSUME i + 1 <= n PROVE h[i + 1] = g[i + 1]
    OBVIOUS
  <2>2. i + 1 \in 1..n /\ i + 1 \in 1..m /\ (i + 1) - 1 = i
    BY <2>1
  <2>3. h[i] = g[i]
    BY <1>2, <2>1
  <2>4. PICK j : j = i + 1 /\ j - 1 = i
    BY <2>2
  <2>5. h[j] = G[<<j, h[i]>>] /\ g[j] = G[<<j, g[i]>>]
    BY <2>2, <2>4 DEF Chain
  <2>6. QED
    BY <2>3, <2>4, <2>5
<1> HIDE DEF T
<1>3. Nat \subseteq T
  BY <1>1, <1>2, Induction
<1>4. QED
  BY <1>3 DEF T

LEMMA ChainExists ==
  ASSUME NEW U, NEW A \in U, NEW G \in [Nat \X U -> U], NEW n \in Nat
  PROVE  \E h : Chain(A, G, U, n, h)
<1> DEFINE T == {i \in Nat : \E h : Chain(A, G, U, i, h)}
<1>1. 0 \in T
  <2>1. Chain(A, G, U, 0, [i \in 0..0 |-> A])
    BY DEF Chain
  <2>2. QED
    BY <2>1
<1>2. ASSUME NEW i \in Nat, i \in T PROVE i + 1 \in T
  <2>1. PICK h : Chain(A, G, U, i, h)
    BY <1>2
  <2>2. PICK v : v = G[<<i + 1, h[i]>>]
    OBVIOUS
  <2>3. v \in U
    <3>1. h[i] \in U /\ i + 1 \in Nat
      BY <2>1 DEF Chain
    <3>2. QED
      BY <2>2, <3>1
  <2>4. PICK g : g = [j \in 0..(i + 1) |-> IF j = i + 1 THEN v ELSE h[j]]
    OBVIOUS
  <2>5. g \in [0..(i + 1) -> U] /\ g[0] = A
    BY <2>1, <2>3, <2>4 DEF Chain
  <2>6. ASSUME NEW j \in 1..(i + 1) PROVE g[j] = G[<<j, g[j - 1]>>]
    <3>1. CASE j = i + 1
      <4>1. g[j] = v /\ g[j - 1] = h[i]
        BY <2>4, <3>1
      <4>2. QED
        BY <2>2, <3>1, <4>1
    <3>2. CASE j # i + 1
      <4>1. j \in 1..i /\ g[j] = h[j] /\ g[j - 1] = h[j - 1]
        BY <2>4, <3>2
      <4>2. QED
        BY <2>1, <4>1 DEF Chain
    <3>3. QED
      BY <3>1, <3>2
  <2>7. Chain(A, G, U, i + 1, g)
    BY <2>5, <2>6 DEF Chain
  <2>8. QED
    BY <2>7
<1> HIDE DEF T
<1>3. n \in T
  BY <1>1, <1>2, Induction
<1>4. QED
  BY <1>3 DEF T

\* A function of the natural numbers may be defined from its values before.
Recursive(U, A, G, g) ==
    g \in [Nat -> U] /\ g = [n \in Nat |-> IF n = 0 THEN A ELSE G[<<n, g[n - 1]>>]]

LEMMA NatRecursion ==
  ASSUME NEW U, NEW A \in U, NEW G \in [Nat \X U -> U]
  PROVE  \E g : Recursive(U, A, G, g)
<1> DEFINE H == [n \in Nat |-> CHOOSE h : Chain(A, G, U, n, h)]
           g == [n \in Nat |-> H[n][n]]
<1>1. \A n \in Nat : Chain(A, G, U, n, H[n])
  BY ChainExists
<1> HIDE DEF H
<1>2. g \in [Nat -> U]
  BY <1>1 DEF Chain
<1>3. ASSUME NEW n \in Nat PROVE g[n] = IF n = 0 THEN A ELSE G[<<n, g[n - 1]>>]
  <2>1. CASE n = 0
    BY <1>1, <2>1 DEF Chain
  <2>2. CASE n # 0
    <3>1. n - 1 \in Nat /\ n - 1 <= n /\ n \in 1..n /\ n - 1 \in 0..(n - 1)
      BY <2>2
    <3>2. H[n][n] = G[<<n, H[n][n - 1]>>]
      BY <1>1, <3>1 DEF Chain
    <3>3. PICK k \in Nat : k = n - 1
      BY <3>1
    <3>4. Chain(A, G, U, k, H[k]) /\ Chain(A, G, U, n, H[n]) /\ k <= n /\ k \in 0..k
      BY <1>1, <3>1, <3>3
    <3>5. H[k][k] = H[n][k]
      <4>1. \A i \in 0..k : H[k][i] = H[n][i]
        <5>1. PICK h, l : h = H[k] /\ l = H[n]
          OBVIOUS
        <5>2. Chain(A, G, U, k, h) /\ Chain(A, G, U, n, l)
          BY <3>4, <5>1
        <5>3. \A i \in 0..k : h[i] = l[i]
          BY <3>4, <5>2, ChainUnique
        <5>4. QED
          BY <5>1, <5>3
      <4>2. QED
        BY <3>4, <4>1
    <3>6. QED
      BY <2>2, <3>2, <3>3, <3>5
  <2>3. QED
    BY <2>1, <2>2
<1>4. g = [n \in Nat |-> IF n = 0 THEN A ELSE G[<<n, g[n - 1]>>]]
  BY <1>3, Zenon
<1>5. QED
  BY <1>2, <1>4 DEF Recursive

-----------------------------------------------------------------------------
(* Rewriting.                                                                 *)

Round(S, w, r) == [x \in S |-> RewPart(x, w, r)]

\* A rewriting that leaves every part of an expression as it is leaves the
\* expression as it is (rust_rename.rs, change_sig.rs).
LEMMA RewriteOfFixed ==
  ASSUME NEW e, NEW w,
         LET S == {x[2] : x \in Parts(e)}
         IN  \A x \in S : RewPart(x, w, [y \in S |-> y]) = x
  PROVE  RewE(e, w) = e
<1> DEFINE S == {x[2] : x \in Parts(e)}
           Same == [x \in S |-> x]
           Body(g) == [n \in Nat |-> IF n = 0 THEN Same ELSE Round(S, w, g[n - 1])]
           to == CHOOSE g : g = Body(g)
<1>1. Round(S, w, Same) = Same
  BY DEF Round
<1>2. RewE(e, w) = Now(to[Depth], e)
  BY Zenon DEF RewE, Round
<1> HIDE DEF S, Same
<1>3. \E g : g = Body(g)
  <2> DEFINE g == [n \in Nat |-> Same]
  <2>1. \A n \in Nat : n # 0 => g[n - 1] = Same
    OBVIOUS
  <2>2. g = Body(g)
    BY <1>1, <2>1
  <2>3. QED
    BY <2>2
<1>4. to = Body(to)
  BY <1>3
<1> HIDE DEF to
<1>5. to[0] = Same
  BY <1>4
<1>6. ASSUME NEW n \in Nat, to[n] = Same PROVE to[n + 1] = Same
  <2>1. to[n + 1] = Round(S, w, to[n])
    BY <1>4
  <2>2. QED
    BY <1>1, <1>6, <2>1
<1>7. to[Depth] = Same
  <2> DEFINE T == {n \in Nat : to[n] = Same}
  <2>1. 0 \in T /\ \A n \in Nat : n \in T => n + 1 \in T
    BY <1>5, <1>6
  <2> HIDE DEF T
  <2>2. Depth \in T
    BY <2>1, Induction, BoundsAssumption
  <2>3. QED
    BY <2>2 DEF T
<1>8. QED
  BY <1>2, <1>7 DEF Now, Same

\* A rewriting that is about one name only: its occurrences or its calls.
About(w, n) ==
    /\ n # NoName
    /\ \/ w.mode = "all" /\ DOMAIN w.map = {n}
       \/ w.mode \in {"perm", "inline"} /\ w.fn = n

LEMMA NowSame ==
  ASSUME NEW S, NEW x
  PROVE  Now([y \in S |-> y], x) = x
BY DEF Now

LEMMA StmtUnmentioned ==
  ASSUME NEW w, NEW n, About(w, n), NEW r, \A x : Now(r, x) = x,
         NEW s, s = Stmt(s.k, s.x, s.e, s.mac), s.k = "let" => s.x # n, s.k # "let" => s.x = NoName
  PROVE  RewStmt(s, w, r) = s
<1>1. Now(r, s.e) = s.e
  OBVIOUS
<1>2. w.mode = "all" => Sub(w.map, s.x) = s.x
  BY DEF About, Sub
<1>3. PICK k, x, e, mac : s = [k |-> k, x |-> x, e |-> e, mac |-> mac]
  BY DEF Stmt
<1>4. s.k = k /\ s.x = x /\ s.e = e /\ s.mac = mac
  BY <1>3
<1>5. [s EXCEPT !.x = s.x, !.e = s.e] = s
  BY <1>3
<1>6. QED
  BY <1>1, <1>2, <1>5 DEF RewStmt

\* A sequence is the function of its elements.
LEMMA SeqFacts ==
  ASSUME NEW s, IsSeq(s)
  PROVE  /\ s = [i \in DOMAIN s |-> s[i]]
         /\ Len(s) \in Nat /\ DOMAIN s = 1..Len(s)
         /\ \A i \in DOMAIN s : s[i] \in ToSet(s)
         /\ \A x \in ToSet(s) : \E i \in DOMAIN s : s[i] = x
         /\ \E S : s \in Seq(S)
<1>1. PICK S : s \in Seq(S)
  BY DEF IsSeq
<1>2. QED
  BY <1>1 DEF ToSet

ShownBy(e) == {o[2] : o \in Shows(e)}

LEMMA ShownByBlock ==
  ASSUME NEW e, e.k = "block", NEW s \in ToSet(e.body), s.k = "let"
  PROVE  s.x \in ShownBy(e)
<1>1. <<"bind", s.x, 0>> \in StmtShows(s)
  BY DEF StmtShows
<1>2. StmtShows(s) \subseteq Shows(e)
  BY DEF Shows
<1>3. QED
  BY <1>1, <1>2 DEF ShownBy

\* The forms an expression may have, by its kind.
LEMMA ExprForms ==
  ASSUME NEW e, IsExpr(e)
  PROVE  /\ e.k \in {"none", "lit", "var", "call", "block"}
         /\ e.k = "var" => e = Var(e.n)
         /\ e.k = "call" => e = Call(e.form, e.n, e.at, e.args) /\ IsSeq(e.args)
         /\ e.k = "block" => e = Block(e.body, e.tail) /\ IsSeq(e.body)
         /\ e.k = "block" => \A s \in ToSet(e.body) :
                               s = Stmt(s.k, s.x, s.e, s.mac) /\ (s.k # "let" => s.x = NoName)
<1>1. CASE e = None
  <2>1. e.k = "none"
    BY <1>1 DEF None
  <2>2. QED
    BY <2>1
<1>2. CASE e # None
  BY <1>2 DEF IsExpr
<1>3. QED
  BY <1>1, <1>2

\* What does not show the name a rewriting is about is left as it is.
LEMMA PartUnmentioned ==
  ASSUME NEW w, NEW n, About(w, n), NEW S,
         NEW e, IsExpr(e), n \notin ShownBy(e)
  PROVE  RewPart(e, w, [y \in S |-> y]) = e
<1>r. PICK r : r = [y \in S |-> y]
  OBVIOUS
<1>s. SUFFICES RewPart(e, w, r) = e
  BY <1>r
<1>1. \A x : Now(r, x) = x
  BY <1>r, NowSame
<1>2. ASSUME NEW s, s = Stmt(s.k, s.x, s.e, s.mac), s.k = "let" => s.x # n, s.k # "let" => s.x = NoName
      PROVE  RewStmt(s, w, r) = s
  BY <1>1, <1>2, StmtUnmentioned
<1>3. CASE e.k \in {"none", "lit"}
  BY <1>3 DEF RewPart
<1>4. CASE e.k = "var"
  <2>1. e = [k |-> "var", n |-> e.n]
    BY <1>4, ExprForms DEF Var
  <2>2. [e EXCEPT !.n = e.n] = e
    BY <2>1
  <2>3. e.n # n
    BY <1>4 DEF ShownBy, Shows
  <2>4. w.mode \in {"all", "read"} => Sub(w.map, e.n) = e.n
    BY <2>3 DEF About, Sub
  <2>5. QED
    BY <1>4, <2>2, <2>4 DEF RewPart
<1>5. CASE e.k = "call"
  <2>1. e = [k |-> "call", form |-> e.form, n |-> e.n, at |-> e.at, args |-> e.args]
    BY <1>5, ExprForms DEF Call
  <2>2. [e EXCEPT !.n = e.n, !.args = e.args] = e
    <3>1. PICK form, m, at, args : e = [k |-> "call", form |-> form, n |-> m, at |-> at, args |-> args]
      BY <2>1
    <3>2. [e EXCEPT !.n = m] = e
      BY <3>1
    <3>3. [e EXCEPT !.args = args] = e
      BY <3>1
    <3>4. e.n = m /\ e.args = args
      BY <3>1
    <3>5. QED
      BY <3>2, <3>3, <3>4
  <2>3. e.n # n
    <3>1. <<e.form, e.n, Len(e.args)>> \in Shows(e)
      BY <1>5 DEF Shows
    <3>2. e.n \in ShownBy(e)
      BY <3>1 DEF ShownBy
    <3>3. QED
      BY <3>2
  <2>4. w.mode = "all" => Sub(w.map, e.n) = e.n
    BY <2>3 DEF About, Sub
  <2>5. [i \in DOMAIN e.args |-> Now(r, e.args[i])] = e.args
    <3>1. IsSeq(e.args)
      BY <1>5, ExprForms
    <3>2. e.args = [i \in DOMAIN e.args |-> e.args[i]]
      BY <3>1, SeqFacts
    <3>3. QED
      BY <1>1, <3>2
  <2>6. ~(e.form = "call" /\ e.n = w.fn /\ w.mode \in {"perm", "inline"})
    BY <2>3 DEF About
  <2>7. RewPart(e, w, r) = [e EXCEPT !.n = IF w.mode = "all" THEN Sub(w.map, e.n) ELSE e.n,
                                     !.args = [i \in DOMAIN e.args |-> Now(r, e.args[i])]]
    BY <1>5, <2>6 DEF RewPart
  <2>8. (IF w.mode = "all" THEN Sub(w.map, e.n) ELSE e.n) = e.n
    BY <2>4
  <2>9. QED
    BY <2>2, <2>5, <2>7, <2>8
<1>6. CASE e.k = "block"
  <2>1. e = [k |-> "block", body |-> e.body, tail |-> e.tail]
    BY <1>6, ExprForms DEF Block
  <2>2. [e EXCEPT !.body = e.body, !.tail = e.tail] = e
    BY <2>1
  <2>3. /\ IsSeq(e.body)
        /\ \A s \in ToSet(e.body) : s = Stmt(s.k, s.x, s.e, s.mac) /\ (s.k # "let" => s.x = NoName)
    BY <1>6, ExprForms
  <2>4. /\ e.body = [i \in DOMAIN e.body |-> e.body[i]]
        /\ \A i \in DOMAIN e.body : e.body[i] \in ToSet(e.body)
    BY <2>3, SeqFacts
  <2>5. ASSUME NEW s \in ToSet(e.body) PROVE RewStmt(s, w, r) = s
    <3>1. s.k = "let" => s.x # n
      BY <1>6, ShownByBlock
    <3>2. QED
      BY <1>2, <2>3, <3>1
  <2>6. [i \in DOMAIN e.body |-> RewStmt(e.body[i], w, r)] = e.body
    BY <2>4, <2>5
  <2>7. RewPart(e, w, r) = [e EXCEPT !.body = [i \in DOMAIN e.body |-> RewStmt(e.body[i], w, r)],
                                     !.tail = Now(r, e.tail)]
    BY <1>6 DEF RewPart
  <2>8. Now(r, e.tail) = e.tail
    BY <1>1
  <2>9. QED
    BY <2>2, <2>6, <2>7, <2>8
<1>7. e.k \in {"none", "lit", "var", "call", "block"}
  BY ExprForms
<1>8. QED
  BY <1>3, <1>4, <1>5, <1>6, <1>7

\* The same of an item that does not mention the name.
LEMMA ItemUnmentioned ==
  ASSUME NEW w, NEW n, About(w, n),
         NEW it, it = [f \in Fields |-> it[f]], IsText(it), n \notin Names(Occ(it))
  PROVE  RewItem(it, w) = it
<1> DEFINE e == Text(it)
           S == {x[2] : x \in Parts(e)}
<1>1. ASSUME NEW x \in Parts(e) PROVE n \notin ShownBy(x[2])
  <2>1. SUFFICES ASSUME NEW o \in Shows(x[2]), o[2] = n PROVE FALSE
    BY DEF ShownBy
  <2>2. PICK o2 \in OccPart(x) : o2[2] = n
    <3>1. CASE x[1]
      <4>1. <<"macro", n, 0>> \in OccPart(x)
        BY <2>1, <3>1 DEF OccPart
      <4>2. <<"macro", n, 0>>[2] = n
        OBVIOUS
      <4>3. QED
        BY <4>1, <4>2
    <3>2. CASE ~x[1]
      BY <2>1, <3>2 DEF OccPart
    <3>3. QED
      BY <3>1, <3>2
  <2>3. o2 \in OccE(e)
    BY DEF OccE
  <2>4. o2 \in Occ(it)
    BY <2>3 DEF Occ
  <2>5. n # NoName
    BY DEF About
  <2>6. n \in Names(Occ(it))
    BY <2>2, <2>4, <2>5 DEF Names
  <2>7. QED
    BY <2>6
<1>2. ASSUME NEW x \in Parts(e) PROVE RewPart(x[2], w, [y \in S |-> y]) = x[2]
  <2>1. IsExpr(x[2])
    BY DEF IsText
  <2>2. n \notin ShownBy(x[2])
    BY <1>1
  <2> HIDE DEF S
  <2>3. QED
    BY <2>1, <2>2, PartUnmentioned
<1>3. RewE(e, w) = e
  <2>1. \A x \in S : RewPart(x, w, [y \in S |-> y]) = x
    BY <1>2
  <2>2. QED
    BY <2>1, RewriteOfFixed
<1>4. e.body = it.body /\ e.tail = it.tail
  BY DEF Text, Block
<1>5. [it EXCEPT !.body = it.body, !.tail = it.tail] = it
  <2>1. [it EXCEPT !.body = it.body] = it /\ [it EXCEPT !.tail = it.tail] = it
    OBVIOUS
  <2>2. QED
    BY <2>1
<1> HIDE DEF e
<1>6. RewItem(it, w) = [it EXCEPT !.body = e.body, !.tail = e.tail]
  BY <1>3 DEF RewItem, e
<1>7. QED
  BY <1>4, <1>5, <1>6

-----------------------------------------------------------------------------
(* The shape of a program, and that every operation keeps it.                 *)

IsForm(it) == it = [f \in Fields |-> it[f]]

\* An item with one field replaced.
LEMMA FormExcept ==
  ASSUME NEW it, IsForm(it), NEW f \in Fields, NEW v
  PROVE  /\ IsForm([it EXCEPT ![f] = v])
         /\ [it EXCEPT ![f] = v][f] = v
         /\ \A g \in Fields \ {f} : [it EXCEPT ![f] = v][g] = it[g]
         /\ [it EXCEPT ![f] = it[f]] = it
BY DEF IsForm

LEMMA RewItemFacts ==
  ASSUME NEW it, IsItem(it), NEW w
  PROVE  /\ IsItem(RewItem(it, w))
         /\ \A f \in Fields \ {"body", "tail"} : RewItem(it, w)[f] = it[f]
<1>1. PICK b, t : RewItem(it, w) = [it EXCEPT !.body = b, !.tail = t]
  BY DEF RewItem
<1>2. PICK i : i = [it EXCEPT !.body = b]
  OBVIOUS
<1>3. PICK j : j = [i EXCEPT !.tail = t]
  OBVIOUS
<1>4. IsForm(it) /\ "body" \in Fields /\ "tail" \in Fields
  BY DEF IsItem, IsForm, Fields
<1>5. IsForm(i) /\ \A g \in Fields \ {"body"} : i[g] = it[g]
  BY <1>2, <1>4, FormExcept
<1>6. IsForm(j) /\ \A g \in Fields \ {"tail"} : j[g] = i[g]
  BY <1>3, <1>4, <1>5, FormExcept
<1>7. \A g \in Fields \ {"body", "tail"} : j[g] = it[g]
  BY <1>5, <1>6
<1>8. IsItem(j)
  BY <1>6, <1>7 DEF IsItem, IsForm, Fields
<1>9. QED
  BY <1>1, <1>2, <1>3, <1>7, <1>8

Shaped(p) ==
    /\ p = [items |-> p.items, imports |-> p.imports]
    /\ \A it \in p.items : IsItem(it)
    /\ \A i, j \in p.items : i.id = j.id => i = j
    /\ \E b \in Nat : \A it \in p.items : it.id <= b

\* A program is shaped if its items replace, each one its own, those of one that is.
LEMMA ReplacedShaped ==
  ASSUME NEW p, Shaped(p), NEW q, q = [items |-> q.items, imports |-> q.imports],
         \A i \in q.items : IsItem(i) /\ \E it \in p.items : i.id = it.id,
         \A i, j \in q.items : i.id = j.id => i = j
  PROVE  Shaped(q)
<1>1. PICK b \in Nat : \A it \in p.items : it.id <= b
  BY DEF Shaped
<1>2. \A i \in q.items : i.id <= b
  BY <1>1
<1>3. QED
  BY <1>1, <1>2 DEF Shaped

LEMMA RenamedFacts ==
  ASSUME NEW it, IsItem(it), NEW old, NEW new, new # NoName
  PROVE  LET r == Renamed(it, RenameOf(old, new))
         IN  /\ IsItem(r)
             /\ \A f \in Fields \ {"body", "tail", "name", "owner", "params"} : r[f] = it[f]
             /\ r.name = IF it.name = old THEN new ELSE it.name
<1> DEFINE w == RenameOf(old, new)
<1>1. PICK a : a = RewItem(it, w)
  OBVIOUS
<1>2. IsItem(a) /\ \A f \in Fields \ {"body", "tail"} : a[f] = it[f]
  BY <1>1, RewItemFacts
<1>3. w.map = [n \in {old} |-> new]
  BY DEF RenameOf, Rewrite
<1> HIDE DEF w
<1>4. PICK m, o, ps : /\ Renamed(it, w) = [a EXCEPT !.name = m, !.owner = o, !.params = ps]
                      /\ m = Sub(w.map, a.name)
  BY <1>1 DEF Renamed
<1>5. PICK b : b = [a EXCEPT !.name = m]
  OBVIOUS
<1>6. PICK c : c = [b EXCEPT !.owner = o]
  OBVIOUS
<1>7. PICK d : d = [c EXCEPT !.params = ps]
  OBVIOUS
<1>8. IsForm(a) /\ "name" \in Fields /\ "owner" \in Fields /\ "params" \in Fields
  BY <1>2 DEF IsItem, IsForm, Fields
<1>9. IsForm(b) /\ b["name"] = m /\ \A g \in Fields \ {"name"} : b[g] = a[g]
  BY <1>5, <1>8, FormExcept
<1>10. IsForm(c) /\ \A g \in Fields \ {"owner"} : c[g] = b[g]
  BY <1>6, <1>8, <1>9, FormExcept
<1>11. IsForm(d) /\ \A g \in Fields \ {"params"} : d[g] = c[g]
  BY <1>7, <1>8, <1>10, FormExcept
<1>12. \A g \in Fields \ {"body", "tail", "name", "owner", "params"} : d[g] = it[g]
  BY <1>2, <1>9, <1>10, <1>11
<1>13. d.name = m
  BY <1>9, <1>10, <1>11 DEF Fields
<1>14. m = IF it.name = old THEN new ELSE it.name
  <2>1. a.name = it.name
    BY <1>2 DEF Fields
  <2>2. QED
    BY <1>3, <1>4, <2>1 DEF Sub
<1>15. IsItem(d)
  <2>1. m # NoName
    BY <1>14 DEF IsItem
  <2>2. IsForm(d) /\ d.name # NoName
    BY <1>11, <1>13, <2>1
  <2>3. d.kind = it.kind /\ d.at = it.at /\ d.id = it.id /\ d.attrs = it.attrs
    BY <1>12 DEF Fields
  <2>4. QED
    BY <2>2, <2>3 DEF IsItem, IsForm
<1>16. Renamed(it, w) = d
  BY <1>4, <1>5, <1>6, <1>7
<1> USE DEF w
<1>17. QED
  BY <1>12, <1>13, <1>14, <1>15, <1>16

LEMMA RenameShaped ==
  ASSUME NEW p, Shaped(p), NEW old, NEW new, new # NoName, NEW flt
  PROVE  Shaped(Rename(p, old, new, flt))
<1> DEFINE F == Scope(flt)
           w == RenameOf(old, new)
           to(it) == IF FileOf[it.at] \in F THEN Renamed(it, w) ELSE it
<1>1. PICK q : q = Rename(p, old, new, flt)
  OBVIOUS
<1>2. q = [items |-> q.items, imports |-> q.imports] /\ q.items = {to(it) : it \in p.items}
  BY <1>1 DEF Rename
<1>3. ASSUME NEW it \in p.items PROVE IsItem(to(it)) /\ to(it).id = it.id
  <2>1. IsItem(it)
    BY DEF Shaped
  <2>2. IsItem(Renamed(it, w)) /\ Renamed(it, w).id = it.id
    BY <2>1, RenamedFacts DEF Fields
  <2>3. QED
    BY <2>1, <2>2
<1> HIDE DEF to
<1>4. \A i \in q.items : IsItem(i) /\ \E it \in p.items : i.id = it.id
  BY <1>2, <1>3
<1>5. \A i, j \in q.items : i.id = j.id => i = j
  BY <1>2, <1>3 DEF Shaped
<1>6. Shaped(q)
  BY <1>2, <1>4, <1>5, ReplacedShaped
<1>7. QED
  BY <1>1, <1>6

LEMMA ItemsExcept ==
  ASSUME NEW p, p = [items |-> p.items, imports |-> p.imports], NEW S
  PROVE  LET q == [p EXCEPT !.items = S]
         IN  q = [items |-> q.items, imports |-> q.imports] /\ q.items = S
OBVIOUS

RewrittenIn(F, w, it) == IF FileOf[it.at] \in F THEN RewItem(it, w) ELSE it

LEMMA RewrittenFacts ==
  ASSUME NEW F, NEW w, NEW it, IsItem(it)
  PROVE  /\ IsItem(RewrittenIn(F, w, it))
         /\ \A f \in Fields \ {"body", "tail"} : RewrittenIn(F, w, it)[f] = it[f]
BY RewItemFacts DEF RewrittenIn

LEMMA RewInFacts ==
  ASSUME NEW p, Shaped(p), NEW F, NEW w
  PROVE  /\ Shaped(RewIn(p, F, w))
         /\ RewIn(p, F, w).items = {RewrittenIn(F, w, it) : it \in p.items}
         /\ \A it \in p.items : /\ IsItem(RewrittenIn(F, w, it))
                                /\ \A f \in Fields \ {"body", "tail"} : RewrittenIn(F, w, it)[f] = it[f]
<1>1. PICK q : q = RewIn(p, F, w)
  OBVIOUS
<1>2. q = [items |-> q.items, imports |-> q.imports] /\ q.items = {RewrittenIn(F, w, it) : it \in p.items}
  <2>1. q = [p EXCEPT !.items = {RewrittenIn(F, w, it) : it \in p.items}]
    BY <1>1, Zenon DEF RewIn, RewrittenIn
  <2>2. p = [items |-> p.items, imports |-> p.imports]
    BY DEF Shaped
  <2>3. QED
    BY <2>1, <2>2, ItemsExcept
<1>3. ASSUME NEW it \in p.items
      PROVE  /\ IsItem(RewrittenIn(F, w, it))
             /\ \A f \in Fields \ {"body", "tail"} : RewrittenIn(F, w, it)[f] = it[f]
  BY RewrittenFacts DEF Shaped
<1>4. \A it \in p.items : RewrittenIn(F, w, it).id = it.id
  BY <1>3 DEF Fields
<1>5. \A i \in q.items : IsItem(i) /\ \E it \in p.items : i.id = it.id
  BY <1>2, <1>3, <1>4
<1>6. \A i, j \in q.items : i.id = j.id => i = j
  BY <1>2, <1>4 DEF Shaped
<1>7. Shaped(q)
  BY <1>2, <1>5, <1>6, ReplacedShaped
<1>8. QED
  BY <1>1, <1>2, <1>3, <1>7

LEMMA SwapShaped ==
  ASSUME NEW p, Shaped(p), NEW d \in p.items, NEW e, IsItem(e), e.id = d.id
  PROVE  Shaped([p EXCEPT !.items = (p.items \ {d}) \cup {e}])
<1>1. PICK q : q = [p EXCEPT !.items = (p.items \ {d}) \cup {e}]
  OBVIOUS
<1>2. q = [items |-> q.items, imports |-> q.imports] /\ q.items = (p.items \ {d}) \cup {e}
  BY <1>1, ItemsExcept DEF Shaped
<1>3. \A i \in q.items : IsItem(i) /\ \E it \in p.items : i.id = it.id
  BY <1>2 DEF Shaped
<1>4. \A i, j \in q.items : i.id = j.id => i = j
  BY <1>2 DEF Shaped
<1>5. Shaped(q)
  BY <1>2, <1>3, <1>4, ReplacedShaped
<1>6. QED
  BY <1>1, <1>5

\* The calls are rewritten, then the definition d is replaced by e.
SignedAs(p, f, flt, w, q, d, e, r) ==
    /\ q = RewIn(p, Scope(flt), w) /\ w.mode = "perm" /\ w.fn = f
    /\ d \in q.items /\ d.kind = "fn" /\ d.name = f
    /\ IsItem(e) /\ \A g \in Fields \ {"body", "tail", "params"} : e[g] = d[g]
    /\ r = [q EXCEPT !.items = (q.items \ {d}) \cup {e}]

LEMMA SignedFacts ==
  ASSUME NEW p, Shaped(p), NEW f, NEW np, NEW flt, SignatureAllowed(p, f, np, flt)
  PROVE  \E w, q, d, e : SignedAs(p, f, flt, w, q, d, e, ChangeSignature(p, f, np, flt))
<1> DEFINE F == Scope(flt)
           w == Rewrite("perm", <<>>, f, [i \in DOMAIN np |-> np[i].from], None)
           d == The(Definitions(RewIn(p, F, w), F, f))
<1>w. w.mode = "perm" /\ w.fn = f
  BY DEF Rewrite
<1> HIDE DEF F, w
<1>1. PICK q : q = RewIn(p, F, w)
  OBVIOUS
<1>2. PICK it : it \in Definitions(p, F, f)
  <2>1. Cardinality(Definitions(p, F, f)) = 1
    BY DEF SignatureAllowed, F
  <2>2. QED
    BY <2>1, FS_EmptySet
<1>3. it \in p.items /\ FileOf[it.at] \in F /\ it.kind = "fn" /\ it.name = f
  BY <1>2 DEF Definitions, In
<1>4. PICK it2 \in q.items : it2.at = it.at /\ it2.kind = it.kind /\ it2.name = it.name
  <2>1. RewrittenIn(F, w, it) \in q.items
    BY <1>1, <1>3, RewInFacts
  <2>2. \A g \in Fields \ {"body", "tail"} : RewrittenIn(F, w, it)[g] = it[g]
    BY <1>3, RewrittenFacts DEF Shaped
  <2>3. PICK i : i = RewrittenIn(F, w, it)
    OBVIOUS
  <2>4. i.at = it.at /\ i.kind = it.kind /\ i.name = it.name
    BY <2>2, <2>3 DEF Fields
  <2>5. QED
    BY <2>1, <2>3, <2>4
<1>5. it2 \in Definitions(q, F, f)
  BY <1>3, <1>4 DEF Definitions, In
<1>6. d \in Definitions(q, F, f)
  BY <1>1, <1>5 DEF The
<1>7. d \in q.items /\ d.kind = "fn" /\ d.name = f
  BY <1>6 DEF Definitions, In
<1>8. PICK w2, ps : ChangeSignature(p, f, np, flt)
                      = [q EXCEPT !.items = (q.items \ {d}) \cup {[RewItem(d, w2) EXCEPT !.params = ps]}]
  BY <1>1 DEF ChangeSignature, F, w
<1> HIDE DEF d
<1>9. PICK a : a = RewItem(d, w2)
  OBVIOUS
<1>10. PICK e : e = [a EXCEPT !.params = ps]
  OBVIOUS
<1>11. IsItem(a) /\ \A g \in Fields \ {"body", "tail"} : a[g] = d[g]
  <2>1. IsItem(d)
    BY <1>1, <1>7, RewInFacts DEF Shaped
  <2>2. QED
    BY <1>9, <2>1, RewItemFacts
<1>12. IsForm(e) /\ \A g \in Fields \ {"params"} : e[g] = a[g]
  BY <1>10, <1>11, FormExcept DEF IsItem, IsForm, Fields
<1>13. IsItem(e)
  <2>1. e.name = a.name /\ e.kind = a.kind /\ e.at = a.at /\ e.id = a.id /\ e.attrs = a.attrs
    BY <1>12 DEF Fields
  <2>2. QED
    BY <1>11, <1>12, <2>1 DEF IsItem, IsForm
<1>14. \A g \in Fields \ {"body", "tail", "params"} : e[g] = d[g]
  BY <1>11, <1>12
<1>15. ChangeSignature(p, f, np, flt) = [q EXCEPT !.items = (q.items \ {d}) \cup {e}]
  BY <1>8, <1>9, <1>10
<1>16. QED
  <2>1. SignedAs(p, f, flt, w, q, d, e, ChangeSignature(p, f, np, flt))
    BY <1>1, <1>7, <1>13, <1>14, <1>15, <1>w DEF F, SignedAs
  <2>2. QED
    BY <2>1

LEMMA SignatureShaped ==
  ASSUME NEW p, Shaped(p), NEW f, NEW np, NEW flt, SignatureAllowed(p, f, np, flt)
  PROVE  Shaped(ChangeSignature(p, f, np, flt))
<1>1. PICK w, q, d, e : SignedAs(p, f, flt, w, q, d, e, ChangeSignature(p, f, np, flt))
  BY SignedFacts, Zenon
<1>2. e.id = d.id /\ d \in q.items /\ IsItem(e)
  BY <1>1 DEF Fields, SignedAs
<1>3. Shaped(q)
  BY <1>1, RewInFacts DEF SignedAs
<1>4. Shaped([q EXCEPT !.items = (q.items \ {d}) \cup {e}])
  BY <1>2, <1>3, SwapShaped
<1>5. QED
  BY <1>1, <1>4 DEF SignedAs

\* Leaving items out.
LEMMA FewerShaped ==
  ASSUME NEW p, Shaped(p), NEW S, S \subseteq p.items
  PROVE  Shaped([p EXCEPT !.items = S])
<1>1. PICK q : q = [p EXCEPT !.items = S]
  OBVIOUS
<1>2. q = [items |-> q.items, imports |-> q.imports] /\ q.items = S
  BY <1>1, ItemsExcept DEF Shaped
<1>3. \A i \in q.items : IsItem(i) /\ \E it \in p.items : i.id = it.id
  BY <1>2 DEF Shaped
<1>4. \A i, j \in q.items : i.id = j.id => i = j
  BY <1>2 DEF Shaped
<1>5. Shaped(q)
  BY <1>2, <1>3, <1>4, ReplacedShaped
<1>6. QED
  BY <1>1, <1>5

LEMMA InlineShaped ==
  ASSUME NEW p, Shaped(p), NEW f, NEW flt
  PROVE  Shaped(Inline(p, f, flt))
<1>1. PICK w, d : Inline(p, f, flt) = RewIn(WithoutDefinition(p, d), Scope(flt), w)
  BY DEF Inline
<1>2. Shaped(WithoutDefinition(p, d))
  BY FewerShaped DEF WithoutDefinition
<1>3. QED
  BY <1>1, <1>2, RewInFacts

LEMMA MaxFacts ==
  ASSUME NEW S, S \subseteq Nat, S # {}, NEW b \in Nat, \A x \in S : x <= b
  PROVE  Max(S) \in S /\ \A x \in S : x <= Max(S)
<1> DEFINE Q == {n \in Nat : \A x \in S : x <= n}
<1>1. b \in Q
  OBVIOUS
<1>2. Q \subseteq Nat
  OBVIOUS
<1> HIDE DEF Q
<1>3. PICK m \in Q : \A n \in Q : m <= n
  BY <1>1, <1>2, Least
<1> USE DEF Q
<1>4. m \in Nat /\ \A x \in S : x <= m
  BY <1>3
<1>5. m \in S
  <2>1. SUFFICES ASSUME m \notin S PROVE FALSE
    OBVIOUS
  <2>2. \A x \in S : x \in Nat /\ x <= m /\ x # m
    BY <1>4, <2>1
  <2>3. m # 0
    <3>1. PICK x : x \in S
      OBVIOUS
    <3>2. x \in Nat /\ x <= m /\ x # m
      BY <2>2, <3>1
    <3>3. QED
      BY <1>4, <3>2
  <2>4. \A x \in S : x <= m - 1
    BY <1>4, <2>2
  <2>5. m - 1 \in Q
    BY <1>4, <2>3, <2>4
  <2>6. QED
    BY <1>3, <1>4, <2>5
<1>6. \E x \in S : \A y \in S : x >= y
  BY <1>4, <1>5
<1>7. Max(S) \in S /\ \A y \in S : Max(S) >= y
  BY <1>6 DEF Max
<1>8. QED
  BY <1>7

LEMMA IsSeqOf ==
  ASSUME NEW S, NEW s \in Seq(S)
  PROVE  IsSeq(s)
BY DEF IsSeq, ToSet

LEMMA EmptyFacts == IsSeq(<<>>) /\ DOMAIN <<>> = {} /\ ToSet(<<>>) = {} /\ Len(<<>>) = 0
<1>1. PICK s : s = <<>>
  OBVIOUS
<1>2. s \in Seq({}) /\ Len(s) = 0
  BY <1>1
<1>3. IsSeq(s)
  BY <1>2, IsSeqOf
<1>4. DOMAIN s = {}
  BY <1>2
<1>5. QED
  BY <1>1, <1>2, <1>3, <1>4 DEF ToSet

\* The new function of an extraction: one more item, with a number of its own.
LEMMA HelperFacts ==
  ASSUME NEW p, Shaped(p), NEW d \in p.items, NEW i, NEW j, NEW new, new # NoName, NEW params
  PROVE  LET h == HelperOf(p, d, i, j, new, params)
         IN  IsItem(h) /\ \A it \in p.items : it.id < h.id
<1> DEFINE ids == {it.id : it \in p.items}
<1>1. PICK b \in Nat : \A it \in p.items : it.id <= b
  BY DEF Shaped
<1>2. ids \subseteq Nat /\ ids # {} /\ \A x \in ids : x <= b
  BY <1>1 DEF Shaped, IsItem
<1>3. PICK m : m = Max(ids)
  OBVIOUS
<1>4. HelperOf(p, d, i, j, new, params)
        = [Item("fn", new, d.at, params, Selection(d, i, j), None) EXCEPT !.id = 1 + m]
  BY <1>3 DEF HelperOf
<1> HIDE DEF ids
<1>5. m \in ids /\ \A x \in ids : x <= m
  BY <1>1, <1>2, <1>3, MaxFacts
<1> USE DEF ids
<1>6. m \in Nat /\ \A it \in p.items : it.id \in Nat /\ it.id <= m
  BY <1>2, <1>5
<1>7. PICK a : a = Item("fn", new, d.at, params, Selection(d, i, j), None)
  OBVIOUS
<1>8. IsForm(a) /\ a.kind = "fn" /\ a.name = new /\ a.at = d.at /\ a.attrs = <<>>
  BY <1>7 DEF Item, IsForm, Fields
<1>9. PICK h : h = [a EXCEPT !.id = 1 + m]
  OBVIOUS
<1>10. IsForm(h) /\ h["id"] = 1 + m /\ \A g \in Fields \ {"id"} : h[g] = a[g]
  <2>1. "id" \in Fields
    BY DEF Fields
  <2>2. PICK v : v = 1 + m
    OBVIOUS
  <2>3. h = [a EXCEPT !.id = v]
    BY <1>9, <2>2
  <2>4. IsForm(h) /\ h["id"] = v /\ \A g \in Fields \ {"id"} : h[g] = a[g]
    BY <1>8, <2>1, <2>3 DEF IsForm
  <2>5. QED
    BY <2>2, <2>4
<1>11. h.kind = "fn" /\ h.name = new /\ h.at = d.at /\ h.attrs = <<>> /\ h.id = 1 + m
  BY <1>8, <1>10 DEF Fields
<1>12. d.at \in Places
  BY DEF Shaped, IsItem
<1>13. IsItem(h)
  <2>1. IsSeq(<<>>) /\ DOMAIN <<>> = {}
    BY EmptyFacts, Zenon
  <2>2. QED
    BY <1>6, <1>10, <1>11, <1>12, <2>1 DEF IsItem, IsForm
<1>14. \A it \in p.items : it.id < h.id
  BY <1>6, <1>11
<1>15. QED
  BY <1>4, <1>7, <1>9, <1>13, <1>14

LEMMA ExtractShaped ==
  ASSUME NEW p, Shaped(p), NEW d \in p.items, NEW i, NEW j, NEW new, new # NoName, NEW params
  PROVE  Shaped(Extract(p, d, i, j, new, params))
<1>1. PICK b : Extract(p, d, i, j, new, params)
                 = [p EXCEPT !.items = (p.items \ {d})
                      \cup {[d EXCEPT !.body = b], HelperOf(p, d, i, j, new, params)}]
  BY DEF Extract
<1>2. PICK h : h = HelperOf(p, d, i, j, new, params)
  OBVIOUS
<1>3. IsItem(h) /\ \A it \in p.items : it.id < h.id
  BY <1>2, HelperFacts
<1>4. PICK e : e = [d EXCEPT !.body = b]
  OBVIOUS
<1>5. IsItem(e) /\ e.id = d.id
  <2>1. IsItem(d) /\ "body" \in Fields
    BY DEF Shaped, Fields
  <2>2. IsForm(e) /\ \A g \in Fields \ {"body"} : e[g] = d[g]
    BY <1>4, <2>1, FormExcept DEF IsItem, IsForm
  <2>3. e.kind = d.kind /\ e.name = d.name /\ e.at = d.at /\ e.attrs = d.attrs /\ e.id = d.id
    BY <2>2 DEF Fields
  <2>4. QED
    BY <2>1, <2>2, <2>3 DEF IsItem, IsForm
<1>6. PICK q : q = [p EXCEPT !.items = (p.items \ {d}) \cup {e, h}]
  OBVIOUS
<1>7. q = [items |-> q.items, imports |-> q.imports] /\ q.items = (p.items \ {d}) \cup {e, h}
  BY <1>6, ItemsExcept DEF Shaped
<1>8. \A x \in q.items : IsItem(x) /\ (x = h \/ x.id < h.id) /\ h.id \in Nat
  BY <1>3, <1>5, <1>7 DEF Shaped, IsItem
<1>9. \A x, y \in q.items : x.id = y.id => x = y
  <2>1. \A x, y \in (p.items \ {d}) \cup {e} : x.id = y.id => x = y
    BY <1>5 DEF Shaped
  <2>2. \A x \in (p.items \ {d}) \cup {e} : x.id # h.id
    BY <1>3, <1>5 DEF Shaped, IsItem
  <2>3. QED
    BY <1>7, <2>1, <2>2
<1>10. \A x \in q.items : x.id <= h.id
  BY <1>8 DEF IsItem
<1>11. Shaped(q)
  BY <1>7, <1>8, <1>9, <1>10, <1>3 DEF Shaped, IsItem
<1>12. QED
  BY <1>1, <1>2, <1>4, <1>6, <1>11

LEMMA MoveShaped ==
  ASSUME NEW p, Shaped(p), NEW it \in p.items, NEW to \in Files
  PROVE  Shaped(Move(p, it, to))
<1>1. PICK e : e = [it EXCEPT !.at = to]
  OBVIOUS
<1>2. IsItem(it) /\ "at" \in Fields
  BY DEF Shaped, Fields
<1>3. IsForm(e) /\ e["at"] = to /\ \A g \in Fields \ {"at"} : e[g] = it[g]
  BY <1>1, <1>2, FormExcept DEF IsItem, IsForm
<1>4. e.kind = it.kind /\ e.name = it.name /\ e.at = to /\ e.attrs = it.attrs /\ e.id = it.id
  BY <1>3 DEF Fields
<1>5. to \in Places
  BY FilesAssumption DEF Files
<1>6. IsItem(e)
  BY <1>2, <1>3, <1>4, <1>5 DEF IsItem, IsForm
<1>7. Shaped([p EXCEPT !.items = (p.items \ {it}) \cup {e}])
  BY <1>4, <1>6, SwapShaped
<1>8. QED
  BY <1>1, <1>7 DEF Move
-----------------------------------------------------------------------------
(* Sequences without some of their elements, and derives.                     *)

\* The rounds of Without.
WithoutUpTo(s, S, g) ==
    /\ g[0] = <<>>
    /\ \A n \in Nat : g[n + 1] = IF s[n + 1] \in S THEN g[n] ELSE Append(g[n], s[n + 1])
    /\ Without(s, S) = g[Len(s)]

LEMMA WithoutRounds ==
  ASSUME NEW s, NEW S
  PROVE  \E g : WithoutUpTo(s, S, g)
<1> DEFINE E == {s[n] : n \in Nat}
           U == Seq(E)
           G == [x \in Nat \X U |-> IF s[x[1]] \in S THEN x[2] ELSE Append(x[2], s[x[1]])]
           Body(g) == [n \in Nat |-> IF n = 0 THEN <<>>
                                      ELSE IF s[n] \in S THEN g[n - 1] ELSE Append(g[n - 1], s[n])]
           upto == CHOOSE g : g = Body(g)
<1>1. G \in [Nat \X U -> U]
  <2>1. ASSUME NEW n \in Nat, NEW r \in U
        PROVE  (IF s[n] \in S THEN r ELSE Append(r, s[n])) \in U
    OBVIOUS
  <2>2. QED
    BY <2>1
<1>2. PICK empty : empty = <<>> /\ empty \in U
  <2> HIDE DEF E
  <2>1. <<>> \in U
    OBVIOUS
  <2>2. QED
    BY <2>1, Zenon
<1>3. \A n \in Nat, r \in U : G[<<n, r>>] = IF s[n] \in S THEN r ELSE Append(r, s[n])
  OBVIOUS
<1> HIDE DEF U, G
<1>4. PICK g : Recursive(U, empty, G, g)
  BY <1>1, <1>2, NatRecursion
<1>5. g = Body(g)
  <2>1. ASSUME NEW n \in Nat, n # 0
        PROVE  G[<<n, g[n - 1]>>] = IF s[n] \in S THEN g[n - 1] ELSE Append(g[n - 1], s[n])
    <3>1. g[n - 1] \in U
      BY <1>4, <2>1 DEF Recursive
    <3>2. QED
      BY <1>3, <3>1
  <2>2. QED
    BY <1>2, <1>4, <2>1 DEF Recursive
<1>6. upto = Body(upto)
  BY <1>5
<1>7. Without(s, S) = upto[Len(s)]
  BY Zenon DEF Without
<1> HIDE DEF upto
<1>8. upto[0] = <<>>
  BY <1>6
<1>9. ASSUME NEW n \in Nat
      PROVE  upto[n + 1] = IF s[n + 1] \in S THEN upto[n] ELSE Append(upto[n], s[n + 1])
  <2>1. PICK k \in Nat : k = n + 1 /\ k # 0 /\ k - 1 = n
    OBVIOUS
  <2>2. upto[k] = IF s[k] \in S THEN upto[k - 1] ELSE Append(upto[k - 1], s[k])
    BY <1>6, <2>1
  <2>3. QED
    BY <2>1, <2>2
<1>10. QED
  BY <1>7, <1>8, <1>9 DEF WithoutUpTo

\* What Without gives, for a sequence and any set.
LEMMA WithoutFacts ==
  ASSUME NEW s, IsSeq(s), NEW S
  PROVE  /\ IsSeq(Without(s, S))
         /\ ToSet(Without(s, S)) = ToSet(s) \ S
         /\ ToSet(s) \cap S = {} => Without(s, S) = s
         /\ ToSet(s) \subseteq S => Without(s, S) = <<>>
         /\ IsInjective(s) => IsInjective(Without(s, S))
<1>1. PICK g : WithoutUpTo(s, S, g)
  BY WithoutRounds
<1>2. PICK m \in Nat : m = Len(s) /\ DOMAIN s = 1..m
  BY SeqFacts
<1> DEFINE E == ToSet(s)
           Good(n) == /\ g[n] \in Seq(E)
                      /\ \A x \in ToSet(g[n]) : x \notin S /\ \E i \in 1..n : x = s[i]
                      /\ \A i \in 1..n : s[i] \notin S => s[i] \in ToSet(g[n])
                      /\ (\A i \in 1..m : s[i] \notin S) => Len(g[n]) = n /\ \A i \in 1..n : g[n][i] = s[i]
                      /\ (\A i \in 1..m : s[i] \in S) => g[n] = <<>>
                      /\ IsInjective(s) => IsInjective(g[n])
           T == {n \in Nat : n <= m => Good(n)}
<1>3. s \in Seq(E) /\ \A i \in 1..m : s[i] \in E
  BY <1>2, SeqFacts DEF IsSeq
<1>4. 0 \in T
  <2>1. g[0] = <<>>
    BY <1>1 DEF WithoutUpTo
  <2>2. ToSet(g[0]) = {} /\ g[0] \in Seq(E) /\ Len(g[0]) = 0 /\ DOMAIN g[0] = {}
    <3> HIDE DEF E
    <3>1. QED
      BY <2>1, EmptyFacts
  <2>3. IsInjective(g[0])
    BY <2>2 DEF IsInjective
  <2>4. \A i \in 1..0 : FALSE
    OBVIOUS
  <2> HIDE DEF E
  <2>6. (\A i \in 1..m : s[i] \notin S) => Len(g[0]) = 0 /\ \A i \in 1..0 : g[0][i] = s[i]
    BY <2>2, <2>4
  <2>7. \A x \in ToSet(g[0]) : x \notin S /\ \E i \in 1..0 : x = s[i]
    BY <2>2
  <2>8. Good(0)
    BY <2>1, <2>2, <2>3, <2>4, <2>6, <2>7, Zenon
  <2> HIDE DEF Good
  <2>9. QED
    BY <2>8
<1> HIDE DEF E
<1>5. ASSUME NEW n \in Nat, n \in T PROVE n + 1 \in T
  <2>1. SUFFICES ASSUME n + 1 <= m PROVE Good(n + 1)
    OBVIOUS
  <2>2. PICK k \in Nat : k = n + 1 /\ k \in 1..m
    BY <2>1
  <2>3. Good(n)
    BY <1>5, <2>1
  <2>4. g[k] = IF s[k] \in S THEN g[n] ELSE Append(g[n], s[k])
    BY <1>1, <2>2 DEF WithoutUpTo
  <2>5. s[k] \in E
    BY <1>3, <2>2
  <2>6. SUFFICES Good(k)
    BY <2>2
  <2>7. CASE s[k] \in S
    BY <2>2, <2>3, <2>4, <2>7
  <2>8. CASE s[k] \notin S
    <3>1. PICK r : r = g[n]
      OBVIOUS
    <3>2. PICK x : x = s[k]
      OBVIOUS
    <3>3. r \in Seq(E) /\ x \in E /\ g[k] = Append(r, x)
      BY <2>3, <2>4, <2>5, <2>8, <3>1, <3>2
    <3>4. /\ g[k] \in Seq(E) /\ Len(g[k]) = Len(r) + 1 /\ Len(r) \in Nat
          /\ \A i \in 1..Len(r) : g[k][i] = r[i]
          /\ g[k][Len(r) + 1] = x
          /\ DOMAIN g[k] = 1..(Len(r) + 1) /\ DOMAIN r = 1..Len(r)
      BY <3>3
    <3>5. ToSet(g[k]) = ToSet(r) \cup {x}
      BY <3>4 DEF ToSet
    <3>6. \A y \in ToSet(g[k]) : y \notin S /\ \E i \in 1..k : y = s[i]
      BY <2>2, <2>3, <2>8, <3>1, <3>2, <3>5
    <3>7. \A i \in 1..k : s[i] \notin S => s[i] \in ToSet(g[k])
      BY <2>2, <2>3, <3>1, <3>2, <3>5
    <3>8. (\A i \in 1..m : s[i] \notin S) => Len(g[k]) = k /\ \A i \in 1..k : g[k][i] = s[i]
      BY <2>2, <2>3, <3>1, <3>2, <3>4
    <3>9. ~ \A i \in 1..m : s[i] \in S
      BY <2>2, <2>8
    <3>10. ASSUME IsInjective(s) PROVE IsInjective(g[k])
      <4>1. IsInjective(r)
        BY <2>3, <3>1, <3>10
      <4>2. \A y \in ToSet(r) : y # x
        <5>1. SUFFICES ASSUME x \in ToSet(r) PROVE FALSE
          OBVIOUS
        <5>2. PICK i \in 1..n : x = s[i]
          BY <2>3, <3>1, <5>1
        <5>3. i \in DOMAIN s /\ k \in DOMAIN s /\ i # k
          BY <1>2, <2>2, <5>2
        <5>4. QED
          BY <3>2, <3>10, <5>2, <5>3 DEF IsInjective
      <4>3. \A i \in 1..Len(r) : r[i] \in ToSet(r)
        BY <3>4 DEF ToSet
      <4>4. QED
        BY <3>4, <4>1, <4>2, <4>3 DEF IsInjective
    <3>11. QED
      BY <3>4, <3>6, <3>7, <3>8, <3>9, <3>10
  <2>9. QED
    BY <2>7, <2>8
<1> HIDE DEF T
<1>6. m \in T
  BY <1>4, <1>5, Induction
<1> USE DEF T
<1>7. Good(m)
  <2> HIDE DEF Good
  <2>1. QED
    BY <1>6
<1> HIDE DEF T
<1>8. g[m] = Without(s, S)
  BY <1>1, <1>2 DEF WithoutUpTo
<1>9. \A x \in ToSet(s) : \E i \in 1..m : x = s[i]
  BY <1>2, SeqFacts
<1>10. IsSeq(g[m])
  BY <1>7, IsSeqOf
<1>11. ToSet(g[m]) = ToSet(s) \ S
  <2>1. ToSet(g[m]) \subseteq ToSet(s) \ S
    BY <1>3, <1>7 DEF E
  <2>2. ToSet(s) \ S \subseteq ToSet(g[m])
    BY <1>7, <1>9
  <2>3. QED
    BY <2>1, <2>2
<1>12. ToSet(s) \cap S = {} => g[m] = s
  <2>1. SUFFICES ASSUME ToSet(s) \cap S = {} PROVE g[m] = s
    OBVIOUS
  <2>2. \A i \in 1..m : s[i] \notin S
    BY <1>3, <2>1 DEF E
  <2>3. g[m] \in Seq(E) /\ Len(g[m]) = m /\ \A i \in 1..m : g[m][i] = s[i]
    BY <1>7, <2>2
  <2>4. QED
    BY <1>2, <1>3, <2>3
<1>13. ToSet(s) \subseteq S => g[m] = <<>>
  BY <1>3, <1>7 DEF E
<1>14. QED
  BY <1>7, <1>8, <1>10, <1>11, <1>12, <1>13

IsAttrs(ls) == IsSeq(ls) /\ \A i \in DOMAIN ls : IsSeq(ls[i])

\* A list of attributes with the first one replaced, and without the first.
LEMMA FirstReplaced ==
  ASSUME NEW ls, IsAttrs(ls), ls # <<>>, NEW x, IsSeq(x)
  PROVE  LET b == [ls EXCEPT ![1] = x]
         IN  /\ IsAttrs(b) /\ DOMAIN b = DOMAIN ls /\ Len(b) = Len(ls)
             /\ 1 \in DOMAIN ls /\ b[1] = x /\ \A i \in DOMAIN ls \ {1} : b[i] = ls[i]
             /\ [ls EXCEPT ![1] = ls[1]] = ls
             /\ [b EXCEPT ![1] = ls[1]] = ls
<1>1. PICK S : ls \in Seq(S)
  BY SeqFacts DEF IsAttrs
<1>2. Len(ls) \in Nat /\ DOMAIN ls = 1..Len(ls) /\ Len(ls) # 0
  BY <1>1, EmptySeq
<1>3. 1 \in DOMAIN ls
  BY <1>2
<1>4. PICK b : b = [ls EXCEPT ![1] = x]
  OBVIOUS
<1>5. DOMAIN b = DOMAIN ls /\ b[1] = x /\ \A i \in DOMAIN ls \ {1} : b[i] = ls[i]
  BY <1>3, <1>4
<1>6. b \in Seq(S \cup {x}) /\ Len(b) = Len(ls)
  BY <1>1, <1>4
<1>7. IsAttrs(b)
  BY <1>5, <1>6, IsSeqOf DEF IsAttrs
<1>8. ls = [i \in DOMAIN ls |-> ls[i]]
  BY SeqFacts DEF IsAttrs
<1>9. [ls EXCEPT ![1] = ls[1]] = ls
  BY <1>8
<1>10. [b EXCEPT ![1] = ls[1]] = ls
  BY <1>3, <1>4, <1>8
<1>11. QED
  BY <1>3, <1>4, <1>5, <1>6, <1>7, <1>9, <1>10

LEMMA FirstDropped ==
  ASSUME NEW ls, IsAttrs(ls), ls # <<>>
  PROVE  /\ IsAttrs(Tail(ls))
         /\ \A i \in DOMAIN Tail(ls) : i + 1 \in DOMAIN ls /\ Tail(ls)[i] = ls[i + 1]
         /\ DOMAIN Tail(ls) \subseteq Nat
<1>1. PICK S : ls \in Seq(S)
  BY SeqFacts DEF IsAttrs
<1>2. Len(ls) \in Nat /\ DOMAIN ls = 1..Len(ls) /\ Len(ls) # 0
  BY <1>1, EmptySeq
<1>3. PICK b : b = Tail(ls)
  OBVIOUS
<1>4. /\ b \in Seq(S) /\ DOMAIN b = 1..(Len(ls) - 1)
      /\ \A i \in 1..(Len(ls) - 1) : b[i] = ls[i + 1]
  BY <1>1, <1>2, <1>3
<1>5. \A i \in DOMAIN b : i \in Nat /\ i + 1 \in DOMAIN ls /\ b[i] = ls[i + 1]
  BY <1>2, <1>4
<1>6. IsAttrs(b)
  BY <1>4, <1>5, IsSeqOf DEF IsAttrs
<1>7. QED
  BY <1>3, <1>5, <1>6

LEMMA Joined ==
  ASSUME NEW s, IsSeq(s), NEW r, IsSeq(r)
  PROVE  /\ IsSeq(s \o r) /\ ToSet(s \o r) = ToSet(s) \cup ToSet(r)
         /\ s # <<>> => s \o r # <<>>
         /\ r # <<>> => s \o r # <<>>
         /\ IsInjective(s) /\ IsInjective(r) /\ ToSet(s) \cap ToSet(r) = {} => IsInjective(s \o r)
<1>1. PICK S, R : s \in Seq(S) /\ r \in Seq(R)
  <2>1. \E S : s \in Seq(S)
    BY SeqFacts
  <2>2. \E R : r \in Seq(R)
    BY SeqFacts
  <2>3. QED
    BY <2>1, <2>2
<1>2. s \in Seq(S \cup R) /\ r \in Seq(S \cup R)
  BY <1>1
<1>3. PICK q : q = s \o r
  OBVIOUS
<1>4. PICK m, k \in Nat : m = Len(s) /\ k = Len(r)
  BY <1>1
<1>5. /\ q \in Seq(S \cup R) /\ Len(q) = m + k /\ DOMAIN q = 1..(m + k)
      /\ DOMAIN s = 1..m /\ DOMAIN r = 1..k
      /\ \A i \in 1..m : q[i] = s[i]
      /\ \A i \in (m + 1)..(m + k) : q[i] = r[i - m]
  BY <1>2, <1>3, <1>4
<1>6. \A i \in 1..k : q[i + m] = r[i] /\ i + m \in 1..(m + k)
  <2>1. ASSUME NEW i \in 1..k PROVE q[i + m] = r[i] /\ i + m \in 1..(m + k)
    <3>1. PICK j : j = i + m /\ j \in (m + 1)..(m + k) /\ j - m = i
      BY <1>4
    <3>2. QED
      BY <1>5, <3>1
  <2>2. QED
    BY <2>1
<1>7. IsSeq(q)
  BY <1>5, IsSeqOf
<1>8. ToSet(q) = ToSet(s) \cup ToSet(r)
  <2>1. \A x \in ToSet(q) : x \in ToSet(s) \cup ToSet(r)
    <3>1. SUFFICES ASSUME NEW i \in 1..(m + k) PROVE q[i] \in ToSet(s) \cup ToSet(r)
      BY <1>5 DEF ToSet
    <3>2. CASE i <= m
      BY <1>4, <1>5, <3>2 DEF ToSet
    <3>3. CASE ~(i <= m)
      <4>1. i - m \in 1..k /\ q[i] = r[i - m]
        BY <1>4, <1>5, <3>3
      <4>2. QED
        BY <1>5, <4>1 DEF ToSet
    <3>4. QED
      BY <3>2, <3>3
  <2>2. \A x \in ToSet(s) : x \in ToSet(q)
    BY <1>4, <1>5 DEF ToSet
  <2>3. \A x \in ToSet(r) : x \in ToSet(q)
    <3>1. SUFFICES ASSUME NEW i \in 1..k PROVE r[i] \in ToSet(q)
      BY <1>5 DEF ToSet
    <3>2. PICK j : j = i + m
      OBVIOUS
    <3>3. j \in DOMAIN q /\ q[j] = r[i]
      BY <1>5, <1>6, <3>2
    <3>4. QED
      BY <3>3 DEF ToSet
  <2>4. QED
    BY <2>1, <2>2, <2>3
<1>9. s # <<>> => q # <<>>
  BY <1>1, <1>4, <1>5
<1>10. r # <<>> => q # <<>>
  BY <1>1, <1>4, <1>5
<1>11. ASSUME IsInjective(s), IsInjective(r), ToSet(s) \cap ToSet(r) = {} PROVE IsInjective(q)
  <2>1. SUFFICES ASSUME NEW i \in 1..(m + k), NEW j \in 1..(m + k), q[i] = q[j] PROVE i = j
    BY <1>5 DEF IsInjective
  <2>2. ASSUME NEW x \in 1..(m + k)
        PROVE  \/ x \in DOMAIN s /\ q[x] = s[x] /\ q[x] \in ToSet(s)
               \/ x - m \in DOMAIN r /\ q[x] = r[x - m] /\ q[x] \in ToSet(r)
    <3>1. CASE x <= m
      BY <1>4, <1>5, <3>1 DEF ToSet
    <3>2. CASE ~(x <= m)
      <4>1. x - m \in 1..k /\ q[x] = r[x - m]
        BY <1>4, <1>5, <3>2
      <4>2. QED
        BY <1>5, <4>1 DEF ToSet
    <3>3. QED
      BY <3>1, <3>2
  <2>3. CASE i \in DOMAIN s /\ q[i] = s[i] /\ q[i] \in ToSet(s)
    <3>1. j \in DOMAIN s /\ q[j] = s[j]
      BY <1>11, <2>1, <2>2, <2>3
    <3>2. QED
      BY <1>11, <2>1, <2>3, <3>1 DEF IsInjective
  <2>4. CASE i - m \in DOMAIN r /\ q[i] = r[i - m] /\ q[i] \in ToSet(r)
    <3>1. j - m \in DOMAIN r /\ q[j] = r[j - m]
      BY <1>11, <2>1, <2>2, <2>4
    <3>2. i - m = j - m
      BY <1>11, <2>1, <2>4, <3>1 DEF IsInjective
    <3>3. QED
      BY <1>4, <3>2
  <2>5. QED
    BY <2>2, <2>3, <2>4
<1>12. QED
  BY <1>3, <1>7, <1>8, <1>9, <1>10, <1>11

\* Taking away what was joined on, when nothing else is of it.
LEMMA WithoutJoined ==
  ASSUME NEW s, IsSeq(s), NEW r, IsSeq(r), ToSet(r) \cap ToSet(s) = {}
  PROVE  Without(s \o r, ToSet(r)) = s
<1>1. PICK q : q = s \o r
  OBVIOUS
<1>2. PICK g : WithoutUpTo(q, ToSet(r), g)
  BY WithoutRounds
<1>3. PICK S, R : s \in Seq(S) /\ r \in Seq(R)
  <2>1. \E S : s \in Seq(S)
    BY SeqFacts
  <2>2. \E R : r \in Seq(R)
    BY SeqFacts
  <2>3. QED
    BY <2>1, <2>2
<1>4. PICK m, k \in Nat : m = Len(s) /\ k = Len(r)
  BY <1>3
<1>5. /\ Len(q) = m + k
      /\ \A i \in 1..m : q[i] = s[i] /\ s[i] \in ToSet(s)
      /\ \A i \in (m + 1)..(m + k) : q[i] \in ToSet(r)
  <2>1. s \in Seq(S \cup R) /\ r \in Seq(S \cup R) /\ DOMAIN s = 1..m /\ DOMAIN r = 1..k
    BY <1>3, <1>4
  <2>2. /\ Len(q) = m + k
        /\ \A i \in 1..m : q[i] = s[i]
        /\ \A i \in (m + 1)..(m + k) : q[i] = r[i - m] /\ i - m \in 1..k
    BY <1>1, <1>4, <2>1
  <2>3. QED
    BY <2>1, <2>2 DEF ToSet
<1> DEFINE Good(n) == /\ n <= m => g[n] \in Seq(S) /\ Len(g[n]) = n /\ \A i \in 1..n : g[n][i] = s[i]
                      /\ m <= n => g[n] = s
           T == {n \in Nat : n <= m + k => Good(n)}
<1>6. ASSUME NEW n \in Nat, n = m, g[n] \in Seq(S), Len(g[n]) = n, \A i \in 1..n : g[n][i] = s[i]
      PROVE  g[n] = s
  BY <1>3, <1>4, <1>6
<1>7. 0 \in T
  <2>1. g[0] = <<>>
    BY <1>2 DEF WithoutUpTo
  <2>2. PICK e : e = g[0]
    OBVIOUS
  <2>3. e \in Seq(S) /\ Len(e) = 0 /\ \A i \in 1..0 : e[i] = s[i]
    BY <2>1, <2>2, EmptySeq
  <2>4. m <= 0 => m = 0
    BY <1>4
  <2>5. m <= 0 => g[0] = s
    BY <1>6, <2>2, <2>3, <2>4
  <2>6. Good(0)
    BY <2>2, <2>3, <2>5
  <2> HIDE DEF Good
  <2>7. QED
    BY <2>6
<1>8. ASSUME NEW n \in Nat, n \in T PROVE n + 1 \in T
  <2>1. SUFFICES ASSUME n + 1 <= m + k PROVE Good(n + 1)
    OBVIOUS
  <2>2. Good(n)
    BY <1>4, <1>8, <2>1
  <2>3. PICK j \in Nat : j = n + 1 /\ j \in 1..(m + k)
    BY <1>4, <2>1
  <2>4. g[j] = IF q[j] \in ToSet(r) THEN g[n] ELSE Append(g[n], q[j])
    BY <1>2, <2>3 DEF WithoutUpTo
  <2>5. SUFFICES Good(j)
    BY <2>3
  <2>6. CASE j <= m
    <3>1. q[j] = s[j] /\ s[j] \in ToSet(s) /\ s[j] \in S
      BY <1>3, <1>4, <1>5, <2>3, <2>6
    <3>2. PICK h, x : h = g[n] /\ x = s[j]
      OBVIOUS
    <3>3. g[j] = Append(h, x) /\ h \in Seq(S) /\ x \in S /\ Len(h) = n /\ \A i \in 1..n : h[i] = s[i]
      BY <1>4, <2>2, <2>3, <2>4, <2>6, <3>1, <3>2
    <3>4. g[j] \in Seq(S) /\ Len(g[j]) = j /\ \A i \in 1..n : g[j][i] = h[i]
      BY <2>3, <3>3
    <3>5. g[j][j] = x
      BY <2>3, <3>3
    <3>6. \A i \in 1..j : g[j][i] = s[i]
      BY <2>3, <3>2, <3>3, <3>4, <3>5
    <3>7. m <= j => g[j] = s
      BY <1>4, <1>6, <2>6, <3>4, <3>6
    <3>8. QED
      BY <3>4, <3>6, <3>7
  <2>7. CASE ~(j <= m)
    <3>1. q[j] \in ToSet(r) /\ m <= n
      BY <1>4, <1>5, <2>3, <2>7
    <3>2. g[j] = s
      BY <2>2, <2>4, <3>1
    <3>3. QED
      BY <2>7, <3>2
  <2>8. QED
    BY <2>6, <2>7
<1> HIDE DEF T, Good
<1>9. Nat \subseteq T
  BY <1>7, <1>8, Induction
<1>10. m + k \in T /\ m <= m + k
  BY <1>4, <1>9
<1> USE DEF T, Good
<1>11. g[m + k] = s
  <2>1. PICK n \in Nat : n = m + k
    BY <1>4
  <2>2. QED
    BY <1>10, <2>1
<1>12. Without(q, ToSet(r)) = g[m + k]
  BY <1>2, <1>5 DEF WithoutUpTo
<1>13. QED
  BY <1>1, <1>11, <1>12

\* The attributes l that adding the derives ds makes of k, or removing them.
Added(k, ds, l) ==
    \/ ds = <<>> /\ l = k
    \/ ds # <<>> /\ k = <<>> /\ l = <<ds>>
    \/ ds # <<>> /\ k # <<>> /\ l = [k EXCEPT ![1] = k[1] \o Without(ds, ToSet(k[1]))]
Removed(k, ds, l) ==
    \/ (k = <<>> \/ ToSet(k[1]) \cap ToSet(ds) = {}) /\ l = k
    \/ k # <<>> /\ Without(k[1], ToSet(ds)) # <<>> /\ l = [k EXCEPT ![1] = Without(k[1], ToSet(ds))]
    \/ k # <<>> /\ l = Tail(k)

LEMMA SingletonAttrs ==
  ASSUME NEW ds, IsSeq(ds)
  PROVE  /\ IsAttrs(<<ds>>) /\ <<ds>> # <<>> /\ <<ds>>[1] = ds /\ DOMAIN <<ds>> = {1}
         /\ Tail(<<ds>>) = <<>>
<1>1. PICK l : l = <<ds>>
  OBVIOUS
<1>2. l \in Seq({ds}) /\ Len(l) = 1 /\ l[1] = ds
  BY <1>1
<1>3. DOMAIN l = 1..1
  BY <1>2
<1>4. IsAttrs(l)
  BY <1>2, <1>3, IsSeqOf DEF IsAttrs
<1>5. l # <<>>
  BY <1>2, EmptyFacts
<1>6. Tail(l) = <<>>
  <2>1. Tail(l) \in Seq({ds}) /\ Len(Tail(l)) = 0
    BY <1>2, <1>5
  <2>2. QED
    BY <2>1, EmptySeq
<1>7. 1..1 = {1}
  OBVIOUS
<1>8. QED
  BY <1>1, <1>2, <1>3, <1>4, <1>5, <1>6, <1>7

LEMMA AddForm ==
  ASSUME NEW it, IsItem(it), NEW ds, IsSeq(ds)
  PROVE  \E l : AddDerives(it, ds) = [it EXCEPT !.attrs = l] /\ IsAttrs(l) /\ Added(it.attrs, ds, l)
<1>1. PICK k : k = it.attrs
  OBVIOUS
<1>2. IsAttrs(k) /\ IsForm(it)
  BY <1>1 DEF IsItem, IsAttrs, IsForm
<1>3. CASE ds = <<>>
  <2>1. AddDerives(it, ds) = it
    BY <1>3 DEF AddDerives
  <2>2. [it EXCEPT !.attrs = k] = it
    BY <1>1, <1>2 DEF IsForm
  <2>3. Added(k, ds, k)
    BY <1>3 DEF Added
  <2>4. QED
    BY <1>1, <1>2, <2>1, <2>2, <2>3
<1>4. CASE ds # <<>> /\ k = <<>>
  <2>1. PICK l : l = <<ds>>
    OBVIOUS
  <2>2. AddDerives(it, ds) = [it EXCEPT !.attrs = l]
    BY <1>1, <1>4, <2>1, Zenon DEF AddDerives
  <2>3. IsAttrs(l) /\ Added(k, ds, l)
    BY <1>4, <2>1, SingletonAttrs DEF Added
  <2>4. QED
    BY <1>1, <2>2, <2>3
<1>5. CASE ds # <<>> /\ k # <<>>
  <2>1. PICK x : x = k[1] \o Without(ds, ToSet(k[1]))
    OBVIOUS
  <2>2. PICK l : l = [k EXCEPT ![1] = x]
    OBVIOUS
  <2>3. AddDerives(it, ds) = [it EXCEPT !.attrs = l]
    <3>1. AddDerives(it, ds) = [it EXCEPT !.attrs[1] = k[1] \o Without(ds, ToSet(k[1]))]
      BY <1>1, <1>5 DEF AddDerives, Listed
    <3>2. AddDerives(it, ds) = [it EXCEPT !.attrs = [it.attrs EXCEPT ![1] = x]]
      BY <2>1, <3>1
    <3>3. QED
      BY <1>1, <2>2, <3>2
  <2>4. IsSeq(x)
    <3>1. IsSeq(k[1])
      <4>1. 1 \in DOMAIN k
        BY <1>2, <1>5, FirstReplaced
      <4>2. QED
        BY <1>2, <4>1 DEF IsAttrs
    <3>2. QED
      BY <2>1, <3>1, WithoutFacts, Joined
  <2>5. IsAttrs(l)
    BY <1>2, <1>5, <2>2, <2>4, FirstReplaced
  <2>6. Added(k, ds, l)
    BY <1>5, <2>1, <2>2 DEF Added
  <2>7. QED
    BY <1>1, <2>3, <2>5, <2>6
<1>6. QED
  BY <1>3, <1>4, <1>5

LEMMA RemoveForm ==
  ASSUME NEW it, IsItem(it), NEW ds, IsSeq(ds), NEW r \in RemoveDerives(it, ds)
  PROVE  \E l : r = [it EXCEPT !.attrs = l] /\ IsAttrs(l) /\ Removed(it.attrs, ds, l)
<1>1. PICK k : k = it.attrs
  OBVIOUS
<1>2. IsAttrs(k) /\ IsForm(it)
  BY <1>1 DEF IsItem, IsAttrs, IsForm
<1>3. [it EXCEPT !.attrs = k] = it
  BY <1>1, <1>2 DEF IsForm
<1>4. CASE k = <<>> \/ ToSet(k[1]) \cap ToSet(ds) = {}
  <2>1. r = it
    BY <1>1, <1>4 DEF RemoveDerives, Listed
  <2>2. Removed(k, ds, k)
    BY <1>4 DEF Removed
  <2>3. QED
    BY <1>1, <1>2, <1>3, <2>1, <2>2
<1>5. CASE k # <<>> /\ ToSet(k[1]) \cap ToSet(ds) # {} /\ Without(k[1], ToSet(ds)) # <<>>
  <2>1. PICK x : x = Without(k[1], ToSet(ds))
    OBVIOUS
  <2>2. PICK l : l = [k EXCEPT ![1] = x]
    OBVIOUS
  <2>3. r = [it EXCEPT !.attrs[1] = x]
    BY <1>1, <1>5, <2>1 DEF RemoveDerives, Listed
  <2>4. r = [it EXCEPT !.attrs = l]
    BY <1>1, <2>2, <2>3
  <2>5. IsSeq(x)
    <3>1. 1 \in DOMAIN k
      BY <1>2, <1>5, FirstReplaced, EmptyFacts
    <3>2. IsSeq(k[1])
      BY <1>2, <3>1 DEF IsAttrs
    <3>3. QED
      BY <2>1, <3>2, WithoutFacts
  <2>6. IsAttrs(l)
    BY <1>2, <1>5, <2>2, <2>5, FirstReplaced
  <2>7. Removed(k, ds, l)
    BY <1>5, <2>1, <2>2 DEF Removed
  <2>8. QED
    BY <1>1, <2>4, <2>6, <2>7
<1>6. CASE k # <<>> /\ ToSet(k[1]) \cap ToSet(ds) # {} /\ Without(k[1], ToSet(ds)) = <<>>
  <2>1. r \in WithoutAttribute(it)
    BY <1>1, <1>6 DEF RemoveDerives, Listed
  <2>2. r = [it EXCEPT !.attrs = Tail(k)]
    BY <1>1, <2>1 DEF WithoutAttribute
  <2>3. IsAttrs(Tail(k))
    BY <1>2, <1>6, FirstDropped
  <2>4. Removed(k, ds, Tail(k))
    BY <1>6 DEF Removed
  <2>5. QED
    BY <1>1, <2>2, <2>3, <2>4
<1>7. QED
  BY <1>4, <1>5, <1>6

\* An item whose attributes are replaced.
LEMMA AttrsReplaced ==
  ASSUME NEW it, IsItem(it), NEW l, IsAttrs(l)
  PROVE  LET a == [it EXCEPT !.attrs = l]
         IN  /\ IsItem(a) /\ a.attrs = l
             /\ \A g \in Fields \ {"attrs"} : a[g] = it[g]
<1>1. PICK a : a = [it EXCEPT !.attrs = l]
  OBVIOUS
<1>2. "attrs" \in Fields /\ IsForm(it)
  BY DEF Fields, IsItem, IsForm
<1>3. IsForm(a) /\ a["attrs"] = l /\ \A g \in Fields \ {"attrs"} : a[g] = it[g]
  BY <1>1, <1>2 DEF IsForm
<1>4. a.name = it.name /\ a.kind = it.kind /\ a.at = it.at /\ a.id = it.id
  BY <1>3 DEF Fields
<1>5. IsItem(a)
  BY <1>3, <1>4 DEF IsItem, IsForm, IsAttrs
<1>6. QED
  BY <1>1, <1>3, <1>5

InAttrs(l) == UNION {ToSet(ds) : ds \in ToSet(l)}
Apart(l) ==
    \A i, j \in DOMAIN l : IsInjective(l[i]) /\ (i # j => ToSet(l[i]) \cap ToSet(l[j]) = {})

\* What is added comes apart from what stood there.
LEMMA AddedApart ==
  ASSUME NEW k, IsAttrs(k), NEW ds, IsSeq(ds), NEW l, Added(k, ds, l),
         Len(k) < 2, Apart(k), IsInjective(ds)
  PROVE  Apart(l)
<1>1. CASE ds = <<>> /\ l = k
  BY <1>1
<1>2. CASE l = <<ds>>
  <2>1. DOMAIN l = {1} /\ l[1] = ds
    BY <1>2, SingletonAttrs
  <2>2. QED
    BY <2>1 DEF Apart
<1>3. CASE k # <<>> /\ l = [k EXCEPT ![1] = k[1] \o Without(ds, ToSet(k[1]))]
  <2>1. PICK x, y : x = k[1] /\ y = Without(ds, ToSet(x))
    OBVIOUS
  <2>2. 1 \in DOMAIN k /\ DOMAIN k = {1}
    <3>1. 1 \in DOMAIN k
      BY <1>3, FirstReplaced, EmptyFacts
    <3>2. DOMAIN k = 1..Len(k) /\ Len(k) \in Nat
      BY SeqFacts DEF IsAttrs
    <3>3. QED
      BY <3>1, <3>2
  <2>3. IsSeq(x) /\ IsInjective(x)
    BY <2>1, <2>2 DEF Apart, IsAttrs
  <2>4. IsSeq(y) /\ IsInjective(y) /\ ToSet(y) = ToSet(ds) \ ToSet(x)
    BY <2>1, WithoutFacts
  <2>5. IsSeq(x \o y) /\ IsInjective(x \o y)
    BY <2>3, <2>4, Joined
  <2>6. l = [k EXCEPT ![1] = x \o y]
    BY <1>3, <2>1
  <2>7. DOMAIN l = {1} /\ l[1] = x \o y
    BY <2>2, <2>6
  <2>8. QED
    BY <2>5, <2>7 DEF Apart
<1>4. QED
  BY <1>1, <1>2, <1>3 DEF Added

\* What is taken away leaves the rest apart, and no attribute empty.
LEMMA RemovedApart ==
  ASSUME NEW k, IsAttrs(k), NEW ds, IsSeq(ds), NEW l, Removed(k, ds, l), <<>> \notin ToSet(k)
  PROVE  <<>> \notin ToSet(l) /\ (Apart(k) => Apart(l))
<1>1. CASE l = k
  BY <1>1
<1>2. CASE /\ k # <<>> /\ Without(k[1], ToSet(ds)) # <<>>
           /\ l = [k EXCEPT ![1] = Without(k[1], ToSet(ds))]
  <2>1. PICK x : x = Without(k[1], ToSet(ds))
    OBVIOUS
  <2>2. 1 \in DOMAIN k
    BY <1>2, FirstReplaced, EmptyFacts
  <2>3. IsSeq(k[1])
    BY <2>2 DEF IsAttrs
  <2>4. ToSet(x) \subseteq ToSet(k[1]) /\ (IsInjective(k[1]) => IsInjective(x))
    BY <2>1, <2>3, WithoutFacts
  <2>5. DOMAIN l = DOMAIN k /\ l[1] = x /\ \A i \in DOMAIN k \ {1} : l[i] = k[i]
    BY <1>2, <2>1, <2>2
  <2>6. \A i \in DOMAIN l : l[i] # <<>>
    <3>1. \A i \in DOMAIN k : k[i] # <<>>
      BY DEF ToSet
    <3>2. QED
      BY <1>2, <2>1, <2>5, <3>1
  <2>7. <<>> \notin ToSet(l)
    BY <2>6 DEF ToSet
  <2>8. ASSUME Apart(k) PROVE Apart(l)
    <3>1. \A i \in DOMAIN k : ToSet(l[i]) \subseteq ToSet(k[i]) /\ IsInjective(l[i])
      BY <2>2, <2>4, <2>5, <2>8 DEF Apart
    <3>2. \A i, j \in DOMAIN k : i # j => ToSet(k[i]) \cap ToSet(k[j]) = {}
      BY <2>8 DEF Apart
    <3>3. \A i, j \in DOMAIN k : i # j => ToSet(l[i]) \cap ToSet(l[j]) = {}
      BY <3>1, <3>2
    <3>4. QED
      BY <2>5, <3>1, <3>3 DEF Apart
  <2>9. QED
    BY <2>7, <2>8
<1>3. CASE k # <<>> /\ l = Tail(k)
  <2>1. \A i \in DOMAIN l : i \in Nat /\ i + 1 \in DOMAIN k /\ l[i] = k[i + 1]
    BY <1>3, FirstDropped
  <2>2. <<>> \notin ToSet(l)
    <3>1. \A x \in ToSet(l) : x \in ToSet(k)
      BY <2>1 DEF ToSet
    <3>2. QED
      BY <3>1
  <2>3. ASSUME Apart(k) PROVE Apart(l)
    <3>1. SUFFICES ASSUME NEW i \in DOMAIN l, NEW j \in DOMAIN l
                   PROVE  IsInjective(l[i]) /\ (i # j => ToSet(l[i]) \cap ToSet(l[j]) = {})
      BY DEF Apart
    <3>2. PICK a, b \in DOMAIN k : l[i] = k[a] /\ l[j] = k[b] /\ (i # j => a # b)
      BY <2>1
    <3>3. QED
      BY <2>3, <3>2 DEF Apart
  <2>4. QED
    BY <2>2, <2>3
<1>4. QED
  BY <1>1, <1>2, <1>3 DEF Removed

\* Adding derives that are not there and removing them again.
LEMMA AddThenRemove ==
  ASSUME NEW it, IsItem(it), NEW ds, IsSeq(ds), ~it.oneLine, <<>> \notin ToSet(it.attrs),
         ToSet(ds) \cap InAttrs(it.attrs) = {}
  PROVE  RemoveDerives(AddDerives(it, ds), ds) = {it}
<1>1. PICK k : k = it.attrs
  OBVIOUS
<1>2. IsAttrs(k) /\ IsForm(it)
  BY <1>1 DEF IsItem, IsAttrs, IsForm
<1>3. [it EXCEPT !.attrs = k] = it
  BY <1>1, <1>2 DEF IsForm
<1>4. PICK a, l : a = AddDerives(it, ds) /\ a = [it EXCEPT !.attrs = l] /\ IsAttrs(l) /\ Added(k, ds, l)
  BY <1>1, AddForm
<1>5. a.attrs = l /\ IsItem(a) /\ \A g \in Fields \ {"attrs"} : a[g] = it[g]
  BY <1>4, AttrsReplaced
<1>6. a.oneLine = it.oneLine
  BY <1>5 DEF Fields
<1>7. [a EXCEPT !.attrs = k] = it
  BY <1>1, <1>2, <1>4 DEF IsForm
<1>8. CASE ds = <<>> /\ l = k
  <2>1. a = it
    BY <1>3, <1>4, <1>8
  <2>2. ToSet(ds) = {}
    BY <1>8, EmptyFacts
  <2>3. RemoveDerives(it, ds) = {it}
    BY <2>2 DEF RemoveDerives, Listed
  <2>4. QED
    BY <1>4, <2>1, <2>3
<1>9. ASSUME ds # <<>> PROVE ToSet(ds) # {}
  <2>1. \E S : ds \in Seq(S)
    BY SeqFacts
  <2>2. Len(ds) \in Nat /\ Len(ds) # 0 /\ DOMAIN ds = 1..Len(ds)
    BY <1>9, <2>1, EmptySeq
  <2>3. 1 \in DOMAIN ds
    BY <2>2
  <2>4. ds[1] \in ToSet(ds)
    BY <2>3 DEF ToSet
  <2>5. QED
    BY <2>4
<1>10. CASE ds # <<>> /\ k = <<>> /\ l = <<ds>>
  <2>1. l # <<>> /\ l[1] = ds /\ Tail(l) = <<>>
    BY <1>10, SingletonAttrs
  <2>2. Without(ds, ToSet(ds)) = <<>>
    BY WithoutFacts
  <2>3. RemoveDerives(a, ds) = WithoutAttribute(a)
    BY <1>5, <1>9, <1>10, <2>1, <2>2 DEF RemoveDerives, Listed
  <2>4. WithoutAttribute(a) = {[a EXCEPT !.attrs = Tail(l)]}
    BY <1>5, <1>6 DEF WithoutAttribute
  <2>5. QED
    BY <1>4, <1>7, <1>10, <2>1, <2>3, <2>4
<1>11. CASE ds # <<>> /\ k # <<>> /\ l = [k EXCEPT ![1] = k[1] \o Without(ds, ToSet(k[1]))]
  <2>1. PICK x : x = k[1]
    OBVIOUS
  <2>2. 1 \in DOMAIN k
    BY <1>2, <1>11, FirstReplaced, EmptyFacts
  <2>3. IsSeq(x) /\ x # <<>> /\ ToSet(x) \subseteq InAttrs(k)
    <3>1. x \in ToSet(k)
      BY <2>1, <2>2 DEF ToSet
    <3>2. QED
      BY <1>1, <1>2, <2>1, <2>2, <3>1 DEF IsAttrs, InAttrs
  <2>4. ToSet(ds) \cap ToSet(x) = {}
    BY <1>1, <2>3
  <2>5. Without(ds, ToSet(x)) = ds
    BY <2>4, WithoutFacts
  <2>6. PICK y : y = x \o ds
    OBVIOUS
  <2>7. l = [k EXCEPT ![1] = y]
    BY <1>11, <2>1, <2>5, <2>6
  <2>8. IsSeq(y) /\ ToSet(y) = ToSet(x) \cup ToSet(ds)
    BY <2>3, <2>6, Joined
  <2>9. Without(y, ToSet(ds)) = x
    BY <2>3, <2>4, <2>6, WithoutJoined
  <2>10. l[1] = y /\ l # <<>> /\ [l EXCEPT ![1] = x] = k
    <3>1. l[1] = y /\ 1 \in DOMAIN l
      BY <2>2, <2>7
    <3>2. l # <<>>
      BY <3>1, EmptyFacts
    <3>3. [l EXCEPT ![1] = x] = k
      BY <1>2, <1>11, <2>1, <2>7, <2>8, FirstReplaced
    <3>4. QED
      BY <3>1, <3>2, <3>3
  <2>11. Listed(a) = ToSet(y) /\ Listed(a) \cap ToSet(ds) # {}
    BY <1>5, <1>9, <1>11, <2>8, <2>10 DEF Listed
  <2>12. RemoveDerives(a, ds) = {[a EXCEPT !.attrs[1] = x]}
    BY <1>5, <2>3, <2>9, <2>10, <2>11 DEF RemoveDerives
  <2>13. [a EXCEPT !.attrs[1] = x] = [a EXCEPT !.attrs = k]
    BY <1>5, <2>10
  <2>14. QED
    BY <1>4, <1>7, <2>12, <2>13
<1>12. QED
  BY <1>4, <1>8, <1>10, <1>11 DEF Added

LEMMA DerivesCancelOf ==
  ASSUME NEW it, IsItem(it), NEW ds, IsSeq(ds), ~it.oneLine, <<>> \notin ToSet(it.attrs)
  PROVE  /\ ToSet(ds) \cap Derived(it) = {} => RemoveDerives(AddDerives(it, ds), ds) = {it}
         /\ Len(it.attrs) < 2 /\ NoneTwice(it) /\ IsInjective(ds) => NoneTwice(AddDerives(it, ds))
         /\ \A r \in RemoveDerives(it, ds) : <<>> \notin ToSet(r.attrs) /\ (NoneTwice(it) => NoneTwice(r))
<1>1. Derived(it) = InAttrs(it.attrs)
  BY DEF Derived, InAttrs
<1>2. \A x : NoneTwice(x) <=> Apart(x.attrs)
  BY DEF NoneTwice, Apart
<1>3. ToSet(ds) \cap Derived(it) = {} => RemoveDerives(AddDerives(it, ds), ds) = {it}
  BY <1>1, AddThenRemove
<1>4. ASSUME Len(it.attrs) < 2, NoneTwice(it), IsInjective(ds) PROVE NoneTwice(AddDerives(it, ds))
  <2>1. PICK l : AddDerives(it, ds) = [it EXCEPT !.attrs = l] /\ IsAttrs(l) /\ Added(it.attrs, ds, l)
    BY AddForm
  <2>2. PICK a : a = AddDerives(it, ds)
    OBVIOUS
  <2>3. a.attrs = l
    BY <2>1, <2>2, AttrsReplaced
  <2>4. IsAttrs(it.attrs)
    BY DEF IsItem, IsAttrs
  <2>5. Apart(l)
    BY <1>2, <1>4, <2>1, <2>4, AddedApart
  <2>6. QED
    BY <1>2, <2>2, <2>3, <2>5
<1>5. ASSUME NEW r \in RemoveDerives(it, ds)
      PROVE  <<>> \notin ToSet(r.attrs) /\ (NoneTwice(it) => NoneTwice(r))
  <2>1. PICK l : r = [it EXCEPT !.attrs = l] /\ IsAttrs(l) /\ Removed(it.attrs, ds, l)
    BY RemoveForm
  <2>2. r.attrs = l
    BY <2>1, AttrsReplaced
  <2>3. IsAttrs(it.attrs)
    BY DEF IsItem, IsAttrs
  <2>4. <<>> \notin ToSet(l) /\ (Apart(it.attrs) => Apart(l))
    BY <2>1, <2>3, RemovedApart
  <2>5. QED
    BY <1>2, <2>2, <2>4
<1>6. QED
  BY <1>3, <1>4, <1>5

-----------------------------------------------------------------------------
(* Every state of a plan has the shape of a program.                          *)

\* Items that stand for those of S, each for one of them.
Replace(N, S) ==
    /\ \A i \in N : IsItem(i) /\ \E it \in S : i.id = it.id
    /\ \A i, j \in N : i.id = j.id => i = j

\* Structs are exchanged, each for one like it or none.
LEMMA StructsShaped ==
  ASSUME NEW p, Shaped(p), NEW S, S \subseteq p.items, NEW N, Replace(N, S)
  PROVE  Shaped([p EXCEPT !.items = (p.items \ S) \cup N])
<1>1. PICK q : q = [p EXCEPT !.items = (p.items \ S) \cup N]
  OBVIOUS
<1>2. q = [items |-> q.items, imports |-> q.imports] /\ q.items = (p.items \ S) \cup N
  BY <1>1, ItemsExcept DEF Shaped
<1>3. \A i \in q.items : IsItem(i) /\ \E it \in p.items : i.id = it.id
  BY <1>2 DEF Shaped, Replace
<1>4. \A i, j \in q.items : i.id = j.id => i = j
  <2>1. \A i \in p.items \ S, j \in N : i.id # j.id
    BY DEF Shaped, Replace
  <2>2. \A i, j \in p.items \ S : i.id = j.id => i = j
    BY DEF Shaped
  <2>3. QED
    BY <1>2, <2>1, <2>2 DEF Replace
<1>5. Shaped(q)
  BY <1>2, <1>3, <1>4, ReplacedShaped
<1>6. QED
  BY <1>1, <1>5

LEMMA AddedItem ==
  ASSUME NEW it, IsItem(it), NEW ds, IsSeq(ds)
  PROVE  /\ IsItem(AddDerives(it, ds))
         /\ \A g \in Fields \ {"attrs"} : AddDerives(it, ds)[g] = it[g]
<1>1. PICK l : AddDerives(it, ds) = [it EXCEPT !.attrs = l] /\ IsAttrs(l)
  BY AddForm
<1>2. QED
  BY <1>1, AttrsReplaced

LEMMA RemovedItem ==
  ASSUME NEW it, IsItem(it), NEW ds, IsSeq(ds), NEW r \in RemoveDerives(it, ds)
  PROVE  /\ IsItem(r) /\ \A g \in Fields \ {"attrs"} : r[g] = it[g]
         /\ RemoveDerives(it, ds) = {r}
<1>1. PICK l : r = [it EXCEPT !.attrs = l] /\ IsAttrs(l)
  BY RemoveForm
<1>2. RemoveDerives(it, ds) = {r}
  BY DEF RemoveDerives, WithoutAttribute
<1>3. QED
  BY <1>1, <1>2, AttrsReplaced

LEMMA DeriveAddedShaped ==
  ASSUME NEW p, Shaped(p), NEW n, NEW ds, IsSeq(ds), NEW flt
  PROVE  Shaped(DeriveAdded(p, n, ds, flt))
<1>1. PICK S : S = Structs(p, n, flt)
  OBVIOUS
<1>2. S \subseteq p.items
  BY <1>1 DEF Structs, In
<1>3. \A it \in S : IsItem(AddDerives(it, ds)) /\ AddDerives(it, ds).id = it.id
  BY <1>2, AddedItem DEF Shaped, Fields
<1>4. PICK N : N = {AddDerives(it, ds) : it \in S}
  OBVIOUS
<1>5. \A i \in N : IsItem(i) /\ \E it \in S : i.id = it.id
  BY <1>3, <1>4
<1>6. \A i, j \in N : i.id = j.id => i = j
  BY <1>2, <1>3, <1>4 DEF Shaped
<1>7. DeriveAdded(p, n, ds, flt) = [p EXCEPT !.items = (p.items \ S) \cup N]
  BY <1>1, <1>4 DEF DeriveAdded
<1>8. Replace(N, S)
  BY <1>5, <1>6 DEF Replace
<1>9. QED
  BY <1>2, <1>7, <1>8, StructsShaped

LEMMA DeriveRemovedShaped ==
  ASSUME NEW p, Shaped(p), NEW n, NEW ds, IsSeq(ds), NEW flt
  PROVE  Shaped(DeriveRemoved(p, n, ds, flt))
<1>1. PICK S : S = Structs(p, n, flt)
  OBVIOUS
<1>2. S \subseteq p.items
  BY <1>1 DEF Structs, In
<1>3. \A it \in S : \A r \in RemoveDerives(it, ds) :
         IsItem(r) /\ r.id = it.id /\ RemoveDerives(it, ds) = {r}
  BY <1>2, RemovedItem DEF Shaped, Fields
<1>4. PICK N : N = UNION {RemoveDerives(it, ds) : it \in S}
  OBVIOUS
<1>5. \A i \in N : \E it \in S : i \in RemoveDerives(it, ds)
  BY <1>4
<1>6. \A i \in N : IsItem(i) /\ \E it \in S : i.id = it.id
  BY <1>3, <1>5
<1>7. ASSUME NEW i \in N, NEW j \in N, i.id = j.id PROVE i = j
  <2>1. PICK x, y \in S : i \in RemoveDerives(x, ds) /\ j \in RemoveDerives(y, ds)
    BY <1>5
  <2>2. x.id = i.id /\ y.id = j.id
    BY <1>3, <2>1
  <2>3. x = y
    BY <1>2, <1>7, <2>2 DEF Shaped
  <2>4. QED
    BY <1>3, <2>1, <2>3
<1>8. DeriveRemoved(p, n, ds, flt) = [p EXCEPT !.items = (p.items \ S) \cup N]
  BY <1>1, <1>4 DEF DeriveRemoved
<1>9. Replace(N, S)
  BY <1>6, <1>7 DEF Replace
<1>10. QED
  BY <1>2, <1>8, <1>9, StructsShaped

\* The numbers of finitely many items are bounded.
LEMMA BoundedIds ==
  ASSUME NEW S, IsFiniteSet(S), \A it \in S : it.id \in Nat
  PROVE  \E b \in Nat : \A it \in S : it.id <= b
<1> DEFINE T == {n \in Nat : \A R \in SUBSET S :
                    Cardinality(R) = n => \E b \in Nat : \A it \in R : it.id <= b}
<1>1. \A R \in SUBSET S : IsFiniteSet(R) /\ Cardinality(R) \in Nat
  BY FS_Subset, FS_CardinalityType
<1>2. 0 \in T
  <2>1. \A R \in SUBSET S : Cardinality(R) = 0 => R = {}
    BY <1>1, FS_EmptySet
  <2>2. QED
    BY <2>1
<1>3. ASSUME NEW n \in Nat, n \in T PROVE n + 1 \in T
  <2>1. SUFFICES ASSUME NEW R \in SUBSET S, Cardinality(R) = n + 1
                 PROVE  \E b \in Nat : \A it \in R : it.id <= b
    OBVIOUS
  <2>2. R # {}
    BY <2>1, FS_EmptySet
  <2>3. PICK i : i \in R
    BY <2>2
  <2>4. Cardinality(R \ {i}) = n /\ R \ {i} \in SUBSET S
    <3>1. IsFiniteSet(R)
      BY <1>1
    <3>2. Cardinality(R \ {i}) = Cardinality(R) - 1
      BY <2>3, <3>1, FS_RemoveElement
    <3>3. QED
      BY <2>1, <3>2
  <2>5. PICK b \in Nat : \A it \in R \ {i} : it.id <= b
    BY <1>3, <2>4
  <2>6. PICK c \in Nat : c = i.id
    BY <2>3
  <2>7. \A it \in R : it.id <= b + c
    BY <2>5, <2>6
  <2>8. b + c \in Nat
    OBVIOUS
  <2>9. QED
    BY <2>7, <2>8
<1> HIDE DEF T
<1>4. Cardinality(S) \in T
  BY <1>1, <1>2, <1>3, Induction
<1>5. QED
  BY <1>4 DEF T

LEMMA ProgramShaped ==
  ASSUME NEW p, IsProgram(p)
  PROVE  Shaped(p)
<1>1. \A it \in p.items : it.id \in Nat
  BY DEF IsProgram, IsItem
<1>2. \E b \in Nat : \A it \in p.items : it.id <= b
  BY <1>1, BoundedIds DEF IsProgram
<1>3. QED
  BY <1>2 DEF IsProgram, Shaped

Kinds == {"rename", "signature", "inline", "extract", "move", "derive"}
TInv == Shaped(prog) /\ kinds \subseteq Kinds /\ left \in 0..MaxOps

LEMMA StepTyped ==
  ASSUME TInv, left > 0, NEW kind \in Kinds, NEW names, NEW q, Shaped(q), NEW capture,
         Step(kind, names, q, capture)
  PROVE  TInv'
<1>1. left' = left - 1 /\ prog' = q /\ (kinds' = kinds \/ kinds' = kinds \cup {kind})
  BY DEF Step
<1>2. left' \in 0..MaxOps
  BY <1>1, BoundsAssumption DEF TInv
<1>3. Shaped(prog')
  BY <1>1
<1>4. kinds' \subseteq Kinds
  BY <1>1 DEF TInv
<1>5. QED
  BY <1>2, <1>3, <1>4 DEF TInv, Shaped

LEMMA RenameTyped == ASSUME TInv, left > 0, RenameFunction PROVE TInv'
<1>1. PICK r \in Renames, flt \in Filters :
        Step("rename", {r[1], r[2]}, Rename(prog, r[1], r[2], flt), RenameCaptures(prog, r[2]))
  BY DEF RenameFunction
<1>2. PICK q : q = Rename(prog, r[1], r[2], flt)
  OBVIOUS
<1>3. Shaped(q)
  BY <1>2, RenameShaped, NamesAssumption DEF TInv
<1>4. PICK c, ns : Step("rename", ns, q, c)
  BY <1>1, <1>2
<1>5. QED
  BY <1>3, <1>4, StepTyped DEF Kinds

LEMMA SignatureTyped == ASSUME TInv, left > 0, ChangeSignatureOp PROVE TInv'
<1>1. PICK s \in Signatures, flt \in Filters : ChangeSignatureOf(s[1], s[2], flt)
  BY DEF ChangeSignatureOp
<1>2. PICK f, np : f = s[1] /\ np = s[2]
  OBVIOUS
<1>3. CASE SignatureAllowed(prog, f, np, flt)
  <2>1. PICK q : q = ChangeSignature(prog, f, np, flt)
    OBVIOUS
  <2>2. Shaped(q)
    BY <1>3, <2>1, SignatureShaped DEF TInv
  <2>3. PICK c, ns : Step("signature", ns, q, c)
    BY <1>1, <1>2, <1>3, <2>1 DEF ChangeSignatureOf
  <2>4. QED
    BY <2>2, <2>3, StepTyped DEF Kinds
<1>4. CASE ~SignatureAllowed(prog, f, np, flt)
  <2>1. PICK ns : Step("signature", ns, prog, FALSE)
    BY <1>1, <1>2, <1>4 DEF ChangeSignatureOf
  <2>2. Shaped(prog)
    BY DEF TInv
  <2>3. QED
    BY <2>1, <2>2, StepTyped DEF Kinds
<1>5. QED
  BY <1>3, <1>4

LEMMA InlineTyped == ASSUME TInv, left > 0, InlineFunction PROVE TInv'
<1>1. PICK f, flt : InlineOf(f, flt)
  BY DEF InlineFunction
<1>2. PICK q, c, ns : Step("inline", ns, q, c) /\ (q = prog \/ q = Inline(prog, f, flt))
  BY <1>1 DEF InlineOf
<1>3. Shaped(q)
  BY <1>2, InlineShaped DEF TInv
<1>4. QED
  BY <1>2, <1>3, StepTyped DEF Kinds

LEMMA ExtractTyped == ASSUME TInv, left > 0, ExtractFunction PROVE TInv'
<1>1. PICK d \in prog.items, h \in Helpers :
        \E q, c, ns, i, j :
           Step("extract", ns, q, c) /\ (q = prog \/ q = Extract(prog, d, i, j, h[1], h[2]))
  BY DEF ExtractFunction
<1>2. PICK q, c, ns, i, j :
        Step("extract", ns, q, c) /\ (q = prog \/ q = Extract(prog, d, i, j, h[1], h[2]))
  BY <1>1
<1>3. h[1] # NoName
  BY NamesAssumption
<1>4. Shaped(q)
  BY <1>2, <1>3, ExtractShaped DEF TInv
<1>5. QED
  BY <1>2, <1>4, StepTyped DEF Kinds

LEMMA MoveTyped == ASSUME TInv, left > 0, MoveItem PROVE TInv'
<1>1. PICK it \in prog.items, to \in Files :
        \E q, c, ns : Step("move", ns, q, c) /\ (q = prog \/ q = Move(prog, it, to))
  BY DEF MoveItem
<1>2. PICK q, c, ns : Step("move", ns, q, c) /\ (q = prog \/ q = Move(prog, it, to))
  BY <1>1
<1>3. Shaped(q)
  BY <1>2, MoveShaped DEF TInv
<1>4. QED
  BY <1>2, <1>3, StepTyped DEF Kinds

LEMMA DeriveTyped == ASSUME TInv, left > 0, AddDeriveToStruct \/ RemoveDeriveFromStruct PROVE TInv'
<1>1. PICK n \in StructNames, ds \in Traits, flt \in Filters :
        \E q, c, ns :
           Step("derive", ns, q, c) /\ (q = DeriveAdded(prog, n, ds, flt) \/ q = DeriveRemoved(prog, n, ds, flt))
  BY DEF AddDeriveToStruct, RemoveDeriveFromStruct
<1>2. PICK q, c, ns :
        Step("derive", ns, q, c) /\ (q = DeriveAdded(prog, n, ds, flt) \/ q = DeriveRemoved(prog, n, ds, flt))
  BY <1>1
<1>3. Shaped(q)
  BY <1>2, DeriveAddedShaped, DeriveRemovedShaped, TraitsAssumption DEF TInv
<1>4. QED
  BY <1>2, <1>3, StepTyped DEF Kinds

LEMMA TypedInit == ASSUME Init PROVE TInv
<1>1. Shaped(prog)
  BY ProgramShaped, ProgramsAssumption DEF Init
<1>2. QED
  BY <1>1, BoundsAssumption DEF Init, TInv

LEMMA TypedNext == ASSUME TInv, [Next]_vars PROVE TInv'
<1>1. CASE Next
  BY <1>1, RenameTyped, SignatureTyped, InlineTyped, ExtractTyped, MoveTyped, DeriveTyped DEF Next
<1>2. CASE UNCHANGED vars
  BY <1>2 DEF vars, TInv, Shaped
<1>3. QED
  BY <1>1, <1>2

LEMMA Typed == Spec => []TInv
<1>1. Init => TInv
  BY TypedInit
<1>2. TInv /\ [Next]_vars => TInv'
  BY TypedNext
<1>3. QED
  BY <1>1, <1>2, PTL DEF Spec

\* Whatever a plan did, the program has the shape of a program: known places,
\* known kinds, and no two items with one number.
THEOREM TypeCorrect == Spec => []TypeOK
<1>1. TInv => TypeOK
  BY DEF TInv, Shaped, IsItem, TypeOK, Kinds
<1>2. QED
  BY <1>1, Typed, PTL

\* Adding derives and removing them again restores a struct, in every state.
THEOREM DerivesAlwaysCancel == Spec => []DerivesCancel
<1>1. ASSUME TInv PROVE DerivesCancel
  <2>1. ASSUME NEW it \in prog.items, NEW ds \in Traits,
               it.kind = "struct" /\ ~it.oneLine /\ <<>> \notin ToSet(it.attrs)
        PROVE  /\ ToSet(ds) \cap Derived(it) = {} => RemoveDerives(AddDerives(it, ds), ds) = {it}
               /\ Len(it.attrs) < 2 /\ NoneTwice(it) /\ IsInjective(ds) => NoneTwice(AddDerives(it, ds))
               /\ \A r \in RemoveDerives(it, ds) : <<>> \notin ToSet(r.attrs) /\ (NoneTwice(it) => NoneTwice(r))
    <3>1. IsItem(it) /\ IsSeq(ds)
      BY <1>1, TraitsAssumption DEF TInv, Shaped
    <3>2. QED
      BY <2>1, <3>1, DerivesCancelOf
  <2>2. QED
    BY <2>1 DEF DerivesCancel
<1>2. QED
  BY <1>1, Typed, PTL

-----------------------------------------------------------------------------
(* The choice of the tests.                                                   *)

Closed(p, S) == \A m \in S : FnIdents(p, m) \subseteq S
Wider(p, S) == S \cup UNION {FnIdents(p, m) : m \in S}

\* The rounds of Reachable.
ReachRounds(p, t, g) ==
    /\ g[0] = FnIdents(p, t)
    /\ \A n \in Nat : g[n + 1] = Wider(p, g[n])
    /\ Reachable(p, t) = g[Cardinality(Catalogued(p))]

LEMMA ReachableRounds ==
  ASSUME NEW p, NEW t
  PROVE  \E g : ReachRounds(p, t, g)
<1> DEFINE All == UNION {Names(Occ(it)) : it \in Catalogued(p)}
           U == SUBSET All
           first == FnIdents(p, t)
           G == [x \in Nat \X U |-> Wider(p, x[2])]
           Body(g) == [n \in Nat |-> IF n = 0 THEN first ELSE Wider(p, g[n - 1])]
           within == CHOOSE g : g = Body(g)
<1>1. \A m : FnIdents(p, m) \subseteq All
  BY DEF FnIdents
<1>2. \A S \in U : Wider(p, S) \in U
  BY <1>1 DEF Wider
<1>3. first \in U
  BY <1>1
<1>4. Reachable(p, t) = within[Cardinality(Catalogued(p))]
  BY Zenon DEF Reachable, Wider
<1> HIDE DEF U, first
<1>5. G \in [Nat \X U -> U]
  BY <1>2
<1>6. \A n \in Nat, S \in U : G[<<n, S>>] = Wider(p, S)
  OBVIOUS
<1> HIDE DEF G
<1>7. PICK g : Recursive(U, first, G, g)
  BY <1>3, <1>5, NatRecursion
<1>8. g = Body(g)
  <2>1. ASSUME NEW n \in Nat, n # 0 PROVE G[<<n, g[n - 1]>>] = Wider(p, g[n - 1])
    <3>1. g[n - 1] \in U
      BY <1>7, <2>1 DEF Recursive
    <3>2. QED
      BY <1>6, <3>1
  <2>2. QED
    BY <1>7, <2>1 DEF Recursive
<1>9. within = Body(within)
  BY <1>8
<1> HIDE DEF within
<1>10. within[0] = FnIdents(p, t)
  BY <1>9 DEF first
<1>11. ASSUME NEW n \in Nat PROVE within[n + 1] = Wider(p, within[n])
  BY <1>9
<1>12. QED
  BY <1>4, <1>10, <1>11 DEF ReachRounds

\* No more rounds find something new than there are functions.
LEMMA ReachableClosed ==
  ASSUME NEW p, IsFiniteSet(p.items), NEW t
  PROVE  /\ FnIdents(p, t) \subseteq Reachable(p, t)
         /\ Closed(p, Reachable(p, t))
<1>1. PICK g : ReachRounds(p, t, g)
  BY ReachableRounds
<1> DEFINE C == Catalogued(p)
           N == {it.name : it \in C}
           Found(n) == N \cap g[n]
           T == {n \in Nat : Closed(p, g[n]) \/ (Cardinality(Found(n)) \in Nat /\ Cardinality(Found(n)) > n)}
           R == {n \in Nat : FnIdents(p, t) \subseteq g[n]}
<1>2. IsFiniteSet(C) /\ Cardinality(C) \in Nat
  <2>1. C \in SUBSET p.items
    BY DEF Catalogued
  <2>2. QED
    BY <2>1, FS_Subset, FS_CardinalityType
<1>3. IsFiniteSet(N) /\ Cardinality(N) <= Cardinality(C)
  <2>1. PICK f : f = [it \in C |-> it.name]
    OBVIOUS
  <2>2. f \in Surjection(C, N)
    BY <2>1 DEF Surjection
  <2>3. QED
    BY <1>2, <2>2, FS_Surjection
<1>4. \A m : FnIdents(p, m) # {} => m \in N
  BY DEF FnIdents
<1> HIDE DEF C, N
<1>5. \A n \in Nat : IsFiniteSet(Found(n)) /\ Cardinality(Found(n)) \in Nat /\ Cardinality(Found(n)) <= Cardinality(N)
  BY <1>3, FS_Subset, FS_CardinalityType
<1>6. \A n \in Nat : g[n + 1] = Wider(p, g[n])
  BY <1>1 DEF ReachRounds
<1>7. ASSUME NEW n \in Nat, Closed(p, g[n]) PROVE g[n + 1] = g[n]
  <2>1. UNION {FnIdents(p, m) : m \in g[n]} \subseteq g[n]
    BY <1>7 DEF Closed
  <2>2. QED
    BY <1>6, <2>1 DEF Wider
<1>8. ASSUME NEW n \in Nat, ~Closed(p, g[n])
      PROVE  \E m \in Found(n) : ~(FnIdents(p, m) \subseteq g[n])
  BY <1>4, <1>8 DEF Closed
<1>9. 0 \in T
  <2>1. SUFFICES ASSUME ~Closed(p, g[0]) PROVE Cardinality(Found(0)) > 0
    BY <1>5
  <2>2. Found(0) # {}
    BY <1>8, <2>1
  <2>3. Cardinality(Found(0)) # 0
    BY <1>5, <2>2, FS_EmptySet
  <2>4. QED
    BY <1>5, <2>3
<1>10. ASSUME NEW n \in Nat, n \in T PROVE n + 1 \in T
  <2>1. PICK k \in Nat : k = n + 1
    OBVIOUS
  <2>2. CASE Closed(p, g[n])
    BY <1>7, <2>2
  <2>3. CASE ~Closed(p, g[n])
    <3>1. SUFFICES ASSUME ~Closed(p, g[k]) PROVE Cardinality(Found(k)) > k
      BY <1>5, <2>1
    <3>2. g[k] = Wider(p, g[n])
      BY <1>6, <2>1
    <3>3. PICK m \in Found(k) : ~(FnIdents(p, m) \subseteq g[k])
      BY <1>8, <3>1
    <3>4. m \notin g[n]
      BY <3>2, <3>3 DEF Wider
    <3>5. PICK A : A = Found(n)
      OBVIOUS
    <3>6. A \cup {m} \in SUBSET Found(k) /\ m \notin A
      BY <3>2, <3>3, <3>4, <3>5 DEF Wider
    <3>7. IsFiniteSet(A) /\ Cardinality(A) \in Nat /\ Cardinality(A) > n
      BY <1>5, <1>10, <2>3, <3>5
    <3>8. Cardinality(A \cup {m}) = Cardinality(A) + 1
      BY <3>6, <3>7, FS_AddElement
    <3>9. Cardinality(A \cup {m}) <= Cardinality(Found(k))
      BY <1>5, <3>6, FS_Subset
    <3>10. QED
      BY <1>5, <2>1, <3>7, <3>8, <3>9
  <2>4. QED
    BY <2>2, <2>3
<1>11. 0 \in R /\ \A n \in Nat : n \in R => n + 1 \in R
  <2>1. g[0] = FnIdents(p, t)
    BY <1>1 DEF ReachRounds
  <2>2. \A n \in Nat : g[n] \subseteq g[n + 1]
    BY <1>6 DEF Wider
  <2>3. QED
    BY <2>1, <2>2
<1> HIDE DEF T, R
<1>12. PICK k \in Nat : k = Cardinality(C)
  BY <1>2
<1>13. k \in T /\ k \in R
  BY <1>9, <1>10, <1>11, Induction
<1>14. Reachable(p, t) = g[k]
  BY <1>1, <1>12 DEF ReachRounds, C
<1>15. Closed(p, g[k])
  <2>1. PICK c, m \in Nat : c = Cardinality(Found(k)) /\ m = Cardinality(N)
    BY <1>3, <1>5, FS_CardinalityType
  <2>2. c <= m /\ m <= k
    BY <1>3, <1>5, <1>12, <2>1
  <2>3. Closed(p, g[k]) \/ c > k
    BY <1>13, <2>1 DEF T
  <2>4. QED
    BY <2>2, <2>3
<1>16. FnIdents(p, t) \subseteq g[k]
  BY <1>13 DEF R
<1>17. QED
  BY <1>14, <1>15, <1>16

\* The names a test reaches are the least set that holds the names in the test
\* and, with each name in it, those in every function of that name: the rounds
\* of the lookup neither stop too early nor go too far (test_impact.rs:150).
THEOREM ReachableIsLeast ==
  ASSUME NEW p, IsFiniteSet(p.items), NEW t
  PROVE  /\ FnIdents(p, t) \subseteq Reachable(p, t)
         /\ \A m \in Reachable(p, t) : FnIdents(p, m) \subseteq Reachable(p, t)
         /\ \A S : FnIdents(p, t) \subseteq S /\ (\A m \in S : FnIdents(p, m) \subseteq S)
                     => Reachable(p, t) \subseteq S
<1>1. FnIdents(p, t) \subseteq Reachable(p, t) /\ Closed(p, Reachable(p, t))
  BY ReachableClosed
<1>2. ASSUME NEW S, FnIdents(p, t) \subseteq S, \A m \in S : FnIdents(p, m) \subseteq S
      PROVE  Reachable(p, t) \subseteq S
  <2>1. PICK g : ReachRounds(p, t, g)
    BY ReachableRounds
  <2> DEFINE T == {n \in Nat : g[n] \subseteq S}
  <2>2. 0 \in T
    BY <1>2, <2>1 DEF ReachRounds
  <2>3. ASSUME NEW n \in Nat, n \in T PROVE n + 1 \in T
    <3>1. g[n + 1] = Wider(p, g[n])
      BY <2>1 DEF ReachRounds
    <3>2. Wider(p, g[n]) \subseteq S
      BY <1>2, <2>3 DEF Wider
    <3>3. QED
      BY <3>1, <3>2
  <2> HIDE DEF T
  <2>4. Cardinality(Catalogued(p)) \in T
    <3>1. Catalogued(p) \in SUBSET p.items
      BY DEF Catalogued
    <3>2. Cardinality(Catalogued(p)) \in Nat
      BY <3>1, FS_Subset, FS_CardinalityType
    <3>3. QED
      BY <2>2, <2>3, <3>2, Induction
  <2>5. QED
    BY <2>1, <2>4 DEF ReachRounds, T
<1>3. QED
  BY <1>1, <1>2 DEF Closed

-----------------------------------------------------------------------------
(* What a plan leaves to the letter.                                          *)

Named(p, n) == {it \in Catalogued(p) : it.name = n}
Bared(it) == [it EXCEPT !.owner = NoName]

\* No item named n mentions a name of A.
Clean(p, n, A) ==
    n \notin A /\ \A it \in Named(p, n) : IsText(it) /\ Names(Occ(it)) \cap A = {}
Keeps(p, q, A) == \A n : Clean(p, n, A) => Read(q, n) = Read(p, n)

LEMMA ReadNamed ==
  ASSUME NEW p, NEW n
  PROVE  Read(p, n) = {Bared(it) : it \in Named(p, n)}
BY DEF Read, Named, Bared

LEMMA KeptNamed ==
  ASSUME NEW p, NEW q, NEW n, Named(q, n) = Named(p, n)
  PROVE  Read(q, n) = Read(p, n)
BY ReadNamed

\* Items that read the same but for the owner.
LEMMA BaredFacts ==
  ASSUME NEW i, IsForm(i), NEW j, IsForm(j)
  PROVE  Bared(i) = Bared(j) <=> \A g \in Fields \ {"owner"} : i[g] = j[g]
<1>1. "owner" \in Fields
  BY DEF Fields
<1>2. PICK a, b : a = Bared(i) /\ b = Bared(j)
  OBVIOUS
<1>3. /\ a = [g \in Fields |-> a[g]] /\ a["owner"] = NoName
      /\ \A g \in Fields \ {"owner"} : a[g] = i[g]
  BY <1>1, <1>2 DEF IsForm, Bared
<1>4. /\ b = [g \in Fields |-> b[g]] /\ b["owner"] = NoName
      /\ \A g \in Fields \ {"owner"} : b[g] = j[g]
  BY <1>1, <1>2 DEF IsForm, Bared
<1>5. ASSUME a = b PROVE \A g \in Fields \ {"owner"} : i[g] = j[g]
  BY <1>3, <1>4, <1>5
<1>6. ASSUME \A g \in Fields \ {"owner"} : i[g] = j[g] PROVE a = b
  <2>1. \A g \in Fields : a[g] = b[g]
    BY <1>3, <1>4, <1>6
  <2>2. QED
    BY <1>3, <1>4, <2>1
<1>7. QED
  BY <1>2, <1>5, <1>6

\* A name that a plan left alone so far is clean if it was at the start.
LEMMA CleanSince ==
  ASSUME NEW p, Shaped(p), NEW o, IsProgram(o), NEW n, Read(p, n) = Read(o, n),
         NEW A, n \notin A, FnIdents(o, n) \cap A = {}
  PROVE  Clean(p, n, A)
<1>1. SUFFICES ASSUME NEW it \in Named(p, n) PROVE IsText(it) /\ Names(Occ(it)) \cap A = {}
  BY DEF Clean
<1>2. PICK i \in Named(o, n) : Bared(it) = Bared(i)
  <2>1. Bared(it) \in Read(p, n)
    BY ReadNamed
  <2>2. Bared(it) \in {Bared(i) : i \in Named(o, n)}
    BY <2>1, ReadNamed
  <2>3. QED
    BY <2>2
<1>3. IsForm(it) /\ IsForm(i) /\ IsText(i)
  BY DEF Shaped, IsProgram, IsItem, IsForm, Named, Catalogued
<1>4. \A g \in Fields \ {"owner"} : it[g] = i[g]
  BY <1>2, <1>3, BaredFacts
<1>5. it.params = i.params /\ it.body = i.body /\ it.tail = i.tail
  BY <1>4 DEF Fields
<1>6. Text(it) = Text(i)
  BY <1>5 DEF Text
<1>7. Occ(it) = Occ(i)
  BY <1>5, <1>6 DEF Occ
<1>8. IsText(it)
  BY <1>3, <1>5, <1>6 DEF IsText
<1>9. Names(Occ(i)) \ {n} \subseteq FnIdents(o, n)
  BY DEF FnIdents, Named
<1>10. QED
  BY <1>7, <1>8, <1>9

\* The items named n are left by a rewriting about another name.
LEMMA RewInKeeps ==
  ASSUME NEW p, Shaped(p), NEW F, NEW w, NEW f, About(w, f),
         NEW A, f \in A, NEW n, Clean(p, n, A)
  PROVE  Named(RewIn(p, F, w), n) = Named(p, n)
<1>1. PICK q : q = RewIn(p, F, w)
  OBVIOUS
<1>2. q.items = {RewrittenIn(F, w, it) : it \in p.items}
  BY <1>1, RewInFacts
<1>3. ASSUME NEW it \in Named(p, n) PROVE RewrittenIn(F, w, it) = it
  <2>1. IsText(it) /\ f \notin Names(Occ(it))
    BY DEF Clean
  <2>2. it = [g \in Fields |-> it[g]]
    BY DEF Shaped, IsItem, Named, Catalogued
  <2>3. RewItem(it, w) = it
    BY <2>1, <2>2, ItemUnmentioned
  <2>4. QED
    BY <2>3 DEF RewrittenIn
<1>4. ASSUME NEW it \in p.items
      PROVE  RewrittenIn(F, w, it).name = it.name /\ RewrittenIn(F, w, it).kind = it.kind
  <2>1. \A g \in Fields \ {"body", "tail"} : RewrittenIn(F, w, it)[g] = it[g]
    BY RewrittenFacts DEF Shaped
  <2>2. QED
    BY <2>1 DEF Fields
<1>5. Named(p, n) \subseteq Named(q, n)
  <2>1. SUFFICES ASSUME NEW it \in Named(p, n) PROVE it \in Named(q, n)
    OBVIOUS
  <2>2. it \in q.items
    BY <1>2, <1>3 DEF Named, Catalogued
  <2>3. QED
    BY <2>2 DEF Named, Catalogued
<1>6. Named(q, n) \subseteq Named(p, n)
  <2>1. SUFFICES ASSUME NEW i \in Named(q, n) PROVE i \in Named(p, n)
    OBVIOUS
  <2>2. PICK it \in p.items : i = RewrittenIn(F, w, it)
    BY <1>2 DEF Named, Catalogued
  <2>3. it \in Named(p, n)
    BY <1>4, <2>2 DEF Named, Catalogued
  <2>4. QED
    BY <1>3, <2>2, <2>3
<1>7. QED
  BY <1>1, <1>5, <1>6

LEMMA RenameKeeps ==
  ASSUME NEW p, Shaped(p), NEW old, NEW new, old # NoName, new # NoName, NEW flt
  PROVE  Keeps(p, Rename(p, old, new, flt), {old, new})
<1>1. SUFFICES ASSUME NEW n, Clean(p, n, {old, new})
               PROVE  Read(Rename(p, old, new, flt), n) = Read(p, n)
  BY DEF Keeps
<1>2. PICK q : q = Rename(p, old, new, flt)
  OBVIOUS
<1>3. PICK w : w = RenameOf(old, new)
  OBVIOUS
<1> DEFINE F == Scope(flt)
           to(it) == IF FileOf[it.at] \in F THEN Renamed(it, w) ELSE it
<1>4. q.items = {to(it) : it \in p.items}
  BY <1>2, <1>3 DEF Rename
<1>5. About(w, old) /\ w.map = [m \in {old} |-> new]
  BY <1>3 DEF About, RenameOf, Rewrite
<1>6. n # old /\ n # new
  BY <1>1 DEF Clean
<1>7. ASSUME NEW it \in p.items
      PROVE  /\ IsForm(it) /\ IsForm(to(it)) /\ to(it).kind = it.kind
             /\ to(it).name = n <=> it.name = n
  <2>1. IsItem(it)
    BY DEF Shaped
  <2>2. PICK r : r = Renamed(it, w)
    OBVIOUS
  <2>3. IsItem(r) /\ r.kind = it.kind /\ r.name = IF it.name = old THEN new ELSE it.name
    BY <1>3, <2>1, <2>2, RenamedFacts DEF Fields
  <2>4. QED
    BY <1>6, <2>1, <2>2, <2>3 DEF IsItem, IsForm
<1>8. ASSUME NEW it \in Named(p, n) PROVE Bared(to(it)) = Bared(it)
  <2>1. it \in p.items /\ IsItem(it) /\ IsText(it) /\ old \notin Names(Occ(it)) /\ it.name = n
    BY <1>1 DEF Clean, Named, Catalogued, Shaped
  <2>2. RewItem(it, w) = it
    BY <1>5, <2>1, ItemUnmentioned DEF IsItem
  <2>3. Sub(w.map, it.name) = it.name
    BY <1>5, <1>6, <2>1 DEF Sub
  <2>4. [i \in DOMAIN it.params |-> Sub(w.map, it.params[i])] = it.params
    <3>1. IsSeq(it.params)
      BY <2>1 DEF IsText
    <3>2. PICK ps : ps = it.params
      OBVIOUS
    <3>3. ps = [i \in DOMAIN ps |-> ps[i]] /\ \A i \in DOMAIN ps : ps[i] \in ToSet(ps)
      BY <3>1, <3>2, SeqFacts
    <3>4. ASSUME NEW i \in DOMAIN ps PROVE ps[i] # old
      <4>1. PICK o : o = <<"param", ps[i], 0>>
        OBVIOUS
      <4>2. o \in Occ(it) /\ o[2] = ps[i]
        BY <3>2, <3>3, <4>1 DEF Occ
      <4>3. QED
        BY <2>1, <4>2 DEF Names
    <3>5. \A i \in DOMAIN ps : Sub(w.map, ps[i]) = ps[i]
      BY <1>5, <3>4 DEF Sub
    <3>6. QED
      BY <3>2, <3>3, <3>5
  <2>5. PICK o : o = Sub(w.map, it.owner)
    OBVIOUS
  <2>6. Renamed(it, w) = [it EXCEPT !.name = it.name, !.owner = o, !.params = it.params]
    BY <2>2, <2>3, <2>4, <2>5 DEF Renamed
  <2>7. IsForm(it) /\ "name" \in Fields /\ "owner" \in Fields /\ "params" \in Fields
    BY <2>1 DEF IsItem, IsForm, Fields
  <2>8. PICK a : a = [it EXCEPT !.owner = o]
    OBVIOUS
  <2>9. IsForm(a) /\ \A g \in Fields \ {"owner"} : a[g] = it[g]
    BY <2>7, <2>8 DEF IsForm
  <2>10. Renamed(it, w) = a
    <3>1. [it EXCEPT !.name = it.name] = it
      BY <2>7 DEF IsForm
    <3>2. [a EXCEPT !.params = it.params] = a
      BY <2>7, <2>8 DEF IsForm
    <3>3. [it EXCEPT !.name = it.name, !.owner = o, !.params = it.params]
            = [[[it EXCEPT !.name = it.name] EXCEPT !.owner = o] EXCEPT !.params = it.params]
      BY <2>7 DEF IsForm
    <3>4. QED
      BY <2>6, <2>8, <3>1, <3>2, <3>3
  <2>11. Bared(a) = Bared(it)
    BY <2>7, <2>9, BaredFacts
  <2>12. QED
    BY <2>10, <2>11
<1> HIDE DEF to, F
<1>9. Named(q, n) = {to(it) : it \in Named(p, n)}
  BY <1>4, <1>7 DEF Named, Catalogued
<1>10. Read(q, n) = {Bared(i) : i \in Named(q, n)}
  BY ReadNamed
<1>11. Read(q, n) = {Bared(to(it)) : it \in Named(p, n)}
  BY <1>9, <1>10
<1>12. Read(q, n) = {Bared(it) : it \in Named(p, n)}
  BY <1>8, <1>11
<1>13. QED
  BY <1>2, <1>12, ReadNamed

LEMMA SignatureKeeps ==
  ASSUME NEW p, Shaped(p), NEW f, f # NoName, NEW np, NEW flt, SignatureAllowed(p, f, np, flt),
         NEW A, f \in A
  PROVE  Keeps(p, ChangeSignature(p, f, np, flt), A)
<1>1. SUFFICES ASSUME NEW n, Clean(p, n, A)
               PROVE  Read(ChangeSignature(p, f, np, flt), n) = Read(p, n)
  BY DEF Keeps
<1>2. PICK w, q, d, e : SignedAs(p, f, flt, w, q, d, e, ChangeSignature(p, f, np, flt))
  BY SignedFacts, Zenon
<1>3. PICK r : r = ChangeSignature(p, f, np, flt)
  OBVIOUS
<1>4. About(w, f)
  BY <1>2 DEF SignedAs, About
<1>5. Named(q, n) = Named(p, n)
  BY <1>1, <1>2, <1>4, RewInKeeps DEF SignedAs
<1>6. e.name = f /\ d.name = f /\ n # f
  BY <1>1, <1>2 DEF SignedAs, Fields, Clean
<1>7. r.items = (q.items \ {d}) \cup {e}
  <2>1. Shaped(q)
    BY <1>2, RewInFacts DEF SignedAs
  <2>2. QED
    BY <1>2, <1>3, <2>1, ItemsExcept DEF SignedAs, Shaped
<1>8. Named(r, n) = Named(q, n)
  BY <1>6, <1>7 DEF Named, Catalogued
<1>9. QED
  BY <1>3, <1>5, <1>8, KeptNamed

LEMMA InlineKeeps ==
  ASSUME NEW p, Shaped(p), NEW f, f # NoName, NEW flt, InlineAllowed(p, f, flt)
  PROVE  Keeps(p, Inline(p, f, flt), {f})
<1>1. SUFFICES ASSUME NEW n, Clean(p, n, {f}) PROVE Read(Inline(p, f, flt), n) = Read(p, n)
  BY DEF Keeps
<1>2. PICK d : d = The(Definitions(p, Scope(flt), f))
  OBVIOUS
<1>3. d \in Definitions(p, Scope(flt), f)
  <2>1. Cardinality(Definitions(p, Scope(flt), f)) = 1
    BY DEF InlineAllowed
  <2>2. Definitions(p, Scope(flt), f) # {}
    BY <2>1, FS_EmptySet
  <2>3. QED
    BY <1>2, <2>2 DEF The
<1>4. d.name = f /\ n # f
  BY <1>1, <1>3 DEF Definitions, Clean
<1>5. PICK o : o = WithoutDefinition(p, d)
  OBVIOUS
<1>6. Shaped(o) /\ o.items = p.items \ {d}
  BY <1>5, FewerShaped, ItemsExcept DEF WithoutDefinition, Shaped
<1>7. Named(o, n) = Named(p, n)
  BY <1>4, <1>6 DEF Named, Catalogued
<1>8. Clean(o, n, {f})
  BY <1>1, <1>7 DEF Clean
<1>9. PICK w : w = Rewrite("inline", <<>>, f, <<>>, d)
  OBVIOUS
<1>10. About(w, f)
  BY <1>9 DEF About, Rewrite
<1>11. Inline(p, f, flt) = RewIn(o, Scope(flt), w)
  BY <1>2, <1>5, <1>9 DEF Inline
<1>12. Named(Inline(p, f, flt), n) = Named(o, n)
  BY <1>6, <1>8, <1>10, <1>11, RewInKeeps
<1>13. QED
  BY <1>7, <1>12, KeptNamed

LEMMA MoveKeeps ==
  ASSUME NEW p, Shaped(p), NEW it \in p.items, NEW to
  PROVE  Keeps(p, Move(p, it, to), {it.name})
<1>1. SUFFICES ASSUME NEW n, Clean(p, n, {it.name}) PROVE Read(Move(p, it, to), n) = Read(p, n)
  BY DEF Keeps
<1>2. PICK e : e = [it EXCEPT !.at = to]
  OBVIOUS
<1>3. e.name = it.name
  <2>1. IsForm(it) /\ "at" \in Fields
    BY DEF Shaped, IsItem, IsForm, Fields
  <2>2. \A g \in Fields \ {"at"} : e[g] = it[g]
    BY <1>2, <2>1 DEF IsForm
  <2>3. QED
    BY <2>2 DEF Fields
<1>4. PICK q : q = Move(p, it, to)
  OBVIOUS
<1>5. q.items = (p.items \ {it}) \cup {e}
  BY <1>2, <1>4, ItemsExcept DEF Move, Shaped
<1>6. Named(q, n) = Named(p, n)
  BY <1>1, <1>3, <1>5 DEF Named, Catalogued, Clean
<1>7. QED
  BY <1>4, <1>6, KeptNamed

LEMMA StructsKeep ==
  ASSUME NEW p, Shaped(p), NEW S, \A it \in S : it.kind = "struct",
         NEW N, \A it \in N : it.kind = "struct", NEW A
  PROVE  Keeps(p, [p EXCEPT !.items = (p.items \ S) \cup N], A)
<1>1. PICK q : q = [p EXCEPT !.items = (p.items \ S) \cup N]
  OBVIOUS
<1>2. q.items = (p.items \ S) \cup N
  BY <1>1, ItemsExcept DEF Shaped
<1>3. \A n : Named(q, n) = Named(p, n)
  BY <1>2 DEF Named, Catalogued
<1>4. QED
  BY <1>1, <1>3, KeptNamed DEF Keeps

LEMMA DeriveKeeps ==
  ASSUME NEW p, Shaped(p), NEW n, NEW ds, IsSeq(ds), NEW flt, NEW A
  PROVE  Keeps(p, DeriveAdded(p, n, ds, flt), A) /\ Keeps(p, DeriveRemoved(p, n, ds, flt), A)
<1>1. PICK S : S = Structs(p, n, flt)
  OBVIOUS
<1>2. \A it \in S : IsItem(it) /\ it.kind = "struct"
  BY <1>1 DEF Structs, In, Shaped
<1>3. PICK N, M : N = {AddDerives(it, ds) : it \in S} /\ M = UNION {RemoveDerives(it, ds) : it \in S}
  OBVIOUS
<1>4. \A it \in N : it.kind = "struct"
  BY <1>2, <1>3, AddedItem DEF Fields
<1>5. \A it \in M : it.kind = "struct"
  BY <1>2, <1>3, RemovedItem DEF Fields
<1>6. DeriveAdded(p, n, ds, flt) = [p EXCEPT !.items = (p.items \ S) \cup N]
  BY <1>1, <1>3 DEF DeriveAdded
<1>7. DeriveRemoved(p, n, ds, flt) = [p EXCEPT !.items = (p.items \ S) \cup M]
  BY <1>1, <1>3 DEF DeriveRemoved
<1>8. Keeps(p, [p EXCEPT !.items = (p.items \ S) \cup N], A)
  BY <1>2, <1>4, StructsKeep
<1>9. Keeps(p, [p EXCEPT !.items = (p.items \ S) \cup M], A)
  BY <1>2, <1>5, StructsKeep
<1>10. QED
  BY <1>6, <1>7, <1>8, <1>9

\* The inductive invariant: a name the plan is not about, and whose functions
\* mentioned nothing the plan is about, still stands for what it stood for.
Untouched ==
    "extract" \notin kinds =>
       \A n : n \notin anchors /\ FnIdents(orig, n) \cap anchors = {} => Read(prog, n) = Read(orig, n)
UInv == TInv /\ orig \in Programs /\ Untouched

LEMMA StepUntouched ==
  ASSUME UInv, left > 0, NEW kind \in Kinds, NEW names, NEW q, NEW capture,
         Step(kind, names, q, capture), q = prog \/ kind = "extract" \/ Keeps(prog, q, names)
  PROVE  orig' \in Programs /\ Untouched'
<1>1. /\ prog' = q /\ orig' = orig /\ anchors' = anchors \cup names
      /\ kinds' = IF q = prog THEN kinds ELSE kinds \cup {kind}
  BY DEF Step
<1>2. orig' \in Programs
  BY <1>1 DEF UInv
<1>3. SUFFICES ASSUME "extract" \notin kinds', NEW n, n \notin anchors', FnIdents(orig, n) \cap anchors' = {}
               PROVE  Read(q, n) = Read(orig, n)
  BY <1>1, <1>2 DEF Untouched
<1>4. Read(prog, n) = Read(orig, n)
  BY <1>1, <1>3 DEF UInv, Untouched
<1>5. q = prog \/ Keeps(prog, q, names)
  BY <1>1, <1>3
<1>6. Clean(prog, n, names)
  <2>1. IsProgram(orig)
    BY ProgramsAssumption DEF UInv
  <2>2. n \notin names /\ FnIdents(orig, n) \cap names = {}
    BY <1>1, <1>3
  <2>3. Shaped(prog)
    BY DEF UInv, TInv
  <2>4. QED
    BY <1>4, <2>1, <2>2, <2>3, CleanSince
<1>7. QED
  BY <1>4, <1>5, <1>6 DEF Keeps

LEMMA RenameUntouched == ASSUME UInv, left > 0, RenameFunction PROVE orig' \in Programs /\ Untouched'
<1>1. PICK r \in Renames, flt \in Filters :
        Step("rename", {r[1], r[2]}, Rename(prog, r[1], r[2], flt), RenameCaptures(prog, r[2]))
  BY DEF RenameFunction
<1>2. PICK q, c, ns : q = Rename(prog, r[1], r[2], flt) /\ ns = {r[1], r[2]} /\ Step("rename", ns, q, c)
  BY <1>1
<1>3. Keeps(prog, q, ns)
  BY <1>2, RenameKeeps, NamesAssumption DEF UInv, TInv
<1>4. QED
  BY <1>2, <1>3, StepUntouched DEF Kinds

LEMMA SignatureUntouched == ASSUME UInv, left > 0, ChangeSignatureOp PROVE orig' \in Programs /\ Untouched'
<1>1. PICK s \in Signatures, flt \in Filters : ChangeSignatureOf(s[1], s[2], flt)
  BY DEF ChangeSignatureOp
<1>2. PICK f, np : f = s[1] /\ np = s[2]
  OBVIOUS
<1>3. f # NoName
  BY <1>2, NamesAssumption
<1>4. PICK ns : ns = SignatureAnchors(f, np) /\ f \in ns
  BY DEF SignatureAnchors
<1>5. CASE SignatureAllowed(prog, f, np, flt)
  <2>1. PICK q, c : q = ChangeSignature(prog, f, np, flt) /\ Step("signature", ns, q, c)
    BY <1>1, <1>2, <1>4, <1>5 DEF ChangeSignatureOf
  <2>2. Keeps(prog, q, ns)
    BY <1>3, <1>4, <1>5, <2>1, SignatureKeeps DEF UInv, TInv
  <2>3. QED
    BY <2>1, <2>2, StepUntouched DEF Kinds
<1>6. CASE ~SignatureAllowed(prog, f, np, flt)
  <2>1. Step("signature", ns, prog, FALSE)
    BY <1>1, <1>2, <1>4, <1>6 DEF ChangeSignatureOf
  <2>2. QED
    BY <2>1, StepUntouched DEF Kinds
<1>7. QED
  BY <1>5, <1>6

LEMMA InlineUntouched == ASSUME UInv, left > 0, InlineFunction PROVE orig' \in Programs /\ Untouched'
<1>1. PICK f \in FnNames, flt \in Filters : InlineOf(f, flt)
  BY DEF InlineFunction
<1>2. f # NoName
  BY DEF FnNames, UInv, TInv, Shaped, IsItem
<1>3. PICK ns : ns = {f}
  OBVIOUS
<1>4. CASE InlineAllowed(prog, f, flt)
  <2>1. PICK q, c : (q = Inline(prog, f, flt) \/ q = prog) /\ Step("inline", ns, q, c)
    BY <1>1, <1>3, <1>4 DEF InlineOf
  <2>2. Keeps(prog, q, ns)
    BY <1>2, <1>3, <1>4, <2>1, InlineKeeps DEF UInv, TInv, Keeps
  <2>3. QED
    BY <2>1, <2>2, StepUntouched DEF Kinds
<1>5. CASE ~InlineAllowed(prog, f, flt)
  <2>1. Step("inline", ns, prog, FALSE)
    BY <1>1, <1>3, <1>5 DEF InlineOf
  <2>2. QED
    BY <2>1, StepUntouched DEF Kinds
<1>6. QED
  BY <1>4, <1>5

LEMMA ExtractUntouched == ASSUME UInv, left > 0, ExtractFunction PROVE orig' \in Programs /\ Untouched'
<1>1. PICK ns, q, c : Step("extract", ns, q, c)
  BY DEF ExtractFunction
<1>2. QED
  BY <1>1, StepUntouched DEF Kinds

LEMMA MoveUntouched == ASSUME UInv, left > 0, MoveItem PROVE orig' \in Programs /\ Untouched'
<1>1. PICK it \in prog.items, to \in Files :
        \E q, c : Step("move", {it.name}, q, c) /\ (q = prog \/ q = Move(prog, it, to))
  BY DEF MoveItem
<1>2. PICK q, c, ns : ns = {it.name} /\ Step("move", ns, q, c) /\ (q = prog \/ q = Move(prog, it, to))
  BY <1>1
<1>3. q = prog \/ Keeps(prog, q, ns)
  BY <1>2, MoveKeeps DEF UInv, TInv
<1>4. QED
  BY <1>2, <1>3, StepUntouched DEF Kinds

LEMMA DeriveUntouched ==
  ASSUME UInv, left > 0, AddDeriveToStruct \/ RemoveDeriveFromStruct
  PROVE  orig' \in Programs /\ Untouched'
<1>1. PICK n \in StructNames, ds \in Traits, flt \in Filters :
        \E q, c, ns :
           Step("derive", ns, q, c) /\ (q = DeriveAdded(prog, n, ds, flt) \/ q = DeriveRemoved(prog, n, ds, flt))
  BY DEF AddDeriveToStruct, RemoveDeriveFromStruct
<1>2. PICK q, c, ns :
        Step("derive", ns, q, c) /\ (q = DeriveAdded(prog, n, ds, flt) \/ q = DeriveRemoved(prog, n, ds, flt))
  BY <1>1
<1>3. Keeps(prog, q, ns)
  BY <1>2, DeriveKeeps, TraitsAssumption DEF UInv, TInv
<1>4. QED
  BY <1>2, <1>3, StepUntouched DEF Kinds

LEMMA UntouchedInit == ASSUME Init PROVE UInv
<1>1. TInv
  BY TypedInit
<1>2. QED
  BY <1>1 DEF Init, UInv, Untouched

LEMMA UntouchedNext == ASSUME UInv, [Next]_vars PROVE UInv'
<1>1. TInv'
  BY TypedNext DEF UInv
<1>2. CASE Next
  <2>1. orig' \in Programs /\ Untouched'
    BY <1>2, RenameUntouched, SignatureUntouched, InlineUntouched, ExtractUntouched, MoveUntouched,
       DeriveUntouched DEF Next
  <2>2. QED
    BY <1>1, <2>1 DEF UInv
<1>3. CASE UNCHANGED vars
  <2>1. orig' \in Programs /\ Untouched'
    BY <1>3 DEF vars, UInv, Untouched
  <2>2. QED
    BY <1>1, <2>1 DEF UInv
<1>4. QED
  BY <1>2, <1>3

\* A test that the plan leaves out has, in itself and in every function it can
\* reach, nothing that the plan changed, for every program and every plan.
THEOREM SkippedStayUntouched == Spec => []SkippedUntouched
<1>1. ASSUME UInv PROVE SkippedUntouched
  <2>1. SUFFICES ASSUME "extract" \notin kinds, NEW t \in Skipped \ anchors,
                        NEW n \in Reachable(orig, t) \cup {t}
                 PROVE  Read(prog, n) = Read(orig, n)
    BY DEF SkippedUntouched
  <2>2. Reachable(orig, t) \cap anchors = {}
    <3>1. t \in Tests(orig) \ Impacted(orig, anchors)
      BY DEF Skipped
    <3>2. QED
      BY <3>1 DEF Impacted
  <2>3. FnIdents(orig, t) \subseteq Reachable(orig, t) /\ Closed(orig, Reachable(orig, t))
    BY <1>1, ReachableClosed, ProgramsAssumption DEF UInv, IsProgram
  <2>4. FnIdents(orig, n) \subseteq Reachable(orig, t)
    BY <2>3 DEF Closed
  <2>5. n \notin anchors /\ FnIdents(orig, n) \cap anchors = {}
    BY <2>2, <2>4
  <2>6. QED
    BY <1>1, <2>1, <2>5 DEF UInv, Untouched
<1>2. Init => UInv
  BY UntouchedInit
<1>3. UInv /\ [Next]_vars => UInv'
  BY UntouchedNext
<1>4. QED
  BY <1>1, <1>2, <1>3, PTL DEF Spec
=============================================================================
