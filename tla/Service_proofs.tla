--------------------------- MODULE Service_proofs ---------------------------
(* What the handlers of Service compute: sequences and maps, the text a plan  *)
(* makes of a text, and the listings of a history.                            *)
EXTENDS Service, TLAPS, FiniteSetTheorems, WellFoundedInduction

-----------------------------------------------------------------------------
(* Pipes and maps.                                                            *)
ASeq(s) == \E S : s \in Seq(S)

LEMMA AppendFacts ==
  ASSUME NEW s, ASeq(s), NEW x
  PROVE  /\ ASeq(Append(s, x)) /\ Len(s) \in Nat /\ DOMAIN s = 1..Len(s)
         /\ Len(Append(s, x)) = Len(s) + 1 /\ Append(s, x)[Len(s) + 1] = x
         /\ \A i \in 1..Len(s) : Append(s, x)[i] = s[i]
         /\ ToSet(Append(s, x)) = ToSet(s) \cup {x}
<1>1. PICK S : s \in Seq(S)
  BY DEF ASeq
<1>2. s \in Seq(S \cup {x}) /\ Append(s, x) \in Seq(S \cup {x})
  BY <1>1
<1>3. /\ Len(s) \in Nat /\ DOMAIN s = 1..Len(s) /\ DOMAIN Append(s, x) = 1..(Len(s) + 1)
      /\ Len(Append(s, x)) = Len(s) + 1 /\ Append(s, x)[Len(s) + 1] = x
      /\ \A i \in 1..Len(s) : Append(s, x)[i] = s[i]
  BY <1>1, <1>2
<1>4. ToSet(Append(s, x)) = ToSet(s) \cup {x}
  BY <1>3 DEF ToSet
<1>5. QED
  BY <1>2, <1>3, <1>4 DEF ASeq

LEMMA TailFacts ==
  ASSUME NEW s, ASeq(s), s # <<>>
  PROVE  /\ ASeq(Tail(s)) /\ Len(s) \in Nat \ {0} /\ DOMAIN s = 1..Len(s)
         /\ Head(s) = s[1] /\ Len(Tail(s)) = Len(s) - 1
         /\ \A i \in 1..(Len(s) - 1) : Tail(s)[i] = s[i + 1]
         /\ Head(s) \in ToSet(s) /\ ToSet(Tail(s)) \subseteq ToSet(s)
<1>1. PICK S : s \in Seq(S)
  BY DEF ASeq
<1>2. /\ Tail(s) \in Seq(S) /\ Len(s) \in Nat \ {0} /\ DOMAIN s = 1..Len(s)
      /\ Head(s) = s[1] /\ Len(Tail(s)) = Len(s) - 1 /\ DOMAIN Tail(s) = 1..(Len(s) - 1)
      /\ \A i \in 1..(Len(s) - 1) : Tail(s)[i] = s[i + 1]
  BY <1>1
<1>3. Head(s) \in ToSet(s) /\ ToSet(Tail(s)) \subseteq ToSet(s)
  BY <1>2 DEF ToSet
<1>4. QED
  BY <1>2, <1>3 DEF ASeq

LEMMA PipeFacts ==
  /\ \A s, x : ASeq(s) => ASeq(Append(s, x)) /\ ToSet(Append(s, x)) = ToSet(s) \cup {x}
  /\ \A s : ASeq(s) /\ s # <<>> =>
       ASeq(Tail(s)) /\ Head(s) \in ToSet(s) /\ ToSet(Tail(s)) \subseteq ToSet(s)
BY AppendFacts, TailFacts

LEMMA NoElements == Len(<<>>) = 0 /\ ASeq(<<>>) /\ ToSet(<<>>) = {}
<1>1. <<>> \in Seq(Nat)
  OBVIOUS
<1>a. Len(<<>>) = 0
  BY <1>1
<1> DEFINE e == <<>>
<1>0. e \in Seq(Nat) /\ Len(e) = 0
  BY <1>1, <1>a
<1> HIDE DEF e
<1>2. ToSet(e) = {}
  <2>1. DOMAIN e = 1..0
    BY <1>0
  <2>2. QED
    BY <2>1 DEF ToSet
<1>3. ASeq(<<>>)
  BY <1>1 DEF ASeq
<1>4. QED
  BY <1>1, <1>2, <1>3 DEF e

LEMMA WithFacts ==
  ASSUME NEW f, NEW x, NEW y
  PROVE  /\ DOMAIN With(f, x, y) = DOMAIN f \cup {x} /\ With(f, x, y)[x] = y
         /\ \A z \in DOMAIN f : z # x => With(f, x, y)[z] = f[z]
BY DEF With

-----------------------------------------------------------------------------
(* What a plan makes of a text: the fold of its operations.  Induction is by  *)
(* a least counterexample.                                                    *)
LEMMA Least ==
  ASSUME NEW Q, Q \subseteq Nat, Q # {}
  PROVE  \E n \in Q : \A m \in Q : n <= m
<1> DEFINE R == OpToRel(<, Nat)
<1>1. IsWellFoundedOn(R, Nat)
  BY NatLessThanWellFounded, Zenon
<1>2. \A x, y \in Nat : x < y => <<x, y>> \in R
  BY DEF OpToRel
<1> HIDE DEF R
<1>3. PICK n \in Q : \A m \in Q : <<m, n>> \notin R
  BY <1>1, WFMin
<1>4. \A m \in Q : m \in Nat /\ n \in Nat /\ ~(m < n)
  BY <1>2, <1>3
<1>5. \A m \in Q : n <= m
  BY <1>4
<1>6. QED
  BY <1>3, <1>5

LEMMA MaxFacts ==
  ASSUME NEW n \in Nat, NEW s \in SUBSET (1..n), s # {}
  PROVE  Max(s) \in s
<1> DEFINE Q == {n - i : i \in s}
<1>1. Q \subseteq Nat /\ Q # {}
  <2>1. \A i \in s : n - i \in Nat
    OBVIOUS
  <2>2. PICK i : i \in s
    OBVIOUS
  <2>3. n - i \in Q
    BY <2>2
  <2>4. QED
    BY <2>1, <2>3
<1>2. PICK q \in Q : \A m \in Q : q <= m
  BY <1>1, Least
<1>3. PICK x \in s : q = n - x
  OBVIOUS
<1>4. \A y \in s : x >= y
  <2>1. ASSUME NEW y \in s PROVE x >= y
    <3>1. n - x <= n - y /\ x \in Nat /\ y \in Nat
      BY <1>2, <1>3
    <3>2. QED
      BY <3>1
  <2>2. QED
    BY <2>1
<1>5. QED
  BY <1>4 DEF Max

\* What a plan may make of a text by the operations of s, when g has that of fewer.
After(plan, t, g, s) ==
    IF s = {} THEN {Outcome(t, FALSE)} ELSE UNION {Then(plan[Max(s)], o) : o \in g[s \ {Max(s)}]}

LEMMA FoldExists ==
  ASSUME NEW plan, ASeq(plan), NEW t
  PROVE  \E g : g = [s \in SUBSET (DOMAIN plan) |-> After(plan, t, g, s)]
<1> DEFINE D == DOMAIN plan
           Upto(k) == \E g : /\ g = [s \in SUBSET D |-> g[s]]
                             /\ \A s \in SUBSET D : Cardinality(s) <= k => g[s] = After(plan, t, g, s)
           Q == {k \in Nat : ~Upto(k)}
<1>1. PICK n \in Nat : D = 1..n
  BY DEF ASeq
<1>2. IsFiniteSet(D)
  <2>1. 1 \in Int /\ n \in Int
    OBVIOUS
  <2>2. QED
    BY <1>1, <2>1, FS_Interval
<1>3. ASSUME NEW s \in SUBSET D
      PROVE  /\ IsFiniteSet(s) /\ Cardinality(s) \in Nat
             /\ s = {} \/ Cardinality(s) # 0
             /\ s # {} => /\ s \ {Max(s)} \in SUBSET D
                          /\ Cardinality(s \ {Max(s)}) = Cardinality(s) - 1
  <2>1. IsFiniteSet(s)
    BY <1>2, FS_Subset
  <2>2. Cardinality(s) \in Nat /\ (s = {} \/ Cardinality(s) # 0)
    BY <2>1, FS_CardinalityType, FS_EmptySet
  <2>3. ASSUME s # {} PROVE Cardinality(s \ {Max(s)}) = Cardinality(s) - 1
    <3>1. Max(s) \in s
      BY <1>1, <2>3, MaxFacts
    <3>2. QED
      BY <2>1, <3>1, FS_RemoveElement
  <2>4. QED
    BY <2>1, <2>2, <2>3
<1> HIDE DEF D
<1>4. Upto(0)
  <2> DEFINE g == [s \in SUBSET D |-> {Outcome(t, FALSE)}]
  <2>1. ASSUME NEW s \in SUBSET D, Cardinality(s) <= 0 PROVE s = {}
    <3>1. Cardinality(s) \in Nat /\ (s = {} \/ Cardinality(s) # 0)
      BY <1>3
    <3>2. QED
      BY <2>1, <3>1
  <2>2. \A s \in SUBSET D : Cardinality(s) <= 0 => g[s] = After(plan, t, g, s)
    BY <2>1 DEF After
  <2>3. g = [s \in SUBSET D |-> g[s]]
    OBVIOUS
  <2> HIDE DEF g
  <2>4. QED
    BY <2>2, <2>3
<1>5. ASSUME NEW k \in Nat, Upto(k) PROVE Upto(k + 1)
  <2>1. PICK g : /\ g = [s \in SUBSET D |-> g[s]]
                 /\ \A s \in SUBSET D : Cardinality(s) <= k => g[s] = After(plan, t, g, s)
    BY <1>5
  <2> DEFINE h == [s \in SUBSET D |-> IF Cardinality(s) <= k THEN g[s] ELSE After(plan, t, g, s)]
  <2>2. ASSUME NEW s \in SUBSET D, Cardinality(s) <= k + 1 PROVE h[s] = After(plan, t, h, s)
    <3>1. h[s] = After(plan, t, g, s)
      BY <2>1
    <3>2. ASSUME s # {} PROVE h[s \ {Max(s)}] = g[s \ {Max(s)}]
      <4>1. PICK r \in SUBSET D : r = s \ {Max(s)} /\ Cardinality(r) = Cardinality(s) - 1
        BY <1>3, <3>2
      <4>2. Cardinality(s) \in Nat
        BY <1>3
      <4>3. Cardinality(r) <= k
        BY <2>2, <4>1, <4>2
      <4>4. h[r] = g[r]
        BY <4>3
      <4>5. QED
        BY <4>1, <4>4
    <3> HIDE DEF h
    <3>3. QED
      BY <3>1, <3>2 DEF After
  <2>3. h = [s \in SUBSET D |-> h[s]]
    OBVIOUS
  <2> HIDE DEF h
  <2>4. QED
    BY <2>2, <2>3
<1>6. Q = {}
  <2>1. SUFFICES ASSUME Q # {} PROVE FALSE
    OBVIOUS
  <2>2. PICK k \in Q : \A m \in Q : k <= m
    BY <2>1, Least
  <2>3. k \in Nat /\ ~Upto(k)
    OBVIOUS
  <2> HIDE DEF Upto
  <2>4. k # 0
    BY <1>4, <2>3
  <2>5. k - 1 \in Nat /\ k - 1 \notin Q
    BY <2>2, <2>3, <2>4
  <2>6. Upto((k - 1) + 1)
    BY <1>5, <2>5
  <2>7. QED
    BY <2>3, <2>6
<1>7. PICK m \in Nat : m = Cardinality(D)
  BY <1>2, FS_CardinalityType DEF D
<1>8. \A s \in SUBSET D : Cardinality(s) <= m
  BY <1>2, <1>7, FS_Subset
<1>9. Upto(m)
  BY <1>6
<1>10. PICK g : /\ g = [s \in SUBSET D |-> g[s]]
                /\ \A s \in SUBSET D : Cardinality(s) <= m => g[s] = After(plan, t, g, s)
  BY <1>9
<1>11. g = [s \in SUBSET D |-> After(plan, t, g, s)]
  BY <1>8, <1>10
<1>12. QED
  BY <1>11 DEF D

LEMMA FoldFacts ==
  ASSUME NEW plan, ASeq(plan), NEW t
  PROVE  \E g : /\ g = [s \in SUBSET (DOMAIN plan) |-> After(plan, t, g, s)]
                /\ Shadows(plan, t) = g[DOMAIN plan]
<1> DEFINE it == CHOOSE g : g = [s \in SUBSET (DOMAIN plan) |-> After(plan, t, g, s)]
<1>1. it = [s \in SUBSET (DOMAIN plan) |-> After(plan, t, it, s)]
  BY FoldExists
<1>2. Shadows(plan, t) = it[DOMAIN plan]
  BY Zenon DEF Shadows, FoldLeft, MapThenFoldSet, After
<1> HIDE DEF it
<1>3. QED
  BY <1>1, <1>2

\* h[k] is what the first k operations of a plan of n may make of a text.
Staged(plan, t, n, h) ==
    /\ n \in Nat /\ DOMAIN plan = 1..n
    /\ h[0] = {Outcome(t, FALSE)} /\ h[n] = Shadows(plan, t)
    /\ \A k \in 1..n : h[k] = UNION {Then(plan[k], o) : o \in h[k - 1]}

LEMMA Stages ==
  ASSUME NEW plan, ASeq(plan), NEW t
  PROVE  \E n, h : Staged(plan, t, n, h)
<1> DEFINE D == DOMAIN plan
<1>1. PICK g : g = [s \in SUBSET D |-> After(plan, t, g, s)] /\ Shadows(plan, t) = g[D]
  BY FoldFacts
<1>2. PICK n \in Nat : D = 1..n
  BY DEF ASeq
<1> DEFINE h == [k \in 0..n |-> g[1..k]]
<1>3. h[0] = {Outcome(t, FALSE)}
  <2>1. 1..0 = {} /\ {} \in SUBSET D /\ 0 \in 0..n
    BY <1>2
  <2>2. h[0] = g[{}]
    BY <2>1
  <2>3. g[{}] = After(plan, t, g, {})
    BY <1>1, <2>1
  <2>4. QED
    BY <2>2, <2>3 DEF After
<1>4. ASSUME NEW k \in 1..n PROVE h[k] = UNION {Then(plan[k], o) : o \in h[k - 1]}
  <2>1. PICK s : s = 1..k
    OBVIOUS
  <2>a. s \subseteq 1..n /\ k \in s /\ \A y \in s : k >= y
    BY <2>1
  <2>b. s \ {k} = 1..(k - 1)
    BY <2>1
  <2>c. k \in 0..n /\ k - 1 \in 0..n
    OBVIOUS
  <2>2. /\ s \in SUBSET D /\ s # {} /\ k \in s /\ \A y \in s : k >= y
        /\ s \ {k} = 1..(k - 1) /\ k \in 0..n /\ k - 1 \in 0..n
    BY <1>2, <2>a, <2>b, <2>c
  <2>3. Max(s) = k
    <3>1. \A x \in s : (\A y \in s : x >= y) => x = k
      BY <2>1, <2>2
    <3>2. QED
      BY <2>2, <3>1 DEF Max
  <2>4. g[s] = UNION {Then(plan[k], o) : o \in g[s \ {k}]}
    <3>1. g[s] = After(plan, t, g, s)
      BY <1>1, <2>2
    <3>2. QED
      BY <2>2, <2>3, <3>1 DEF After
  <2>5. h[k] = g[s] /\ h[k - 1] = g[s \ {k}]
    BY <2>1, <2>2
  <2> HIDE DEF h
  <2>6. QED
    BY <2>4, <2>5
<1>5. h[n] = Shadows(plan, t)
  BY <1>1, <1>2
<1> HIDE DEF h
<1>6. Staged(plan, t, n, h)
  BY <1>2, <1>3, <1>4, <1>5 DEF Staged
<1>7. QED
  BY <1>6

\* The names of an outcome are those of the text and the one the operation names.
LEMMA EditNames ==
  ASSUME NEW op, NEW t, NEW e \in Edits(op, t)
  PROVE  \A x \in e.text.names : x \in t.names \/ (op.op \in Naming /\ x = op.new_name)
<1>1. CASE op.op = "rename_function_typed"
  <2>1. CASE \E r \in BOOLEAN : e = Outcome(t, r)
    BY <2>1 DEF Outcome
  <2>2. CASE \E N \in TypedNames(op, t.names) : e = Outcome(Rewritten(op, t, N), FALSE)
    <3>1. PICK N \in TypedNames(op, t.names) : e = Outcome(Rewritten(op, t, N), FALSE)
      BY <2>2
    <3>2. e.text.names = N
      BY <3>1 DEF Outcome, Rewritten
    <3>3. N \subseteq t.names \cup {op.new_name}
      BY <3>1 DEF TypedNames
    <3>4. QED
      BY <1>1, <3>2, <3>3 DEF Naming
  <2>3. QED
    BY <1>1, <2>1, <2>2 DEF Edits
<1>2. CASE op.op # "rename_function_typed"
  <2>1. PICK p : p = Planner(op, t)
    OBVIOUS
  <2>2. \/ e.text = t
        \/ e.text = Rewritten(op, t, NamesAfter(op, t.names, p.scope))
    BY <1>2, <2>1 DEF Edits, Outcome
  <2>3. \A x \in NamesAfter(op, t.names, p.scope) :
           x \in t.names \/ (op.op \in {"rename_function", "extract_function"} /\ x = op.new_name)
    BY DEF NamesAfter
  <2>4. QED
    BY <2>2, <2>3 DEF Rewritten, Naming
<1>3. QED
  BY <1>1, <1>2

\* A plan adds no names but those its operations are told to make: new names of
\* renames, by name or by rust-analyzer, and of extracted functions (plan.rs,
\* apply_plan_with_resolver).
LEMMA ShadowNames ==
  ASSUME NEW plan, ASeq(plan), NEW t, NEW o \in Shadows(plan, t)
  PROVE  o.text.names \subseteq t.names \cup NewNames(plan)
<1> DEFINE N == t.names \cup NewNames(plan)
           Within(S) == \A x \in S : x.text.names \subseteq N
<1>1. PICK n, h : Staged(plan, t, n, h)
  BY Stages
<1>2. n \in Nat /\ DOMAIN plan = 1..n
  BY <1>1 DEF Staged
<1>3. Within(h[0])
  BY <1>1 DEF Staged, Outcome
<1>4. ASSUME NEW k \in 1..n, Within(h[k - 1]) PROVE Within(h[k])
  <2>1. SUFFICES ASSUME NEW x \in h[k] PROVE x.text.names \subseteq N
    OBVIOUS
  <2>2. PICK y \in h[k - 1] : x \in Then(plan[k], y)
    BY <1>1, <2>1 DEF Staged
  <2>3. PICK e \in Edits(plan[k], y.text) : x = Outcome(e.text, y.errors \/ e.errors)
    BY <2>2 DEF Then
  <2>4. x.text = e.text
    BY <2>3 DEF Outcome
  <2>5. plan[k] \in ToSet(plan)
    BY <1>2 DEF ToSet
  <2>6. y.text.names \subseteq N
    BY <1>4, <2>2
  <2>7. \A z \in e.text.names : z \in y.text.names \/ z \in NewNames(plan)
    BY <2>5, EditNames DEF NewNames
  <2>8. QED
    BY <2>4, <2>6, <2>7
<1> HIDE DEF Within
<1>5. \A k \in 0..n : Within(h[k])
  <2> DEFINE Q == {k \in 0..n : ~Within(h[k])}
  <2>1. SUFFICES ASSUME Q # {} PROVE FALSE
    OBVIOUS
  <2>a. Q \subseteq Nat
    BY <1>2
  <2> HIDE DEF Q
  <2>2. PICK k \in Q : \A m \in Q : k <= m
    BY <2>1, <2>a, Least
  <2> USE DEF Q
  <2>3. k \in 1..n /\ k - 1 \in 0..n
    BY <1>2, <1>3
  <2>4. k - 1 \notin Q
    BY <2>2, <2>3
  <2>5. QED
    BY <1>4, <2>3, <2>4
<1>6. h[n] = Shadows(plan, t) /\ n \in 0..n
  BY <1>1, <1>2 DEF Staged
<1>7. QED
  BY <1>5, <1>6 DEF Within

\* Unless rust-analyzer is asked, a plan always makes the same of the same text.
LEMMA ShadowIsOne ==
  ASSUME NEW plan, ASeq(plan), ~AsksServer(plan), NEW t
  PROVE  \A o, u \in Shadows(plan, t) : o = u
<1> DEFINE One(S) == \A x, y \in S : x = y
<1>1. PICK n, h : Staged(plan, t, n, h)
  BY Stages
<1>2. n \in Nat /\ DOMAIN plan = 1..n
  BY <1>1 DEF Staged
<1>3. One(h[0])
  BY <1>1 DEF Staged
<1>4. ASSUME NEW k \in 1..n, One(h[k - 1]) PROVE One(h[k])
  <2>1. SUFFICES ASSUME NEW x \in h[k], NEW y \in h[k] PROVE x = y
    OBVIOUS
  <2>2. PICK v \in h[k - 1] : x \in Then(plan[k], v)
    BY <1>1, <2>1 DEF Staged
  <2>3. PICK w \in h[k - 1] : y \in Then(plan[k], w)
    BY <1>1, <2>1 DEF Staged
  <2>4. v = w
    BY <1>4, <2>2, <2>3
  <2>5. plan[k] \in ToSet(plan)
    BY <1>2 DEF ToSet
  <2>6. plan[k].op # "rename_function_typed"
    BY <2>5 DEF AsksServer
  <2>7. \E e : Edits(plan[k], v.text) = {e}
    BY <2>6 DEF Edits
  <2>8. QED
    BY <2>2, <2>3, <2>4, <2>7 DEF Then
<1> HIDE DEF One
<1>5. \A k \in 0..n : One(h[k])
  <2> DEFINE Q == {k \in 0..n : ~One(h[k])}
  <2>1. SUFFICES ASSUME Q # {} PROVE FALSE
    OBVIOUS
  <2>a. Q \subseteq Nat
    BY <1>2
  <2> HIDE DEF Q
  <2>2. PICK k \in Q : \A m \in Q : k <= m
    BY <2>1, <2>a, Least
  <2> USE DEF Q
  <2>3. k \in 1..n /\ k - 1 \in 0..n
    BY <1>2, <1>3
  <2>4. k - 1 \notin Q
    BY <2>2, <2>3
  <2>5. QED
    BY <1>4, <2>3, <2>4
<1>6. h[n] = Shadows(plan, t) /\ n \in 0..n
  BY <1>1, <1>2 DEF Staged
<1>7. QED
  BY <1>5, <1>6 DEF One

-----------------------------------------------------------------------------
(* What a history shows.                                                      *)

\* The listings of a finite set are its permutations by age.
LEMMA ListingFacts ==
  ASSUME NEW E, IsFiniteSet(E), NEW r \in NewestFirst(E)
  PROVE  \E n \in Nat : /\ DOMAIN r = 1..n /\ r \in Seq(E) /\ Len(r) = n
                        /\ \A e \in E : \E q \in 1..n : r[q] = e
                        /\ \A p, q \in 1..n : p < q => r[q].at <= r[p].at
<1>1. PICK s \in Listings(E) : r = Reverse(s)
  BY DEF NewestFirst
<1>2. PICK n \in Nat : n = Cardinality(E)
  BY FS_CardinalityType
<1>3. /\ s \in [1..n -> E] /\ \A i, j \in 1..n : i # j => s[i] # s[j]
      /\ \A i, j \in DOMAIN s : i < j => s[i].at <= s[j].at
  BY <1>1, <1>2 DEF Listings, SetToSeqs
<1>4. s \in Seq(E) /\ Len(s) = n
  BY <1>3
<1>5. \A e \in E : \E q \in 1..n : s[q] = e
  <2>1. s \in Injection(1..n, E)
    BY <1>3 DEF Injection, IsInjective
  <2>2. Cardinality(1..n) = n
    <3>1. 1 \in Int /\ n \in Int
      OBVIOUS
    <3>2. Cardinality(1..n) = IF 1 > n THEN 0 ELSE n - 1 + 1
      BY <3>1, FS_Interval
    <3>3. QED
      BY <3>2
  <2>3. s \in Surjection(1..n, E)
    BY <1>2, <2>1, <2>2, FS_Injection
  <2>4. QED
    BY <2>3 DEF Surjection
<1>6. r = [i \in 1..n |-> s[(n - i) + 1]]
  BY <1>1, <1>4 DEF Reverse
<1>7. \A i \in 1..n : (n - i) + 1 \in 1..n /\ r[i] = s[(n - i) + 1] /\ (n - ((n - i) + 1)) + 1 = i
  BY <1>6
<1>8. r \in [1..n -> E]
  BY <1>3, <1>6, <1>7
<1>9. \A e \in E : \E q \in 1..n : r[q] = e
  <2>1. ASSUME NEW e \in E PROVE \E q \in 1..n : r[q] = e
    <3>1. PICK q \in 1..n : s[q] = e
      BY <1>5
    <3>2. PICK t : t = (n - q) + 1
      OBVIOUS
    <3>3. t \in 1..n /\ (n - t) + 1 = q
      BY <1>7, <3>2
    <3>4. r[t] = e
      BY <1>7, <3>1, <3>3
    <3>5. QED
      BY <3>3, <3>4
  <2>2. QED
    BY <2>1
<1>10. ASSUME NEW p \in 1..n, NEW q \in 1..n, p < q PROVE r[q].at <= r[p].at
  <2>1. PICK t, u : t = (n - p) + 1 /\ u = (n - q) + 1
    OBVIOUS
  <2>2. t \in 1..n /\ u \in 1..n /\ u < t /\ r[p] = s[t] /\ r[q] = s[u]
    BY <1>7, <1>10, <2>1
  <2>3. QED
    BY <1>3, <2>2
<1>11. r \in Seq(E) /\ Len(r) = n /\ DOMAIN r = 1..n
  BY <1>8
<1>12. QED
  BY <1>9, <1>10, <1>11

\* What a listing leaves out at its limit is no newer than what it shows (memory.rs,
\* Memory::history).
LEMMA HistoryShowsNewest ==
  ASSUME NEW S, IsFiniteSet(S), NEW limit \in Nat, NEW h \in Histories(Entries(S), All, limit)
  PROVE  /\ ToSet(Ids(h)) \subseteq S
         /\ \A i \in S \ ToSet(Ids(h)), j \in ToSet(Ids(h)) : made[i].at <= made[j].at
<1> DEFINE E == Entries(S)
<1>1. {e \in E : Matches(e, All)} = E
  BY DEF Matches, All
<1>2. IsFiniteSet(E)
  <2> DEFINE f == [i \in S |-> Entry(i)]
  <2>1. f \in Surjection(S, E)
    BY DEF Surjection, Entries
  <2>2. QED
    BY <2>1, FS_Surjection
<1>a. \A i : Entry(i).id = i /\ Entry(i).at = made[i].at
  BY DEF Entry
<1>b. \A i \in S : Entry(i) \in E
  BY DEF Entries
<1>c. ASSUME NEW e \in E PROVE e.id \in S /\ e.at = made[e.id].at
  <2>1. PICK i \in S : e = Entry(i)
    BY DEF Entries
  <2>2. QED
    BY <1>a, <2>1
<1>3. /\ \A i \in S : Entry(i) \in E
      /\ \A e \in E : e.id \in S /\ e.at = made[e.id].at
      /\ \A i : Entry(i).id = i /\ Entry(i).at = made[i].at
  BY <1>a, <1>b, <1>c
<1> HIDE DEF E
<1>4. PICK r \in NewestFirst(E) : h = IF limit = 0 THEN r ELSE Truncate(r, limit)
  BY <1>1 DEF Histories, E
<1>5. PICK n \in Nat : /\ DOMAIN r = 1..n /\ r \in Seq(E) /\ Len(r) = n
                       /\ \A e \in E : \E q \in 1..n : r[q] = e
                       /\ \A p, q \in 1..n : p < q => r[q].at <= r[p].at
  BY <1>2, <1>4, ListingFacts
<1>6. PICK m \in 0..n : DOMAIN h = 1..m /\ \A p \in 1..m : h[p] = r[p]
  <2>1. CASE limit = 0
    BY <1>4, <1>5, <2>1
  <2>2. CASE limit # 0
    <3>1. PICK m \in Nat : m = IF n < limit THEN n ELSE limit
      OBVIOUS
    <3>2. m \in 0..n /\ h = SubSeq(r, 1, m)
      BY <1>4, <1>5, <2>2, <3>1 DEF Truncate
    <3>3. DOMAIN h = 1..m /\ \A p \in 1..m : h[p] = r[p]
      BY <1>5, <3>2
    <3>4. QED
      BY <3>2, <3>3
  <2>3. QED
    BY <2>1, <2>2
<1>7. ASSUME NEW j \in ToSet(Ids(h))
      PROVE  \E p \in 1..m : r[p].id = j /\ r[p].at = made[j].at /\ j \in S
  <2>1. PICK p \in 1..m : j = h[p].id
    BY <1>6 DEF ToSet, Ids
  <2>2. p \in 1..n
    OBVIOUS
  <2>3. r[p] \in E
    BY <1>5, <2>2
  <2>4. QED
    BY <1>3, <1>6, <2>1, <2>3
<1>8. ASSUME NEW i \in S \ ToSet(Ids(h))
      PROVE  \E q \in 1..n : q \notin 1..m /\ r[q].at = made[i].at
  <2>1. PICK q \in 1..n : r[q] = Entry(i)
    BY <1>3, <1>5
  <2>2. q \notin 1..m
    <3>1. SUFFICES ASSUME q \in 1..m PROVE FALSE
      OBVIOUS
    <3>2. h[q].id = i
      BY <1>3, <1>6, <2>1, <3>1
    <3>3. i \in ToSet(Ids(h))
      BY <1>6, <3>1, <3>2 DEF ToSet, Ids
    <3>4. QED
      BY <3>3
  <2>3. QED
    BY <1>3, <2>1, <2>2
<1>9. ASSUME NEW i \in S \ ToSet(Ids(h)), NEW j \in ToSet(Ids(h)) PROVE made[i].at <= made[j].at
  <2>1. PICK p \in 1..m : r[p].at = made[j].at
    BY <1>7
  <2>2. PICK q \in 1..n : q \notin 1..m /\ r[q].at = made[i].at
    BY <1>8
  <2>3. p \in 1..n /\ p < q
    BY <2>2
  <2>4. QED
    BY <1>5, <2>1, <2>2, <2>3
<1>10. QED
  BY <1>7, <1>9
=============================================================================
