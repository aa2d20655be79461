-------------------------- MODULE ReactGraphProofs --------------------------
(***************************************************************************)
(* Theorems of ReactGraph for every catalog, every set of configurations,  *)
(* packages and step budgets and every number of runs and changes.         *)
(*                                                                         *)
(* The registry of tools and the skills are made by folding over what is   *)
(* configured.  A fold over a sequence is reasoned about by the function   *)
(* of its results: the result of the first k items, for every k.           *)
(***************************************************************************)
EXTENDS ReactGraph, FiniteSetTheorems, SequenceTheorems, WellFoundedInduction, TLAPS

\* A non-empty set of naturals has a least element.
LEMMA LeastNatural ==
  ASSUME NEW S \in SUBSET Nat, S # {}
  PROVE  \E m \in S : \A n \in S : m <= n
<1> DEFINE R == {p \in Nat \X Nat : p[1] < p[2]}
<1>1. IsWellFoundedOn(R, Nat)
  BY NatLessThanWellFounded DEF OpToRel
<1> HIDE DEF R
<1>2. PICK m \in S : \A n \in S : <<n, m>> \notin R
  BY <1>1, WFMin
<1>3. \A n \in S : ~(n < m)
  BY <1>2 DEF R
<1> QED
  BY <1>3

\* Induction up to n: a set that holds 0 and every successor holds all.
LEMMA CountUp ==
  ASSUME NEW n \in Nat, NEW S, 0 \in S, \A k \in 1..n : k - 1 \in S => k \in S
  PROVE  0..n \subseteq S
<1> DEFINE B == {k \in 0..n : k \notin S}
<1>1. SUFFICES ASSUME B # {} PROVE FALSE
  OBVIOUS
<1>2. B \in SUBSET Nat
  OBVIOUS
<1>3. PICK m \in B : \A k \in B : m <= k
  <2> HIDE DEF B
  <2> QED
    BY <1>1, <1>2, LeastNatural
<1>4. m \in 1..n /\ m - 1 \in 0..n
  BY <1>3
<1>5. m - 1 \notin B
  BY <1>3, <1>4
<1> QED
  BY <1>3, <1>4, <1>5

LEMMA MaxOfRange ==
  ASSUME NEW n \in Nat, NEW s \in SUBSET (1..n), s # {}
  PROVE  Max(s) \in s /\ \A y \in s : y <= Max(s)
<1> DEFINE D == {d \in 0..n : n - d \in s}
<1>1. D \in SUBSET Nat /\ D # {}
  <2>1. PICK y \in s : TRUE
    OBVIOUS
  <2>2. n - y \in 0..n /\ n - (n - y) = y
    BY <2>1
  <2>3. n - y \in D
    BY <2>1, <2>2
  <2>4. D \in SUBSET Nat
    OBVIOUS
  <2> QED
    BY <2>3, <2>4
<1>2. PICK d \in D : \A e \in D : d <= e
  <2> HIDE DEF D
  <2> QED
    BY <1>1, LeastNatural
<1>3. n - d \in s /\ \A y \in s : n - d >= y
  <2>1. ASSUME NEW y \in s PROVE n - d >= y
    <3>1. n - y \in 0..n /\ n - (n - y) = y
      OBVIOUS
    <3>2. n - y \in D
      BY <3>1
    <3> QED
      BY <1>2, <3>1, <3>2
  <2> QED
    BY <2>1
<1>4. \A y \in s : y \in Int
  OBVIOUS
<1>5. Max(s) \in s /\ \A y \in s : Max(s) >= y
  BY <1>3 DEF Max
<1> QED
  BY <1>4, <1>5

LEMMA MaxOfPrefix ==
  ASSUME NEW k \in Nat \ {0}
  PROVE  Max(1..k) = k /\ (1..k) \ {k} = 1..(k - 1)
<1>1. 1..k \in SUBSET (1..k) /\ 1..k # {}
  OBVIOUS
<1>2. Max(1..k) \in 1..k /\ \A y \in 1..k : y <= Max(1..k)
  BY <1>1, MaxOfRange
<1> QED
  BY <1>2

LEMMA MaxOfTwo ==
  ASSUME NEW a \in Int, NEW b \in Int
  PROVE  Max({a, b}) = IF a >= b THEN a ELSE b
<1> DEFINE m == IF a >= b THEN a ELSE b
<1>1. Max({a, b}) \in {a, b} /\ \A y \in {a, b} : Max({a, b}) >= y
  <2>1. m \in {a, b} /\ \A y \in {a, b} : m >= y
    OBVIOUS
  <2> QED
    BY <2>1 DEF Max
<1> QED
  BY <1>1

\* g is the fold of n items from base, where item k takes a result d to f[<<d, k>>]:
\* a function of the sets of items, as FoldLeft is defined.
IsFold(g, n, base, f) ==
  \A s \in SUBSET (1..n) :
    g[s] = IF s = {} THEN base ELSE f[<<g[s \ {Max(s)}], Max(s)>>]

\* The recursion behind a fold has a solution.
LEMMA FoldExists ==
  ASSUME NEW n \in Nat, NEW D, NEW base \in D, NEW f \in [D \X (1..n) -> D]
  PROVE  \E g \in [SUBSET (1..n) -> D] : IsFold(g, n, base, f)
<1> DEFINE Solves(g, m) == IsFold(g, m, base, f)
           S == {m \in 0..n : \E g \in [SUBSET (1..m) -> D] : Solves(g, m)}
<1>1. 0 \in S
  <2> DEFINE g == [s \in SUBSET (1..0) |-> base]
  <2>1. g \in [SUBSET (1..0) -> D] /\ Solves(g, 0)
    BY DEF IsFold
  <2>2. 0 \in 0..n
    OBVIOUS
  <2> HIDE DEF Solves, g
  <2> QED
    BY <2>1, <2>2
<1>2. ASSUME NEW m \in 1..n, m - 1 \in S PROVE m \in S
  <2>1. PICK g \in [SUBSET (1..(m - 1)) -> D] : Solves(g, m - 1)
    BY <1>2
  <2> DEFINE h == [s \in SUBSET (1..m) |-> IF m \in s THEN f[<<g[s \ {m}], m>>] ELSE g[s]]
  <2>2. \A s \in SUBSET (1..m) : s \ {m} \in SUBSET (1..(m - 1)) /\ (m \notin s => s \in SUBSET (1..(m - 1)))
    OBVIOUS
  <2>3. h \in [SUBSET (1..m) -> D]
    <3>1. ASSUME NEW s \in SUBSET (1..m) PROVE h[s] \in D
      <4>1. CASE m \in s
        <5>1. g[s \ {m}] \in D
          BY <2>1, <2>2
        <5> QED
          BY <4>1, <5>1
      <4>2. CASE m \notin s
        BY <2>1, <2>2, <4>2
      <4> QED
        BY <4>1, <4>2
    <3> QED
      BY <3>1
  <2>4. ASSUME NEW s \in SUBSET (1..m)
        PROVE  h[s] = IF s = {} THEN base ELSE f[<<h[s \ {Max(s)}], Max(s)>>]
    <3>1. CASE m \in s
      <4>1. Max(s) = m
        <5>1. m \in Nat /\ s \in SUBSET (1..m) /\ s # {}
          BY <3>1
        <5>2. Max(s) \in s /\ \A y \in s : y <= Max(s)
          BY <5>1, MaxOfRange
        <5>3. m <= Max(s)
          BY <3>1, <5>2
        <5>4. Max(s) \in 1..m
          BY <5>1, <5>2
        <5> QED
          BY <5>3, <5>4
      <4>2. h[s \ {m}] = g[s \ {m}]
        OBVIOUS
      <4>3. h[s] = f[<<g[s \ {m}], m>>]
        BY <3>1
      <4> QED
        BY <3>1, <4>1, <4>2, <4>3
    <3>2. CASE m \notin s
      <4>1. s \in SUBSET (1..(m - 1)) /\ s \ {Max(s)} \in SUBSET (1..(m - 1))
        BY <2>2, <3>2
      <4>2. h[s] = g[s] /\ h[s \ {Max(s)}] = g[s \ {Max(s)}]
        BY <3>2
      <4> HIDE DEF h
      <4> QED
        BY <2>1, <4>1, <4>2 DEF IsFold
    <3> QED
      BY ONLY <3>1, <3>2
  <2> HIDE DEF h
  <2>5. Solves(h, m)
    BY <2>4 DEF IsFold
  <2> HIDE DEF Solves
  <2> QED
    BY <2>3, <2>5
<1>3. n \in S
  <2> HIDE DEF S
  <2> QED
    BY <1>1, <1>2, CountUp
<1> QED
  BY <1>3
-----------------------------------------------------------------------------
(* The built-in tools *)

Tool == [name : ToolName, risk : Risks, of : {"builtin", "mcp"}]

DistinctNames(t) == \A j, k \in DOMAIN t : t[j].name = t[k].name => j = k

LEMMA PrefixOfAppended ==
  ASSUME NEW t \in Seq(Tool), NEW x \in Tool, NEW s \in Seq(Tool), IsPrefix(s, t)
  PROVE  IsPrefix(s, Append(t, x))
<1> DEFINE a == Append(t, x)
<1>1. /\ a \in Seq(Tool) /\ Len(a) = Len(t) + 1 /\ \A k \in 1..Len(t) : a[k] = t[k]
      /\ Len(t) \in Nat
  BY AppendProperties
<1>2. Len(s) <= Len(t) /\ SubSeq(s, 1, Len(s)) = SubSeq(t, 1, Len(s)) /\ Len(s) \in Nat
  BY DEF IsPrefix
<1>3. /\ SubSeq(t, 1, Len(s)) = [k \in 1..Len(s) |-> t[k]]
      /\ SubSeq(a, 1, Len(s)) = [k \in 1..Len(s) |-> a[k]]
  BY <1>1, <1>2
<1>4. \A k \in 1..Len(s) : a[k] = t[k]
  BY <1>1, <1>2
<1>5. SubSeq(a, 1, Len(s)) = SubSeq(t, 1, Len(s))
  BY <1>3, <1>4
<1> QED
  BY <1>1, <1>2, <1>5 DEF IsPrefix

LEMMA AppendedTool ==
  ASSUME NEW t \in Seq(Tool), NEW x \in Tool, DistinctNames(t), x.name \notin NamesOf(t)
  PROVE  Append(t, x) \in Seq(Tool) /\ DistinctNames(Append(t, x))
<1> DEFINE a == Append(t, x)
<1>1. /\ a \in Seq(Tool) /\ Len(a) = Len(t) + 1 /\ a[Len(t) + 1] = x
      /\ \A k \in 1..Len(t) : a[k] = t[k]
  BY AppendProperties
<1>2. DOMAIN t = 1..Len(t) /\ DOMAIN a = 1..Len(a) /\ Len(t) \in Nat
  BY <1>1
<1>3. ASSUME NEW j \in DOMAIN a, NEW k \in DOMAIN a, a[j].name = a[k].name PROVE j = k
  <2>1. \A i \in 1..Len(t) : t[i].name # x.name
    BY <1>2 DEF NamesOf
  <2>2. CASE j \in 1..Len(t) /\ k \in 1..Len(t)
    BY <1>1, <1>2, <1>3, <2>2 DEF DistinctNames
  <2>3. CASE j = Len(t) + 1 /\ k \in 1..Len(t)
    BY <1>1, <1>3, <2>1, <2>3
  <2>4. CASE k = Len(t) + 1 /\ j \in 1..Len(t)
    BY <1>1, <1>3, <2>1, <2>4
  <2>5. CASE k = Len(t) + 1 /\ j = Len(t) + 1
    BY <2>5
  <2> QED
    BY <1>1, <1>2, <2>2, <2>3, <2>4, <2>5
<1> QED
  BY <1>1, <1>3 DEF DistinctNames

\* The tools after the first k names of the catalog.
LEMMA BuiltinFold ==
  ASSUME NEW cfg
  PROVE  \E g : /\ BuiltinTools(cfg) = g[Len(Catalog)] /\ g[0] = <<>>
                /\ \A k \in 1..Len(Catalog) :
                     g[k] = IF Catalog[k] \in Selected(cfg)
                            THEN Append(g[k - 1], BuiltinTool(Catalog[k])) ELSE g[k - 1]
<1> DEFINE n == Len(Catalog)
           Put(t, base) ==
             IF base \in Selected(cfg) THEN Append(t, BuiltinTool(base)) ELSE t
           f == [p \in Seq(Tool) \X (1..n) |-> Put(p[1], Catalog[p[2]])]
           h == CHOOSE h : h = [s \in SUBSET DOMAIN Catalog |->
                  IF s = {} THEN <<>> ELSE Put(h[s \ {Max(s)}], Catalog[Max(s)])]
<1>1. Catalog \in Seq(STRING) /\ n \in Nat /\ DOMAIN Catalog = 1..n
  BY SurfaceAssumption
<1>2. \A base \in STRING : BuiltinTool(base) \in Tool
  BY DEF BuiltinTool, Name, ToolName, Tool, Risks
<1>3. f \in [Seq(Tool) \X (1..n) -> Seq(Tool)]
  <2>1. ASSUME NEW t \in Seq(Tool), NEW k \in 1..n PROVE Put(t, Catalog[k]) \in Seq(Tool)
    <3>1. Catalog[k] \in STRING
      BY <1>1
    <3>2. BuiltinTool(Catalog[k]) \in Tool
      BY <1>2, <3>1
    <3> QED
      BY <3>2
  <2>2. ASSUME NEW p \in Seq(Tool) \X (1..n) PROVE Put(p[1], Catalog[p[2]]) \in Seq(Tool)
    <3>1. p[1] \in Seq(Tool) /\ p[2] \in 1..n
      OBVIOUS
    <3> HIDE DEF Put
    <3> QED
      BY <2>1, <3>1
  <2> HIDE DEF Put
  <2> QED
    BY <2>2
<1>4. PICK g \in [SUBSET (1..n) -> Seq(Tool)] : IsFold(g, n, <<>>, f)
  <2> DEFINE D == Seq(Tool)
             b == <<>>
  <2>1. b \in D /\ n \in Nat /\ f \in [D \X (1..n) -> D]
    BY <1>1, <1>3
  <2> HIDE DEF f, n, D, b
  <2>2. \E g \in [SUBSET (1..n) -> D] : IsFold(g, n, b, f)
    BY <2>1, FoldExists
  <2> QED
    BY <2>2 DEF D, b
<1>5. ASSUME NEW s \in SUBSET DOMAIN Catalog
      PROVE  g[s] = IF s = {} THEN <<>> ELSE Put(g[s \ {Max(s)}], Catalog[Max(s)])
  <2>1. s # {} => Max(s) \in 1..n /\ g[s \ {Max(s)}] \in Seq(Tool)
    BY <1>1, <1>4, MaxOfRange
  <2>2. s # {} => f[<<g[s \ {Max(s)}], Max(s)>>] = Put(g[s \ {Max(s)}], Catalog[Max(s)])
    <3> HIDE DEF Put
    <3> QED
      BY <2>1
  <2> HIDE DEF Put, f
  <2> QED
    BY <1>1, <1>4, <2>2 DEF IsFold
<1>6. g = [s \in SUBSET DOMAIN Catalog |->
             IF s = {} THEN <<>> ELSE Put(g[s \ {Max(s)}], Catalog[Max(s)])]
  <2> HIDE DEF Put, f
  <2> QED
    BY <1>1, <1>4, <1>5
<1>7. h = [s \in SUBSET DOMAIN Catalog |->
             IF s = {} THEN <<>> ELSE Put(h[s \ {Max(s)}], Catalog[Max(s)])]
  <2> HIDE DEF Put
  <2> QED
    BY <1>6, Zenon
<1>8. BuiltinTools(cfg) = h[DOMAIN Catalog]
  BY Zenon DEF BuiltinTools, FoldLeft, MapThenFoldSet
<1> HIDE DEF h, Put
<1> DEFINE r == [k \in 0..n |-> h[1..k]]
<1>9. r[0] = <<>> /\ r[n] = BuiltinTools(cfg)
  <2>1. 1..0 = {} /\ {} \in SUBSET DOMAIN Catalog
    OBVIOUS
  <2>2. h[{}] = <<>>
    BY <1>7, <2>1
  <2>3. 0 \in 0..n /\ n \in 0..n
    BY <1>1
  <2>4. r[0] = h[1..0] /\ r[n] = h[1..n]
    BY <2>3
  <2> HIDE DEF r, n
  <2> QED
    BY <1>1, <1>8, <2>1, <2>2, <2>4
<1>10. ASSUME NEW k \in 1..n PROVE r[k] = Put(r[k - 1], Catalog[k])
  <2>1. 1..k \in SUBSET DOMAIN Catalog /\ 1..k # {}
    BY <1>1
  <2>2. h[1..k] = Put(h[(1..k) \ {Max(1..k)}], Catalog[Max(1..k)])
    BY <1>7, <2>1
  <2>3. Max(1..k) = k /\ (1..k) \ {k} = 1..(k - 1)
    BY <1>1, MaxOfPrefix
  <2>4. k \in 0..n /\ k - 1 \in 0..n
    BY <1>1
  <2>5. r[k] = h[1..k] /\ r[k - 1] = h[1..(k - 1)]
    BY <2>4
  <2> QED
    BY <2>2, <2>3, <2>5
<1> HIDE DEF r
<1> QED
  BY <1>9, <1>10 DEF Put

LEMMA BuiltinFacts ==
  ASSUME NEW cfg
  PROVE  BuiltinTools(cfg) \in Seq(Tool) /\ DistinctNames(BuiltinTools(cfg))
<1> DEFINE n == Len(Catalog)
<1>1. Catalog \in Seq(STRING) /\ n \in Nat /\ DOMAIN Catalog = 1..n /\ IsInjective(Catalog)
  BY SurfaceAssumption
<1>2. PICK g : /\ BuiltinTools(cfg) = g[n] /\ g[0] = <<>>
               /\ \A k \in 1..n :
                    g[k] = IF Catalog[k] \in Selected(cfg)
                           THEN Append(g[k - 1], BuiltinTool(Catalog[k])) ELSE g[k - 1]
  BY BuiltinFold
<1> DEFINE Good(t, k) == /\ t \in Seq(Tool) /\ DistinctNames(t)
                         /\ \A j \in DOMAIN t : \E i \in 1..k : t[j].name = Name(Catalog[i])
           S == {k \in 0..n : Good(g[k], k)}
<1>3. 0 \in S
  <2>1. <<>> \in Seq(Tool) /\ DOMAIN <<>> = {}
    OBVIOUS
  <2>2. Good(<<>>, 0)
    BY <2>1 DEF DistinctNames
  <2>3. 0 \in 0..n
    BY <1>1
  <2> HIDE DEF Good
  <2> QED
    BY <1>2, <2>2, <2>3
<1>4. ASSUME NEW k \in 1..n, k - 1 \in S PROVE k \in S
  <2> DEFINE t == g[k - 1]
             x == BuiltinTool(Catalog[k])
  <2>1. /\ t \in Seq(Tool) /\ DistinctNames(t)
        /\ \A j \in DOMAIN t : \E i \in 1..(k - 1) : t[j].name = Name(Catalog[i])
        /\ k \in 0..n
    BY <1>1, <1>4
  <2>2. CASE Catalog[k] \notin Selected(cfg)
    <3>1. g[k] = t
      BY <1>2, <2>2
    <3>2. \A j \in DOMAIN t : \E i \in 1..k : t[j].name = Name(Catalog[i])
      <4>1. 1..(k - 1) \subseteq 1..k
        OBVIOUS
      <4> QED
        BY <2>1, <4>1
    <3> QED
      BY <2>1, <3>1, <3>2
  <2>3. CASE Catalog[k] \in Selected(cfg)
    <3>1. g[k] = Append(t, x)
      BY <1>2, <2>3
    <3>2. Catalog[k] \in STRING
      BY <1>1
    <3>3. x \in Tool /\ x.name = Name(Catalog[k])
      BY <3>2 DEF BuiltinTool, Name, ToolName, Tool, Risks
    <3>4. \A i \in 1..(k - 1) : Name(Catalog[i]) # Name(Catalog[k])
      <4>1. \A i \in 1..(k - 1) : Catalog[i] # Catalog[k]
        BY <1>1 DEF IsInjective
      <4> QED
        BY <4>1 DEF Name
    <3>5. x.name \notin NamesOf(t)
      BY <2>1, <3>3, <3>4 DEF NamesOf
    <3>6. Append(t, x) \in Seq(Tool) /\ DistinctNames(Append(t, x))
      BY <2>1, <3>3, <3>5, AppendedTool
    <3>7. ASSUME NEW j \in DOMAIN Append(t, x)
          PROVE  \/ Append(t, x)[j].name = x.name
                 \/ j \in DOMAIN t /\ Append(t, x)[j] = t[j]
      <4>1. /\ Append(t, x) \in Seq(Tool) /\ Len(Append(t, x)) = Len(t) + 1
            /\ Append(t, x)[Len(t) + 1] = x
            /\ \A i \in 1..Len(t) : Append(t, x)[i] = t[i]
        BY <2>1, <3>3, AppendProperties
      <4>2. DOMAIN t = 1..Len(t) /\ DOMAIN Append(t, x) = 1..(Len(t) + 1) /\ Len(t) \in Nat
        BY <2>1, <4>1
      <4>3. j \in 1..Len(t) \/ j = Len(t) + 1
        BY <4>2
      <4> HIDE DEF t, x
      <4> QED
        BY ONLY <4>1, <4>2, <4>3
    <3>8. ASSUME NEW j \in DOMAIN Append(t, x) PROVE \E i \in 1..k : Append(t, x)[j].name = Name(Catalog[i])
      <4>1. CASE Append(t, x)[j].name = x.name
        BY <3>3, <4>1
      <4>2. CASE j \in DOMAIN t /\ Append(t, x)[j] = t[j]
        BY <2>1, <4>2
      <4> QED
        BY <3>7, <4>1, <4>2
    <3> QED
      BY <2>1, <3>1, <3>6, <3>8
  <2> QED
    BY <2>2, <2>3
<1>5. n \in S
  <2> HIDE DEF S, n
  <2> QED
    BY <1>1, <1>3, <1>4, CountUp
<1> QED
  BY <1>2, <1>5
-----------------------------------------------------------------------------
(* The registry *)

LEMMA AliasIsFree ==
  ASSUME NEW existing, IsFiniteSet(existing), NEW name \in ToolName
  PROVE  AliasOf(existing, name) \in ToolName /\ AliasOf(existing, name) \notin existing
<1> DEFINE alias(k) == [name EXCEPT !.alias = Append(@, k)]
           n == Cardinality(existing)
           C == {k \in 1..(n + 1) : alias(k) \notin existing}
<1>1. n \in Nat
  BY FS_CardinalityType
<1>2. \A k \in 1..(n + 1) : alias(k) \in ToolName /\ alias(k).alias = Append(name.alias, k)
  <2>1. name.alias \in Seq(Nat)
    BY DEF ToolName
  <2>2. \A k \in 1..(n + 1) : k \in Nat /\ Append(name.alias, k) \in Seq(Nat)
    BY <1>1, <2>1
  <2> QED
    BY <2>2 DEF ToolName
<1>3. C # {}
  <2> SUFFICES ASSUME C = {} PROVE FALSE
    OBVIOUS
  <2> DEFINE f == [k \in 1..(n + 1) |-> alias(k)]
  <2>1. f \in [1..(n + 1) -> existing]
    OBVIOUS
  <2>2. IsFiniteSet(1..(n + 1)) /\ Cardinality(1..(n + 1)) = n + 1
    BY <1>1, FS_Interval
  <2>3. n < Cardinality(1..(n + 1))
    BY <1>1, <2>2
  <2>4. PICK x, y \in 1..(n + 1) : x # y /\ f[x] = f[y]
    <3> DEFINE U == 1..(n + 1)
    <3>1. f \in [U -> existing] /\ IsFiniteSet(U) /\ Cardinality(existing) < Cardinality(U)
      BY <2>1, <2>2, <2>3
    <3> HIDE DEF f, U
    <3>2. \E x, y \in U : x # y /\ f[x] = f[y]
      BY <3>1, FS_PigeonHole
    <3> QED
      BY <3>2 DEF U
  <2>5. Append(name.alias, x) = Append(name.alias, y)
    BY <1>2, <2>4
  <2>6. name.alias \in Seq(Nat) /\ x \in Nat /\ y \in Nat
    BY <1>1 DEF ToolName
  <2>7. x = y
    BY <2>5, <2>6, AppendProperties
  <2> QED
    BY <2>4, <2>7
<1>4. Min(C) \in C
  <2>1. C \in SUBSET Nat
    BY <1>1
  <2>2. PICK m \in C : \A k \in C : m <= k
    <3> HIDE DEF C
    <3> QED
      BY <1>3, <2>1, LeastNatural
  <2> HIDE DEF C
  <2> QED
    BY <2>2 DEF Min
<1>5. AliasOf(existing, name) = alias(Min(C))
  BY DEF AliasOf
<1> HIDE DEF alias
<1> QED
  BY <1>2, <1>4, <1>5

Registry == [tools : Seq(Tool), raised : BOOLEAN]

\* A registered tool stays where it is, and no two have one name.
LEMMA RegisterFacts ==
  ASSUME NEW registry \in Registry, NEW tool \in Tool, NEW strategy,
         NEW next, next = Register(registry, tool, strategy)
  PROVE  /\ next \in Registry
         /\ DistinctNames(registry.tools) => DistinctNames(next.tools)
         /\ \A s \in Seq(Tool) : IsPrefix(s, registry.tools) => IsPrefix(s, next.tools)
         /\ ~registry.raised /\ tool.name \notin NamesOf(registry.tools) =>
              next = [registry EXCEPT !.tools = Append(@, tool)]
<1> DEFINE t == registry.tools
           existing == NamesOf(t)
           Added(x) == [registry EXCEPT !.tools = Append(@, x)]
           alias == [tool EXCEPT !.name = AliasOf(existing, @)]
<1>1. t \in Seq(Tool) /\ registry.raised \in BOOLEAN /\ registry = [tools |-> t, raised |-> registry.raised]
  BY DEF Registry
<1>2. IsFiniteSet(existing)
  <2> DEFINE f == [k \in DOMAIN t |-> t[k].name]
  <2>1. Len(t) \in Nat /\ DOMAIN t = 1..Len(t)
    BY <1>1
  <2>2. IsFiniteSet(DOMAIN t)
    <3> DEFINE l == Len(t)
    <3>1. 1 \in Int /\ l \in Int
      BY <2>1
    <3> HIDE DEF l
    <3>2. IsFiniteSet(1..l)
      BY <3>1, FS_Interval
    <3> QED
      BY <2>1, <3>2 DEF l
  <2>3. f \in Surjection(DOMAIN t, existing)
    BY DEF Surjection, NamesOf
  <2> DEFINE S == DOMAIN t
  <2>4. IsFiniteSet(S) /\ f \in Surjection(S, existing)
    BY <2>2, <2>3
  <2> HIDE DEF f, existing, S
  <2> QED
    BY <2>4, FS_Surjection
<1>3. alias \in Tool /\ alias.name \notin existing
  <2>1. tool.name \in ToolName
    BY DEF Tool
  <2>2. AliasOf(existing, tool.name) \in ToolName /\ AliasOf(existing, tool.name) \notin existing
    BY <1>2, <2>1, AliasIsFree
  <2> HIDE DEF existing
  <2> QED
    BY <2>2 DEF Tool
<1>4. \/ next = registry
      \/ next = Added(tool) /\ tool.name \notin existing
      \/ next = Added(alias)
      \/ next = [registry EXCEPT !.raised = TRUE]
  BY DEF Register
<1>5. ~registry.raised /\ tool.name \notin existing => next = Added(tool)
  BY DEF Register
<1>6. ASSUME NEW x \in Tool, x.name \notin existing
      PROVE  /\ Added(x) \in Registry
             /\ DistinctNames(t) => DistinctNames(Added(x).tools)
             /\ \A s \in Seq(Tool) : IsPrefix(s, t) => IsPrefix(s, Added(x).tools)
  <2>1. Added(x).tools = Append(t, x) /\ Added(x).raised = registry.raised
    BY <1>1
  <2>2. Added(x) \in Registry
    BY <1>1 DEF Registry
  <2>3. DistinctNames(t) => DistinctNames(Append(t, x))
    BY <1>1, <1>6, AppendedTool DEF existing
  <2>4. \A s \in Seq(Tool) : IsPrefix(s, t) => IsPrefix(s, Append(t, x))
    BY <1>1, <1>6, PrefixOfAppended
  <2> QED
    BY <2>1, <2>2, <2>3, <2>4
<1>7. /\ [registry EXCEPT !.raised = TRUE] \in Registry
      /\ [registry EXCEPT !.raised = TRUE].tools = t
  BY <1>1 DEF Registry
<1> HIDE DEF Added, alias, existing
<1>8. /\ next \in Registry
      /\ DistinctNames(t) => DistinctNames(next.tools)
      /\ \A s \in Seq(Tool) : IsPrefix(s, t) => IsPrefix(s, next.tools)
  BY <1>3, <1>4, <1>6, <1>7
<1>9. ~registry.raised /\ tool.name \notin NamesOf(t) =>
        next = [registry EXCEPT !.tools = Append(@, tool)]
  BY <1>5 DEF existing, Added
<1> QED
  BY <1>8, <1>9

Offers(cfg) == BuiltinTools(cfg) \o MCPTools(cfg)

LEMMA OffersTyped ==
  ASSUME NEW cfg \in Configs
  PROVE  /\ Offers(cfg) \in Seq(Tool)
         /\ Len(BuiltinTools(cfg)) \in 0..Len(Offers(cfg))
         /\ \A k \in 1..Len(BuiltinTools(cfg)) : Offers(cfg)[k] = BuiltinTools(cfg)[k]
<1>1. cfg.mcp \in Seq([name : ToolName, risk : Risks])
  BY SurfaceAssumption DEF IsConfig
<1>2. MCPTools(cfg) \in Seq(Tool)
  <2>1. /\ Len(cfg.mcp) \in Nat /\ DOMAIN cfg.mcp = 1..Len(cfg.mcp)
        /\ \A k \in DOMAIN cfg.mcp : cfg.mcp[k] \in [name : ToolName, risk : Risks]
    <3> DEFINE M == [name : ToolName, risk : Risks]
    <3>1. cfg.mcp \in Seq(M)
      BY <1>1
    <3> HIDE DEF M
    <3>2. /\ Len(cfg.mcp) \in Nat /\ DOMAIN cfg.mcp = 1..Len(cfg.mcp)
          /\ \A k \in DOMAIN cfg.mcp : cfg.mcp[k] \in M
      BY <3>1
    <3> QED
      BY <3>2 DEF M
  <2>2. \A k \in DOMAIN cfg.mcp :
          [name |-> cfg.mcp[k].name, risk |-> cfg.mcp[k].risk, of |-> "mcp"] \in Tool
    BY <2>1 DEF Tool
  <2> QED
    BY <2>1, <2>2, IsASeq DEF MCPTools
<1>3. BuiltinTools(cfg) \in Seq(Tool)
  BY BuiltinFacts
<1> QED
  BY <1>2, <1>3 DEF Offers

\* The registry after the first k offers.
LEMMA BuiltFold ==
  ASSUME NEW cfg \in Configs
  PROVE  \E g : /\ Built(cfg) = g[Len(Offers(cfg))]
                /\ g[0] = [tools |-> <<>>, raised |-> FALSE]
                /\ \A k \in 1..Len(Offers(cfg)) :
                     g[k] = Register(g[k - 1], Offers(cfg)[k], cfg.strategy)
<1> DEFINE q == Offers(cfg)
           n == Len(q)
           b == [tools |-> <<>>, raised |-> FALSE]
           f == [p \in Registry \X (1..n) |-> Register(p[1], q[p[2]], cfg.strategy)]
           h == CHOOSE h : h = [s \in SUBSET DOMAIN q |->
                  IF s = {} THEN b ELSE Register(h[s \ {Max(s)}], q[Max(s)], cfg.strategy)]
<1>1. q \in Seq(Tool) /\ n \in Nat /\ DOMAIN q = 1..n /\ b \in Registry
  BY OffersTyped DEF Registry
<1>2. Built(cfg) = h[DOMAIN q]
  BY Zenon DEF Built, Offers, FoldLeft, MapThenFoldSet
<1> HIDE DEF q, n, b
<1>3. f \in [Registry \X (1..n) -> Registry]
  <2>1. ASSUME NEW p \in Registry \X (1..n) PROVE Register(p[1], q[p[2]], cfg.strategy) \in Registry
    <3>1. p[1] \in Registry /\ q[p[2]] \in Tool
      BY <1>1
    <3> QED
      BY <3>1, RegisterFacts
  <2> QED
    BY <2>1
<1>4. PICK g \in [SUBSET (1..n) -> Registry] : IsFold(g, n, b, f)
  <2> HIDE DEF f
  <2> QED
    BY <1>1, <1>3, FoldExists
<1>5. ASSUME NEW s \in SUBSET DOMAIN q
      PROVE  g[s] = IF s = {} THEN b ELSE Register(g[s \ {Max(s)}], q[Max(s)], cfg.strategy)
  <2>1. s # {} => Max(s) \in 1..n /\ g[s \ {Max(s)}] \in Registry
    BY <1>1, <1>4, MaxOfRange
  <2>2. s # {} => f[<<g[s \ {Max(s)}], Max(s)>>] = Register(g[s \ {Max(s)}], q[Max(s)], cfg.strategy)
    BY <2>1
  <2> HIDE DEF f
  <2> QED
    BY <1>1, <1>4, <2>2 DEF IsFold
<1>6. g = [s \in SUBSET DOMAIN q |->
             IF s = {} THEN b ELSE Register(g[s \ {Max(s)}], q[Max(s)], cfg.strategy)]
  BY <1>1, <1>4, <1>5
<1>7. h = [s \in SUBSET DOMAIN q |->
             IF s = {} THEN b ELSE Register(h[s \ {Max(s)}], q[Max(s)], cfg.strategy)]
  BY <1>6, Zenon
<1> HIDE DEF h
<1> DEFINE r == [k \in 0..n |-> h[1..k]]
<1>8. r[0] = b /\ r[n] = Built(cfg)
  <2>1. 1..0 = {} /\ {} \in SUBSET DOMAIN q
    OBVIOUS
  <2>2. h[{}] = b
    BY <1>7, <2>1
  <2>3. 0 \in 0..n /\ n \in 0..n
    BY <1>1
  <2>4. r[0] = h[1..0] /\ r[n] = h[1..n]
    BY <2>3
  <2> HIDE DEF r
  <2> QED
    BY <1>1, <1>2, <2>1, <2>2, <2>4
<1>9. ASSUME NEW k \in 1..n PROVE r[k] = Register(r[k - 1], q[k], cfg.strategy)
  <2>1. 1..k \in SUBSET DOMAIN q /\ 1..k # {}
    <3>1. k \in Nat /\ 1 <= k /\ k <= n
      BY <1>1
    <3>2. 1..k \subseteq 1..n /\ 1 \in 1..k
      BY <1>1, <3>1
    <3> QED
      BY <1>1, <3>2
  <2>2. h[1..k] = Register(h[(1..k) \ {Max(1..k)}], q[Max(1..k)], cfg.strategy)
    BY <1>7, <2>1
  <2>3. Max(1..k) = k /\ (1..k) \ {k} = 1..(k - 1)
    BY <1>1, MaxOfPrefix
  <2>4. k \in 0..n /\ k - 1 \in 0..n
    BY <1>1
  <2>5. r[k] = h[1..k] /\ r[k - 1] = h[1..(k - 1)]
    BY <2>4
  <2> QED
    BY <2>2, <2>3, <2>5
<1> HIDE DEF r
<1> QED
  BY <1>8, <1>9 DEF q, n, b

\* However the servers' names and the strategy: no two tools have one name, and the
\* built-in tools come first, as the profile orders them.
LEMMA BuiltSound ==
  ASSUME NEW cfg \in Configs
  PROVE  /\ Built(cfg) \in Registry /\ DistinctNames(Built(cfg).tools)
         /\ IsPrefix(BuiltinTools(cfg), Built(cfg).tools)
<1> DEFINE q == Offers(cfg)
           b == BuiltinTools(cfg)
           n == Len(q)
           m == Len(b)
<1>1. /\ q \in Seq(Tool) /\ n \in Nat /\ DOMAIN q = 1..n
      /\ b \in Seq(Tool) /\ m \in Nat /\ DOMAIN b = 1..m /\ DistinctNames(b)
      /\ m <= n /\ \A k \in 1..m : q[k] = b[k]
  BY OffersTyped, BuiltinFacts
<1>2. PICK g : /\ Built(cfg) = g[n] /\ g[0] = [tools |-> <<>>, raised |-> FALSE]
               /\ \A k \in 1..n : g[k] = Register(g[k - 1], q[k], cfg.strategy)
  BY BuiltFold
<1> HIDE DEF q, b, n, m
<1> DEFINE Good(r, k) == /\ r \in Registry /\ DistinctNames(r.tools)
                         /\ k <= m => ~r.raised /\ r.tools = SubSeq(b, 1, k)
                         /\ k >= m => IsPrefix(b, r.tools)
           S == {k \in 0..n : Good(g[k], k)}
<1>3. SubSeq(b, 1, m) = b /\ SubSeq(b, 1, 0) = <<>>
  BY <1>1 DEF m
<1>4. IsPrefix(b, b)
  BY <1>1, <1>3 DEF IsPrefix, m
<1>5. 0 \in S
  <2>1. /\ g[0].tools = <<>> /\ g[0].raised = FALSE /\ g[0] \in Registry
        /\ DistinctNames(<<>>)
    BY <1>2 DEF Registry, DistinctNames
  <2>2. 0 >= m => m = 0
    BY <1>1
  <2>3. Good(g[0], 0)
    BY <1>3, <1>4, <2>1, <2>2
  <2>4. 0 \in 0..n
    BY <1>1
  <2> HIDE DEF Good
  <2> QED
    BY <2>3, <2>4
<1>6. ASSUME NEW k \in 1..n, k - 1 \in S PROVE k \in S
  <2> DEFINE r == g[k - 1]
             next == g[k]
  <2>1. /\ r \in Registry /\ DistinctNames(r.tools)
        /\ k - 1 <= m => ~r.raised /\ r.tools = SubSeq(b, 1, k - 1)
        /\ k - 1 >= m => IsPrefix(b, r.tools)
    BY <1>6
  <2>2. next = Register(r, q[k], cfg.strategy) /\ q[k] \in Tool
    BY <1>1, <1>2
  <2> HIDE DEF r, next
  <2>3. /\ next \in Registry /\ DistinctNames(next.tools)
        /\ \A s \in Seq(Tool) : IsPrefix(s, r.tools) => IsPrefix(s, next.tools)
        /\ ~r.raised /\ q[k].name \notin NamesOf(r.tools) =>
             next = [r EXCEPT !.tools = Append(@, q[k])]
    BY <2>1, <2>2, RegisterFacts
  <2>4. ASSUME k <= m PROVE ~next.raised /\ next.tools = SubSeq(b, 1, k)
    <3> DEFINE c == SubSeq(b, 1, k - 1)
    <3>1. r.tools = c /\ ~r.raised /\ q[k] = b[k] /\ k \in 1..m
      BY <1>1, <2>1, <2>4
    <3>2. c \in Seq(Tool) /\ Len(c) = k - 1 /\ \A j \in 1..(k - 1) : c[j] = b[j]
      BY <1>1, <3>1, SubSeqProperties DEF m
    <3>3. q[k].name \notin NamesOf(c)
      <4>1. \A j \in 1..(k - 1) : j \in DOMAIN b /\ k \in DOMAIN b /\ j # k
        BY <1>1, <3>1
      <4>2. \A j \in 1..(k - 1) : b[j].name # b[k].name
        BY <1>1, <4>1 DEF DistinctNames
      <4>3. DOMAIN c = 1..(k - 1)
        BY <3>2
      <4> HIDE DEF c
      <4> QED
        BY <3>1, <3>2, <4>2, <4>3 DEF NamesOf
    <3>4. next.tools = Append(c, b[k]) /\ next.raised = r.raised
      BY <2>1, <2>3, <3>1, <3>3 DEF Registry
    <3>5. Append(c, b[k]) = SubSeq(b, 1, k)
      BY <1>1, <3>1 DEF m
    <3> QED
      BY <3>1, <3>4, <3>5
  <2>5. ASSUME k >= m PROVE IsPrefix(b, next.tools)
    <3>1. CASE k = m
      BY <1>3, <1>4, <2>4, <3>1
    <3>2. CASE k # m
      <4>1. k - 1 >= m
        BY <1>1, <2>5, <3>2
      <4> QED
        BY <1>1, <2>1, <2>3, <4>1
    <3> QED
      BY <3>1, <3>2
  <2>6. Good(next, k) /\ k \in 0..n
    BY <1>1, <2>3, <2>4, <2>5
  <2> HIDE DEF Good
  <2> QED
    BY <2>6 DEF next
<1>7. n \in S
  <2>1. n \in Nat /\ n \in 0..n
    BY <1>1
  <2> HIDE DEF S
  <2>2. 0..n \subseteq S
    BY <1>5, <1>6, <2>1, CountUp
  <2> QED
    BY <2>1, <2>2
<1> QED
  BY <1>1, <1>2, <1>7 DEF b
-----------------------------------------------------------------------------
(* The skills *)

Entry == [package : PackageSet \cup {"none"}, version : Nat]

Skills == [discovered : SUBSET PackageSet, skills : [SkillNames -> Entry]]

SkillsInv ==
  /\ disk \in [PackageSet -> Files] /\ edits \in Nat
  /\ discovered \in SUBSET PackageSet /\ skills \in [SkillNames -> Entry]

LEMMA ImportFacts ==
  ASSUME SkillsInv, NEW registry \in Skills, NEW p \in PackageSet
  PROVE  /\ Import(registry, p) \in Skills
         /\ registry.discovered \subseteq Import(registry, p).discovered
         /\ \A s \in SkillNames :
              \/ Import(registry, p).skills[s] = registry.skills[s]
              \/ /\ Import(registry, p).skills[s].package = p /\ SkillOf[p] = s
                 /\ p \notin registry.discovered /\ disk[p].there
<1> DEFINE e == [package |-> p, version |-> disk[p].version]
           d == IF disk[p].raises = "after" THEN registry.discovered
                ELSE registry.discovered \cup {p}
           k == [registry.skills EXCEPT ![SkillOf[p]] = e]
<1>1. SkillOf[p] \in SkillNames /\ disk[p] \in Files
  BY DEF SkillsInv, SkillNames
<1>2. disk[p].version \in Nat
  BY <1>1, SkillAssumption DEF Files
<1>3. e \in Entry /\ e.package = p
  BY <1>2 DEF Entry
<1>4. registry.discovered \in SUBSET PackageSet /\ registry.skills \in [SkillNames -> Entry]
  BY DEF Skills
<1>5. d \in SUBSET PackageSet /\ registry.discovered \subseteq d
  BY <1>4
<1> HIDE DEF e, d
<1>6. k \in [SkillNames -> Entry] /\ k[SkillOf[p]] = e
      /\ \A s \in SkillNames : s # SkillOf[p] => k[s] = registry.skills[s]
  BY <1>1, <1>3, <1>4
<1>7. CASE ~disk[p].there \/ p \in registry.discovered \/ disk[p].raises = "before"
  <2>1. Import(registry, p) = registry
    BY <1>7 DEF Import
  <2> QED
    BY <2>1
<1>8. CASE ~(~disk[p].there \/ p \in registry.discovered \/ disk[p].raises = "before")
  <2>1. Import(registry, p) = [discovered |-> d, skills |-> k]
    BY <1>8 DEF Import, d, e
  <2> HIDE DEF k
  <2>2. Import(registry, p) \in Skills
    BY <1>5, <1>6, <2>1 DEF Skills
  <2>3. Import(registry, p).discovered = d /\ Import(registry, p).skills = k
    BY <2>1
  <2>4. ASSUME NEW s \in SkillNames, s = SkillOf[p] PROVE k[s].package = p
    BY <1>3, <1>6, <2>4
  <2> QED
    BY <1>5, <1>6, <1>8, <2>2, <2>3, <2>4
<1> QED
  BY ONLY <1>7, <1>8

\* The registry of skills after the first k packages.
LEMMA DiscoveredFold ==
  ASSUME SkillsInv
  PROVE  \E g : /\ Discovered = g[Len(Packages)]
                /\ g[0] = [discovered |-> discovered, skills |-> skills]
                /\ \A k \in 1..Len(Packages) : g[k] = Import(g[k - 1], Packages[k])
<1> DEFINE q == Packages
           n == Len(q)
           b == [discovered |-> discovered, skills |-> skills]
           f == [p \in Skills \X (1..n) |-> Import(p[1], q[p[2]])]
           h == CHOOSE h : h = [s \in SUBSET DOMAIN q |->
                  IF s = {} THEN b ELSE Import(h[s \ {Max(s)}], q[Max(s)])]
<1>1. n \in Nat /\ DOMAIN q = 1..n /\ b \in Skills /\ \A k \in 1..n : q[k] \in PackageSet
  BY SkillAssumption DEF Skills, SkillsInv, PackageSet, Range
<1>2. Discovered = h[DOMAIN q]
  BY Zenon DEF Discovered, FoldLeft, MapThenFoldSet
<1> HIDE DEF q, n, b
<1>3. f \in [Skills \X (1..n) -> Skills]
  <2>1. ASSUME NEW p \in Skills \X (1..n) PROVE Import(p[1], q[p[2]]) \in Skills
    <3>1. p[1] \in Skills /\ q[p[2]] \in PackageSet
      BY <1>1
    <3> QED
      BY <3>1, ImportFacts
  <2> QED
    BY <2>1
<1>4. PICK g \in [SUBSET (1..n) -> Skills] : IsFold(g, n, b, f)
  <2> HIDE DEF f
  <2> QED
    BY <1>1, <1>3, FoldExists
<1>5. ASSUME NEW s \in SUBSET DOMAIN q
      PROVE  g[s] = IF s = {} THEN b ELSE Import(g[s \ {Max(s)}], q[Max(s)])
  <2>1. s # {} => Max(s) \in 1..n /\ g[s \ {Max(s)}] \in Skills
    BY <1>1, <1>4, MaxOfRange
  <2>2. s # {} => f[<<g[s \ {Max(s)}], Max(s)>>] = Import(g[s \ {Max(s)}], q[Max(s)])
    BY <2>1
  <2> HIDE DEF f
  <2> QED
    BY <1>1, <1>4, <2>2 DEF IsFold
<1>6. g = [s \in SUBSET DOMAIN q |-> IF s = {} THEN b ELSE Import(g[s \ {Max(s)}], q[Max(s)])]
  BY <1>1, <1>4, <1>5
<1>7. h = [s \in SUBSET DOMAIN q |-> IF s = {} THEN b ELSE Import(h[s \ {Max(s)}], q[Max(s)])]
  BY <1>6, Zenon
<1> HIDE DEF h
<1> DEFINE r == [k \in 0..n |-> h[1..k]]
<1>8. r[0] = b /\ r[n] = Discovered
  <2>1. 1..0 = {} /\ {} \in SUBSET DOMAIN q
    OBVIOUS
  <2>2. h[{}] = b
    BY <1>7, <2>1
  <2>3. 0 \in 0..n /\ n \in 0..n
    BY <1>1
  <2>4. r[0] = h[1..0] /\ r[n] = h[1..n]
    BY <2>3
  <2> HIDE DEF r
  <2> QED
    BY <1>1, <1>2, <2>1, <2>2, <2>4
<1>9. ASSUME NEW k \in 1..n PROVE r[k] = Import(r[k - 1], q[k])
  <2>1. 1..k \in SUBSET DOMAIN q /\ 1..k # {}
    <3>1. k \in Nat /\ 1 <= k /\ k <= n
      BY <1>1
    <3>2. 1..k \subseteq 1..n /\ 1 \in 1..k
      BY <1>1, <3>1
    <3> QED
      BY <1>1, <3>2
  <2>2. h[1..k] = Import(h[(1..k) \ {Max(1..k)}], q[Max(1..k)])
    BY <1>7, <2>1
  <2>3. Max(1..k) = k /\ (1..k) \ {k} = 1..(k - 1)
    BY <1>1, MaxOfPrefix
  <2>4. k \in 0..n /\ k - 1 \in 0..n
    BY <1>1
  <2>5. r[k] = h[1..k] /\ r[k - 1] = h[1..(k - 1)]
    BY <2>4
  <2> QED
    BY <2>2, <2>3, <2>5
<1> HIDE DEF r
<1> QED
  BY <1>8, <1>9 DEF q, n, b

\* p was imported now, for the skill s.
Imported(p, s) == p \in PackageSet /\ SkillOf[p] = s /\ p \notin discovered /\ disk[p].there

LEMMA DiscoveredFacts ==
  ASSUME SkillsInv
  PROVE  /\ Discovered \in Skills
         /\ \A s \in SkillNames :
              \/ Discovered.skills[s] = skills[s]
              \/ Imported(Discovered.skills[s].package, s)
<1> DEFINE n == Len(Packages)
           Good(r) == /\ r \in Skills /\ discovered \subseteq r.discovered
                      /\ \A s \in SkillNames :
                           r.skills[s] = skills[s] \/ Imported(r.skills[s].package, s)
<1>1. n \in Nat /\ \A k \in 1..n : Packages[k] \in PackageSet
  BY SkillAssumption DEF PackageSet, Range
<1>2. PICK g : /\ Discovered = g[n] /\ g[0] = [discovered |-> discovered, skills |-> skills]
               /\ \A k \in 1..n : g[k] = Import(g[k - 1], Packages[k])
  BY DiscoveredFold
<1> DEFINE S == {k \in 0..n : Good(g[k])}
<1>3. 0 \in S
  <2>1. Good(g[0])
    BY <1>2 DEF Skills, SkillsInv
  <2> QED
    BY <1>1, <2>1
<1>4. ASSUME NEW k \in 1..n, k - 1 \in S PROVE k \in S
  <2> DEFINE r == g[k - 1]
             p == Packages[k]
  <2>1. Good(r) /\ p \in PackageSet /\ k \in 0..n /\ g[k] = Import(r, p)
    BY <1>1, <1>2, <1>4
  <2> HIDE DEF r, p
  <2>2. /\ Import(r, p) \in Skills
        /\ r.discovered \subseteq Import(r, p).discovered
        /\ \A s \in SkillNames :
             \/ Import(r, p).skills[s] = r.skills[s]
             \/ /\ Import(r, p).skills[s].package = p /\ SkillOf[p] = s
                /\ p \notin r.discovered /\ disk[p].there
    BY <2>1, ImportFacts
  <2>3. p \notin r.discovered => p \notin discovered
    BY <2>1
  <2>4. Good(Import(r, p))
    BY <2>1, <2>2, <2>3 DEF Imported
  <2> HIDE DEF Good
  <2> QED
    BY <2>1, <2>4
<1>5. n \in S
  <2>1. n \in 0..n
    BY <1>1
  <2> HIDE DEF S, n
  <2>2. 0..n \subseteq S
    BY <1>1, <1>3, <1>4, CountUp
  <2> QED
    BY <2>1, <2>2
<1> QED
  BY <1>2, <1>5

LEMMA InitSkills == Init => SkillsInv
<1> SUFFICES ASSUME Init PROVE SkillsInv
  OBVIOUS
<1>1. Unknown \in Entry
  BY DEF Unknown, Entry
<1> QED
  BY <1>1 DEF Init, SkillsInit, SkillsInv

LEMMA SkillsKept ==
  ASSUME SkillsInv, Discover \/ (\E s \in SkillNames : DisableSkill(s)) \/ UNCHANGED skillVars
                      \/ \E p \in PackageSet : EditPackage(p)
  PROVE  /\ SkillsInv'
         /\ \A s \in SkillNames : \/ skills'[s] = skills[s] \/ skills'[s] = Unknown
                                  \/ Imported(skills'[s].package, s)
<1>1. CASE Discover
  <2>1. skills' = Discovered.skills /\ discovered' = Discovered.discovered /\ UNCHANGED <<disk, edits>>
    BY <1>1 DEF Discover
  <2>2. Discovered.skills \in [SkillNames -> Entry] /\ Discovered.discovered \in SUBSET PackageSet
    BY DiscoveredFacts DEF Skills
  <2> QED
    BY <2>1, <2>2, DiscoveredFacts DEF SkillsInv
<1>2. ASSUME NEW n \in SkillNames, DisableSkill(n)
      PROVE  /\ SkillsInv'
             /\ \A s \in SkillNames : skills'[s] = skills[s] \/ skills'[s] = Unknown
  <2>1. Unknown \in Entry
    BY DEF Unknown, Entry
  <2> QED
    BY <1>2, <2>1 DEF DisableSkill, SkillsInv
<1>3. CASE UNCHANGED skillVars
  BY <1>3 DEF skillVars, SkillsInv
<1>4. ASSUME NEW p \in PackageSet, EditPackage(p) PROVE SkillsInv' /\ skills' = skills
  <2>1. PICK there \in BOOLEAN, raises \in {"no", "before", "after"} :
          disk' = [disk EXCEPT ![p] = [there |-> there, version |-> edits + 1, raises |-> raises]]
    BY <1>4 DEF EditPackage
  <2>2. edits + 1 \in 0..MaxEdits /\ edits' \in Nat
    BY <1>4, SkillAssumption DEF EditPackage, SkillsInv
  <2>3. [there |-> there, version |-> edits + 1, raises |-> raises] \in Files
    BY <2>2 DEF Files
  <2>4. disk' \in [PackageSet -> Files]
    BY <2>1, <2>3 DEF SkillsInv
  <2> QED
    BY <1>4, <2>2, <2>4 DEF EditPackage, SkillsInv
<1> QED
  BY <1>1, <1>2, <1>3, <1>4

LEMMA NextSkills ==
  ASSUME SkillsInv, [Next]_vars
  PROVE  /\ SkillsInv'
         /\ \A s \in SkillNames : \/ skills'[s] = skills[s] \/ skills'[s] = Unknown
                                  \/ Imported(skills'[s].package, s)
<1>1. \/ Discover \/ (\E s \in SkillNames : DisableSkill(s)) \/ UNCHANGED skillVars
      \/ \E p \in PackageSet : EditPackage(p)
  <2>1. CASE Run
    BY <2>1 DEF Run, StepsSpent, RouteReaction, ModelCalls, ModelAnswers, NoModel, ActBlocked,
                ActInvokes, ActRaises, ActActivates, Observe
  <2>2. CASE Between
    BY <2>2 DEF Between, Reload, Toggle, AskForSkills, Disable, Begin
  <2>3. CASE \E p \in PackageSet : Edit(p)
    BY <2>3 DEF Edit
  <2>4. CASE UNCHANGED vars
    BY <2>4 DEF vars
  <2> QED
    BY <2>1, <2>2, <2>3, <2>4 DEF Next
<1> QED
  BY <1>1, SkillsKept

LEMMA AlwaysSkills == Spec => []SkillsInv
<1>1. SkillsInv /\ [Next]_vars => SkillsInv'
  BY NextSkills
<1> QED
  BY InitSkills, <1>1, PTL DEF Spec

\* However the directories change and whatever a process runs, lists, enables and
\* disables: a skill appears only by the import of a package of its name that was never
\* imported with success, so a disabled skill stays disabled (skills/registry.py 56-78).
THEOREM SkillsStayDisabled == Spec => DisabledStaysDisabled
<1> DEFINE Appears == \A s \in SkillNames : skills[s] = Unknown /\ skills'[s] # Unknown =>
                        LET p == skills'[s].package
                        IN  SkillOf[p] = s /\ p \notin discovered /\ disk[p].there
<1>1. SkillsInv /\ [Next]_vars => [Appears]_skillVars
  BY NextSkills DEF Imported
<1> QED
  BY AlwaysSkills, <1>1, PTL DEF Spec, DisabledStaysDisabled
-----------------------------------------------------------------------------
(* The surface *)

SurfaceInv ==
  /\ gate \in [allowHigh : BOOLEAN, listed : {{}, {Name(b) : b \in HighRisk}}]
  /\ config \in Configs
  /\ tools = Built(config).tools /\ host = Bound(tools)
  /\ active \in SUBSET DOMAIN host

LEMMA InitSurface == Init => SurfaceInv
BY DEF Init, SurfaceInv

LEMMA NextSurface == ASSUME SurfaceInv, [Next]_vars PROVE SurfaceInv'
<1>1. CASE UNCHANGED surfaceVars
  BY <1>1 DEF surfaceVars, SurfaceInv
<1>2. ASSUME NEW cfg \in Configs, Reload(cfg) PROVE SurfaceInv'
  <2>1. CASE Built(cfg).raised
    BY <1>2, <2>1 DEF Reload, SurfaceInv
  <2>2. CASE ~Built(cfg).raised
    BY <1>2, <2>2 DEF Reload, SurfaceInv
  <2> QED
    BY <2>1, <2>2
<1>3. ASSUME NEW name \in DOMAIN host, Toggle(name) PROVE SurfaceInv'
  BY <1>3 DEF Toggle, SurfaceInv
<1>4. \/ UNCHANGED surfaceVars \/ (\E cfg \in Configs : Reload(cfg))
      \/ \E name \in DOMAIN host : Toggle(name)
  <2>1. CASE Run
    BY <2>1 DEF Run, StepsSpent, RouteReaction, ModelCalls, ModelAnswers, NoModel, ActBlocked,
                ActInvokes, ActRaises, ActActivates, Observe, Finish, Select, Acted
  <2>2. CASE Between
    BY <2>2 DEF Between, AskForSkills, Disable, Begin
  <2>3. CASE \E p \in PackageSet : Edit(p)
    BY <2>3 DEF Edit
  <2>4. CASE UNCHANGED vars
    BY <2>4 DEF vars
  <2> QED
    BY <2>1, <2>2, <2>3, <2>4 DEF Next
<1> QED
  BY <1>1, <1>2, <1>3, <1>4

LEMMA AlwaysSurface == Spec => []SurfaceInv
<1>1. SurfaceInv /\ [Next]_vars => SurfaceInv'
  BY NextSurface
<1> QED
  BY InitSurface, <1>1, PTL DEF Spec

LEMMA SurfaceTools ==
  ASSUME SurfaceInv
  PROVE  /\ tools \in Seq(Tool) /\ DistinctNames(tools) /\ IsPrefix(BuiltinTools(config), tools)
         /\ \A k \in DOMAIN tools : ToolNamed(tools, tools[k].name) = tools[k]
<1>1. tools \in Seq(Tool) /\ DistinctNames(tools) /\ IsPrefix(BuiltinTools(config), tools)
  BY BuiltSound DEF SurfaceInv, Registry
<1>2. ASSUME NEW k \in DOMAIN tools PROVE ToolNamed(tools, tools[k].name) = tools[k]
  <2>1. \A t \in Range(tools) : t.name = tools[k].name => t = tools[k]
    BY <1>1 DEF Range, DistinctNames
  <2>2. tools[k] \in Range(tools)
    BY DEF Range
  <2> QED
    BY <2>1, <2>2 DEF ToolNamed
<1> QED
  BY <1>1, <1>2

\* Whatever servers offer, whatever the strategy and however often the surface is built
\* again: the host holds the tools of the registry and the event handlers, no two tools
\* of one name and no built-in tool displaced (mcp/bridge.py 14-35, registry.py 31-47).
THEOREM HostIsRegistry == Spec => []SurfaceIsRegistry
<1>1. SurfaceInv => SurfaceIsRegistry
  <2> SUFFICES ASSUME SurfaceInv PROVE SurfaceIsRegistry
    OBVIOUS
  <2>1. ASSUME NEW k \in DOMAIN tools
        PROVE  host[tools[k].name] = [source |-> "tool", risk |-> tools[k].risk]
    <3>1. tools[k].name \in NamesOf(tools)
      BY DEF NamesOf
    <3>2. Bound(tools)[tools[k].name] =
            [source |-> "tool", risk |-> ToolNamed(tools, tools[k].name).risk]
      BY <3>1 DEF Bound
    <3> QED
      BY <3>2, SurfaceTools DEF SurfaceInv
  <2>2. DOMAIN host = EventHandlers \cup NamesOf(tools) /\ active \subseteq DOMAIN host
    BY DEF SurfaceInv, Bound
  <2> QED
    BY <2>1, <2>2, SurfaceTools DEF SurfaceIsRegistry, DistinctNames
<1> QED
  BY AlwaysSurface, <1>1, PTL
-----------------------------------------------------------------------------
(* The skill documents of a run *)

Doc == [skill : SkillNames \cup {"none"}, doc : Entry]

OneEach(d) == \A j, k \in DOMAIN d : d[j].skill = d[k].skill => j = k

SkillsOf(d) == {d[k].skill : k \in DOMAIN d}

LEMMA AppendedDoc ==
  ASSUME NEW t \in Seq(Doc), NEW x \in Doc
  PROVE  /\ Append(t, x) \in Seq(Doc) /\ SkillsOf(Append(t, x)) = SkillsOf(t) \cup {x.skill}
         /\ OneEach(t) /\ x.skill \notin SkillsOf(t) => OneEach(Append(t, x))
<1> DEFINE a == Append(t, x)
<1>1. /\ a \in Seq(Doc) /\ Len(a) = Len(t) + 1 /\ a[Len(t) + 1] = x
      /\ \A k \in 1..Len(t) : a[k] = t[k]
  BY AppendProperties
<1>2. DOMAIN t = 1..Len(t) /\ DOMAIN a = 1..(Len(t) + 1) /\ Len(t) \in Nat
  BY <1>1
<1>3. \A j \in DOMAIN a : j \in DOMAIN t \/ j = Len(t) + 1
  BY <1>2
<1>4. Len(t) + 1 \in DOMAIN a /\ DOMAIN t \subseteq DOMAIN a
  BY <1>2
<1> HIDE DEF a
<1>5. SkillsOf(a) = SkillsOf(t) \cup {x.skill}
  BY <1>1, <1>2, <1>3, <1>4 DEF SkillsOf
<1>6. ASSUME OneEach(t), x.skill \notin SkillsOf(t),
             NEW j \in DOMAIN a, NEW k \in DOMAIN a, a[j].skill = a[k].skill
      PROVE  j = k
  <2>1. \A i \in DOMAIN t : a[i] = t[i] /\ t[i].skill # x.skill
    BY <1>1, <1>2, <1>6 DEF SkillsOf
  <2>2. CASE j \in DOMAIN t /\ k \in DOMAIN t
    BY <1>6, <2>1, <2>2 DEF OneEach
  <2>3. j \in DOMAIN t <=> k \in DOMAIN t
    BY <1>1, <1>3, <1>6, <2>1
  <2> QED
    BY <1>3, <2>2, <2>3
<1> QED
  BY <1>1, <1>5, <1>6 DEF a, OneEach

LEMMA OtherDocsFold ==
  ASSUME docs \in Seq(Doc)
  PROVE  \E g : /\ OtherDocs = g[Len(docs)] /\ g[0] = <<>>
                /\ \A k \in 1..Len(docs) :
                     g[k] = IF docs[k].skill = input THEN g[k - 1] ELSE Append(g[k - 1], docs[k])
<1> DEFINE n == Len(docs)
           b == <<>>
           Put(t, d) == IF d.skill = input THEN t ELSE Append(t, d)
           f == [p \in Seq(Doc) \X (1..n) |-> Put(p[1], docs[p[2]])]
           h == CHOOSE h : h = [s \in SUBSET DOMAIN docs |->
                  IF s = {} THEN b ELSE Put(h[s \ {Max(s)}], docs[Max(s)])]
<1>1. n \in Nat /\ DOMAIN docs = 1..n /\ b \in Seq(Doc) /\ \A k \in 1..n : docs[k] \in Doc
  OBVIOUS
<1>2. OtherDocs = h[DOMAIN docs]
  BY Zenon DEF OtherDocs, FoldLeft, MapThenFoldSet
<1> HIDE DEF n, b
<1>3. \A t \in Seq(Doc), k \in 1..n : Put(t, docs[k]) \in Seq(Doc)
  BY <1>1
<1> HIDE DEF Put
<1>4. f \in [Seq(Doc) \X (1..n) -> Seq(Doc)]
  BY <1>3
<1>5. PICK g \in [SUBSET (1..n) -> Seq(Doc)] : IsFold(g, n, b, f)
  <2> DEFINE D == Seq(Doc)
  <2>1. b \in D /\ n \in Nat /\ f \in [D \X (1..n) -> D]
    BY <1>1, <1>4
  <2> HIDE DEF f, D
  <2>2. \E g \in [SUBSET (1..n) -> D] : IsFold(g, n, b, f)
    BY <2>1, FoldExists
  <2> QED
    BY <2>2 DEF D
<1>6. ASSUME NEW s \in SUBSET DOMAIN docs
      PROVE  g[s] = IF s = {} THEN b ELSE Put(g[s \ {Max(s)}], docs[Max(s)])
  <2>1. s # {} => Max(s) \in 1..n /\ g[s \ {Max(s)}] \in Seq(Doc)
    BY <1>1, <1>5, MaxOfRange
  <2>2. s # {} => f[<<g[s \ {Max(s)}], Max(s)>>] = Put(g[s \ {Max(s)}], docs[Max(s)])
    BY <2>1
  <2> HIDE DEF f
  <2> QED
    BY <1>1, <1>5, <2>2 DEF IsFold
<1>7. g = [s \in SUBSET DOMAIN docs |-> IF s = {} THEN b ELSE Put(g[s \ {Max(s)}], docs[Max(s)])]
  BY <1>1, <1>5, <1>6
<1>8. h = [s \in SUBSET DOMAIN docs |-> IF s = {} THEN b ELSE Put(h[s \ {Max(s)}], docs[Max(s)])]
  BY <1>7, Zenon
<1> HIDE DEF h
<1> DEFINE r == [k \in 0..n |-> h[1..k]]
<1>9. r[0] = b /\ r[n] = OtherDocs
  <2>1. 1..0 = {} /\ {} \in SUBSET DOMAIN docs
    OBVIOUS
  <2>2. h[{}] = b
    BY <1>8, <2>1
  <2>3. 0 \in 0..n /\ n \in 0..n
    BY <1>1
  <2>4. r[0] = h[1..0] /\ r[n] = h[1..n]
    BY <2>3
  <2> HIDE DEF r
  <2> QED
    BY <1>1, <1>2, <2>1, <2>2, <2>4
<1>10. ASSUME NEW k \in 1..n PROVE r[k] = Put(r[k - 1], docs[k])
  <2>1. 1..k \in SUBSET DOMAIN docs /\ 1..k # {}
    <3>1. k \in Nat /\ 1 <= k /\ k <= n
      BY <1>1
    <3>2. 1..k \subseteq 1..n /\ 1 \in 1..k
      BY <1>1, <3>1
    <3> QED
      BY <1>1, <3>2
  <2>2. h[1..k] = Put(h[(1..k) \ {Max(1..k)}], docs[Max(1..k)])
    BY <1>8, <2>1
  <2>3. Max(1..k) = k /\ (1..k) \ {k} = 1..(k - 1)
    BY <1>1, MaxOfPrefix
  <2>4. k \in 0..n /\ k - 1 \in 0..n
    BY <1>1
  <2>5. r[k] = h[1..k] /\ r[k - 1] = h[1..(k - 1)]
    BY <2>4
  <2> QED
    BY <2>2, <2>3, <2>5
<1> HIDE DEF r
<1> QED
  BY <1>9, <1>10 DEF n, b, Put

\* What is left of the documents is one of each of the other skills.
LEMMA OtherDocsFacts ==
  ASSUME docs \in Seq(Doc)
  PROVE  /\ OtherDocs \in Seq(Doc)
         /\ OneEach(docs) => OneEach(OtherDocs) /\ SkillsOf(OtherDocs) = SkillsOf(docs) \ {input}
<1> DEFINE n == Len(docs)
           Before(k) == {docs[i].skill : i \in 1..k} \ {input}
<1>1. n \in Nat /\ DOMAIN docs = 1..n /\ \A k \in 1..n : docs[k] \in Doc
  OBVIOUS
<1>2. PICK g : /\ OtherDocs = g[n] /\ g[0] = <<>>
               /\ \A k \in 1..n :
                    g[k] = IF docs[k].skill = input THEN g[k - 1] ELSE Append(g[k - 1], docs[k])
  BY OtherDocsFold
<1> HIDE DEF n
<1> DEFINE Good(t, k) == /\ t \in Seq(Doc)
                         /\ OneEach(docs) => OneEach(t) /\ SkillsOf(t) = Before(k)
           S == {k \in 0..n : Good(g[k], k)}
<1>3. 0 \in S
  <2>1. <<>> \in Seq(Doc) /\ OneEach(<<>>) /\ SkillsOf(<<>>) = {} /\ Before(0) = {}
    BY DEF OneEach, SkillsOf
  <2>2. 0 \in 0..n
    BY <1>1
  <2> HIDE DEF Before
  <2> QED
    BY <1>2, <2>1, <2>2
<1>4. ASSUME NEW k \in 1..n, k - 1 \in S PROVE k \in S
  <2> DEFINE t == g[k - 1]
             x == docs[k]
  <2>1. Good(t, k - 1) /\ k \in 0..n /\ x \in Doc
    BY <1>1, <1>4
  <2>2. 1..k = (1..(k - 1)) \cup {k}
    BY <1>1
  <2>3. {docs[i].skill : i \in 1..k} = {docs[i].skill : i \in 1..(k - 1)} \cup {x.skill}
    BY <2>2
  <2>4. OneEach(docs) => \A i \in 1..(k - 1) : docs[i].skill # x.skill
    BY <1>1 DEF OneEach
  <2>5. CASE x.skill = input
    <3>1. Before(k) = Before(k - 1) /\ g[k] = t
      BY <1>2, <2>3, <2>5
    <3> HIDE DEF Before, t, x
    <3> QED
      BY <2>1, <3>1
  <2>6. CASE x.skill # input
    <3>1. Before(k) = Before(k - 1) \cup {x.skill} /\ g[k] = Append(t, x)
      BY <1>2, <2>3, <2>6
    <3>2. OneEach(docs) => x.skill \notin Before(k - 1)
      BY <2>4
    <3> HIDE DEF Before, t, x
    <3> QED
      BY <2>1, <3>1, <3>2, AppendedDoc
  <2> QED
    BY <2>5, <2>6
<1>5. n \in S
  <2>1. n \in 0..n
    BY <1>1
  <2> HIDE DEF S
  <2>2. 0..n \subseteq S
    BY <1>1, <1>3, <1>4, CountUp
  <2> QED
    BY <2>1, <2>2
<1> QED
  BY <1>1, <1>2, <1>5 DEF SkillsOf
-----------------------------------------------------------------------------
(* The steps of a run *)

\* What a run can name, say and tell.
Names == ToolName \cup EventHandlers \cup {NoName}

Messages == {"", "processed", "acknowledged", "answer", "no answer", "unmapped", "blocked",
             "result", "unavailable", "unknown skill", "activated"}

ToldTypes == {"tool_call", "tool_result", "final_text", "run_completed"}

\* reason ends the run.
Ends == Reasoning /\ \E message \in Messages : Finish(message)

\* reason selects an action.
Selects ==
  /\ Reasoning /\ step < limit
  /\ \E name \in active, skill \in SkillNames \cup {"none"} :
       /\ Select(name, skill)
       /\ name = Name("activate_skill") => skill \in SkillNames

\* act, by whether the handler is invoked and what it leaves in the state.
Blocks == phase = "act" /\ ~Gated /\ Acted("blocked", docs) /\ UNCHANGED invoked

Invoked ==
  /\ phase = "act" /\ Gated /\ Invokes
  /\ \/ \E message \in {"result", "unavailable", "unknown skill"} :
          Acted(message, docs) /\ (message = "unavailable" => selected \in SelfBlocking)
     \/ /\ ActivatesSkill
        /\ \E doc \in Entry : Acted("activated", WithDoc(doc))

Raises ==
  /\ phase = "act" /\ Gated /\ Invokes
  /\ phase' = "idle"
  /\ UNCHANGED <<surfaceVars, runs, event, limit, step, visits, selected, input, output,
                 docs, trace, told>>

BetweenRuns == phase = "idle" /\ UNCHANGED <<gate, runVars>>

Observation ==
  [step : Nat, action : Names, input : SkillNames \cup {"none"}, blocked : BOOLEAN,
   observation : Messages]

Told == [type : ToldTypes, step : Nat, action : Names]

Invocation == [action : Names, step : Nat]

ControlInv ==
  /\ phase \in {"idle", "reason", "act", "observe"}
  /\ limit \in Int /\ step \in Nat /\ visits \in Nat /\ runs \in Nat
  /\ selected \in Names /\ input \in SkillNames \cup {"none"} /\ output \in Messages
  /\ phase = "act" => input \in SkillNames \/ selected # Name("activate_skill")

RecordsInv ==
  /\ docs \in Seq(Doc) /\ trace \in Seq(Observation) /\ told \in Seq(Told)
  /\ invoked \in Seq(Invocation)

RunInv == ControlInv /\ RecordsInv

LEMMA RunSteps ==
  ASSUME SkillsInv, SurfaceInv, RunInv, [Next]_vars
  PROVE  \/ Ends \/ Selects \/ Blocks \/ Invoked \/ Raises \/ Observe \/ Begin \/ BetweenRuns
         \/ UNCHANGED <<surfaceVars, runVars>>
<1>1. CASE StepsSpent \/ ModelAnswers \/ NoModel
  <2>1. Reasoning
    BY <1>1 DEF StepsSpent, ModelAnswers, NoModel, AsksModel
  <2>2. \E message \in {"processed", "acknowledged", "answer", "no answer", "unmapped"} : Finish(message)
    <3>1. CASE StepsSpent
      BY <3>1 DEF StepsSpent
    <3>2. CASE NoModel
      BY <3>2 DEF NoModel
    <3>3. CASE ModelAnswers
      <4>1. PICK message \in {"answer", "no answer"} \cup (IF ToolSpecs = {} THEN {} ELSE {"unmapped"}) :
              Finish(message)
        BY <3>3 DEF ModelAnswers
      <4>2. message \in {"processed", "acknowledged", "answer", "no answer", "unmapped"}
        OBVIOUS
      <4> QED
        BY <4>1, <4>2
    <3> QED
      BY <1>1, <3>1, <3>2, <3>3
  <2>3. {"processed", "acknowledged", "answer", "no answer", "unmapped"} \subseteq Messages
    BY DEF Messages
  <2> QED
    BY <2>1, <2>2, <2>3 DEF Ends
<1>2. CASE RouteReaction
  <2>1. Name("handle_reaction") \in active /\ Name("handle_reaction") # Name("activate_skill")
    BY <1>2 DEF RouteReaction, Deterministic, Name
  <2> QED
    BY <1>2, <2>1 DEF RouteReaction, Selects
<1>3. CASE ModelCalls
  <2>1. PICK name \in active, skill \in SkillNames :
          Select(name, IF name = Name("activate_skill") THEN skill ELSE "none")
    BY <1>3 DEF ModelCalls
  <2>2. Reasoning /\ step < limit
    BY <1>3 DEF ModelCalls, AsksModel
  <2>3. CASE name = Name("activate_skill")
    BY <2>1, <2>2, <2>3 DEF Selects
  <2>4. CASE name # Name("activate_skill")
    BY <2>1, <2>2, <2>4 DEF Selects
  <2> QED
    BY <2>3, <2>4
<1>4. CASE ActBlocked
  BY <1>4 DEF ActBlocked, Blocks
<1>5. CASE ActInvokes
  <2>1. PICK message \in HandlerAnswers : Acted(message, docs)
    BY <1>5 DEF ActInvokes
  <2>2. message \in {"result", "unavailable"} /\ (message = "unavailable" => selected \in SelfBlocking)
    BY DEF HandlerAnswers, SelfBlocking
  <2> QED
    BY <1>5, <2>1, <2>2 DEF ActInvokes, Invoked
<1>6. CASE ActRaises
  BY <1>6 DEF ActRaises, Raises
<1>7. CASE ActActivates
  <2>1. skills' \in [SkillNames -> Entry]
    BY NextSkills DEF SkillsInv
  <2>2. input \in SkillNames
    BY <1>7 DEF ActActivates, ActivatesSkill, RunInv, ControlInv
  <2> QED
    BY <1>7, <2>1, <2>2 DEF ActActivates, Invoked
<1>8. CASE Between
  BY <1>8 DEF Between, Reload, Toggle, AskForSkills, Disable, BetweenRuns, surfaceVars
<1>9. CASE \E p \in PackageSet : Edit(p)
  BY <1>9 DEF Edit
<1>10. CASE UNCHANGED vars
  BY <1>10 DEF vars
<1> QED
  BY <1>1, <1>2, <1>3, <1>4, <1>5, <1>6, <1>7, <1>8, <1>9, <1>10 DEF Next, Run

LEMMA InitRun == Init => RunInv
<1> SUFFICES ASSUME Init PROVE RunInv
  OBVIOUS
<1>1. NoName \in Names /\ "" \in Messages
  BY DEF Names, Messages
<1>2. ControlInv
  BY <1>1, GraphAssumption DEF Init, ControlInv
<1>3. RecordsInv
  <2>1. docs = <<>> /\ trace = <<>> /\ told = <<>> /\ invoked = <<>>
    BY DEF Init
  <2> QED
    BY <2>1, EmptySeq DEF RecordsInv
<1> QED
  BY <1>2, <1>3 DEF RunInv

LEMMA ActiveNames == ASSUME SurfaceInv PROVE active \subseteq Names
<1>1. tools \in Seq(Tool)
  BY SurfaceTools
<1>2. \A k \in DOMAIN tools : tools[k] \in Tool
  BY <1>1
<1>3. NamesOf(tools) \subseteq ToolName
  BY <1>2 DEF NamesOf, Tool
<1>4. active \subseteq EventHandlers \cup NamesOf(tools)
  BY DEF SurfaceInv, Bound
<1> QED
  BY <1>3, <1>4 DEF Names

LEMMA TellTyped ==
  ASSUME RunInv, NEW type \in ToldTypes, NEW name \in Names
  PROVE  Append(told, [type |-> type, step |-> step + 1, action |-> name]) \in Seq(Told)
<1>1. [type |-> type, step |-> step + 1, action |-> name] \in Told
  BY DEF Told, RunInv, ControlInv
<1>2. told \in Seq(Told)
  BY DEF RunInv, RecordsInv
<1> QED
  BY <1>1, <1>2

LEMMA ComposedTyped ==
  ASSUME NEW events \in Seq(Told), step' \in Nat
  PROVE  /\ Composed(events) \in Seq(Told) /\ Len(Composed(events)) = Len(events) + 2
         /\ \A k \in 1..Len(events) : Composed(events)[k] = events[k]
         /\ Composed(events)[Len(events) + 1].type = "final_text"
         /\ Composed(events)[Len(events) + 2].type = "run_completed"
<1> DEFINE a == [type |-> "final_text", step |-> step', action |-> NoName]
           b == [type |-> "run_completed", step |-> step', action |-> NoName]
           c == events \o <<a, b>>
<1>1. NoName \in Names /\ "final_text" \in ToldTypes /\ "run_completed" \in ToldTypes
  BY DEF Names, ToldTypes
<1>2. a \in Told /\ b \in Told /\ a.type = "final_text" /\ b.type = "run_completed"
  BY <1>1 DEF Told
<1>3. Composed(events) = c
  BY DEF Composed
<1> HIDE DEF a, b
<1>4. <<a, b>> \in Seq(Told) /\ Len(<<a, b>>) = 2 /\ <<a, b>>[1] = a /\ <<a, b>>[2] = b
  BY <1>2
<1>5. /\ c \in Seq(Told) /\ Len(c) = Len(events) + 2
      /\ \A k \in 1..Len(c) :
           c[k] = IF k <= Len(events) THEN events[k] ELSE <<a, b>>[k - Len(events)]
  BY <1>4, ConcatProperties
<1> DEFINE l == Len(events)
<1>6. l \in Nat
  OBVIOUS
<1> HIDE DEF c, l
<1>7. c[l + 1] = a /\ c[l + 2] = b /\ \A k \in 1..l : c[k] = events[k]
  <2>1. \A k \in 1..l : k \in 1..(l + 2) /\ k <= l
    BY <1>6
  <2>2. /\ Len(c) = l + 2
        /\ \A k \in 1..(l + 2) : c[k] = IF k <= l THEN events[k] ELSE <<a, b>>[k - l]
    BY <1>5 DEF l
  <2>3. c[l + 1] = <<a, b>>[1] /\ c[l + 2] = <<a, b>>[2]
    <3> DEFINE p == l + 1
               q == l + 2
    <3>1. p \in 1..(l + 2) /\ ~(p <= l) /\ p - l = 1 /\ q \in 1..(l + 2) /\ ~(q <= l) /\ q - l = 2
      BY <1>6
    <3> HIDE DEF p, q
    <3>2. c[p] = <<a, b>>[1] /\ c[q] = <<a, b>>[2]
      BY <2>2, <3>1
    <3> QED
      BY <3>2 DEF p, q
  <2>4. \A k \in 1..l : c[k] = events[k]
    BY <1>6, <2>1, <2>2
  <2> QED
    BY <1>4, <2>3, <2>4
<1> QED
  BY <1>2, <1>3, <1>5, <1>7 DEF l

LEMMA InvokesTyped == ASSUME RunInv, Invokes PROVE invoked' \in Seq(Invocation)
<1>1. [action |-> selected, step |-> step + 1] \in Invocation
  BY DEF Invocation, RunInv, ControlInv
<1>2. invoked \in Seq(Invocation)
  BY DEF RunInv, RecordsInv
<1> QED
  BY <1>1, <1>2 DEF Invokes

LEMMA NextControl ==
  ASSUME SkillsInv, SurfaceInv, RunInv, [Next]_vars
  PROVE  ControlInv'
<1>1. CASE Ends
  BY <1>1 DEF Ends, Finish, Reasoning, RunInv, ControlInv
<1>2. CASE Selects
  <2>1. PICK name \in active, skill \in SkillNames \cup {"none"} :
          Select(name, skill) /\ (name = Name("activate_skill") => skill \in SkillNames)
    BY <1>2 DEF Selects
  <2>2. name \in Names
    BY ActiveNames
  <2> QED
    BY <2>1, <2>2 DEF Select, RunInv, ControlInv
<1>3. CASE Blocks
  <2>1. "blocked" \in Messages
    BY DEF Messages
  <2> QED
    BY <1>3, <2>1 DEF Blocks, Acted, RunInv, ControlInv
<1>4. CASE Invoked
  <2>1. {"result", "unavailable", "unknown skill", "activated"} \subseteq Messages
    BY DEF Messages
  <2> QED
    BY <1>4, <2>1 DEF Invoked, Acted, RunInv, ControlInv
<1>5. CASE Raises
  BY <1>5 DEF Raises, RunInv, ControlInv
<1>6. CASE Observe
  BY <1>6 DEF Observe, RunInv, ControlInv
<1>7. CASE Begin
  <2>1. NoName \in Names /\ "" \in Messages
    BY DEF Names, Messages
  <2>2. limit' \in Limits /\ phase' = "reason"
    BY <1>7 DEF Begin
  <2>3. selected' = NoName /\ input' = "none" /\ output' = ""
    BY <1>7 DEF Begin
  <2>4. limit' \in Int
    BY <2>2, GraphAssumption
  <2>5. step' \in Nat /\ visits' \in Nat /\ runs' \in Nat
    <3>1. runs \in Nat
      BY DEF RunInv, ControlInv
    <3>2. step' = 0 /\ visits' = 0 /\ runs' = runs + 1
      BY <1>7 DEF Begin
    <3> QED
      BY <3>1, <3>2
  <2> QED
    BY <2>1, <2>2, <2>3, <2>4, <2>5 DEF ControlInv
<1>8. CASE BetweenRuns \/ UNCHANGED <<surfaceVars, runVars>>
  BY <1>8 DEF BetweenRuns, runVars, RunInv, ControlInv
<1> QED
  BY <1>1, <1>2, <1>3, <1>4, <1>5, <1>6, <1>7, <1>8, RunSteps

LEMMA NextRecords ==
  ASSUME SkillsInv, SurfaceInv, RunInv, [Next]_vars
  PROVE  RecordsInv'
<1>1. CASE Ends
  <2>1. step' \in Nat /\ told' = Composed(told) /\ told \in Seq(Told)
    BY <1>1 DEF Ends, Finish, RunInv, ControlInv, RecordsInv
  <2>2. told' \in Seq(Told)
    BY <2>1, ComposedTyped
  <2> QED
    BY <1>1, <2>2 DEF Ends, Finish, RunInv, RecordsInv
<1>2. CASE Selects
  <2>1. PICK name \in active, skill \in SkillNames \cup {"none"} : Select(name, skill)
    BY <1>2 DEF Selects
  <2>2. name \in Names /\ "tool_call" \in ToldTypes
    BY ActiveNames DEF ToldTypes
  <2>3. told' \in Seq(Told)
    BY <2>1, <2>2, TellTyped DEF Select
  <2> QED
    BY <2>1, <2>3 DEF Select, RunInv, RecordsInv
<1>3. CASE Blocks
  BY <1>3 DEF Blocks, Acted, RunInv, RecordsInv
<1>4. CASE Invoked
  <2>1. invoked' \in Seq(Invocation)
    BY <1>4, InvokesTyped DEF Invoked
  <2>2. docs' \in Seq(Doc) /\ told' = told /\ trace' = trace
    <3>1. CASE \E message \in {"result", "unavailable", "unknown skill"} : Acted(message, docs)
      BY <3>1 DEF Acted, RunInv, RecordsInv
    <3>2. CASE \E doc \in Entry : Acted("activated", WithDoc(doc))
      <4>1. OtherDocs \in Seq(Doc)
        BY OtherDocsFacts DEF RunInv, RecordsInv
      <4>2. PICK doc \in Entry : docs' = WithDoc(doc) /\ told' = told /\ trace' = trace
        BY <3>2 DEF Acted
      <4>3. [skill |-> input, doc |-> doc] \in Doc
        BY DEF Doc, RunInv, ControlInv
      <4> QED
        BY <4>1, <4>2, <4>3 DEF WithDoc
    <3> QED
      BY <1>4, <3>1, <3>2 DEF Invoked
  <2> QED
    BY <2>1, <2>2 DEF RunInv, RecordsInv
<1>5. CASE Raises
  <2>1. invoked' \in Seq(Invocation)
    BY <1>5, InvokesTyped DEF Raises
  <2> QED
    BY <1>5, <2>1 DEF Raises, RunInv, RecordsInv
<1>6. CASE Observe
  <2> DEFINE o == [step |-> step', action |-> selected, input |-> input,
                 blocked |-> SaysBlocked(output), observation |-> output]
  <2>1. step' \in Nat
    BY <1>6 DEF Observe, RunInv, ControlInv
  <2>2. o \in Observation
    <3>1. SaysBlocked(output) \in BOOLEAN
      BY DEF SaysBlocked
    <3> QED
      BY <2>1, <3>1 DEF Observation, RunInv, ControlInv
  <2>3. trace' = Append(trace, o) /\ trace \in Seq(Observation)
    BY <1>6 DEF Observe, RunInv, RecordsInv
  <2> HIDE DEF o
  <2>4. trace' \in Seq(Observation)
    BY <2>2, <2>3
  <2>5. selected \in Names /\ "tool_result" \in ToldTypes
    BY DEF RunInv, ControlInv, ToldTypes
  <2>6. Tell("tool_result") \in Seq(Told)
    BY <2>5, TellTyped DEF Tell
  <2>7. Composed(Tell("tool_result")) \in Seq(Told)
    BY <2>1, <2>6, ComposedTyped
  <2> QED
    BY <1>6, <2>4, <2>6, <2>7 DEF Observe, RunInv, RecordsInv
<1>7. CASE Begin
  <2>1. docs' = <<>> /\ trace' = <<>> /\ told' = <<>> /\ invoked' = <<>>
    BY <1>7 DEF Begin
  <2> QED
    BY <2>1, EmptySeq DEF RecordsInv
<1>8. CASE BetweenRuns \/ UNCHANGED <<surfaceVars, runVars>>
  BY <1>8 DEF BetweenRuns, runVars, RunInv, RecordsInv
<1> QED
  BY <1>1, <1>2, <1>3, <1>4, <1>5, <1>6, <1>7, <1>8, RunSteps

LEMMA AlwaysRun == Spec => [](SkillsInv /\ SurfaceInv /\ RunInv)
<1>1. Init => SkillsInv /\ SurfaceInv /\ RunInv
  BY InitSkills, InitSurface, InitRun
<1>2. SkillsInv /\ SurfaceInv /\ RunInv /\ [Next]_vars => (SkillsInv /\ SurfaceInv /\ RunInv)'
  BY NextSkills, NextSurface, NextControl, NextRecords DEF RunInv
<1> QED
  BY <1>1, <1>2, PTL DEF Spec
-----------------------------------------------------------------------------
(* The steps are counted *)

\* The budget is checked before an action is selected, so an action that runs still fits.
StepsInv ==
  /\ Len(trace) = step
  /\ \A k \in DOMAIN trace : trace[k].step = k
  /\ step = 0 \/ step <= limit
  /\ phase = "reason" => visits = step /\ (step = 0 \/ step < limit)
  /\ phase \in {"act", "observe"} => visits = step + 1 /\ step < limit

LEMMA InitSteps == Init => StepsInv
<1>1. Init => phase = "idle" /\ step = 0 /\ trace = <<>>
  BY DEF Init
<1>2. phase = "idle" /\ step = 0 /\ trace = <<>> => StepsInv
  BY DEF StepsInv
<1> QED
  BY <1>1, <1>2

LEMMA NextSteps ==
  ASSUME SkillsInv, SurfaceInv, RunInv, StepsInv, [Next]_vars
  PROVE  StepsInv'
<1>1. CASE Ends
  BY <1>1 DEF Ends, Finish, StepsInv
<1>2. CASE Selects
  <2>1. /\ phase = "reason" /\ step < limit /\ phase' = "act" /\ visits' = visits + 1
        /\ UNCHANGED <<trace, step, limit>>
    BY <1>2 DEF Selects, Reasoning, Select
  <2> QED
    BY <2>1 DEF StepsInv
<1>3. CASE Blocks \/ Invoked
  <2>1. /\ phase = "act" /\ phase' = "observe"
        /\ UNCHANGED <<trace, step, limit, visits>>
    BY <1>3 DEF Blocks, Invoked, Acted
  <2> QED
    BY <2>1 DEF StepsInv
<1>4. CASE Raises
  BY <1>4 DEF Raises, StepsInv
<1>5. CASE Observe
  <2> DEFINE o == [step |-> step', action |-> selected, input |-> input,
                 blocked |-> SaysBlocked(output), observation |-> output]
  <2>1. /\ phase = "observe" /\ step' = step + 1 /\ trace' = Append(trace, o)
        /\ UNCHANGED <<limit, visits>>
    BY <1>5 DEF Observe
  <2>2. phase' = IF step' >= limit THEN "idle" ELSE "reason"
    BY <1>5 DEF Observe
  <2>3. o.step = step'
    OBVIOUS
  <2> HIDE DEF o
  <2>4. trace \in Seq(Observation) /\ step \in Nat /\ limit \in Int
    BY DEF RunInv, ControlInv, RecordsInv
  <2>5. Len(trace') = step'
    BY <2>1, <2>4 DEF StepsInv
  <2>6. \A k \in DOMAIN trace' : trace'[k].step = k
    <3> SUFFICES ASSUME NEW k \in DOMAIN trace' PROVE trace'[k].step = k
      OBVIOUS
    <3>1. k \in 1..step'
      BY <2>1, <2>4, <2>5
    <3>2. CASE k = step'
      <4>1. trace'[k] = o
        BY <2>1, <2>4, <3>2 DEF StepsInv
      <4> QED
        BY <2>3, <3>2, <4>1
    <3>3. CASE k # step'
      <4>1. k \in DOMAIN trace /\ trace'[k] = trace[k]
        BY <2>1, <2>4, <3>1, <3>3 DEF StepsInv
      <4> QED
        BY <4>1 DEF StepsInv
    <3> QED
      BY <3>2, <3>3
  <2>7. step <= limit - 1 /\ visits = step + 1
    BY <2>1, <2>4 DEF StepsInv
  <2> QED
    BY <2>1, <2>2, <2>4, <2>5, <2>6, <2>7 DEF StepsInv
<1>6. CASE Begin
  <2>1. trace' = <<>> /\ step' = 0 /\ visits' = 0 /\ phase' = "reason"
    BY <1>6 DEF Begin
  <2> QED
    BY <2>1 DEF StepsInv
<1>7. CASE BetweenRuns \/ UNCHANGED <<surfaceVars, runVars>>
  BY <1>7 DEF BetweenRuns, runVars, StepsInv
<1> QED
  BY <1>1, <1>2, <1>3, <1>4, <1>5, <1>6, <1>7, RunSteps

LEMMA StepsBounded == ASSUME RunInv, StepsInv PROVE StepsAreBounded
<1>1. step \in Nat /\ limit \in Int /\ visits \in Nat
  BY DEF RunInv, ControlInv
<1>2. step <= Max({limit, 0})
  <2>1. Max({limit, 0}) \in {limit, 0} /\ limit <= Max({limit, 0}) /\ 0 <= Max({limit, 0})
    BY <1>1, MaxOfTwo
  <2> HIDE DEF Max
  <2> QED
    BY <1>1, <2>1 DEF StepsInv
<1>3. phase = "reason" => visits < LoopGuard
  <2>1. limit + 2 \in Int
    BY <1>1
  <2>2. /\ Max({limit + 2, 3}) \in {limit + 2, 3}
        /\ limit + 2 <= Max({limit + 2, 3}) /\ 3 <= Max({limit + 2, 3})
    BY <2>1, MaxOfTwo
  <2> QED
    BY <1>1, <2>2 DEF StepsInv, LoopGuard
<1> QED
  BY <1>2, <1>3 DEF StepsInv, StepsAreBounded

\* Whatever react_max_steps is, 0 and negative numbers included: a run takes at most that
\* many actions, numbers them without a gap, and never comes to the round at which the loop
\* guard of invoke would end it with a reply of its own (graph.py 26-28, 61-70).
THEOREM RunsAreBounded == Spec => []StepsAreBounded
<1>1. Init => StepsInv
  BY InitSteps
<1>2. SkillsInv /\ SurfaceInv /\ RunInv /\ StepsInv /\ [Next]_vars => StepsInv'
  BY NextSteps
<1>3. RunInv /\ StepsInv => StepsAreBounded
  BY StepsBounded
<1> QED
  BY <1>1, <1>2, <1>3, AlwaysRun, PTL DEF Spec
-----------------------------------------------------------------------------
(* The gate *)

Ran(ran, n) == \E j \in DOMAIN ran : ran[j].step = n

\* What a trace may say of an action, by whether its handler ran.
MarkedRight(blocked, name, ran) == IF ran THEN blocked => name \in SelfBlocking ELSE blocked

Permitted(by, among, name) == name \in NamesOf(among) => Allows(by, name, ToolNamed(among, name).risk)

\* A handler is recorded under the step that will be traced next, and nothing of that step
\* is recorded before it acts.
GateInv ==
  /\ phase # "idle" => \A k \in DOMAIN invoked : Permitted(gate, tools, invoked[k].action)
  /\ \A k \in DOMAIN trace : MarkedRight(trace[k].blocked, trace[k].action, Ran(invoked, k))
  /\ phase \in {"reason", "act"} => \A j \in DOMAIN invoked : invoked[j].step <= step
  /\ phase = "observe" => /\ \A j \in DOMAIN invoked : invoked[j].step <= step + 1
                          /\ MarkedRight(SaysBlocked(output), selected, Ran(invoked, step + 1))

LEMMA InitGate == Init => GateInv
<1>1. Init => phase = "idle" /\ trace = <<>>
  BY DEF Init
<1>2. phase = "idle" /\ trace = <<>> => GateInv
  BY DEF GateInv
<1> QED
  BY <1>1, <1>2

LEMMA StepsOfInvoked == ASSUME RunInv PROVE \A j \in DOMAIN invoked : invoked[j].step \in Nat
<1>1. invoked \in Seq(Invocation)
  BY DEF RunInv, RecordsInv
<1>2. \A j \in DOMAIN invoked : invoked[j] \in Invocation
  BY <1>1
<1> QED
  BY <1>2 DEF Invocation

LEMMA GatedIsPermitted == ASSUME SurfaceInv, Gated PROVE Permitted(gate, tools, selected)
<1> SUFFICES ASSUME selected \in NamesOf(tools)
             PROVE  Allows(gate, selected, ToolNamed(tools, selected).risk)
  BY DEF Permitted
<1>1. Bound(tools)[selected] = [source |-> "tool", risk |-> ToolNamed(tools, selected).risk]
  BY DEF Bound
<1>2. host[selected].risk = ToolNamed(tools, selected).risk
  BY <1>1 DEF SurfaceInv
<1> QED
  BY <1>2 DEF Gated

\* What invoking a handler adds to what ran.
LEMMA InvokedSteps ==
  ASSUME RunInv, Invokes
  PROVE  /\ \A n : Ran(invoked', n) <=> Ran(invoked, n) \/ n = step + 1
         /\ \A k \in DOMAIN invoked' :
              invoked'[k] = [action |-> selected, step |-> step + 1] \/
              \E j \in DOMAIN invoked : invoked'[k] = invoked[j]
<1> DEFINE x == [action |-> selected, step |-> step + 1]
           l == Len(invoked)
<1>1. invoked' = Append(invoked, x) /\ invoked \in Seq(Invocation) /\ x.step = step + 1
  BY DEF Invokes, RunInv, RecordsInv
<1> HIDE DEF x
<1>2. /\ DOMAIN invoked = 1..l /\ DOMAIN invoked' = 1..(l + 1) /\ l \in Nat
      /\ invoked'[l + 1] = x /\ \A k \in 1..l : invoked'[k] = invoked[k]
  BY <1>1
<1> HIDE DEF l
<1>3. \A k \in DOMAIN invoked' : k \in DOMAIN invoked \/ k = l + 1
  BY <1>2
<1>4. l + 1 \in DOMAIN invoked' /\ DOMAIN invoked \subseteq DOMAIN invoked'
  BY <1>2
<1>5. ASSUME NEW n PROVE Ran(invoked', n) <=> Ran(invoked, n) \/ n = step + 1
  BY <1>1, <1>2, <1>3, <1>4 DEF Ran
<1> QED
  BY <1>2, <1>3, <1>5 DEF x

LEMMA NextGate ==
  ASSUME SkillsInv, SurfaceInv, RunInv, StepsInv, GateInv, [Next]_vars
  PROVE  GateInv'
<1>1. step \in Nat /\ trace \in Seq(Observation) /\ DOMAIN trace = 1..step
  BY DEF RunInv, ControlInv, RecordsInv, StepsInv
<1>2. CASE Ends
  BY <1>2 DEF Ends, Finish, GateInv, Ran
<1>3. CASE Selects
  <2>1. phase = "reason" /\ phase' = "act" /\ UNCHANGED <<gate, tools, trace, invoked, step>>
    BY <1>3 DEF Selects, Reasoning, Select, surfaceVars
  <2> QED
    BY <2>1 DEF GateInv, Ran, Permitted
<1>4. CASE Blocks
  <2>1. /\ phase = "act" /\ phase' = "observe" /\ output' = "blocked"
        /\ UNCHANGED <<gate, tools, trace, invoked, step>>
    BY <1>4 DEF Blocks, Acted, surfaceVars
  <2>2. \A j \in DOMAIN invoked : invoked[j].step \in Nat
    BY StepsOfInvoked
  <2>3. ~Ran(invoked, step + 1)
    BY <1>1, <2>1, <2>2 DEF GateInv, Ran
  <2>4. \A j \in DOMAIN invoked : invoked[j].step <= step + 1
    BY <1>1, <2>1, <2>2 DEF GateInv
  <2>5. SaysBlocked(output')
    BY <2>1 DEF SaysBlocked
  <2>6. MarkedRight(SaysBlocked(output'), selected', Ran(invoked, step + 1))
    BY <2>3, <2>5 DEF MarkedRight
  <2> HIDE DEF MarkedRight
  <2> QED
    BY <2>1, <2>4, <2>6 DEF GateInv, Ran, Permitted
<1>5. CASE Invoked \/ Raises
  <2>1. /\ phase = "act" /\ Gated /\ Invokes
        /\ UNCHANGED <<gate, tools, trace, step>>
    BY <1>5 DEF Invoked, Raises, Acted, surfaceVars
  <2>2. \/ phase' = "idle"
        \/ /\ phase' = "observe"
           /\ UNCHANGED selected /\ (SaysBlocked(output') => selected \in SelfBlocking)
    BY <1>5 DEF Invoked, Raises, Acted, SaysBlocked
  <2>3. /\ \A n : Ran(invoked', n) <=> Ran(invoked, n) \/ n = step + 1
        /\ \A k \in DOMAIN invoked' :
             invoked'[k] = [action |-> selected, step |-> step + 1] \/
             \E j \in DOMAIN invoked : invoked'[k] = invoked[j]
    BY <2>1, InvokedSteps
  <2>4. \A j \in DOMAIN invoked : invoked[j].step <= step /\ invoked[j].step \in Nat
    BY <2>1, StepsOfInvoked DEF GateInv
  <2>5. \A k \in DOMAIN invoked' : invoked'[k].step <= step + 1
    <3>1. \A j \in DOMAIN invoked : invoked[j].step <= step + 1
      BY <1>1, <2>4
    <3>2. [action |-> selected, step |-> step + 1].step <= step + 1
      BY <1>1
    <3> QED
      BY <2>3, <3>1, <3>2
  <2>6. \A k \in DOMAIN invoked' : Permitted(gate, tools, invoked'[k].action)
    <3>1. Permitted(gate, tools, selected)
      BY <2>1, GatedIsPermitted
    <3>2. \A j \in DOMAIN invoked : Permitted(gate, tools, invoked[j].action)
      BY <2>1 DEF GateInv
    <3> HIDE DEF Permitted
    <3> QED
      BY <2>3, <3>1, <3>2
  <2>7. \A k \in DOMAIN trace : MarkedRight(trace[k].blocked, trace[k].action, Ran(invoked', k))
    <3> SUFFICES ASSUME NEW k \in DOMAIN trace
                 PROVE  MarkedRight(trace[k].blocked, trace[k].action, Ran(invoked', k))
      OBVIOUS
    <3>1. k # step + 1
      BY <1>1
    <3>2. Ran(invoked', k) <=> Ran(invoked, k)
      BY <2>3, <3>1
    <3>3. MarkedRight(trace[k].blocked, trace[k].action, Ran(invoked, k))
      BY DEF GateInv
    <3> QED
      BY <3>2, <3>3 DEF MarkedRight
  <2>8. Ran(invoked', step + 1)
    BY <2>3
  <2>9. \A k \in DOMAIN invoked' : Permitted(gate', tools', invoked'[k].action)
    BY <2>1, <2>6
  <2>10. phase' = "observe" => MarkedRight(SaysBlocked(output'), selected', Ran(invoked', step + 1))
    BY <2>2, <2>8 DEF MarkedRight
  <2> QED
    BY <2>1, <2>2, <2>5, <2>7, <2>9, <2>10 DEF GateInv, Ran
<1>6. CASE Observe
  <2> DEFINE o == [step |-> step', action |-> selected, input |-> input,
                 blocked |-> SaysBlocked(output), observation |-> output]
  <2>1. /\ phase = "observe" /\ step' = step + 1 /\ trace' = Append(trace, o)
        /\ phase' \in {"idle", "reason"} /\ UNCHANGED <<gate, tools, invoked>>
    BY <1>6 DEF Observe, surfaceVars
  <2>2. o.blocked = SaysBlocked(output) /\ o.action = selected
    OBVIOUS
  <2> HIDE DEF o
  <2>3. Len(trace) = step
    BY DEF StepsInv
  <2>4. ASSUME NEW k \in DOMAIN trace'
        PROVE  MarkedRight(trace'[k].blocked, trace'[k].action, Ran(invoked, k))
    <3>1. k \in 1..(step + 1)
      BY <1>1, <2>1, <2>3
    <3>2. CASE k = step + 1
      <4>1. trace'[k] = o
        BY <1>1, <2>1, <2>3, <3>2
      <4> QED
        BY <2>1, <2>2, <3>2, <4>1 DEF GateInv
    <3>3. CASE k # step + 1
      <4>1. k \in DOMAIN trace /\ trace'[k] = trace[k]
        BY <1>1, <2>1, <2>3, <3>1, <3>3
      <4> QED
        BY <4>1 DEF GateInv
    <3> QED
      BY <3>2, <3>3
  <2>5. \A k \in DOMAIN trace' : MarkedRight(trace'[k].blocked, trace'[k].action, Ran(invoked', k))
    BY <2>1, <2>4 DEF Ran
  <2> QED
    BY <2>1, <2>5 DEF GateInv, Ran, Permitted
<1>7. CASE Begin
  <2>1. trace' = <<>> /\ invoked' = <<>> /\ phase' = "reason"
    BY <1>7 DEF Begin
  <2> QED
    BY <2>1 DEF GateInv
<1>8. CASE BetweenRuns
  <2>1. phase = "idle" /\ UNCHANGED <<phase, trace, invoked, step, output>>
    BY <1>8 DEF BetweenRuns, runVars
  <2> QED
    BY <2>1 DEF GateInv, Ran
<1>9. CASE UNCHANGED <<surfaceVars, runVars>>
  BY <1>9 DEF surfaceVars, runVars, GateInv, Ran, Permitted
<1> QED
  BY <1>2, <1>3, <1>4, <1>5, <1>6, <1>7, <1>8, <1>9, RunSteps

\* Whatever was reloaded, activated, displaced or renamed before a run: a handler runs only
\* if the gate allows the risk of the tool registered under the name, and the trace says
\* blocked of every step whose handler did not run, and of no other but those of browser and
\* desktop_screenshot, which answer so themselves (execution.py 79-83, 112).
THEOREM GateIsObeyed == Spec => []GateHolds
<1>1. SkillsInv /\ SurfaceInv /\ RunInv /\ StepsInv /\ [Next]_vars => StepsInv'
  BY NextSteps
<1>2. SkillsInv /\ SurfaceInv /\ RunInv /\ StepsInv /\ GateInv /\ [Next]_vars => GateInv'
  BY NextGate
<1>3. GateInv => GateHolds
  BY DEF GateInv, GateHolds, Permitted, Ran, MarkedRight
<1> QED
  BY <1>1, <1>2, <1>3, InitSteps, InitGate, AlwaysRun, PTL DEF Spec
-----------------------------------------------------------------------------
(* What a run tells, and the documents it leaves *)

Event(type, n, name) == [type |-> type, step |-> n, action |-> name]

\* The i-th action is told by the events 2i - 1 and 2i.
ToldInv ==
  /\ \A i \in 1..step : /\ told[2 * i - 1] = Event("tool_call", i, trace[i].action)
                        /\ told[2 * i] = Event("tool_result", i, trace[i].action)
  /\ Len(told) >= 2 * step
  /\ phase = "reason" => Len(told) = 2 * step
  /\ phase \in {"act", "observe"} =>
       Len(told) = 2 * step + 1 /\ told[2 * step + 1] = Event("tool_call", step + 1, selected)
  /\ phase = "idle" /\ runs > 0 =>
       \/ /\ Len(told) = 2 * step + 1
          /\ told[2 * step + 1].type = "tool_call"
       \/ /\ Len(told) = 2 * step + 2
          /\ told[2 * step + 1].type = "final_text" /\ told[2 * step + 2].type = "run_completed"

LEMMA InitTold == Init => ToldInv
<1>1. Init => phase = "idle" /\ step = 0 /\ runs = 0 /\ told = <<>>
  BY DEF Init
<1>2. phase = "idle" /\ step = 0 /\ runs = 0 /\ told = <<>> => ToldInv
  BY DEF ToldInv
<1> QED
  BY <1>1, <1>2

LEMMA NextTold ==
  ASSUME SkillsInv, SurfaceInv, RunInv, StepsInv, ToldInv, [Next]_vars
  PROVE  ToldInv'
<1>1. step \in Nat /\ runs \in Nat /\ told \in Seq(Told) /\ trace \in Seq(Observation)
  BY DEF RunInv, ControlInv, RecordsInv
<1>2. CASE Ends
  <2>1. /\ phase = "reason" /\ phase' = "idle" /\ told' = Composed(told)
        /\ UNCHANGED <<step, trace, runs>>
    BY <1>2 DEF Ends, Reasoning, Finish
  <2>2. /\ Len(told') = Len(told) + 2 /\ \A k \in 1..Len(told) : told'[k] = told[k]
        /\ told'[Len(told) + 1].type = "final_text" /\ told'[Len(told) + 2].type = "run_completed"
    BY <1>1, <2>1, ComposedTyped
  <2>3. Len(told) = 2 * step
    BY <2>1 DEF ToldInv
  <2>4. \A i \in 1..step : 2 * i - 1 \in 1..(2 * step) /\ 2 * i \in 1..(2 * step)
    BY <1>1
  <2>5. \A i \in 1..step : /\ told'[2 * i - 1] = Event("tool_call", i, trace[i].action)
                           /\ told'[2 * i] = Event("tool_result", i, trace[i].action)
    BY <2>2, <2>3, <2>4 DEF ToldInv
  <2> QED
    BY <1>1, <2>1, <2>2, <2>3, <2>5 DEF ToldInv
<1>3. CASE Selects
  <2>1. PICK name \in active, skill \in SkillNames \cup {"none"} : Select(name, skill)
    BY <1>3 DEF Selects
  <2> DEFINE e == Event("tool_call", step + 1, name)
  <2>2. /\ phase = "reason" /\ phase' = "act" /\ told' = Append(told, e) /\ selected' = name
        /\ UNCHANGED <<step, trace, runs>>
    BY <1>3, <2>1 DEF Selects, Reasoning, Select, Event
  <2>3. Len(told) = 2 * step
    BY <2>2 DEF ToldInv
  <2> HIDE DEF e
  <2>4. Len(told') = 2 * step + 1 /\ told'[2 * step + 1] = e /\ \A k \in 1..(2 * step) : told'[k] = told[k]
    BY <1>1, <2>2, <2>3
  <2>5. \A i \in 1..step : 2 * i - 1 \in 1..(2 * step) /\ 2 * i \in 1..(2 * step)
    BY <1>1
  <2>6. \A i \in 1..step : /\ told'[2 * i - 1] = Event("tool_call", i, trace[i].action)
                           /\ told'[2 * i] = Event("tool_result", i, trace[i].action)
    BY <2>4, <2>5 DEF ToldInv
  <2> QED
    BY <1>1, <2>2, <2>4, <2>6 DEF ToldInv, e
<1>4. CASE Blocks \/ Invoked
  <2>1. /\ phase = "act" /\ phase' = "observe" /\ UNCHANGED <<told, step, trace, runs, selected>>
    BY <1>4 DEF Blocks, Invoked, Acted
  <2> QED
    BY <2>1 DEF ToldInv
<1>5. CASE Raises
  <2>1. /\ phase = "act" /\ phase' = "idle" /\ UNCHANGED <<told, step, trace, runs, selected>>
    BY <1>5 DEF Raises
  <2>2. Event("tool_call", step + 1, selected).type = "tool_call"
    BY DEF Event
  <2> QED
    BY <2>1, <2>2 DEF ToldInv
<1>6. CASE Observe
  <2> DEFINE o == [step |-> step', action |-> selected, input |-> input,
                 blocked |-> SaysBlocked(output), observation |-> output]
             e == Event("tool_result", step + 1, selected)
             t == Append(told, e)
             n == step + 1
  <2>1. /\ phase = "observe" /\ step' = n /\ trace' = Append(trace, o)
        /\ UNCHANGED <<runs, selected>>
    BY <1>6 DEF Observe
  <2>2. \/ phase' = "idle" /\ told' = Composed(t)
        \/ phase' = "reason" /\ told' = t
    BY <1>6 DEF Observe, Tell, Event
  <2>3. selected \in Names /\ "tool_result" \in ToldTypes
    BY DEF RunInv, ControlInv, ToldTypes
  <2>4. t \in Seq(Told)
    BY <2>3, TellTyped DEF Event
  <2>5. o.action = selected
    OBVIOUS
  <2> HIDE DEF o, e
  <2>6. Len(told) = 2 * step + 1 /\ told[2 * step + 1] = Event("tool_call", n, selected)
    BY <2>1 DEF ToldInv
  <2>7. Len(t) = 2 * n /\ t[2 * n] = e /\ \A k \in 1..(2 * n - 1) : t[k] = told[k]
    BY <1>1, <2>6
  <2>8. Len(trace) = step
    BY DEF StepsInv
  <2>9. trace'[n] = o /\ \A i \in 1..step : trace'[i] = trace[i]
    BY <1>1, <2>1, <2>8
  <2> HIDE DEF t
  <2>10. \A i \in 1..n : /\ t[2 * i - 1] = Event("tool_call", i, trace'[i].action)
                         /\ t[2 * i] = Event("tool_result", i, trace'[i].action)
    <3> SUFFICES ASSUME NEW i \in 1..n
                 PROVE  /\ t[2 * i - 1] = Event("tool_call", i, trace'[i].action)
                        /\ t[2 * i] = Event("tool_result", i, trace'[i].action)
      OBVIOUS
    <3>1. CASE i = n
      <4>1. 2 * n - 1 = 2 * step + 1 /\ 2 * n - 1 \in 1..(2 * n - 1)
        BY <1>1
      <4> QED
        BY <2>5, <2>6, <2>7, <2>9, <3>1, <4>1 DEF e
    <3>2. CASE i # n
      <4>1. i \in 1..step /\ 2 * i - 1 \in 1..(2 * n - 1) /\ 2 * i \in 1..(2 * n - 1)
        BY <1>1, <3>2
      <4>2. t[2 * i - 1] = told[2 * i - 1] /\ t[2 * i] = told[2 * i]
        BY <2>7, <4>1
      <4> HIDE DEF n
      <4> QED
        BY <2>9, <4>1, <4>2 DEF ToldInv
    <3> QED
      BY <3>1, <3>2
  <2>11. n \in Nat
    BY <1>1
  <2> HIDE DEF n
  <2>12. CASE phase' = "reason" /\ told' = t
    <3>1. Len(told') >= 2 * step' /\ Len(told') = 2 * step'
      BY <2>1, <2>7, <2>11, <2>12
    <3>2. \A i \in 1..step' : /\ told'[2 * i - 1] = Event("tool_call", i, trace'[i].action)
                              /\ told'[2 * i] = Event("tool_result", i, trace'[i].action)
      BY <2>1, <2>10, <2>12
    <3> QED
      BY <2>12, <3>1, <3>2 DEF ToldInv
  <2>13. CASE phase' = "idle" /\ told' = Composed(t)
    <3>1. /\ Len(told') = 2 * n + 2 /\ \A k \in 1..(2 * n) : told'[k] = t[k]
          /\ told'[2 * n + 1].type = "final_text" /\ told'[2 * n + 2].type = "run_completed"
      BY <2>1, <2>4, <2>7, <2>11, <2>13, ComposedTyped
    <3>2. \A i \in 1..n : 2 * i - 1 \in 1..(2 * n) /\ 2 * i \in 1..(2 * n)
      BY <2>11
    <3>3. \A i \in 1..n : /\ told'[2 * i - 1] = Event("tool_call", i, trace'[i].action)
                          /\ told'[2 * i] = Event("tool_result", i, trace'[i].action)
      BY <2>10, <3>1, <3>2
    <3>4. Len(told') >= 2 * step' /\ Len(told') = 2 * step' + 2
      BY <2>1, <2>11, <3>1
    <3>5. \A i \in 1..step' : /\ told'[2 * i - 1] = Event("tool_call", i, trace'[i].action)
                              /\ told'[2 * i] = Event("tool_result", i, trace'[i].action)
      BY <2>1, <3>3
    <3>6. /\ told'[2 * step' + 1].type = "final_text"
          /\ told'[2 * step' + 2].type = "run_completed"
      BY <2>1, <3>1
    <3> QED
      BY <2>13, <3>4, <3>5, <3>6 DEF ToldInv
  <2> QED
    BY <2>2, <2>12, <2>13
<1>7. CASE Begin
  <2>1. told' = <<>> /\ step' = 0 /\ phase' = "reason"
    BY <1>7 DEF Begin
  <2> QED
    BY <2>1 DEF ToldInv
<1>8. CASE BetweenRuns \/ UNCHANGED <<surfaceVars, runVars>>
  <2>1. UNCHANGED <<told, step, trace, phase, runs, selected>>
    BY <1>8 DEF BetweenRuns, runVars
  <2> QED
    BY <2>1 DEF ToldInv
<1> QED
  BY <1>2, <1>3, <1>4, <1>5, <1>6, <1>7, <1>8, RunSteps

\* The skills a trace says were activated.
Activated(t) == {t[k].input : k \in {j \in DOMAIN t : t[j].observation = "activated"}}

\* The documents run ahead of the trace by the action that is about to be observed.
DocsInv ==
  /\ OneEach(docs)
  /\ SkillsOf(docs) = Activated(trace) \cup
                        (IF phase = "observe" /\ output = "activated" THEN {input} ELSE {})

LEMMA InitDocs == Init => DocsInv
<1>1. Init => docs = <<>> /\ trace = <<>> /\ phase = "idle"
  BY DEF Init
<1>2. docs = <<>> /\ trace = <<>> /\ phase = "idle" => DocsInv
  BY DEF DocsInv, OneEach, SkillsOf, Activated
<1> QED
  BY <1>1, <1>2

LEMMA ActivatedByAppended ==
  ASSUME NEW t \in Seq(Observation), NEW o \in Observation
  PROVE  Activated(Append(t, o)) =
           Activated(t) \cup (IF o.observation = "activated" THEN {o.input} ELSE {})
<1> DEFINE a == Append(t, o)
           l == Len(t)
<1>1. /\ DOMAIN t = 1..l /\ DOMAIN a = 1..(l + 1) /\ l \in Nat
      /\ a[l + 1] = o /\ \A k \in 1..l : a[k] = t[k]
  BY AppendProperties
<1> HIDE DEF a, l
<1>2. \A k \in DOMAIN a : k \in DOMAIN t \/ k = l + 1
  BY <1>1
<1>3. l + 1 \in DOMAIN a /\ DOMAIN t \subseteq DOMAIN a /\ \A k \in DOMAIN t : a[k] = t[k]
  BY <1>1
<1>4. ASSUME NEW x
      PROVE  x \in Activated(a) <=>
               x \in Activated(t) \/ (o.observation = "activated" /\ x = o.input)
  BY <1>1, <1>2, <1>3 DEF Activated
<1> QED
  BY <1>4 DEF a

LEMMA NextDocs ==
  ASSUME SkillsInv, SurfaceInv, RunInv, DocsInv, [Next]_vars
  PROVE  DocsInv'
<1>1. CASE Ends
  <2>1. phase = "reason" /\ phase' = "idle" /\ UNCHANGED <<docs, trace>>
    BY <1>1 DEF Ends, Reasoning, Finish
  <2> QED
    BY <2>1 DEF DocsInv
<1>2. CASE Selects
  <2>1. phase = "reason" /\ phase' = "act" /\ UNCHANGED <<docs, trace>>
    BY <1>2 DEF Selects, Reasoning, Select
  <2> QED
    BY <2>1 DEF DocsInv
<1>3. CASE Blocks
  <2>1. phase = "act" /\ output' = "blocked" /\ UNCHANGED <<docs, trace>>
    BY <1>3 DEF Blocks, Acted
  <2> QED
    BY <2>1 DEF DocsInv
<1>4. CASE Invoked
  <2>1. phase = "act" /\ phase' = "observe" /\ UNCHANGED <<trace, input>>
    BY <1>4 DEF Invoked, Acted
  <2>2. CASE \E message \in {"result", "unavailable", "unknown skill"} : Acted(message, docs)
    <3>1. output' # "activated" /\ docs' = docs
      BY <2>2 DEF Acted
    <3> QED
      BY <2>1, <3>1 DEF DocsInv
  <2>3. CASE \E doc \in Entry : Acted("activated", WithDoc(doc))
    <3>1. PICK doc \in Entry : docs' = WithDoc(doc) /\ output' = "activated"
      BY <2>3 DEF Acted
    <3> DEFINE x == [skill |-> input, doc |-> doc]
    <3>2. /\ OtherDocs \in Seq(Doc) /\ OneEach(OtherDocs)
          /\ SkillsOf(OtherDocs) = SkillsOf(docs) \ {input}
      BY OtherDocsFacts DEF RunInv, RecordsInv, DocsInv
    <3>3. x \in Doc /\ x.skill = input
      BY DEF Doc, RunInv, ControlInv
    <3>4. docs' = Append(OtherDocs, x)
      BY <3>1 DEF WithDoc
    <3> HIDE DEF x
    <3>5. OneEach(docs') /\ SkillsOf(docs') = SkillsOf(OtherDocs) \cup {input}
      BY <3>2, <3>3, <3>4, AppendedDoc
    <3>6. SkillsOf(docs') = Activated(trace) \cup {input}
      BY <2>1, <3>2, <3>5 DEF DocsInv
    <3> QED
      BY <2>1, <3>1, <3>5, <3>6 DEF DocsInv
  <2> QED
    BY <1>4, <2>2, <2>3 DEF Invoked
<1>5. CASE Raises
  <2>1. phase = "act" /\ phase' = "idle" /\ UNCHANGED <<docs, trace>>
    BY <1>5 DEF Raises
  <2> QED
    BY <2>1 DEF DocsInv
<1>6. CASE Observe
  <2> DEFINE o == [step |-> step', action |-> selected, input |-> input,
                 blocked |-> SaysBlocked(output), observation |-> output]
  <2>1. /\ phase = "observe" /\ phase' # "observe" /\ trace' = Append(trace, o)
        /\ step' = step + 1 /\ UNCHANGED docs
    BY <1>6 DEF Observe
  <2>2. o \in Observation /\ o.observation = output /\ o.input = input
    <3>1. SaysBlocked(output) \in BOOLEAN
      BY DEF SaysBlocked
    <3> QED
      BY <2>1, <3>1 DEF Observation, RunInv, ControlInv
  <2>3. trace \in Seq(Observation)
    BY DEF RunInv, RecordsInv
  <2> HIDE DEF o
  <2>4. Activated(trace') = Activated(trace) \cup (IF output = "activated" THEN {input} ELSE {})
    BY <2>1, <2>2, <2>3, ActivatedByAppended
  <2> QED
    BY <2>1, <2>4 DEF DocsInv
<1>7. CASE Begin
  <2>1. docs' = <<>> /\ trace' = <<>> /\ phase' = "reason"
    BY <1>7 DEF Begin
  <2> QED
    BY <2>1 DEF DocsInv, OneEach, SkillsOf, Activated
<1>8. CASE BetweenRuns \/ UNCHANGED <<surfaceVars, runVars>>
  <2>1. UNCHANGED <<docs, trace, phase, output, input>>
    BY <1>8 DEF BetweenRuns, runVars
  <2> QED
    BY <2>1 DEF DocsInv
<1> QED
  BY <1>1, <1>2, <1>3, <1>4, <1>5, <1>6, <1>7, <1>8, RunSteps

LEMMA ToldAgrees ==
  ASSUME RunInv, StepsInv, ToldInv, DocsInv
  PROVE  TraceAgrees
<1> DEFINE calls == [k \in 1 .. 2 * Len(trace) |->
                       [type |-> IF k % 2 = 1 THEN "tool_call" ELSE "tool_result",
                        step |-> (k + 1) \div 2, action |-> trace[(k + 1) \div 2].action]]
           behind == SubSeq(told, Len(calls) + 1, Len(told))
           types == [k \in DOMAIN behind |-> behind[k].type]
           n == 2 * step
           l == Len(told)
<1>1. /\ told \in Seq(Told) /\ trace \in Seq(Observation) /\ step \in Nat /\ Len(trace) = step
      /\ l \in Nat /\ l >= n /\ n \in Nat
  BY DEF RunInv, ControlInv, RecordsInv, StepsInv, ToldInv
<1>2. \A k \in 1..n : calls[k] = told[k]
  <2> SUFFICES ASSUME NEW k \in 1..n PROVE calls[k] = told[k]
    OBVIOUS
  <2> DEFINE i == (k + 1) \div 2
  <2>1. i \in 1..step /\ (k % 2 = 1 => k = 2 * i - 1) /\ (k % 2 # 1 => k = 2 * i)
    BY <1>1
  <2>2. calls[k] = Event(IF k % 2 = 1 THEN "tool_call" ELSE "tool_result", i, trace[i].action)
    BY <1>1 DEF Event
  <2> HIDE DEF i, calls
  <2>3. CASE k % 2 = 1
    BY <2>1, <2>2, <2>3 DEF ToldInv
  <2>4. CASE k % 2 # 1
    BY <2>1, <2>2, <2>4 DEF ToldInv
  <2> QED
    BY <2>3, <2>4
<1>3. Len(calls) = n /\ DOMAIN calls = 1..n
  BY <1>1
<1> HIDE DEF calls
<1>4. IsPrefix(calls, told)
  <2>1. SubSeq(calls, 1, Len(calls)) = [k \in 1..n |-> calls[k]]
    BY <1>1, <1>3
  <2>2. SubSeq(told, 1, Len(calls)) = [k \in 1..n |-> told[k]]
    BY <1>1, <1>3
  <2> HIDE DEF n
  <2> QED
    BY <1>1, <1>2, <1>3, <2>1, <2>2 DEF IsPrefix
<1>5. DOMAIN types = 1..(l - n) /\ \A k \in 1..(l - n) : types[k] = told[n + k].type
  <2>1. behind = [k \in 1..(l - n) |-> told[n + k]]
    BY <1>1, <1>3
  <2> HIDE DEF behind
  <2> QED
    BY <2>1
<1> DEFINE m == l - n
<1>6. types = [k \in 1..m |-> types[k]]
  BY <1>5
<1>7. \A k \in 1..m : types[k] = told[n + k].type
  BY <1>5
<1>8. m \in Nat
  BY <1>1
<1> HIDE DEF types, m
<1>9. m = 0 => types = <<>>
  BY <1>6
<1>10. m = 1 => types = <<told[n + 1].type>>
  BY <1>6, <1>7
<1>11. m = 2 => types = <<told[n + 1].type, told[n + 2].type>>
  BY <1>6, <1>7
<1>12. /\ phase = "reason" => types = <<>>
       /\ phase \in {"act", "observe"} => types = <<"tool_call">>
       /\ phase = "idle" /\ runs > 0 =>
            types \in {<<"final_text", "run_completed">>, <<"tool_call">>}
  <2>1. CASE phase = "reason"
    <3>1. m = 0
      BY <1>1, <2>1 DEF m, ToldInv
    <3> QED
      BY <1>9, <2>1, <3>1
  <2>2. CASE phase \in {"act", "observe"}
    <3>1. m = 1
      BY <1>1, <2>2 DEF m, ToldInv
    <3>2. told[n + 1].type = "tool_call"
      BY <2>2 DEF ToldInv, Event
    <3> QED
      BY <1>10, <2>2, <3>1, <3>2
  <2>3. CASE phase = "idle" /\ runs > 0
    <3>1. CASE l = n + 1 /\ told[n + 1].type = "tool_call"
      <4>1. m = 1
        BY <1>1, <3>1 DEF m
      <4> QED
        BY <1>10, <2>3, <3>1, <4>1
    <3>2. CASE /\ l = n + 2
               /\ told[n + 1].type = "final_text" /\ told[n + 2].type = "run_completed"
      <4>1. m = 2
        BY <1>1, <3>2 DEF m
      <4> QED
        BY <1>11, <2>3, <3>2, <4>1
    <3> QED
      BY <2>3, <3>1, <3>2 DEF ToldInv
  <2> QED
    BY <2>1, <2>2, <2>3
<1>13. phase # "observe" => OneEach(docs) /\ SkillsOf(docs) = Activated(trace)
  BY DEF DocsInv
<1> QED
  BY <1>4, <1>12, <1>13 DEF TraceAgrees, OneEach, SkillsOf, Activated, types, calls

\* Whatever skills are activated, disabled and edited meanwhile, and however a run ends: who
\* follows it is told its trace, each action as a call and then its result, and the end
\* once; and the skill documents are those the trace says were activated, each skill's once,
\* however often it was activated (execution.py 90-134, 143-168, external_operation_tools.py
\* 80-124).
THEOREM TraceIsTold == Spec => []TraceAgrees
<1>1. SkillsInv /\ SurfaceInv /\ RunInv /\ StepsInv /\ [Next]_vars => StepsInv'
  BY NextSteps
<1>2. SkillsInv /\ SurfaceInv /\ RunInv /\ StepsInv /\ ToldInv /\ [Next]_vars => ToldInv'
  BY NextTold
<1>3. SkillsInv /\ SurfaceInv /\ RunInv /\ DocsInv /\ [Next]_vars => DocsInv'
  BY NextDocs
<1>4. RunInv /\ StepsInv /\ ToldInv /\ DocsInv => TraceAgrees
  BY ToldAgrees
<1> QED
  BY <1>1, <1>2, <1>3, <1>4, InitSteps, InitTold, InitDocs, AlwaysRun, PTL DEF Spec
=============================================================================
