------------------------- MODULE CachePolicyProofs --------------------------
(***************************************************************************)
(* Proofs about CachePolicy, for any paths, sizes and capacities.          *)
(*                                                                         *)
(* Two properties are about folds over the metadata map.  A fold over a    *)
(* finite set is defined by CHOOSE of a recursive function on its subsets: *)
(* each is shown to be what a closed form says, which proves that such a   *)
(* function exists, and that every such function is the closed form, by a  *)
(* minimal subset on which the two differ.                                 *)
(***************************************************************************)
EXTENDS CachePolicy, FiniteSetTheorems, TLAPS

-----------------------------------------------------------------------------
(* Finite sets.                                                            *)

\* A set of finite sets that is not empty has a minimal element.
LEMMA MinimalSet ==
  ASSUME NEW U, U # {}, \A T \in U : IsFiniteSet(T)
  PROVE  \E T \in U : \A V \in U : V \subseteq T => V = T
  <1> DEFINE S == UNION U
  <1>1. IsWellFoundedOn(StrictSubsetOrdering(S), FiniteSubsetsOf(S))
    BY FS_StrictSubsetOrderingWellFounded
  <1>2. U \subseteq FiniteSubsetsOf(S)
    BY DEF FiniteSubsetsOf
  <1>3. PICK T \in U : \A V \in U : ~(<<V, T>> \in StrictSubsetOrdering(S))
    BY <1>1, <1>2, WFMin
  <1>4. \A V \in U : V \subseteq T => V = T
    BY <1>3 DEF StrictSubsetOrdering
  <1>5. QED
    BY <1>4

\* Every finite set of numbers that is not empty has a greatest element, its Max.
LEMMA MaxExists ==
  ASSUME NEW S \in SUBSET Nat, IsFiniteSet(S), S # {}
  PROVE  Max(S) \in S /\ \A y \in S : y <= Max(S)
  <1> DEFINE Has(T) == \E x \in T : \A y \in T : x >= y
             U == {T \in SUBSET S : T # {} /\ ~Has(T)}
  <1>1. \A T \in U : IsFiniteSet(T)
    BY FS_Subset
  <1>2. U = {}
    <2> SUFFICES ASSUME U # {} PROVE FALSE
      OBVIOUS
    <2> HIDE DEF U
    <2>1. PICK T \in U : \A V \in U : V \subseteq T => V = T
      BY <1>1, MinimalSet
    <2> USE DEF U
    <2>2. PICK y \in T : TRUE
      OBVIOUS
    <2>3. T \ {y} \notin U
      BY <2>1, <2>2
    <2>4. CASE T \ {y} = {}
      <3>1. \A z \in T : y >= z
        BY <2>2, <2>4
      <3>2. QED
        BY <2>2, <3>1
    <2>5. CASE T \ {y} # {}
      <3>1. PICK x \in T \ {y} : \A z \in T \ {y} : x >= z
        BY <2>3, <2>5
      <3>2. x \in Nat /\ y \in Nat
        BY <2>2
      <3>3. CASE x >= y
        BY <3>1, <3>3
      <3>4. CASE y >= x
        <4>1. \A z \in T : z \in Nat
          OBVIOUS
        <4>2. \A z \in T : y >= z
          BY <3>1, <3>2, <3>4, <4>1
        <4>3. QED
          BY <2>2, <4>2
      <3>5. QED
        BY <3>2, <3>3, <3>4
    <2>6. QED
      BY <2>4, <2>5
  <1>3. Has(S)
    BY <1>2
  <1>4. Max(S) \in S /\ \A y \in S : Max(S) >= y
    BY <1>3 DEF Max
  <1>5. QED
    BY <1>4

-----------------------------------------------------------------------------
(* The bytes of a set of files: BytesIn is a count of cells.               *)

\* One cell for each byte of the files in s, by the metadata m.
Cells(m, s) == {c \in s \X (1..Modulus) : c[2] <= m[c[1]].size}
Load(m, s) == Cardinality(Cells(m, s))

\* The bytes of no files are none.
LEMMA LoadEmpty == ASSUME NEW m PROVE Load(m, {}) = 0
  <1>1. Cells(m, {}) = {}
    BY DEF Cells
  <1>2. QED
    BY <1>1, FS_EmptySet DEF Load

\* There are finitely many cells.
LEMMA CellsFinite ==
  ASSUME NEW m, NEW s, IsFiniteSet(s)
  PROVE  IsFiniteSet(Cells(m, s)) /\ Load(m, s) \in Nat
  <1>1. Modulus \in Int
    BY PolicyAssumption
  <1>2. IsFiniteSet(1..Modulus)
    BY <1>1, FS_Interval
  <1>3. IsFiniteSet(s \X (1..Modulus))
    BY <1>2, FS_Product
  <1>4. IsFiniteSet(Cells(m, s))
    BY <1>3, FS_Subset DEF Cells
  <1>5. QED
    BY <1>4, FS_CardinalityType DEF Load

\* Another file adds its size.
LEMMA LoadAdd ==
  ASSUME NEW m, NEW s, IsFiniteSet(s), NEW x, x \notin s, m[x].size \in 0..(Modulus - 1)
  PROVE  Load(m, s \cup {x}) = Load(m, s) + m[x].size
  <1> DEFINE k == m[x].size
             col == {x} \X (1..k)
  <1>0. Modulus \in Nat /\ k \in 0..(Modulus - 1)
    BY PolicyAssumption
  <1> HIDE DEF k
  <1>1. IsFiniteSet(col) /\ Cardinality(col) = k
    <2>1. IsFiniteSet(1..k) /\ Cardinality(1..k) = k
      <3>1. k \in Nat /\ 1 \in Int /\ k \in Int
        BY <1>0
      <3>2. IsFiniteSet(1..k) /\ Cardinality(1..k) = IF 1 > k THEN 0 ELSE k - 1 + 1
        BY <3>1, FS_Interval
      <3>3. QED
        BY <3>1, <3>2
    <2>2. IsFiniteSet({x}) /\ Cardinality({x}) = 1
      BY FS_Singleton
    <2>3. IsFiniteSet(col) /\ Cardinality(col) = Cardinality({x}) * Cardinality(1..k)
      BY <2>1, <2>2, FS_Product
    <2>4. QED
      BY <1>0, <2>1, <2>2, <2>3
  <1>2. Cells(m, s \cup {x}) = Cells(m, s) \cup col
    BY <1>0 DEF Cells, k
  <1>3. Cells(m, s) \cap col = {}
    BY DEF Cells
  <1>4. IsFiniteSet(Cells(m, s)) /\ Cardinality(Cells(m, s)) \in Nat
    BY CellsFinite DEF Load
  <1>5. Cardinality(Cells(m, s) \cup col) =
          Cardinality(Cells(m, s)) + Cardinality(col) - Cardinality(Cells(m, s) \cap col)
    BY <1>1, <1>4, FS_Union
  <1>6. Cardinality(Cells(m, s) \cap col) = 0
    BY <1>3, FS_EmptySet
  <1> HIDE DEF col
  <1>7. Cardinality(Cells(m, s \cup {x})) = Cardinality(Cells(m, s)) + k
    <2> DEFINE a == Cardinality(Cells(m, s))
               b == Cardinality(Cells(m, s) \cup col)
               c == Cardinality(Cells(m, s) \cap col)
    <2>1. a \in Nat /\ c = 0 /\ k \in Nat /\ b = a + k - c
      BY <1>0, <1>1, <1>4, <1>5, <1>6
    <2>2. b = Cardinality(Cells(m, s \cup {x}))
      BY <1>2
    <2> HIDE DEF a, b, c
    <2>3. b = a + k
      BY <2>1
    <2>4. QED
      BY <2>2, <2>3 DEF a
  <1>8. QED
    BY <1>7 DEF Load, k

\* Metadata that agree on the sizes of the files in s agree on their bytes.
LEMMA LoadSame ==
  ASSUME NEW m, NEW n, NEW s, \A p \in s : m[p].size = n[p].size
  PROVE  Load(m, s) = Load(n, s)
  <1>1. Cells(m, s) = Cells(n, s)
    BY DEF Cells
  <1>2. QED
    BY <1>1 DEF Load

\* f is a function that MapThenSumSet may choose, to add up the sizes of S.
Sums(m, f, S) ==
    f = [s \in SUBSET S |->
            IF s = {} THEN 0
            ELSE LET x == CHOOSE x \in s : TRUE IN m[x].size + f[s \ {x}]]

\* The count of cells is such a function ...
LEMMA LoadSums ==
  ASSUME NEW m, NEW S, IsFiniteSet(S), \A p \in S : m[p].size \in 0..(Modulus - 1)
  PROVE  Sums(m, [s \in SUBSET S |-> Load(m, s)], S)
  <1> DEFINE f == [s \in SUBSET S |-> Load(m, s)]
             g == [s \in SUBSET S |->
                    IF s = {} THEN 0
                    ELSE LET x == CHOOSE x \in s : TRUE IN m[x].size + f[s \ {x}]]
  <1>1. ASSUME NEW s \in SUBSET S PROVE f[s] = g[s]
    <2>1. CASE s = {}
      BY <2>1, LoadEmpty
    <2>2. CASE s # {}
      <3> DEFINE x == CHOOSE x \in s : TRUE
      <3>1. x \in s
        BY <2>2
      <3> HIDE DEF x
      <3>2. IsFiniteSet(s \ {x}) /\ s = (s \ {x}) \cup {x}
        BY <3>1, FS_Subset, FS_RemoveElement
      <3>3. Load(m, (s \ {x}) \cup {x}) = Load(m, s \ {x}) + m[x].size
        BY <3>1, <3>2, LoadAdd
      <3>4. Load(m, s \ {x}) \in Nat
        BY <3>2, CellsFinite
      <3>5. f[s] = Load(m, s) /\ f[s \ {x}] = Load(m, s \ {x})
        OBVIOUS
      <3>6. g[s] = m[x].size + f[s \ {x}]
        BY <2>2 DEF x
      <3>7. m[x].size \in Nat
        BY <3>1, PolicyAssumption
      <3>8. Load(m, s) = Load(m, s \ {x}) + m[x].size
        BY <3>2, <3>3
      <3> DEFINE a == Load(m, s \ {x})
                 b == m[x].size
      <3>9. a + b = b + a
        <4>1. a \in Nat /\ b \in Nat
          BY <3>4, <3>7
        <4> HIDE DEF a, b
        <4>2. QED
          BY <4>1
      <3>10. QED
        BY <3>5, <3>6, <3>8, <3>9
    <2>3. QED
      BY <2>1, <2>2
  <1>2. f = g
    BY <1>1
  <1>3. QED
    BY <1>2 DEF Sums

\* ... and every such function is the count of cells.
LEMMA SumsAreLoad ==
  ASSUME NEW m, NEW S, IsFiniteSet(S), \A p \in S : m[p].size \in 0..(Modulus - 1),
         NEW f, Sums(m, f, S)
  PROVE  f[S] = Load(m, S)
  <1> DEFINE U == {s \in SUBSET S : f[s] # Load(m, s)}
  <1>1. \A T \in U : IsFiniteSet(T)
    BY FS_Subset
  <1>2. U = {}
    <2> SUFFICES ASSUME U # {} PROVE FALSE
      OBVIOUS
    <2> HIDE DEF U
    <2>1. PICK s \in U : \A V \in U : V \subseteq s => V = s
      BY <1>1, MinimalSet
    <2> USE DEF U
    <2>2. s \in SUBSET S /\ f[s] # Load(m, s)
      OBVIOUS
    <2>3. CASE s = {}
      BY <2>2, <2>3, LoadEmpty DEF Sums
    <2>4. CASE s # {}
      <3> DEFINE x == CHOOSE x \in s : TRUE
      <3>1. x \in s
        BY <2>4
      <3>2. f[s] = m[x].size + f[s \ {x}]
        BY <2>2, <2>4 DEF Sums
      <3> HIDE DEF x
      <3>3. f[s \ {x}] = Load(m, s \ {x})
        BY <2>1, <2>2, <3>1
      <3>4. IsFiniteSet(s \ {x}) /\ s = (s \ {x}) \cup {x}
        BY <2>2, <3>1, FS_Subset, FS_RemoveElement
      <3>5. Load(m, (s \ {x}) \cup {x}) = Load(m, s \ {x}) + m[x].size
        BY <2>2, <3>1, <3>4, LoadAdd
      <3>6. Load(m, s \ {x}) \in Nat
        BY <3>4, CellsFinite
      <3>7. m[x].size \in Nat
        BY <2>2, <3>1, PolicyAssumption
      <3>8. Load(m, s) = Load(m, s \ {x}) + m[x].size
        BY <3>4, <3>5
      <3> DEFINE a == Load(m, s \ {x})
                 b == m[x].size
      <3>9. a + b = b + a
        <4>1. a \in Nat /\ b \in Nat
          BY <3>6, <3>7
        <4> HIDE DEF a, b
        <4>2. QED
          BY <4>1
      <3>10. QED
        BY <2>2, <3>2, <3>3, <3>8, <3>9
    <2>5. QED
      BY <2>3, <2>4
  <1>3. QED
    BY <1>2

\* So BytesIn is a count of cells.
LEMMA BytesAreLoad ==
  ASSUME NEW tier, IsFiniteSet(InTier(tier)),
         \A p \in InTier(tier) : g_fileMetaMap[p].size \in 0..(Modulus - 1)
  PROVE  BytesIn(tier) = Load(g_fileMetaMap, InTier(tier))
  <1> DEFINE S == InTier(tier)
             f == CHOOSE f : Sums(g_fileMetaMap, f, S)
  <1>1. BytesIn(tier) = f[S]
    BY DEF BytesIn, MapThenSumSet, MapThenFoldSet, Sums
  <1>2. \E h : Sums(g_fileMetaMap, h, S)
    BY LoadSums
  <1>3. Sums(g_fileMetaMap, f, S)
    BY <1>2
  <1> HIDE DEF f, S
  <1>4. f[S] = Load(g_fileMetaMap, S)
    BY <1>3, SumsAreLoad DEF S
  <1>5. QED
    BY <1>1, <1>4 DEF S

\* A file taken away takes its size away.
LEMMA LoadRemove ==
  ASSUME NEW m, NEW s, IsFiniteSet(s), NEW x \in s, m[x].size \in 0..(Modulus - 1)
  PROVE  /\ Load(m, s) = Load(m, s \ {x}) + m[x].size
         /\ Load(m, s \ {x}) \in Nat
  <1>1. IsFiniteSet(s \ {x})
    BY FS_RemoveElement
  <1>2. Load(m, (s \ {x}) \cup {x}) = Load(m, s \ {x}) + m[x].size
    BY <1>1, LoadAdd
  <1>3. s = (s \ {x}) \cup {x}
    OBVIOUS
  <1>4. Load(m, s \ {x}) \in Nat
    BY <1>1, CellsFinite
  <1>5. QED
    BY <1>2, <1>3, <1>4

-----------------------------------------------------------------------------
(* The victim: what the loop of cache_policy_select_victim_for_eviction    *)
(* finds among the eligible files C, by the metadata m.                    *)

Visit(m, C, p, victim) ==
    IF p \in C /\ (victim = EmptyPath \/ m[p].access_count < m[victim].access_count)
    THEN p ELSE victim

\* f is a function that ScanFor may choose.
Scans(m, C, f, S) ==
    f = [s \in SUBSET S |->
            IF s = {} THEN EmptyPath
            ELSE LET x == Max(s) IN Visit(m, C, x, f[s \ {x}])]

Precedes(m, p, q) ==
    \/ m[p].access_count < m[q].access_count
    \/ m[p].access_count = m[q].access_count /\ p < q

\* v is the right answer when the loop has seen the files in s.
IsBest(m, C, s, v) ==
    IF s \cap C = {} THEN v = EmptyPath
    ELSE v \in s \cap C /\ \A q \in (s \cap C) \ {v} : Precedes(m, v, q)

Counted(m, C) == \A p \in C : m[p].access_count \in Nat

\* One round of the loop: the file seen last has the greatest path.
LEMMA VisitBest ==
  ASSUME NEW m, NEW C \in SUBSET Paths, Counted(m, C),
         NEW s \in SUBSET Paths, IsFiniteSet(s), s # {},
         NEW v, IsBest(m, C, s \ {Max(s)}, v)
  PROVE  IsBest(m, C, s, Visit(m, C, Max(s), v))
  <1> DEFINE x == Max(s)
             r == s \ {x}
  <1>1. x \in s /\ \A y \in s : y <= x
    BY MaxExists, PolicyAssumption
  <1>2. s \subseteq Nat /\ EmptyPath \notin Paths
    BY PolicyAssumption
  <1>4. IsBest(m, C, r, v)
    OBVIOUS
  <1> HIDE DEF x
  <1>3. \A y \in r : y < x
    BY <1>1, <1>2
  <1>5. CASE x \notin C
    <2>1. s \cap C = r \cap C
      BY <1>5
    <2>2. Visit(m, C, x, v) = v
      BY <1>5 DEF Visit
    <2>3. IsBest(m, C, s, v)
      BY <1>4, <2>1 DEF IsBest
    <2>4. QED
      BY <2>2, <2>3 DEF x
  <1>6. CASE x \in C /\ r \cap C = {}
    <2>1. s \cap C = {x}
      BY <1>1, <1>6
    <2>2. v = EmptyPath
      BY <1>4, <1>6 DEF IsBest
    <2>3. Visit(m, C, x, v) = x
      BY <1>6, <2>2 DEF Visit
    <2>4. IsBest(m, C, s, x)
      BY <2>1 DEF IsBest
    <2>5. QED
      BY <2>3, <2>4 DEF x
  <1>7. CASE x \in C /\ r \cap C # {}
    <2>1. v \in r \cap C /\ \A q \in (r \cap C) \ {v} : Precedes(m, v, q)
      BY <1>4, <1>7 DEF IsBest
    <2>2. v # EmptyPath
      BY <1>2, <2>1
    <2>3. s \cap C = (r \cap C) \cup {x} /\ v # x
      BY <1>1, <1>7, <2>1
    <2>4. \A q \in s \cap C : m[q].access_count \in Nat
      BY DEF Counted
    <2>5. CASE m[x].access_count < m[v].access_count
      <3>1. Visit(m, C, x, v) = x
        BY <1>7, <2>5 DEF Visit
      <3>2. \A q \in (s \cap C) \ {x} : Precedes(m, x, q)
        <4> SUFFICES ASSUME NEW q \in (s \cap C) \ {x}
                     PROVE  m[x].access_count < m[q].access_count
          BY DEF Precedes
        <4>1. q = v \/ Precedes(m, v, q)
          BY <2>1, <2>3
        <4>2. q = v \/ m[v].access_count <= m[q].access_count
          BY <2>1, <2>4, <4>1 DEF Precedes
        <4>3. m[x].access_count \in Nat /\ m[v].access_count \in Nat /\ m[q].access_count \in Nat
          BY <2>1, <2>3, <2>4
        <4>4. QED
          BY <2>5, <4>2, <4>3
      <3>3. IsBest(m, C, s, x)
        BY <2>3, <3>2 DEF IsBest
      <3>4. QED
        BY <3>1, <3>3 DEF x
    <2>6. CASE ~(m[x].access_count < m[v].access_count)
      <3>1. Visit(m, C, x, v) = v
        BY <2>2, <2>6 DEF Visit
      <3>2. Precedes(m, v, x)
        <4>1. m[v].access_count <= m[x].access_count
          BY <2>1, <2>3, <2>4, <2>6
        <4>2. v < x
          BY <1>3, <2>1
        <4>3. m[x].access_count \in Nat /\ m[v].access_count \in Nat
          BY <2>1, <2>3, <2>4
        <4>4. QED
          BY <4>1, <4>2, <4>3 DEF Precedes
      <3>3. \A q \in (s \cap C) \ {v} : Precedes(m, v, q)
        BY <2>1, <2>3, <3>2
      <3>4. IsBest(m, C, s, v)
        BY <2>1, <2>3, <3>3 DEF IsBest
      <3>5. QED
        BY <3>1, <3>4 DEF x
    <2>7. QED
      BY <2>5, <2>6
  <1>8. QED
    BY <1>5, <1>6, <1>7

\* There is only one right answer.
LEMMA BestUnique ==
  ASSUME NEW m, NEW C \in SUBSET Paths, Counted(m, C), NEW s \in SUBSET Paths,
         NEW v, IsBest(m, C, s, v), NEW w, IsBest(m, C, s, w)
  PROVE  v = w
  <1>1. CASE s \cap C = {}
    BY <1>1 DEF IsBest
  <1>2. CASE s \cap C # {}
    <2> SUFFICES ASSUME v # w PROVE FALSE
      OBVIOUS
    <2>1. v \in s \cap C /\ w \in s \cap C
      BY <1>2 DEF IsBest
    <2>2. Precedes(m, v, w) /\ Precedes(m, w, v)
      BY <1>2, <2>1 DEF IsBest
    <2>3. m[v].access_count \in Nat /\ m[w].access_count \in Nat
      BY <2>1 DEF Counted
    <2>4. v \in Nat /\ w \in Nat
      BY <2>1, PolicyAssumption
    <2>5. QED
      BY <2>2, <2>3, <2>4 DEF Precedes
  <1>3. QED
    BY <1>1, <1>2

\* There always is one.
LEMMA BestExists ==
  ASSUME NEW m, NEW C \in SUBSET Paths, Counted(m, C),
         NEW S \in SUBSET Paths, IsFiniteSet(S)
  PROVE  \A s \in SUBSET S : \E v : IsBest(m, C, s, v)
  <1> DEFINE U == {s \in SUBSET S : ~\E v : IsBest(m, C, s, v)}
  <1>1. \A T \in U : IsFiniteSet(T)
    BY FS_Subset
  <1> HIDE DEF U
  <1>2. U = {}
    <2> SUFFICES ASSUME U # {} PROVE FALSE
      OBVIOUS
    <2>1. PICK s \in U : \A V \in U : V \subseteq s => V = s
      BY <1>1, MinimalSet
    <2>2. s \in SUBSET S /\ IsFiniteSet(s) /\ ~\E v : IsBest(m, C, s, v)
      BY <1>1 DEF U
    <2>3. s # {}
      <3>1. IsBest(m, C, {}, EmptyPath)
        BY DEF IsBest
      <3>2. QED
        BY <2>2, <3>1
    <2>4. Max(s) \in s
      BY <2>2, <2>3, MaxExists, PolicyAssumption
    <2>5. s \ {Max(s)} \notin U
      BY <2>1, <2>4
    <2>6. PICK v : IsBest(m, C, s \ {Max(s)}, v)
      BY <2>2, <2>5 DEF U
    <2>7. IsBest(m, C, s, Visit(m, C, Max(s), v))
      BY <2>2, <2>3, <2>6, VisitBest
    <2>8. QED
      BY <2>2, <2>7
  <1>3. QED
    BY <1>2 DEF U

\* The right answers are a function that ScanFor may choose ...
LEMMA BestScans ==
  ASSUME NEW m, NEW C \in SUBSET Paths, Counted(m, C),
         NEW S \in SUBSET Paths, IsFiniteSet(S)
  PROVE  Scans(m, C, [s \in SUBSET S |-> CHOOSE v : IsBest(m, C, s, v)], S)
  <1> DEFINE f == [s \in SUBSET S |-> CHOOSE v : IsBest(m, C, s, v)]
             g == [s \in SUBSET S |->
                    IF s = {} THEN EmptyPath
                    ELSE LET x == Max(s) IN Visit(m, C, x, f[s \ {x}])]
  <1>1. \A s \in SUBSET S : IsBest(m, C, s, f[s])
    BY BestExists
  <1>2. ASSUME NEW s \in SUBSET S PROVE f[s] = g[s]
    <2>0. IsFiniteSet(s)
      BY FS_Subset
    <2>1. CASE s = {}
      <3>1. IsBest(m, C, {}, f[{}])
        BY <1>1
      <3> HIDE DEF f
      <3>2. f[{}] = EmptyPath
        BY <3>1 DEF IsBest
      <3>3. QED
        BY <2>1, <3>2
    <2>2. CASE s # {}
      <3>1. g[s] = Visit(m, C, Max(s), f[s \ {Max(s)}])
        BY <2>2
      <3>2. IsBest(m, C, s \ {Max(s)}, f[s \ {Max(s)}])
        BY <1>1
      <3>3. IsBest(m, C, s, f[s])
        BY <1>1
      <3> HIDE DEF f, g
      <3>4. IsBest(m, C, s, g[s])
        BY <2>0, <2>2, <3>1, <3>2, VisitBest
      <3>5. QED
        BY <3>3, <3>4, BestUnique
    <2>3. QED
      BY <2>1, <2>2
  <1>3. f = g
    BY <1>2
  <1>4. QED
    BY <1>3 DEF Scans

\* ... and every such function gives them.
LEMMA ScansAreBest ==
  ASSUME NEW m, NEW C \in SUBSET Paths, Counted(m, C),
         NEW S \in SUBSET Paths, IsFiniteSet(S), NEW f, Scans(m, C, f, S)
  PROVE  IsBest(m, C, S, f[S])
  <1> DEFINE U == {s \in SUBSET S : ~IsBest(m, C, s, f[s])}
  <1>1. \A T \in U : IsFiniteSet(T)
    BY FS_Subset
  <1> HIDE DEF U
  <1>2. U = {}
    <2> SUFFICES ASSUME U # {} PROVE FALSE
      OBVIOUS
    <2>1. PICK s \in U : \A V \in U : V \subseteq s => V = s
      BY <1>1, MinimalSet
    <2>2. s \in SUBSET S /\ IsFiniteSet(s) /\ ~IsBest(m, C, s, f[s])
      BY <1>1 DEF U
    <2>3. CASE s = {}
      <3>1. f[s] = EmptyPath
        BY <2>2, <2>3 DEF Scans
      <3>2. QED
        BY <2>2, <2>3, <3>1 DEF IsBest
    <2>4. CASE s # {}
      <3>1. f[s] = Visit(m, C, Max(s), f[s \ {Max(s)}])
        BY <2>2, <2>4 DEF Scans
      <3>2. Max(s) \in s
        BY <2>2, <2>4, MaxExists, PolicyAssumption
      <3>3. s \ {Max(s)} \notin U
        BY <2>1, <3>2
      <3>4. IsBest(m, C, s \ {Max(s)}, f[s \ {Max(s)}])
        BY <2>2, <3>3 DEF U
      <3>5. IsBest(m, C, s, f[s])
        BY <2>2, <2>4, <3>1, <3>4, VisitBest
      <3>6. QED
        BY <2>2, <3>5
    <2>5. QED
      BY <2>3, <2>4
  <1>3. QED
    BY <1>2 DEF U

\* So the loop finds the least accessed of the eligible files, the first of them
\* in path order, and "" if there is none.
LEMMA ScanIsBest ==
  ASSUME NEW C \in SUBSET Registered, IsFiniteSet(Registered),
         Counted(g_fileMetaMap, C)
  PROVE  IsBest(g_fileMetaMap, C, Registered, ScanFor(C))
  <1> DEFINE f == CHOOSE f : Scans(g_fileMetaMap, C, f, Registered)
  <1>0. Registered \subseteq Paths
    BY DEF Registered
  <1>1. ScanFor(C) = f[Registered]
    BY DEF ScanFor, MapThenFoldSet, Scans, Visit
  <1>2. \E h : Scans(g_fileMetaMap, C, h, Registered)
    BY <1>0, BestScans
  <1>3. Scans(g_fileMetaMap, C, f, Registered)
    BY <1>2
  <1> HIDE DEF f
  <1>4. IsBest(g_fileMetaMap, C, Registered, f[Registered])
    BY <1>0, <1>3, ScansAreBest
  <1>5. QED
    BY <1>1, <1>4
-----------------------------------------------------------------------------
(* Arithmetic of the used bytes.                                           *)

\* A sum below Modulus does not wrap ...
LEMMA PlusSmall ==
  ASSUME NEW a \in Nat, NEW b \in Nat, a + b < Modulus
  PROVE  Plus(a, b) = a + b
  BY PolicyAssumption DEF Plus

\* ... and neither does a difference that is not negative.
LEMMA MinusSmall ==
  ASSUME NEW a \in Nat, NEW b \in Nat, a < Modulus, b <= a
  PROVE  Minus(a, b) = a - b
  BY PolicyAssumption DEF Minus

\* Any result is a word.
LEMMA WordType ==
  ASSUME NEW a \in Int, NEW b \in Int
  PROVE  Plus(a, b) \in 0..(Modulus - 1) /\ Minus(a, b) \in 0..(Modulus - 1)
  BY PolicyAssumption DEF Plus, Minus

-----------------------------------------------------------------------------
(* The metadata map.                                                       *)

\* Metadata are never what stands for no metadata.
LEMMA MetaFacts ==
  ASSUME NEW x \in Metas
  PROVE  /\ x # Absent
         /\ x.size \in 0..(Modulus - 1) /\ x.size \in Sizes
         /\ x.access_count \in 0..MaxCount
         /\ x.current_tier \in Tiers
  <1>1. x.size \in Sizes /\ x.access_count \in 0..MaxCount /\ x.current_tier \in Tiers
    BY DEF Metas
  <1>2. x.size \in 0..(Modulus - 1)
    BY <1>1, PolicyAssumption
  <1>3. x.size # -1
    BY <1>2, PolicyAssumption
  <1>4. x # Absent
    BY <1>3 DEF Absent
  <1>5. QED
    BY <1>1, <1>2, <1>4

\* What is registered has metadata.
LEMMA RegisteredFacts ==
  ASSUME TypeOK
  PROVE  /\ \A p \in Registered : p \in Paths /\ g_fileMetaMap[p] \in Metas
         /\ \A p \in Registered : p \in InTier("FSDAX") \/ p \in InTier("SSD")
         /\ InTier("FSDAX") \cap InTier("SSD") = {}
         /\ \A t \in Tiers : InTier(t) \subseteq Registered
  <1>1. \A p \in Registered : p \in Paths /\ g_fileMetaMap[p] \in Metas
    BY DEF TypeOK, Registered
  <1>2. \A p \in Registered : g_fileMetaMap[p].current_tier \in Tiers
    BY <1>1, MetaFacts
  <1>3. QED
    BY <1>1, <1>2 DEF InTier, Tiers

\* Recording metadata for p.
LEMMA SetFacts ==
  ASSUME TypeOK, NEW p \in Paths, NEW x \in Metas,
         g_fileMetaMap' = [g_fileMetaMap EXCEPT ![p] = x]
  PROVE  /\ g_fileMetaMap' \in [Paths -> Metas \cup {Absent}]
         /\ Registered' = Registered \cup {p}
         /\ \A t : InTier(t)' = IF x.current_tier = t THEN InTier(t) \cup {p} ELSE InTier(t) \ {p}
         /\ \A q \in Paths \ {p} : g_fileMetaMap'[q] = g_fileMetaMap[q]
         /\ g_fileMetaMap'[p] = x
  <1>1. g_fileMetaMap \in [Paths -> Metas \cup {Absent}]
    BY DEF TypeOK
  <1>2. x # Absent
    BY MetaFacts
  <1>3. g_fileMetaMap' \in [Paths -> Metas \cup {Absent}]
    BY <1>1
  <1>4. /\ \A q \in Paths \ {p} : g_fileMetaMap'[q] = g_fileMetaMap[q]
        /\ g_fileMetaMap'[p] = x
    BY <1>1
  <1>5. Registered' = Registered \cup {p}
    BY <1>2, <1>4 DEF Registered
  <1>6. ASSUME NEW t
        PROVE  InTier(t)' = IF x.current_tier = t THEN InTier(t) \cup {p} ELSE InTier(t) \ {p}
    <2>1. \A q : q \in InTier(t)' <=> q \in Registered' /\ g_fileMetaMap'[q].current_tier = t
      BY DEF InTier
    <2>2. \A q : q \in InTier(t) <=> q \in Registered /\ g_fileMetaMap[q].current_tier = t
      BY DEF InTier
    <2>3. \A q \in Registered : q \in Paths
      BY DEF Registered
    <2>4. QED
      BY <1>4, <1>5, <2>1, <2>2, <2>3
  <1>7. QED
    BY <1>3, <1>4, <1>5, <1>6

\* Erasing the metadata of p.
LEMMA DropFacts ==
  ASSUME TypeOK, NEW p \in Paths, g_fileMetaMap' = [g_fileMetaMap EXCEPT ![p] = Absent]
  PROVE  /\ g_fileMetaMap' \in [Paths -> Metas \cup {Absent}]
         /\ Registered' = Registered \ {p}
         /\ \A t : InTier(t)' = InTier(t) \ {p}
         /\ \A q \in Paths \ {p} : g_fileMetaMap'[q] = g_fileMetaMap[q]
  <1>1. g_fileMetaMap \in [Paths -> Metas \cup {Absent}]
    BY DEF TypeOK
  <1>2. g_fileMetaMap' \in [Paths -> Metas \cup {Absent}]
    BY <1>1
  <1>3. /\ \A q \in Paths \ {p} : g_fileMetaMap'[q] = g_fileMetaMap[q]
        /\ g_fileMetaMap'[p] = Absent
    BY <1>1
  <1>4. Registered' = Registered \ {p}
    BY <1>3 DEF Registered
  <1>5. ASSUME NEW t PROVE InTier(t)' = InTier(t) \ {p}
    <2>1. \A q : q \in InTier(t)' <=> q \in Registered' /\ g_fileMetaMap'[q].current_tier = t
      BY DEF InTier
    <2>2. \A q : q \in InTier(t) <=> q \in Registered /\ g_fileMetaMap[q].current_tier = t
      BY DEF InTier
    <2>3. \A q \in Registered : q \in Paths
      BY DEF Registered
    <2>4. QED
      BY <1>3, <1>4, <2>1, <2>2, <2>3
  <1>6. QED
    BY <1>2, <1>3, <1>4, <1>5


-----------------------------------------------------------------------------
(* Types, the number of files and the victim, whatever the sizes.          *)

BaseInv == TypeOK /\ IsFiniteSet(Registered) /\ VictimIsLeast

\* A call leaves the map alone, records metadata of one file, or erases them.
Recorded(p, x) == g_fileMetaMap' = [g_fileMetaMap EXCEPT ![p] = x]
OneFile == UNCHANGED g_fileMetaMap \/ \E p \in Paths, x \in Metas \cup {Absent} : Recorded(p, x)

\* Such a step keeps the map a map, of finitely many files.
LEMMA OneFileStep ==
  ASSUME TypeOK, IsFiniteSet(Registered), OneFile
  PROVE  g_fileMetaMap' \in [Paths -> Metas \cup {Absent}] /\ IsFiniteSet(Registered)'
  <1>1. CASE UNCHANGED g_fileMetaMap
    BY <1>1 DEF TypeOK, Registered
  <1>2. ASSUME NEW p \in Paths, NEW x \in Metas, Recorded(p, x)
        PROVE  g_fileMetaMap' \in [Paths -> Metas \cup {Absent}] /\ IsFiniteSet(Registered)'
    <2>1. g_fileMetaMap' \in [Paths -> Metas \cup {Absent}] /\ Registered' = Registered \cup {p}
      BY <1>2, SetFacts DEF Recorded
    <2>2. IsFiniteSet(Registered \cup {p})
      BY FS_AddElement
    <2>3. QED
      BY <2>1, <2>2
  <1>3. ASSUME NEW p \in Paths, Recorded(p, Absent)
        PROVE  g_fileMetaMap' \in [Paths -> Metas \cup {Absent}] /\ IsFiniteSet(Registered)'
    <2>1. g_fileMetaMap' \in [Paths -> Metas \cup {Absent}] /\ Registered' = Registered \ {p}
      BY <1>3, DropFacts DEF Recorded
    <2>2. IsFiniteSet(Registered \ {p})
      BY FS_RemoveElement
    <2>3. QED
      BY <2>1, <2>2
  <1>4. QED
    BY <1>1, <1>2, <1>3 DEF OneFile

\* Counting an access records metadata with the same size and tier.
LEMMA AccessRecords ==
  ASSUME TypeOK, NEW p \in Registered, g_fileMetaMap[p].access_count < MaxCount,
         g_fileMetaMap' = [g_fileMetaMap EXCEPT ![p].access_count = @ + 1]
  PROVE  \E x \in Metas : /\ Recorded(p, x) /\ x.size = g_fileMetaMap[p].size
                          /\ x.current_tier = g_fileMetaMap[p].current_tier
  <1>1. p \in Paths /\ g_fileMetaMap[p] \in Metas
    BY RegisteredFacts
  <1> DEFINE y == g_fileMetaMap[p]
             x == [y EXCEPT !.access_count = @ + 1]
  <1>2. Recorded(p, x)
    BY <1>1 DEF Recorded
  <1> HIDE DEF y
  <1>3. y \in Metas /\ y.access_count < MaxCount
    BY <1>1 DEF y
  <1>4. x \in Metas /\ x.size = y.size /\ x.current_tier = y.current_tier
    BY <1>3, PolicyAssumption DEF Metas
  <1>5. QED
    BY <1>2, <1>4 DEF y

\* So does opening or closing the file.
LEMMA OpenRecords ==
  ASSUME TypeOK, NEW p \in Registered, NEW b \in BOOLEAN,
         g_fileMetaMap' = [g_fileMetaMap EXCEPT ![p].is_open = b]
  PROVE  \E x \in Metas : /\ Recorded(p, x) /\ x.size = g_fileMetaMap[p].size
                          /\ x.current_tier = g_fileMetaMap[p].current_tier
  <1>1. p \in Paths /\ g_fileMetaMap[p] \in Metas
    BY RegisteredFacts
  <1> DEFINE y == g_fileMetaMap[p]
             x == [y EXCEPT !.is_open = b]
  <1>2. Recorded(p, x)
    BY <1>1 DEF Recorded
  <1> HIDE DEF y
  <1>3. y \in Metas
    BY <1>1 DEF y
  <1>4. x \in Metas /\ x.size = y.size /\ x.current_tier = y.current_tier
    BY <1>3 DEF Metas
  <1>5. QED
    BY <1>2, <1>4 DEF y

\* A move records metadata with the same size and the new tier.
LEMMA MoveRecords ==
  ASSUME TypeOK, NEW p \in Registered, NEW t \in Tiers,
         g_fileMetaMap' = [g_fileMetaMap EXCEPT ![p].current_tier = t]
  PROVE  \E x \in Metas : /\ Recorded(p, x) /\ x.size = g_fileMetaMap[p].size
                          /\ x.current_tier = t
  <1>1. p \in Paths /\ g_fileMetaMap[p] \in Metas
    BY RegisteredFacts
  <1> DEFINE y == g_fileMetaMap[p]
             x == [y EXCEPT !.current_tier = t]
  <1>2. Recorded(p, x)
    BY <1>1 DEF Recorded
  <1> HIDE DEF y
  <1>3. y \in Metas
    BY <1>1 DEF y
  <1>4. x \in Metas /\ x.size = y.size /\ x.current_tier = t
    BY <1>3 DEF Metas
  <1>5. QED
    BY <1>2, <1>4 DEF y

\* What cache_policy_add_file records are metadata.
LEMMA NewMeta ==
  ASSUME NEW t \in Tiers, NEW size \in Sizes
  PROVE  [current_tier |-> t, size |-> size, access_count |-> 0, is_open |-> TRUE] \in Metas
  BY PolicyAssumption DEF Metas

\* The victim of the selection is the one VictimIsLeast describes.
LEMMA SelectedVictim ==
  ASSUME TypeOK, IsFiniteSet(Registered)
  PROVE  /\ select_victim \in Paths \cup {EmptyPath}
         /\ IF Candidates = {} THEN select_victim = EmptyPath
            ELSE /\ select_victim \in Candidates
                 /\ \A p \in Candidates \ {select_victim} : Less(select_victim, p)
  <1>1. Candidates \subseteq Registered /\ Registered \subseteq Paths
    BY DEF Candidates, InTier, Registered
  <1>2. \A p \in Candidates : g_fileMetaMap[p] \in Metas
    BY <1>1, RegisteredFacts
  <1>3. Counted(g_fileMetaMap, Candidates)
    BY <1>2, MetaFacts, PolicyAssumption DEF Counted
  <1>4. select_victim = ScanFor(Candidates)
    BY DEF select_victim, Candidates
  <1>5. IsBest(g_fileMetaMap, Candidates, Registered, select_victim)
    BY <1>1, <1>3, <1>4, ScanIsBest
  <1>6. Registered \cap Candidates = Candidates
    BY <1>1
  <1>7. IF Candidates = {} THEN select_victim = EmptyPath
        ELSE /\ select_victim \in Candidates
             /\ \A p \in Candidates \ {select_victim} : Less(select_victim, p)
    BY <1>5, <1>6 DEF IsBest, Precedes, Less
  <1>8. QED
    BY <1>1, <1>7

\* Nothing is selected before the first call.
LEMMA BaseInit == Init => BaseInv
  <1> SUFFICES ASSUME Init PROVE BaseInv
    OBVIOUS
  <1>1. TypeOK
    BY PolicyAssumption DEF Init, TypeOK, Ops
  <1>2. Registered = {}
    BY DEF Init, Registered
  <1>3. IsFiniteSet(Registered)
    BY <1>2, FS_EmptySet
  <1>4. VictimIsLeast
    BY DEF Init, VictimIsLeast
  <1>5. QED
    BY <1>1, <1>3, <1>4 DEF BaseInv

\* What a call other than the selection has to do.
Bookkeeping ==
    /\ OneFile
    /\ env' \subseteq EnvNames
    /\ g_fsdax_used_bytes' \in 0..(Modulus - 1)
    /\ g_ssd_used_bytes' \in 0..(Modulus - 1)
    /\ last' \in [op: Ops \ {"select"}, path: Paths \cup {EmptyPath}]
    /\ status' \in {"new", "up", "exit", "crash", "stuck"}

\* Such a call keeps BaseInv.
LEMMA BookkeepingStep == BaseInv /\ Bookkeeping => BaseInv'
  <1> SUFFICES ASSUME BaseInv, Bookkeeping PROVE BaseInv'
    OBVIOUS
  <1>1. g_fileMetaMap' \in [Paths -> Metas \cup {Absent}] /\ IsFiniteSet(Registered)'
    BY OneFileStep DEF BaseInv, Bookkeeping
  <1>2. last' \in [op: Ops, path: Paths \cup {EmptyPath}] /\ last'.op # "select"
    BY DEF Bookkeeping
  <1>3. TypeOK'
    BY <1>1, <1>2 DEF TypeOK, Bookkeeping
  <1>4. VictimIsLeast'
    BY <1>2 DEF VictimIsLeast
  <1>5. QED
    BY <1>1, <1>3, <1>4 DEF BaseInv

\* A step that changes neither the map nor what the last call returned.
LEMMA BaseIdle ==
  ASSUME BaseInv, UNCHANGED <<env, g_fileMetaMap, usage, last>>,
         status' \in {"new", "up", "exit", "crash", "stuck"}
  PROVE  BaseInv'
  <1>1. TypeOK'
    BY DEF BaseInv, TypeOK, usage
  <1>2. IsFiniteSet(Registered)'
    BY DEF BaseInv, Registered
  <1>3. VictimIsLeast'
    <2>1. Candidates' = Candidates
      BY DEF Candidates, InTier, Registered
    <2>2. \A p, q : Less(p, q)' <=> Less(p, q)
      BY DEF Less
    <2>3. QED
      BY <2>1, <2>2 DEF BaseInv, VictimIsLeast
  <1>4. QED
    BY <1>1, <1>2, <1>3 DEF BaseInv

\* Every step keeps BaseInv.
LEMMA BaseStep == BaseInv /\ [Next]_vars => BaseInv'
  <1> SUFFICES ASSUME BaseInv, [Next]_vars PROVE BaseInv'
    OBVIOUS
  <1>0. TypeOK
    BY DEF BaseInv
  <1>a. env \subseteq EnvNames /\ status \in {"new", "up", "exit", "crash", "stuck"}
    BY <1>0 DEF TypeOK
  <1>b. g_fsdax_used_bytes \in 0..(Modulus - 1) /\ g_ssd_used_bytes \in 0..(Modulus - 1)
    BY <1>0 DEF TypeOK
  <1>c. g_fsdax_used_bytes \in Int /\ g_ssd_used_bytes \in Int
    BY <1>b, PolicyAssumption
  <1>d. ASSUME NEW op \in Ops \ {"select"}, NEW p \in Paths \cup {EmptyPath}, Returns(op, p)
        PROVE  last' \in [op: Ops \ {"select"}, path: Paths \cup {EmptyPath}]
    BY <1>d DEF Returns
  <1>e. \A p \in Registered : p \in Paths /\ g_fileMetaMap[p] \in Metas /\ g_fileMetaMap[p].size \in Int
    <2>1. \A p \in Registered : p \in Paths /\ g_fileMetaMap[p] \in Metas
      BY <1>0, RegisteredFacts
    <2>2. \A p \in Registered : g_fileMetaMap[p].size \in 0..(Modulus - 1)
      BY <2>1, MetaFacts
    <2>3. QED
      BY <2>1, <2>2, PolicyAssumption
  <1>1. CASE cache_policy_init
    <2>1. last' \in [op: Ops \ {"select"}, path: Paths \cup {EmptyPath}]
      BY <1>1, <1>d DEF cache_policy_init, Ops
    <2>2. Bookkeeping
      BY <1>1, <1>a, <1>b, <2>1 DEF cache_policy_init, Bookkeeping, OneFile, usage
    <2>3. QED
      BY <2>2, BookkeepingStep
  <1>2. ASSUME NEW p \in Paths, NEW size \in Sizes, cache_policy_add_file(p, size)
        PROVE  BaseInv'
    <2>1. last' \in [op: Ops \ {"select"}, path: Paths \cup {EmptyPath}]
      BY <1>2, <1>d DEF cache_policy_add_file, Ops
    <2>2. size \in Int
      BY PolicyAssumption
    <2>3. /\ Plus(g_fsdax_used_bytes, size) \in 0..(Modulus - 1)
          /\ Plus(g_ssd_used_bytes, size) \in 0..(Modulus - 1)
      BY <1>c, <2>2, WordType
    <2>4. g_fsdax_used_bytes' \in 0..(Modulus - 1) /\ g_ssd_used_bytes' \in 0..(Modulus - 1)
      BY <1>2, <1>b, <2>3 DEF cache_policy_add_file, usage
    <2>5. OneFile
      <3>1. \A t \in Tiers :
               [current_tier |-> t, size |-> size, access_count |-> 0, is_open |-> TRUE] \in Metas
        BY NewMeta
      <3>2. "FSDAX" \in Tiers /\ "SSD" \in Tiers
        BY DEF Tiers
      <3>3. QED
        BY <1>2, <3>1, <3>2 DEF cache_policy_add_file, OneFile, Recorded, SetMeta
    <2>6. Bookkeeping
      BY <1>2, <1>a, <2>1, <2>4, <2>5 DEF cache_policy_add_file, Bookkeeping
    <2>7. QED
      BY <2>6, BookkeepingStep
  <1>3. ASSUME NEW p \in Paths, cache_policy_update_access(p)
        PROVE  BaseInv'
    <2>1. last' \in [op: Ops \ {"select"}, path: Paths \cup {EmptyPath}]
      BY <1>3, <1>d DEF cache_policy_update_access, Ops
    <2>2. OneFile
      <3>1. CASE p \in Registered
        BY <1>0, <1>3, <3>1, AccessRecords DEF cache_policy_update_access, OneFile
      <3>2. CASE p \notin Registered
        BY <1>3, <3>2 DEF cache_policy_update_access, OneFile
      <3>3. QED
        BY <3>1, <3>2
    <2>3. Bookkeeping
      BY <1>3, <1>a, <1>b, <2>1, <2>2 DEF cache_policy_update_access, Bookkeeping, usage
    <2>4. QED
      BY <2>3, BookkeepingStep
  <1>4. ASSUME NEW p \in Paths, NEW t \in Tiers \cup {"PFS"}, cache_policy_update_tier(p, t)
        PROVE  BaseInv'
    <2>1. last' \in [op: Ops \ {"select"}, path: Paths \cup {EmptyPath}]
      BY <1>4, <1>d DEF cache_policy_update_tier, Ops
    <2>2. CASE UNCHANGED <<g_fileMetaMap, usage>>
      <3>1. status' \in {"new", "up", "exit", "crash", "stuck"} /\ env' = env
        BY <1>4, <1>a DEF cache_policy_update_tier
      <3>2. Bookkeeping
        BY <2>2, <1>a, <1>b, <2>1, <3>1 DEF Bookkeeping, OneFile, usage
      <3>3. QED
        BY <3>2, BookkeepingStep
    <2>3. CASE ~UNCHANGED <<g_fileMetaMap, usage>>
      <3>1. /\ p \in Registered /\ t \in Tiers
            /\ g_fileMetaMap' = [g_fileMetaMap EXCEPT ![p].current_tier = t]
            /\ UNCHANGED <<env, status>>
        BY <1>4, <2>3 DEF cache_policy_update_tier, InTier, Tiers
      <3>2. OneFile
        BY <1>0, <3>1, MoveRecords DEF OneFile
      <3>3. /\ Plus(g_fsdax_used_bytes, g_fileMetaMap[p].size) \in 0..(Modulus - 1)
            /\ Plus(g_ssd_used_bytes, g_fileMetaMap[p].size) \in 0..(Modulus - 1)
            /\ Minus(g_fsdax_used_bytes, g_fileMetaMap[p].size) \in 0..(Modulus - 1)
            /\ Minus(g_ssd_used_bytes, g_fileMetaMap[p].size) \in 0..(Modulus - 1)
        BY <1>c, <1>e, <3>1, WordType
      <3>4. g_fsdax_used_bytes' \in 0..(Modulus - 1) /\ g_ssd_used_bytes' \in 0..(Modulus - 1)
        BY <1>4, <1>b, <2>3, <3>3 DEF cache_policy_update_tier
      <3>5. Bookkeeping
        BY <1>a, <2>1, <3>1, <3>2, <3>4 DEF Bookkeeping
      <3>6. QED
        BY <3>5, BookkeepingStep
    <2>4. QED
      BY <2>2, <2>3
  <1>5. ASSUME NEW p \in Paths, NEW b \in BOOLEAN, cache_policy_set_open_state(p, b)
        PROVE  BaseInv'
    <2>1. last' \in [op: Ops \ {"select"}, path: Paths \cup {EmptyPath}]
      BY <1>5, <1>d DEF cache_policy_set_open_state, Ops
    <2>2. OneFile
      <3>1. CASE p \in Registered
        BY <1>0, <1>5, <3>1, OpenRecords DEF cache_policy_set_open_state, OneFile
      <3>2. CASE p \notin Registered
        BY <1>5, <3>2 DEF cache_policy_set_open_state, OneFile
      <3>3. QED
        BY <3>1, <3>2
    <2>3. Bookkeeping
      BY <1>5, <1>a, <1>b, <2>1, <2>2 DEF cache_policy_set_open_state, Bookkeeping, usage
    <2>4. QED
      BY <2>3, BookkeepingStep
  <1>6. ASSUME NEW p \in Paths, cache_policy_remove_file(p)
        PROVE  BaseInv'
    <2>1. last' \in [op: Ops \ {"select"}, path: Paths \cup {EmptyPath}]
      BY <1>6, <1>d DEF cache_policy_remove_file, Ops
    <2>2. OneFile
      BY <1>6 DEF cache_policy_remove_file, OneFile, Recorded, SetMeta
    <2>3. g_fsdax_used_bytes' \in 0..(Modulus - 1) /\ g_ssd_used_bytes' \in 0..(Modulus - 1)
      <3>1. CASE p \in Registered
        <4>1. /\ Minus(g_fsdax_used_bytes, g_fileMetaMap[p].size) \in 0..(Modulus - 1)
              /\ Minus(g_ssd_used_bytes, g_fileMetaMap[p].size) \in 0..(Modulus - 1)
          BY <1>c, <1>e, <3>1, WordType
        <4>2. QED
          BY <1>6, <1>b, <3>1, <4>1 DEF cache_policy_remove_file
      <3>2. CASE p \notin Registered
        BY <1>6, <1>b, <3>2 DEF cache_policy_remove_file, usage
      <3>3. QED
        BY <3>1, <3>2
    <2>4. Bookkeeping
      BY <1>6, <1>a, <2>1, <2>2, <2>3 DEF cache_policy_remove_file, Bookkeeping
    <2>5. QED
      BY <2>4, BookkeepingStep
  <1>7. CASE cache_policy_select_victim_for_eviction
    <2>1. UNCHANGED <<env, g_fileMetaMap, usage, status>>
      BY <1>7 DEF cache_policy_select_victim_for_eviction
    <2>2. last' = [op |-> "select", path |-> select_victim]
      BY <1>7 DEF cache_policy_select_victim_for_eviction, Returns
    <2>3. /\ select_victim \in Paths \cup {EmptyPath}
          /\ IF Candidates = {} THEN select_victim = EmptyPath
             ELSE /\ select_victim \in Candidates
                  /\ \A p \in Candidates \ {select_victim} : Less(select_victim, p)
      BY SelectedVictim DEF BaseInv
    <2>4. TypeOK'
      BY <1>0, <2>1, <2>2, <2>3 DEF TypeOK, usage, Ops
    <2>5. IsFiniteSet(Registered)'
      BY <2>1 DEF BaseInv, Registered
    <2>6. VictimIsLeast'
      <3>1. Candidates' = Candidates
        BY <2>1 DEF Candidates, InTier, Registered
      <3>2. \A p, q : Less(p, q)' <=> Less(p, q)
        BY <2>1 DEF Less
      <3>3. last'.path = select_victim
        BY <2>2
      <3>4. QED
        BY <2>3, <3>1, <3>2, <3>3 DEF VictimIsLeast
    <2>7. QED
      BY <2>4, <2>5, <2>6 DEF BaseInv
  <1>8. CASE cache_policy_evict_if_needed
    <2>1. UNCHANGED <<env, g_fileMetaMap, usage>>
      BY <1>8 DEF cache_policy_evict_if_needed
    <2>2. CASE Returns("evict", EmptyPath) /\ UNCHANGED status
      <3>1. last' \in [op: Ops \ {"select"}, path: Paths \cup {EmptyPath}]
        BY <2>2, <1>d DEF Ops
      <3>2. Bookkeeping
        BY <1>a, <1>b, <2>1, <2>2, <3>1 DEF Bookkeeping, OneFile, usage
      <3>3. QED
        BY <3>2, BookkeepingStep
    <2>3. CASE status' = "stuck" /\ UNCHANGED last
      BY <2>1, <2>3, BaseIdle
    <2>4. QED
      BY <1>8, <2>2, <2>3 DEF cache_policy_evict_if_needed
  <1>9. CASE Stopped
    BY <1>9, <1>a, BaseIdle DEF Stopped, vars, usage
  <1>10. CASE UNCHANGED vars
    BY <1>10, <1>a, BaseIdle DEF vars, usage
  <1>11. QED
    BY <1>1, <1>2, <1>3, <1>4, <1>5, <1>6, <1>7, <1>8, <1>9, <1>10 DEF Next

\* The invariant of every run of the policy, whatever the sizes, files and
\* capacities.
THEOREM BaseInvariance == Spec => []BaseInv
  <1>1. Init => BaseInv
    BY BaseInit
  <1>2. BaseInv /\ [Next]_vars => BaseInv'
    BY BaseStep
  <1>3. QED
    BY <1>1, <1>2, PTL DEF Spec

-----------------------------------------------------------------------------
(* The used bytes, for sizes that cannot wrap.                             *)

\* No file makes the sum of a full tier wrap around.
NoWrap ==
    \A size \in Sizes : size + FsdaxCapacity < Modulus /\ size + SsdCapacity < Modulus

OnTier(tier) == Load(g_fileMetaMap, InTier(tier))

UsedInv ==
    /\ g_fsdax_used_bytes = OnTier("FSDAX") /\ g_fsdax_used_bytes <= FsdaxCapacity
    /\ g_ssd_used_bytes = OnTier("SSD") /\ g_ssd_used_bytes <= SsdCapacity

\* A tier's files are finitely many, with sizes.
LEMMA TierFacts ==
  ASSUME BaseInv, NEW t \in Tiers
  PROVE  /\ IsFiniteSet(InTier(t)) /\ InTier(t) \subseteq Paths
         /\ \A p \in InTier(t) : g_fileMetaMap[p].size \in 0..(Modulus - 1)
         /\ OnTier(t) \in Nat
  <1>1. InTier(t) \subseteq Registered /\ IsFiniteSet(Registered)
    BY DEF BaseInv, InTier
  <1>2. IsFiniteSet(InTier(t))
    BY <1>1, FS_Subset
  <1>3. \A p \in InTier(t) : p \in Paths /\ g_fileMetaMap[p] \in Metas
    BY <1>1, RegisteredFacts DEF BaseInv
  <1>4. \A p \in InTier(t) : g_fileMetaMap[p].size \in 0..(Modulus - 1)
    BY <1>3, MetaFacts
  <1>5. OnTier(t) \in Nat
    BY <1>2, CellsFinite DEF OnTier
  <1>6. QED
    BY <1>2, <1>3, <1>4, <1>5

\* A tier whose files and their sizes stay the same.
LEMMA TierSame ==
  ASSUME NEW t, InTier(t)' = InTier(t),
         \A q \in InTier(t) : g_fileMetaMap'[q].size = g_fileMetaMap[q].size
  PROVE  OnTier(t)' = OnTier(t)
  <1>1. Load(g_fileMetaMap', InTier(t)) = Load(g_fileMetaMap, InTier(t))
    BY LoadSame
  <1>2. OnTier(t)' = Load(g_fileMetaMap', InTier(t)')
    BY DEF OnTier, Load, Cells
  <1>3. QED
    BY <1>1, <1>2 DEF OnTier

\* A tier that gets the file p.
LEMMA TierGets ==
  ASSUME BaseInv, NEW t \in Tiers, NEW p, p \notin InTier(t), InTier(t)' = InTier(t) \cup {p},
         \A q \in InTier(t) : g_fileMetaMap'[q].size = g_fileMetaMap[q].size,
         g_fileMetaMap'[p].size \in 0..(Modulus - 1)
  PROVE  OnTier(t)' = OnTier(t) + g_fileMetaMap'[p].size
  <1>1. Load(g_fileMetaMap', InTier(t)) = Load(g_fileMetaMap, InTier(t))
    BY LoadSame
  <1>2. IsFiniteSet(InTier(t))
    BY TierFacts
  <1>3. Load(g_fileMetaMap', InTier(t) \cup {p}) = Load(g_fileMetaMap', InTier(t)) + g_fileMetaMap'[p].size
    BY <1>2, LoadAdd
  <1>4. OnTier(t)' = Load(g_fileMetaMap', InTier(t)')
    BY DEF OnTier, Load, Cells
  <1>5. QED
    BY <1>1, <1>3, <1>4 DEF OnTier

\* A tier that loses the file p.
LEMMA TierLoses ==
  ASSUME BaseInv, NEW t \in Tiers, NEW p \in InTier(t), InTier(t)' = InTier(t) \ {p},
         \A q \in InTier(t) \ {p} : g_fileMetaMap'[q].size = g_fileMetaMap[q].size
  PROVE  OnTier(t) = OnTier(t)' + g_fileMetaMap[p].size /\ OnTier(t)' \in Nat
  <1>1. Load(g_fileMetaMap', InTier(t) \ {p}) = Load(g_fileMetaMap, InTier(t) \ {p})
    BY LoadSame
  <1>2. IsFiniteSet(InTier(t)) /\ g_fileMetaMap[p].size \in 0..(Modulus - 1)
    BY TierFacts
  <1>3. /\ Load(g_fileMetaMap, InTier(t)) = Load(g_fileMetaMap, InTier(t) \ {p}) + g_fileMetaMap[p].size
        /\ Load(g_fileMetaMap, InTier(t) \ {p}) \in Nat
    BY <1>2, LoadRemove
  <1>4. OnTier(t)' = Load(g_fileMetaMap', InTier(t)')
    BY DEF OnTier, Load, Cells
  <1>5. QED
    BY <1>1, <1>3, <1>4 DEF OnTier

\* Booking a file in does not wrap.
LEMMA BookIn ==
  ASSUME NEW u \in Nat, NEW cap \in Nat, u <= cap, NEW k \in Nat, k + cap < Modulus
  PROVE  Plus(u, k) = u + k
  <1>1. u + k < Modulus
    BY PolicyAssumption
  <1>2. QED
    BY <1>1, PlusSmall

\* Booking a file out leaves the bytes of the others.
LEMMA BookOut ==
  ASSUME NEW u \in Nat, NEW cap \in 0..(Modulus - 1), u <= cap,
         NEW k \in Nat, NEW rest \in Nat, u = rest + k
  PROVE  Minus(u, k) = rest /\ rest <= cap
  <1>1. u < Modulus /\ k <= u
    BY PolicyAssumption
  <1>2. Minus(u, k) = u - k
    BY <1>1, MinusSmall
  <1>3. QED
    BY <1>2, PolicyAssumption

\* Metadata of a file that is registered are replaced by metadata with the same
\* size and tier: no tier changes.
LEMMA SameSizes ==
  ASSUME BaseInv, NEW p \in Registered, NEW x \in Metas, Recorded(p, x),
         x.size = g_fileMetaMap[p].size, x.current_tier = g_fileMetaMap[p].current_tier,
         NEW t \in Tiers
  PROVE  OnTier(t)' = OnTier(t)
  <1>1. p \in Paths /\ InTier(t) \subseteq Paths
    BY DEF InTier, Registered
  <1>2. /\ \A v : InTier(v)' = IF x.current_tier = v THEN InTier(v) \cup {p} ELSE InTier(v) \ {p}
        /\ \A q \in Paths \ {p} : g_fileMetaMap'[q] = g_fileMetaMap[q]
        /\ g_fileMetaMap'[p] = x
    <2>1. TypeOK /\ g_fileMetaMap' = [g_fileMetaMap EXCEPT ![p] = x]
      BY DEF BaseInv, Recorded
    <2>2. QED
      BY <1>1, <2>1, SetFacts, ZenonT(60)
  <1>3. p \in InTier(t) <=> x.current_tier = t
    BY DEF InTier
  <1>4. InTier(t)' = InTier(t)
    BY <1>2, <1>3
  <1>5. \A q \in InTier(t) : g_fileMetaMap'[q].size = g_fileMetaMap[q].size
    BY <1>1, <1>2
  <1>6. QED
    BY <1>4, <1>5, TierSame

\* The map unchanged.
LEMMA SameMap ==
  ASSUME UNCHANGED g_fileMetaMap, NEW t
  PROVE  OnTier(t)' = OnTier(t)
  <1>1. InTier(t)' = InTier(t)
    BY DEF InTier, Registered
  <1>2. QED
    BY <1>1, TierSame

\* What the books need when the tiers do not change.
LEMMA BooksSame ==
  ASSUME UsedInv, UNCHANGED usage, \A t \in Tiers : OnTier(t)' = OnTier(t)
  PROVE  UsedInv'
  <1>1. "FSDAX" \in Tiers /\ "SSD" \in Tiers
    BY DEF Tiers
  <1>2. OnTier("FSDAX")' = OnTier("FSDAX") /\ OnTier("SSD")' = OnTier("SSD")
    BY <1>1
  <1>3. QED
    BY <1>2 DEF UsedInv, usage

\* A new file is booked on the tier it goes to, and on no other.
LEMMA AddBooks ==
  ASSUME NoWrap, BaseInv, UsedInv, NEW p \in Paths, NEW size \in Sizes,
         cache_policy_add_file(p, size)
  PROVE  UsedInv'
  <1> DEFINE meta(tier) == [current_tier |-> tier, size |-> size, access_count |-> 0, is_open |-> TRUE]
  <1>1. "FSDAX" \in Tiers /\ "SSD" \in Tiers /\ "FSDAX" # "SSD"
    BY DEF Tiers
  <1>2. /\ size \in Nat /\ size \in 0..(Modulus - 1)
        /\ size + FsdaxCapacity < Modulus /\ size + SsdCapacity < Modulus
        /\ FsdaxCapacity \in Nat /\ SsdCapacity \in Nat
    BY PolicyAssumption DEF NoWrap
  <1>3. OnTier("FSDAX") \in Nat /\ OnTier("SSD") \in Nat
    BY <1>1, TierFacts
  <1>4. /\ Plus(g_fsdax_used_bytes, size) = g_fsdax_used_bytes + size
        /\ Plus(g_ssd_used_bytes, size) = g_ssd_used_bytes + size
    BY <1>2, <1>3, BookIn DEF UsedInv
  <1>5. ASSUME NEW t \in Tiers, NEW u \in Tiers, t # u, p \notin Registered, SetMeta(p, meta(t))
        PROVE  OnTier(t)' = OnTier(t) + size /\ OnTier(u)' = OnTier(u)
    <2>1. meta(t) \in Metas
      BY NewMeta
    <2>2. /\ InTier(t)' = InTier(t) \cup {p} /\ InTier(u)' = InTier(u) \ {p}
          /\ \A q \in Paths \ {p} : g_fileMetaMap'[q] = g_fileMetaMap[q]
          /\ g_fileMetaMap'[p] = meta(t)
      <3> DEFINE x == meta(t)
      <3>1. x \in Metas /\ x.current_tier = t /\ Recorded(p, x)
        BY <1>5, <2>1 DEF SetMeta, Recorded
      <3> HIDE DEF x
      <3>2. /\ \A v : InTier(v)' = IF x.current_tier = v THEN InTier(v) \cup {p} ELSE InTier(v) \ {p}
            /\ \A q \in Paths \ {p} : g_fileMetaMap'[q] = g_fileMetaMap[q]
            /\ g_fileMetaMap'[p] = x
        BY <3>1, SetFacts DEF BaseInv, Recorded
      <3>3. InTier(t)' = InTier(t) \cup {p} /\ InTier(u)' = InTier(u) \ {p}
        BY <1>5, <3>1, <3>2
      <3>4. QED
        BY <3>2, <3>3 DEF x
    <2>3. p \notin InTier(t) /\ p \notin InTier(u) /\ InTier(t) \subseteq Paths /\ InTier(u) \subseteq Paths
      BY <1>5 DEF InTier, Registered
    <2>4. g_fileMetaMap'[p].size = size
      BY <2>2
    <2>5. OnTier(t)' = OnTier(t) + size
      <3>1. \A q \in InTier(t) : g_fileMetaMap'[q].size = g_fileMetaMap[q].size
        BY <2>2, <2>3
      <3>2. OnTier(t)' = OnTier(t) + g_fileMetaMap'[p].size
        BY <1>2, <2>2, <2>3, <2>4, <3>1, TierGets
      <3>3. QED
        BY <2>4, <3>2
    <2>6. OnTier(u)' = OnTier(u)
      <3>1. \A q \in InTier(u) : g_fileMetaMap'[q].size = g_fileMetaMap[q].size
        BY <2>2, <2>3
      <3>2. InTier(u)' = InTier(u)
        BY <2>2, <2>3
      <3>3. QED
        BY <3>1, <3>2, TierSame
    <2>7. QED
      BY <2>5, <2>6
  <1>6. CASE UNCHANGED <<g_fileMetaMap, usage>>
    BY <1>6, SameMap, BooksSame
  <1>7. CASE /\ p \notin Registered /\ Plus(g_fsdax_used_bytes, size) <= FsdaxCapacity
             /\ g_fsdax_used_bytes' = Plus(g_fsdax_used_bytes, size)
             /\ SetMeta(p, meta("FSDAX"))
             /\ UNCHANGED g_ssd_used_bytes
    <2>1. OnTier("FSDAX")' = OnTier("FSDAX") + size /\ OnTier("SSD")' = OnTier("SSD")
      BY <1>1, <1>5, <1>7
    <2>2. QED
      BY <1>3, <1>4, <1>7, <2>1 DEF UsedInv
  <1>8. CASE /\ p \notin Registered /\ Plus(g_ssd_used_bytes, size) <= SsdCapacity
             /\ g_ssd_used_bytes' = Plus(g_ssd_used_bytes, size)
             /\ SetMeta(p, meta("SSD"))
             /\ UNCHANGED g_fsdax_used_bytes
    <2>1. OnTier("SSD")' = OnTier("SSD") + size /\ OnTier("FSDAX")' = OnTier("FSDAX")
      BY <1>1, <1>5, <1>8
    <2>2. QED
      BY <1>3, <1>4, <1>8, <2>1 DEF UsedInv
  <1>9. QED
    BY <1>6, <1>7, <1>8 DEF cache_policy_add_file

\* A move takes the file's bytes from one tier and books them on the other.
LEMMA MoveBooks ==
  ASSUME NoWrap, BaseInv, UsedInv, NEW p \in Paths, NEW new_tier \in Tiers \cup {"PFS"},
         cache_policy_update_tier(p, new_tier)
  PROVE  UsedInv'
  <1> DEFINE k == g_fileMetaMap[p].size
  <1>1. "FSDAX" \in Tiers /\ "SSD" \in Tiers /\ "FSDAX" # "SSD"
    BY DEF Tiers
  <1>2. /\ FsdaxCapacity \in 0..(Modulus - 1) /\ SsdCapacity \in 0..(Modulus - 1)
        /\ FsdaxCapacity \in Nat /\ SsdCapacity \in Nat
    BY PolicyAssumption
  <1>3. OnTier("FSDAX") \in Nat /\ OnTier("SSD") \in Nat
    BY <1>1, TierFacts
  <1>4. CASE UNCHANGED <<g_fileMetaMap, usage>>
    BY <1>4, SameMap, BooksSame
  <1>5. ASSUME NEW t \in Tiers, NEW u \in Tiers, t # u, p \in InTier(t),
               g_fileMetaMap' = [g_fileMetaMap EXCEPT ![p].current_tier = u]
        PROVE  /\ OnTier(t) = OnTier(t)' + k /\ OnTier(t)' \in Nat
               /\ OnTier(u)' = OnTier(u) + k
               /\ k \in Nat /\ k + FsdaxCapacity < Modulus /\ k + SsdCapacity < Modulus
    <2>0. p \in Registered /\ g_fileMetaMap[p].current_tier = t
      BY <1>5 DEF InTier
    <2>1. PICK x \in Metas : Recorded(p, x) /\ x.size = k /\ x.current_tier = u
      BY <1>5, <2>0, MoveRecords DEF BaseInv
    <2>2. /\ InTier(u)' = InTier(u) \cup {p} /\ InTier(t)' = InTier(t) \ {p}
          /\ \A q \in Paths \ {p} : g_fileMetaMap'[q] = g_fileMetaMap[q]
          /\ g_fileMetaMap'[p] = x
      <3>1. /\ \A v : InTier(v)' = IF x.current_tier = v THEN InTier(v) \cup {p} ELSE InTier(v) \ {p}
            /\ \A q \in Paths \ {p} : g_fileMetaMap'[q] = g_fileMetaMap[q]
            /\ g_fileMetaMap'[p] = x
        BY <2>1, SetFacts DEF BaseInv, Recorded
      <3>2. InTier(u)' = InTier(u) \cup {p} /\ InTier(t)' = InTier(t) \ {p}
        BY <1>5, <2>1, <3>1
      <3>3. QED
        BY <3>1, <3>2
    <2>3. InTier(t) \subseteq Paths /\ InTier(u) \subseteq Paths
      BY DEF InTier, Registered
    <2>4. p \notin InTier(u)
      BY <1>5, <2>0 DEF InTier
    <2>5. x.size \in Sizes /\ x.size \in 0..(Modulus - 1)
      BY MetaFacts
    <2>6. k \in Nat /\ k + FsdaxCapacity < Modulus /\ k + SsdCapacity < Modulus
      BY <2>1, <2>5, PolicyAssumption DEF NoWrap
    <2>7. OnTier(t) = OnTier(t)' + k /\ OnTier(t)' \in Nat
      <3>1. \A q \in InTier(t) \ {p} : g_fileMetaMap'[q].size = g_fileMetaMap[q].size
        BY <2>2, <2>3
      <3>2. QED
        BY <1>5, <2>2, <3>1, TierLoses
    <2>8. OnTier(u)' = OnTier(u) + k
      <3>1. \A q \in InTier(u) : g_fileMetaMap'[q].size = g_fileMetaMap[q].size
        BY <2>2, <2>3, <2>4
      <3>2. OnTier(u)' = OnTier(u) + g_fileMetaMap'[p].size
        BY <2>2, <2>4, <2>5, <3>1, TierGets
      <3>3. QED
        BY <2>1, <2>2, <3>2
    <2>9. QED
      BY <2>6, <2>7, <2>8
  <1>6. CASE /\ p \in InTier("FSDAX") /\ new_tier = "SSD" /\ Plus(g_ssd_used_bytes, k) <= SsdCapacity
             /\ g_ssd_used_bytes' = Plus(g_ssd_used_bytes, k)
             /\ g_fsdax_used_bytes' = Minus(g_fsdax_used_bytes, k)
             /\ g_fileMetaMap' = [g_fileMetaMap EXCEPT ![p].current_tier = new_tier]
    <2>1. /\ OnTier("FSDAX") = OnTier("FSDAX")' + k /\ OnTier("FSDAX")' \in Nat
          /\ OnTier("SSD")' = OnTier("SSD") + k
          /\ k \in Nat /\ k + SsdCapacity < Modulus
      BY <1>1, <1>5, <1>6
    <2> HIDE DEF k
    <2>2. Plus(g_ssd_used_bytes, k) = g_ssd_used_bytes + k
      BY <1>2, <1>3, <2>1, BookIn DEF UsedInv
    <2>3. /\ Minus(g_fsdax_used_bytes, k) = OnTier("FSDAX")'
          /\ OnTier("FSDAX")' <= FsdaxCapacity
      BY <1>2, <1>3, <2>1, BookOut DEF UsedInv
    <2>4. QED
      BY <1>6, <2>1, <2>2, <2>3 DEF UsedInv
  <1>7. CASE /\ p \in InTier("SSD") /\ new_tier = "FSDAX" /\ Plus(g_fsdax_used_bytes, k) <= FsdaxCapacity
             /\ g_fsdax_used_bytes' = Plus(g_fsdax_used_bytes, k)
             /\ g_ssd_used_bytes' = Minus(g_ssd_used_bytes, k)
             /\ g_fileMetaMap' = [g_fileMetaMap EXCEPT ![p].current_tier = new_tier]
    <2>1. /\ OnTier("SSD") = OnTier("SSD")' + k /\ OnTier("SSD")' \in Nat
          /\ OnTier("FSDAX")' = OnTier("FSDAX") + k
          /\ k \in Nat /\ k + FsdaxCapacity < Modulus
      BY <1>1, <1>5, <1>7
    <2> HIDE DEF k
    <2>2. Plus(g_fsdax_used_bytes, k) = g_fsdax_used_bytes + k
      BY <1>2, <1>3, <2>1, BookIn DEF UsedInv
    <2>3. /\ Minus(g_ssd_used_bytes, k) = OnTier("SSD")'
          /\ OnTier("SSD")' <= SsdCapacity
      BY <1>2, <1>3, <2>1, BookOut DEF UsedInv
    <2>4. QED
      BY <1>7, <2>1, <2>2, <2>3 DEF UsedInv
  <1>8. QED
    BY <1>4, <1>6, <1>7 DEF cache_policy_update_tier

\* A removal gives the bytes back to the tier the file was on.
LEMMA RemoveBooks ==
  ASSUME BaseInv, UsedInv, NEW p \in Paths, cache_policy_remove_file(p)
  PROVE  UsedInv'
  <1> DEFINE k == g_fileMetaMap[p].size
  <1>1. "FSDAX" \in Tiers /\ "SSD" \in Tiers /\ "FSDAX" # "SSD"
    BY DEF Tiers
  <1>2. FsdaxCapacity \in 0..(Modulus - 1) /\ SsdCapacity \in 0..(Modulus - 1)
    BY PolicyAssumption
  <1>3. OnTier("FSDAX") \in Nat /\ OnTier("SSD") \in Nat
    BY <1>1, TierFacts
  <1>4. CASE p \notin Registered
    <2>1. UNCHANGED <<g_fileMetaMap, usage>>
      BY <1>4 DEF cache_policy_remove_file
    <2>2. QED
      BY <2>1, SameMap, BooksSame
  <1>5. CASE p \in Registered
    <2>0. /\ g_fileMetaMap' = [g_fileMetaMap EXCEPT ![p] = Absent]
          /\ g_fsdax_used_bytes' = IF p \in InTier("FSDAX")
                                   THEN Minus(g_fsdax_used_bytes, k) ELSE g_fsdax_used_bytes
          /\ g_ssd_used_bytes' = IF p \in InTier("SSD")
                                 THEN Minus(g_ssd_used_bytes, k) ELSE g_ssd_used_bytes
      BY <1>5 DEF cache_policy_remove_file, SetMeta
    <2>1. /\ \A t : InTier(t)' = InTier(t) \ {p}
          /\ \A q \in Paths \ {p} : g_fileMetaMap'[q] = g_fileMetaMap[q]
      BY <2>0, DropFacts DEF BaseInv
    <2>2. ASSUME NEW t \in Tiers
          PROVE  IF p \in InTier(t)
                 THEN OnTier(t) = OnTier(t)' + k /\ OnTier(t)' \in Nat /\ k \in Nat
                 ELSE OnTier(t)' = OnTier(t)
      <3>1. InTier(t) \subseteq Paths
        BY DEF InTier, Registered
      <3>2. \A q \in InTier(t) \ {p} : g_fileMetaMap'[q].size = g_fileMetaMap[q].size
        BY <2>1, <3>1
      <3>3. CASE p \in InTier(t)
        <4>1. k \in 0..(Modulus - 1)
          BY <3>3, TierFacts
        <4>2. OnTier(t) = OnTier(t)' + k /\ OnTier(t)' \in Nat
          BY <2>1, <3>2, <3>3, TierLoses
        <4>3. QED
          BY <3>3, <4>1, <4>2, PolicyAssumption
      <3>4. CASE p \notin InTier(t)
        <4>1. InTier(t)' = InTier(t)
          BY <2>1, <3>4
        <4>2. OnTier(t)' = OnTier(t)
          BY <3>2, <3>4, <4>1, TierSame
        <4>3. QED
          BY <3>4, <4>2
      <3>5. QED
        BY <3>3, <3>4
    <2> HIDE DEF k
    <2>3. g_fsdax_used_bytes' = OnTier("FSDAX")' /\ g_fsdax_used_bytes' <= FsdaxCapacity
      <3>1. CASE p \in InTier("FSDAX")
        <4>1. OnTier("FSDAX") = OnTier("FSDAX")' + k /\ OnTier("FSDAX")' \in Nat /\ k \in Nat
          BY <1>1, <2>2, <3>1
        <4>2. /\ Minus(g_fsdax_used_bytes, k) = OnTier("FSDAX")'
              /\ OnTier("FSDAX")' <= FsdaxCapacity
          BY <1>2, <1>3, <4>1, BookOut DEF UsedInv
        <4>3. QED
          BY <2>0, <3>1, <4>2
      <3>2. CASE p \notin InTier("FSDAX")
        <4>1. OnTier("FSDAX")' = OnTier("FSDAX")
          BY <1>1, <2>2, <3>2
        <4>2. QED
          BY <2>0, <3>2, <4>1 DEF UsedInv
      <3>3. QED
        BY <3>1, <3>2
    <2>4. g_ssd_used_bytes' = OnTier("SSD")' /\ g_ssd_used_bytes' <= SsdCapacity
      <3>1. CASE p \in InTier("SSD")
        <4>1. OnTier("SSD") = OnTier("SSD")' + k /\ OnTier("SSD")' \in Nat /\ k \in Nat
          BY <1>1, <2>2, <3>1
        <4>2. Minus(g_ssd_used_bytes, k) = OnTier("SSD")' /\ OnTier("SSD")' <= SsdCapacity
          BY <1>2, <1>3, <4>1, BookOut DEF UsedInv
        <4>3. QED
          BY <2>0, <3>1, <4>2
      <3>2. CASE p \notin InTier("SSD")
        <4>1. OnTier("SSD")' = OnTier("SSD")
          BY <1>1, <2>2, <3>2
        <4>2. QED
          BY <2>0, <3>2, <4>1 DEF UsedInv
      <3>3. QED
        BY <3>1, <3>2
    <2>5. QED
      BY <2>3, <2>4 DEF UsedInv
  <1>6. QED
    BY <1>4, <1>5

\* The books of a run of calls, and a mutex that is never left locked.
IInv == BaseInv /\ UsedInv /\ EvictReturns

\* Every step keeps the books.
LEMMA BooksStep ==
  ASSUME NoWrap, IInv, [Next]_vars
  PROVE  UsedInv' /\ EvictReturns'
  <1>0. BaseInv /\ UsedInv /\ EvictReturns
    BY DEF IInv
  <1>1. ASSUME UNCHANGED <<g_fileMetaMap, usage>> PROVE UsedInv'
    BY <1>0, <1>1, SameMap, BooksSame
  <1>2. CASE cache_policy_init
    BY <1>1, <1>2 DEF cache_policy_init, EvictReturns
  <1>3. ASSUME NEW p \in Paths, NEW size \in Sizes, cache_policy_add_file(p, size)
        PROVE  UsedInv' /\ EvictReturns'
    <2>1. UsedInv'
      BY <1>0, <1>3, AddBooks
    <2>2. UNCHANGED status
      BY <1>3 DEF cache_policy_add_file
    <2>3. QED
      BY <1>0, <2>1, <2>2 DEF EvictReturns
  <1>4. ASSUME NEW p \in Paths, cache_policy_update_access(p)
        PROVE  UsedInv' /\ EvictReturns'
    <2>1. UNCHANGED usage /\ UNCHANGED status
      BY <1>4 DEF cache_policy_update_access
    <2>2. CASE p \notin Registered
      BY <1>0, <1>1, <1>4, <2>1, <2>2 DEF cache_policy_update_access, EvictReturns
    <2>3. CASE p \in Registered
      <3>1. PICK x \in Metas : /\ Recorded(p, x) /\ x.size = g_fileMetaMap[p].size
                               /\ x.current_tier = g_fileMetaMap[p].current_tier
        BY <1>0, <1>4, <2>3, AccessRecords DEF BaseInv, cache_policy_update_access
      <3>2. \A t \in Tiers : OnTier(t)' = OnTier(t)
        BY <1>0, <2>3, <3>1, SameSizes
      <3>3. UsedInv'
        BY <1>0, <2>1, <3>2, BooksSame
      <3>4. QED
        BY <1>0, <2>1, <3>3 DEF EvictReturns
    <2>4. QED
      BY <2>2, <2>3
  <1>5. ASSUME NEW p \in Paths, NEW t \in Tiers \cup {"PFS"}, cache_policy_update_tier(p, t)
        PROVE  UsedInv' /\ EvictReturns'
    <2>1. UsedInv'
      BY <1>0, <1>5, MoveBooks
    <2>2. status' \in {status, "exit"}
      BY <1>5 DEF cache_policy_update_tier
    <2>3. QED
      BY <1>0, <2>1, <2>2 DEF EvictReturns
  <1>6. ASSUME NEW p \in Paths, NEW b \in BOOLEAN, cache_policy_set_open_state(p, b)
        PROVE  UsedInv' /\ EvictReturns'
    <2>1. UNCHANGED usage /\ status' \in {status, "exit"}
      BY <1>6 DEF cache_policy_set_open_state
    <2>2. CASE p \notin Registered
      <3>1. UNCHANGED g_fileMetaMap
        BY <1>6, <2>2 DEF cache_policy_set_open_state
      <3>2. QED
        BY <1>0, <1>1, <2>1, <3>1 DEF EvictReturns
    <2>3. CASE p \in Registered
      <3>1. PICK x \in Metas : /\ Recorded(p, x) /\ x.size = g_fileMetaMap[p].size
                               /\ x.current_tier = g_fileMetaMap[p].current_tier
        BY <1>0, <1>6, <2>3, OpenRecords DEF BaseInv, cache_policy_set_open_state
      <3>2. \A t \in Tiers : OnTier(t)' = OnTier(t)
        BY <1>0, <2>3, <3>1, SameSizes
      <3>3. UsedInv'
        BY <1>0, <2>1, <3>2, BooksSame
      <3>4. QED
        BY <1>0, <2>1, <3>3 DEF EvictReturns
    <2>4. QED
      BY <2>2, <2>3
  <1>7. ASSUME NEW p \in Paths, cache_policy_remove_file(p)
        PROVE  UsedInv' /\ EvictReturns'
    <2>1. UsedInv'
      BY <1>0, <1>7, RemoveBooks
    <2>2. status' \in {status, "exit"}
      BY <1>7 DEF cache_policy_remove_file
    <2>3. QED
      BY <1>0, <2>1, <2>2 DEF EvictReturns
  <1>8. CASE cache_policy_select_victim_for_eviction
    BY <1>0, <1>1, <1>8 DEF cache_policy_select_victim_for_eviction, EvictReturns
  <1>9. CASE cache_policy_evict_if_needed
    <2>1. g_fsdax_used_bytes <= FsdaxCapacity
      BY <1>0 DEF UsedInv
    <2>2. QED
      BY <1>0, <1>1, <1>9, <2>1 DEF cache_policy_evict_if_needed, EvictReturns
  <1>10. CASE Stopped \/ UNCHANGED vars
    BY <1>0, <1>1, <1>10 DEF Stopped, vars, usage, EvictReturns
  <1>11. QED
    BY <1>2, <1>3, <1>4, <1>5, <1>6, <1>7, <1>8, <1>9, <1>10 DEF Next

\* For sizes that cannot wrap: the invariant of every run of the policy.
THEOREM Invariance == ASSUME NoWrap PROVE Spec => []IInv
  <1>1. Init => IInv
    <2> SUFFICES ASSUME Init PROVE IInv
      OBVIOUS
    <2>1. BaseInv
      BY BaseInit
    <2>2. InTier("FSDAX") = {} /\ InTier("SSD") = {}
      BY DEF Init, InTier, Registered
    <2>3. OnTier("FSDAX") = 0 /\ OnTier("SSD") = 0
      BY <2>2, LoadEmpty DEF OnTier
    <2>4. UsedInv
      BY <2>3, PolicyAssumption DEF Init, UsedInv
    <2>5. QED
      BY <2>1, <2>4 DEF IInv, Init, EvictReturns
  <1>2. IInv /\ [Next]_vars => IInv'
    <2> SUFFICES ASSUME IInv, [Next]_vars PROVE IInv'
      OBVIOUS
    <2>1. BaseInv'
      BY BaseStep DEF IInv
    <2>2. UsedInv' /\ EvictReturns'
      BY BooksStep
    <2>3. QED
      BY <2>1, <2>2 DEF IInv
  <1>3. QED
    BY <1>1, <1>2, PTL DEF Spec

-----------------------------------------------------------------------------
(* The properties of CachePolicy.                                          *)

\* The map, the used bytes and the results of the calls have their types, for
\* every set of paths and all sizes, wrapping ones too.
THEOREM TypeCorrect == Spec => []TypeOK
  <1>1. BaseInv => TypeOK
    BY DEF BaseInv
  <1>2. QED
    BY <1>1, BaseInvariance, PTL

\* The loop of cache_policy_select_victim_for_eviction returns the least accessed
\* closed file in persistent memory, the first such in path order, or "" if there
\* is none: for any number of files, wrapping sizes too.
THEOREM VictimCorrect == Spec => []VictimIsLeast
  <1>1. BaseInv => VictimIsLeast
    BY DEF BaseInv
  <1>2. QED
    BY <1>1, BaseInvariance, PTL

\* For sizes that cannot wrap, the used bytes of a tier are the sizes of the files
\* on it and never exceed its capacity, through any placements, moves and removals.
THEOREM CapacityCorrect == ASSUME NoWrap PROVE Spec => []CapacityRespected
  <1>1. IInv => CapacityRespected
    <2> SUFFICES ASSUME IInv PROVE CapacityRespected
      OBVIOUS
    <2>1. BaseInv /\ UsedInv
      BY DEF IInv
    <2>2. \A t \in Tiers : BytesIn(t) = OnTier(t)
      BY <2>1, TierFacts, BytesAreLoad DEF OnTier
    <2>3. BytesIn("FSDAX") = OnTier("FSDAX") /\ BytesIn("SSD") = OnTier("SSD")
      BY <2>2 DEF Tiers
    <2>4. QED
      BY <2>1, <2>3 DEF UsedInv, CapacityRespected
  <1>2. QED
    BY <1>1, Invariance, PTL

\* For sizes that cannot wrap, cache_policy_evict_if_needed never reaches the call
\* that locks g_cacheMutex a second time.
THEOREM EvictCorrect == ASSUME NoWrap PROVE Spec => []EvictReturns
  <1>1. IInv => EvictReturns
    BY DEF IInv
  <1>2. QED
    BY <1>1, Invariance, PTL
=============================================================================
