------------------------------ MODULE SumLaws ------------------------------
(***************************************************************************)
(* Laws of SumFunctionOnSet(f, S), the sum of f[x] for x in a finite set   *)
(* S, for integer functions; of quotients; of extreme members; of orders   *)
(* and recursions.                                                         *)
(***************************************************************************)
EXTENDS Integers, Functions, FiniteSetsExt, FiniteSetTheorems, TLAPS

-----------------------------------------------------------------------------
(***************************************************************************)
(* Induction by a smallest counterexample: the sets of counterexamples     *)
(* below are sets of naturals, or of subsets of a finite set.              *)
(***************************************************************************)
LEMMA LeastNatural ==
    ASSUME NEW T \in SUBSET Nat, T # {}
    PROVE  \E n \in T : \A m \in T : n <= m
<1>1. PICK n \in T : \A m \in T : ~ (<<m, n>> \in OpToRel(<, Nat))
  BY NatLessThanWellFounded, WFMin
<1>2. \A m \in T : ~ (m < n)
  BY <1>1 DEF OpToRel
<1> QED BY <1>2

LEMMA SmallestSubset ==
    ASSUME NEW S, IsFiniteSet(S), NEW B \in SUBSET SUBSET S, B # {}
    PROVE  \E s \in B : \A t \in B : t \subseteq s => t = s
<1>1. IsWellFoundedOn(StrictSubsetOrdering(S), SUBSET S)
  BY FS_FiniteSubsetsOfFinite, FS_StrictSubsetOrderingWellFounded
<1>2. PICK s \in B : \A t \in B : ~ (<<t, s>> \in StrictSubsetOrdering(S))
  BY <1>1, WFMin
<1>3. ASSUME NEW t \in B, t \subseteq s, t # s PROVE FALSE
  BY <1>2, <1>3 DEF StrictSubsetOrdering
<1> QED BY <1>3

-----------------------------------------------------------------------------
(***************************************************************************)
(* The fold behind the sum is a recursive function.  It exists, and its    *)
(* values do not depend on the set it was built for.                       *)
(***************************************************************************)
\* The element the fold takes first.
First(S) == CHOOSE x \in S : TRUE

\* g is the table of the sums of f over the members of D.
IsTable(g, f, D) ==
    g = [s \in D |-> IF s = {} THEN 0 ELSE f[First(s)] + g[s \ {First(s)}]]

LEMMA SumByTable ==
    ASSUME NEW f, NEW S
    PROVE  SumFunctionOnSet(f, S) = (CHOOSE g : IsTable(g, f, SUBSET S))[S]
BY DEF SumFunctionOnSet, FoldFunctionOnSet, MapThenFoldSet, IsTable, First

LEMMA FirstIsMember == \A S : S # {} => First(S) \in S
BY DEF First

LEMMA TableExists ==
    ASSUME NEW f, NEW S, IsFiniteSet(S)
    PROVE  \E g : IsTable(g, f, SUBSET S)
<1> DEFINE Small(n) == {s \in SUBSET S : Cardinality(s) <= n}
           Bad == {n \in Nat : ~ \E g : IsTable(g, f, Small(n))}
<1>1. \A s \in SUBSET S : /\ IsFiniteSet(s) /\ Cardinality(s) \in Nat
                          /\ Cardinality(s) <= Cardinality(S)
                          /\ Cardinality(s) = 0 <=> s = {}
  BY FS_Subset, FS_CardinalityType, FS_EmptySet
<1>2. \A s \in SUBSET S : s # {} =>
          /\ s \ {First(s)} \in SUBSET S
          /\ Cardinality(s \ {First(s)}) = Cardinality(s) - 1
  BY <1>1, FirstIsMember, FS_RemoveElement
<1>3. 0 \notin Bad
  <2> DEFINE g == [s \in Small(0) |-> 0]
  <2>1. \A s \in Small(0) : s = {}
    BY <1>1
  <2>2. IsTable(g, f, Small(0))
    BY <2>1 DEF IsTable
  <2> QED BY <2>2
<1>4. ASSUME NEW n \in Nat, n \notin Bad PROVE n + 1 \notin Bad
  <2>1. PICK g : IsTable(g, f, Small(n))
    BY <1>4
  <2> DEFINE h == [s \in Small(n + 1) |->
                     IF s = {} THEN 0 ELSE f[First(s)] + g[s \ {First(s)}]]
  <2>2. \A s \in Small(n) : h[s] = g[s]
    <3>1. Small(n) \subseteq Small(n + 1)
      BY <1>1
    <3> HIDE DEF Small
    <3> QED BY <2>1, <3>1 DEF IsTable
  <2>3. \A s \in Small(n + 1) : s # {} => s \ {First(s)} \in Small(n)
    BY <1>1, <1>2
  <2>4. IsTable(h, f, Small(n + 1))
    <3> HIDE DEF Small
    <3> QED BY <2>2, <2>3 DEF IsTable
  <2> QED BY <2>4
<1> HIDE DEF Bad
<1>5. Bad = {}
  <2> SUFFICES ASSUME Bad # {} PROVE FALSE
    OBVIOUS
  <2>1. Bad \subseteq Nat
    BY DEF Bad
  <2>2. PICK n \in Bad : \A m \in Bad : n <= m
    BY <2>1, LeastNatural
  <2>3. n - 1 \in Nat /\ n - 1 \notin Bad
    BY <1>3, <2>1, <2>2
  <2> QED BY <1>4, <2>1, <2>3
<1>6. Cardinality(S) \in Nat /\ SUBSET S = Small(Cardinality(S))
  BY <1>1
<1> QED BY <1>5, <1>6 DEF Bad

\* The table a sum is read from.
TableOf(f, S) == CHOOSE g : IsTable(g, f, SUBSET S)

LEMMA TableFacts ==
    ASSUME NEW f, NEW S, IsFiniteSet(S)
    PROVE  IsTable(TableOf(f, S), f, SUBSET S)
BY TableExists DEF TableOf

LEMMA TablesAgree ==
    ASSUME NEW f, NEW S, IsFiniteSet(S), NEW s \in SUBSET S
    PROVE  TableOf(f, S)[s] = SumFunctionOnSet(f, s)
<1> DEFINE g == TableOf(f, S)
           h == TableOf(f, s)
           Bad == {u \in SUBSET s : g[u] # h[u]}
<1>1. IsTable(g, f, SUBSET S) /\ IsTable(h, f, SUBSET s) /\ IsFiniteSet(s)
  BY FS_Subset, TableFacts
<1>2. SumFunctionOnSet(f, s) = h[s]
  BY SumByTable DEF TableOf
<1> HIDE DEF g, h
<1>3. ASSUME Bad # {} PROVE FALSE
  <2>1. PICK u \in Bad : \A t \in Bad : t \subseteq u => t = u
    <3>1. Bad \in SUBSET SUBSET s
      OBVIOUS
    <3> HIDE DEF Bad
    <3> QED BY <1>1, <1>3, <3>1, SmallestSubset
  <2>2. u \in SUBSET s /\ u \in SUBSET S /\ g[u] # h[u]
    OBVIOUS
  <2>3. /\ g[u] = IF u = {} THEN 0 ELSE f[First(u)] + g[u \ {First(u)}]
        /\ h[u] = IF u = {} THEN 0 ELSE f[First(u)] + h[u \ {First(u)}]
    BY <1>1, <2>2 DEF IsTable
  <2>4. u # {} /\ u \ {First(u)} # u /\ u \ {First(u)} \subseteq u
    BY <2>2, <2>3, FirstIsMember
  <2>5. u \ {First(u)} \notin Bad /\ u \ {First(u)} \in SUBSET s
    BY <2>1, <2>2, <2>4
  <2> QED BY <2>2, <2>3, <2>4, <2>5
<1> QED BY <1>2, <1>3 DEF g

-----------------------------------------------------------------------------
(***************************************************************************)
(* The laws.                                                               *)
(***************************************************************************)
LEMMA SumEmpty == ASSUME NEW f PROVE SumFunctionOnSet(f, {}) = 0
<1>1. IsFiniteSet({})
  BY FS_EmptySet
<1>2. IsTable(TableOf(f, {}), f, SUBSET {})
  BY <1>1, TableFacts
<1>3. SumFunctionOnSet(f, {}) = TableOf(f, {})[{}]
  BY SumByTable DEF TableOf
<1> QED BY <1>2, <1>3 DEF IsTable

LEMMA SumFirst ==
    ASSUME NEW f, NEW S, IsFiniteSet(S), S # {}
    PROVE  SumFunctionOnSet(f, S)
             = f[First(S)] + SumFunctionOnSet(f, S \ {First(S)})
<1>1. SumFunctionOnSet(f, S) = TableOf(f, S)[S]
  BY SumByTable DEF TableOf
<1>2. TableOf(f, S)[S \ {First(S)}] = SumFunctionOnSet(f, S \ {First(S)})
  BY TablesAgree
<1>3. TableOf(f, S)[S] = f[First(S)] + TableOf(f, S)[S \ {First(S)}]
  <2>1. IsTable(TableOf(f, S), f, SUBSET S) /\ S \in SUBSET S
    BY TableFacts
  <2> QED BY <2>1 DEF IsTable
<1> QED BY <1>1, <1>2, <1>3

\* A set of subsets of S without the empty one: a smallest member leaves the
\* set when its first element is taken away.
LEMMA SmallestWithoutFirst ==
    ASSUME NEW S, IsFiniteSet(S), NEW B \in SUBSET SUBSET S, B # {}, {} \notin B
    PROVE  \E s \in B : /\ IsFiniteSet(s) /\ s # {} /\ First(s) \in s
                        /\ s \ {First(s)} \in SUBSET S
                        /\ s \ {First(s)} \notin B
<1>1. PICK s \in B : \A t \in B : t \subseteq s => t = s
  BY SmallestSubset
<1>2. IsFiniteSet(s) /\ s # {} /\ First(s) \in s
  BY FirstIsMember, FS_Subset
<1> QED BY <1>1, <1>2

LEMMA SumInt ==
    ASSUME NEW S, IsFiniteSet(S), NEW f, \A x \in S : f[x] \in Int
    PROVE  SumFunctionOnSet(f, S) \in Int
<1> DEFINE Bad == {s \in SUBSET S : SumFunctionOnSet(f, s) \notin Int}
<1>1. {} \notin Bad /\ Bad \in SUBSET SUBSET S
  BY SumEmpty
<1>2. ASSUME Bad # {} PROVE FALSE
  <2>1. PICK s \in Bad : /\ IsFiniteSet(s) /\ s # {} /\ First(s) \in s
                         /\ s \ {First(s)} \in SUBSET S
                         /\ s \ {First(s)} \notin Bad
    <3> HIDE DEF Bad
    <3> QED BY <1>1, <1>2, SmallestWithoutFirst
  <2>2. SumFunctionOnSet(f, s)
          = f[First(s)] + SumFunctionOnSet(f, s \ {First(s)})
    BY <2>1, SumFirst
  <2> QED BY <2>1, <2>2
<1> QED BY <1>2

LEMMA SumNat ==
    ASSUME NEW S, IsFiniteSet(S), NEW f, \A x \in S : f[x] \in Nat
    PROVE  SumFunctionOnSet(f, S) \in Nat
<1> DEFINE Bad == {s \in SUBSET S : SumFunctionOnSet(f, s) \notin Nat}
<1>1. {} \notin Bad /\ Bad \in SUBSET SUBSET S
  BY SumEmpty
<1>2. ASSUME Bad # {} PROVE FALSE
  <2>1. PICK s \in Bad : /\ IsFiniteSet(s) /\ s # {} /\ First(s) \in s
                         /\ s \ {First(s)} \in SUBSET S
                         /\ s \ {First(s)} \notin Bad
    <3> HIDE DEF Bad
    <3> QED BY <1>1, <1>2, SmallestWithoutFirst
  <2>2. SumFunctionOnSet(f, s)
          = f[First(s)] + SumFunctionOnSet(f, s \ {First(s)})
    BY <2>1, SumFirst
  <2> QED BY <2>1, <2>2
<1> QED BY <1>2

\* Any element may be taken first.
LEMMA SumPick ==
    ASSUME NEW S, IsFiniteSet(S), NEW f, \A x \in S : f[x] \in Int, NEW x \in S
    PROVE  SumFunctionOnSet(f, S) = f[x] + SumFunctionOnSet(f, S \ {x})
<1> DEFINE Law(s, y) ==
             SumFunctionOnSet(f, s) = f[y] + SumFunctionOnSet(f, s \ {y})
           Bad == {s \in SUBSET S : \E y \in s : ~ Law(s, y)}
<1>1. ASSUME Bad # {} PROVE FALSE
  <2>1. PICK s \in Bad : \A t \in Bad : t \subseteq s => t = s
    <3>1. Bad \in SUBSET SUBSET S
      OBVIOUS
    <3> HIDE DEF Bad
    <3> QED BY <1>1, <3>1, SmallestSubset
  <2>2. PICK y \in s : ~ Law(s, y)
    OBVIOUS
  <2> DEFINE z == First(s)
  <2>3. s \in SUBSET S /\ IsFiniteSet(s) /\ y \in S /\ z \in s /\ z \in S
    BY FirstIsMember, FS_Subset
  <2>4. Law(s, z)
    BY <2>3, SumFirst
  <2> HIDE DEF z
  <2>5. y # z
    BY <2>2, <2>4
  <2>6. Law(s \ {y}, z)
    <3>1. s \ {y} \notin Bad /\ s \ {y} \in SUBSET S /\ z \in s \ {y}
      BY <2>1, <2>3, <2>5
    <3> HIDE DEF Law
    <3> QED BY <3>1
  <2>7. Law(s \ {z}, y)
    <3>1. s \ {z} \notin Bad /\ s \ {z} \in SUBSET S /\ y \in s \ {z}
      BY <2>1, <2>3, <2>5
    <3> HIDE DEF Law
    <3> QED BY <3>1
  <2> DEFINE rest == SumFunctionOnSet(f, (s \ {y}) \ {z})
  <2>8. (s \ {z}) \ {y} = (s \ {y}) \ {z}
    OBVIOUS
  <2>9. /\ SumFunctionOnSet(f, s) = f[z] + SumFunctionOnSet(f, s \ {z})
        /\ SumFunctionOnSet(f, s \ {y}) = f[z] + rest
        /\ SumFunctionOnSet(f, s \ {z}) = f[y] + rest
    BY <2>4, <2>6, <2>7, <2>8
  <2>10. f[y] \in Int /\ f[z] \in Int /\ rest \in Int
    BY <2>3, SumInt, FS_Subset
  <2>11. SumFunctionOnSet(f, s) = f[y] + SumFunctionOnSet(f, s \ {y})
    <3> HIDE DEF rest
    <3> QED BY <2>9, <2>10
  <2> QED BY <2>2, <2>11
<1> QED BY <1>1

\* The sum depends on the summands only.
LEMMA SumSame ==
    ASSUME NEW S, IsFiniteSet(S), NEW f, NEW g, \A x \in S : f[x] = g[x]
    PROVE  SumFunctionOnSet(f, S) = SumFunctionOnSet(g, S)
<1> DEFINE Bad == {s \in SUBSET S :
                     SumFunctionOnSet(f, s) # SumFunctionOnSet(g, s)}
<1>1. {} \notin Bad /\ Bad \in SUBSET SUBSET S
  BY SumEmpty
<1>2. ASSUME Bad # {} PROVE FALSE
  <2>1. PICK s \in Bad : /\ IsFiniteSet(s) /\ s # {} /\ First(s) \in s
                         /\ s \ {First(s)} \in SUBSET S
                         /\ s \ {First(s)} \notin Bad
    <3> HIDE DEF Bad
    <3> QED BY <1>1, <1>2, SmallestWithoutFirst
  <2>2. /\ SumFunctionOnSet(f, s)
             = f[First(s)] + SumFunctionOnSet(f, s \ {First(s)})
        /\ SumFunctionOnSet(g, s)
             = g[First(s)] + SumFunctionOnSet(g, s \ {First(s)})
    BY <2>1, SumFirst
  <2> QED BY <2>1, <2>2
<1> QED BY <1>2

LEMMA SumPlus ==
    ASSUME NEW S, IsFiniteSet(S), NEW f, NEW g, NEW h,
           \A x \in S : f[x] \in Int /\ g[x] \in Int /\ h[x] = f[x] + g[x]
    PROVE  SumFunctionOnSet(h, S)
             = SumFunctionOnSet(f, S) + SumFunctionOnSet(g, S)
<1> DEFINE Bad == {s \in SUBSET S :
                     SumFunctionOnSet(h, s)
                       # SumFunctionOnSet(f, s) + SumFunctionOnSet(g, s)}
<1>1. {} \notin Bad /\ Bad \in SUBSET SUBSET S
  BY SumEmpty
<1>2. ASSUME Bad # {} PROVE FALSE
  <2>1. PICK s \in Bad : /\ IsFiniteSet(s) /\ s # {} /\ First(s) \in s
                         /\ s \ {First(s)} \in SUBSET S
                         /\ s \ {First(s)} \notin Bad
    <3> HIDE DEF Bad
    <3> QED BY <1>1, <1>2, SmallestWithoutFirst
  <2> DEFINE y == First(s)
             F == SumFunctionOnSet(f, s \ {y})
             G == SumFunctionOnSet(g, s \ {y})
  <2>2. /\ SumFunctionOnSet(f, s) = f[y] + F
        /\ SumFunctionOnSet(g, s) = g[y] + G
        /\ SumFunctionOnSet(h, s) = h[y] + SumFunctionOnSet(h, s \ {y})
    BY <2>1, SumFirst
  <2>3. SumFunctionOnSet(h, s \ {y}) = F + G
    BY <2>1
  <2>4. /\ f[y] \in Int /\ g[y] \in Int /\ h[y] = f[y] + g[y]
        /\ F \in Int /\ G \in Int
    BY <2>1, SumInt, FS_Subset
  <2>5. SumFunctionOnSet(h, s) # SumFunctionOnSet(f, s) + SumFunctionOnSet(g, s)
    OBVIOUS
  <2> HIDE DEF y, F, G, Bad
  <2> QED BY <2>2, <2>3, <2>4, <2>5
<1> QED BY <1>2

LEMMA SumMonotone ==
    ASSUME NEW S, IsFiniteSet(S), NEW f, NEW g,
           \A x \in S : f[x] \in Int /\ g[x] \in Int /\ f[x] <= g[x]
    PROVE  SumFunctionOnSet(f, S) <= SumFunctionOnSet(g, S)
<1> DEFINE d == [x \in S |-> g[x] - f[x]]
<1>1. SumFunctionOnSet(d, S) \in Nat
  <2>1. \A x \in S : d[x] \in Nat
    OBVIOUS
  <2> HIDE DEF d
  <2> QED BY <2>1, SumNat
<1>2. SumFunctionOnSet(g, S) = SumFunctionOnSet(f, S) + SumFunctionOnSet(d, S)
  <2>1. \A x \in S : f[x] \in Int /\ d[x] \in Int /\ g[x] = f[x] + d[x]
    OBVIOUS
  <2> HIDE DEF d
  <2> QED BY <2>1, SumPlus
<1>3. SumFunctionOnSet(f, S) \in Int
  BY SumInt
<1> HIDE DEF d
<1> QED BY <1>1, <1>2, <1>3

\* Nothing falls and one value rises by c: the sum rises by c at least.
LEMMA SumRaised ==
    ASSUME NEW S, IsFiniteSet(S), NEW f, NEW g,
           \A x \in S : f[x] \in Int /\ g[x] \in Int,
           NEW p \in S, NEW c \in Int, f[p] + c <= g[p],
           \A x \in S \ {p} : f[x] <= g[x]
    PROVE  SumFunctionOnSet(f, S) + c <= SumFunctionOnSet(g, S)
<1>1. IsFiniteSet(S \ {p})
  BY FS_Subset
<1>2. SumFunctionOnSet(f, S \ {p}) <= SumFunctionOnSet(g, S \ {p})
  BY <1>1, SumMonotone
<1>3. /\ SumFunctionOnSet(f, S) = f[p] + SumFunctionOnSet(f, S \ {p})
      /\ SumFunctionOnSet(g, S) = g[p] + SumFunctionOnSet(g, S \ {p})
  BY SumPick
<1>4. SumFunctionOnSet(f, S \ {p}) \in Int /\ SumFunctionOnSet(g, S \ {p}) \in Int
  BY <1>1, SumInt
<1> QED BY <1>2, <1>3, <1>4

\* What is zero outside U adds nothing.
LEMMA SumRestrict ==
    ASSUME NEW S, IsFiniteSet(S), NEW f, NEW U \in SUBSET S,
           \A x \in U : f[x] \in Int, \A x \in S \ U : f[x] = 0
    PROVE  SumFunctionOnSet(f, S) = SumFunctionOnSet(f, U)
<1> DEFINE Bad == {s \in SUBSET S :
                     SumFunctionOnSet(f, s) # SumFunctionOnSet(f, s \cap U)}
<1>1. {} \notin Bad /\ Bad \in SUBSET SUBSET S
  <2>1. {} \cap U = {}
    OBVIOUS
  <2> QED BY <2>1
<1>2. ASSUME Bad # {} PROVE FALSE
  <2>1. PICK s \in Bad : /\ IsFiniteSet(s) /\ s # {} /\ First(s) \in s
                         /\ s \ {First(s)} \in SUBSET S
                         /\ s \ {First(s)} \notin Bad
    <3> HIDE DEF Bad
    <3> QED BY <1>1, <1>2, SmallestWithoutFirst
  <2> DEFINE y == First(s)
             rest == s \ {y}
  <2>2. /\ SumFunctionOnSet(f, s) = f[y] + SumFunctionOnSet(f, rest)
        /\ SumFunctionOnSet(f, rest) = SumFunctionOnSet(f, rest \cap U)
    BY <2>1, SumFirst
  <2>3. /\ y \in s /\ s \in SUBSET S /\ IsFiniteSet(s \cap U)
        /\ \A x \in s \cap U : f[x] \in Int
        /\ IsFiniteSet(rest \cap U) /\ \A x \in rest \cap U : f[x] \in Int
    BY <2>1, FS_Subset
  <2>4. SumFunctionOnSet(f, rest \cap U) \in Int
    BY <2>3, SumInt
  <2>5. SumFunctionOnSet(f, s) # SumFunctionOnSet(f, s \cap U)
    OBVIOUS
  <2>6. CASE y \in U
    <3>1. (s \cap U) \ {y} = rest \cap U /\ y \in s \cap U
      BY <2>3, <2>6
    <3>2. SumFunctionOnSet(f, s \cap U)
            = f[y] + SumFunctionOnSet(f, (s \cap U) \ {y})
      BY <2>3, <3>1, SumPick
    <3> QED BY <2>2, <2>5, <3>1, <3>2
  <2>7. CASE y \notin U
    <3>1. s \cap U = rest \cap U /\ f[y] = 0
      BY <2>3, <2>7
    <3> HIDE DEF y, rest
    <3> QED BY <2>2, <2>4, <2>5, <3>1
  <2> QED BY <2>6, <2>7
<1>3. S \cap U = U
  OBVIOUS
<1> QED BY <1>2, <1>3

\* The sum over a part is no larger when nothing is negative.
LEMMA SumOfPart ==
    ASSUME NEW S, IsFiniteSet(S), NEW f, \A x \in S : f[x] \in Nat,
           NEW U \in SUBSET S
    PROVE  SumFunctionOnSet(f, U) <= SumFunctionOnSet(f, S)
<1> DEFINE g == [x \in S |-> IF x \in U THEN f[x] ELSE 0]
<1>1. /\ \A x \in S : g[x] \in Int /\ f[x] \in Int /\ g[x] <= f[x]
      /\ \A x \in U : g[x] \in Int /\ g[x] = f[x]
      /\ \A x \in S \ U : g[x] = 0
  OBVIOUS
<1> HIDE DEF g
<1>2. SumFunctionOnSet(g, S) <= SumFunctionOnSet(f, S)
  BY <1>1, SumMonotone
<1>3. SumFunctionOnSet(g, S) = SumFunctionOnSet(g, U)
  BY <1>1, SumRestrict
<1>4. SumFunctionOnSet(g, U) = SumFunctionOnSet(f, U)
  BY <1>1, SumSame, FS_Subset
<1> QED BY <1>2, <1>3, <1>4

\* The sum when one summand joins.
LEMMA SumJoin ==
    ASSUME NEW S, IsFiniteSet(S), NEW x, NEW f,
           \A y \in S \cup {x} : f[y] \in Int
    PROVE  SumFunctionOnSet(f, S \cup {x})
             = IF x \in S THEN SumFunctionOnSet(f, S)
               ELSE SumFunctionOnSet(f, S) + f[x]
<1>1. CASE x \in S
  <2>1. S \cup {x} = S
    BY <1>1
  <2> QED BY <1>1, <2>1
<1>2. CASE x \notin S
  <2>1. (S \cup {x}) \ {x} = S /\ IsFiniteSet(S \cup {x})
    BY <1>2, FS_AddElement
  <2>2. SumFunctionOnSet(f, S \cup {x}) = f[x] + SumFunctionOnSet(f, S)
    <3>1. SumFunctionOnSet(f, S \cup {x})
            = f[x] + SumFunctionOnSet(f, (S \cup {x}) \ {x})
      BY <2>1, SumPick
    <3> QED BY <2>1, <3>1
  <2>3. f[x] \in Int /\ SumFunctionOnSet(f, S) \in Int
    BY SumInt
  <2>4. SumFunctionOnSet(f, S \cup {x}) = SumFunctionOnSet(f, S) + f[x]
    BY <2>2, <2>3
  <2> QED BY <1>2, <2>4
<1> QED BY <1>1, <1>2

\* Two disjoint sets.
LEMMA SumUnion ==
    ASSUME NEW S, IsFiniteSet(S), NEW T, IsFiniteSet(T), S \cap T = {},
           NEW f, \A x \in S \cup T : f[x] \in Int
    PROVE  SumFunctionOnSet(f, S \cup T)
             = SumFunctionOnSet(f, S) + SumFunctionOnSet(f, T)
<1> DEFINE U == S \cup T
           g == [x \in U |-> IF x \in S THEN f[x] ELSE 0]
           h == [x \in U |-> IF x \in T THEN f[x] ELSE 0]
<1>1. IsFiniteSet(U)
  BY FS_Union
<1>2. /\ \A x \in U : g[x] \in Int /\ h[x] \in Int /\ f[x] = g[x] + h[x]
      /\ \A x \in S : g[x] \in Int /\ g[x] = f[x]
      /\ \A x \in T : h[x] \in Int /\ h[x] = f[x]
      /\ \A x \in U \ S : g[x] = 0
      /\ \A x \in U \ T : h[x] = 0
  OBVIOUS
<1>3. S \in SUBSET U /\ T \in SUBSET U
  OBVIOUS
<1> HIDE DEF U, g, h
<1>4. SumFunctionOnSet(f, U) = SumFunctionOnSet(g, U) + SumFunctionOnSet(h, U)
  BY <1>1, <1>2, SumPlus
<1>5. /\ SumFunctionOnSet(g, U) = SumFunctionOnSet(g, S)
      /\ SumFunctionOnSet(h, U) = SumFunctionOnSet(h, T)
  BY <1>1, <1>2, <1>3, SumRestrict
<1>6. /\ SumFunctionOnSet(g, S) = SumFunctionOnSet(f, S)
      /\ SumFunctionOnSet(h, T) = SumFunctionOnSet(f, T)
  BY <1>2, SumSame
<1> QED BY <1>4, <1>5, <1>6 DEF U

\* A constant factor.
LEMMA SumScale ==
    ASSUME NEW S, IsFiniteSet(S), NEW c \in Int, NEW f, NEW g,
           \A x \in S : f[x] \in Int /\ g[x] = c * f[x]
    PROVE  SumFunctionOnSet(g, S) = c * SumFunctionOnSet(f, S)
<1> DEFINE Bad == {s \in SUBSET S :
                     SumFunctionOnSet(g, s) # c * SumFunctionOnSet(f, s)}
<1>1. {} \notin Bad /\ Bad \in SUBSET SUBSET S
  BY SumEmpty
<1>2. ASSUME Bad # {} PROVE FALSE
  <2>1. PICK s \in Bad : /\ IsFiniteSet(s) /\ s # {} /\ First(s) \in s
                         /\ s \ {First(s)} \in SUBSET S
                         /\ s \ {First(s)} \notin Bad
    <3> HIDE DEF Bad
    <3> QED BY <1>1, <1>2, SmallestWithoutFirst
  <2> DEFINE y == First(s)
             F == SumFunctionOnSet(f, s \ {y})
  <2>2. /\ SumFunctionOnSet(f, s) = f[y] + F
        /\ SumFunctionOnSet(g, s) = g[y] + SumFunctionOnSet(g, s \ {y})
    BY <2>1, SumFirst
  <2>3. SumFunctionOnSet(g, s \ {y}) = c * F
    BY <2>1
  <2>4. f[y] \in Int /\ g[y] = c * f[y] /\ F \in Int
    BY <2>1, SumInt, FS_Subset
  <2>5. SumFunctionOnSet(g, s) # c * SumFunctionOnSet(f, s)
    OBVIOUS
  <2> HIDE DEF y, F, Bad
  <2>6. c * f[y] + c * F = c * (f[y] + F)
    BY <2>4
  <2> QED BY <2>2, <2>3, <2>4, <2>5, <2>6
<1> QED BY <1>2

\* A sum of ones counts.
LEMMA SumOnes ==
    ASSUME NEW S, IsFiniteSet(S), NEW f, \A x \in S : f[x] = 1
    PROVE  SumFunctionOnSet(f, S) = Cardinality(S)
<1> DEFINE Bad == {s \in SUBSET S : SumFunctionOnSet(f, s) # Cardinality(s)}
<1>1. {} \notin Bad /\ Bad \in SUBSET SUBSET S
  BY SumEmpty, FS_EmptySet
<1>2. ASSUME Bad # {} PROVE FALSE
  <2>1. PICK s \in Bad : /\ IsFiniteSet(s) /\ s # {} /\ First(s) \in s
                         /\ s \ {First(s)} \in SUBSET S
                         /\ s \ {First(s)} \notin Bad
    <3> HIDE DEF Bad
    <3> QED BY <1>1, <1>2, SmallestWithoutFirst
  <2>2. SumFunctionOnSet(f, s)
          = f[First(s)] + SumFunctionOnSet(f, s \ {First(s)})
    BY <2>1, SumFirst
  <2>3. /\ Cardinality(s \ {First(s)}) = Cardinality(s) - 1
        /\ Cardinality(s) \in Nat
    BY <2>1, FS_RemoveElement, FS_CardinalityType
  <2>4. f[First(s)] = 1
    BY <2>1
  <2> QED BY <2>1, <2>2, <2>3, <2>4
<1> QED BY <1>2

\* A sum of positive numbers is positive.
LEMMA SumPositive ==
    ASSUME NEW S, IsFiniteSet(S), S # {}, NEW f, \A x \in S : f[x] \in Nat \ {0}
    PROVE  SumFunctionOnSet(f, S) \in Nat \ {0}
<1>1. First(S) \in S
  BY FirstIsMember
<1>2. SumFunctionOnSet(f, S)
        = f[First(S)] + SumFunctionOnSet(f, S \ {First(S)})
  BY SumFirst
<1>3. SumFunctionOnSet(f, S \ {First(S)}) \in Nat
  BY SumNat, FS_Subset
<1> QED BY <1>1, <1>2, <1>3

\* The sum over the image of a set under an injection.
LEMMA SumImage ==
    ASSUME NEW S, IsFiniteSet(S), NEW m,
           \A x, y \in S : m[x] = m[y] => x = y,
           NEW f, NEW g, \A x \in S : f[x] \in Int /\ g[m[x]] = f[x]
    PROVE  SumFunctionOnSet(g, {m[x] : x \in S}) = SumFunctionOnSet(f, S)
<1> DEFINE Image(s) == {m[x] : x \in s}
           Bad == {s \in SUBSET S :
                     SumFunctionOnSet(g, Image(s)) # SumFunctionOnSet(f, s)}
<1>1. {} \notin Bad /\ Bad \in SUBSET SUBSET S
  <2>1. Image({}) = {}
    OBVIOUS
  <2> QED BY <2>1, SumEmpty
<1>2. ASSUME Bad # {} PROVE FALSE
  <2>1. PICK s \in Bad : /\ IsFiniteSet(s) /\ s # {} /\ First(s) \in s
                         /\ s \ {First(s)} \in SUBSET S
                         /\ s \ {First(s)} \notin Bad
    <3> HIDE DEF Bad
    <3> QED BY <1>1, <1>2, SmallestWithoutFirst
  <2> DEFINE y == First(s)
             rest == s \ {y}
  <2>2. s \in SUBSET S /\ y \in s /\ rest \in SUBSET S
    BY <2>1
  <2>3. SumFunctionOnSet(f, s) = f[y] + SumFunctionOnSet(f, rest)
    BY <2>1, SumFirst
  <2>4. SumFunctionOnSet(g, Image(rest)) = SumFunctionOnSet(f, rest)
    BY <2>1
  <2>5. SumFunctionOnSet(g, Image(s)) # SumFunctionOnSet(f, s)
    BY <2>1
  <2> HIDE DEF y, Bad
  <2>6. IsFiniteSet(Image(s)) /\ \A z \in Image(s) : g[z] \in Int
    <3> DEFINE h == [x \in s |-> m[x]]
    <3>1. h \in Surjection(s, Image(s))
      BY DEF Surjection
    <3>2. IsFiniteSet(Image(s))
      <4> HIDE DEF Image, h
      <4> QED BY <2>1, <3>1, FS_Surjection
    <3> QED BY <2>2, <3>2
  <2>7. Image(s) \ {m[y]} = Image(rest) /\ m[y] \in Image(s)
    BY <2>2
  <2>8. SumFunctionOnSet(g, Image(s))
          = g[m[y]] + SumFunctionOnSet(g, Image(s) \ {m[y]})
    <3> HIDE DEF Image
    <3> QED BY <2>6, <2>7, SumPick
  <2>9. g[m[y]] = f[y]
    BY <2>2
  <2> HIDE DEF Image, rest
  <2> QED BY <2>3, <2>4, <2>5, <2>7, <2>8, <2>9
<1> QED BY <1>2

-----------------------------------------------------------------------------
(***************************************************************************)
(* Finite sets of integers have a largest and a smallest member.           *)
(***************************************************************************)
LEMMA ImageIsFinite ==
    ASSUME NEW S, IsFiniteSet(S), NEW m
    PROVE  IsFiniteSet({m[x] : x \in S})
<1> DEFINE T == {m[x] : x \in S}
           h == [x \in S |-> m[x]]
<1>1. h \in Surjection(S, T)
  BY DEF Surjection
<1> HIDE DEF T, h
<1>2. IsFiniteSet(T)
  BY <1>1, FS_Surjection
<1> QED BY <1>2 DEF T

LEMMA LargestInteger ==
    ASSUME NEW S \in SUBSET Int, IsFiniteSet(S), S # {}
    PROVE  \E x \in S : \A y \in S : x >= y
<1> DEFINE Bad == {s \in SUBSET S : s # {} /\ ~ \E x \in s : \A y \in s : x >= y}
<1>1. {} \notin Bad /\ Bad \in SUBSET SUBSET S
  OBVIOUS
<1>2. ASSUME Bad # {} PROVE FALSE
  <2>1. PICK s \in Bad : /\ IsFiniteSet(s) /\ s # {} /\ First(s) \in s
                         /\ s \ {First(s)} \in SUBSET S
                         /\ s \ {First(s)} \notin Bad
    <3> HIDE DEF Bad
    <3> QED BY <1>1, <1>2, SmallestWithoutFirst
  <2> DEFINE z == First(s)
  <2>2. s \in SUBSET S /\ z \in s /\ z \in Int /\ ~ \E x \in s : \A y \in s : x >= y
    BY <2>1
  <2>3. s \ {z} = {} \/ \E x \in s \ {z} : \A y \in s \ {z} : x >= y
    BY <2>1
  <2> HIDE DEF z, Bad
  <2>4. CASE s \ {z} = {}
    BY <2>2, <2>4
  <2>5. CASE \E x \in s \ {z} : \A y \in s \ {z} : x >= y
    <3>1. PICK x \in s \ {z} : \A y \in s \ {z} : x >= y
      BY <2>5
    <3>2. x \in Int
      BY <2>2
    <3>3. CASE x >= z
      BY <2>2, <3>1, <3>2, <3>3
    <3>4. CASE z >= x
      <4>1. \A y \in s : z >= y
        BY <2>2, <3>1, <3>2, <3>4
      <4> QED BY <2>2, <4>1
    <3> QED BY <2>2, <3>2, <3>3, <3>4
  <2> QED BY <2>3, <2>4, <2>5
<1> QED BY <1>2

\* The largest of a finite set of integers.
LEMMA LargestOf ==
    ASSUME NEW S \in SUBSET Int, IsFiniteSet(S), S # {}
    PROVE  Max(S) \in S /\ \A y \in S : Max(S) >= y
BY LargestInteger DEF Max

\* The larger of two.
LEMMA PairMax == \A x, y \in Int : Max({x, y}) = IF x >= y THEN x ELSE y
<1> SUFFICES ASSUME NEW x \in Int, NEW y \in Int
             PROVE  Max({x, y}) = IF x >= y THEN x ELSE y
  OBVIOUS
<1>1. \E z \in {x, y} : \A w \in {x, y} : z >= w
  OBVIOUS
<1>2. Max({x, y}) \in {x, y} /\ \A w \in {x, y} : Max({x, y}) >= w
  BY <1>1 DEF Max
<1> QED BY <1>2

\* The smallest of the six capacities an entry is sized by.
LEMMA SixMin ==
    ASSUME NEW a \in Int, NEW b \in Int, NEW c \in Int,
           NEW d \in Int, NEW e \in Int, NEW f \in Int
    PROVE  /\ Min({a, b, c, d, e, f}) \in {a, b, c, d, e, f}
           /\ LET n == Min({a, b, c, d, e, f})
              IN  n <= a /\ n <= b /\ n <= c /\ n <= d /\ n <= e /\ n <= f
<1> DEFINE S == {a, b, c, d, e, f}
           N == {-x : x \in S}
<1>1. IsFiniteSet(S)
  <2>1. IsFiniteSet({a} \cup {b})
    BY FS_Singleton, FS_AddElement
  <2>2. IsFiniteSet(({a} \cup {b}) \cup {c})
    BY <2>1, FS_AddElement
  <2>3. IsFiniteSet((({a} \cup {b}) \cup {c}) \cup {d})
    BY <2>2, FS_AddElement
  <2>4. IsFiniteSet(({e} \cup {f}))
    BY FS_Singleton, FS_AddElement
  <2>5. S = ((({a} \cup {b}) \cup {c}) \cup {d}) \cup ({e} \cup {f})
    OBVIOUS
  <2>6. IsFiniteSet(((({a} \cup {b}) \cup {c}) \cup {d}) \cup ({e} \cup {f}))
    BY <2>3, <2>4, FS_Union
  <2> QED BY <2>5, <2>6
<1>2. \E z \in N : \A w \in N : z >= w
  <2> DEFINE neg == [x \in Int |-> -x]
  <2>1. N = {neg[x] : x \in S}
    OBVIOUS
  <2>2. IsFiniteSet(N)
    <3> HIDE DEF S, neg, N
    <3> QED BY <1>1, <2>1, ImageIsFinite
  <2>3. N \in SUBSET Int /\ N # {}
    OBVIOUS
  <2> HIDE DEF N
  <2> QED BY <2>2, <2>3, LargestInteger
<1>3. \E z \in S : \A w \in S : z <= w
  <2>1. PICK z \in S : \A w \in S : -z >= -w
    BY <1>2
  <2> QED BY <2>1
<1> HIDE DEF S, N
<1>4. Min(S) \in S /\ \A w \in S : Min(S) <= w
  BY <1>3 DEF Min
<1> QED BY <1>4 DEF S

-----------------------------------------------------------------------------
(***************************************************************************)
(* Quotients.                                                              *)
(***************************************************************************)
\* A quotient is rounded down.
LEMMA Division ==
    ASSUME NEW a \in Int, NEW m \in Nat \ {0}
    PROVE  /\ a \div m \in Int
           /\ (a \div m) * m <= a /\ a < (a \div m) * m + m
OBVIOUS

\* A larger dividend has no smaller quotient.
LEMMA DivisionMonotone ==
    ASSUME NEW a \in Int, NEW b \in Int, a <= b, NEW m \in Nat \ {0}
    PROVE  a \div m <= b \div m
<1> DEFINE p == a \div m
           q == b \div m
<1>1. p \in Int /\ q \in Int /\ p * m <= a /\ b < q * m + m
  BY Division
<1> HIDE DEF p, q
<1>2. p * m < (q + 1) * m
  BY <1>1
<1>3. p < q + 1
  BY <1>1, <1>2
<1> QED BY <1>1, <1>3 DEF p, q

\* What is at most a quotient.
LEMMA AtMostQuotient ==
    ASSUME NEW x \in Int, NEW a \in Int, NEW m \in Nat \ {0}
    PROVE  x <= a \div m <=> x * m <= a
<1> DEFINE q == a \div m
<1>1. q \in Int /\ q * m <= a /\ a < q * m + m
  BY Division
<1> HIDE DEF q
<1>2. ASSUME x <= q PROVE x * m <= a
  <2>1. x * m <= q * m
    BY <1>1, <1>2
  <2>2. x * m \in Int /\ q * m \in Int
    BY <1>1
  <2> QED BY <1>1, <2>1, <2>2
<1>3. ASSUME q < x PROVE a < x * m
  <2>1. (q + 1) * m <= x * m
    BY <1>1, <1>3
  <2>2. (q + 1) * m = q * m + m /\ x * m \in Int /\ q * m \in Int
    BY <1>1
  <2> QED BY <1>1, <2>1, <2>2
<1>4. x * m \in Int /\ (x <= q \/ q < x)
  BY <1>1
<1>5. ~ (a < x * m /\ x * m <= a)
  BY <1>4
<1> QED BY <1>1, <1>2, <1>3, <1>5 DEF q

\* What is at most the smallest of six.
LEMMA AtMostSix ==
    ASSUME NEW a \in Int, NEW b \in Int, NEW c \in Int,
           NEW d \in Int, NEW e \in Int, NEW f \in Int, NEW x \in Int
    PROVE  x <= Min({a, b, c, d, e, f})
             <=> x <= a /\ x <= b /\ x <= c /\ x <= d /\ x <= e /\ x <= f
<1> DEFINE n == Min({a, b, c, d, e, f})
<1>1. n \in {a, b, c, d, e, f}
  BY SixMin
<1>2. n <= a /\ n <= b /\ n <= c /\ n <= d /\ n <= e /\ n <= f
  BY SixMin
<1> HIDE DEF n
<1>3. n \in Int
  BY <1>1
<1>4. n = a \/ n = b \/ n = c \/ n = d \/ n = e \/ n = f
  BY <1>1
<1> QED BY <1>2, <1>3, <1>4 DEF n

\* A multiple leaves no rest.
LEMMA MultipleHasNoRest ==
    ASSUME NEW k \in Int, NEW m \in Nat \ {0}
    PROVE  (k * m) % m = 0 /\ (k * m) \div m = k
<1> DEFINE x == k * m
           q == x \div m
           r == x % m
<1>1. x \in Int /\ q \in Int /\ r \in 0..(m-1) /\ x = m * q + r
  OBVIOUS
<1>2. q = k
  <2> HIDE DEF q, r
  <2>1. (k - q) * m = r
    BY <1>1
  <2>2. ASSUME k - q >= 1 PROVE FALSE
    <3>1. (k - q) * m >= m
      BY <1>1, <2>2
    <3> QED BY <1>1, <2>1, <3>1
  <2>3. ASSUME k - q <= -1 PROVE FALSE
    <3>1. (k - q) * m <= -m
      BY <1>1, <2>3
    <3> QED BY <1>1, <2>1, <3>1
  <2> QED BY <1>1, <2>2, <2>3
<1> HIDE DEF q, r
<1>3. r = 0
  BY <1>1, <1>2
<1> QED BY <1>2, <1>3 DEF q, r

\* A number is its quotient and its rest.
LEMMA QuotientAndRest ==
    ASSUME NEW a \in Int, NEW m \in Nat \ {0}
    PROVE  a \div m \in Int /\ a % m \in Int /\ a = m * (a \div m) + (a % m)
OBVIOUS

-----------------------------------------------------------------------------
(***************************************************************************)
(* Recursion over 0..n, and the order of a finite set.                     *)
(***************************************************************************)
\* A function defined by recursion over 0..n exists; step is the table of what one
\* turn makes of a state.
RunsBy(g, n, S, start, step) ==
    /\ g \in [0..n -> S]
    /\ g[0] = start
    /\ \A i \in 1..n : g[i] = step[<<g[i - 1], i>>]

LEMMA RecursionExists ==
    ASSUME NEW n \in Nat, NEW S, NEW start \in S, NEW step \in [S \X (1..n) -> S]
    PROVE  \E g : RunsBy(g, n, S, start, step)
<1> DEFINE Bad == {m \in 0..n : ~ \E g : RunsBy(g, m, S, start, step)}
<1>1. 0 \notin Bad
  <2>1. RunsBy([i \in 0..0 |-> start], 0, S, start, step)
    BY DEF RunsBy
  <2> QED BY <2>1
<1>2. ASSUME NEW m \in 0..n, m < n, m \notin Bad PROVE m + 1 \notin Bad
  <2>1. PICK g : RunsBy(g, m, S, start, step)
    BY <1>2
  <2> DEFINE h == [i \in 0..(m + 1) |-> IF i = m + 1 THEN step[<<g[m], m + 1>>] ELSE g[i]]
  <2>2. g[m] \in S /\ m + 1 \in 1..n
    BY <1>2, <2>1 DEF RunsBy
  <2>3. h \in [0..(m + 1) -> S]
    BY <2>1, <2>2 DEF RunsBy
  <2>4. h[0] = start
    BY <1>2, <2>1 DEF RunsBy
  <2>5. \A i \in 1..(m + 1) : h[i] = step[<<h[i - 1], i>>]
    <3> TAKE i \in 1..(m + 1)
    <3>1. CASE i = m + 1
      <4>1. h[i] = step[<<g[m], m + 1>>] /\ h[m] = g[m] /\ i - 1 = m
        BY <3>1
      <4> QED BY <3>1, <4>1
    <3>2. CASE i \in 1..m
      <4>1. h[i] = g[i] /\ h[i - 1] = g[i - 1]
        BY <3>2
      <4> QED BY <2>1, <3>2, <4>1 DEF RunsBy
    <3>3. i = m + 1 \/ i \in 1..m
      OBVIOUS
    <3> QED BY <3>1, <3>2, <3>3
  <2>6. RunsBy(h, m + 1, S, start, step)
    BY <2>3, <2>4, <2>5 DEF RunsBy
  <2> HIDE DEF h
  <2> QED BY <2>6
<1>3. Bad = {}
  <2> SUFFICES ASSUME Bad # {} PROVE FALSE
    OBVIOUS
  <2>1. Bad \in SUBSET Nat
    OBVIOUS
  <2>2. PICK m \in Bad : \A k \in Bad : m <= k
    <3> HIDE DEF Bad
    <3> QED BY <2>1, LeastNatural
  <2>3. m \in 0..n /\ m # 0
    BY <1>1
  <2>4. m - 1 \in 0..n /\ m - 1 < n /\ ~ (m <= m - 1) /\ (m - 1) + 1 = m
    BY <2>3
  <2> HIDE DEF Bad
  <2>5. m - 1 \notin Bad
    BY <2>2, <2>4
  <2> QED BY <1>2, <2>4, <2>5, <2>2
<1> QED BY <1>3

\* Two functions that start alike and go on alike up to n.
GoAlike(f, g, n) ==
    f[0] = g[0] /\ \A i \in 1..n : f[i - 1] = g[i - 1] => f[i] = g[i]

\* They are alike.
LEMMA RunsAlike ==
    ASSUME NEW n \in Nat, NEW f, NEW g, GoAlike(f, g, n)
    PROVE  \A i \in 0..n : f[i] = g[i]
<1> DEFINE Bad == {i \in 0..n : f[i] # g[i]}
<1> SUFFICES ASSUME Bad # {} PROVE FALSE
  OBVIOUS
<1>1. Bad \in SUBSET Nat
  OBVIOUS
<1>2. PICK i \in Bad : \A j \in Bad : i <= j
  <2> HIDE DEF Bad
  <2> QED BY <1>1, LeastNatural
<1>3. i \in 1..n /\ i - 1 \in 0..n /\ ~ (i <= i - 1)
  BY DEF GoAlike
<1>4. f[i - 1] = g[i - 1]
  BY <1>2, <1>3
<1> QED BY <1>2, <1>3, <1>4 DEF GoAlike

\* The members of a finite set of integers can be put in the order of a key, the
\* larger first, and of equal keys the larger member first.
Precedes(key, u, t) == key[u] > key[t] \/ (key[u] = key[t] /\ u > t)

LEMMA SortedOrderExists ==
    ASSUME NEW D \in SUBSET Int, IsFiniteSet(D), NEW key \in [D -> Int]
    PROVE  \E r \in [1..Cardinality(D) -> D] :
             \A i, j \in 1..Cardinality(D) : i < j => Precedes(key, r[i], r[j])
<1> DEFINE n == Cardinality(D)
           ahead(t) == {u \in D : Precedes(key, u, t)}
           place == [t \in D |-> Cardinality(ahead(t)) + 1]
<1>1. n \in Nat /\ IsFiniteSet(1..n) /\ Cardinality(1..n) = n
  <2>1. n \in Nat
    BY FS_CardinalityType
  <2> HIDE DEF n
  <2> QED BY <2>1, FS_Interval
<1>2. ASSUME NEW u \in D, NEW t \in D
      PROVE  /\ Precedes(key, u, t) \/ u = t \/ Precedes(key, t, u)
             /\ ~ Precedes(key, t, t)
             /\ \A v \in D : Precedes(key, v, u) /\ Precedes(key, u, t)
                               => Precedes(key, v, t)
  BY DEF Precedes
<1>3. ASSUME NEW t \in D
      PROVE  /\ IsFiniteSet(ahead(t)) /\ Cardinality(ahead(t)) \in Nat
             /\ Cardinality(ahead(t)) < n
  <2>1. ahead(t) \in SUBSET D /\ t \notin ahead(t)
    BY <1>2
  <2> HIDE DEF ahead
  <2>2. /\ IsFiniteSet(ahead(t)) /\ Cardinality(ahead(t)) <= n
        /\ Cardinality(ahead(t)) # n
    BY <2>1, FS_Subset
  <2>3. Cardinality(ahead(t)) \in Nat
    BY <2>2, FS_CardinalityType
  <2> QED BY <1>1, <2>2, <2>3
<1>4. ASSUME NEW u \in D, NEW t \in D, Precedes(key, u, t)
      PROVE  place[u] < place[t]
  <2>1. ahead(u) \in SUBSET ahead(t) /\ u \in ahead(t) /\ u \notin ahead(u)
    BY <1>2, <1>4
  <2>2. IsFiniteSet(ahead(t)) /\ Cardinality(ahead(t)) \in Nat /\ Cardinality(ahead(u)) \in Nat
    BY <1>3
  <2> HIDE DEF ahead
  <2>3. Cardinality(ahead(u)) <= Cardinality(ahead(t)) /\ Cardinality(ahead(u)) # Cardinality(ahead(t))
    BY <2>1, <2>2, FS_Subset
  <2> QED BY <2>2, <2>3
<1> HIDE DEF n
<1>5. place \in [D -> 1..n] /\ \A t \in D : place[t] \in Nat
  <2>1. \A t \in D : Cardinality(ahead(t)) + 1 \in 1..n
    <3> HIDE DEF ahead
    <3> QED BY <1>1, <1>3
  <2> HIDE DEF ahead
  <2> QED BY <2>1
<1> HIDE DEF place, ahead
<1>6. \A u, t \in D : place[u] = place[t] => u = t
  BY <1>2, <1>4, <1>5
<1>7. place \in Injection(D, 1..n)
  BY <1>5, <1>6 DEF Injection, IsInjective
<1>8. place \in Surjection(D, 1..n)
  BY <1>1, <1>7, FS_Injection DEF n
<1>9. \A i \in 1..n : \E t \in D : place[t] = i
  BY <1>8 DEF Surjection
<1> DEFINE r == [i \in 1..n |-> CHOOSE t \in D : place[t] = i]
<1>10. r \in [1..n -> D] /\ \A i \in 1..n : place[r[i]] = i
  BY <1>9
<1>11. \A i, j \in 1..n : i < j => Precedes(key, r[i], r[j])
  <2> SUFFICES ASSUME NEW i \in 1..n, NEW j \in 1..n, i < j PROVE Precedes(key, r[i], r[j])
    OBVIOUS
  <2> HIDE DEF r
  <2>1. r[i] \in D /\ r[j] \in D /\ place[r[i]] = i /\ place[r[j]] = j
    BY <1>10
  <2>2. r[i] # r[j] /\ ~ Precedes(key, r[j], r[i])
    <3>1. ~ (j < i) /\ i # j
      BY <1>1
    <3> QED BY <1>4, <2>1, <3>1
  <2> QED BY <1>2, <2>1, <2>2
<1> QED BY <1>10, <1>11 DEF n

=============================================================================
