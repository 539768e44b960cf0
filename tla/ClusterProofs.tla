--------------------------- MODULE ClusterProofs ---------------------------
(***************************************************************************)
(* The view of the cluster that a node plans with, and the plans it makes. *)
(*                                                                         *)
(* Discovery: NoGhostPeers for any set of nodes, any ids on the wire and   *)
(* any timeout.  What has to be added to make it inductive is time: a peer *)
(* that is being announced has not reached its timeout, so no eviction     *)
(* thread, old or new, takes it out between the insertion and the          *)
(* callback.                                                               *)
(*                                                                         *)
(* Policies: the books of the greedy and the threshold policy for any      *)
(* number of peers and tasks, any profiles, snapshots and thresholds; the  *)
(* theorems about all policies are in OptimizerProofs.  Sums, maxima and   *)
(* recursive functions are not known to the provers, so the first section  *)
(* proves what is needed of them, by induction over sets.                  *)
(***************************************************************************)
EXTENDS PeerDiscovery, Policies, Sequences, FiniteSetsExt, FiniteSetTheorems,
        WellFoundedInduction, TLAPS

-----------------------------------------------------------------------------
(* Least elements, induction, maxima *)

(* The numbers up to n are finite in number. *)
LEMMA FirstNumbers ==
    ASSUME NEW n \in Nat
    PROVE  IsFiniteSet(0 .. n) /\ IsFiniteSet(1 .. n)
<1>1. 0 \in Int /\ 1 \in Int /\ n \in Int
  OBVIOUS
<1> QED BY <1>1, FS_Interval

(* A set of natural numbers has a least element. *)
LEMMA LeastElement ==
    ASSUME NEW S, S \subseteq Nat, S # {}
    PROVE  \E m \in S : \A n \in S : m <= n
<1> DEFINE Less == {ss \in Nat \X Nat : ss[1] < ss[2]}
<1>1. IsWellFoundedOn(Less, Nat)
  BY NatLessThanWellFounded DEF OpToRel
<1>2. PICK m \in S : \A n \in S : ~ (<<n, m>> \in Less)
  <2> HIDE DEF Less
  <2> QED BY <1>1, WFMin
<1>3. \A n \in S : ~ (n < m)
  BY <1>2
<1> QED BY <1>3

(* Induction, over a set in the place of a predicate *)
LEMMA Induction ==
    ASSUME NEW P, 0 \in P, \A n \in Nat : n \in P => n + 1 \in P
    PROVE  Nat \subseteq P
<1> SUFFICES ASSUME Nat \ P # {} PROVE FALSE
  OBVIOUS
<1>1. PICK m \in Nat \ P : \A n \in Nat \ P : m <= n
  BY LeastElement
<1>2. m - 1 \in Nat /\ m - 1 \notin Nat \ P
  BY <1>1
<1>3. m - 1 \in P
  BY <1>2
<1> QED BY <1>1, <1>2, <1>3

(* Induction over the subsets of a finite set: what holds of {} and        *)
(* survives one more element holds of the whole set.                       *)
LEMMA FiniteInduction ==
    ASSUME NEW U, IsFiniteSet(U), NEW P, {} \in P,
           \A s \in SUBSET U : \A x \in U \ s : s \in P => s \cup {x} \in P
    PROVE  U \in P
<1> DEFINE Q == {n \in Nat : \A s \in SUBSET U : Cardinality(s) = n => s \in P}
<1>1. \A s \in SUBSET U : IsFiniteSet(s) /\ Cardinality(s) \in Nat
  BY FS_Subset, FS_CardinalityType
<1>2. 0 \in Q
  <2>1. \A s \in SUBSET U : Cardinality(s) = 0 => s = {}
    BY <1>1, FS_EmptySet
  <2> QED BY <2>1
<1>3. ASSUME NEW n \in Nat, n \in Q PROVE n + 1 \in Q
  <2> SUFFICES ASSUME NEW s \in SUBSET U, Cardinality(s) = n + 1 PROVE s \in P
    OBVIOUS
  <2>1. PICK x : x \in s
    <3>1. Cardinality({}) = 0
      BY FS_EmptySet
    <3>2. s # {}
      BY <3>1
    <3> QED BY <3>2
  <2>2. Cardinality(s \ {x}) = n
    <3>1. Cardinality(s \ {x}) = Cardinality(s) - 1
      BY <1>1, <2>1, FS_RemoveElement
    <3> QED BY <3>1
  <2>3. s \ {x} \in P
    BY <1>3, <2>2
  <2>4. (s \ {x}) \cup {x} = s /\ x \in U \ (s \ {x}) /\ s \ {x} \in SUBSET U
    BY <2>1
  <2> QED BY <2>3, <2>4
<1>4. Nat \subseteq Q
  <2> HIDE DEF Q
  <2> QED BY <1>2, <1>3, Induction
<1> QED BY <1>1, <1>4

(* Max of a finite set of integers is its greatest element. *)
LEMMA MaxOf ==
    ASSUME NEW S, IsFiniteSet(S), S # {}, S \subseteq Int
    PROVE  Max(S) \in S /\ \A x \in S : x <= Max(S)
<1> DEFINE P == {s \in SUBSET S : s # {} => \E m \in s : \A x \in s : m >= x}
<1>1. {} \in P
  OBVIOUS
<1>2. ASSUME NEW s \in SUBSET S, NEW x \in S \ s, s \in P PROVE s \cup {x} \in P
  <2>1. CASE s = {}
    BY <2>1
  <2>2. CASE s # {}
    <3>1. PICK m \in s : \A y \in s : m >= y
      BY <1>2, <2>2
    <3>2. CASE m >= x
      BY <3>1, <3>2
    <3>3. CASE x >= m
      <4>1. \A y \in s \cup {x} : x >= y
        BY <3>1, <3>3
      <4> QED BY <4>1
    <3> QED BY <3>2, <3>3
  <2> QED BY <2>1, <2>2
<1>3. S \in P
  <2> HIDE DEF P
  <2> QED BY <1>1, <1>2, FiniteInduction
<1>4. \E m \in S : \A x \in S : m >= x
  BY <1>3
<1>5. Max(S) \in S /\ \A x \in S : Max(S) >= x
  BY <1>4 DEF Max
<1> QED BY <1>5

(* Min of a set of natural numbers is its least element. *)
LEMMA MinOf ==
    ASSUME NEW S, S # {}, S \subseteq Nat
    PROVE  Min(S) \in S /\ \A x \in S : Min(S) <= x
BY LeastElement DEF Min

(* A function takes finitely many values on a finite set. *)
LEMMA FiniteImage ==
    ASSUME NEW S, IsFiniteSet(S), NEW f PROVE IsFiniteSet({f[x] : x \in S})
<1> DEFINE P == {s \in SUBSET S : IsFiniteSet({f[x] : x \in s})}
<1>1. {} \in P
  <2>1. {f[x] : x \in {}} = {}
    OBVIOUS
  <2> QED BY <2>1, FS_EmptySet
<1>2. ASSUME NEW s \in SUBSET S, NEW y \in S \ s, s \in P PROVE s \cup {y} \in P
  <2>1. {f[x] : x \in s \cup {y}} = {f[x] : x \in s} \cup {f[y]}
    OBVIOUS
  <2>2. IsFiniteSet({f[x] : x \in s} \cup {f[y]})
    BY <1>2, FS_AddElement
  <2> QED BY <2>1, <2>2
<1>3. S \in P
  <2> HIDE DEF P
  <2> QED BY <1>1, <1>2, FiniteInduction
<1> QED BY <1>3

Values(f, S) == {f[x] : x \in S}

(* The greatest value of a function on a finite set is taken somewhere. *)
LEMMA MaxOfImage ==
    ASSUME NEW S, IsFiniteSet(S), S # {}, NEW f, \A x \in S : f[x] \in Int
    PROVE  /\ \E x \in S : f[x] = Max(Values(f, S))
           /\ \A x \in S : f[x] <= Max(Values(f, S))
<1> DEFINE V == Values(f, S)
<1>1. IsFiniteSet(V)
  BY FiniteImage DEF Values
<1>2. V # {} /\ V \subseteq Int /\ \A x \in S : f[x] \in V
  BY DEF Values
<1>3. Max(V) \in V /\ \A v \in V : v <= Max(V)
  <2> HIDE DEF V
  <2>1. Max(V) \in V /\ \A v \in V : Max(V) >= v
    BY <1>1, <1>2, MaxOf
  <2> QED BY <1>2, <2>1
<1> QED BY <1>2, <1>3 DEF Values

(* The same without Max: some element has the greatest value. *)
LEMMA Greatest ==
    ASSUME NEW S, IsFiniteSet(S), S # {}, NEW f, \A x \in S : f[x] \in Int
    PROVE  \E x \in S : \A y \in S : f[y] <= f[x]
<1>1. PICK x \in S : f[x] = Max(Values(f, S))
  BY MaxOfImage
<1>2. \A y \in S : f[y] <= f[x]
  BY <1>1, MaxOfImage
<1> QED BY <1>2

-----------------------------------------------------------------------------
(* Sums.  SumFunctionOnSet looks its value up in a table over all subsets, *)
(* filled by taking chosen elements away one by one.                       *)

First(s) == CHOOSE x \in s : TRUE

IsTable(g, f, U) ==
    g = [s \in SUBSET U |-> IF s = {} THEN 0 ELSE f[First(s)] + g[s \ {First(s)}]]

SumTable(f, U) == CHOOSE g : IsTable(g, f, U)

(* SumFunctionOnSet is the last entry of such a table. *)
LEMMA SumIsTable ==
    ASSUME NEW f, NEW U
    PROVE  SumFunctionOnSet(f, U) = SumTable(f, U)[U]
BY DEF SumFunctionOnSet, FoldFunctionOnSet, MapThenFoldSet, SumTable, IsTable, First

(* Taking the chosen element away leaves a smaller subset. *)
LEMMA SmallerSubsets ==
    ASSUME NEW U, IsFiniteSet(U), NEW s \in SUBSET U
    PROVE  /\ IsFiniteSet(s) /\ Cardinality(s) \in Nat
           /\ s # {} => /\ First(s) \in s /\ s \ {First(s)} \in SUBSET U
                        /\ Cardinality(s \ {First(s)}) = Cardinality(s) - 1
<1>1. IsFiniteSet(s) /\ Cardinality(s) \in Nat
  BY FS_Subset, FS_CardinalityType
<1>2. s # {} => First(s) \in s
  BY DEF First
<1>3. First(s) \in s => Cardinality(s \ {First(s)}) = Cardinality(s) - 1
  BY <1>1, FS_RemoveElement
<1> QED BY <1>1, <1>2, <1>3

(* The table exists for a finite set, by induction on the size of the      *)
(* subsets it covers.                                                      *)
LEMMA TableExists ==
    ASSUME NEW f, NEW U, IsFiniteSet(U)
    PROVE  \E g : IsTable(g, f, U)
<1> DEFINE Upto(n) == {s \in SUBSET U : Cardinality(s) <= n}
           Table(g, n) == g = [s \in Upto(n) |-> IF s = {} THEN 0 ELSE f[First(s)] + g[s \ {First(s)}]]
           P == {n \in Nat : \E g : Table(g, n)}
<1>0. \A s \in SUBSET U : /\ Cardinality(s) \in Nat
                          /\ s # {} => /\ First(s) \in s /\ s \ {First(s)} \in SUBSET U
                                       /\ Cardinality(s \ {First(s)}) = Cardinality(s) - 1
  BY SmallerSubsets
<1>1. 0 \in P
  <2> DEFINE g == [s \in Upto(0) |-> 0]
  <2>1. ASSUME NEW s \in Upto(0) PROVE s = {}
    <3>1. s \in SUBSET U /\ Cardinality(s) <= 0 /\ Cardinality(s) \in Nat
      BY <1>0
    <3>2. IsFiniteSet(s) /\ Cardinality(s) = 0
      BY <3>1, FS_Subset
    <3> QED BY <3>2, FS_EmptySet
  <2>2. g = [s \in Upto(0) |-> IF s = {} THEN 0 ELSE f[First(s)] + g[s \ {First(s)}]]
    <3> HIDE DEF Upto
    <3> QED BY <2>1
  <2>3. Table(g, 0)
    BY <2>2
  <2> HIDE DEF Table, g
  <2> QED BY <2>3
<1>2. ASSUME NEW n \in Nat, n \in P PROVE n + 1 \in P
  <2>1. PICK h : Table(h, n)
    BY <1>2
  <2> DEFINE g == [s \in Upto(n + 1) |-> IF s = {} THEN 0 ELSE f[First(s)] + h[s \ {First(s)}]]
  <2>2. Upto(n) \subseteq Upto(n + 1)
    <3>1. \A s \in SUBSET U : Cardinality(s) \in Nat
      BY <1>0
    <3>2. \A k \in Nat : k <= n => k <= n + 1
      OBVIOUS
    <3> QED BY <3>1, <3>2
  <2>3. \A s \in Upto(n + 1) : s # {} => s \ {First(s)} \in Upto(n)
    BY <1>0
  <2> HIDE DEF Upto
  <2>4. \A s \in Upto(n) : g[s] = h[s]
    BY <2>1, <2>2
  <2>5. g = [s \in Upto(n + 1) |-> IF s = {} THEN 0 ELSE f[First(s)] + g[s \ {First(s)}]]
    <3>1. \A s \in Upto(n + 1) : s # {} => g[s \ {First(s)}] = h[s \ {First(s)}]
      BY <2>3, <2>4
    <3> QED BY <3>1
  <2>6. Table(g, n + 1)
    BY <2>5
  <2> HIDE DEF Table, g
  <2> QED BY <2>6
<1>3. Nat \subseteq P
  <2> HIDE DEF P
  <2> QED BY <1>1, <1>2, Induction
<1>4. Cardinality(U) \in Nat /\ Upto(Cardinality(U)) = SUBSET U
  <2>1. \A s \in SUBSET U : Cardinality(s) <= Cardinality(U)
    BY FS_Subset
  <2> QED BY <2>1, FS_CardinalityType
<1>5. PICK g : Table(g, Cardinality(U))
  BY <1>3, <1>4
<1>6. g = [s \in SUBSET U |-> IF s = {} THEN 0 ELSE f[First(s)] + g[s \ {First(s)}]]
  <2> HIDE DEF Upto
  <2> QED BY <1>4, <1>5
<1> QED BY <1>6 DEF IsTable

(* So the CHOOSE in the library finds it, and its entries obey the         *)
(* recursion.                                                              *)
LEMMA TableEntry ==
    ASSUME NEW f, NEW U, IsFiniteSet(U), NEW s \in SUBSET U
    PROVE  SumTable(f, U)[s] =
              IF s = {} THEN 0 ELSE f[First(s)] + SumTable(f, U)[s \ {First(s)}]
<1> DEFINE g == SumTable(f, U)
<1>0. IsTable(g, f, U)
  BY TableExists DEF SumTable
<1>1. g = [t \in SUBSET U |-> IF t = {} THEN 0 ELSE f[First(t)] + g[t \ {First(t)}]]
  BY <1>0 DEF IsTable
<1> HIDE DEF g
<1>2. g[s] = IF s = {} THEN 0 ELSE f[First(s)] + g[s \ {First(s)}]
  BY <1>1
<1> QED BY <1>2 DEF g

(* Tables over different sets agree on common subsets. *)
LEMMA TablesAgree ==
    ASSUME NEW f, NEW U, IsFiniteSet(U), NEW V \in SUBSET U, NEW s \in SUBSET V
    PROVE  SumTable(f, V)[s] = SumTable(f, U)[s]
<1> DEFINE P == {n \in Nat : \A t \in SUBSET V : Cardinality(t) = n =>
                                SumTable(f, V)[t] = SumTable(f, U)[t]}
<1>0. IsFiniteSet(V) /\ \A t \in SUBSET V : t \in SUBSET U /\ IsFiniteSet(t) /\ Cardinality(t) \in Nat
  BY FS_Subset, FS_CardinalityType
<1>1. 0 \in P
  <2> SUFFICES ASSUME NEW t \in SUBSET V, Cardinality(t) = 0
               PROVE  SumTable(f, V)[t] = SumTable(f, U)[t]
    OBVIOUS
  <2>1. t = {}
    BY <1>0, FS_EmptySet
  <2>2. SumTable(f, V)[t] = 0 /\ SumTable(f, U)[t] = 0
    BY <1>0, <2>1, TableEntry
  <2> QED BY <2>2
<1>2. ASSUME NEW n \in Nat, n \in P PROVE n + 1 \in P
  <2> SUFFICES ASSUME NEW t \in SUBSET V, Cardinality(t) = n + 1
               PROVE  SumTable(f, V)[t] = SumTable(f, U)[t]
    OBVIOUS
  <2>1. t # {}
    <3>1. Cardinality({}) = 0
      BY FS_EmptySet
    <3> QED BY <3>1
  <2>2. t \ {First(t)} \in SUBSET V /\ Cardinality(t \ {First(t)}) = n
    BY <1>0, <2>1, SmallerSubsets
  <2>3. SumTable(f, V)[t \ {First(t)}] = SumTable(f, U)[t \ {First(t)}]
    BY <1>2, <2>2
  <2>4. SumTable(f, V)[t] = f[First(t)] + SumTable(f, V)[t \ {First(t)}]
    BY <1>0, <2>1, TableEntry
  <2>5. SumTable(f, U)[t] = f[First(t)] + SumTable(f, U)[t \ {First(t)}]
    BY <1>0, <2>1, TableEntry
  <2> QED BY <2>3, <2>4, <2>5
<1>3. Nat \subseteq P
  <2> HIDE DEF P
  <2> QED BY <1>1, <1>2, Induction
<1> QED BY <1>0, <1>3

(* The empty sum is zero, and a sum is its chosen term plus the rest. *)
LEMMA SumByFirst ==
    ASSUME NEW f, NEW S, IsFiniteSet(S)
    PROVE  /\ SumFunctionOnSet(f, {}) = 0
           /\ S # {} => SumFunctionOnSet(f, S) = f[First(S)] + SumFunctionOnSet(f, S \ {First(S)})
<1>1. SumFunctionOnSet(f, {}) = 0
  <2>1. SumTable(f, {})[{}] = 0
    BY FS_EmptySet, TableEntry
  <2> QED BY <2>1, SumIsTable
<1>2. ASSUME S # {}
      PROVE  SumFunctionOnSet(f, S) = f[First(S)] + SumFunctionOnSet(f, S \ {First(S)})
  <2> DEFINE r == S \ {First(S)}
  <2>1. SumTable(f, S)[S] = f[First(S)] + SumTable(f, S)[r]
    BY <1>2, TableEntry
  <2>2. SumTable(f, r)[r] = SumTable(f, S)[r]
    BY TablesAgree
  <2> QED BY <2>1, <2>2, SumIsTable
<1> QED BY <1>1, <1>2

(* A sum of natural numbers is a natural number. *)
LEMMA SumNat ==
    ASSUME NEW f, NEW S, IsFiniteSet(S), \A x \in S : f[x] \in Nat
    PROVE  SumFunctionOnSet(f, S) \in Nat
<1> DEFINE Sum(s) == SumFunctionOnSet(f, s)
           P == {n \in Nat : \A s \in SUBSET S : Cardinality(s) = n => Sum(s) \in Nat}
<1>0. \A s \in SUBSET S :
         /\ IsFiniteSet(s) /\ Cardinality(s) \in Nat
         /\ s # {} => /\ First(s) \in s /\ s \ {First(s)} \in SUBSET S
                      /\ Cardinality(s \ {First(s)}) = Cardinality(s) - 1
  BY SmallerSubsets
<1>1. Sum({}) = 0 /\ \A s \in SUBSET S : s # {} => Sum(s) = f[First(s)] + Sum(s \ {First(s)})
  BY <1>0, SumByFirst
<1> HIDE DEF Sum
<1>2. 0 \in P
  <2>1. \A s \in SUBSET S : Cardinality(s) = 0 => s = {}
    BY <1>0, FS_EmptySet
  <2>2. \A s \in SUBSET S : Cardinality(s) = 0 => Sum(s) = 0
    BY <1>1, <2>1, Zenon
  <2> QED BY <2>2
<1>3. ASSUME NEW n \in Nat, n \in P PROVE n + 1 \in P
  <2> SUFFICES ASSUME NEW s \in SUBSET S, Cardinality(s) = n + 1 PROVE Sum(s) \in Nat
    OBVIOUS
  <2>1. s # {}
    <3>1. Cardinality({}) = 0
      BY FS_EmptySet
    <3> QED BY <3>1
  <2>2. Sum(s \ {First(s)}) \in Nat /\ f[First(s)] \in Nat
    BY <1>0, <1>3, <2>1
  <2> QED BY <1>1, <2>1, <2>2
<1>4. Nat \subseteq P
  <2> HIDE DEF P
  <2> QED BY <1>2, <1>3, Induction
<1> QED BY <1>0, <1>4 DEF Sum

(* A sum does not depend on the order of its terms. *)
LEMMA SumTerm ==
    ASSUME NEW f, NEW S, IsFiniteSet(S), \A x \in S : f[x] \in Nat, NEW z \in S
    PROVE  SumFunctionOnSet(f, S) = f[z] + SumFunctionOnSet(f, S \ {z})
<1> DEFINE Sum(s) == SumFunctionOnSet(f, s)
           P == {n \in Nat : \A s \in SUBSET S : Cardinality(s) = n =>
                                \A x \in s : Sum(s) = f[x] + Sum(s \ {x})}
<1>0. ASSUME NEW s \in SUBSET S
      PROVE  /\ IsFiniteSet(s) /\ Cardinality(s) \in Nat /\ Sum(s) \in Nat
             /\ \A x \in s : Cardinality(s \ {x}) = Cardinality(s) - 1
             /\ s # {} => First(s) \in s /\ Sum(s) = f[First(s)] + Sum(s \ {First(s)})
  <2>1. IsFiniteSet(s) /\ Cardinality(s) \in Nat
    BY FS_Subset, FS_CardinalityType
  <2>2. \A x \in s : Cardinality(s \ {x}) = Cardinality(s) - 1
    BY <2>1, FS_RemoveElement
  <2>3. Sum(s) \in Nat
    BY <2>1, SumNat
  <2>4. s # {} => First(s) \in s /\ Sum(s) = f[First(s)] + Sum(s \ {First(s)})
    BY <2>1, SumByFirst DEF First
  <2> QED BY <2>1, <2>2, <2>3, <2>4
<1> HIDE DEF Sum
<1>1. 0 \in P
  <2>1. \A s \in SUBSET S : Cardinality(s) = 0 => s = {}
    BY <1>0, FS_EmptySet
  <2> QED BY <2>1
<1>2. ASSUME NEW n \in Nat, n \in P PROVE n + 1 \in P
  <2> SUFFICES ASSUME NEW s \in SUBSET S, Cardinality(s) = n + 1, NEW x \in s
               PROVE  Sum(s) = f[x] + Sum(s \ {x})
    OBVIOUS
  <2> DEFINE p == First(s)
  <2>1. p \in s /\ Sum(s) = f[p] + Sum(s \ {p})
    BY <1>0
  <2> HIDE DEF p
  <2>2. CASE x = p
    BY <2>1, <2>2
  <2>3. CASE x # p
    <3> DEFINE rest == Sum((s \ {x}) \ {p})
    <3>1. /\ (s \ {p}) \ {x} = (s \ {x}) \ {p} /\ x \in s \ {p} /\ p \in s \ {x}
          /\ s \ {p} \in SUBSET S /\ s \ {x} \in SUBSET S /\ (s \ {x}) \ {p} \in SUBSET S
      BY <2>1, <2>3
    <3>2. Cardinality(s \ {p}) = n /\ Cardinality(s \ {x}) = n
      <4>1. Cardinality(s \ {p}) = Cardinality(s) - 1 /\ Cardinality(s \ {x}) = Cardinality(s) - 1
        BY <1>0, <2>1
      <4> QED BY <4>1
    <3>3. Sum(s \ {p}) = f[x] + rest /\ Sum(s \ {x}) = f[p] + rest
      BY <1>2, <3>1, <3>2
    <3>4. rest \in Nat /\ f[x] \in Nat /\ f[p] \in Nat
      BY <1>0, <2>1, <3>1
    <3> HIDE DEF rest
    <3> QED BY <2>1, <3>3, <3>4
  <2> QED BY <2>2, <2>3
<1>3. Nat \subseteq P
  <2> HIDE DEF P
  <2> QED BY <1>1, <1>2, Induction
<1>4. S \in SUBSET S /\ Cardinality(S) \in Nat
  BY <1>0
<1> QED BY <1>3, <1>4 DEF Sum

(* One more term adds its value. *)
LEMMA SumInsert ==
    ASSUME NEW f, NEW S, IsFiniteSet(S), NEW z, z \notin S, \A x \in S \cup {z} : f[x] \in Nat
    PROVE  SumFunctionOnSet(f, S \cup {z}) = SumFunctionOnSet(f, S) + f[z]
<1>1. IsFiniteSet(S \cup {z}) /\ (S \cup {z}) \ {z} = S
  BY FS_AddElement
<1>2. SumFunctionOnSet(f, S \cup {z}) = f[z] + SumFunctionOnSet(f, S)
  BY <1>1, SumTerm
<1>3. SumFunctionOnSet(f, S) \in Nat /\ f[z] \in Nat
  BY SumNat
<1> QED BY <1>2, <1>3

(* A sum depends on its terms only. *)
LEMMA SumSame ==
    ASSUME NEW f, NEW g, NEW S, IsFiniteSet(S), \A x \in S : f[x] \in Nat /\ f[x] = g[x]
    PROVE  SumFunctionOnSet(f, S) = SumFunctionOnSet(g, S)
<1> DEFINE P == {s \in SUBSET S : SumFunctionOnSet(f, s) = SumFunctionOnSet(g, s)}
<1>1. {} \in P
  BY FS_EmptySet, SumByFirst
<1>2. ASSUME NEW s \in SUBSET S, NEW x \in S \ s, s \in P PROVE s \cup {x} \in P
  <2>1. IsFiniteSet(s)
    BY FS_Subset
  <2>2. SumFunctionOnSet(f, s \cup {x}) = SumFunctionOnSet(f, s) + f[x]
    BY <2>1, SumInsert
  <2>3. SumFunctionOnSet(g, s \cup {x}) = SumFunctionOnSet(g, s) + g[x]
    BY <2>1, SumInsert
  <2> QED BY <1>2, <2>2, <2>3
<1>3. S \in P
  <2> HIDE DEF P
  <2> QED BY <1>1, <1>2, FiniteInduction
<1> QED BY <1>3

-----------------------------------------------------------------------------
(* Functions defined by recursion over 1 .. N *)

AgreeBelow(e, g, t) == \A u \in 1 .. t - 1 : e[u] = g[u]

Rule(F, N, V) ==
    /\ \A e \in [1 .. N -> V] : \A t \in 1 .. N : F[e][t] \in V
    /\ \A e, g \in [1 .. N -> V] : \A t \in 1 .. N :
          AgreeBelow(e, g, t) => F[e][t] = F[g][t]

Solves(e, F, N, V) == e \in [1 .. N -> V] /\ \A t \in 1 .. N : e[t] = F[e][t]

(* A function whose value at t follows from its values below t exists. *)
LEMMA Recursion ==
    ASSUME NEW N \in Nat, NEW V, V # {}, NEW F, Rule(F, N, V)
    PROVE  \E e : Solves(e, F, N, V)
<1>0. PICK v \in V : TRUE
  OBVIOUS
<1> DEFINE Upto(e, n) == \A t \in 1 .. N : t <= n => e[t] = F[e][t]
           P == {n \in Nat : \E e \in [1 .. N -> V] : Upto(e, n)}
<1>1. 0 \in P
  <2>1. [t \in 1 .. N |-> v] \in [1 .. N -> V] /\ Upto([t \in 1 .. N |-> v], 0)
    OBVIOUS
  <2> QED BY <2>1
<1>2. ASSUME NEW n \in Nat, n \in P PROVE n + 1 \in P
  <2>1. PICK e \in [1 .. N -> V] : Upto(e, n)
    BY <1>2
  <2>2. CASE n + 1 \notin 1 .. N
    <3>1. \A t \in 1 .. N : t <= n
      BY <2>2
    <3>2. Upto(e, n + 1)
      BY <2>1, <3>1
    <3> QED BY <3>2
  <2>3. CASE n + 1 \in 1 .. N
    <3> DEFINE g == [e EXCEPT ![n + 1] = F[e][n + 1]]
    <3>1. g \in [1 .. N -> V] /\ g[n + 1] = F[e][n + 1] /\ \A t \in 1 .. N : t # n + 1 => g[t] = e[t]
      BY <2>3 DEF Rule
    <3> HIDE DEF g
    <3>2. ASSUME NEW t \in 1 .. N, t <= n + 1 PROVE g[t] = F[g][t]
      <4>1. \A u \in 1 .. t - 1 : u \in 1 .. N /\ u # n + 1
        BY <3>2
      <4>2. \A u \in 1 .. t - 1 : e[u] = g[u]
        BY <3>1, <4>1
      <4>3. F[e][t] = F[g][t]
        BY <3>1, <4>2 DEF Rule, AgreeBelow
      <4>4. CASE t = n + 1
        BY <3>1, <4>3, <4>4
      <4>5. CASE t # n + 1
        <5>1. t <= n
          BY <3>2, <4>5
        <5> QED BY <2>1, <3>1, <4>3, <4>5, <5>1
      <4> QED BY <4>4, <4>5
    <3> QED BY <3>1, <3>2
  <2> QED BY <2>2, <2>3
<1>3. N \in P
  <2> HIDE DEF P
  <2> QED BY <1>1, <1>2, Induction
<1>4. PICK e \in [1 .. N -> V] : Upto(e, N)
  BY <1>3
<1>5. Solves(e, F, N, V)
  BY <1>4 DEF Solves
<1> QED BY <1>5

-----------------------------------------------------------------------------
(* Discovery: no ghost peers *)

(* Known peers have an age; a listener has at most one callback to run.    *)
Shape ==
    /\ \A i \in DOMAIN known : known[i] \in [load : Readings, age : Nat]
    /\ listener \in [Places -> {<<>>} \cup {<<m>> : m \in Adverts}]
    /\ evicted \in [Places -> SUBSET WireIds]
    /\ DOMAIN known \subseteq WireIds
    /\ air \subseteq Adverts
    /\ resources \in [Nodes -> Readings]

(* A peer whose callback is still to run is known and not overdue. *)
AnnouncedFresh ==
    \A p \in Places : listener[p] # <<>> =>
        /\ listener[p][1].id \in DOMAIN known
        /\ known[listener[p][1].id].age <= PeerTimeout

Tracked == DOMAIN view \subseteq DOMAIN known \cup UNION {evicted[p] : p \in Places}

DiscoveryInv == Shape /\ AnnouncedFresh /\ Tracked /\ Self \notin DOMAIN known

-----------------------------------------------------------------------------
(* Announced, in terms of the one callback a listener may have to run *)
LEMMA AnnouncedIs ==
    ASSUME Shape, NEW i
    PROVE  i \in Announced <=>
             \E p \in Places : listener[p] # <<>> /\ listener[p][1].id = i
<1>1. \A p \in Places : listener[p] = <<>> \/ \E m \in Adverts : listener[p] = <<m>>
  BY DEF Shape
<1>2. \A p \in Places : {listener[p][k].id : k \in DOMAIN listener[p]}
        = IF listener[p] = <<>> THEN {} ELSE {listener[p][1].id}
  <2> TAKE p \in Places
  <2>1. CASE listener[p] = <<>>
    BY <2>1
  <2>2. CASE \E m \in Adverts : listener[p] = <<m>>
    BY <2>2
  <2> QED BY <1>1, <2>1, <2>2
<1>3. i \in Announced <=> \E p \in Places : i \in {listener[p][k].id : k \in DOMAIN listener[p]}
  BY Zenon DEF Announced
<1>4. \A p \in Places : i \in {listener[p][k].id : k \in DOMAIN listener[p]}
        <=> listener[p] # <<>> /\ listener[p][1].id = i
  BY <1>2
<1> QED BY <1>3, <1>4

(* That announced peers are known is part of AnnouncedFresh. *)
LEMMA DiscoveryPromises == DiscoveryInv => NoGhostPeers
<1> SUFFICES ASSUME DiscoveryInv PROVE NoGhostPeers
  OBVIOUS
<1>1. Announced \subseteq DOMAIN known
  BY AnnouncedIs DEF DiscoveryInv, AnnouncedFresh
<1> QED BY <1>1 DEF DiscoveryInv, Tracked, NoGhostPeers

LEMMA DiscoveryStart == Init => DiscoveryInv
<1> SUFFICES ASSUME Init PROVE DiscoveryInv
  OBVIOUS
<1>1. DOMAIN known = {} /\ DOMAIN view = {}
  BY DEF Init
<1>2. Shape
  BY <1>1 DEF Init, Shape, Readings, Places
<1> QED BY <1>1, <1>2 DEF Init, DiscoveryInv, AnnouncedFresh, Tracked

-----------------------------------------------------------------------------
(* Time passes only if no announced peer is at its timeout. *)
LEMMA TickKeeps == DiscoveryInv /\ Tick => DiscoveryInv'
<1> SUFFICES ASSUME DiscoveryInv, Tick PROVE DiscoveryInv'
  OBVIOUS
<1> USE DiscoveryAssumption
<1>1. DOMAIN known' = DOMAIN known
  BY DEF Tick
<1>2. \A i \in DOMAIN known : /\ known'[i] \in [load : Readings, age : Nat]
                              /\ known'[i].age <= known[i].age + 1
  BY DEF Tick, DiscoveryInv, Shape
<1>3. Shape'
  BY <1>1, <1>2 DEF Tick, DiscoveryInv, Shape, network
<1>4. ASSUME NEW p \in Places, listener[p] # <<>>
      PROVE  known'[listener[p][1].id].age <= PeerTimeout
  <2>1. listener[p][1].id \in Announced \cap DOMAIN known
    BY <1>4, AnnouncedIs DEF DiscoveryInv, AnnouncedFresh
  <2>2. known[listener[p][1].id].age < PeerTimeout
    BY <2>1 DEF Tick
  <2>3. known[listener[p][1].id].age \in Nat
    BY <2>1 DEF DiscoveryInv, Shape
  <2>4. known'[listener[p][1].id].age <= known[listener[p][1].id].age + 1
    BY <2>1, <1>2
  <2>5. known'[listener[p][1].id].age \in Nat
    BY <2>1, <1>2
  <2> QED BY <2>2, <2>3, <2>4, <2>5
<1>5. AnnouncedFresh'
  BY <1>1, <1>4 DEF AnnouncedFresh, DiscoveryInv, Tick
<1> QED BY <1>1, <1>3, <1>5 DEF DiscoveryInv, Tracked, Tick

(* A new peer is recorded with age zero before it is announced. *)
LEMMA ReceiveKeeps ==
    ASSUME NEW p \in Places, NEW m \in air, DiscoveryInv, Receive(p, m)
    PROVE  DiscoveryInv'
<1> USE DiscoveryAssumption
<1>1. m \in Adverts /\ m.id \in WireIds /\ m.load \in Readings
  BY DEF DiscoveryInv, Shape, Adverts
<1>2. /\ DOMAIN known' = DOMAIN known \cup {m.id}
      /\ \A i \in DOMAIN known' : known'[i] = IF i = m.id THEN [load |-> m.load, age |-> 0]
                                              ELSE known[i]
  BY DEF Receive, With
<1>3. \A i \in DOMAIN known' : known'[i] \in [load : Readings, age : Nat]
  BY <1>1, <1>2 DEF DiscoveryInv, Shape
<1>4. /\ listener' \in [Places -> {<<>>} \cup {<<a>> : a \in Adverts}]
      /\ \A q \in Places : \/ listener'[q] = <<>>
                           \/ listener'[q] = listener[q]
                           \/ listener'[q] = <<m>>
  BY <1>1 DEF Receive, DiscoveryInv, Shape
<1>5. Shape'
  BY <1>1, <1>2, <1>3, <1>4 DEF Receive, DiscoveryInv, Shape, network
<1>6. ASSUME NEW q \in Places, listener'[q] # <<>>
      PROVE  /\ listener'[q][1].id \in DOMAIN known'
             /\ known'[listener'[q][1].id].age <= PeerTimeout
  <2>1. CASE listener'[q] = <<m>>
    BY <2>1, <1>2
  <2>2. CASE listener'[q] = listener[q]
    BY <2>2, <1>2, <1>6 DEF DiscoveryInv, AnnouncedFresh
  <2> QED BY <1>4, <1>6, <2>1, <2>2
<1>7. AnnouncedFresh'
  BY <1>6 DEF AnnouncedFresh
<1>8. Tracked' /\ Self \notin DOMAIN known'
  BY <1>2 DEF Receive, DiscoveryInv, Tracked
<1> QED BY <1>5, <1>7, <1>8 DEF DiscoveryInv

(* The callback adds a peer that is known. *)
LEMMA NotifyDiscoveredKeeps ==
    ASSUME NEW p \in Places, DiscoveryInv, NotifyDiscovered(p)
    PROVE  DiscoveryInv'
<1>1. listener[p][1].id \in DOMAIN known
  BY DEF NotifyDiscovered, DiscoveryInv, AnnouncedFresh
<1>2. DOMAIN view' = DOMAIN view \cup {listener[p][1].id}
  BY DEF NotifyDiscovered, With
<1>3. Shape'
  BY DEF NotifyDiscovered, DiscoveryInv, Shape, network
<1>4. \A q \in Places : listener'[q] = <<>> \/ listener'[q] = listener[q]
  BY DEF NotifyDiscovered, DiscoveryInv, Shape
<1>5. AnnouncedFresh'
  BY <1>4 DEF NotifyDiscovered, DiscoveryInv, AnnouncedFresh
<1> QED BY <1>1, <1>2, <1>3, <1>5 DEF NotifyDiscovered, DiscoveryInv, Tracked

(* An eviction thread erases overdue peers only, and lists all of them. *)
LEMMA SweepKeeps ==
    ASSUME NEW p \in Places, DiscoveryInv, Sweep(p)
    PROVE  DiscoveryInv'
<1> USE DiscoveryAssumption
<1>1. /\ DOMAIN known' = DOMAIN known \ Expired
      /\ \A i \in DOMAIN known' : known'[i] = known[i]
  BY DEF Sweep, Without
<1>2. evicted' = [evicted EXCEPT ![p] = Expired] /\ Expired \subseteq WireIds
  BY DEF Sweep, DiscoveryInv, Shape, Expired
<1>3. Shape'
  BY <1>1, <1>2 DEF Sweep, DiscoveryInv, Shape, network
<1>4. ASSUME NEW q \in Places, listener[q] # <<>>
      PROVE  listener[q][1].id \notin Expired
  <2>1. known[listener[q][1].id].age \in Nat /\ known[listener[q][1].id].age <= PeerTimeout
    BY <1>4 DEF DiscoveryInv, Shape, AnnouncedFresh
  <2> QED BY <2>1 DEF Expired
<1>5. AnnouncedFresh'
  BY <1>1, <1>4 DEF Sweep, DiscoveryInv, AnnouncedFresh
<1>6. DOMAIN known \cup UNION {evicted[q] : q \in Places}
        \subseteq DOMAIN known' \cup UNION {evicted'[q] : q \in Places}
  <2>1. evicted[p] = {} /\ evicted'[p] = Expired
        /\ \A q \in Places : q # p => evicted'[q] = evicted[q]
    BY <1>2 DEF Sweep, DiscoveryInv, Shape
  <2> QED BY <1>1, <2>1
<1>7. Tracked'
  BY <1>6 DEF Sweep, DiscoveryInv, Tracked
<1> QED BY <1>1, <1>3, <1>5, <1>7 DEF DiscoveryInv

(* A peer leaves the view in the step in which it leaves the list. *)
LEMMA NotifyLostKeeps ==
    ASSUME NEW p \in Places, NEW i \in WireIds, DiscoveryInv, NotifyLost(p, i)
    PROVE  DiscoveryInv'
<1>1. DOMAIN view' = DOMAIN view \ {i}
  BY DEF NotifyLost, Without
<1>2. \A q \in Places : evicted[q] \subseteq evicted'[q] \cup {i}
  BY DEF NotifyLost, DiscoveryInv, Shape
<1>3. Shape'
  BY DEF NotifyLost, DiscoveryInv, Shape, network
<1>4. Tracked'
  BY <1>1, <1>2 DEF NotifyLost, DiscoveryInv, Tracked
<1> QED BY <1>3, <1>4 DEF NotifyLost, DiscoveryInv, AnnouncedFresh

(* The remaining steps leave peers, view and callbacks alone. *)
LEMMA NetworkKeeps ==
    ASSUME DiscoveryInv,
           UNCHANGED <<known, view, listener, evicted>>,
           air' \subseteq Adverts, resources' \in [Nodes -> Readings]
    PROVE  DiscoveryInv'
BY DEF DiscoveryInv, Shape, AnnouncedFresh, Tracked

LEMMA DiscoveryStep == DiscoveryInv /\ [Next]_vars => DiscoveryInv'
<1> SUFFICES ASSUME DiscoveryInv, [Next]_vars PROVE DiscoveryInv'
  OBVIOUS
<1> USE DiscoveryAssumption
<1>0. air \subseteq Adverts /\ resources \in [Nodes -> Readings]
  BY DEF DiscoveryInv, Shape
<1>1. CASE Tick
  BY <1>1, TickKeeps
<1>2. CASE \E m \in air : \E p \in Places : Receive(p, m)
  BY <1>2, ReceiveKeeps
<1>3. CASE \E p \in Places : NotifyDiscovered(p)
  BY <1>3, NotifyDiscoveredKeeps
<1>4. CASE \E p \in Places : Sweep(p)
  BY <1>4, SweepKeeps
<1>5. CASE \E p \in Places : \E i \in WireIds : NotifyLost(p, i)
  BY <1>5, NotifyLostKeeps
<1>6. CASE \E n \in Nodes : Fail(n) \/ Recover(n)
  BY <1>0, <1>6, NetworkKeeps DEF Fail, Recover
<1>7. CASE \E n \in Nodes : Broadcast(n)
  <2> PICK n \in Nodes : Broadcast(n)
    BY <1>7
  <2>1. air' \subseteq Adverts
    BY <1>0 DEF Broadcast, Adverts
  <2> QED BY <1>0, <2>1, NetworkKeeps DEF Broadcast
<1>8. CASE \E n \in Nodes, l \in Loads : UpdateLocalResources(n, l)
  <2> PICK n \in Nodes, l \in Loads : UpdateLocalResources(n, l)
    BY <1>8
  <2>1. resources' \in [Nodes -> Readings]
    BY <1>0 DEF UpdateLocalResources, Readings
  <2> QED BY <1>0, <2>1, NetworkKeeps DEF UpdateLocalResources
<1>9. CASE \E m \in air : Lose(m)
  BY <1>0, <1>9, NetworkKeeps DEF Lose
<1>10. CASE StartFails \/ StartListener \/ StartEviction \/ Started \/ Stop
  BY <1>0, <1>10, NetworkKeeps
  DEF StartFails, StartListener, StartEviction, Started, Stop, network
<1>11. CASE \E p \in Places : ListenerEnds(p) \/ EvictionEnds(p)
  BY <1>0, <1>11, NetworkKeeps DEF ListenerEnds, EvictionEnds, network
<1>12. CASE UNCHANGED vars
  BY <1>0, <1>12, NetworkKeeps DEF vars, network
<1> QED BY <1>1, <1>2, <1>3, <1>4, <1>5, <1>6, <1>7, <1>8, <1>9, <1>10, <1>11, <1>12 DEF Next

(* Whatever the number of nodes and however start, stop, adverts, ticks    *)
(* and the threads' callbacks interleave: a peer in the cluster view is    *)
(* known or on an eviction thread's list, a peer being announced is still  *)
(* known, and the node never lists itself.                                 *)
THEOREM GhostFree == Spec => []NoGhostPeers
<1>1. Spec => []DiscoveryInv
  BY DiscoveryStart, DiscoveryStep, PTL DEF Spec
<1> QED BY <1>1, DiscoveryPromises, PTL

-----------------------------------------------------------------------------
(* Plans that are lists of decisions: GreedyPolicy and ThresholdPolicy *)

Decisions ==
    [node : 0 .. NumPeers, profile : PlanProfiles,
     reason : {"LocalCapacity", "LeastLoaded", "ThresholdOffload", "Fallback"}]

At(list, n) == {i \in 1 .. Len(list) : list[i].node = n}
Mems(list) == [i \in DOMAIN list |-> list[i].profile.mem]
Costs(list) == [i \in DOMAIN list |-> list[i].profile.cost]
MemAt(list, n) == SumFunctionOnSet(Mems(list), At(list, n))
CostAt(list, n) == SumFunctionOnSet(Costs(list), At(list, n))

(* A decision that is appended to a plan adds its memory and its cost to   *)
(* the sums of its own node, and to no other.                              *)
LEMMA OneMoreDecision ==
    ASSUME NEW list \in Seq(Decisions), NEW d \in Decisions, NEW n \in 0 .. NumPeers
    PROVE  /\ Append(list, d) \in Seq(Decisions)
           /\ MemAt(list, n) \in Nat /\ CostAt(list, n) \in Nat
           /\ d.node # n => /\ At(Append(list, d), n) = At(list, n)
                            /\ MemAt(Append(list, d), n) = MemAt(list, n)
                            /\ CostAt(Append(list, d), n) = CostAt(list, n)
           /\ d.node = n => /\ At(Append(list, d), n) = At(list, n) \cup {Len(list) + 1}
                            /\ MemAt(Append(list, d), n) = MemAt(list, n) + d.profile.mem
                            /\ CostAt(Append(list, d), n) = CostAt(list, n) + d.profile.cost
<1> DEFINE k == Len(list)
           more == Append(list, d)
<1>1. /\ k \in Nat /\ DOMAIN list = 1 .. k /\ Len(more) = k + 1 /\ DOMAIN more = 1 .. k + 1
      /\ more \in Seq(Decisions) /\ more[k + 1] = d
      /\ \A i \in 1 .. k : more[i] = list[i] /\ list[i] \in Decisions
  OBVIOUS
<1> HIDE DEF k, more
<1>2. \A e \in Decisions : e.profile.mem \in Nat /\ e.profile.cost \in Nat
  BY PolicyAssumption DEF Decisions
<1>3. /\ \A i \in 1 .. k : Mems(list)[i] \in Nat /\ Mems(more)[i] = Mems(list)[i]
      /\ Mems(more)[k + 1] = d.profile.mem /\ Mems(more)[k + 1] \in Nat
  BY <1>1, <1>2 DEF Mems
<1>4. /\ \A i \in 1 .. k : Costs(list)[i] \in Nat /\ Costs(more)[i] = Costs(list)[i]
      /\ Costs(more)[k + 1] = d.profile.cost /\ Costs(more)[k + 1] \in Nat
  BY <1>1, <1>2 DEF Costs
<1>5. At(list, n) \in SUBSET (1 .. k) /\ IsFiniteSet(At(list, n)) /\ k + 1 \notin At(list, n)
  <2>1. At(list, n) \in SUBSET (1 .. k)
    BY DEF At, k
  <2>2. IsFiniteSet(1 .. k)
    BY <1>1, FirstNumbers
  <2>3. IsFiniteSet(At(list, n))
    BY <2>1, <2>2, FS_Subset
  <2> QED BY <1>1, <2>1, <2>3
<1>6. At(more, n) = IF d.node = n THEN At(list, n) \cup {k + 1} ELSE At(list, n)
  BY <1>1 DEF At, k
<1>7. /\ MemAt(list, n) \in Nat
      /\ SumFunctionOnSet(Mems(more), At(list, n)) = MemAt(list, n)
      /\ SumFunctionOnSet(Mems(more), At(list, n) \cup {k + 1}) = MemAt(list, n) + d.profile.mem
  <2>1. /\ SumFunctionOnSet(Mems(list), At(list, n)) \in Nat
        /\ SumFunctionOnSet(Mems(more), At(list, n)) = SumFunctionOnSet(Mems(list), At(list, n))
        /\ SumFunctionOnSet(Mems(more), At(list, n) \cup {k + 1})
              = SumFunctionOnSet(Mems(list), At(list, n)) + Mems(more)[k + 1]
    <3> DEFINE f == Mems(list)
               g == Mems(more)
    <3>1. (\A i \in At(list, n) : f[i] \in Nat /\ g[i] = f[i]) /\ g[k + 1] \in Nat
      BY <1>3, <1>5
    <3> HIDE DEF f, g
    <3>2. /\ SumFunctionOnSet(f, At(list, n)) \in Nat
          /\ SumFunctionOnSet(g, At(list, n)) = SumFunctionOnSet(f, At(list, n))
          /\ SumFunctionOnSet(g, At(list, n) \cup {k + 1})
                = SumFunctionOnSet(f, At(list, n)) + g[k + 1]
      <4>1. SumFunctionOnSet(f, At(list, n)) \in Nat
        BY <1>5, <3>1, SumNat
      <4>2. SumFunctionOnSet(g, At(list, n)) = SumFunctionOnSet(f, At(list, n))
        BY <1>5, <3>1, SumSame
      <4>3. SumFunctionOnSet(g, At(list, n) \cup {k + 1}) = SumFunctionOnSet(g, At(list, n)) + g[k + 1]
        <5>1. \A i \in At(list, n) \cup {k + 1} : g[i] \in Nat
          BY <3>1
        <5> QED BY <1>5, <5>1, SumInsert
      <4> QED BY <4>1, <4>2, <4>3
    <3> QED BY <3>2 DEF f, g
  <2> QED BY <1>3, <2>1 DEF MemAt
<1>8. /\ CostAt(list, n) \in Nat
      /\ SumFunctionOnSet(Costs(more), At(list, n)) = CostAt(list, n)
      /\ SumFunctionOnSet(Costs(more), At(list, n) \cup {k + 1}) = CostAt(list, n) + d.profile.cost
  <2>1. /\ SumFunctionOnSet(Costs(list), At(list, n)) \in Nat
        /\ SumFunctionOnSet(Costs(more), At(list, n)) = SumFunctionOnSet(Costs(list), At(list, n))
        /\ SumFunctionOnSet(Costs(more), At(list, n) \cup {k + 1})
              = SumFunctionOnSet(Costs(list), At(list, n)) + Costs(more)[k + 1]
    <3> DEFINE f == Costs(list)
               g == Costs(more)
    <3>1. (\A i \in At(list, n) : f[i] \in Nat /\ g[i] = f[i]) /\ g[k + 1] \in Nat
      BY <1>4, <1>5
    <3> HIDE DEF f, g
    <3>2. /\ SumFunctionOnSet(f, At(list, n)) \in Nat
          /\ SumFunctionOnSet(g, At(list, n)) = SumFunctionOnSet(f, At(list, n))
          /\ SumFunctionOnSet(g, At(list, n) \cup {k + 1})
                = SumFunctionOnSet(f, At(list, n)) + g[k + 1]
      <4>1. SumFunctionOnSet(f, At(list, n)) \in Nat
        BY <1>5, <3>1, SumNat
      <4>2. SumFunctionOnSet(g, At(list, n)) = SumFunctionOnSet(f, At(list, n))
        BY <1>5, <3>1, SumSame
      <4>3. SumFunctionOnSet(g, At(list, n) \cup {k + 1}) = SumFunctionOnSet(g, At(list, n)) + g[k + 1]
        <5>1. \A i \in At(list, n) \cup {k + 1} : g[i] \in Nat
          BY <3>1
        <5> QED BY <1>5, <5>1, SumInsert
      <4> QED BY <4>1, <4>2, <4>3
    <3> QED BY <3>2 DEF f, g
  <2> QED BY <1>4, <2>1 DEF CostAt
<1>9. CASE d.node = n
  BY <1>1, <1>6, <1>7, <1>8, <1>9 DEF MemAt, CostAt, k, more
<1>10. CASE d.node # n
  BY <1>1, <1>6, <1>7, <1>8, <1>10 DEF MemAt, CostAt, k, more
<1> QED BY <1>9, <1>10

(* The sums of a plan are natural numbers. *)
LEMMA AnyPlan ==
    ASSUME NEW list \in Seq(Decisions), NEW n \in 0 .. NumPeers
    PROVE  MemAt(list, n) \in Nat /\ CostAt(list, n) \in Nat
<1>1. \A i \in At(list, n) : Mems(list)[i] \in Nat /\ Costs(list)[i] \in Nat
  <2>1. \A e \in Decisions : e.profile.mem \in Nat /\ e.profile.cost \in Nat
    BY PolicyAssumption DEF Decisions
  <2>2. \A i \in At(list, n) : i \in DOMAIN list /\ list[i] \in Decisions
    BY DEF At
  <2> QED BY <2>1, <2>2 DEF Mems, Costs
<1>2. IsFiniteSet(At(list, n))
  <2>1. IsFiniteSet(1 .. Len(list))
    BY FirstNumbers
  <2>2. At(list, n) \subseteq 1 .. Len(list)
    BY DEF At
  <2> QED BY <2>1, <2>2, FS_Subset
<1> QED BY <1>1, <1>2, SumNat DEF MemAt, CostAt

(* They are zero for the empty plan. *)
LEMMA EmptyPlan ==
    ASSUME NEW n PROVE At(<<>>, n) = {} /\ MemAt(<<>>, n) = 0 /\ CostAt(<<>>, n) = 0
<1>1. At(<<>>, n) = {}
  BY DEF At
<1> QED BY <1>1, FS_EmptySet, SumByFirst DEF MemAt, CostAt

-----------------------------------------------------------------------------
(* GreedyPolicy *)

(* What the loop over the tasks keeps: the simulated nodes are what the     *)
(* decisions taken so far leave of the snapshots, except that the local    *)
(* node's memory is left alone by a task that fits nowhere.                *)
GreedyInv ==
    /\ todo \in Seq(PlanProfiles) /\ plan \in Seq(Decisions)
    /\ start \in [0 .. NumPeers -> Snapshots] /\ avail \in [0 .. NumPeers -> Nat]
    /\ compute = [n \in 0 .. NumPeers |-> CostAt(plan, n)]
    /\ \A n \in 1 .. NumPeers : MemAt(plan, n) + avail[n] = start[n].avail
    /\ \/ MemAt(plan, 0) + avail[0] = start[0].avail
       \/ \E i \in At(plan, 0) : \A n \in 0 .. NumPeers : plan[i].profile.mem > avail[n]
    /\ makespan # <<>> => /\ todo = <<>>
                          /\ makespan = <<Max({compute[n] : n \in 0 .. NumPeers})>>

(* The tasks handed to schedule() are a sequence. *)
LEMMA TasksToDo ==
    ASSUME todo \in UNION {[1 .. n -> PlanProfiles] : n \in 0 .. MaxTasks}
    PROVE  todo \in Seq(PlanProfiles)
<1>1. PICK n \in 0 .. MaxTasks : todo \in [1 .. n -> PlanProfiles]
  OBVIOUS
<1> QED BY <1>1, PolicyAssumption

(* The fields of a snapshot. *)
LEMMA SnapshotParts ==
    ASSUME NEW s \in Snapshots
    PROVE  s.avail \in Nat /\ s.total \in Nat /\ s.avail <= s.total /\ s.cpu \in 0 .. 100
  BY PolicyAssumption

(* The fields of a profile. *)
LEMMA ProfileParts ==
    ASSUME NEW p \in PlanProfiles
    PROVE  p.mem \in Nat /\ p.cost \in Nat /\ p.transfer \in Nat
  BY PolicyAssumption

(* The loop starts with nothing placed and the snapshots untouched. *)
LEMMA GreedyStart ==
    ASSUME PlanInit, policy = "greedy" PROVE GreedyInv
<1>1. GreedyInit
  BY DEF PlanInit
<1>2. todo \in Seq(PlanProfiles)
  BY <1>1, TasksToDo DEF GreedyInit, ListInit
<1>3. plan \in Seq(Decisions) /\ makespan = <<>> /\ plan = <<>>
  BY <1>1 DEF GreedyInit, ListInit
<1>4. start \in [0 .. NumPeers -> Snapshots] /\ avail = [n \in 0 .. NumPeers |-> start[n].avail]
  BY <1>1 DEF GreedyInit, ListInit, Cluster
<1>5. \A n \in 0 .. NumPeers : start[n].avail \in Nat /\ avail[n] = start[n].avail
  BY <1>4, SnapshotParts
<1>6. compute = [n \in 0 .. NumPeers |-> CostAt(plan, n)]
  BY <1>1, EmptyPlan DEF GreedyInit, ListInit, Cluster
<1>7. \A n \in 0 .. NumPeers : MemAt(plan, n) = 0
  BY <1>3, EmptyPlan
<1>8. 0 \in 0 .. NumPeers /\ \A n \in 1 .. NumPeers : n \in 0 .. NumPeers
  BY PolicyAssumption
<1> QED BY <1>2, <1>3, <1>4, <1>5, <1>6, <1>7, <1>8 DEF GreedyInv

(* The node chosen fits the task; it is the local node if none does. *)
LEMMA BestNode ==
    ASSUME GreedyInv, NEW p \in PlanProfiles
    PROVE  /\ Best(p) \in 0 .. NumPeers
           /\ p.mem <= avail[Best(p)] \/ (Best(p) = 0 /\ \A n \in 0 .. NumPeers : p.mem > avail[n])
<1> DEFINE fit == Fitting(p)
           val(n) == Score(n, p)
           best == {n \in fit : \A m \in fit : val(m) <= val(n)}
<1>1. Best(p) = IF best = {} THEN 0 ELSE Min(best)
  BY DEF Best
<1>2. fit \subseteq 0 .. NumPeers /\ \A n \in 0 .. NumPeers : n \in fit <=> p.mem <= avail[n]
  BY DEF Fitting, Cluster
<1>3. \A n \in 0 .. NumPeers : val(n) \in Int
  <2> SUFFICES ASSUME NEW n \in 0 .. NumPeers PROVE Score(n, p) \in Int
    OBVIOUS
  <2>1. start[n] \in Snapshots /\ avail[n] \in Nat
    BY DEF GreedyInv
  <2>2. start[n].total \in Nat /\ start[n].cpu \in Int
    BY <2>1, SnapshotParts
  <2>3. MemoryHeadroom(n) \in Int
    BY <2>1, <2>2 DEF MemoryHeadroom
  <2>4. p.data \in Nat
    BY PolicyAssumption
  <2> QED BY <2>2, <2>3, <2>4 DEF Score
<1>4. ASSUME fit # {} PROVE best # {} /\ best \subseteq fit /\ Min(best) \in best
  <2> DEFINE score == [n \in fit |-> val(n)]
  <2>1. IsFiniteSet(fit)
    <3>1. IsFiniteSet(0 .. NumPeers)
      BY FirstNumbers, PolicyAssumption
    <3> QED BY <1>2, <3>1, FS_Subset
  <2>2. \A n \in fit : score[n] = val(n) /\ score[n] \in Int
    BY <1>2, <1>3
  <2>3. \E n \in fit : \A m \in fit : score[m] <= score[n]
    <3> HIDE DEF score, fit
    <3> QED BY <1>4, <2>1, <2>2, Greatest
  <2>4. PICK n \in fit : \A m \in fit : val(m) <= val(n)
    BY <2>2, <2>3
  <2>5. n \in best
    BY <2>4
  <2>6. best \subseteq Nat
    BY <1>2
  <2> HIDE DEF best
  <2> QED BY <2>5, <2>6, MinOf DEF best
<1>5. fit = {} => best = {} /\ \A n \in 0 .. NumPeers : ~ (p.mem <= avail[n])
  BY <1>2
<1>6. \A n \in 0 .. NumPeers : avail[n] \in Nat
  BY DEF GreedyInv
<1>7. p.mem \in Nat /\ 0 \in 0 .. NumPeers
  BY ProfileParts, PolicyAssumption
<1>8. fit # {} => Min(best) \in fit
  BY <1>4
<1> HIDE DEF fit, best
<1>9. CASE fit = {}
  BY <1>1, <1>5, <1>6, <1>7, <1>9
<1>10. CASE fit # {}
  <2>1. Best(p) = Min(best)
    BY <1>1, <1>4, <1>10
  <2> QED BY <1>2, <1>8, <1>10, <2>1
<1> QED BY <1>9, <1>10

(* One round of the loop: the node that takes the task has the memory, or  *)
(* no node has it and the task itself is the one that overbooks.           *)
LEMMA GreedyAssign ==
    ASSUME GreedyInv, Assign PROVE GreedyInv'
<1> DEFINE p == Head(todo)
           n == Best(p)
           d == [node |-> n, profile |-> p, reason |-> IF n = 0 THEN "LocalCapacity" ELSE "LeastLoaded"]
<1>1. /\ todo # <<>> /\ todo' = Tail(todo) /\ UNCHANGED <<start, makespan>>
      /\ plan' = Append(plan, d)
      /\ compute' = [compute EXCEPT ![n] = @ + p.cost]
      /\ avail' = [avail EXCEPT ![n] = IF @ >= p.mem THEN @ - p.mem ELSE @]
  BY DEF Assign, Decide
<1>2. /\ todo \in Seq(PlanProfiles) /\ plan \in Seq(Decisions) /\ makespan = <<>>
      /\ start \in [0 .. NumPeers -> Snapshots] /\ avail \in [0 .. NumPeers -> Nat]
      /\ compute = [m \in 0 .. NumPeers |-> CostAt(plan, m)]
  BY <1>1 DEF GreedyInv
<1>3. p \in PlanProfiles /\ todo' \in Seq(PlanProfiles)
  BY <1>1, <1>2
<1> HIDE DEF p
<1>4. /\ n \in 0 .. NumPeers
      /\ p.mem <= avail[n] \/ (n = 0 /\ \A m \in 0 .. NumPeers : p.mem > avail[m])
  BY <1>3, BestNode
<1>5. p.mem \in Nat /\ p.cost \in Nat
  BY <1>3, ProfileParts
<1> HIDE DEF n
<1>6. d \in Decisions /\ d.node = n /\ d.profile = p
  BY <1>3, <1>4 DEF Decisions
<1> HIDE DEF d
<1>7. \A m \in 0 .. NumPeers :
         /\ MemAt(plan, m) \in Nat /\ CostAt(plan, m) \in Nat
         /\ m # n => /\ MemAt(plan', m) = MemAt(plan, m) /\ CostAt(plan', m) = CostAt(plan, m)
                     /\ At(plan', m) = At(plan, m)
         /\ m = n => /\ MemAt(plan', m) = MemAt(plan, m) + p.mem
                     /\ CostAt(plan', m) = CostAt(plan, m) + p.cost
                     /\ At(plan', m) = At(plan, m) \cup {Len(plan) + 1}
  BY <1>1, <1>2, <1>6, OneMoreDecision
<1>8. plan' \in Seq(Decisions)
  BY <1>1, <1>2, <1>6
<1>9. /\ avail' \in [0 .. NumPeers -> Nat] /\ \A m \in 0 .. NumPeers : avail'[m] <= avail[m]
      /\ \A m \in 0 .. NumPeers : m # n => avail'[m] = avail[m]
      /\ p.mem <= avail[n] => avail'[n] = avail[n] - p.mem
  <2>1. avail' = [m \in 0 .. NumPeers |->
                    IF m = n /\ avail[n] >= p.mem THEN avail[n] - p.mem ELSE avail[m]]
    BY <1>1, <1>2, <1>4
  <2>2. avail[n] \in Nat /\ \A m \in 0 .. NumPeers : avail[m] \in Nat
    BY <1>2, <1>4
  <2>3. avail[n] >= p.mem => avail[n] - p.mem \in Nat /\ avail[n] - p.mem <= avail[n]
    BY <1>5, <2>2
  <2>4. \A m \in 0 .. NumPeers : avail[m] <= avail[m]
    BY <2>2
  <2>5. p.mem <= avail[n] => avail[n] >= p.mem
    BY <1>5, <2>2
  <2> QED BY <1>4, <2>1, <2>2, <2>3, <2>4, <2>5
<1>10. compute' = [m \in 0 .. NumPeers |-> CostAt(plan', m)]
  <2>1. \A m \in 0 .. NumPeers : compute'[m] = IF m = n THEN compute[m] + p.cost ELSE compute[m]
    BY <1>1, <1>2, <1>4
  <2>2. \A m \in 0 .. NumPeers : compute[m] = CostAt(plan, m)
    BY <1>2
  <2>3. \A m \in 0 .. NumPeers : compute'[m] = CostAt(plan', m)
    BY <1>7, <2>1, <2>2
  <2>4. compute' = [m \in 0 .. NumPeers |-> compute'[m]]
    BY <1>1, <1>2
  <2> QED BY <2>3, <2>4
<1>11. ASSUME NEW m \in 0 .. NumPeers, MemAt(plan, m) + avail[m] = start[m].avail,
              m # n \/ p.mem <= avail[n]
       PROVE  MemAt(plan', m) + avail'[m] = start'[m].avail
  <2>1. avail[m] \in Nat
    BY <1>2
  <2> QED BY <1>1, <1>5, <1>7, <1>9, <1>11, <2>1
<1>12. \A m \in 1 .. NumPeers : MemAt(plan', m) + avail'[m] = start'[m].avail
  <2> SUFFICES ASSUME NEW m \in 1 .. NumPeers PROVE MemAt(plan', m) + avail'[m] = start'[m].avail
    OBVIOUS
  <2>1. m \in 0 .. NumPeers /\ m # 0 /\ MemAt(plan, m) + avail[m] = start[m].avail
    BY DEF GreedyInv
  <2> QED BY <1>4, <1>11, <2>1
<1>13. /\ \A i \in At(plan, 0) : i \in 1 .. Len(plan) /\ plan'[i] = plan[i] /\ plan[i] \in Decisions
       /\ plan'[Len(plan) + 1] = d
  BY <1>1, <1>2 DEF At
<1>14. 0 \in 0 .. NumPeers
  BY PolicyAssumption
<1>15. \/ MemAt(plan', 0) + avail'[0] = start'[0].avail
       \/ \E i \in At(plan', 0) : \A m \in 0 .. NumPeers : plan'[i].profile.mem > avail'[m]
  <2>1. CASE n = 0 /\ \A m \in 0 .. NumPeers : p.mem > avail[m]
    <3>1. \A m \in 0 .. NumPeers : p.mem > avail'[m]
      BY <1>2, <1>5, <1>9, <2>1
    <3> QED BY <1>6, <1>7, <1>13, <1>14, <2>1, <3>1
  <2>2. CASE p.mem <= avail[n] /\ MemAt(plan, 0) + avail[0] = start[0].avail
    BY <1>11, <1>14, <2>2
  <2>3. CASE \E i \in At(plan, 0) : \A m \in 0 .. NumPeers : plan[i].profile.mem > avail[m]
    <3>1. PICK i \in At(plan, 0) : \A m \in 0 .. NumPeers : plan[i].profile.mem > avail[m]
      BY <2>3
    <3>2. plan[i].profile.mem \in Nat /\ i \in At(plan', 0)
      <4>1. plan[i].profile \in PlanProfiles
        BY <1>13 DEF Decisions
      <4>2. i \in At(plan', 0)
        BY <1>7, <1>14
      <4> QED BY <4>1, <4>2, ProfileParts
    <3>3. \A m \in 0 .. NumPeers : plan[i].profile.mem > avail'[m]
      BY <1>2, <1>9, <3>1, <3>2
    <3> QED BY <1>13, <3>2, <3>3
  <2>4. \/ MemAt(plan, 0) + avail[0] = start[0].avail
        \/ \E i \in At(plan, 0) : \A m \in 0 .. NumPeers : plan[i].profile.mem > avail[m]
    BY DEF GreedyInv
  <2> QED BY <1>4, <2>1, <2>2, <2>3, <2>4
<1> QED BY <1>1, <1>2, <1>3, <1>8, <1>9, <1>10, <1>12, <1>15 DEF GreedyInv

(* Every step of the greedy policy keeps the invariant. *)
LEMMA GreedyStep ==
    ASSUME GreedyInv, GreedyNext \/ UNCHANGED <<start, makespan, greedyVars, listVars>>
    PROVE  GreedyInv'
<1>1. CASE Assign
  BY <1>1, GreedyAssign
<1>2. CASE GreedyFinish
  <2>1. /\ todo = <<>> /\ UNCHANGED <<todo, start, avail, compute, plan>>
        /\ makespan' = <<Max({compute[n] : n \in 0 .. NumPeers})>>
    BY <1>2 DEF GreedyFinish, Cluster, listVars, greedyVars
  <2> QED BY <2>1 DEF GreedyInv
<1>3. CASE GreedyDone \/ UNCHANGED <<start, makespan, greedyVars, listVars>>
  BY <1>3 DEF GreedyDone, greedyVars, listVars, GreedyInv
<1> QED BY <1>1, <1>2, <1>3 DEF GreedyNext

(* The invariant contains what is promised of greedy plans. *)
LEMMA GreedyPromises ==
    ASSUME GreedyInv
    PROVE  GreedyWithinMemory /\ OverbookedOnlyWhenFull /\ MakespanIsBusiestNode
<1>1. \A n : Placed(n) = At(plan, n)
  BY DEF Placed, At
<1>2. \A n : MemoryOn(n) = MemAt(plan, n) /\ ComputeOn(n) = CostAt(plan, n)
  BY <1>1 DEF MemoryOn, ComputeOn, MemAt, CostAt, Mems, Costs
<1>3. \A n \in 0 .. NumPeers : /\ avail[n] \in Nat /\ start[n].avail \in Nat
                               /\ MemAt(plan, n) \in Nat
  <2> SUFFICES ASSUME NEW n \in 0 .. NumPeers
               PROVE  avail[n] \in Nat /\ start[n].avail \in Nat /\ MemAt(plan, n) \in Nat
    OBVIOUS
  <2>1. MemAt(plan, n) \in Nat
    BY AnyPlan DEF GreedyInv
  <2>2. avail[n] \in Nat /\ start[n] \in Snapshots
    BY DEF GreedyInv
  <2> QED BY <2>1, <2>2, SnapshotParts
<1>4. GreedyWithinMemory
  <2> SUFFICES ASSUME NEW n \in (0 .. NumPeers) \ {0} PROVE MemAt(plan, n) <= start[n].avail
    BY <1>2 DEF GreedyWithinMemory, Peers, Cluster
  <2>1. n \in 1 .. NumPeers
    BY PolicyAssumption
  <2>2. MemAt(plan, n) + avail[n] = start[n].avail
    BY <2>1 DEF GreedyInv
  <2> QED BY <1>3, <2>2
<1>5. OverbookedOnlyWhenFull
  <2>1. SUFFICES ASSUME MemAt(plan, 0) > start[0].avail
                 PROVE  \E i \in At(plan, 0) : \A n \in 0 .. NumPeers : plan[i].profile.mem > avail[n]
    BY <1>1, <1>2 DEF OverbookedOnlyWhenFull, Cluster
  <2>2. 0 \in 0 .. NumPeers
    BY PolicyAssumption
  <2>3. MemAt(plan, 0) + avail[0] # start[0].avail
    BY <1>3, <2>1, <2>2
  <2> QED BY <2>3 DEF GreedyInv
<1>6. MakespanIsBusiestNode
  <2>1. {ComputeOn(n) : n \in 0 .. NumPeers} = {compute[n] : n \in 0 .. NumPeers}
    BY <1>2 DEF GreedyInv
  <2>2. makespan # <<>> => makespan[1] = Max({compute[n] : n \in 0 .. NumPeers})
    BY DEF GreedyInv
  <2>3. makespan # <<>> => makespan[1] = Max({ComputeOn(n) : n \in 0 .. NumPeers})
    BY <2>1, <2>2
  <2> QED BY <2>3 DEF MakespanIsBusiestNode, Cluster
<1> QED BY <1>4, <1>5, <1>6

-----------------------------------------------------------------------------
(* ThresholdPolicy *)

(* The same for the threshold policy's loop, whose local node is never     *)
(* full: the simulated peers are what the decisions leave of the snapshots.*)
ThresholdInv ==
    /\ todo \in Seq(PlanProfiles) /\ plan \in Seq(Decisions)
    /\ start \in [0 .. NumPeers -> Snapshots]
    /\ sim_mem_used \in Nat /\ local_compute = CostAt(plan, 0)
    /\ peers \in [1 .. NumPeers -> [load : Nat, avail : Nat, compute : Nat]]
    /\ \A i \in 1 .. NumPeers : /\ MemAt(plan, i) + peers[i].avail = start[i].avail
                                /\ peers[i].compute = CostAt(plan, i)
    /\ makespan # <<>> =>
          /\ todo = <<>>
          /\ makespan = <<Max({local_compute} \cup {peers[i].compute : i \in 1 .. NumPeers})>>

(* The simulated peers start as the snapshots. *)
LEMMA ThresholdStart ==
    ASSUME PlanInit, policy = "threshold" PROVE ThresholdInv
<1>1. ThresholdInit
  BY DEF PlanInit
<1>2. todo \in Seq(PlanProfiles)
  BY <1>1, TasksToDo DEF ThresholdInit, ListInit
<1>3. plan \in Seq(Decisions) /\ makespan = <<>> /\ plan = <<>> /\ local_compute = 0
  BY <1>1 DEF ThresholdInit, ListInit
<1>4. start \in [0 .. NumPeers -> Snapshots]
  BY <1>1 DEF ThresholdInit, ListInit, Cluster
<1>5. \A n \in 0 .. NumPeers : /\ start[n].avail \in Nat /\ start[n].total \in Nat
                               /\ start[n].avail <= start[n].total /\ start[n].cpu \in 0 .. 100
  BY <1>4, SnapshotParts
<1>6. \A n \in 0 .. NumPeers : MemAt(plan, n) = 0 /\ CostAt(plan, n) = 0
  BY <1>3, EmptyPlan
<1>7. 0 \in 0 .. NumPeers /\ \A n \in 1 .. NumPeers : n \in 0 .. NumPeers
  BY PolicyAssumption
<1>8. sim_mem_used \in Nat
  BY <1>1, <1>5, <1>7 DEF ThresholdInit, ListInit
<1>9. peers = [i \in 1 .. NumPeers |-> [load |-> start[i].cpu, avail |-> start[i].avail, compute |-> 0]]
  BY <1>1 DEF ThresholdInit, ListInit, Peers
<1>10. peers \in [1 .. NumPeers -> [load : Nat, avail : Nat, compute : Nat]]
  <2>1. \A i \in 1 .. NumPeers : start[i].cpu \in Nat /\ start[i].avail \in Nat
    BY <1>5, <1>7
  <2> QED BY <1>9, <2>1
<1>11. \A i \in 1 .. NumPeers : /\ MemAt(plan, i) + peers[i].avail = start[i].avail
                                /\ peers[i].compute = CostAt(plan, i)
  BY <1>5, <1>6, <1>7, <1>9
<1> QED BY <1>2, <1>3, <1>4, <1>6, <1>7, <1>8, <1>10, <1>11 DEF ThresholdInv

(* The least loaded suitable peer exists if any peer is suitable, and has  *)
(* the memory.                                                             *)
LEMMA ChosenPeer ==
    ASSUME ThresholdInv, NEW p \in PlanProfiles, Suitable(p) # {}
    PROVE  BestPeer(p) \in 1 .. NumPeers /\ p.mem <= peers[BestPeer(p)].avail
<1> DEFINE fit == Suitable(p)
           least == {i \in fit : \A j \in fit : peers[i].load <= peers[j].load}
           light == [i \in fit |-> 0 - peers[i].load]
<1>1. fit \subseteq 1 .. NumPeers /\ \A i \in fit : peers[i].avail >= p.mem
  BY DEF Suitable, Peers
<1>2. \A i \in fit : peers[i].load \in Nat /\ peers[i].avail \in Nat
  BY <1>1 DEF ThresholdInv
<1>3. IsFiniteSet(fit)
  <2>1. IsFiniteSet(1 .. NumPeers)
    BY FirstNumbers, PolicyAssumption
  <2> QED BY <1>1, <2>1, FS_Subset
<1>4. \A i \in fit : light[i] = 0 - peers[i].load /\ light[i] \in Int
  BY <1>2
<1>5. PICK i \in fit : \A j \in fit : light[j] <= light[i]
  <2> HIDE DEF light, fit
  <2> QED BY <1>3, <1>4, Greatest DEF fit
<1>6. \A j \in fit : peers[i].load <= peers[j].load
  BY <1>2, <1>4, <1>5
<1>7. i \in least /\ least \subseteq Nat
  BY <1>1, <1>6
<1>8. Min(least) \in least
  <2> HIDE DEF least
  <2> QED BY <1>7, MinOf
<1>9. BestPeer(p) \in fit
  BY <1>8 DEF BestPeer
<1>10. p.mem \in Nat
  BY ProfileParts
<1> QED BY <1>1, <1>2, <1>9, <1>10

(* An offload takes from the peer what it has, so the unsigned difference  *)
(* does not wrap.                                                          *)
LEMMA ThresholdOffload ==
    ASSUME ThresholdInv, OffloadToPeer PROVE ThresholdInv'
<1> DEFINE p == Head(todo)
           n == BestPeer(p)
           d == [node |-> n, reason |-> "ThresholdOffload", profile |-> p]
           q == peers[n]
<1>1. /\ todo # <<>> /\ todo' = Tail(todo) /\ Suitable(p) # {} /\ plan' = Append(plan, d)
      /\ peers' = [peers EXCEPT ![n] = [load |-> q.load + p.cost, avail |-> (q.avail - p.mem) % Uint64,
                                        compute |-> q.compute + p.cost]]
      /\ UNCHANGED <<start, makespan, sim_mem_used, local_compute>>
  BY DEF OffloadToPeer, Decide
<1>2. /\ todo \in Seq(PlanProfiles) /\ plan \in Seq(Decisions) /\ makespan = <<>>
      /\ start \in [0 .. NumPeers -> Snapshots] /\ local_compute = CostAt(plan, 0)
      /\ peers \in [1 .. NumPeers -> [load : Nat, avail : Nat, compute : Nat]]
  BY <1>1 DEF ThresholdInv
<1>3. p \in PlanProfiles /\ todo' \in Seq(PlanProfiles)
  BY <1>1, <1>2
<1> HIDE DEF p
<1>4. n \in 1 .. NumPeers /\ p.mem <= q.avail
  BY <1>1, <1>3, ChosenPeer
<1>5. p.mem \in Nat /\ p.cost \in Nat
  BY <1>3, ProfileParts
<1> HIDE DEF n
<1>6. d \in Decisions /\ d.node = n /\ d.profile = p
  BY <1>3, <1>4 DEF Decisions
<1> HIDE DEF d
<1>7. \A m \in 0 .. NumPeers :
         /\ MemAt(plan, m) \in Nat /\ CostAt(plan, m) \in Nat
         /\ m # n => MemAt(plan', m) = MemAt(plan, m) /\ CostAt(plan', m) = CostAt(plan, m)
         /\ m = n => /\ MemAt(plan', m) = MemAt(plan, m) + p.mem
                     /\ CostAt(plan', m) = CostAt(plan, m) + p.cost
  BY <1>1, <1>2, <1>6, OneMoreDecision
<1>8. plan' \in Seq(Decisions)
  BY <1>1, <1>2, <1>6
<1>9. /\ 0 \in 0 .. NumPeers /\ 0 # n /\ n \in 0 .. NumPeers
      /\ \A i \in 1 .. NumPeers : i \in 0 .. NumPeers
  BY <1>4, PolicyAssumption
<1>10. local_compute' = CostAt(plan', 0)
  BY <1>1, <1>2, <1>7, <1>9
<1>11. q.load \in Nat /\ q.avail \in Nat /\ q.compute \in Nat
  BY <1>2, <1>4
<1>12. MemAt(plan, n) + q.avail = start[n].avail /\ q.compute = CostAt(plan, n)
  BY <1>4 DEF ThresholdInv
<1> HIDE DEF q
<1>13. (q.avail - p.mem) % Uint64 = q.avail - p.mem /\ q.avail - p.mem \in Nat
  <2>1. start[n].avail \in Nat /\ start[n].total \in Nat /\ start[n].avail <= start[n].total
    BY <1>2, <1>9, SnapshotParts
  <2>2. start[n] \in Snapshots
    BY <1>2, <1>9
  <2>3. start[n].total + MaxTasks * p.mem < Uint64
    BY <1>3, <2>2, PolicyAssumption DEF NoWrap
  <2>4. MaxTasks * p.mem \in Nat /\ Uint64 \in Nat
    BY <1>5, PolicyAssumption
  <2>5. MemAt(plan, n) \in Nat
    BY <1>7, <1>9
  <2>6. q.avail - p.mem \in Nat /\ q.avail - p.mem < Uint64
    BY <1>4, <1>5, <1>11, <1>12, <2>1, <2>3, <2>4, <2>5 DEF q
  <2> QED BY <2>4, <2>6
<1>14. peers' = [peers EXCEPT ![n] = [load |-> q.load + p.cost, avail |-> q.avail - p.mem,
                                      compute |-> q.compute + p.cost]]
  BY <1>1, <1>13 DEF q
<1>15. peers' \in [1 .. NumPeers -> [load : Nat, avail : Nat, compute : Nat]]
  BY <1>2, <1>4, <1>5, <1>11, <1>13, <1>14
<1>16. ASSUME NEW i \in 1 .. NumPeers
       PROVE  /\ MemAt(plan', i) + peers'[i].avail = start'[i].avail
              /\ peers'[i].compute = CostAt(plan', i)
  <2>1. MemAt(plan, i) + peers[i].avail = start[i].avail /\ peers[i].compute = CostAt(plan, i)
    BY DEF ThresholdInv
  <2>2. CASE i = n
    <3>1. peers'[i].avail = q.avail - p.mem /\ peers'[i].compute = q.compute + p.cost
      BY <1>2, <1>4, <1>14, <2>2
    <3>2. /\ MemAt(plan', i) = MemAt(plan, n) + p.mem /\ MemAt(plan, n) \in Nat
          /\ CostAt(plan', i) = CostAt(plan, n) + p.cost
      BY <1>7, <1>9, <2>2
    <3> QED BY <1>1, <1>5, <1>11, <1>12, <2>2, <3>1, <3>2
  <2>3. CASE i # n
    BY <1>1, <1>2, <1>7, <1>9, <1>14, <2>1, <2>3
  <2> QED BY <2>2, <2>3
<1> QED BY <1>1, <1>2, <1>3, <1>8, <1>10, <1>15, <1>16 DEF ThresholdInv

(* A task that stays local, within capacity or as a fallback, does not     *)
(* touch the simulated peers.                                              *)
LEMMA ThresholdLocal ==
    ASSUME ThresholdInv, NEW reason \in {"LocalCapacity", "Fallback"},
           todo # <<>>, Decide(0, reason), local_compute' = local_compute + Head(todo).cost,
           sim_mem_used' = sim_mem_used + Head(todo).mem, UNCHANGED peers
    PROVE  ThresholdInv'
<1> DEFINE p == Head(todo)
           d == [node |-> 0, reason |-> reason, profile |-> p]
<1>1. todo' = Tail(todo) /\ plan' = Append(plan, d) /\ UNCHANGED <<start, makespan, peers>>
  BY DEF Decide
<1>2. /\ todo \in Seq(PlanProfiles) /\ plan \in Seq(Decisions) /\ makespan = <<>>
      /\ start \in [0 .. NumPeers -> Snapshots] /\ local_compute = CostAt(plan, 0)
      /\ peers \in [1 .. NumPeers -> [load : Nat, avail : Nat, compute : Nat]]
      /\ sim_mem_used \in Nat
  BY <1>1 DEF ThresholdInv
<1>3. p \in PlanProfiles /\ todo' \in Seq(PlanProfiles)
  BY <1>1, <1>2
<1>4. p.mem \in Nat /\ p.cost \in Nat
  BY <1>3, ProfileParts
<1>5. local_compute' = local_compute + p.cost /\ sim_mem_used' \in Nat
  BY <1>2, <1>4
<1>6. 0 \in 0 .. NumPeers /\ \A i \in 1 .. NumPeers : i \in 0 .. NumPeers /\ i # 0
  <2>1. NumPeers \in Nat
    BY PolicyAssumption
  <2> QED BY <2>1
<1> HIDE DEF p
<1>7. d \in Decisions /\ d.node = 0 /\ d.profile = p
  BY <1>3, <1>6 DEF Decisions
<1> HIDE DEF d
<1>8. /\ CostAt(plan', 0) = CostAt(plan, 0) + p.cost
      /\ \A m \in 0 .. NumPeers : m # 0 =>
            MemAt(plan', m) = MemAt(plan, m) /\ CostAt(plan', m) = CostAt(plan, m)
  BY <1>1, <1>2, <1>6, <1>7, OneMoreDecision
<1>9. plan' \in Seq(Decisions)
  BY <1>1, <1>2, <1>7
<1>10. \A i \in 1 .. NumPeers : /\ MemAt(plan', i) + peers'[i].avail = start'[i].avail
                                /\ peers'[i].compute = CostAt(plan', i)
  BY <1>1, <1>6, <1>8 DEF ThresholdInv
<1> QED BY <1>1, <1>2, <1>3, <1>5, <1>8, <1>9, <1>10 DEF ThresholdInv

(* Every step of the threshold policy keeps the invariant. *)
LEMMA ThresholdStep ==
    ASSUME ThresholdInv, ThresholdNext \/ UNCHANGED <<start, makespan, thresholdVars, listVars>>
    PROVE  ThresholdInv'
<1>1. CASE ExecuteLocally
  BY <1>1, ThresholdLocal DEF ExecuteLocally
<1>2. CASE OffloadToPeer
  BY <1>2, ThresholdOffload
<1>3. CASE Fallback
  BY <1>3, ThresholdLocal DEF Fallback
<1>4. CASE ThresholdFinish
  <2>1. /\ todo = <<>> /\ UNCHANGED <<todo, start, sim_mem_used, local_compute, peers, plan>>
        /\ makespan' = <<Max({local_compute} \cup {peers[i].compute : i \in 1 .. NumPeers})>>
    BY <1>4 DEF ThresholdFinish, Peers, listVars, thresholdVars
  <2> QED BY <2>1 DEF ThresholdInv
<1>5. CASE ThresholdDone \/ UNCHANGED <<start, makespan, thresholdVars, listVars>>
  BY <1>5 DEF ThresholdDone, thresholdVars, listVars, ThresholdInv
<1> QED BY <1>1, <1>2, <1>3, <1>4, <1>5 DEF ThresholdNext

(* The invariant contains what is promised of threshold plans. A task      *)
(* taken for local capacity fits: below the memory threshold the node is   *)
(* not full, so the unsigned difference is the true one.                   *)
LEMMA ThresholdPromises ==
    ASSUME ThresholdInv
    PROVE  ThresholdWithinMemory /\ MakespanIsBusiestNode /\ LocalCapacityStep
<1>1. \A n : Placed(n) = At(plan, n)
  BY DEF Placed, At
<1>2. \A n : MemoryOn(n) = MemAt(plan, n) /\ ComputeOn(n) = CostAt(plan, n)
  BY <1>1 DEF MemoryOn, ComputeOn, MemAt, CostAt, Mems, Costs
<1>3. ThresholdWithinMemory
  BY <1>2 DEF ThresholdWithinMemory, Peers, ThresholdInv
<1>4. MakespanIsBusiestNode
  <2>1. 0 .. NumPeers = {0} \cup (1 .. NumPeers)
    BY PolicyAssumption
  <2>2. {ComputeOn(n) : n \in 0 .. NumPeers}
           = {local_compute} \cup {peers[i].compute : i \in 1 .. NumPeers}
    BY <1>2, <2>1 DEF ThresholdInv
  <2>3. makespan # <<>> =>
           makespan[1] = Max({local_compute} \cup {peers[i].compute : i \in 1 .. NumPeers})
    BY DEF ThresholdInv
  <2>4. makespan # <<>> => makespan[1] = Max({ComputeOn(n) : n \in 0 .. NumPeers})
    BY <2>2, <2>3
  <2> QED BY <2>4 DEF MakespanIsBusiestNode, Cluster
<1>5. LocalCapacityStep
  <2> DEFINE total == start[0].total
             used == sim_mem_used
             need == Head(todo).mem
  <2>1. SUFFICES ASSUME ExecuteLocally PROVE sim_mem_used' <= total
    BY DEF LocalCapacityStep, mem_total
  <2>2. /\ sim_mem_used' = used + need /\ todo # <<>>
        /\ 100 * used < MemThreshold * total /\ (total - used) % Uint64 >= need
    BY <2>1 DEF ExecuteLocally, Local, BelowThresholds, LocalHasMemory, mem_total
  <2>3. Head(todo) \in PlanProfiles /\ start[0] \in Snapshots /\ used \in Nat
    <3>1. /\ todo \in Seq(PlanProfiles) /\ start \in [0 .. NumPeers -> Snapshots]
          /\ sim_mem_used \in Nat
      BY DEF ThresholdInv
    <3>2. 0 \in 0 .. NumPeers
      BY PolicyAssumption
    <3> QED BY <2>2, <3>1, <3>2
  <2>4. total \in Nat /\ need \in Nat
    BY <2>3, ProfileParts, SnapshotParts
  <2>5. total + MaxTasks * need < Uint64
    BY <2>3, PolicyAssumption DEF NoWrap
  <2>6. MaxTasks * need \in Nat /\ Uint64 \in Nat /\ MemThreshold \in 0 .. 100
    BY <2>4, PolicyAssumption
  <2> HIDE DEF total, used, need
  <2>7. MemThreshold * total <= 100 * total
    BY <2>4, <2>6
  <2>8. used < total
    <3>1. MemThreshold * total \in Int
      BY <2>4, <2>6
    <3> QED BY <2>2, <2>3, <2>4, <2>7, <3>1
  <2>9. total - used \in 0 .. Uint64 - 1
    BY <2>3, <2>4, <2>5, <2>6, <2>8
  <2>10. (total - used) % Uint64 = total - used
    BY <2>6, <2>9
  <2> QED BY <2>2, <2>3, <2>4, <2>10
<1> QED BY <1>3, <1>4, <1>5

=============================================================================
