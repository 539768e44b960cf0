-------------------------- MODULE OptimizerProofs --------------------------
(***************************************************************************)
(* The optimizer's estimate, critical path, packing and search for any     *)
(* graph, and with them what all three policies promise.                   *)
(***************************************************************************)
EXTENDS ClusterProofs

-----------------------------------------------------------------------------
(* estimate_makespan *)

(* Tasks are numbered in topological order. *)
Dags == {d \in [1 .. NumTasks -> SUBSET (1 .. NumTasks)] :
            \A t \in 1 .. NumTasks : d[t] \subseteq 1 .. t - 1}

FreeTime(e, at, t) ==
    LET before == {u \in 1 .. t - 1 : at[u] = at[t]}
    IN  IF before = {} THEN 0 ELSE e[Max(before)]
Starts(e, prof, dep, at, t) ==
    {FreeTime(e, at, t)} \cup {e[d] + (IF at[d] = at[t] THEN 0 ELSE prof[d].transfer) : d \in dep[t]}
EndOf(e, prof, dep, at, t) == Max(Starts(e, prof, dep, at, t)) + prof[t].cost
IsEnds(e, prof, dep, at) == e = [t \in 1 .. NumTasks |-> EndOf(e, prof, dep, at, t)]
Ends(prof, dep, at) == CHOOSE e : IsEnds(e, prof, dep, at)
Span(prof, dep, at) == Max(Values(Ends(prof, dep, at), 1 .. NumTasks))

(* Span is estimate_makespan. *)
LEMMA SameEstimate ==
    ASSUME NEW at PROVE Estimate(at) = Span(profile, deps, at)
<1>1. EndTimes(at) = Ends(profile, deps, at)
  BY DEF EndTimes, FreeAt, Arrivals, PlanTasks, Ends, IsEnds, EndOf, Starts, FreeTime
<1> QED BY <1>1 DEF Estimate, PlanTasks, Span, Values

(* Max of the numbers below t that satisfy something. *)
LEMMA MaxBelow ==
    ASSUME NEW t \in Nat, NEW B \in SUBSET (1 .. t - 1), B # {}
    PROVE  Max(B) \in B /\ \A u \in B : u <= Max(B)
<1>1. B \subseteq 1 .. t
  OBVIOUS
<1>2. IsFiniteSet(1 .. t)
  BY FirstNumbers
<1>3. IsFiniteSet(B) /\ B \subseteq Int
  <2>1. IsFiniteSet(B)
    BY <1>1, <1>2, FS_Subset
  <2> QED BY <1>1, <2>1
<1>4. Max(B) \in B /\ \A u \in B : Max(B) >= u
  BY <1>3, MaxOf
<1> QED BY <1>3, <1>4

(* When a task ends depends on the tasks before it only. *)
LEMMA StartsLocal ==
    ASSUME NEW e, NEW g, NEW prof, NEW dep \in Dags, NEW at, NEW t \in 1 .. NumTasks,
           AgreeBelow(e, g, t)
    PROVE  EndOf(e, prof, dep, at, t) = EndOf(g, prof, dep, at, t)
<1> DEFINE before == {u \in 1 .. t - 1 : at[u] = at[t]}
<1>1. before # {} => Max(before) \in 1 .. t - 1
  <2>1. before \in SUBSET (1 .. t - 1) /\ t \in Nat
    OBVIOUS
  <2> HIDE DEF before
  <2> QED BY <2>1, MaxBelow
<1>2. FreeTime(e, at, t) = FreeTime(g, at, t)
  BY <1>1 DEF FreeTime, AgreeBelow
<1>3. \A d \in dep[t] : e[d] = g[d]
  BY DEF Dags, AgreeBelow
<1>4. Starts(e, prof, dep, at, t) = Starts(g, prof, dep, at, t)
  BY <1>2, <1>3 DEF Starts
<1> QED BY <1>4 DEF EndOf

(* A task starts once its node is free and its inputs have arrived. *)
LEMMA StartsBound ==
    ASSUME NEW e, NEW prof \in [1 .. NumTasks -> PlanProfiles], NEW dep \in Dags, NEW at,
           NEW t \in 1 .. NumTasks, \A u \in 1 .. t - 1 : e[u] \in Nat
    PROVE  /\ EndOf(e, prof, dep, at, t) \in Nat
           /\ FreeTime(e, at, t) \in Nat
           /\ EndOf(e, prof, dep, at, t) >= FreeTime(e, at, t) + prof[t].cost
           /\ \A d \in dep[t] : EndOf(e, prof, dep, at, t) >= e[d] + prof[t].cost
<1> DEFINE before == {u \in 1 .. t - 1 : at[u] = at[t]}
           lag(d) == IF at[d] = at[t] THEN 0 ELSE prof[d].transfer
           arr == [d \in dep[t] |-> e[d] + lag(d)]
           S == Starts(e, prof, dep, at, t)
<1>1. before # {} => Max(before) \in 1 .. t - 1
  <2>1. before \in SUBSET (1 .. t - 1) /\ t \in Nat
    OBVIOUS
  <2> HIDE DEF before
  <2> QED BY <2>1, MaxBelow
<1>2. FreeTime(e, at, t) \in Nat
  BY <1>1 DEF FreeTime
<1>3. ASSUME NEW d \in dep[t] PROVE e[d] \in Nat /\ lag(d) \in Nat
  <2>1. d \in 1 .. t - 1 /\ d \in 1 .. NumTasks
    BY DEF Dags
  <2>2. prof[d].transfer \in Nat
    BY <2>1, ProfileParts
  <2> QED BY <2>1, <2>2
<1>4. S = {FreeTime(e, at, t)} \cup Values(arr, dep[t])
  BY DEF Starts, Values
<1>5. \A d \in dep[t] : arr[d] = e[d] + lag(d) /\ arr[d] \in Nat
  BY <1>3
<1>6. IsFiniteSet(dep[t])
  <2>1. IsFiniteSet(1 .. NumTasks) /\ dep[t] \subseteq 1 .. NumTasks
    <3>1. IsFiniteSet(1 .. NumTasks)
      BY FirstNumbers, PolicyAssumption
    <3>2. dep[t] \subseteq 1 .. NumTasks
      BY DEF Dags
    <3> QED BY <3>1, <3>2
  <2> QED BY <2>1, FS_Subset
<1>7. IsFiniteSet(S)
  <2> HIDE DEF arr
  <2>1. IsFiniteSet(Values(arr, dep[t]))
    BY <1>6, FiniteImage DEF Values
  <2>2. S = Values(arr, dep[t]) \cup {FreeTime(e, at, t)}
    BY <1>4
  <2> HIDE DEF S
  <2> QED BY <2>1, <2>2, FS_AddElement
<1>8. S # {} /\ S \subseteq Nat /\ FreeTime(e, at, t) \in S /\ \A d \in dep[t] : arr[d] \in S
  BY <1>2, <1>4, <1>5 DEF Values
<1>9. Max(S) \in Nat /\ \A x \in S : Max(S) >= x
  <2> HIDE DEF S
  <2>1. S \subseteq Int
    BY <1>8
  <2> QED BY <1>7, <1>8, <2>1, MaxOf
<1>10. prof[t].cost \in Nat
  BY ProfileParts
<1>11. EndOf(e, prof, dep, at, t) = Max(S) + prof[t].cost
  BY DEF EndOf
<1>12. Max(S) >= FreeTime(e, at, t) /\ \A d \in dep[t] : Max(S) >= arr[d]
  BY <1>8, <1>9
<1>13. \A d \in dep[t] : Max(S) >= e[d]
  <2> HIDE DEF S, arr, lag
  <2> SUFFICES ASSUME NEW d \in dep[t] PROVE Max(S) >= e[d]
    OBVIOUS
  <2>1. e[d] \in Nat /\ lag(d) \in Nat /\ arr[d] = e[d] + lag(d) /\ Max(S) >= arr[d] /\ Max(S) \in Nat
    BY <1>3, <1>5, <1>9, <1>12
  <2> QED BY <2>1
<1> HIDE DEF S, arr
<1> QED BY <1>2, <1>3, <1>9, <1>10, <1>11, <1>12, <1>13

(* The list schedule exists. *)
LEMMA EndsExist ==
    ASSUME NEW prof \in [1 .. NumTasks -> PlanProfiles], NEW dep \in Dags, NEW at
    PROVE  IsEnds(Ends(prof, dep, at), prof, dep, at)
<1> DEFINE F == [e \in [1 .. NumTasks -> Nat] |-> [t \in 1 .. NumTasks |-> EndOf(e, prof, dep, at, t)]]
<1>0. NumTasks \in Nat /\ 0 \in Nat
  BY PolicyAssumption
<1>1. ASSUME NEW e \in [1 .. NumTasks -> Nat], NEW t \in 1 .. NumTasks
      PROVE  F[e][t] = EndOf(e, prof, dep, at, t) /\ F[e][t] \in Nat
  <2>1. \A u \in 1 .. t - 1 : u \in 1 .. NumTasks
    BY <1>0
  <2>2. \A u \in 1 .. t - 1 : e[u] \in Nat
    BY <2>1
  <2>3. EndOf(e, prof, dep, at, t) \in Nat
    BY <2>2, StartsBound
  <2> QED BY <2>3
<1>2. ASSUME NEW e \in [1 .. NumTasks -> Nat], NEW g \in [1 .. NumTasks -> Nat],
             NEW t \in 1 .. NumTasks, AgreeBelow(e, g, t)
      PROVE  F[e][t] = F[g][t]
  <2>1. EndOf(e, prof, dep, at, t) = EndOf(g, prof, dep, at, t)
    BY <1>2, StartsLocal
  <2> HIDE DEF F
  <2> QED BY <1>1, <2>1
<1>3. \E e : Solves(e, F, NumTasks, Nat)
  <2> HIDE DEF F
  <2>1. Rule(F, NumTasks, Nat)
    BY <1>1, <1>2 DEF Rule
  <2>2. Nat # {}
    OBVIOUS
  <2> QED BY <1>0, <2>1, <2>2, Recursion
<1>4. PICK e \in [1 .. NumTasks -> Nat] : \A t \in 1 .. NumTasks : e[t] = F[e][t]
  BY <1>3 DEF Solves
<1>5. e = [t \in 1 .. NumTasks |-> EndOf(e, prof, dep, at, t)]
  BY <1>1, <1>4
<1>6. IsEnds(e, prof, dep, at)
  BY <1>5 DEF IsEnds
<1> QED BY <1>6 DEF Ends

(* Its end times are natural numbers and respect node and inputs. *)
LEMMA EndsBound ==
    ASSUME NEW prof \in [1 .. NumTasks -> PlanProfiles], NEW dep \in Dags, NEW at
    PROVE  /\ Ends(prof, dep, at) \in [1 .. NumTasks -> Nat]
           /\ \A t \in 1 .. NumTasks :
                 /\ FreeTime(Ends(prof, dep, at), at, t) \in Nat
                 /\ Ends(prof, dep, at)[t] >= FreeTime(Ends(prof, dep, at), at, t) + prof[t].cost
                 /\ \A d \in dep[t] : Ends(prof, dep, at)[t] >= Ends(prof, dep, at)[d] + prof[t].cost
<1>0. PICK e : e = Ends(prof, dep, at)
  OBVIOUS
<1>1. e = [t \in 1 .. NumTasks |-> EndOf(e, prof, dep, at, t)]
  BY <1>0, EndsExist DEF IsEnds
<1>2. \A t \in 1 .. NumTasks : e[t] = EndOf(e, prof, dep, at, t)
  BY <1>1
<1> DEFINE P == {n \in Nat : \A t \in 1 .. NumTasks : t <= n => e[t] \in Nat}
<1>3. 0 \in P
  OBVIOUS
<1>4. ASSUME NEW n \in Nat, n \in P PROVE n + 1 \in P
  <2> SUFFICES ASSUME NEW t \in 1 .. NumTasks, t <= n + 1 PROVE e[t] \in Nat
    OBVIOUS
  <2>1. \A u \in 1 .. t - 1 : u \in 1 .. NumTasks /\ u <= n
    BY PolicyAssumption
  <2>2. \A u \in 1 .. t - 1 : e[u] \in Nat
    BY <1>4, <2>1
  <2> QED BY <1>2, <2>2, StartsBound
<1>5. NumTasks \in P
  <2> HIDE DEF P
  <2> QED BY <1>3, <1>4, Induction, PolicyAssumption
<1>6. \A t \in 1 .. NumTasks : e[t] \in Nat
  BY <1>5, PolicyAssumption
<1>7. e \in [1 .. NumTasks -> Nat]
  BY <1>1, <1>6
<1>8. ASSUME NEW t \in 1 .. NumTasks
      PROVE  /\ FreeTime(e, at, t) \in Nat /\ e[t] >= FreeTime(e, at, t) + prof[t].cost
             /\ \A d \in dep[t] : e[t] >= e[d] + prof[t].cost
  <2>1. \A u \in 1 .. t - 1 : u \in 1 .. NumTasks
    BY PolicyAssumption
  <2>2. \A u \in 1 .. t - 1 : e[u] \in Nat
    BY <1>6, <2>1
  <2> QED BY <1>2, <2>2, StartsBound
<1> QED BY <1>0, <1>7, <1>8

(* Tasks that run one after another end no sooner than their costs add up to. *)
LEMMA ChainCost ==
    ASSUME NEW c \in [1 .. NumTasks -> Nat], NEW e \in [1 .. NumTasks -> Nat],
           NEW S \in SUBSET (1 .. NumTasks), \A t \in S : e[t] >= c[t],
           \A t \in S : \/ \A u \in S : t <= u
                        \/ \E d \in S : d < t /\ e[t] >= e[d] + c[t] /\ \A u \in S : u < t => u <= d
    PROVE  \A t \in S : SumFunctionOnSet(c, {u \in S : u <= t}) <= e[t]
<1> DEFINE Upto(t) == {u \in S : u <= t}
           Sum(s) == SumFunctionOnSet(c, s)
           P == {n \in Nat : \A t \in S : t <= n => Sum(Upto(t)) <= e[t]}
<1>0. \A t \in S : t \in Nat /\ t # 0 /\ c[t] \in Nat /\ e[t] \in Nat
  OBVIOUS
<1>1. \A s \in SUBSET S : IsFiniteSet(s) /\ Sum(s) \in Nat
  <2>1. \A s \in SUBSET S : IsFiniteSet(s) /\ \A x \in s : c[x] \in Nat
    <3>1. IsFiniteSet(1 .. NumTasks)
      BY FirstNumbers, PolicyAssumption
    <3>2. \A s \in SUBSET S : IsFiniteSet(s)
      BY <3>1, FS_Subset
    <3> QED BY <1>0, <3>2
  <2> QED BY <2>1, SumNat
<1>2. ASSUME NEW s \in SUBSET S, NEW t \in S, t \notin s PROVE Sum(s \cup {t}) = Sum(s) + c[t]
  <2>1. \A x \in s \cup {t} : c[x] \in Nat
    BY <1>0
  <2> QED BY <1>1, <1>2, <2>1, SumInsert
<1>3. Sum({}) = 0
  BY FS_EmptySet, SumByFirst
<1> HIDE DEF Sum
<1>4. 0 \in P
  BY <1>0
<1>5. ASSUME NEW n \in Nat, n \in P PROVE n + 1 \in P
  <2> SUFFICES ASSUME NEW t \in S, t <= n + 1 PROVE Sum(Upto(t)) <= e[t]
    OBVIOUS
  <2>1. CASE \A u \in S : t <= u
    <3>1. Upto(t) = {} \cup {t}
      <4>1. \A u \in S : u <= t <=> u = t
        BY <1>0, <2>1
      <4> QED BY <4>1
    <3>2. Sum({} \cup {t}) = 0 + c[t]
      BY <1>2, <1>3
    <3>3. Sum(Upto(t)) = 0 + c[t]
      BY <3>1, <3>2
    <3> QED BY <1>0, <3>3
  <2>2. CASE \E d \in S : d < t /\ e[t] >= e[d] + c[t] /\ \A u \in S : u < t => u <= d
    <3>1. PICK d \in S : d < t /\ e[t] >= e[d] + c[t] /\ \A u \in S : u < t => u <= d
      BY <2>2
    <3>2. Upto(t) = Upto(d) \cup {t} /\ t \notin Upto(d) /\ Upto(d) \in SUBSET S
      <4>1. \A u \in S : u <= t <=> (u <= d \/ u = t)
        <5> SUFFICES ASSUME NEW u \in S PROVE u <= t <=> (u <= d \/ u = t)
          OBVIOUS
        <5>1. u \in Nat /\ t \in Nat /\ d \in Nat /\ d < t /\ (u < t => u <= d)
          BY <1>0, <3>1
        <5> QED BY <5>1
      <4>2. ~ (t <= d)
        BY <1>0, <3>1
      <4> QED BY <4>1, <4>2
    <3>3. d <= n
      BY <1>0, <3>1
    <3>4. Sum(Upto(d)) <= e[d]
      BY <1>5, <3>3
    <3>5. Sum(Upto(t)) = Sum(Upto(d)) + c[t] /\ Sum(Upto(d)) \in Nat
      BY <1>1, <1>2, <3>2
    <3> HIDE DEF Upto
    <3> QED BY <1>0, <3>1, <3>4, <3>5
  <2> QED BY <2>1, <2>2
<1>6. NumTasks \in P
  <2> HIDE DEF P
  <2> QED BY <1>4, <1>5, Induction, PolicyAssumption
<1>7. \A t \in S : t <= NumTasks
  BY PolicyAssumption
<1> QED BY <1>6, <1>7 DEF Sum

(* The same for the whole chain. *)
LEMMA WholeChain ==
    ASSUME NEW c \in [1 .. NumTasks -> Nat], NEW e \in [1 .. NumTasks -> Nat],
           NEW S \in SUBSET (1 .. NumTasks), S # {}, \A t \in S : e[t] >= c[t],
           \A t \in S : \/ \A u \in S : t <= u
                        \/ \E d \in S : d < t /\ e[t] >= e[d] + c[t] /\ \A u \in S : u < t => u <= d
    PROVE  \E t \in S : SumFunctionOnSet(c, S) <= e[t]
<1>1. IsFiniteSet(S) /\ S \subseteq Int
  <2>1. IsFiniteSet(1 .. NumTasks)
    BY FirstNumbers, PolicyAssumption
  <2>2. IsFiniteSet(S)
    BY <2>1, FS_Subset
  <2> QED BY <2>2
<1>2. Max(S) \in S /\ \A u \in S : Max(S) >= u
  BY <1>1, MaxOf
<1>3. PICK t \in S : \A u \in S : u <= t
  BY <1>1, <1>2
<1>4. {u \in S : u <= t} = S
  BY <1>3
<1>5. SumFunctionOnSet(c, {u \in S : u <= t}) <= e[t]
  BY ChainCost
<1> QED BY <1>4, <1>5

-----------------------------------------------------------------------------
(* Chains of dependent tasks *)

Work(prof) == [t \in 1 .. NumTasks |-> prof[t].cost]
Need(prof) == [t \in 1 .. NumTasks |-> prof[t].mem]
WorkOf(prof, S) == SumFunctionOnSet(Work(prof), S)
NeedOf(prof, S) == SumFunctionOnSet(Need(prof), S)

Chains(dep) ==
    {S \in SUBSET (1 .. NumTasks) : \A t \in S : t = Min(S) \/ Max({u \in S : u < t}) \in dep[t]}
Longest(prof, dep) == Max({WorkOf(prof, S) : S \in Chains(dep)})

(* MemoryOf and ComputeOf as sums of the functions above. *)
LEMMA SameSums ==
    ASSUME NEW S PROVE ComputeOf(S) = WorkOf(profile, S) /\ MemoryOf(S) = NeedOf(profile, S)
  BY DEF ComputeOf, MemoryOf, PlanTasks, WorkOf, NeedOf, Work, Need

(* Longest is CriticalPathCost. *)
LEMMA SameLongest == HeaviestChain = Longest(profile, deps)
<1> DEFINE paths == {S \in SUBSET (1 .. NumTasks) : \A t \in S :
                        t = Min(S) \/ Max({u \in S : u < t}) \in deps[t]}
<1>1. HeaviestChain = Max({ComputeOf(S) : S \in paths})
  BY DEF HeaviestChain, PlanTasks
<1>2. paths = Chains(deps)
  BY DEF Chains
<1> HIDE DEF paths
<1>3. {ComputeOf(S) : S \in paths} = {WorkOf(profile, S) : S \in Chains(deps)}
  BY <1>2, SameSums
<1> QED BY <1>1, <1>3 DEF Longest

(* Sets of tasks are finite and their sums natural numbers. *)
LEMMA TaskSets ==
    ASSUME NEW prof \in [1 .. NumTasks -> PlanProfiles], NEW S \in SUBSET (1 .. NumTasks)
    PROVE  /\ IsFiniteSet(S) /\ WorkOf(prof, S) \in Nat /\ NeedOf(prof, S) \in Nat
           /\ Work(prof) \in [1 .. NumTasks -> Nat] /\ Need(prof) \in [1 .. NumTasks -> Nat]
<1>1. IsFiniteSet(S)
  <2>1. IsFiniteSet(1 .. NumTasks)
    BY FirstNumbers, PolicyAssumption
  <2> QED BY <2>1, FS_Subset
<1>2. \A t \in 1 .. NumTasks : prof[t].cost \in Nat /\ prof[t].mem \in Nat
  BY ProfileParts
<1>3. Work(prof) \in [1 .. NumTasks -> Nat] /\ Need(prof) \in [1 .. NumTasks -> Nat]
  BY <1>2 DEF Work, Need
<1>4. \A t \in S : Work(prof)[t] \in Nat /\ Need(prof)[t] \in Nat
  BY <1>3
<1> QED BY <1>1, <1>3, <1>4, SumNat DEF WorkOf, NeedOf

Follows(dep, S) ==
    \A t \in S : \/ \A u \in S : t <= u
                 \/ \E d \in S : d < t /\ d \in dep[t] /\ \A u \in S : u < t => u <= d

(* Being a chain, without Min and Max. *)
LEMMA ChainForm ==
    ASSUME NEW dep \in Dags, NEW S \in SUBSET (1 .. NumTasks)
    PROVE  S \in Chains(dep) <=> Follows(dep, S)
<1>1. ASSUME NEW t \in S PROVE t = Min(S) <=> \A u \in S : t <= u
  <2>1. S # {} /\ S \subseteq Nat
    OBVIOUS
  <2>2. Min(S) \in S /\ \A u \in S : Min(S) <= u
    BY <2>1, MinOf
  <2>3. ASSUME \A u \in S : t <= u PROVE t = Min(S)
    <3>1. t \in Nat /\ Min(S) \in Nat /\ t <= Min(S) /\ Min(S) <= t
      BY <2>1, <2>2, <2>3
    <3> QED BY <3>1
  <2> QED BY <2>2, <2>3
<1>2. ASSUME NEW t \in S, ~ \A u \in S : t <= u
      PROVE  Max({u \in S : u < t}) \in dep[t] <=>
                \E d \in S : d < t /\ d \in dep[t] /\ \A u \in S : u < t => u <= d
  <2> DEFINE B == {u \in S : u < t}
  <2>1. B \in SUBSET (1 .. t - 1) /\ B # {} /\ t \in Nat
    <3>1. \A u \in S : u \in Nat /\ u >= 1
      OBVIOUS
    <3>2. PICK u \in S : ~ (t <= u)
      BY <1>2
    <3>3. u \in B
      BY <3>1, <3>2
    <3>4. \A w \in B : w \in 1 .. t - 1
      BY <3>1
    <3> QED BY <3>1, <3>3, <3>4
  <2>2. Max(B) \in B /\ \A u \in B : u <= Max(B)
    <3> HIDE DEF B
    <3> QED BY <2>1, MaxBelow
  <2>3. ASSUME NEW d \in S, d < t, \A u \in S : u < t => u <= d PROVE d = Max(B)
    <3>1. d \in B /\ \A u \in B : u <= d
      BY <2>3
    <3>2. Max(B) \in Int /\ d \in Int /\ Max(B) <= d /\ d <= Max(B)
      <4>1. Max(B) \in 1 .. NumTasks
        BY <2>2
      <4> HIDE DEF B
      <4> QED BY <2>2, <3>1, <4>1
    <3> QED BY <3>2
  <2>4. Max(B) \in S /\ Max(B) < t /\ \A u \in S : u < t => u <= Max(B)
    BY <2>2
  <2> HIDE DEF B
  <2>5. Max(B) \in dep[t] <=> \E d \in S : d < t /\ d \in dep[t] /\ \A u \in S : u < t => u <= d
    BY <2>3, <2>4
  <2> QED BY <2>5 DEF B
<1>3. ASSUME NEW t \in S
      PROVE  (t = Min(S) \/ Max({u \in S : u < t}) \in dep[t]) <=>
             (\/ \A u \in S : t <= u
              \/ \E d \in S : d < t /\ d \in dep[t] /\ \A u \in S : u < t => u <= d)
  <2>1. CASE \A u \in S : t <= u
    BY <1>1, <2>1
  <2>2. CASE ~ \A u \in S : t <= u
    BY <1>1, <1>2, <2>2
  <2> QED BY <2>1, <2>2
<1> QED BY <1>3 DEF Chains, Follows

(* Longest is the cost of some chain, and of no chain less. *)
LEMMA LongestBounds ==
    ASSUME NEW prof \in [1 .. NumTasks -> PlanProfiles], NEW dep \in Dags
    PROVE  /\ \E S \in Chains(dep) : WorkOf(prof, S) = Longest(prof, dep)
           /\ \A S \in Chains(dep) : WorkOf(prof, S) <= Longest(prof, dep)
           /\ Longest(prof, dep) \in Nat
<1> DEFINE C == Chains(dep)
           f == [S \in C |-> WorkOf(prof, S)]
<1>1. IsFiniteSet(C) /\ C \subseteq SUBSET (1 .. NumTasks) /\ {} \in C
  <2>1. IsFiniteSet(1 .. NumTasks)
    BY FirstNumbers, PolicyAssumption
  <2>2. IsFiniteSet(SUBSET (1 .. NumTasks))
    BY <2>1, FS_SUBSET
  <2>3. C \subseteq SUBSET (1 .. NumTasks) /\ {} \in C
    BY DEF Chains
  <2> HIDE DEF C
  <2> QED BY <2>2, <2>3, FS_Subset
<1>2. \A S \in C : f[S] = WorkOf(prof, S) /\ f[S] \in Nat
  BY <1>1, TaskSets
<1>3. Longest(prof, dep) = Max(Values(f, C))
  <2>1. {WorkOf(prof, S) : S \in C} = Values(f, C)
    BY DEF Values
  <2> QED BY <2>1 DEF Longest
<1> HIDE DEF f, C
<1>4. /\ \E S \in C : f[S] = Max(Values(f, C))
      /\ \A S \in C : f[S] <= Max(Values(f, C))
  <2>1. C # {} /\ \A S \in C : f[S] \in Int
    BY <1>1, <1>2
  <2> QED BY <1>1, <2>1, MaxOfImage
<1> QED BY <1>2, <1>3, <1>4 DEF C

(* Whatever grows by a task's cost along every dependency is nowhere       *)
(* exceeded by a chain.                                                    *)
LEMMA LongestBelow ==
    ASSUME NEW prof \in [1 .. NumTasks -> PlanProfiles], NEW dep \in Dags,
           NEW e \in [1 .. NumTasks -> Nat], NEW M \in Nat,
           \A t \in 1 .. NumTasks : e[t] <= M /\ e[t] >= prof[t].cost,
           \A t \in 1 .. NumTasks : \A d \in dep[t] : e[t] >= e[d] + prof[t].cost
    PROVE  Longest(prof, dep) <= M
<1>1. PICK S \in Chains(dep) : WorkOf(prof, S) = Longest(prof, dep)
  BY LongestBounds
<1>2. S \in SUBSET (1 .. NumTasks)
  BY DEF Chains
<1>3. Follows(dep, S)
  BY <1>2, ChainForm
<1>4. CASE S = {}
  <2>1. WorkOf(prof, S) = 0
    BY <1>4, FS_EmptySet, SumByFirst DEF WorkOf
  <2> QED BY <1>1, <2>1
<1>5. CASE S # {}
  <2> DEFINE c == Work(prof)
  <2>1. /\ c \in [1 .. NumTasks -> Nat] /\ WorkOf(prof, S) \in Nat
        /\ \A t \in 1 .. NumTasks : c[t] = prof[t].cost
    BY <1>2, TaskSets DEF Work
  <2> HIDE DEF c
  <2>2. \A t \in S : e[t] >= c[t]
    BY <1>2, <2>1
  <2>3. \A t \in S : \/ \A u \in S : t <= u
                     \/ \E d \in S : d < t /\ e[t] >= e[d] + c[t] /\ \A u \in S : u < t => u <= d
    BY <1>2, <1>3, <2>1 DEF Follows
  <2>4. \E t \in S : SumFunctionOnSet(c, S) <= e[t]
    BY <1>2, <1>5, <2>1, <2>2, <2>3, WholeChain
  <2>5. PICK t \in S : WorkOf(prof, S) <= e[t]
    BY <2>4 DEF WorkOf, c
  <2>6. e[t] \in Nat /\ e[t] <= M
    BY <1>2
  <2> QED BY <1>1, <2>1, <2>5, <2>6
<1> QED BY <1>4, <1>5

(* The estimate of any placement is at least the critical path, and at     *)
(* least the work of each node.                                            *)
LEMMA SpanBounds ==
    ASSUME NEW prof \in [1 .. NumTasks -> PlanProfiles], NEW dep \in Dags, NEW at
    PROVE  /\ Span(prof, dep, at) \in Nat
           /\ Longest(prof, dep) <= Span(prof, dep, at)
           /\ \A n : WorkOf(prof, {t \in 1 .. NumTasks : at[t] = n}) <= Span(prof, dep, at)
<1>1. PICK e : e = Ends(prof, dep, at)
  OBVIOUS
<1>2. PICK M : M = Span(prof, dep, at)
  OBVIOUS
<1>3. /\ e \in [1 .. NumTasks -> Nat]
      /\ \A t \in 1 .. NumTasks : /\ FreeTime(e, at, t) \in Nat
                                  /\ e[t] >= FreeTime(e, at, t) + prof[t].cost
                                  /\ \A d \in dep[t] : e[t] >= e[d] + prof[t].cost
  BY <1>1, EndsBound
<1>4. M \in Nat /\ \A t \in 1 .. NumTasks : e[t] <= M
  <2>1. IsFiniteSet(1 .. NumTasks) /\ 1 .. NumTasks # {}
    <3>1. 1 \in 1 .. NumTasks
      BY PolicyAssumption
    <3>2. IsFiniteSet(1 .. NumTasks)
      BY FirstNumbers, PolicyAssumption
    <3> QED BY <3>1, <3>2
  <2>2. \A t \in 1 .. NumTasks : e[t] \in Int
    BY <1>3
  <2>3. /\ \E t \in 1 .. NumTasks : e[t] = Max(Values(e, 1 .. NumTasks))
        /\ \A t \in 1 .. NumTasks : e[t] <= Max(Values(e, 1 .. NumTasks))
    BY <2>1, <2>2, MaxOfImage
  <2>4. M = Max(Values(e, 1 .. NumTasks))
    BY <1>1, <1>2 DEF Span
  <2> QED BY <1>3, <2>3, <2>4
<1>5. \A t \in 1 .. NumTasks : prof[t].cost \in Nat /\ e[t] >= prof[t].cost
  <2> SUFFICES ASSUME NEW t \in 1 .. NumTasks PROVE prof[t].cost \in Nat /\ e[t] >= prof[t].cost
    OBVIOUS
  <2>1. prof[t].cost \in Nat
    BY ProfileParts
  <2>2. e[t] \in Nat /\ FreeTime(e, at, t) \in Nat /\ e[t] >= FreeTime(e, at, t) + prof[t].cost
    BY <1>3
  <2> QED BY <2>1, <2>2
<1>6. Longest(prof, dep) <= M
  BY <1>3, <1>4, <1>5, LongestBelow
<1>7. ASSUME NEW n PROVE WorkOf(prof, {t \in 1 .. NumTasks : at[t] = n}) <= M
  <2> DEFINE S == {t \in 1 .. NumTasks : at[t] = n}
             c == Work(prof)
  <2>1. S \in SUBSET (1 .. NumTasks) /\ \A t \in 1 .. NumTasks : t \in S <=> at[t] = n
    OBVIOUS
  <2>2. /\ c \in [1 .. NumTasks -> Nat] /\ WorkOf(prof, S) \in Nat
        /\ \A t \in 1 .. NumTasks : c[t] = prof[t].cost
    <3> HIDE DEF S
    <3> QED BY <2>1, TaskSets DEF Work
  <2> HIDE DEF S, c
  <2>3. CASE S = {}
    <3>1. WorkOf(prof, S) = 0
      BY <2>3, FS_EmptySet, SumByFirst DEF WorkOf
    <3> QED BY <1>4, <3>1 DEF S
  <2>4. CASE S # {}
    <3>1. \A t \in S : e[t] >= c[t]
      BY <1>5, <2>1, <2>2
    <3>2. ASSUME NEW t \in S
          PROVE  \/ \A u \in S : t <= u
                 \/ \E d \in S : d < t /\ e[t] >= e[d] + c[t] /\ \A u \in S : u < t => u <= d
      <4> DEFINE B == {u \in 1 .. t - 1 : at[u] = at[t]}
      <4>1. t \in 1 .. NumTasks /\ at[t] = n /\ t \in Nat
        BY <2>1
      <4>2. \A u : u \in B <=> u \in S /\ u < t
        <5>1. \A u \in 1 .. NumTasks : u \in 1 .. t - 1 <=> u < t
          BY <4>1, PolicyAssumption
        <5>2. \A u \in 1 .. t - 1 : u \in 1 .. NumTasks
          BY <4>1, PolicyAssumption
        <5> QED BY <2>1, <4>1, <5>1, <5>2
      <4>3. FreeTime(e, at, t) = IF B = {} THEN 0 ELSE e[Max(B)]
        BY DEF FreeTime
      <4>4. B \in SUBSET (1 .. t - 1)
        OBVIOUS
      <4> HIDE DEF B
      <4>5. CASE B = {}
        <5>1. \A u \in S : ~ (u < t)
          BY <4>2, <4>5
        <5>2. \A u \in S : u \in Nat
          BY <2>1
        <5> QED BY <4>1, <5>1, <5>2
      <4>6. CASE B # {}
        <5>1. Max(B) \in B /\ \A u \in B : u <= Max(B)
          BY <4>1, <4>4, <4>6, MaxBelow
        <5>2. e[t] >= e[Max(B)] + c[t]
          BY <1>3, <2>2, <4>1, <4>3, <4>6
        <5> QED BY <4>2, <5>1, <5>2
      <4> QED BY <4>5, <4>6
    <3>3. \E t \in S : SumFunctionOnSet(c, S) <= e[t]
      BY <1>3, <2>1, <2>2, <2>4, <3>1, <3>2, WholeChain
    <3>4. PICK t \in S : WorkOf(prof, S) <= e[t]
      BY <3>3 DEF WorkOf, c
    <3>5. e[t] \in Nat /\ e[t] <= M
      BY <1>3, <1>4, <2>1
    <3>6. WorkOf(prof, S) <= M
      BY <1>4, <2>2, <3>4, <3>5
    <3> QED BY <3>6 DEF S
  <2> QED BY <2>3, <2>4
<1> QED BY <1>2, <1>4, <1>6, <1>7

-----------------------------------------------------------------------------
(* critical_path_assignment *)

Farthest(e, dep, t) == Max({0} \cup {e[d] : d \in dep[t]})
IsDist(e, prof, dep) == e = [t \in 1 .. NumTasks |-> Farthest(e, dep, t) + prof[t].cost]
Dist(prof, dep) == CHOOSE e : IsDist(e, prof, dep)

(* Dist is the dist map of critical_path_assignment. *)
LEMMA SameDistance == Distance = Dist(profile, deps)
  BY DEF Distance, PlanTasks, Dist, IsDist, Farthest

(* The farthest predecessor is among the tasks before. *)
LEMMA FarthestLocal ==
    ASSUME NEW e, NEW g, NEW dep \in Dags, NEW t \in 1 .. NumTasks, AgreeBelow(e, g, t)
    PROVE  Farthest(e, dep, t) = Farthest(g, dep, t)
<1>1. \A d \in dep[t] : e[d] = g[d]
  BY DEF Dags, AgreeBelow
<1>2. {e[d] : d \in dep[t]} = {g[d] : d \in dep[t]}
  BY <1>1
<1> QED BY <1>2 DEF Farthest

(* It is as far as some predecessor, and as none less. *)
LEMMA FarthestBound ==
    ASSUME NEW e, NEW dep \in Dags, NEW t \in 1 .. NumTasks, \A u \in 1 .. t - 1 : e[u] \in Nat
    PROVE  /\ Farthest(e, dep, t) \in Nat
           /\ \A d \in dep[t] : e[d] \in Nat /\ Farthest(e, dep, t) >= e[d]
           /\ dep[t] = {} => Farthest(e, dep, t) = 0
           /\ dep[t] # {} => \E d \in dep[t] : Farthest(e, dep, t) = e[d]
<1> DEFINE S == {0} \cup Values(e, dep[t])
<1>1. \A d \in dep[t] : e[d] \in Nat
  BY DEF Dags
<1>2. IsFiniteSet(dep[t])
  <2>1. IsFiniteSet(1 .. NumTasks) /\ dep[t] \subseteq 1 .. NumTasks
    <3>1. IsFiniteSet(1 .. NumTasks)
      BY FirstNumbers, PolicyAssumption
    <3>2. dep[t] \subseteq 1 .. NumTasks
      BY DEF Dags
    <3> QED BY <3>1, <3>2
  <2> QED BY <2>1, FS_Subset
<1>3. IsFiniteSet(S)
  <2>1. IsFiniteSet(Values(e, dep[t]))
    BY <1>2, FiniteImage DEF Values
  <2>2. S = Values(e, dep[t]) \cup {0}
    OBVIOUS
  <2> HIDE DEF S
  <2> QED BY <2>1, <2>2, FS_AddElement
<1>4. /\ S # {} /\ S \subseteq Nat /\ (\A d \in dep[t] : e[d] \in S) /\ 0 \in S
      /\ \A x \in S : x = 0 \/ \E d \in dep[t] : x = e[d]
  BY <1>1 DEF Values
<1>5. Farthest(e, dep, t) = Max(S)
  BY DEF Farthest, Values
<1> HIDE DEF S
<1>6. Max(S) \in S /\ \A x \in S : Max(S) >= x
  <2>1. S \subseteq Int
    BY <1>4
  <2> QED BY <1>3, <1>4, <2>1, MaxOf
<1>7. dep[t] = {} => Max(S) = 0
  BY <1>4, <1>6
<1>8. ASSUME dep[t] # {} PROVE \E d \in dep[t] : Max(S) = e[d]
  <2>1. CASE Max(S) = 0
    <3>1. PICK d \in dep[t] : TRUE
      BY <1>8
    <3>2. e[d] \in Nat /\ 0 >= e[d]
      BY <1>1, <1>4, <1>6, <2>1
    <3>3. e[d] = 0
      BY <3>2
    <3> QED BY <2>1, <3>3
  <2>2. CASE Max(S) # 0
    BY <1>4, <1>6, <2>2
  <2> QED BY <2>1, <2>2
<1> QED BY <1>1, <1>4, <1>5, <1>6, <1>7, <1>8

(* The distances exist. *)
LEMMA DistExists ==
    ASSUME NEW prof \in [1 .. NumTasks -> PlanProfiles], NEW dep \in Dags
    PROVE  IsDist(Dist(prof, dep), prof, dep)
<1> DEFINE F == [e \in [1 .. NumTasks -> Nat] |->
                   [t \in 1 .. NumTasks |-> Farthest(e, dep, t) + prof[t].cost]]
<1>0. NumTasks \in Nat
  BY PolicyAssumption
<1>1. ASSUME NEW e \in [1 .. NumTasks -> Nat], NEW t \in 1 .. NumTasks
      PROVE  F[e][t] = Farthest(e, dep, t) + prof[t].cost /\ F[e][t] \in Nat
  <2>1. \A u \in 1 .. t - 1 : u \in 1 .. NumTasks
    BY <1>0
  <2>2. \A u \in 1 .. t - 1 : e[u] \in Nat
    BY <2>1
  <2>3. Farthest(e, dep, t) \in Nat
    BY <2>2, FarthestBound
  <2>4. prof[t].cost \in Nat
    BY ProfileParts
  <2> QED BY <2>3, <2>4
<1>2. ASSUME NEW e \in [1 .. NumTasks -> Nat], NEW g \in [1 .. NumTasks -> Nat],
             NEW t \in 1 .. NumTasks, AgreeBelow(e, g, t)
      PROVE  F[e][t] = F[g][t]
  <2>1. Farthest(e, dep, t) = Farthest(g, dep, t)
    BY <1>2, FarthestLocal
  <2> HIDE DEF F
  <2> QED BY <1>1, <2>1
<1>3. \E e : Solves(e, F, NumTasks, Nat)
  <2> HIDE DEF F
  <2>1. Rule(F, NumTasks, Nat)
    BY <1>1, <1>2 DEF Rule
  <2>2. Nat # {}
    OBVIOUS
  <2> QED BY <1>0, <2>1, <2>2, Recursion
<1>4. PICK e \in [1 .. NumTasks -> Nat] : \A t \in 1 .. NumTasks : e[t] = F[e][t]
  BY <1>3 DEF Solves
<1>5. e = [t \in 1 .. NumTasks |-> Farthest(e, dep, t) + prof[t].cost]
  BY <1>1, <1>4
<1>6. IsDist(e, prof, dep)
  BY <1>5 DEF IsDist
<1> QED BY <1>6 DEF Dist

(* A distance is the farthest predecessor's plus the task's own cost. *)
LEMMA DistBound ==
    ASSUME NEW prof \in [1 .. NumTasks -> PlanProfiles], NEW dep \in Dags
    PROVE  /\ Dist(prof, dep) \in [1 .. NumTasks -> Nat]
           /\ \A t \in 1 .. NumTasks :
                 /\ Dist(prof, dep)[t] >= prof[t].cost
                 /\ \A d \in dep[t] : Dist(prof, dep)[t] >= Dist(prof, dep)[d] + prof[t].cost
                 /\ dep[t] = {} => Dist(prof, dep)[t] = prof[t].cost
                 /\ dep[t] # {} => \E d \in dep[t] : Dist(prof, dep)[t] = Dist(prof, dep)[d] + prof[t].cost
<1>0. PICK e : e = Dist(prof, dep)
  OBVIOUS
<1>1. e = [t \in 1 .. NumTasks |-> Farthest(e, dep, t) + prof[t].cost]
  BY <1>0, DistExists DEF IsDist
<1>2. \A t \in 1 .. NumTasks : e[t] = Farthest(e, dep, t) + prof[t].cost
  BY <1>1
<1>3. \A t \in 1 .. NumTasks : prof[t].cost \in Nat
  BY ProfileParts
<1> DEFINE P == {n \in Nat : \A t \in 1 .. NumTasks : t <= n => e[t] \in Nat}
<1>4. 0 \in P
  OBVIOUS
<1>5. ASSUME NEW n \in Nat, n \in P PROVE n + 1 \in P
  <2> SUFFICES ASSUME NEW t \in 1 .. NumTasks, t <= n + 1 PROVE e[t] \in Nat
    OBVIOUS
  <2>1. \A u \in 1 .. t - 1 : u \in 1 .. NumTasks /\ u <= n
    BY PolicyAssumption
  <2>2. \A u \in 1 .. t - 1 : e[u] \in Nat
    BY <1>5, <2>1
  <2>3. Farthest(e, dep, t) \in Nat
    BY <2>2, FarthestBound
  <2> QED BY <1>2, <1>3, <2>3
<1>6. NumTasks \in P
  <2> HIDE DEF P
  <2> QED BY <1>4, <1>5, Induction, PolicyAssumption
<1>7. \A t \in 1 .. NumTasks : e[t] \in Nat
  BY <1>6, PolicyAssumption
<1>8. e \in [1 .. NumTasks -> Nat]
  BY <1>1, <1>7
<1>9. ASSUME NEW t \in 1 .. NumTasks
      PROVE  /\ e[t] >= prof[t].cost /\ \A d \in dep[t] : e[t] >= e[d] + prof[t].cost
             /\ dep[t] = {} => e[t] = prof[t].cost
             /\ dep[t] # {} => \E d \in dep[t] : e[t] = e[d] + prof[t].cost
  <2>1. \A u \in 1 .. t - 1 : u \in 1 .. NumTasks
    BY PolicyAssumption
  <2>2. \A u \in 1 .. t - 1 : e[u] \in Nat
    BY <1>7, <2>1
  <2>3. PICK far : far = Farthest(e, dep, t)
    OBVIOUS
  <2>4. /\ far \in Nat /\ \A d \in dep[t] : e[d] \in Nat /\ far >= e[d]
        /\ dep[t] = {} => far = 0
        /\ dep[t] # {} => \E d \in dep[t] : far = e[d]
    BY <2>2, <2>3, FarthestBound
  <2>5. e[t] = far + prof[t].cost /\ prof[t].cost \in Nat
    BY <1>2, <1>3, <2>3
  <2> QED BY <2>4, <2>5
<1> QED BY <1>0, <1>8, <1>9

PredOf(D, dep, t) ==
    {d \in dep[t] : D[t] > 0 /\ \A e \in dep[t] : D[e] < D[d] \/ (D[e] = D[d] /\ d <= e)}
Preds(prof, dep) == [t \in 1 .. NumTasks |-> PredOf(Dist(prof, dep), dep, t)]
Extend(e, pred, t) == {t} \cup UNION {e[d] : d \in pred[t]}
IsPaths(e, pred) == e = [t \in 1 .. NumTasks |-> Extend(e, pred, t)]
Paths(pred) == CHOOSE e : IsPaths(e, pred)

(* Paths is the walk back from the last task of the path. *)
LEMMA SamePath ==
    ASSUME NEW end PROVE PathTo(end) = Paths(Preds(profile, deps))[end]
<1>1. \A t : Predecessor(t) = PredOf(Dist(profile, deps), deps, t)
  BY SameDistance DEF Predecessor, PredOf
<1>2. PathTo(end) = Paths([t \in 1 .. NumTasks |-> Predecessor(t)])[end]
  BY DEF PathTo, PlanTasks, Paths, IsPaths, Extend
<1>3. [t \in 1 .. NumTasks |-> Predecessor(t)] = Preds(profile, deps)
  BY <1>1 DEF Preds
<1> QED BY <1>2, <1>3

(* The walk back along the path goes to one predecessor, and loses nothing *)
(* of the distance.                                                        *)
LEMMA OnePredecessor ==
    ASSUME NEW prof \in [1 .. NumTasks -> PlanProfiles], NEW dep \in Dags, NEW t \in 1 .. NumTasks
    PROVE  \/ Preds(prof, dep)[t] = {} /\ Dist(prof, dep)[t] = prof[t].cost
           \/ \E d \in dep[t] : /\ Preds(prof, dep)[t] = {d}
                                /\ Dist(prof, dep)[t] = Dist(prof, dep)[d] + prof[t].cost
<1>1. PICK D : D = Dist(prof, dep)
  OBVIOUS
<1>2. /\ D \in [1 .. NumTasks -> Nat] /\ D[t] >= prof[t].cost
      /\ \A d \in dep[t] : D[t] >= D[d] + prof[t].cost
      /\ dep[t] = {} => D[t] = prof[t].cost
      /\ dep[t] # {} => \E d \in dep[t] : D[t] = D[d] + prof[t].cost
  BY <1>1, DistBound
<1>3. Preds(prof, dep)[t] = PredOf(D, dep, t)
  BY <1>1 DEF Preds
<1>4. prof[t].cost \in Nat /\ D[t] \in Nat
  BY <1>2, ProfileParts
<1>5. \A d \in dep[t] : d \in Nat /\ D[d] \in Nat
  <2>1. dep[t] \subseteq 1 .. NumTasks
    BY DEF Dags
  <2> QED BY <1>2, <2>1
<1>6. CASE dep[t] = {}
  BY <1>1, <1>2, <1>3, <1>6 DEF PredOf
<1>7. CASE D[t] = 0
  <2>1. prof[t].cost = 0
    BY <1>2, <1>4, <1>7
  <2>2. PredOf(D, dep, t) = {}
    BY <1>7 DEF PredOf
  <2> QED BY <1>1, <1>3, <1>7, <2>1, <2>2
<1>8. CASE dep[t] # {} /\ D[t] # 0
  <2>1. PICK m \in dep[t] : D[t] = D[m] + prof[t].cost
    BY <1>2, <1>8
  <2>2. \A e \in dep[t] : D[e] <= D[m]
    <3> SUFFICES ASSUME NEW e \in dep[t] PROVE D[e] <= D[m]
      OBVIOUS
    <3>1. D[t] >= D[e] + prof[t].cost /\ D[e] \in Nat /\ D[m] \in Nat
      BY <1>2, <1>5
    <3> QED BY <1>4, <2>1, <3>1
  <2> DEFINE T0 == {d \in dep[t] : D[d] = D[m]}
  <2>3. T0 # {} /\ T0 \subseteq Nat
    BY <1>5
  <2>4. Min(T0) \in T0 /\ \A x \in T0 : Min(T0) <= x
    <3> HIDE DEF T0
    <3> QED BY <2>3, MinOf
  <2>5. PICK d \in dep[t] : D[d] = D[m] /\ \A x \in dep[t] : D[x] = D[m] => d <= x
    BY <2>4
  <2>6. d \in PredOf(D, dep, t)
    <3>1. \A e \in dep[t] : D[e] < D[d] \/ (D[e] = D[d] /\ d <= e)
      <4> SUFFICES ASSUME NEW e \in dep[t] PROVE D[e] < D[d] \/ (D[e] = D[d] /\ d <= e)
        OBVIOUS
      <4>1. D[e] \in Nat /\ D[d] \in Nat /\ D[e] <= D[d]
        BY <1>5, <2>2, <2>5
      <4>2. D[e] = D[d] => d <= e
        BY <2>5
      <4> QED BY <4>1, <4>2
    <3>2. D[t] > 0
      BY <1>4, <1>8
    <3> QED BY <3>1, <3>2 DEF PredOf
  <2>7. ASSUME NEW x \in PredOf(D, dep, t) PROVE x = d
    <3>1. x \in dep[t] /\ (D[d] < D[x] \/ (D[d] = D[x] /\ x <= d))
      BY <2>7 DEF PredOf
    <3>2. D[x] < D[d] \/ (D[x] = D[d] /\ d <= x)
      BY <2>6, <3>1 DEF PredOf
    <3>3. x \in Nat /\ d \in Nat /\ D[x] \in Nat /\ D[d] \in Nat
      BY <1>5, <3>1
    <3> QED BY <3>1, <3>2, <3>3
  <2>8. PredOf(D, dep, t) = {d}
    BY <2>6, <2>7
  <2>9. D[t] = D[d] + prof[t].cost
    BY <2>1, <2>5
  <2> QED BY <1>1, <1>3, <2>8, <2>9
<1> QED BY <1>6, <1>7, <1>8

(* The paths exist. *)
LEMMA PathsExist ==
    ASSUME NEW pred \in Dags PROVE IsPaths(Paths(pred), pred)
<1> DEFINE V == SUBSET (1 .. NumTasks)
           F == [e \in [1 .. NumTasks -> V] |-> [t \in 1 .. NumTasks |-> Extend(e, pred, t)]]
<1>0. NumTasks \in Nat /\ V # {}
  BY PolicyAssumption
<1>1. ASSUME NEW e \in [1 .. NumTasks -> V], NEW t \in 1 .. NumTasks
      PROVE  F[e][t] = Extend(e, pred, t) /\ F[e][t] \in V
  <2>1. \A d \in pred[t] : d \in 1 .. NumTasks
    BY DEF Dags
  <2>2. \A d \in pred[t] : e[d] \in V
    BY <2>1
  <2>3. Extend(e, pred, t) \in V
    BY <2>2 DEF Extend
  <2> QED BY <2>3
<1>2. ASSUME NEW e \in [1 .. NumTasks -> V], NEW g \in [1 .. NumTasks -> V],
             NEW t \in 1 .. NumTasks, AgreeBelow(e, g, t)
      PROVE  F[e][t] = F[g][t]
  <2>1. \A d \in pred[t] : e[d] = g[d]
    BY <1>2 DEF Dags, AgreeBelow
  <2>2. Extend(e, pred, t) = Extend(g, pred, t)
    BY <2>1 DEF Extend
  <2> HIDE DEF F
  <2> QED BY <1>1, <2>2
<1>3. \E e : Solves(e, F, NumTasks, V)
  <2> HIDE DEF F, V
  <2>1. Rule(F, NumTasks, V)
    BY <1>1, <1>2 DEF Rule
  <2> QED BY <1>0, <2>1, Recursion
<1>4. PICK e \in [1 .. NumTasks -> V] : \A t \in 1 .. NumTasks : e[t] = F[e][t]
  BY <1>3 DEF Solves
<1>5. e = [t \in 1 .. NumTasks |-> Extend(e, pred, t)]
  BY <1>1, <1>4
<1>6. IsPaths(e, pred)
  BY <1>5 DEF IsPaths
<1> QED BY <1>6 DEF Paths

(* A path is a chain that ends in its last task, and as heavy as the       *)
(* distance says.                                                          *)
HeaviestTo(p, D, prof, dep, t) ==
    p[t] \in SUBSET (1 .. t) /\ t \in p[t] /\ Follows(dep, p[t]) /\ WorkOf(prof, p[t]) = D[t]

(* By induction along the path. *)
LEMMA PathsAreHeaviest ==
    ASSUME NEW prof \in [1 .. NumTasks -> PlanProfiles], NEW dep \in Dags
    PROVE  \A t \in 1 .. NumTasks : HeaviestTo(Paths(Preds(prof, dep)), Dist(prof, dep), prof, dep, t)
<1>1. PICK D : D = Dist(prof, dep)
  OBVIOUS
<1>2. PICK pred : pred = Preds(prof, dep)
  OBVIOUS
<1>3. PICK p : p = Paths(pred)
  OBVIOUS
<1>4. pred \in Dags
  <2>1. \A t \in 1 .. NumTasks : /\ PredOf(Dist(prof, dep), dep, t) \subseteq dep[t]
                                 /\ dep[t] \subseteq 1 .. NumTasks /\ dep[t] \subseteq 1 .. t - 1
    BY DEF PredOf, Dags
  <2>2. pred = [t \in 1 .. NumTasks |-> PredOf(Dist(prof, dep), dep, t)]
    BY <1>2 DEF Preds
  <2>3. /\ pred \in [1 .. NumTasks -> SUBSET (1 .. NumTasks)]
        /\ \A t \in 1 .. NumTasks : pred[t] \subseteq 1 .. t - 1
    BY <2>1, <2>2
  <2> QED BY <2>3 DEF Dags
<1>5. \A t \in 1 .. NumTasks : p[t] = Extend(p, pred, t)
  <2>1. IsPaths(p, pred)
    BY <1>3, <1>4, PathsExist
  <2>2. p = [t \in 1 .. NumTasks |-> Extend(p, pred, t)]
    BY <2>1 DEF IsPaths
  <2> QED BY <2>2
<1> DEFINE P == {n \in Nat : \A t \in 1 .. NumTasks : t <= n => HeaviestTo(p, D, prof, dep, t)}
<1>6. 0 \in P
  OBVIOUS
<1>7. ASSUME NEW n \in Nat, n \in P PROVE n + 1 \in P
  <2> SUFFICES ASSUME NEW t \in 1 .. NumTasks, t <= n + 1 PROVE HeaviestTo(p, D, prof, dep, t)
    OBVIOUS
  <2>0. prof[t].cost \in Nat /\ Work(prof)[t] = prof[t].cost
    BY ProfileParts DEF Work
  <2>1. CASE pred[t] = {} /\ D[t] = prof[t].cost
    <3>1. p[t] = {t}
      BY <1>5, <2>1 DEF Extend
    <3>2. WorkOf(prof, {} \cup {t}) = WorkOf(prof, {}) + Work(prof)[t]
      <4>1. IsFiniteSet({}) /\ \A x \in {} \cup {t} : Work(prof)[x] \in Nat
        BY <2>0, FS_EmptySet
      <4> QED BY <4>1, SumInsert DEF WorkOf
    <3>3. WorkOf(prof, {}) = 0
      BY FS_EmptySet, SumByFirst DEF WorkOf
    <3>4. {} \cup {t} = {t}
      OBVIOUS
    <3>5. WorkOf(prof, p[t]) = D[t]
      BY <2>0, <2>1, <3>1, <3>2, <3>3, <3>4
    <3>6. Follows(dep, p[t])
      BY <3>1 DEF Follows
    <3> QED BY <3>1, <3>5, <3>6 DEF HeaviestTo
  <2>2. CASE \E d \in dep[t] : pred[t] = {d} /\ D[t] = D[d] + prof[t].cost
    <3>1. PICK d \in dep[t] : pred[t] = {d} /\ D[t] = D[d] + prof[t].cost
      BY <2>2
    <3>2. d \in 1 .. t - 1 /\ d \in 1 .. NumTasks
      BY DEF Dags
    <3>3. d < t /\ d <= n /\ d \in Nat /\ t \in Nat
      BY <3>2
    <3>4. p[d] \in SUBSET (1 .. d) /\ d \in p[d] /\ Follows(dep, p[d]) /\ WorkOf(prof, p[d]) = D[d]
      BY <1>7, <3>2, <3>3 DEF HeaviestTo
    <3>5. p[t] = p[d] \cup {t}
      BY <1>5, <3>1 DEF Extend
    <3>6. /\ \A u \in p[d] : u \in Nat /\ u <= d /\ u < t /\ u \in 1 .. t /\ u \in 1 .. NumTasks
          /\ t \in 1 .. t
      <4>1. \A u \in 1 .. d : u \in Nat /\ u <= d /\ u < t /\ u \in 1 .. t /\ u \in 1 .. NumTasks
        <5> SUFFICES ASSUME NEW u \in 1 .. d
                     PROVE  u \in Nat /\ u <= d /\ u < t /\ u \in 1 .. t /\ u \in 1 .. NumTasks
          OBVIOUS
        <5>1. u \in Nat /\ u >= 1 /\ u <= d /\ d < t /\ t <= NumTasks /\ NumTasks \in Nat
          BY <3>2, <3>3, PolicyAssumption
        <5> QED BY <3>3, <5>1
      <4> QED BY <3>3, <3>4, <4>1
    <3>7. t \notin p[d]
      BY <3>3, <3>6
    <3>8. WorkOf(prof, p[d] \cup {t}) = WorkOf(prof, p[d]) + Work(prof)[t]
      <4>1. p[d] \in SUBSET (1 .. NumTasks)
        BY <3>6
      <4>2. IsFiniteSet(p[d]) /\ Work(prof) \in [1 .. NumTasks -> Nat]
        BY <4>1, TaskSets
      <4>3. \A x \in p[d] \cup {t} : Work(prof)[x] \in Nat
        BY <4>1, <4>2
      <4> QED BY <3>7, <4>2, <4>3, SumInsert DEF WorkOf
    <3>9. WorkOf(prof, p[t]) = D[t]
      BY <2>0, <3>1, <3>4, <3>5, <3>8
    <3>10. Follows(dep, p[t])
      <4> SUFFICES ASSUME NEW x \in p[t]
                   PROVE  \/ \A u \in p[t] : x <= u
                          \/ \E c \in p[t] : c < x /\ c \in dep[x] /\ \A u \in p[t] : u < x => u <= c
        BY DEF Follows
      <4>1. CASE x = t
        <5>1. \A u \in p[t] : u < t => u <= d
          BY <3>3, <3>5, <3>6
        <5> QED BY <3>1, <3>3, <3>4, <3>5, <4>1, <5>1
      <4>2. CASE x \in p[d]
        <5>0. x \in Nat /\ x < t /\ x <= t
          BY <3>3, <3>6, <4>2
        <5>1. CASE \A u \in p[d] : x <= u
          BY <3>5, <5>0, <5>1
        <5>2. CASE \E c \in p[d] : c < x /\ c \in dep[x] /\ \A u \in p[d] : u < x => u <= c
          <6>1. PICK c \in p[d] : c < x /\ c \in dep[x] /\ \A u \in p[d] : u < x => u <= c
            BY <5>2
          <6>2. ~ (t < x)
            BY <3>3, <5>0
          <6> QED BY <3>5, <6>1, <6>2
        <5> QED BY <3>4, <4>2, <5>1, <5>2 DEF Follows
      <4> QED BY <3>5, <4>1, <4>2
    <3>11. p[t] \in SUBSET (1 .. t) /\ t \in p[t]
      BY <3>5, <3>6
    <3> QED BY <3>9, <3>10, <3>11 DEF HeaviestTo
  <2>3. \/ pred[t] = {} /\ D[t] = prof[t].cost
        \/ \E d \in dep[t] : pred[t] = {d} /\ D[t] = D[d] + prof[t].cost
    BY <1>1, <1>2, OnePredecessor
  <2> QED BY <2>1, <2>2, <2>3
<1>8. NumTasks \in P
  <2> HIDE DEF P
  <2> QED BY <1>6, <1>7, Induction, PolicyAssumption
<1> QED BY <1>1, <1>2, <1>3, <1>8, PolicyAssumption

(* A path to a task of greatest distance is a heaviest chain. *)
LEMMA PinnedPath ==
    ASSUME NEW prof \in [1 .. NumTasks -> PlanProfiles], NEW dep \in Dags, NEW end \in 1 .. NumTasks,
           \A u \in 1 .. NumTasks : Dist(prof, dep)[u] <= Dist(prof, dep)[end]
    PROVE  /\ Paths(Preds(prof, dep))[end] \in SUBSET (1 .. NumTasks)
           /\ WorkOf(prof, Paths(Preds(prof, dep))[end]) = Longest(prof, dep)
<1>1. PICK D : D = Dist(prof, dep)
  OBVIOUS
<1>2. PICK S : S = Paths(Preds(prof, dep))[end]
  OBVIOUS
<1>3. S \in SUBSET (1 .. end) /\ Follows(dep, S) /\ WorkOf(prof, S) = D[end]
  BY <1>1, <1>2, PathsAreHeaviest DEF HeaviestTo
<1>4. \A u \in 1 .. end : u \in 1 .. NumTasks
  BY PolicyAssumption
<1>5. S \in SUBSET (1 .. NumTasks)
  BY <1>3, <1>4
<1>6. S \in Chains(dep)
  BY <1>3, <1>5, ChainForm
<1>7. D[end] <= Longest(prof, dep) /\ Longest(prof, dep) \in Nat
  BY <1>3, <1>6, LongestBounds
<1>8. /\ D \in [1 .. NumTasks -> Nat]
      /\ \A t \in 1 .. NumTasks : D[t] <= D[end] /\ D[t] >= prof[t].cost
      /\ \A t \in 1 .. NumTasks : \A d \in dep[t] : D[t] >= D[d] + prof[t].cost
  BY <1>1, DistBound
<1>9. D[end] \in Nat
  BY <1>8
<1>10. Longest(prof, dep) <= D[end]
  BY <1>8, <1>9, LongestBelow
<1>11. D[end] = Longest(prof, dep)
  BY <1>7, <1>9, <1>10
<1> QED BY <1>2, <1>3, <1>5, <1>11

-----------------------------------------------------------------------------
(* OptimizerPolicy *)

PlacedOn(pl, nd, n) == {t \in pl : nd[t] = n}

(* The budgets are the sums over the plan, a peer's stays within its       *)
(* memory, and during the search the estimate is the plan's.               *)
OptimizerInv ==
    /\ profile \in [1 .. NumTasks -> PlanProfiles] /\ deps \in Dags
    /\ start \in [0 .. NumPeers -> Snapshots]
    /\ placed \in SUBSET (1 .. NumTasks) /\ node \in [1 .. NumTasks -> 0 .. NumPeers]
    /\ memory_used = [n \in 0 .. NumPeers |-> NeedOf(profile, PlacedOn(placed, node, n))]
    /\ assigned_compute = [n \in 0 .. NumPeers |-> WorkOf(profile, PlacedOn(placed, node, n))]
    /\ \A n \in 1 .. NumPeers : memory_used[n] <= start[n].avail
    /\ phase = "critical" => placed = {} /\ node = [t \in 1 .. NumTasks |-> 0]
    /\ phase = "search" => placed = 1 .. NumTasks /\ current = Span(profile, deps, node)
    /\ phase = "done" /\ NumTasks > 1 /\ NumPeers > 0 => makespan = Span(profile, deps, node)

(* The parts of it that no step changes, and the typing of the budgets. *)
LEMMA OptimizerTypes ==
    ASSUME OptimizerInv
    PROVE  /\ profile \in [1 .. NumTasks -> PlanProfiles] /\ deps \in Dags
           /\ start \in [0 .. NumPeers -> Snapshots]
           /\ placed \in SUBSET (1 .. NumTasks) /\ node \in [1 .. NumTasks -> 0 .. NumPeers]
           /\ \A n \in 0 .. NumPeers :
                 /\ memory_used[n] = NeedOf(profile, PlacedOn(placed, node, n)) /\ memory_used[n] \in Nat
                 /\ assigned_compute[n] = WorkOf(profile, PlacedOn(placed, node, n))
                 /\ assigned_compute[n] \in Nat /\ start[n].avail \in Nat
           /\ \A t \in 1 .. NumTasks : /\ profile[t].mem \in Nat /\ profile[t].cost \in Nat
                                       /\ Need(profile)[t] = profile[t].mem
                                       /\ Work(profile)[t] = profile[t].cost
           /\ 0 \in 0 .. NumPeers
<1>1. /\ profile \in [1 .. NumTasks -> PlanProfiles] /\ deps \in Dags
      /\ start \in [0 .. NumPeers -> Snapshots]
      /\ placed \in SUBSET (1 .. NumTasks) /\ node \in [1 .. NumTasks -> 0 .. NumPeers]
      /\ \A n \in 0 .. NumPeers : memory_used[n] = NeedOf(profile, PlacedOn(placed, node, n))
      /\ \A n \in 0 .. NumPeers : assigned_compute[n] = WorkOf(profile, PlacedOn(placed, node, n))
  BY DEF OptimizerInv
<1>2. \A n \in 0 .. NumPeers : PlacedOn(placed, node, n) \in SUBSET (1 .. NumTasks)
  BY <1>1 DEF PlacedOn
<1>3. \A n \in 0 .. NumPeers : memory_used[n] \in Nat /\ assigned_compute[n] \in Nat
  BY <1>1, <1>2, TaskSets
<1>4. \A n \in 0 .. NumPeers : start[n].avail \in Nat
  BY <1>1, SnapshotParts
<1>5. \A t \in 1 .. NumTasks : profile[t].mem \in Nat /\ profile[t].cost \in Nat
  BY <1>1, ProfileParts
<1>6. 0 \in 0 .. NumPeers
  BY PolicyAssumption
<1> QED BY <1>1, <1>3, <1>4, <1>5, <1>6 DEF Need, Work

(* The optimizer starts with nothing placed. *)
LEMMA OptimizerStart ==
    ASSUME PlanInit, policy = "optimizer" PROVE OptimizerInv
<1>1. OptimizerInit
  BY DEF PlanInit
<1>2. /\ profile \in [1 .. NumTasks -> PlanProfiles] /\ deps \in Dags
      /\ start \in [0 .. NumPeers -> Snapshots]
      /\ phase = "critical" /\ placed = {} /\ node = [t \in 1 .. NumTasks |-> 0]
      /\ memory_used = [n \in 0 .. NumPeers |-> 0] /\ assigned_compute = [n \in 0 .. NumPeers |-> 0]
  BY <1>1 DEF OptimizerInit, PlanTasks, Cluster, Dags
<1>3. \A n : PlacedOn(placed, node, n) = {}
  BY <1>2 DEF PlacedOn
<1>4. NeedOf(profile, {}) = 0 /\ WorkOf(profile, {}) = 0
  BY FS_EmptySet, SumByFirst DEF NeedOf, WorkOf
<1>5. /\ memory_used = [n \in 0 .. NumPeers |-> NeedOf(profile, PlacedOn(placed, node, n))]
      /\ assigned_compute = [n \in 0 .. NumPeers |-> WorkOf(profile, PlacedOn(placed, node, n))]
  BY <1>2, <1>3, <1>4
<1>6. \A n \in 1 .. NumPeers : memory_used[n] <= start[n].avail
  <2>1. \A n \in 1 .. NumPeers : n \in 0 .. NumPeers
    OBVIOUS
  <2>2. \A n \in 0 .. NumPeers : start[n].avail \in Nat
    BY <1>2, SnapshotParts
  <2> QED BY <1>2, <2>1, <2>2
<1>7. node \in [1 .. NumTasks -> 0 .. NumPeers]
  BY <1>2, PolicyAssumption
<1> QED BY <1>2, <1>5, <1>6, <1>7 DEF OptimizerInv

(* critical_path_assignment: the local node takes the path, which is a     *)
(* heaviest chain.                                                         *)
LEMMA OptimizerPins ==
    ASSUME OptimizerInv, AssignCriticalPath
    PROVE  OptimizerInv' /\ WorkOf(profile, placed') = Longest(profile, deps)
<1>1. PICK end \in 1 .. NumTasks :
         /\ \A u \in 1 .. NumTasks : Dist(profile, deps)[u] <= Dist(profile, deps)[end]
         /\ placed' = PathTo(end)
         /\ memory_used' = [memory_used EXCEPT ![0] = MemoryOf(PathTo(end))]
         /\ assigned_compute' = [assigned_compute EXCEPT ![0] = ComputeOf(PathTo(end))]
  BY SameDistance DEF AssignCriticalPath, PlanTasks
<1>2. /\ phase = "critical" /\ phase' = "pack"
      /\ UNCHANGED <<profile, deps, start, node, current, iter, makespan>>
  BY DEF AssignCriticalPath
<1>3. PICK S : S = Paths(Preds(profile, deps))[end]
  OBVIOUS
<1>4. /\ placed' = S /\ memory_used' = [memory_used EXCEPT ![0] = NeedOf(profile, S)]
      /\ assigned_compute' = [assigned_compute EXCEPT ![0] = WorkOf(profile, S)]
  BY <1>1, <1>3, SamePath, SameSums
<1>5. profile \in [1 .. NumTasks -> PlanProfiles] /\ deps \in Dags /\ 0 \in 0 .. NumPeers
  BY OptimizerTypes
<1>6. S \in SUBSET (1 .. NumTasks) /\ WorkOf(profile, S) = Longest(profile, deps)
  BY <1>1, <1>3, <1>5, PinnedPath
<1>7. placed = {} /\ node = [t \in 1 .. NumTasks |-> 0]
  BY <1>2 DEF OptimizerInv
<1>8. ASSUME NEW n \in 0 .. NumPeers
      PROVE  PlacedOn(placed', node', n) = IF n = 0 THEN S ELSE PlacedOn(placed, node, n)
  <2>1. \A t \in S : node'[t] = 0
    BY <1>2, <1>6, <1>7
  <2> QED BY <1>4, <1>7, <2>1 DEF PlacedOn
<1>9. memory_used' = [n \in 0 .. NumPeers |-> NeedOf(profile', PlacedOn(placed', node', n))]
  <2>1. memory_used' = [n \in 0 .. NumPeers |->
                   IF n = 0 THEN NeedOf(profile, S)
                   ELSE NeedOf(profile, PlacedOn(placed, node, n))]
    BY <1>4, <1>5 DEF OptimizerInv
  <2> QED BY <1>2, <1>8, <2>1
<1>10. assigned_compute' = [n \in 0 .. NumPeers |-> WorkOf(profile', PlacedOn(placed', node', n))]
  <2>1. assigned_compute' = [n \in 0 .. NumPeers |->
                   IF n = 0 THEN WorkOf(profile, S)
                   ELSE WorkOf(profile, PlacedOn(placed, node, n))]
    BY <1>4, <1>5 DEF OptimizerInv
  <2> QED BY <1>2, <1>8, <2>1
<1>11. \A n \in 1 .. NumPeers : memory_used'[n] <= start'[n].avail
  <2> SUFFICES ASSUME NEW n \in 1 .. NumPeers PROVE memory_used'[n] <= start'[n].avail
    OBVIOUS
  <2>1. n # 0 /\ memory_used[n] <= start[n].avail
    BY DEF OptimizerInv
  <2>2. memory_used'[n] = memory_used[n]
    BY <1>4, <2>1 DEF OptimizerInv
  <2> QED BY <1>2, <2>1, <2>2
<1> QED BY <1>2, <1>4, <1>6, <1>9, <1>10, <1>11 DEF OptimizerInv

(* One more task adds its memory and its cost. *)
LEMMA AddTask ==
    ASSUME NEW prof \in [1 .. NumTasks -> PlanProfiles], NEW S \in SUBSET (1 .. NumTasks),
           NEW t \in 1 .. NumTasks, t \notin S
    PROVE  /\ NeedOf(prof, S \cup {t}) = NeedOf(prof, S) + prof[t].mem
           /\ WorkOf(prof, S \cup {t}) = WorkOf(prof, S) + prof[t].cost
<1>1. /\ IsFiniteSet(S) /\ Work(prof) \in [1 .. NumTasks -> Nat] /\ Need(prof) \in [1 .. NumTasks -> Nat]
  BY TaskSets
<1>2. \A x \in S \cup {t} : Work(prof)[x] \in Nat /\ Need(prof)[x] \in Nat
  BY <1>1
<1>3. Work(prof)[t] = prof[t].cost /\ Need(prof)[t] = prof[t].mem
  BY DEF Work, Need
<1>4. NeedOf(prof, S \cup {t}) = NeedOf(prof, S) + Need(prof)[t]
  BY <1>1, <1>2, SumInsert DEF NeedOf
<1>5. WorkOf(prof, S \cup {t}) = WorkOf(prof, S) + Work(prof)[t]
  BY <1>1, <1>2, SumInsert DEF WorkOf
<1> QED BY <1>3, <1>4, <1>5

(* A node with room keeps within its memory when it takes the task. *)
LEMMA RoomIsEnough ==
    ASSUME OptimizerInv, NEW n \in 1 .. NumPeers, NEW t \in 1 .. NumTasks,
           MemoryRemaining(n) >= profile[t].mem
    PROVE  memory_used[n] + profile[t].mem <= start[n].avail
<1>1. n \in 0 .. NumPeers /\ memory_used[n] <= start[n].avail
  BY DEF OptimizerInv
<1>2. memory_used[n] \in Nat /\ start[n].avail \in Nat /\ profile[t].mem \in Nat
  BY <1>1, OptimizerTypes
<1>3. CASE start[n].avail > memory_used[n]
  <2>1. start[n].avail - memory_used[n] >= profile[t].mem
    BY <1>3 DEF MemoryRemaining, Capacity
  <2> QED BY <1>2, <2>1
<1>4. CASE ~ (start[n].avail > memory_used[n])
  <2>1. 0 >= profile[t].mem
    BY <1>4 DEF MemoryRemaining, Capacity
  <2> QED BY <1>1, <1>2, <2>1
<1> QED BY <1>3, <1>4

(* The node that packing chooses has room, or is the local node. *)
LEMMA LightestNode ==
    ASSUME NEW t \in 1 .. NumTasks
    PROVE  /\ Lightest(t) \in 0 .. NumPeers
           /\ Lightest(t) = 0 \/ MemoryRemaining(Lightest(t)) >= profile[t].mem
<1> DEFINE best == {n \in Room(t) : \A m \in Room(t) : assigned_compute[n] <= assigned_compute[m]}
<1>1. Lightest(t) = IF best = {} THEN 0 ELSE Min(best)
  BY DEF Lightest
<1>2. /\ best \subseteq 0 .. NumPeers
      /\ \A n \in best : MemoryRemaining(n) >= profile[t].mem
  BY DEF Room, Cluster
<1>3. 0 \in 0 .. NumPeers /\ best \subseteq Nat
  BY <1>2, PolicyAssumption
<1> HIDE DEF best
<1>4. best # {} => Min(best) \in best
  BY <1>3, MinOf
<1> QED BY <1>1, <1>2, <1>3, <1>4

(* bin_pack_remaining: the chosen node's budget grows by the task. *)
LEMMA OptimizerPacks ==
    ASSUME OptimizerInv, NEW t \in 1 .. NumTasks, Pack(t) PROVE OptimizerInv'
<1>1. PICK to : to = Lightest(t)
  OBVIOUS
<1>2. /\ phase = "pack" /\ t \notin placed /\ placed' = placed \cup {t}
      /\ node' = [node EXCEPT ![t] = to]
      /\ memory_used' = [memory_used EXCEPT ![to] = @ + profile[t].mem]
      /\ assigned_compute' = [assigned_compute EXCEPT ![to] = @ + profile[t].cost]
      /\ UNCHANGED <<profile, deps, start, phase, current, iter, makespan>>
  BY <1>1 DEF Pack
<1>3. /\ profile \in [1 .. NumTasks -> PlanProfiles] /\ placed \in SUBSET (1 .. NumTasks)
      /\ node \in [1 .. NumTasks -> 0 .. NumPeers]
  BY OptimizerTypes
<1>4. to \in 0 .. NumPeers /\ (to = 0 \/ MemoryRemaining(to) >= profile[t].mem)
  BY <1>1, LightestNode
<1>5. ASSUME NEW n \in 0 .. NumPeers
      PROVE  /\ PlacedOn(placed, node, n) \in SUBSET (1 .. NumTasks) /\ t \notin PlacedOn(placed, node, n)
             /\ PlacedOn(placed', node', n) = IF n = to THEN PlacedOn(placed, node, n) \cup {t}
                                              ELSE PlacedOn(placed, node, n)
  <2>1. node'[t] = to /\ \A u \in placed : u # t /\ node'[u] = node[u]
    BY <1>2, <1>3, <1>4
  <2>2. PlacedOn(placed, node, n) \in SUBSET (1 .. NumTasks) /\ t \notin PlacedOn(placed, node, n)
    BY <1>2, <1>3 DEF PlacedOn
  <2>3. \A u : u \in PlacedOn(placed', node', n) <=> u \in PlacedOn(placed, node, n) \/ (n = to /\ u = t)
    BY <1>2, <2>1 DEF PlacedOn
  <2> QED BY <2>2, <2>3
<1>6. memory_used' = [n \in 0 .. NumPeers |-> NeedOf(profile', PlacedOn(placed', node', n))]
  <2>1. memory_used' = [n \in 0 .. NumPeers |->
                          IF n = to THEN NeedOf(profile, PlacedOn(placed, node, n)) + profile[t].mem
                          ELSE NeedOf(profile, PlacedOn(placed, node, n))]
    BY <1>2, <1>4 DEF OptimizerInv
  <2>2. \A n \in 0 .. NumPeers :
           NeedOf(profile, PlacedOn(placed', node', n)) =
              IF n = to THEN NeedOf(profile, PlacedOn(placed, node, n)) + profile[t].mem
              ELSE NeedOf(profile, PlacedOn(placed, node, n))
    <3> SUFFICES ASSUME NEW n \in 0 .. NumPeers
                 PROVE  NeedOf(profile, PlacedOn(placed', node', n)) =
                           IF n = to THEN NeedOf(profile, PlacedOn(placed, node, n)) + profile[t].mem
                           ELSE NeedOf(profile, PlacedOn(placed, node, n))
      OBVIOUS
    <3>1. CASE n = to
      <4>1. NeedOf(profile, PlacedOn(placed, node, n) \cup {t}) =
               NeedOf(profile, PlacedOn(placed, node, n)) + profile[t].mem
        BY <1>3, <1>5, AddTask
      <4> QED BY <1>5, <3>1, <4>1
    <3>2. CASE n # to
      BY <1>5, <3>2
    <3> QED BY <3>1, <3>2
  <2> QED BY <1>2, <2>1, <2>2
<1>7. assigned_compute' = [n \in 0 .. NumPeers |-> WorkOf(profile', PlacedOn(placed', node', n))]
  <2>1. assigned_compute' = [n \in 0 .. NumPeers |->
                          IF n = to THEN WorkOf(profile, PlacedOn(placed, node, n)) + profile[t].cost
                          ELSE WorkOf(profile, PlacedOn(placed, node, n))]
    BY <1>2, <1>4 DEF OptimizerInv
  <2>2. \A n \in 0 .. NumPeers :
           WorkOf(profile, PlacedOn(placed', node', n)) =
              IF n = to THEN WorkOf(profile, PlacedOn(placed, node, n)) + profile[t].cost
              ELSE WorkOf(profile, PlacedOn(placed, node, n))
    <3> SUFFICES ASSUME NEW n \in 0 .. NumPeers
                 PROVE  WorkOf(profile, PlacedOn(placed', node', n)) =
                           IF n = to THEN WorkOf(profile, PlacedOn(placed, node, n)) + profile[t].cost
                           ELSE WorkOf(profile, PlacedOn(placed, node, n))
      OBVIOUS
    <3>1. CASE n = to
      <4>1. WorkOf(profile, PlacedOn(placed, node, n) \cup {t}) =
               WorkOf(profile, PlacedOn(placed, node, n)) + profile[t].cost
        BY <1>3, <1>5, AddTask
      <4> QED BY <1>5, <3>1, <4>1
    <3>2. CASE n # to
      BY <1>5, <3>2
    <3> QED BY <3>1, <3>2
  <2> QED BY <1>2, <2>1, <2>2
<1>8. \A n \in 1 .. NumPeers : memory_used'[n] <= start'[n].avail
  <2> SUFFICES ASSUME NEW n \in 1 .. NumPeers PROVE memory_used'[n] <= start[n].avail
    BY <1>2
  <2>1. n \in 0 .. NumPeers /\ n # 0 /\ memory_used[n] <= start[n].avail
    BY DEF OptimizerInv
  <2>2. memory_used'[n] = IF n = to THEN memory_used[n] + profile[t].mem ELSE memory_used[n]
    BY <1>2, <1>4, <2>1 DEF OptimizerInv
  <2>3. CASE n = to
    BY <1>4, <2>1, <2>2, <2>3, RoomIsEnough
  <2>4. CASE n # to
    BY <2>1, <2>2, <2>4
  <2> QED BY <2>3, <2>4
<1>9. placed' \in SUBSET (1 .. NumTasks) /\ node' \in [1 .. NumTasks -> 0 .. NumPeers]
  BY <1>2, <1>3, <1>4
<1> QED BY <1>2, <1>6, <1>7, <1>8, <1>9 DEF OptimizerInv

(* local_search_improve: an accepted move takes the task out of one budget *)
(* and into another that has room, and lowers the estimate.                *)
LEMMA OptimizerMoves ==
    ASSUME OptimizerInv, NEW t \in 1 .. NumTasks, NEW to \in 0 .. NumPeers, TryMove(t, to)
    PROVE  OptimizerInv' /\ current' <= current
<1>1. /\ phase = "search" /\ UNCHANGED <<profile, deps, start, phase, placed, makespan>>
      /\ placed = 1 .. NumTasks /\ current = Span(profile, deps, node)
  BY DEF TryMove, OptimizerInv
<1>2. /\ profile \in [1 .. NumTasks -> PlanProfiles] /\ deps \in Dags
      /\ node \in [1 .. NumTasks -> 0 .. NumPeers]
  BY OptimizerTypes
<1>3. \A at : Span(profile, deps, at) \in Nat
  BY <1>2, SpanBounds
<1> DEFINE from == node[t]
           moved == [node EXCEPT ![t] = to]
           accept == /\ to # from /\ MemoryRemaining(to) >= profile[t].mem
                     /\ Estimate(moved) < current
<1>4. CASE ~ accept
  <2>1. UNCHANGED <<node, current, memory_used, assigned_compute>>
    BY <1>4 DEF TryMove
  <2>2. OptimizerInv'
    BY <1>1, <2>1 DEF OptimizerInv
  <2>3. current' <= current
    BY <1>1, <1>3, <2>1
  <2> QED BY <2>2, <2>3
<1>5. CASE accept
  <2>1. /\ node' = moved /\ current' = Estimate(moved)
        /\ memory_used' = [memory_used EXCEPT ![from] = @ - profile[t].mem, ![to] = @ + profile[t].mem]
        /\ assigned_compute' = [assigned_compute EXCEPT ![from] = @ - profile[t].cost,
                                                        ![to] = @ + profile[t].cost]
    BY <1>5 DEF TryMove
  <2>2. Estimate(moved) = Span(profile, deps, moved)
    BY SameEstimate
  <2>3. current' = Span(profile', deps', node') /\ current' <= current
    <3>1. current' = Span(profile, deps, node')
      BY <2>1, <2>2
    <3>2. current' < current /\ current' \in Nat /\ current \in Nat
      BY <1>1, <1>3, <1>5, <2>1, <3>1
    <3> QED BY <1>1, <3>1, <3>2
  <2>4. from \in 0 .. NumPeers /\ from # to /\ MemoryRemaining(to) >= profile[t].mem
    BY <1>2, <1>5
  <2>5. node' \in [1 .. NumTasks -> 0 .. NumPeers] /\ node'[t] = to
        /\ \A u \in 1 .. NumTasks : u # t => node'[u] = node[u]
    BY <1>2, <2>1
  <2>6. /\ memory_used \in [0 .. NumPeers -> Nat] /\ assigned_compute \in [0 .. NumPeers -> Nat]
        /\ \A n \in 0 .. NumPeers :
              /\ memory_used[n] = NeedOf(profile, PlacedOn(placed, node, n))
              /\ assigned_compute[n] = WorkOf(profile, PlacedOn(placed, node, n))
        /\ profile[t].mem \in Nat /\ profile[t].cost \in Nat
    <3>1. /\ \A n \in 0 .. NumPeers :
              /\ memory_used[n] = NeedOf(profile, PlacedOn(placed, node, n))
              /\ assigned_compute[n] = WorkOf(profile, PlacedOn(placed, node, n))
              /\ memory_used[n] \in Nat /\ assigned_compute[n] \in Nat
          /\ profile[t].mem \in Nat /\ profile[t].cost \in Nat
      BY OptimizerTypes
    <3>2. /\ memory_used = [n \in 0 .. NumPeers |-> memory_used[n]]
          /\ assigned_compute = [n \in 0 .. NumPeers |-> assigned_compute[n]]
      BY DEF OptimizerInv
    <3> QED BY <3>1, <3>2
  <2> HIDE DEF from, moved, accept
  <2> DEFINE A == PlacedOn(placed, node, from)
             B == PlacedOn(placed, node, to)
  <2>7. /\ B \in SUBSET (1 .. NumTasks) /\ t \notin B /\ A \ {t} \in SUBSET (1 .. NumTasks)
        /\ t \notin A \ {t} /\ A = (A \ {t}) \cup {t}
        /\ PlacedOn(placed', node', from) = A \ {t} /\ PlacedOn(placed', node', to) = B \cup {t}
        /\ \A n \in 0 .. NumPeers : n # from /\ n # to =>
              PlacedOn(placed', node', n) = PlacedOn(placed, node, n)
    <3>1. placed' = 1 .. NumTasks /\ placed = 1 .. NumTasks /\ node[t] = from
      BY <1>1 DEF from
    <3> QED BY <2>4, <2>5, <3>1 DEF PlacedOn
  <2> HIDE DEF A, B
  <2>8. /\ NeedOf(profile, A) = NeedOf(profile, A \ {t}) + profile[t].mem
        /\ WorkOf(profile, A) = WorkOf(profile, A \ {t}) + profile[t].cost
        /\ NeedOf(profile, B \cup {t}) = NeedOf(profile, B) + profile[t].mem
        /\ WorkOf(profile, B \cup {t}) = WorkOf(profile, B) + profile[t].cost
        /\ NeedOf(profile, A \ {t}) \in Nat /\ WorkOf(profile, A \ {t}) \in Nat
    <3>1. PICK R : R = A \ {t}
      OBVIOUS
    <3>2. R \in SUBSET (1 .. NumTasks) /\ t \notin R /\ A = R \cup {t}
      BY <2>7, <3>1
    <3>3. /\ NeedOf(profile, A) = NeedOf(profile, R) + profile[t].mem
          /\ WorkOf(profile, A) = WorkOf(profile, R) + profile[t].cost
      BY <1>2, <3>2, AddTask
    <3>4. /\ NeedOf(profile, B \cup {t}) = NeedOf(profile, B) + profile[t].mem
          /\ WorkOf(profile, B \cup {t}) = WorkOf(profile, B) + profile[t].cost
      BY <1>2, <2>7, AddTask
    <3>5. NeedOf(profile, R) \in Nat /\ WorkOf(profile, R) \in Nat
      BY <1>2, <3>2, TaskSets
    <3> QED BY <3>1, <3>3, <3>4, <3>5
  <2>9. /\ memory_used[from] = NeedOf(profile, A) /\ memory_used[to] = NeedOf(profile, B)
        /\ assigned_compute[from] = WorkOf(profile, A) /\ assigned_compute[to] = WorkOf(profile, B)
    BY <2>4, <2>6 DEF A, B
  <2>10. memory_used' = [n \in 0 .. NumPeers |-> NeedOf(profile', PlacedOn(placed', node', n))]
    <3>1. /\ memory_used'[from] = memory_used[from] - profile[t].mem
          /\ memory_used'[to] = memory_used[to] + profile[t].mem
          /\ \A n \in 0 .. NumPeers : n # from /\ n # to => memory_used'[n] = memory_used[n]
      BY <2>1, <2>4, <2>6
    <3>2. memory_used'[from] = NeedOf(profile, A \ {t})
      <4>1. PICK w : w = NeedOf(profile, A \ {t})
        OBVIOUS
      <4>2. w \in Nat /\ memory_used[from] = w + profile[t].mem
        BY <2>8, <2>9, <4>1
      <4>3. memory_used'[from] = w
        BY <2>6, <3>1, <4>2
      <4> QED BY <4>1, <4>3
    <3>3. memory_used'[to] = NeedOf(profile, B \cup {t})
      BY <2>8, <2>9, <3>1
    <3>4. \A n \in 0 .. NumPeers : memory_used'[n] = NeedOf(profile', PlacedOn(placed', node', n))
      BY <1>1, <2>6, <2>7, <3>1, <3>2, <3>3
    <3>5. memory_used' = [n \in 0 .. NumPeers |-> memory_used'[n]]
      BY <2>1, <2>6
    <3> QED BY <3>4, <3>5
  <2>11. assigned_compute' = [n \in 0 .. NumPeers |-> WorkOf(profile', PlacedOn(placed', node', n))]
    <3>1. /\ assigned_compute'[from] = assigned_compute[from] - profile[t].cost
          /\ assigned_compute'[to] = assigned_compute[to] + profile[t].cost
          /\ \A n \in 0 .. NumPeers : n # from /\ n # to => assigned_compute'[n] = assigned_compute[n]
      BY <2>1, <2>4, <2>6
    <3>2. assigned_compute'[from] = WorkOf(profile, A \ {t})
      <4>1. PICK w : w = WorkOf(profile, A \ {t})
        OBVIOUS
      <4>2. w \in Nat /\ assigned_compute[from] = w + profile[t].cost
        BY <2>8, <2>9, <4>1
      <4>3. assigned_compute'[from] = w
        BY <2>6, <3>1, <4>2
      <4> QED BY <4>1, <4>3
    <3>3. assigned_compute'[to] = WorkOf(profile, B \cup {t})
      BY <2>8, <2>9, <3>1
    <3>4. \A n \in 0 .. NumPeers : assigned_compute'[n] = WorkOf(profile', PlacedOn(placed', node', n))
      BY <1>1, <2>6, <2>7, <3>1, <3>2, <3>3
    <3>5. assigned_compute' = [n \in 0 .. NumPeers |-> assigned_compute'[n]]
      BY <2>1, <2>6
    <3> QED BY <3>4, <3>5
  <2>12. \A n \in 1 .. NumPeers : memory_used'[n] <= start'[n].avail
    <3> SUFFICES ASSUME NEW n \in 1 .. NumPeers PROVE memory_used'[n] <= start[n].avail
      BY <1>1
    <3>1. n \in 0 .. NumPeers /\ memory_used[n] <= start[n].avail
      BY DEF OptimizerInv
    <3>2. memory_used[n] \in Nat /\ start[n].avail \in Nat
      BY <3>1, OptimizerTypes
    <3>3. CASE n = to
      <4>1. memory_used'[n] = memory_used[n] + profile[t].mem
        BY <2>1, <2>4, <2>6, <3>3
      <4>2. memory_used[n] + profile[t].mem <= start[n].avail
        BY <2>4, <3>3, RoomIsEnough
      <4> QED BY <4>1, <4>2
    <3>4. CASE n = from
      <4>1. memory_used'[n] = memory_used[n] - profile[t].mem
        BY <2>1, <2>4, <2>6, <3>4
      <4> QED BY <2>6, <3>1, <3>2, <4>1
    <3>5. CASE n # to /\ n # from
      <4>1. memory_used'[n] = memory_used[n]
        BY <2>1, <2>6, <3>1, <3>5
      <4> QED BY <3>1, <4>1
    <3> QED BY <3>3, <3>4, <3>5
  <2> QED BY <1>1, <1>2, <2>3, <2>5, <2>10, <2>11, <2>12 DEF OptimizerInv
<1> QED BY <1>4, <1>5

(* Every step of the optimizer keeps the invariant. *)
LEMMA OptimizerStep ==
    ASSUME OptimizerInv, OptimizerNext \/ UNCHANGED <<start, makespan, optimizerVars>>
    PROVE  OptimizerInv'
<1>1. CASE AssignCriticalPath
  BY <1>1, OptimizerPins
<1>2. CASE StartSearch
  <2>1. /\ placed = 1 .. NumTasks
        /\ UNCHANGED <<profile, deps, start, placed, node, memory_used, assigned_compute>>
        /\ \/ (NumTasks < 2 \/ NumPeers = 0) /\ phase' = "done"
           \/ phase' = "search" /\ current' = Span(profile, deps, node)
    BY <1>2, SameEstimate DEF StartSearch, PlanTasks
  <2>2. (NumTasks < 2 \/ NumPeers = 0) => ~ (NumTasks > 1 /\ NumPeers > 0)
    BY PolicyAssumption
  <2> QED BY <2>1, <2>2 DEF OptimizerInv
<1>3. CASE EndSearch
  <2>1. /\ phase = "search" /\ phase' = "done" /\ makespan' = current
        /\ UNCHANGED <<profile, deps, start, placed, node, memory_used, assigned_compute>>
    BY <1>3 DEF EndSearch
  <2> QED BY <2>1 DEF OptimizerInv
<1>4. ASSUME NEW t \in 1 .. NumTasks, Pack(t) PROVE OptimizerInv'
  BY <1>4, OptimizerPacks
<1>5. ASSUME NEW t \in 1 .. NumTasks, NEW to \in 0 .. NumPeers, TryMove(t, to) PROVE OptimizerInv'
  BY <1>5, OptimizerMoves
<1>6. CASE OptimizerDone \/ UNCHANGED <<start, makespan, optimizerVars>>
  <2>1. UNCHANGED <<profile, deps, start, phase, placed, node, memory_used, assigned_compute,
                    current, makespan>>
    BY <1>6 DEF OptimizerDone, optimizerVars
  <2> QED BY <2>1 DEF OptimizerInv
<1> QED BY <1>1, <1>2, <1>3, <1>4, <1>5, <1>6 DEF OptimizerNext, PlanTasks, Cluster

(* The invariant contains what is promised of optimized plans. *)
LEMMA OptimizerPromises ==
    ASSUME OptimizerInv
    PROVE  OptimizerWithinMemory /\ BudgetsMatchPlan /\ EstimateRealistic
<1>1. OptimizerWithinMemory
  <2>1. \A n \in (0 .. NumPeers) \ {0} : n \in 1 .. NumPeers
    BY PolicyAssumption
  <2> QED BY <2>1 DEF OptimizerWithinMemory, Peers, Cluster, Capacity, OptimizerInv
<1>2. \A n : On(n) = PlacedOn(placed, node, n)
  BY DEF On, PlacedOn
<1>3. BudgetsMatchPlan
  BY <1>2, SameSums, OptimizerTypes DEF BudgetsMatchPlan, Cluster
<1>4. EstimateRealistic
  <2>1. PICK M : M = Span(profile, deps, node)
    OBVIOUS
  <2>2. PICK L : L = Longest(profile, deps)
    OBVIOUS
  <2>3. /\ M \in Nat /\ L <= M /\ L \in Nat
        /\ \A n : WorkOf(profile, {t \in 1 .. NumTasks : node[t] = n}) <= M
    BY <2>1, <2>2, OptimizerTypes, SpanBounds, LongestBounds
  <2>4. L = HeaviestChain
    BY <2>2, SameLongest
  <2>5. ASSUME phase = "search"
        PROVE  current >= L /\ \A n \in 0 .. NumPeers : current >= assigned_compute[n]
    <3>1. current = M /\ placed = 1 .. NumTasks
      BY <2>1, <2>5 DEF OptimizerInv
    <3>2. \A n \in 0 .. NumPeers : /\ assigned_compute[n] = WorkOf(profile, PlacedOn(placed, node, n))
                                   /\ assigned_compute[n] \in Nat
      BY OptimizerTypes
    <3>3. \A n \in 0 .. NumPeers : assigned_compute[n] <= M
      BY <2>3, <3>1, <3>2 DEF PlacedOn
    <3> QED BY <2>3, <3>1, <3>2, <3>3
  <2>6. ASSUME phase = "done", NumTasks > 1, NumPeers > 0 PROVE makespan >= L
    <3>1. makespan = M
      BY <2>1, <2>6 DEF OptimizerInv
    <3> QED BY <2>3, <3>1
  <2> QED BY <2>4, <2>5, <2>6 DEF EstimateRealistic, Cluster
<1> QED BY <1>1, <1>3, <1>4

(* What a step of the optimizer does, from the invariant. *)
LEMMA OptimizerSteps ==
    ASSUME OptimizerInv, OptimizerNext PROVE PinStep /\ SearchStep
<1>1. PinStep
  <2>1. SUFFICES ASSUME AssignCriticalPath PROVE ComputeOf(placed') = HeaviestChain
    BY DEF PinStep
  <2>2. WorkOf(profile, placed') = Longest(profile, deps)
    BY <2>1, OptimizerPins
  <2> QED BY <2>2, SameSums, SameLongest
<1>2. SearchStep
  <2>1. SUFFICES ASSUME phase = "search" PROVE current = Estimate(node) /\ current' <= current
    BY DEF SearchStep
  <2>2. current = Span(profile, deps, node)
    BY <2>1 DEF OptimizerInv
  <2>3. current = Estimate(node)
    BY <2>2, SameEstimate
  <2>4. current \in Nat
    BY <2>2, OptimizerTypes, SpanBounds
  <2>5. CASE \E t \in 1 .. NumTasks, to \in 0 .. NumPeers : TryMove(t, to)
    BY <2>3, <2>5, OptimizerMoves
  <2>6. CASE ~ \E t \in 1 .. NumTasks, to \in 0 .. NumPeers : TryMove(t, to)
    <3>1. EndSearch \/ OptimizerDone
      BY <2>1, <2>6 DEF OptimizerNext, PlanTasks, Cluster, AssignCriticalPath, StartSearch, Pack
    <3>2. current' = current
      BY <3>1 DEF EndSearch, OptimizerDone, optimizerVars
    <3> QED BY <2>3, <2>4, <3>2
  <2> QED BY <2>5, <2>6
<1> QED BY <1>1, <1>2

(* The invariant of the policy that plans. *)
PlanInv ==
    /\ policy = "greedy" => GreedyInv
    /\ policy = "threshold" => ThresholdInv
    /\ policy = "optimizer" => OptimizerInv

(* Each policy keeps its own invariant. *)
LEMMA PlanInvariant == PlanSpec => []PlanInv
<1>1. PlanInit => PlanInv
  BY GreedyStart, ThresholdStart, OptimizerStart DEF PlanInv
<1>2. ASSUME PlanInv, [PlanNext]_planVars PROVE PlanInv'
  <2>0. policy' = policy
    BY <1>2 DEF PlanNext, planVars
  <2>1. CASE policy = "greedy"
    <3>1. GreedyNext \/ UNCHANGED <<start, makespan, greedyVars, listVars>>
      BY <1>2, <2>1 DEF PlanNext, Schedule, planVars
    <3>2. GreedyInv'
      BY <1>2, <2>1, <3>1, GreedyStep DEF PlanInv
    <3> QED BY <2>0, <2>1, <3>2 DEF PlanInv
  <2>2. CASE policy = "threshold"
    <3>1. ThresholdNext \/ UNCHANGED <<start, makespan, thresholdVars, listVars>>
      BY <1>2, <2>2 DEF PlanNext, Schedule, planVars
    <3>2. ThresholdInv'
      BY <1>2, <2>2, <3>1, ThresholdStep DEF PlanInv
    <3> QED BY <2>0, <2>2, <3>2 DEF PlanInv
  <2>3. CASE policy = "optimizer"
    <3>1. OptimizerNext \/ UNCHANGED <<start, makespan, optimizerVars>>
      BY <1>2, <2>3 DEF PlanNext, Schedule, planVars
    <3>2. OptimizerInv'
      BY <1>2, <2>3, <3>1, OptimizerStep DEF PlanInv
    <3> QED BY <2>0, <2>3, <3>2 DEF PlanInv
  <2>4. CASE policy \notin {"greedy", "threshold", "optimizer"}
    BY <2>0, <2>4 DEF PlanInv
  <2> QED BY <2>1, <2>2, <2>3, <2>4
<1> QED BY <1>1, <1>2, PTL DEF PlanSpec

(* Under any policy and for any workload, a plan never asks a peer for     *)
(* more memory than it advertised, and a greedy plan overbooks the local   *)
(* node only with a task that was too large for what was left anywhere     *)
(* (schedule() of the three policies).                                     *)
THEOREM PlansFitPeers == PlanSpec => []MemoryRespected
<1>1. PlanInv => MemoryRespected
  BY GreedyPromises, ThresholdPromises, OptimizerPromises DEF PlanInv, MemoryRespected
<1> QED BY <1>1, PlanInvariant, PTL

(* estimated_makespan is the work of the busiest node of a greedy or       *)
(* threshold plan; the optimizer's node budgets are the sums over its      *)
(* plan, and its estimate is never below the critical path or the busiest  *)
(* node, whatever the graph, the costs and the moves tried.                *)
THEOREM EstimatesAreThePlans == PlanSpec => []EstimatesMatchPlan
<1>1. PlanInv => EstimatesMatchPlan
  BY GreedyPromises, ThresholdPromises, OptimizerPromises DEF PlanInv, EstimatesMatchPlan
<1> QED BY <1>1, PlanInvariant, PTL

(* The threshold policy never takes a wrapped difference for free memory;  *)
(* the optimizer pins a heaviest chain of the graph, and during the search *)
(* its estimate is the plan's and never grows.                             *)
THEOREM PoliciesStepAsPromised == PlanSpec => PolicySteps
<1>1. ASSUME PlanInv, PlanNext
      PROVE  /\ policy = "threshold" => LocalCapacityStep
             /\ policy = "optimizer" => PinStep /\ SearchStep
  <2>1. policy = "optimizer" => OptimizerNext
    BY <1>1 DEF PlanNext, Schedule
  <2> QED BY <1>1, <2>1, ThresholdPromises, OptimizerSteps DEF PlanInv
<1> QED BY <1>1, PlanInvariant, PTL DEF PlanSpec, PolicySteps
=============================================================================
