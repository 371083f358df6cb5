--------------------------- MODULE PlannerProofs ---------------------------
(***************************************************************************)
(* What the planner plans, for any finite registry, goals and Context.     *)
(* First the reference: the recursion of NeededWithin is defined, and its   *)
(* value is the least set of keys closed under the needs of the goals. The  *)
(* invariant then follows the planner through its phases. While visit       *)
(* expands, the stack is a path of needs (PathInv), what was looked at is   *)
(* served (LookedInv) and no cycle is among what is completed (ExpandInv);  *)
(* while the steps are put in order, each is the least that is ready        *)
(* (OrderInv); and every way to end says what it says of the input          *)
(* (OutcomeInv).                                                            *)
(***************************************************************************)
EXTENDS Planner, SequenceTheorems, FunctionTheorems, FiniteSetTheorems,
        WellFoundedInduction, TLAPS

-----------------------------------------------------------------------------
(* Facts about numbers *)

\* A nonempty set of numbers has a least one.
LEMMA LeastOf ==
  ASSUME NEW A \in SUBSET Nat, A # {}
  PROVE  Least(A) \in A /\ \A y \in A : Least(A) <= y
<1>1. \A x, y \in Nat : y < x => <<y, x>> \in OpToRel(<, Nat)
  BY DEF OpToRel
<1>2. \E R : /\ IsWellFoundedOn(R, Nat)
             /\ \A x, y \in Nat : y < x => <<y, x>> \in R
  BY <1>1, NatLessThanWellFounded, Zenon
<1>3. PICK R : /\ IsWellFoundedOn(R, Nat)
               /\ \A x, y \in Nat : y < x => <<y, x>> \in R
  BY <1>2
<1>4. PICK x \in A : \A y \in A : ~(<<y, x>> \in R)
  BY <1>3, WFMin
<1>5. ASSUME NEW y \in A PROVE x <= y
  <2>1. x \in Nat /\ y \in Nat
    BY <1>4
  <2>2. ~(y < x)
    BY <1>3, <1>4, <2>1
  <2> QED
    BY <2>1, <2>2
<1> QED
  BY <1>5 DEF Least

\* Induction over the natural numbers, as a statement about a set.
LEMMA NatSetInduction ==
  ASSUME NEW S, 0 \in S, \A n \in Nat : n \in S => n + 1 \in S
  PROVE  Nat \subseteq S
<1> SUFFICES ASSUME Nat \ S # {} PROVE FALSE
  OBVIOUS
<1>1. PICK x \in Nat \ S : \A y \in Nat \ S : x <= y
  BY LeastOf
<1>2. x # 0 /\ x - 1 \in Nat /\ ~(x <= x - 1)
  BY <1>1
<1>3. x - 1 \in S
  BY <1>1, <1>2
<1> QED
  BY <1>1, <1>2, <1>3

-----------------------------------------------------------------------------
(* What the goals need. NeededWithin is a recursive function on the numbers:   *)
(* it is defined, and its value at the number of keys is the least set of keys *)
(* that has the goals and the requirements of every unique producer in it.     *)

InputType == registry \in Registries /\ goals \subseteq Keys

\* The capabilities of the only producers of keys in K.
Unique(K) == {k \in K : Cardinality(Producers(k)) = 1}

Upstream(K) == (UNION {Requires(c) : c \in UNION {Producers(k) : k \in Unique(K)}}) \ available

Widen(K) == K \cup Upstream(K)

LEMMA RegistryType ==
  ASSUME InputType
  PROVE  /\ \A c \in Ids : Requires(c) \subseteq Keys /\ Provides(c) \subseteq Keys
         /\ \A k : Producers(k) \subseteq Ids /\ IsFiniteSet(Producers(k))
<1>1. registry \in [requires : [Ids -> SUBSET Keys], provides : [Ids -> SUBSET Keys]]
  BY PlannerAssumption DEF InputType
<1>2. \A c \in Ids : Requires(c) \subseteq Keys /\ Provides(c) \subseteq Keys
  BY <1>1 DEF Requires, Provides
<1>3. \A k : Producers(k) \subseteq Ids
  BY DEF Producers
<1> QED
  BY <1>2, <1>3, PlannerAssumption, FS_Subset

\* One producer is a producer and no other.
LEMMA OneProducer ==
  ASSUME InputType, NEW k
  PROVE  /\ Cardinality(Producers(k)) = 1 <=> \E c \in Ids : Producers(k) = {c}
         /\ Cardinality(Producers(k)) > 1 => \A c : Producers(k) # {c}
<1>1. IsFiniteSet(Producers(k)) /\ Producers(k) \subseteq Ids
  BY RegistryType
<1>2. Cardinality(Producers(k)) = 1 <=> \E c : Producers(k) = {c}
  BY <1>1, FS_Singleton
<1>3. \A c : Producers(k) = {c} => c \in Ids
  BY <1>1
<1>4. \A c : Producers(k) = {c} => Cardinality(Producers(k)) = 1
  BY <1>2
<1>5. ~(1 > 1)
  OBVIOUS
<1>6. Cardinality(Producers(k)) = 1 <=> \E c \in Ids : Producers(k) = {c}
  BY <1>2, <1>3
<1>7. Cardinality(Producers(k)) > 1 => \A c : Producers(k) # {c}
  BY <1>4, <1>5
<1> QED
  BY <1>6, <1>7

Chains(g, n) ==
  /\ g[0] = goals \ available
  /\ \A m \in 1..n : g[m] = Widen(g[m - 1])

LEMMA ChainExists ==  \A n \in Nat : \E g : Chains(g, n)
<1> DEFINE S == {n \in Nat : \E g : Chains(g, n)}
<1>1. 0 \in S
  <2>1. Chains([m \in {0} |-> goals \ available], 0)
    BY DEF Chains
  <2> QED
    BY <2>1
<1>2. ASSUME NEW n \in Nat, n \in S PROVE n + 1 \in S
  <2>1. PICK g : Chains(g, n)
    BY <1>2
  <2> DEFINE h == [m \in 0..(n + 1) |-> IF m = n + 1 THEN Widen(g[n]) ELSE g[m]]
  <2>2. h[0] = goals \ available
    BY <2>1 DEF Chains
  <2>3. ASSUME NEW m \in 1..(n + 1) PROVE h[m] = Widen(h[m - 1])
    <3>1. CASE m = n + 1
      <4>1. h[m - 1] = g[n] /\ h[m] = Widen(g[n])
        BY <3>1
      <4> QED
        BY <4>1
    <3>2. CASE m # n + 1
      <4>1. m \in 1..n /\ h[m] = g[m] /\ h[m - 1] = g[m - 1]
        BY <3>2
      <4> QED
        BY <2>1, <4>1 DEF Chains
    <3> QED
      BY <3>1, <3>2
  <2>4. Chains(h, n + 1)
    <3> HIDE DEF h
    <3> QED
      BY <2>2, <2>3 DEF Chains
  <2> QED
    BY <2>4
<1>3. \A m \in Nat : m \in S => m + 1 \in S
  BY <1>2
<1> HIDE DEF S
<1>4. Nat \subseteq S
  BY <1>1, <1>3, NatSetInduction, Zenon
<1> QED
  BY <1>4 DEF S

\* Two chains are equal as far as both reach.
LEMMA ChainsAgree ==
  ASSUME NEW g, NEW h, NEW m \in Nat, Chains(g, m), Chains(h, m)
  PROVE  g[m] = h[m]
<1> DEFINE S == {n \in Nat : n <= m => g[n] = h[n]}
<1>1. 0 \in S
  BY DEF Chains
<1>2. ASSUME NEW n \in Nat, n \in S PROVE n + 1 \in S
  <2> SUFFICES ASSUME n + 1 <= m PROVE g[n + 1] = h[n + 1]
    OBVIOUS
  <2>1. n + 1 \in 1..m /\ (n + 1) - 1 = n /\ g[n] = h[n]
    BY <1>2
  <2>2. g[n + 1] = Widen(g[n]) /\ h[n + 1] = Widen(h[n])
    BY <2>1 DEF Chains
  <2> QED
    BY <2>1, <2>2
<1>3. \A n \in Nat : n \in S => n + 1 \in S
  BY <1>2
<1> HIDE DEF S
<1>4. Nat \subseteq S
  BY <1>1, <1>3, NatSetInduction, Zenon
<1> QED
  BY <1>4 DEF S

LEMMA NeededUnfolds ==
  /\ NeededWithin[0] = goals \ available
  /\ \A n \in Nat : NeededWithin[n + 1] = Widen(NeededWithin[n])
<1> DEFINE P(f) == f = [n \in Nat |->
             IF n = 0 THEN goals \ available
             ELSE LET needed == f[n - 1]
                      unique == {k \in needed : Cardinality(Producers(k)) = 1}
                  IN needed \cup
                     ((UNION {Requires(c) : c \in UNION {Producers(k) : k \in unique}})
                        \ available)]
<1>1. \A f : P(f) <=> f = [n \in Nat |-> IF n = 0 THEN goals \ available
                                         ELSE Widen(f[n - 1])]
  BY DEF Widen, Upstream, Unique
<1>2. \E f : P(f)
  <2> DEFINE chain(n) == CHOOSE g : Chains(g, n)
             F == [n \in Nat |-> chain(n)[n]]
  <2>1. \A n \in Nat : Chains(chain(n), n)
    BY ChainExists
  <2>2. ASSUME NEW n \in Nat
        PROVE  F[n] = IF n = 0 THEN goals \ available ELSE Widen(F[n - 1])
    <3>1. CASE n = 0
      BY <2>1, <3>1 DEF Chains
    <3>2. CASE n # 0
      <4>1. n - 1 \in Nat /\ n \in 1..n /\ \A m \in 1..(n - 1) : m \in 1..n
        BY <3>2
      <4>2. Chains(chain(n), n) /\ Chains(chain(n - 1), n - 1)
        BY <2>1, <4>1
      <4> HIDE DEF chain
      <4>3. Chains(chain(n), n - 1)
        BY <4>1, <4>2 DEF Chains
      <4>4. chain(n)[n - 1] = chain(n - 1)[n - 1]
        BY <4>1, <4>2, <4>3, ChainsAgree
      <4>5. chain(n)[n] = Widen(chain(n)[n - 1])
        BY <4>1, <4>2 DEF Chains
      <4>6. F[n] = chain(n)[n] /\ F[n - 1] = chain(n - 1)[n - 1]
        BY <4>1
      <4> HIDE DEF F
      <4> QED
        BY <3>2, <4>4, <4>5, <4>6
    <3> QED
      BY <3>1, <3>2
  <2>3. F = [n \in Nat |-> F[n]]
    OBVIOUS
  <2> HIDE DEF F, P
  <2>4. F = [n \in Nat |-> IF n = 0 THEN goals \ available ELSE Widen(F[n - 1])]
    BY <2>2, <2>3
  <2> QED
    BY <1>1, <2>4
<1> DEFINE needed == CHOOSE f : P(f)
<1>3. P(needed)
  BY <1>2, Zenon
<1>4. NeededWithin = needed
  BY Zenon DEF NeededWithin
<1> HIDE DEF needed, P
<1>5. needed = [n \in Nat |-> IF n = 0 THEN goals \ available ELSE Widen(needed[n - 1])]
  BY <1>1, <1>3
<1>6. NeededWithin[0] = goals \ available
  BY <1>4, <1>5
<1>7. ASSUME NEW n \in Nat PROVE NeededWithin[n + 1] = Widen(NeededWithin[n])
  <2>1. n + 1 \in Nat /\ n + 1 # 0 /\ (n + 1) - 1 = n
    OBVIOUS
  <2> QED
    BY <1>4, <1>5, <2>1
<1> QED
  BY <1>6, <1>7

LEMMA NeededTypes ==
  ASSUME InputType, NEW n \in Nat
  PROVE  NeededWithin[n] \in SUBSET Keys /\ NeededWithin[n] \subseteq NeededWithin[n + 1]
<1> DEFINE S == {m \in Nat : NeededWithin[m] \in SUBSET Keys}
<1>1. 0 \in S
  BY NeededUnfolds DEF InputType
<1>2. ASSUME NEW m \in Nat, m \in S PROVE m + 1 \in S
  <2>1. Upstream(NeededWithin[m]) \subseteq Keys
    <3>1. \A k : Producers(k) \subseteq Ids
      BY RegistryType
    <3>2. \A c \in Ids : Requires(c) \subseteq Keys
      BY RegistryType
    <3> QED
      BY <3>1, <3>2 DEF Upstream
  <2>2. NeededWithin[m + 1] \in SUBSET Keys
    BY <1>2, <2>1, NeededUnfolds DEF Widen
  <2> QED
    BY <2>2
<1>3. \A m \in Nat : m \in S => m + 1 \in S
  BY <1>2
<1> HIDE DEF S
<1>4. Nat \subseteq S
  BY <1>1, <1>3, NatSetInduction, Zenon
<1>5. NeededWithin[n] \in SUBSET Keys
  BY <1>4 DEF S
<1> QED
  BY <1>5, NeededUnfolds DEF Widen

\* Every round that is not the last one adds a key.
LEMMA NeededGrows ==
  ASSUME InputType, NEW n \in Nat
  PROVE  \/ NeededWithin[n + 1] = NeededWithin[n]
         \/ Cardinality(NeededWithin[n]) >= n
<1> DEFINE S == {m \in Nat : \/ NeededWithin[m + 1] = NeededWithin[m]
                             \/ Cardinality(NeededWithin[m]) >= m}
<1>1. \A m \in Nat : IsFiniteSet(NeededWithin[m]) /\ Cardinality(NeededWithin[m]) \in Nat
  BY NeededTypes, PlannerAssumption, FS_Subset, FS_CardinalityType
<1>2. 0 \in S
  BY <1>1
<1>3. ASSUME NEW m \in Nat, m \in S PROVE m + 1 \in S
  <2>1. CASE NeededWithin[m + 1] = NeededWithin[m]
    <3>1. NeededWithin[(m + 1) + 1] = Widen(NeededWithin[m])
      BY <2>1, NeededUnfolds
    <3>2. NeededWithin[(m + 1) + 1] = NeededWithin[m + 1]
      BY <3>1, NeededUnfolds
    <3> QED
      BY <3>2
  <2>2. CASE NeededWithin[m + 1] # NeededWithin[m]
    <3> DEFINE A == NeededWithin[m]
               B == NeededWithin[m + 1]
    <3>1. A \subseteq B /\ A # B
      BY <2>2, NeededTypes
    <3>2. IsFiniteSet(A) /\ IsFiniteSet(B) /\ Cardinality(A) \in Nat /\ Cardinality(B) \in Nat
      BY <1>1
    <3>3. Cardinality(A) >= m
      BY <1>3, <2>2
    <3> HIDE DEF A, B
    <3>4. Cardinality(A) <= Cardinality(B) /\ Cardinality(A) # Cardinality(B)
      BY <3>1, <3>2, FS_Subset
    <3>5. Cardinality(B) >= m + 1
      BY <3>2, <3>3, <3>4
    <3> QED
      BY <3>5 DEF B
  <2> QED
    BY <2>1, <2>2
<1>4. \A m \in Nat : m \in S => m + 1 \in S
  BY <1>3
<1> HIDE DEF S
<1>5. Nat \subseteq S
  BY <1>2, <1>4, NatSetInduction, Zenon
<1> QED
  BY <1>5 DEF S

\* The needed keys are closed: nothing is left to add when all rounds are over.
LEMMA NeededClosed ==
  ASSUME InputType
  PROVE  /\ goals \ available \subseteq NeededKeys
         /\ NeededKeys \subseteq Keys
         /\ \A k \in NeededKeys, c \in Ids :
              Producers(k) = {c} => Requires(c) \ available \subseteq NeededKeys
<1> DEFINE N == Cardinality(Keys)
<1>1. N \in Nat /\ IsFiniteSet(Keys)
  BY PlannerAssumption, FS_CardinalityType
<1>2. NeededKeys = NeededWithin[N]
  BY DEF NeededKeys
<1> HIDE DEF N
<1>3. NeededKeys \in SUBSET Keys
  BY <1>1, <1>2, NeededTypes
<1>4. Widen(NeededKeys) = NeededKeys
  <2>1. NeededWithin[N + 1] = Widen(NeededKeys)
    BY <1>1, <1>2, NeededUnfolds
  <2>2. CASE NeededWithin[N + 1] = NeededWithin[N]
    BY <1>2, <2>1, <2>2
  <2>3. CASE Cardinality(NeededWithin[N]) >= N
    <3>1. Cardinality(NeededKeys) >= N /\ Cardinality(NeededKeys) <= N
      BY <1>1, <1>2, <1>3, <2>3, FS_Subset DEF N
    <3>2. IsFiniteSet(NeededKeys)
      BY <1>1, <1>3, FS_Subset
    <3>3. Cardinality(NeededKeys) \in Nat
      BY <3>2, FS_CardinalityType
    <3>4. Cardinality(NeededKeys) = Cardinality(Keys)
      BY <1>1, <3>1, <3>3 DEF N
    <3>5. NeededKeys = Keys
      BY <1>1, <1>3, <3>4, FS_Subset
    <3>6. NeededWithin[N + 1] \in SUBSET Keys
      BY <1>1, NeededTypes
    <3> QED
      BY <2>1, <3>5, <3>6 DEF Widen
  <2> QED
    BY <1>1, <2>2, <2>3, NeededGrows
<1>5. goals \ available \subseteq NeededKeys
  <2> DEFINE S == {n \in Nat : goals \ available \subseteq NeededWithin[n]}
  <2>1. 0 \in S
    BY NeededUnfolds
  <2>2. \A n \in Nat : n \in S => n + 1 \in S
    BY NeededTypes
  <2> HIDE DEF S
  <2>3. Nat \subseteq S
    BY <2>1, <2>2, NatSetInduction, Zenon
  <2> QED
    BY <1>1, <1>2, <2>3 DEF S
<1>6. ASSUME NEW k \in NeededKeys, NEW c \in Ids, Producers(k) = {c}
      PROVE  Requires(c) \ available \subseteq NeededKeys
  <2>1. k \in Unique(NeededKeys)
    BY <1>6, OneProducer DEF Unique
  <2>2. Requires(c) \ available \subseteq Upstream(NeededKeys)
    BY <1>6, <2>1 DEF Upstream
  <2> QED
    BY <1>4, <2>2 DEF Widen
<1> QED
  BY <1>3, <1>5, <1>6

\* And they are the least closed set that has the goals.
LEMMA NeededLeast ==
  ASSUME InputType, NEW K, goals \ available \subseteq K,
         \A k \in K, c \in Ids : Producers(k) = {c} => Requires(c) \ available \subseteq K
  PROVE  NeededKeys \subseteq K
<1> DEFINE S == {n \in Nat : NeededWithin[n] \subseteq K}
<1>1. 0 \in S
  BY NeededUnfolds
<1>2. ASSUME NEW n \in Nat, n \in S PROVE n + 1 \in S
  <2>1. NeededWithin[n] \subseteq K
    BY <1>2
  <2>2. Upstream(NeededWithin[n]) \subseteq K
    <3> SUFFICES ASSUME NEW k \in Unique(NeededWithin[n]), NEW c \in Producers(k)
                 PROVE  Requires(c) \ available \subseteq K
      BY DEF Upstream
    <3>1. k \in K /\ Cardinality(Producers(k)) = 1
      BY <2>1 DEF Unique
    <3>2. Producers(k) = {c} /\ c \in Ids
      BY <3>1, OneProducer
    <3> QED
      BY <3>1, <3>2
  <2>3. NeededWithin[n + 1] \subseteq K
    BY <2>1, <2>2, NeededUnfolds DEF Widen
  <2> QED
    BY <2>3
<1>3. \A n \in Nat : n \in S => n + 1 \in S
  BY <1>2
<1> HIDE DEF S
<1>4. Nat \subseteq S
  BY <1>1, <1>3, NatSetInduction, Zenon
<1>5. Cardinality(Keys) \in Nat
  BY PlannerAssumption, FS_CardinalityType
<1> QED
  BY <1>4, <1>5 DEF S, NeededKeys

-----------------------------------------------------------------------------
(* The inductive invariant *)

\* The only producer of key k is in S.
Served(k, S) == \E c \in S : Producers(k) = {c}

OnTheStack == {visiting[i].id : i \in 1..Len(visiting)}

\* The stack is a path of the dependency graph that nobody on it has left.
PathInv ==
  /\ selected = completed \cup OnTheStack
  /\ \A i, j \in 1..Len(visiting) : visiting[i].id = visiting[j].id => i = j
  /\ \A i \in 1..Len(visiting) :
       /\ visiting[i].id \notin completed
       /\ visiting[i].left \subseteq Requires(visiting[i].id)
       /\ i # Len(visiting) => visiting[i + 1].id \in DependsOn(visiting[i].id)

\* What was looked at is served by a capability that visit has finished, or by
\* the one that it is in.
LookedInv ==
  /\ \A i \in 1..Len(visiting) :
       \A k \in (Requires(visiting[i].id) \ available) \ visiting[i].left :
         \/ Served(k, completed)
         \/ i # Len(visiting) /\ Producers(k) = {visiting[i + 1].id}
  /\ \A c \in completed : \A k \in Requires(c) \ available : Served(k, completed)
  /\ \A k \in (goals \ available) \ goalsLeft :
       \/ Served(k, completed)
       \/ visiting # <<>> /\ Producers(k) = {visiting[1].id}

\* A set of capabilities that each wait for another one of it.
Knot(S) == S # {} /\ \A c \in S : DependsOn(c) \cap S # {}

ExpandInv ==
  pc = "expand" =>
    /\ PathInv /\ LookedInv
    /\ \A c \in selected : \E k \in NeededKeys : Producers(k) = {c}
    /\ \A S \in SUBSET completed : ~Knot(S)
    /\ ordered = <<>>

Before(i) == {ordered[m] : m \in 1..(i - 1)}

\* The plan so far has what its steps depend on, before them, and the least name
\* whenever there was a choice.
OrderInv ==
  pc \in {"order", "planned"} =>
    /\ selected = NeededIds /\ Satisfiable
    /\ \A c \in selected : waiting[c] = DependsOn(c) \ Placed
    /\ Placed \subseteq selected
    /\ \A i, j \in 1..Len(ordered) : ordered[i] = ordered[j] => i = j
    /\ \A i \in 1..Len(ordered) :
         /\ DependsOn(ordered[i]) \subseteq Before(i)
         /\ \A d \in selected \ Before(i) : d < ordered[i] => ~(DependsOn(d) \subseteq Before(i))

OutcomeInv ==
  /\ pc = "planned" => Placed = selected /\ ValidPlan(ordered)
  /\ pc = "missing"   => \E k \in NeededKeys : Producers(k) = {}
  /\ pc = "ambiguous" => \E k \in NeededKeys : Cardinality(Producers(k)) > 1
  /\ pc = "cycle"     => Cyclic
  /\ pc # "invalid_plan"
  /\ BuiltIsExecutable

PlanTypeInv == TypeOK /\ (goals = {} => pc = "invalid_input")

PlanInv == PlanTypeInv /\ ExpandInv /\ OrderInv /\ OutcomeInv

-----------------------------------------------------------------------------
(* Facts about the definitions *)

\* What depends on the input alone stays, since no step changes the input.
LEMMA InputStays ==
  ASSUME UNCHANGED input
  PROVE  /\ registry' = registry /\ goals' = goals /\ available' = available
         /\ \A k : Producers(k)' = Producers(k)
         /\ \A c : Requires(c)' = Requires(c) /\ Provides(c)' = Provides(c)
         /\ \A c : DependsOn(c)' = DependsOn(c)
         /\ NeededKeys' = NeededKeys
<1>1. registry' = registry /\ goals' = goals /\ available' = available
  BY DEF input
<1>2. NeededKeys' = NeededKeys
  BY <1>1, SMT DEF NeededKeys, NeededWithin, Producers, Provides, Requires
<1>3. \A k : Producers(k)' = Producers(k)
  BY <1>1 DEF Producers, Provides
<1>4. \A c : Requires(c)' = Requires(c) /\ Provides(c)' = Provides(c)
  BY <1>1 DEF Requires, Provides
<1>5. \A c : DependsOn(c)' = DependsOn(c)
  BY <1>1 DEF DependsOn, Producers, Provides, Requires
<1> QED
  BY <1>1, <1>2, <1>3, <1>4, <1>5

LEMMA ReferenceStays ==
  ASSUME UNCHANGED input
  PROVE  /\ NeededIds' = NeededIds /\ Satisfiable' = Satisfiable /\ Cyclic' = Cyclic
<1>1. NeededIds' = NeededIds
  BY InputStays DEF NeededIds
<1>2. Cyclic' = Cyclic
  BY <1>1, InputStays DEF Cyclic
<1>3. Satisfiable' = Satisfiable
  BY <1>2, InputStays DEF Satisfiable
<1> QED
  BY <1>1, <1>2, <1>3

\* What a capability depends on are the producers of what it requires.
LEMMA DependsMeans ==
  ASSUME NEW c, NEW p
  PROVE  p \in DependsOn(c) <=> \E k \in Requires(c) \ available : p \in Producers(k)
BY DEF DependsOn

\* What is needed is needed with everything it requires.
LEMMA NeededStep ==
  ASSUME InputType, NEW c \in Ids, NEW k \in NeededKeys, Producers(k) = {c},
         NEW r \in Requires(c) \ available
  PROVE  r \in NeededKeys
BY NeededClosed

\* A graph in which a part of what is needed is tied in a knot is cyclic.
LEMMA KnotIsCycle ==
  ASSUME NEW S \in SUBSET NeededIds, Knot(S)
  PROVE  Cyclic
BY DEF Knot, Cyclic

Frame == [id : Ids, left : SUBSET Keys]

LEMMA TypeFacts ==
  ASSUME PlanTypeInv
  PROVE  /\ InputType /\ IsFiniteSet(Ids) /\ Ids \subseteq Nat
         /\ selected \subseteq Ids /\ completed \subseteq Ids /\ IsFiniteSet(selected)
         /\ visiting \in Seq(Frame) /\ ordered \in Seq(Ids)
<1>1. InputType
  BY DEF PlanTypeInv, TypeOK, InputType
<1>2. IsFiniteSet(Ids) /\ Ids \subseteq Nat
  BY PlannerAssumption
<1>3. selected \subseteq Ids /\ completed \subseteq Ids
  BY DEF PlanTypeInv, TypeOK
<1>4. IsFiniteSet(selected)
  BY <1>2, <1>3, FS_Subset
<1>5. visiting \in Seq(Frame) /\ ordered \in Seq(Ids)
  BY DEF PlanTypeInv, TypeOK, Frame
<1> QED
  BY <1>1, <1>2, <1>3, <1>4, <1>5

\* A sequence of frames, by its parts.
LEMMA FramesAre ==
  ASSUME NEW frames \in Seq(Frame)
  PROVE  /\ Len(frames) \in Nat
         /\ \A i \in 1..Len(frames) : /\ frames[i] \in Frame
                                      /\ frames[i].id \in Ids /\ frames[i].left \subseteq Keys
<1>1. Len(frames) \in Nat
  BY LenProperties
<1>2. \A i \in 1..Len(frames) : frames[i] \in Frame
  BY ElementOfSeq
<1> QED
  BY <1>1, <1>2 DEF Frame

\* A capability's frame is put on the stack.
LEMMA Pushed ==
  ASSUME NEW frames \in Seq(Frame), NEW c \in Ids, NEW l \in SUBSET Keys,
         NEW s, s = Append(frames, [id |-> c, left |-> l])
  PROVE  /\ s \in Seq(Frame) /\ Len(s) = Len(frames) + 1
         /\ \A i \in 1..Len(frames) : s[i] = frames[i]
         /\ s[Len(frames) + 1].id = c /\ s[Len(frames) + 1].left = l
<1>1. [id |-> c, left |-> l] \in Frame
  BY DEF Frame
<1> DEFINE e == [id |-> c, left |-> l]
<1>2. /\ Append(frames, e) \in Seq(Frame) /\ Len(Append(frames, e)) = Len(frames) + 1
      /\ \A i \in 1..Len(frames) : Append(frames, e)[i] = frames[i]
      /\ Append(frames, e)[Len(frames) + 1] = e
  <2> HIDE DEF e
  <2> QED
    BY <1>1 DEF e
<1>3. e.id = c /\ e.left = l
  OBVIOUS
<1> HIDE DEF e
<1>4. /\ Append(frames, e)[Len(frames) + 1].id = c
      /\ Append(frames, e)[Len(frames) + 1].left = l
  BY <1>2, <1>3
<1> QED
  BY <1>2, <1>4 DEF e

\* A requirement of the topmost frame is ticked off.
LEMMA Ticked ==
  ASSUME NEW frames \in Seq(Frame), NEW n \in 1..Len(frames), NEW e \in Frame,
         e.id = frames[n].id, NEW s, s = [frames EXCEPT ![n] = e]
  PROVE  /\ s \in Seq(Frame) /\ Len(s) = Len(frames)
         /\ \A i \in 1..Len(frames) : s[i].id = frames[i].id
         /\ \A i \in 1..Len(frames) : i # n => s[i].left = frames[i].left
         /\ s[n] = e
<1>1. /\ s \in Seq(Frame) /\ Len(s) = Len(frames)
      /\ \A j \in 1..Len(frames) : s[j] = IF j = n THEN e ELSE frames[j]
  BY ExceptSeq
<1> QED
  BY <1>1

\* The topmost frame is taken off.
LEMMA Popped ==
  ASSUME NEW frames \in Seq(Frame), frames # <<>>, NEW n, n = Len(frames),
         NEW s, s = SubSeq(frames, 1, n - 1)
  PROVE  /\ s \in Seq(Frame) /\ Len(s) = n - 1 /\ n \in 1..n
         /\ \A i \in 1..(n - 1) : s[i] = frames[i]
<1>1. n \in 1..n /\ n \in Nat
  BY EmptySeq, LenProperties
<1>2. \A i \in 1..(n - 1) : frames[i] \in Frame
  BY <1>1, ElementOfSeq
<1>3. n - 1 \in Int /\ 1 \in Int
  BY <1>1
<1>4. /\ s \in Seq(Frame) /\ Len(s) = (IF 1 <= n - 1 THEN (n - 1) - 1 + 1 ELSE 0)
      /\ \A i \in 1..((n - 1) - 1 + 1) : s[i] = frames[1 + i - 1]
  BY <1>2, <1>3, SubSeqProperties
<1>5. Len(s) = n - 1
  BY <1>1, <1>4
<1>6. \A i \in 1..(n - 1) : s[i] = frames[i]
  <2> SUFFICES ASSUME NEW i \in 1..(n - 1) PROVE s[i] = frames[i]
    OBVIOUS
  <2>1. i \in 1..((n - 1) - 1 + 1) /\ 1 + i - 1 = i
    BY <1>1
  <2> QED
    BY <1>4, <2>1
<1> QED
  BY <1>1, <1>4, <1>5, <1>6

\* The ways visit(producer_for(k)) can go, called with the stack `frames`.
LEMMA DemandMeans ==
  ASSUME InputType, NEW k, NEW frames, Demand(k, frames)
  PROVE  \/ Producers(k) = {} /\ pc' = "missing" /\ UNCHANGED <<visiting, selected>>
         \/ Cardinality(Producers(k)) > 1 /\ pc' = "ambiguous" /\ UNCHANGED <<visiting, selected>>
         \/ \E c \in Ids :
              /\ Producers(k) = {c}
              /\ \/ c \in completed /\ visiting' = frames /\ UNCHANGED <<pc, selected>>
                 \/ /\ c \notin completed /\ OnStack(c)
                    /\ pc' = "cycle" /\ UNCHANGED <<visiting, selected>>
                 \/ /\ c \notin completed /\ ~OnStack(c) /\ UNCHANGED pc
                    /\ visiting' = Append(frames, [id |-> c, left |-> Requires(c)])
                    /\ selected' = selected \cup {c}
<1>1. Producers(k) \subseteq Ids
  BY RegistryType
<1> QED
  BY <1>1 DEF Demand, Visit

-----------------------------------------------------------------------------
(* Expansion *)

ExpandEnds == {"expand", "missing", "ambiguous", "cycle"}

\* What expansion leaves alone, and what its outcomes amount to.
LEMMA ExpandFrame ==
  ASSUME PlanInv, pc = "expand",
         UNCHANGED <<input, waiting, ordered, given, pipeline>>,
         pc' \in ExpandEnds, goalsLeft' \subseteq goals, visiting' \in Seq(Frame),
         completed' \subseteq selected', selected' \subseteq Ids,
         ExpandInv',
         pc' = "missing" => \E k \in NeededKeys : Producers(k) = {},
         pc' = "ambiguous" => \E k \in NeededKeys : Cardinality(Producers(k)) > 1,
         pc' = "cycle" => Cyclic
  PROVE  PlanInv'
<1>1. registry' = registry /\ goals' = goals /\ available' = available
  BY DEF input
<1>2. PlanTypeInv'
  <2>1. TypeOK /\ goals # {}
    BY DEF PlanInv, PlanTypeInv
  <2>2. pc' \in {"expand", "order", "planned"} \cup Finished
    BY DEF ExpandEnds, Finished, Errors
  <2>3. visiting' \in Seq([id : Ids, left : SUBSET Keys])
    BY DEF Frame
  <2> QED
    BY <1>1, <2>1, <2>2, <2>3 DEF PlanTypeInv, TypeOK
<1>3. OrderInv'
  BY DEF OrderInv, ExpandEnds
<1>4. OutcomeInv'
  <2>1. /\ pc' = "missing" => \E k \in NeededKeys' : Producers(k)' = {}
        /\ pc' = "ambiguous" => \E k \in NeededKeys' : Cardinality(Producers(k)') > 1
        /\ pc' = "cycle" => Cyclic'
    BY InputStays, ReferenceStays
  <2>2. pc' \notin {"planned", "invalid_plan", "built"}
    BY DEF ExpandEnds
  <2>3. BuiltIsExecutable'
    BY <2>2 DEF BuiltIsExecutable
  <2> QED
    BY <2>1, <2>2, <2>3 DEF OutcomeInv
<1> QED
  BY <1>2, <1>3, <1>4 DEF PlanInv

\* The invariant of expansion for a new stack, in the words of the old state.
LEMMA ExpandInvNext ==
  ASSUME UNCHANGED input, pc' = "expand", ordered' = <<>>,
         PathInv', LookedInv',
         \A c \in selected' : \E k \in NeededKeys : Producers(k) = {c},
         \A S \in SUBSET completed' : ~Knot(S)
  PROVE  ExpandInv'
<1>1. \A S : Knot(S)' <=> Knot(S)
  BY InputStays DEF Knot
<1>2. \A c \in selected' : \E k \in NeededKeys' : Producers(k)' = {c}
  BY InputStays
<1> QED
  BY <1>1, <1>2 DEF ExpandInv

\* The path and what was looked at, with the references to the input as before.
LEMMA PathNext ==
  ASSUME UNCHANGED input, NEW s, visiting' = s,
         selected' = completed' \cup {s[i].id : i \in 1..Len(s)},
         \A i, j \in 1..Len(s) : s[i].id = s[j].id => i = j,
         \A i \in 1..Len(s) :
            /\ s[i].id \notin completed' /\ s[i].left \subseteq Requires(s[i].id)
            /\ i # Len(s) => s[i + 1].id \in DependsOn(s[i].id)
  PROVE  PathInv'
<1>1. \A i \in 1..Len(s) :
         /\ s[i].left \subseteq Requires(s[i].id)'
         /\ i # Len(s) => s[i + 1].id \in DependsOn(s[i].id)'
  BY InputStays
<1> QED
  BY <1>1 DEF PathInv, OnTheStack

LEMMA LookedNext ==
  ASSUME UNCHANGED input, NEW s, visiting' = s,
         \A i \in 1..Len(s) : \A k \in (Requires(s[i].id) \ available) \ s[i].left :
            \/ Served(k, completed')
            \/ i # Len(s) /\ Producers(k) = {s[i + 1].id},
         \A c \in completed' : \A k \in Requires(c) \ available : Served(k, completed'),
         \A k \in (goals \ available) \ goalsLeft' :
            \/ Served(k, completed')
            \/ s # <<>> /\ Producers(k) = {s[1].id}
  PROVE  LookedInv'
<1>1. /\ available' = available /\ goals' = goals
      /\ \A k : Producers(k)' = Producers(k) /\ \A c : Requires(c)' = Requires(c)
  BY InputStays
<1>2. \A k : Served(k, completed)' <=> Served(k, completed')
  BY <1>1 DEF Served
<1>3. \A i \in 1..Len(s) :
         \A k \in (Requires(s[i].id)' \ available') \ s[i].left :
           \/ Served(k, completed)'
           \/ i # Len(s) /\ Producers(k)' = {s[i + 1].id}
  BY <1>1, <1>2
<1>4. \A c \in completed' : \A k \in Requires(c)' \ available' : Served(k, completed)'
  BY <1>1, <1>2
<1>5. \A k \in (goals' \ available') \ goalsLeft' :
        \/ Served(k, completed)'
        \/ s # <<>> /\ Producers(k)' = {s[1].id}
  BY <1>1, <1>2
<1> QED
  BY <1>3, <1>4, <1>5 DEF LookedInv

LEMMA NextGoalInv ==
  ASSUME PlanInv, NextGoal
  PROVE  PlanInv'
<1> DEFINE g == Least(goalsLeft)
<1>1. /\ pc = "expand" /\ visiting = <<>> /\ goalsLeft # {} /\ goalsLeft' = goalsLeft \ {g}
      /\ UNCHANGED <<input, completed, waiting, ordered, given, pipeline>>
      /\ IF g \in available THEN UNCHANGED <<pc, visiting, selected>> ELSE Demand(g, visiting)
  BY DEF NextGoal
<1>2. /\ PathInv /\ LookedInv /\ ordered = <<>>
      /\ \A c \in selected : \E k \in NeededKeys : Producers(k) = {c}
      /\ \A S \in SUBSET completed : ~Knot(S)
  BY <1>1 DEF PlanInv, ExpandInv
<1>3. TypeOK /\ PlanTypeInv
  BY DEF PlanInv, PlanTypeInv
<1>4. /\ InputType /\ completed \subseteq selected /\ selected \subseteq Ids
      /\ goalsLeft \subseteq goals /\ goals \subseteq Keys
  BY <1>3, TypeFacts DEF TypeOK
<1>5. g \in goalsLeft
  <2>1. goalsLeft \in SUBSET Nat
    BY <1>4, PlannerAssumption
  <2> QED
    BY <1>1, <2>1, LeastOf
<1>6. visiting = <<>> /\ Len(visiting) = 0 /\ visiting \in Seq(Frame)
  BY <1>1, EmptySeq
<1>7. selected = completed
  BY <1>2, <1>6 DEF PathInv, OnTheStack
<1>8. /\ \A c \in completed : \A k \in Requires(c) \ available : Served(k, completed)
      /\ \A k \in (goals \ available) \ goalsLeft : Served(k, completed)
  BY <1>2, <1>6 DEF LookedInv
<1> HIDE DEF g
<1>9. ASSUME UNCHANGED <<pc, visiting, selected>>, g \in available \/ Served(g, completed)
      PROVE  PlanInv'
  <2>1. PathInv'
    <3>1. /\ selected' = completed' \cup {visiting[i].id : i \in 1..Len(visiting)}
          /\ \A i \in 1..Len(visiting) : FALSE
      BY <1>1, <1>6, <1>7, <1>9
    <3> QED
      BY <1>1, <1>9, <3>1, PathNext
  <2>2. LookedInv'
    <3>1. \A k \in (goals \ available) \ goalsLeft' : Served(k, completed)
      BY <1>1, <1>8, <1>9
    <3>2. \A i \in 1..Len(visiting) : FALSE
      BY <1>6
    <3> QED
      BY <1>1, <1>8, <1>9, <3>1, <3>2, LookedNext
  <2>3. ExpandInv'
    BY <1>1, <1>2, <1>9, <2>1, <2>2, ExpandInvNext
  <2> QED
    BY <1>1, <1>4, <1>6, <1>9, <2>3, ExpandFrame DEF ExpandEnds
<1>10. CASE g \in available
  BY <1>1, <1>9, <1>10
<1>11. CASE g \notin available
  <2>1. Demand(g, visiting)
    BY <1>1, <1>11
  <2>2. g \in NeededKeys
    BY <1>4, <1>5, <1>11, NeededClosed
  <2>3. \A c : ~OnStack(c)
    BY <1>6 DEF OnStack
  <2>4. CASE pc' \in {"missing", "ambiguous"} /\ UNCHANGED <<visiting, selected>>
             /\ (pc' = "missing" => Producers(g) = {})
             /\ (pc' = "ambiguous" => Cardinality(Producers(g)) > 1)
    <3>1. ExpandInv'
      BY <2>4 DEF ExpandInv
    <3>2. pc' \in ExpandEnds /\ pc' # "cycle"
      BY <2>4 DEF ExpandEnds
    <3> QED
      BY <1>1, <1>4, <1>6, <2>2, <2>4, <3>1, <3>2, ExpandFrame
  <2>5. ASSUME NEW c \in Ids, Producers(g) = {c}, c \in completed, visiting' = visiting,
               UNCHANGED <<pc, selected>>
        PROVE  PlanInv'
    BY <1>9, <2>5 DEF Served
  <2>6. ASSUME NEW c \in Ids, Producers(g) = {c}, c \notin completed, UNCHANGED pc,
               visiting' = Append(visiting, [id |-> c, left |-> Requires(c)]),
               selected' = selected \cup {c}
        PROVE  PlanInv'
    <3> DEFINE s == Append(visiting, [id |-> c, left |-> Requires(c)])
    <3>1. Requires(c) \in SUBSET Keys
      BY <1>4, RegistryType
    <3>0. s = Append(visiting, [id |-> c, left |-> Requires(c)])
      OBVIOUS
    <3> HIDE DEF s
    <3>2. s \in Seq(Frame) /\ Len(s) = 1 /\ s[1].id = c /\ s[1].left = Requires(c)
      <4>1. Len(visiting) + 1 = 1
        BY <1>6
      <4>2. /\ s \in Seq(Frame) /\ Len(s) = Len(visiting) + 1
            /\ s[Len(visiting) + 1].id = c /\ s[Len(visiting) + 1].left = Requires(c)
        <5>1. visiting \in Seq(Frame)
          BY <1>6
        <5> QED
          BY <3>0, <3>1, <5>1, Pushed
      <4> QED
        BY <4>1, <4>2
    <3>3. \A i \in 1..Len(s) : i = 1 /\ i = Len(s)
      BY <3>2
    <3>4. {s[i].id : i \in 1..Len(s)} = {c}
      BY <3>2
    <3>5. visiting' = s /\ s # <<>>
      BY <2>6, <3>0, <3>2, EmptySeq
    <3>6. PathInv'
      BY <1>1, <1>7, <2>6, <3>2, <3>3, <3>4, <3>5, PathNext
    <3>7. LookedInv'
      <4>1. \A k \in (goals \ available) \ goalsLeft' :
               Served(k, completed) \/ Producers(k) = {s[1].id}
        BY <1>1, <1>8, <2>6, <3>2
      <4>2. \A i \in 1..Len(s) : (Requires(s[i].id) \ available) \ s[i].left = {}
        BY <3>2, <3>3
      <4> QED
        BY <1>1, <1>8, <3>5, <4>1, <4>2, LookedNext
    <3>8. \A d \in selected' : \E k \in NeededKeys : Producers(k) = {d}
      BY <1>2, <2>2, <2>6
    <3>9. ExpandInv'
      BY <1>1, <1>2, <2>6, <3>6, <3>7, <3>8, ExpandInvNext
    <3> QED
      BY <1>1, <1>4, <2>6, <3>2, <3>5, <3>9, ExpandFrame DEF ExpandEnds
  <2> QED
    BY <1>4, <2>1, <2>3, <2>4, <2>5, <2>6, DemandMeans
<1> QED
  BY <1>10, <1>11

\* A path back to a capability on the stack closes a cycle.
LEMMA StackCloses ==
  ASSUME InputType, PathInv, \A c \in selected : \E k \in NeededKeys : Producers(k) = {c},
         visiting \in Seq(Frame), NEW n, n = Len(visiting), n \in 1..n, n \in Nat,
         NEW c, OnStack(c), c \in DependsOn(visiting[n].id)
  PROVE  Cyclic
<1>1. PICK j \in 1..n : visiting[j].id = c
  BY DEF OnStack
<1> DEFINE S == {visiting[i].id : i \in j..n}
<1>2. S \subseteq NeededIds
  <2>1. \A i \in j..n : i \in 1..n
    OBVIOUS
  <2>2. \A i \in j..n : visiting[i].id \in selected
    BY <2>1 DEF PathInv, OnTheStack
  <2>3. \A d \in selected : d \in NeededIds
    BY DEF NeededIds
  <2> QED
    BY <2>2, <2>3
<1>3. Knot(S)
  <2>1. c \in S
    BY <1>1
  <2>2. ASSUME NEW i \in j..n PROVE DependsOn(visiting[i].id) \cap S # {}
    <3>1. CASE i = n
      BY <2>1, <3>1
    <3>2. CASE i # n
      <4>1. i \in 1..n /\ i + 1 \in j..n
        BY <3>2
      <4>2. visiting[i + 1].id \in DependsOn(visiting[i].id)
        BY <3>2, <4>1 DEF PathInv
      <4> QED
        BY <4>1, <4>2
    <3> QED
      BY <3>1, <3>2
  <2> HIDE DEF S
  <2>3. \A d \in S : DependsOn(d) \cap S # {}
    BY <2>2 DEF S
  <2> QED
    BY <2>1, <2>3 DEF Knot
<1> HIDE DEF S
<1> QED
  BY <1>2, <1>3, KnotIsCycle

LEMMA NextRequirementInv ==
  ASSUME PlanInv, NextRequirement
  PROVE  PlanInv'
<1> DEFINE n == Len(visiting)
           r == Least(Top.left)
           f == [visiting EXCEPT ![n].left = @ \ {r}]
<1>1. /\ pc = "expand" /\ visiting # <<>> /\ visiting[n].left # {}
      /\ UNCHANGED <<input, goalsLeft, completed, waiting, ordered, given, pipeline>>
      /\ IF r \in available THEN visiting' = f /\ UNCHANGED <<pc, selected>> ELSE Demand(r, f)
  BY DEF NextRequirement, Top
<1>2. /\ PathInv /\ LookedInv /\ ordered = <<>>
      /\ \A c \in selected : \E k \in NeededKeys : Producers(k) = {c}
      /\ \A S \in SUBSET completed : ~Knot(S)
  BY <1>1 DEF PlanInv, ExpandInv
<1>3. TypeOK /\ PlanTypeInv
  BY DEF PlanInv, PlanTypeInv
<1>4. /\ InputType /\ completed \subseteq selected /\ selected \subseteq Ids
      /\ goalsLeft \subseteq goals /\ visiting \in Seq(Frame)
  BY <1>3, TypeFacts DEF TypeOK
<1>5. n \in 1..n /\ n \in Nat
  BY <1>1, <1>4, EmptySeq, LenProperties
<1>6. visiting[n].id \in Ids /\ visiting[n].left \subseteq Keys
  BY <1>4, <1>5, FramesAre
<1>7. r \in visiting[n].left
  <2>1. visiting[n].left \in SUBSET Nat
    BY <1>6, PlannerAssumption
  <2> QED
    BY <1>1, <2>1, LeastOf DEF Top
<1>8. f = [visiting EXCEPT ![n].left = @ \ {r}] /\ n = Len(visiting)
  OBVIOUS
<1> HIDE DEF f, n, r
<1>9. /\ f \in Seq(Frame) /\ Len(f) = n
      /\ \A i \in 1..n : f[i].id = visiting[i].id
      /\ \A i \in 1..n : i # n => f[i].left = visiting[i].left
      /\ f[n].left = visiting[n].left \ {r}
  <2> DEFINE e == [visiting[n] EXCEPT !.left = visiting[n].left \ {r}]
  <2>1. n \in 1..Len(visiting) /\ visiting[n] \in Frame
    BY <1>4, <1>5, <1>8, ElementOfSeq
  <2>2. e \in Frame /\ e.id = visiting[n].id /\ e.left = visiting[n].left \ {r}
    BY <2>1 DEF Frame
  <2>3. f = [visiting EXCEPT ![n] = e]
    BY <1>8
  <2> HIDE DEF e
  <2>4. /\ f \in Seq(Frame) /\ Len(f) = Len(visiting)
        /\ \A i \in 1..Len(visiting) : f[i].id = visiting[i].id
        /\ \A i \in 1..Len(visiting) : i # n => f[i].left = visiting[i].left
        /\ f[n] = e
    BY <1>4, <2>1, <2>2, <2>3, Ticked
  <2> QED
    BY <1>8, <2>2, <2>4
<1>10. r \in Requires(visiting[n].id) /\ visiting[n].id \in selected
  <2>1. visiting[n].left \subseteq Requires(visiting[n].id)
    BY <1>2, <1>5, <1>8 DEF PathInv
  <2>2. visiting[n].id \in selected
    BY <1>2, <1>5, <1>8 DEF PathInv, OnTheStack
  <2> QED
    BY <1>7, <2>1, <2>2
<1>11. /\ \A i \in 1..n : /\ visiting[i].id \notin completed
                          /\ f[i].left \subseteq Requires(visiting[i].id)
       /\ \A i \in 1..n : i # n => visiting[i + 1].id \in DependsOn(visiting[i].id)
       /\ \A i, j \in 1..n : visiting[i].id = visiting[j].id => i = j
       /\ selected = completed \cup {f[i].id : i \in 1..n}
  <2>1. \A i \in 1..n : f[i].left \subseteq visiting[i].left
    BY <1>9
  <2>2. OnTheStack = {f[i].id : i \in 1..n}
    BY <1>8, <1>9 DEF OnTheStack
  <2> QED
    BY <1>2, <1>8, <2>1, <2>2 DEF PathInv
<1>12. /\ \A i \in 1..n : \A k \in (Requires(visiting[i].id) \ available) \ f[i].left :
            \/ Served(k, completed)
            \/ i # n /\ Producers(k) = {visiting[i + 1].id}
            \/ i = n /\ k = r
       /\ \A c \in completed : \A k \in Requires(c) \ available : Served(k, completed)
       /\ \A k \in (goals \ available) \ goalsLeft :
            Served(k, completed) \/ Producers(k) = {f[1].id}
  <2>1. /\ \A i \in 1..n : \A k \in (Requires(visiting[i].id) \ available) \ visiting[i].left :
             Served(k, completed) \/ (i # n /\ Producers(k) = {visiting[i + 1].id})
        /\ \A c \in completed : \A k \in Requires(c) \ available : Served(k, completed)
        /\ \A k \in (goals \ available) \ goalsLeft :
             Served(k, completed) \/ Producers(k) = {visiting[1].id}
    BY <1>2, <1>8 DEF LookedInv
  <2>2. f[1].id = visiting[1].id
    BY <1>5, <1>9
  <2>3. ASSUME NEW i \in 1..n, NEW k \in (Requires(visiting[i].id) \ available) \ f[i].left
        PROVE  \/ Served(k, completed)
               \/ i # n /\ Producers(k) = {visiting[i + 1].id}
               \/ i = n /\ k = r
    <3>1. CASE k \notin visiting[i].left
      BY <2>1, <2>3, <3>1
    <3>2. CASE k \in visiting[i].left
      BY <1>9, <2>3, <3>2
    <3> QED
      BY <3>1, <3>2
  <2> QED
    BY <2>1, <2>2, <2>3
<1>13. f # <<>>
  BY <1>5, <1>9, EmptySeq
<1>14. ASSUME visiting' = f, UNCHANGED <<pc, selected>>, r \in available \/ Served(r, completed)
       PROVE  PlanInv'
  <2>1. PathInv'
    <3>1. \A i, j \in 1..n : f[i].id = f[j].id => i = j
      BY <1>9, <1>11
    <3>2. ASSUME NEW i \in 1..n
          PROVE  /\ f[i].id \notin completed' /\ f[i].left \subseteq Requires(f[i].id)
                 /\ i # n => f[i + 1].id \in DependsOn(f[i].id)
      <4>1. i # n => i + 1 \in 1..n
        BY <1>5
      <4>2. f[i].id \notin completed' /\ f[i].left \subseteq Requires(f[i].id)
        BY <1>1, <1>9, <1>11
      <4>3. i # n => f[i + 1].id \in DependsOn(f[i].id)
        BY <1>9, <1>11, <4>1
      <4> QED
        BY <4>2, <4>3
    <3>3. selected' = completed' \cup {f[i].id : i \in 1..Len(f)}
      BY <1>1, <1>9, <1>11, <1>14
    <3> QED
      BY <1>1, <1>9, <1>14, <3>1, <3>2, <3>3, PathNext
  <2>2. LookedInv'
    <3>1. ASSUME NEW i \in 1..n, NEW k \in (Requires(f[i].id) \ available) \ f[i].left
          PROVE  \/ Served(k, completed')
                 \/ i # n /\ Producers(k) = {f[i + 1].id}
      <4>1. i # n => i + 1 \in 1..n
        BY <1>5
      <4>2. k \in (Requires(visiting[i].id) \ available) \ f[i].left
        BY <1>9, <3>1
      <4>3. \/ Served(k, completed)
            \/ i # n /\ Producers(k) = {visiting[i + 1].id}
        BY <1>12, <1>14, <4>2
      <4>4. i # n => f[i + 1].id = visiting[i + 1].id
        BY <1>9, <4>1
      <4> QED
        BY <1>1, <4>3, <4>4
    <3> QED
      BY <1>1, <1>9, <1>12, <1>13, <1>14, <3>1, LookedNext
  <2>3. ExpandInv'
    BY <1>1, <1>2, <1>14, <2>1, <2>2, ExpandInvNext
  <2> QED
    BY <1>1, <1>4, <1>9, <1>14, <2>3, ExpandFrame DEF ExpandEnds
<1>15. CASE r \in available
  BY <1>1, <1>14, <1>15
<1>16. CASE r \notin available
  <2>1. Demand(r, f)
    BY <1>1, <1>16
  <2>2. r \in NeededKeys
    <3>1. PICK k \in NeededKeys : Producers(k) = {visiting[n].id}
      BY <1>2, <1>10
    <3> QED
      BY <1>4, <1>6, <1>10, <1>16, <3>1, NeededStep
  <2>3. \A c \in Producers(r) : c \in DependsOn(visiting[n].id)
    BY <1>10, <1>16, DependsMeans
  <2>4. CASE /\ pc' \in {"missing", "ambiguous", "cycle"} /\ UNCHANGED <<visiting, selected>>
             /\ (pc' = "missing" => Producers(r) = {})
             /\ (pc' = "ambiguous" => Cardinality(Producers(r)) > 1)
             /\ (pc' = "cycle" => \E c \in Producers(r) : OnStack(c))
    <3>1. ExpandInv'
      BY <2>4 DEF ExpandInv
    <3>2. pc' \in ExpandEnds
      BY <2>4 DEF ExpandEnds
    <3>3. pc' = "cycle" => Cyclic
      BY <1>2, <1>4, <1>5, <1>8, <2>3, <2>4, StackCloses
    <3>4. /\ pc' = "missing" => \E k \in NeededKeys : Producers(k) = {}
          /\ pc' = "ambiguous" => \E k \in NeededKeys : Cardinality(Producers(k)) > 1
      BY <2>2, <2>4
    <3> QED
      BY <1>1, <1>4, <2>4, <3>1, <3>2, <3>3, <3>4, ExpandFrame
  <2>5. ASSUME NEW c \in Ids, Producers(r) = {c}, c \in completed, visiting' = f,
               UNCHANGED <<pc, selected>>
        PROVE  PlanInv'
    BY <1>14, <2>5 DEF Served
  <2>6. ASSUME NEW c \in Ids, Producers(r) = {c}, c \notin completed, ~OnStack(c), UNCHANGED pc,
               visiting' = Append(f, [id |-> c, left |-> Requires(c)]),
               selected' = selected \cup {c}
        PROVE  PlanInv'
    <3> DEFINE s == Append(f, [id |-> c, left |-> Requires(c)])
    <3>1. Requires(c) \in SUBSET Keys
      BY <1>4, RegistryType
    <3>2. s = Append(f, [id |-> c, left |-> Requires(c)])
      OBVIOUS
    <3> HIDE DEF s
    <3>3. /\ s \in Seq(Frame) /\ Len(s) = n + 1
          /\ \A i \in 1..n : s[i] = f[i]
          /\ s[n + 1].id = c /\ s[n + 1].left = Requires(c)
      BY <1>9, <3>1, <3>2, Pushed
    <3>4. visiting' = s /\ s # <<>> /\ s[1] = f[1]
      <4>1. s # <<>>
        BY <1>5, <3>3, EmptySeq
      <4> QED
        BY <1>5, <2>6, <3>2, <3>3, <4>1
    <3>5. \A i \in 1..Len(s) : i \in 1..n \/ i = n + 1
      BY <1>5, <3>3
    <3>6. \A i \in 1..n : i \in 1..Len(s) /\ (i # n => i + 1 \in 1..n) /\ i # n + 1
      BY <1>5, <3>3
    <3>7. \A i \in 1..n : visiting[i].id # c
      BY <1>8, <2>6 DEF OnStack
    <3>8. \A i \in 1..n : s[i].id = visiting[i].id /\ s[i].left = f[i].left
      BY <1>9, <3>3
    <3>9. PathInv'
      <4>1. selected' = completed' \cup {s[i].id : i \in 1..Len(s)}
        <5>1. {s[i].id : i \in 1..Len(s)} = {s[i].id : i \in 1..n} \cup {c}
          BY <1>5, <3>3, <3>5, <3>6
        <5>2. {s[i].id : i \in 1..n} = {f[i].id : i \in 1..n}
          BY <1>9, <3>8
        <5> QED
          BY <1>1, <1>11, <2>6, <5>1, <5>2
      <4>2. \A i, j \in 1..Len(s) : s[i].id = s[j].id => i = j
        BY <1>11, <3>3, <3>5, <3>7, <3>8
      <4>3. ASSUME NEW i \in 1..Len(s)
            PROVE  /\ s[i].id \notin completed' /\ s[i].left \subseteq Requires(s[i].id)
                   /\ i # Len(s) => s[i + 1].id \in DependsOn(s[i].id)
        <5>1. CASE i = n + 1
          BY <1>1, <2>6, <3>3, <5>1
        <5>2. CASE i \in 1..n /\ i # n
          <6>1. s[i + 1].id = visiting[i + 1].id
            BY <3>6, <3>8, <5>2
          <6> QED
            BY <1>1, <1>11, <3>8, <5>2, <6>1
        <5>3. CASE i = n
          <6>1. c \in DependsOn(visiting[n].id)
            BY <2>3, <2>6
          <6> QED
            BY <1>1, <1>5, <1>11, <3>3, <3>8, <5>3, <6>1
        <5> QED
          BY <3>5, <5>1, <5>2, <5>3
      <4> QED
        BY <1>1, <3>4, <4>1, <4>2, <4>3, PathNext
    <3>10. LookedInv'
      <4>1. ASSUME NEW i \in 1..Len(s), NEW k \in (Requires(s[i].id) \ available) \ s[i].left
            PROVE  \/ Served(k, completed')
                   \/ i # Len(s) /\ Producers(k) = {s[i + 1].id}
        <5>1. CASE i = n + 1
          BY <3>3, <4>1, <5>1
        <5>2. CASE i \in 1..n
          <6>1. k \in (Requires(visiting[i].id) \ available) \ f[i].left
            BY <3>8, <4>1, <5>2
          <6>2. CASE Served(k, completed)
            BY <1>1, <6>2
          <6>3. CASE i # n /\ Producers(k) = {visiting[i + 1].id}
            BY <3>3, <3>6, <3>8, <5>2, <6>3
          <6>4. CASE i = n /\ k = r
            BY <2>6, <3>3, <3>6, <5>2, <6>4
          <6> QED
            BY <1>12, <5>2, <6>1, <6>2, <6>3, <6>4
        <5> QED
          BY <3>5, <5>1, <5>2
      <4>2. \A k \in (goals \ available) \ goalsLeft' :
              Served(k, completed') \/ (s # <<>> /\ Producers(k) = {s[1].id})
        BY <1>1, <1>12, <3>4
      <4>3. \A d \in completed' : \A k \in Requires(d) \ available : Served(k, completed')
        BY <1>1, <1>12
      <4> QED
        BY <1>1, <3>4, <4>1, <4>2, <4>3, LookedNext
    <3>11. \A d \in selected' : \E k \in NeededKeys : Producers(k) = {d}
      BY <1>2, <2>2, <2>6
    <3>12. ExpandInv'
      BY <1>1, <1>2, <2>6, <3>9, <3>10, <3>11, ExpandInvNext
    <3> QED
      BY <1>1, <1>4, <2>6, <3>3, <3>4, <3>12, ExpandFrame DEF ExpandEnds
  <2>7. \A c : Producers(r) = {c} => c \in Producers(r)
    OBVIOUS
  <2> QED
    BY <1>4, <2>1, <2>4, <2>5, <2>6, <2>7, DemandMeans
<1> QED
  BY <1>15, <1>16

LEMMA ReturnInv ==
  ASSUME PlanInv, Return
  PROVE  PlanInv'
<1> DEFINE n == Len(visiting)
           c == visiting[n].id
           s == SubSeq(visiting, 1, n - 1)
<1>1. /\ pc = "expand" /\ visiting # <<>> /\ visiting[n].left = {}
      /\ UNCHANGED <<input, pc, goalsLeft, selected, waiting, ordered, given, pipeline>>
      /\ completed' = completed \cup {c} /\ visiting' = s
  BY DEF Return, Top
<1>2. /\ PathInv /\ LookedInv /\ ordered = <<>>
      /\ \A d \in selected : \E k \in NeededKeys : Producers(k) = {d}
      /\ \A S \in SUBSET completed : ~Knot(S)
  BY <1>1 DEF PlanInv, ExpandInv
<1>3. TypeOK /\ PlanTypeInv
  BY DEF PlanInv, PlanTypeInv
<1>4. /\ InputType /\ completed \subseteq selected /\ selected \subseteq Ids
      /\ goalsLeft \subseteq goals /\ visiting \in Seq(Frame)
  BY <1>3, TypeFacts DEF TypeOK
<1>5. s = SubSeq(visiting, 1, n - 1) /\ n = Len(visiting) /\ c = visiting[n].id
  OBVIOUS
<1> HIDE DEF n, c, s
<1>6. n \in Nat /\ s \in Seq(Frame) /\ Len(s) = n - 1 /\ n \in 1..n
      /\ \A i \in 1..(n - 1) : s[i] = visiting[i]
  <2>1. visiting # <<>>
    BY <1>1
  <2>2. n \in Nat
    BY <1>4, <1>5, LenProperties
  <2> QED
    BY <1>4, <1>5, <2>1, <2>2, Popped
<1>7. \A i \in 1..(n - 1) : i \in 1..n /\ i # n /\ i + 1 \in 1..n /\ (i # n - 1 => i + 1 \in 1..(n - 1))
  BY <1>6
<1>8. /\ \A i \in 1..n : /\ visiting[i].id \notin completed
                         /\ visiting[i].left \subseteq Requires(visiting[i].id)
                         /\ i # n => visiting[i + 1].id \in DependsOn(visiting[i].id)
      /\ \A i, j \in 1..n : visiting[i].id = visiting[j].id => i = j
      /\ selected = completed \cup {visiting[i].id : i \in 1..n}
  BY <1>2, <1>5 DEF PathInv, OnTheStack
<1>9. /\ \A i \in 1..n : \A k \in (Requires(visiting[i].id) \ available) \ visiting[i].left :
            Served(k, completed) \/ (i # n /\ Producers(k) = {visiting[i + 1].id})
      /\ \A d \in completed : \A k \in Requires(d) \ available : Served(k, completed)
      /\ \A k \in (goals \ available) \ goalsLeft :
            Served(k, completed) \/ Producers(k) = {visiting[1].id}
  BY <1>1, <1>2, <1>5 DEF LookedInv
<1>10. \A k \in Requires(c) \ available : Served(k, completed)
  BY <1>1, <1>5, <1>6, <1>9
<1>11. c \notin completed /\ c \in selected
  BY <1>5, <1>6, <1>8
<1>12. \A k : Served(k, completed) \/ Producers(k) = {c} => Served(k, completed')
  BY <1>1 DEF Served
<1>13. PathInv'
  <2>1. selected' = completed' \cup {s[i].id : i \in 1..Len(s)}
    <3>1. {visiting[i].id : i \in 1..n} = {s[i].id : i \in 1..Len(s)} \cup {c}
      <4>1. 1..n = (1..(n - 1)) \cup {n}
        BY <1>6
      <4>2. {visiting[i].id : i \in 1..n}
              = {visiting[i].id : i \in 1..(n - 1)} \cup {visiting[n].id}
        BY <4>1
      <4>3. {visiting[i].id : i \in 1..(n - 1)} = {s[i].id : i \in 1..(n - 1)}
        BY <1>6
      <4> QED
        BY <1>5, <1>6, <4>2, <4>3
    <3> QED
      BY <1>1, <1>8, <3>1
  <2>2. \A i, j \in 1..Len(s) : s[i].id = s[j].id => i = j
    BY <1>6, <1>7, <1>8
  <2>3. ASSUME NEW i \in 1..Len(s)
        PROVE  /\ s[i].id \notin completed' /\ s[i].left \subseteq Requires(s[i].id)
               /\ i # Len(s) => s[i + 1].id \in DependsOn(s[i].id)
    <3>1. i \in 1..(n - 1) /\ s[i] = visiting[i]
      BY <1>6
    <3>2. s[i].id \notin completed' /\ s[i].left \subseteq Requires(s[i].id)
      BY <1>1, <1>5, <1>6, <1>7, <1>8, <3>1
    <3>3. i # Len(s) => s[i + 1] = visiting[i + 1]
      BY <1>6, <1>7, <3>1
    <3>4. i # Len(s) => s[i + 1].id \in DependsOn(s[i].id)
      BY <1>7, <1>8, <3>1, <3>3
    <3> QED
      BY <3>2, <3>4
  <2> QED
    BY <1>1, <2>1, <2>2, <2>3, PathNext
<1>14. LookedInv'
  <2>1. ASSUME NEW i \in 1..Len(s), NEW k \in (Requires(s[i].id) \ available) \ s[i].left
        PROVE  Served(k, completed') \/ (i # Len(s) /\ Producers(k) = {s[i + 1].id})
    <3>1. i \in 1..(n - 1) /\ s[i] = visiting[i]
      BY <1>6
    <3>2. Served(k, completed) \/ Producers(k) = {visiting[i + 1].id}
      BY <1>7, <1>9, <2>1, <3>1
    <3>3. CASE i = n - 1
      <4>1. i + 1 = n
        BY <1>6, <3>3
      <4> QED
        BY <1>5, <1>12, <3>2, <4>1
    <3>4. CASE i # n - 1
      <4>1. s[i + 1] = visiting[i + 1] /\ i # Len(s)
        BY <1>6, <1>7, <3>1, <3>4
      <4> QED
        BY <1>12, <3>2, <4>1
    <3> QED
      BY <3>3, <3>4
  <2>2. \A d \in completed' : \A k \in Requires(d) \ available : Served(k, completed')
    BY <1>1, <1>9, <1>10, <1>12
  <2>3. ASSUME NEW k \in (goals \ available) \ goalsLeft'
        PROVE  Served(k, completed') \/ (s # <<>> /\ Producers(k) = {s[1].id})
    <3>1. Served(k, completed) \/ Producers(k) = {visiting[1].id}
      BY <1>1, <1>9, <2>3
    <3>2. CASE n = 1
      BY <1>5, <1>12, <3>1, <3>2
    <3>3. CASE n # 1
      <4>1. 1 \in 1..(n - 1)
        BY <1>6, <3>3
      <4>2. s[1] = visiting[1]
        BY <1>6, <4>1
      <4>3. s # <<>>
        BY <1>6, <4>1, EmptySeq
      <4> QED
        BY <1>12, <3>1, <4>2, <4>3
    <3> QED
      BY <3>2, <3>3
  <2> QED
    BY <1>1, <2>1, <2>2, <2>3, LookedNext
<1>15. \A S \in SUBSET completed' : ~Knot(S)
  <2> SUFFICES ASSUME NEW S \in SUBSET completed', Knot(S) PROVE FALSE
    OBVIOUS
  <2>1. \A d \in completed' : DependsOn(d) \subseteq completed
    <3>1. \A d \in completed' : \A k \in Requires(d) \ available : Served(k, completed)
      BY <1>1, <1>9, <1>10
    <3> QED
      BY <3>1 DEF DependsOn, Served
  <2>2. \A d \in S \ {c} : DependsOn(d) \cap (S \ {c}) # {}
    BY <1>11, <2>1 DEF Knot
  <2>3. S \ {c} \subseteq completed
    BY <1>1
  <2>4. S \ {c} = {}
    BY <1>2, <2>2, <2>3 DEF Knot
  <2>5. c \in S /\ DependsOn(c) \cap S # {}
    BY <2>4 DEF Knot
  <2> QED
    BY <1>1, <1>11, <2>1, <2>4, <2>5
<1>16. ExpandInv'
  BY <1>1, <1>2, <1>13, <1>14, <1>15, ExpandInvNext
<1>17. completed' \subseteq selected'
  BY <1>1, <1>4, <1>11
<1> QED
  BY <1>1, <1>4, <1>6, <1>16, <1>17, ExpandFrame DEF ExpandEnds

-----------------------------------------------------------------------------
(* Ordering *)

\* When expansion is over, what is selected is what the goals need, and nothing
\* stands in the way of a plan.
LEMMA ExpansionIsOver ==
  ASSUME PlanInv, pc = "expand", visiting = <<>>, goalsLeft = {}
  PROVE  /\ selected = NeededIds /\ Satisfiable
         /\ \A c \in selected : \A k \in Requires(c) \ available : Served(k, selected)
         /\ ordered = <<>>
<1>1. /\ PathInv /\ LookedInv /\ ordered = <<>>
      /\ \A c \in selected : \E k \in NeededKeys : Producers(k) = {c}
      /\ \A S \in SUBSET completed : ~Knot(S)
  BY DEF PlanInv, ExpandInv
<1>2. InputType
  BY TypeFacts DEF PlanInv
<1>3. selected = completed
  <2>1. Len(visiting) = 0
    BY EmptySeq
  <2> QED
    BY <1>1, <2>1 DEF PathInv, OnTheStack
<1>4. \A c \in selected : \A k \in Requires(c) \ available : Served(k, selected)
  BY <1>1, <1>3 DEF LookedInv
<1>5. \A k \in NeededKeys : Served(k, selected)
  <2> DEFINE K == {k \in Keys : Served(k, selected)}
  <2>1. goals \ available \subseteq K
    BY <1>1, <1>2, <1>3 DEF LookedInv, InputType
  <2>2. ASSUME NEW k \in K, NEW c \in Ids, Producers(k) = {c}
        PROVE  Requires(c) \ available \subseteq K
    <3>1. c \in selected
      BY <2>2 DEF Served
    <3>2. Requires(c) \subseteq Keys
      BY <1>2, RegistryType
    <3> QED
      BY <1>4, <3>1, <3>2
  <2> HIDE DEF K
  <2>3. NeededKeys \subseteq K
    BY <1>2, <2>1, <2>2, NeededLeast
  <2> QED
    BY <2>3 DEF K
<1>6. NeededIds \subseteq selected
  BY <1>5 DEF NeededIds, Served
<1>7. selected \subseteq NeededIds
  BY <1>1 DEF NeededIds
<1>8. \A k \in NeededKeys : Cardinality(Producers(k)) = 1
  <2> SUFFICES ASSUME NEW k \in NeededKeys PROVE Cardinality(Producers(k)) = 1
    OBVIOUS
  <2>1. PICK c \in selected : Producers(k) = {c}
    BY <1>5 DEF Served
  <2>2. c \in Ids
    BY <1>2, <2>1, RegistryType
  <2> QED
    BY <1>2, <2>1, <2>2, OneProducer
<1>9. ~Cyclic
  BY <1>1, <1>3, <1>6, <1>7 DEF Cyclic, Knot
<1>10. selected = NeededIds
  BY <1>6, <1>7
<1>11. Satisfiable
  BY <1>8, <1>9 DEF Satisfiable
<1> QED
  BY <1>1, <1>4, <1>10, <1>11

LEMMA PlacedOfNone == ordered = <<>> => Placed = {} /\ Len(ordered) = 0
BY EmptySeq DEF Placed

LEMMA StartOrderingInv ==
  ASSUME PlanInv, StartOrdering
  PROVE  PlanInv'
<1>1. /\ pc = "expand" /\ visiting = <<>> /\ goalsLeft = {}
      /\ UNCHANGED <<input, goalsLeft, visiting, completed, selected, ordered, given, pipeline>>
  BY DEF StartOrdering
<1>2. /\ selected = NeededIds /\ Satisfiable
      /\ \A c \in selected : \A k \in Requires(c) \ available : Served(k, selected)
      /\ ordered = <<>>
  BY <1>1, ExpansionIsOver
<1>3. /\ PlanTypeInv /\ TypeOK /\ InputType /\ goals # {} /\ selected \subseteq Ids
  BY <1>1, TypeFacts DEF PlanInv, PlanTypeInv
<1>4. \A k : Served(k, selected) => SelectedProducers(k) = Producers(k) /\ Cardinality(Producers(k)) = 1
  <2> SUFFICES ASSUME NEW k, NEW c \in selected, Producers(k) = {c}
               PROVE  SelectedProducers(k) = Producers(k) /\ Cardinality(Producers(k)) = 1
    BY DEF Served
  <2>1. Cardinality(Producers(k)) = 1
    BY <1>3, OneProducer
  <2> QED
    BY <2>1 DEF SelectedProducers
<1>5. pc' = "order"
  <2> DEFINE open == (UNION {Requires(c) : c \in selected}) \ available
  <2>1. \A k \in open : Served(k, selected)
    BY <1>2
  <2>2. \A k \in open : Cardinality(SelectedProducers(k)) = 1 /\ SelectedProducers(k) # {}
    <3>1. Cardinality({}) # 1
      BY FS_EmptySet
    <3> HIDE DEF open
    <3>2. \A k \in open : Cardinality(SelectedProducers(k)) = 1
      BY <1>4, <2>1
    <3> QED
      BY <3>1, <3>2
  <2>3. pc' = IF \E k \in open : SelectedProducers(k) = {} THEN "missing"
              ELSE IF \E k \in open : Cardinality(SelectedProducers(k)) > 1
              THEN "ambiguous" ELSE "order"
    BY DEF StartOrdering
  <2> HIDE DEF open
  <2>4. ~(\E k \in open : SelectedProducers(k) = {})
    BY <2>2
  <2>5. ~(\E k \in open : Cardinality(SelectedProducers(k)) > 1)
    <3>1. ~(1 > 1)
      OBVIOUS
    <3> QED
      BY <2>2, <3>1
  <2> QED
    BY <2>3, <2>4, <2>5
<1>6. waiting' = [c \in Ids |-> IF c \in selected THEN DependsOn(c) ELSE {}]
  <2>1. \A c \in selected : UNION {SelectedProducers(k) : k \in Requires(c) \ available} = DependsOn(c)
    <3> SUFFICES ASSUME NEW c \in selected
                 PROVE  {SelectedProducers(k) : k \in Requires(c) \ available}
                          = {Producers(k) : k \in Requires(c) \ available}
      BY DEF DependsOn
    <3>1. \A k \in Requires(c) \ available : SelectedProducers(k) = Producers(k)
      BY <1>2, <1>4
    <3> QED
      BY <3>1
  <2>2. waiting' = [c \in Ids |-> IF c \in selected
                      THEN UNION {SelectedProducers(k) : k \in Requires(c) \ available} ELSE {}]
    BY DEF StartOrdering
  <2> QED
    BY <2>1, <2>2
<1>7. PlanTypeInv'
  <2>1. \A c : DependsOn(c) \subseteq Ids
    BY <1>3, RegistryType DEF DependsOn
  <2>2. waiting' \in [Ids -> SUBSET Ids]
    BY <1>6, <2>1
  <2> QED
    BY <1>1, <1>3, <1>5, <2>2 DEF PlanTypeInv, TypeOK, input
<1>8. ExpandInv'
  BY <1>5 DEF ExpandInv
<1>9. OutcomeInv'
  BY <1>5 DEF OutcomeInv, BuiltIsExecutable
<1>10. OrderInv'
  <2>1. Placed' = {} /\ Len(ordered') = 0
    BY <1>1, <1>2, EmptySeq DEF Placed
  <2>2. selected' = NeededIds' /\ Satisfiable'
    BY <1>1, <1>2, ReferenceStays
  <2>3. \A c \in selected' : waiting'[c] = DependsOn(c)' \ Placed'
    BY <1>1, <1>3, <1>6, <2>1, InputStays
  <2>4. \A i \in 1..Len(ordered') : FALSE
    BY <2>1
  <2> QED
    BY <2>1, <2>2, <2>3, <2>4 DEF OrderInv
<1> QED
  BY <1>7, <1>8, <1>9, <1>10 DEF PlanInv

\* In a graph without cycles, what a step depends on is needed too.
LEMMA DependenciesSelected ==
  ASSUME InputType, selected = NeededIds, Satisfiable, NEW c \in selected
  PROVE  /\ DependsOn(c) \subseteq selected
         /\ \A k \in Requires(c) \ available : \E p \in DependsOn(c) : k \in Provides(p)
<1>1. PICK k \in NeededKeys : c \in Producers(k)
  BY DEF NeededIds
<1>2. c \in Ids /\ Producers(k) = {c}
  BY <1>1, OneProducer DEF Satisfiable
<1>3. Requires(c) \ available \subseteq NeededKeys
  BY <1>2, NeededClosed
<1>4. DependsOn(c) \subseteq selected
  BY <1>3 DEF DependsOn, NeededIds
<1>5. ASSUME NEW r \in Requires(c) \ available PROVE \E p \in DependsOn(c) : r \in Provides(p)
  <2>1. PICK p \in Ids : Producers(r) = {p}
    BY <1>3, OneProducer DEF Satisfiable
  <2>2. r \in Provides(p)
    BY <2>1 DEF Producers
  <2> QED
    BY <2>1, <2>2 DEF DependsOn
<1> QED
  BY <1>4, <1>5

LEMMA PickNextInv ==
  ASSUME PlanInv, PickNext
  PROVE  PlanInv'
<1> DEFINE c == Least(Ready)
           n == Len(ordered)
<1>1. /\ pc = "order" /\ Ready # {} /\ ordered' = Append(ordered, c)
      /\ waiting' = [d \in Ids |-> waiting[d] \ {c}]
      /\ UNCHANGED <<input, pc, goalsLeft, visiting, completed, selected, given, pipeline>>
  BY DEF PickNext
<1>2. /\ selected = NeededIds /\ Satisfiable
      /\ \A d \in selected : waiting[d] = DependsOn(d) \ Placed
      /\ Placed \subseteq selected
      /\ \A i, j \in 1..n : ordered[i] = ordered[j] => i = j
      /\ \A i \in 1..n :
           /\ DependsOn(ordered[i]) \subseteq Before(i)
           /\ \A d \in selected \ Before(i) : d < ordered[i] => ~(DependsOn(d) \subseteq Before(i))
  BY <1>1 DEF PlanInv, OrderInv
<1>3. /\ PlanTypeInv /\ TypeOK /\ InputType /\ goals # {} /\ selected \subseteq Ids
      /\ Ids \subseteq Nat /\ ordered \in Seq(Ids)
  BY <1>1, TypeFacts DEF PlanInv, PlanTypeInv
<1>4. c \in Ready /\ \A d \in Ready : c <= d
  <2>1. Ready \in SUBSET Nat
    BY <1>3 DEF Ready
  <2> QED
    BY <1>1, <2>1, LeastOf
<1>5. n = Len(ordered) /\ n \in Nat
  BY <1>3, LenProperties
<1> HIDE DEF c, n
<1>6. c \in selected \ Placed /\ DependsOn(c) \subseteq Placed /\ c \in Nat
  BY <1>2, <1>3, <1>4 DEF Ready
<1>7. /\ ordered' \in Seq(Ids) /\ Len(ordered') = n + 1
      /\ \A i \in 1..n : ordered'[i] = ordered[i]
      /\ ordered'[n + 1] = c
  BY <1>1, <1>3, <1>5, <1>6
<1>8. /\ \A i \in 1..Len(ordered') : i \in 1..n \/ i = n + 1
      /\ \A i \in 1..n : i \in 1..(n + 1)
  BY <1>5, <1>7
<1>9. Placed' = Placed \cup {c}
  <2>1. Placed' = {ordered'[i] : i \in 1..(n + 1)}
    BY <1>7 DEF Placed
  <2>2. Placed = {ordered[i] : i \in 1..n}
    BY <1>5 DEF Placed
  <2>3. {ordered'[i] : i \in 1..(n + 1)} = {ordered'[i] : i \in 1..n} \cup {c}
    BY <1>5, <1>7
  <2>4. {ordered'[i] : i \in 1..n} = {ordered[i] : i \in 1..n}
    BY <1>7
  <2> QED
    BY <2>1, <2>2, <2>3, <2>4
<1> DEFINE Later(i) == {ordered'[m] : m \in 1..(i - 1)}
<1>10. /\ \A i \in 1..n : Later(i) = Before(i)
       /\ \A i : i = n + 1 => Later(i) = Placed
  <2>1. ASSUME NEW i \in 1..n PROVE Later(i) = Before(i)
    <3>1. \A m \in 1..(i - 1) : m \in 1..n
      BY <1>5
    <3>2. \A m \in 1..(i - 1) : ordered'[m] = ordered[m]
      BY <1>7, <3>1
    <3> QED
      BY <3>2 DEF Before
  <2>2. ASSUME NEW i, i = n + 1 PROVE Later(i) = Placed
    <3>1. i - 1 = n
      BY <1>5, <2>2
    <3>2. Later(i) = {ordered'[m] : m \in 1..n}
      BY <3>1
    <3>3. Placed = {ordered[m] : m \in 1..n}
      BY <1>5 DEF Placed
    <3> HIDE DEF Later
    <3> QED
      BY <1>7, <3>2, <3>3
  <2> QED
    BY <2>1, <2>2
<1> HIDE DEF Later
<1>11. PlanTypeInv'
  <2>1. waiting' \in [Ids -> SUBSET Ids]
    BY <1>1, <1>3 DEF TypeOK
  <2> QED
    BY <1>1, <1>3, <1>7, <2>1 DEF PlanTypeInv, TypeOK, input
<1>12. ExpandInv'
  BY <1>1 DEF ExpandInv
<1>13. OutcomeInv'
  BY <1>1 DEF OutcomeInv, BuiltIsExecutable
<1>14. OrderInv'
  <2>1. selected' = NeededIds' /\ Satisfiable'
    BY <1>1, <1>2, ReferenceStays
  <2>2. \A d \in selected' : waiting'[d] = DependsOn(d)' \ Placed'
    BY <1>1, <1>2, <1>3, <1>9, InputStays
  <2>3. Placed' \subseteq selected'
    BY <1>1, <1>2, <1>6, <1>9
  <2>4. \A i, j \in 1..Len(ordered') : ordered'[i] = ordered'[j] => i = j
    <3>1. \A i \in 1..n : ordered[i] # c
      BY <1>5, <1>6 DEF Placed
    <3> QED
      BY <1>2, <1>7, <1>8, <3>1
  <2>5. ASSUME NEW i \in 1..Len(ordered')
        PROVE  /\ DependsOn(ordered'[i]) \subseteq Later(i)
               /\ \A d \in selected \ Later(i) :
                    d < ordered'[i] => ~(DependsOn(d) \subseteq Later(i))
    <3>1. CASE i \in 1..n
      BY <1>2, <1>7, <1>10, <3>1
    <3>2. CASE i = n + 1
      <4>1. ASSUME NEW d \in selected \ Placed, d < c
            PROVE  ~(DependsOn(d) \subseteq Placed)
        <5>1. d \notin Ready
          <6>1. d \in Nat /\ ~(c <= d)
            BY <1>3, <1>6, <4>1
          <6> QED
            BY <1>4, <6>1
        <5>2. waiting[d] # {}
          BY <4>1, <5>1 DEF Ready
        <5> QED
          BY <1>2, <5>2
      <4>2. ordered'[i] = c /\ Later(i) = Placed
        BY <1>7, <1>10, <3>2
      <4>3. DependsOn(ordered'[i]) \subseteq Later(i)
        BY <1>6, <4>2
      <4>4. \A d \in selected \ Later(i) :
              d < ordered'[i] => ~(DependsOn(d) \subseteq Later(i))
        BY <4>1, <4>2
      <4> QED
        BY <4>3, <4>4
    <3> QED
      BY <1>8, <3>1, <3>2
  <2>6. \A i \in 1..Len(ordered') :
           /\ DependsOn(ordered[i])' \subseteq Before(i)'
           /\ \A d \in selected' \ Before(i)' :
                d < ordered'[i] => ~(DependsOn(d)' \subseteq Before(i)')
    <3>1. ASSUME NEW i \in 1..Len(ordered') PROVE DependsOn(ordered[i])' \subseteq Before(i)'
      <4>1. available' = available /\ \A k : Producers(k)' = Producers(k)
            /\ registry' = registry
        BY <1>1, InputStays
      <4>2. DependsOn(ordered[i])' = DependsOn(ordered'[i])
        BY <4>1 DEF DependsOn, Requires
      <4> QED
        BY <2>5, <4>2 DEF Before, Later
    <3>2. ASSUME NEW i \in 1..Len(ordered'), NEW d \in selected' \ Before(i)', d < ordered'[i]
          PROVE  ~(DependsOn(d)' \subseteq Before(i)')
      <4>1. Before(i)' = Later(i)
        BY DEF Before, Later
      <4>2. DependsOn(d)' = DependsOn(d)
        BY <1>1, InputStays
      <4> QED
        BY <1>1, <2>5, <3>2, <4>1, <4>2
    <3> QED
      BY <3>1, <3>2
  <2> QED
    BY <2>1, <2>2, <2>3, <2>4, <2>6 DEF OrderInv
<1> QED
  BY <1>11, <1>12, <1>13, <1>14 DEF PlanInv

\* A set of as many names as the sequence that lists it without repetition.
LEMMA InjectiveLength ==
  ASSUME NEW S, IsFiniteSet(S), NEW s \in Seq(S),
         \A i, j \in 1..Len(s) : s[i] = s[j] => i = j,
         S = {s[i] : i \in 1..Len(s)}
  PROVE  Cardinality(S) = Len(s)
<1>1. Len(s) \in Nat /\ s \in [1..Len(s) -> S]
  BY LenProperties
<1>2. s \in Bijection(1..Len(s), S)
  BY <1>1, Fun_IsBij
<1>3. ExistsBijection(1..Len(s), S)
  BY <1>2, Zenon DEF ExistsBijection
<1>4. IsFiniteSet(1..Len(s)) /\ Cardinality(1..Len(s)) = Len(s)
  <2>1. 1 \in Int /\ Len(s) \in Int /\ (IF 1 > Len(s) THEN 0 ELSE Len(s) - 1 + 1) = Len(s)
    BY <1>1
  <2> QED
    BY <2>1, FS_Interval
<1> QED
  BY <1>3, <1>4, FS_Bijection

LEMMA FinishOrderingInv ==
  ASSUME PlanInv, FinishOrdering
  PROVE  PlanInv'
<1> DEFINE n == Len(ordered)
<1>1. /\ pc = "order" /\ Ready = {}
      /\ pc' = IF Len(ordered) # Cardinality(selected) THEN "cycle"
               ELSE IF ValidPlan(ordered) THEN "planned" ELSE "invalid_plan"
      /\ UNCHANGED <<input, goalsLeft, visiting, completed, selected, waiting, ordered, given, pipeline>>
  BY DEF FinishOrdering
<1>2. /\ selected = NeededIds /\ Satisfiable
      /\ \A d \in selected : waiting[d] = DependsOn(d) \ Placed
      /\ Placed \subseteq selected
      /\ \A i, j \in 1..n : ordered[i] = ordered[j] => i = j
      /\ \A i \in 1..n :
           /\ DependsOn(ordered[i]) \subseteq Before(i)
           /\ \A d \in selected \ Before(i) : d < ordered[i] => ~(DependsOn(d) \subseteq Before(i))
  BY <1>1 DEF PlanInv, OrderInv
<1>3. /\ PlanTypeInv /\ TypeOK /\ InputType /\ goals # {} /\ selected \subseteq Ids
      /\ IsFiniteSet(selected) /\ ordered \in Seq(Ids) /\ n \in Nat
  BY <1>1, TypeFacts, LenProperties DEF PlanInv, PlanTypeInv
<1>4. Placed = selected
  <2> DEFINE S == selected \ Placed
  <2>1. ASSUME NEW d \in S PROVE DependsOn(d) \cap S # {}
    <3>1. waiting[d] # {}
      BY <1>1, <2>1 DEF Ready
    <3>2. DependsOn(d) \ Placed # {}
      BY <1>2, <2>1, <3>1
    <3>3. DependsOn(d) \subseteq selected
      BY <1>2, <1>3, <2>1, DependenciesSelected
    <3> QED
      BY <3>2, <3>3
  <2>2. S = {} \/ Knot(S)
    BY <2>1 DEF Knot
  <2>3. S \in SUBSET NeededIds
    BY <1>2
  <2> HIDE DEF S
  <2>4. S = {}
    BY <1>2, <2>2, <2>3, KnotIsCycle DEF Satisfiable
  <2> QED
    BY <1>2, <2>4 DEF S
<1> HIDE DEF n
<1>5. Cardinality(selected) = Len(ordered)
  <2>1. n = Len(ordered)
    BY DEF n
  <2>2. \A i \in 1..n : ordered[i] \in selected
    BY <1>4, <2>1 DEF Placed
  <2>3. ordered \in Seq(selected)
    BY <1>3, <2>1, <2>2
  <2> QED
    BY <1>2, <1>3, <1>4, <2>1, <2>3, InjectiveLength DEF Placed
<1>6. ValidPlan(ordered)
  <2>0. n = Len(ordered)
    BY DEF n
  <2>1. \A i, j \in 1..Len(ordered) : ordered[i] = ordered[j] => i = j
    BY <1>2, <2>0
  <2>2. ASSUME NEW i \in 1..Len(ordered)
        PROVE  Requires(ordered[i]) \subseteq Accumulated(ordered, i - 1)
    <3>1. ordered[i] \in selected
      BY <1>4 DEF Placed
    <3>2. DependsOn(ordered[i]) \subseteq Before(i)
      BY <1>2, <2>0
    <3>3. ASSUME NEW k \in Requires(ordered[i]) \ available
          PROVE  k \in Accumulated(ordered, i - 1)
      <4>1. PICK p \in DependsOn(ordered[i]) : k \in Provides(p)
        BY <1>2, <1>3, <3>1, DependenciesSelected
      <4>2. PICK m \in 1..(i - 1) : p = ordered[m]
        BY <3>2, <4>1 DEF Before
      <4> QED
        BY <4>1, <4>2 DEF Accumulated
    <3> QED
      BY <3>3 DEF Accumulated
  <2>3. ASSUME NEW k \in goals \ available
        PROVE  k \in Accumulated(ordered, Len(ordered))
    <3>1. k \in NeededKeys
      BY <1>3, NeededClosed
    <3>2. PICK p \in Ids : Producers(k) = {p}
      BY <1>2, <1>3, <3>1, OneProducer DEF Satisfiable
    <3>3. p \in selected /\ k \in Provides(p)
      BY <1>2, <3>1, <3>2 DEF NeededIds, Producers
    <3>4. PICK m \in 1..Len(ordered) : p = ordered[m]
      BY <1>4, <3>3 DEF Placed
    <3> QED
      BY <3>3, <3>4 DEF Accumulated
  <2>4. goals \subseteq Accumulated(ordered, Len(ordered))
    BY <2>3 DEF Accumulated
  <2> QED
    BY <1>3, <2>1, <2>2, <2>4 DEF ValidPlan
<1>7. pc' = "planned"
  BY <1>1, <1>5, <1>6
<1>8. PlanTypeInv'
  BY <1>1, <1>3, <1>7 DEF PlanTypeInv, TypeOK, input
<1>9. ExpandInv'
  BY <1>7 DEF ExpandInv
<1>10. UNCHANGED <<input, registry, goals, available, selected, waiting, ordered>>
  BY <1>1, InputStays
<1>11. OrderInv'
  <2>1. OrderInv
    BY DEF PlanInv
  <2>2. Placed' = Placed /\ \A i : Before(i)' = Before(i)
    BY <1>10 DEF Placed, Before
  <2>3. \A i : DependsOn(ordered[i])' = DependsOn(ordered[i])
    BY <1>10 DEF DependsOn, Producers, Provides, Requires
  <2>4. /\ selected' = NeededIds' /\ Satisfiable'
        /\ \A c \in selected' : waiting'[c] = DependsOn(c)' \ Placed'
        /\ Placed' \subseteq selected'
    BY <1>2, <1>10, <2>2, InputStays, ReferenceStays
  <2>5. \A i, j \in 1..Len(ordered') : ordered'[i] = ordered'[j] => i = j
    BY <1>2, <1>10 DEF n
  <2>6. \A i \in 1..Len(ordered') :
           /\ DependsOn(ordered[i])' \subseteq Before(i)'
           /\ \A d \in selected' \ Before(i)' :
                d < ordered'[i] => ~(DependsOn(d)' \subseteq Before(i)')
    BY <1>2, <1>10, <2>2, <2>3, InputStays DEF n
  <2> QED
    BY <2>4, <2>5, <2>6 DEF OrderInv
<1>12. OutcomeInv'
  <2>1. Placed' = selected'
    BY <1>4, <1>10 DEF Placed
  <2>2. ValidPlan(ordered)'
    BY <1>6, <1>10 DEF ValidPlan, Accumulated, Requires, Provides
  <2> QED
    BY <1>7, <2>1, <2>2 DEF OutcomeInv, BuiltIsExecutable
<1> QED
  BY <1>8, <1>9, <1>11, <1>12 DEF PlanInv

-----------------------------------------------------------------------------
(* Building and executing *)

LEMMA BuildPipelineInv ==
  ASSUME PlanInv, BuildPipeline
  PROVE  PlanInv'
<1> PICK context \in Contexts, f \in FactorySets, d \in {registry} \cup Definitions :
           Execute(context, f, d)
  BY DEF BuildPipeline
<1>1. /\ pc = "planned" /\ given' = context
      /\ UNCHANGED <<input, goalsLeft, visiting, completed, selected, waiting, ordered>>
      /\ \/ available \subseteq context /\ Build(f, d)
         \/ pc' = "invalid_input" /\ UNCHANGED pipeline
  BY DEF Execute
<1>2. /\ PlanTypeInv /\ TypeOK /\ InputType /\ goals # {} /\ ordered \in Seq(Ids)
      /\ ValidPlan(ordered)
  BY <1>1, TypeFacts DEF PlanInv, PlanTypeInv, OutcomeInv
<1>3. context \subseteq Nat
  BY PlannerAssumption
<1>4. d \in [requires : [Ids -> SUBSET Keys], provides : [Ids -> SUBSET Keys]]
  BY <1>2, PlannerAssumption DEF InputType
<1>5. Build(f, d) =>
        /\ pc' \in {"mismatch", "missing_factory", "invalid_factory", "built"}
        /\ pc' = "built" =>
             /\ SameDefinitions(d)
             /\ pipeline' = [i \in 1..Len(ordered) |->
                               [id |-> ordered[i], contract |-> d.provides[ordered[i]]]]
        /\ pc' # "built" => pipeline' = <<>>
  BY <1>2 DEF Build, FactoryFailure
<1>6. pc' \in {"mismatch", "missing_factory", "invalid_factory", "built", "invalid_input"}
  BY <1>1, <1>5
<1>7. PlanTypeInv'
  <2>1. pc' \in {"expand", "order", "planned"} \cup Finished
    BY <1>6 DEF Finished, Errors, BuildErrors
  <2>2. pipeline' \in Seq([id : Ids, contract : SUBSET Keys])
    <3>1. CASE UNCHANGED pipeline
      BY <1>2, <3>1 DEF TypeOK
    <3>2. CASE pipeline' = <<>>
      BY <3>2, EmptySeq
    <3>3. CASE pipeline' = [i \in 1..Len(ordered) |->
                              [id |-> ordered[i], contract |-> d.provides[ordered[i]]]]
      <4>1. Len(ordered) \in Nat /\ \A i \in 1..Len(ordered) : ordered[i] \in Ids
        BY <1>2, LenProperties, ElementOfSeq
      <4>2. \A i \in 1..Len(ordered) :
              [id |-> ordered[i], contract |-> d.provides[ordered[i]]]
                \in [id : Ids, contract : SUBSET Keys]
        BY <1>4, <4>1
      <4> DEFINE T == [id : Ids, contract : SUBSET Keys]
                 e(i) == [id |-> ordered[i], contract |-> d.provides[ordered[i]]]
      <4>3. \A i \in 1..Len(ordered) : e(i) \in T
        BY <4>2
      <4>4. pipeline' = [i \in 1..Len(ordered) |-> e(i)]
        BY <3>3
      <4> HIDE DEF e, T
      <4>5. pipeline' \in Seq(T)
        BY <4>1, <4>3, <4>4
      <4> QED
        BY <4>5 DEF T
    <3> QED
      BY <1>1, <1>5, <3>1, <3>2, <3>3
  <2> QED
    BY <1>1, <1>2, <1>3, <2>1, <2>2 DEF PlanTypeInv, TypeOK, input
<1>8. ExpandInv' /\ OrderInv'
  BY <1>6 DEF ExpandInv, OrderInv
<1>9. BuiltIsExecutable'
  <2> SUFFICES ASSUME pc' = "built" PROVE BuiltIsExecutable'
    BY DEF BuiltIsExecutable
  <2>1. /\ available \subseteq given' /\ SameDefinitions(d)
        /\ pipeline' = [i \in 1..Len(ordered) |->
                          [id |-> ordered[i], contract |-> d.provides[ordered[i]]]]
    BY <1>1, <1>5
  <2>2. Len(ordered) \in Nat
    BY <1>2, LenProperties
  <2>4. /\ Len(pipeline') = Len(ordered)
        /\ \A i \in 1..Len(ordered) : /\ pipeline'[i].id = ordered[i]
                                     /\ pipeline'[i].contract = d.provides[ordered[i]]
    BY <2>1, <2>2
  <2>5. InputType /\ ordered \in Seq(Ids) /\ ValidPlan(ordered)
    BY <1>2
  <2>6. /\ \A i \in 1..Len(pipeline') :
             Requires(pipeline'[i].id)
               \subseteq given' \cup UNION {pipeline'[j].contract : j \in 1..(i - 1)}
        /\ goals \subseteq given' \cup UNION {pipeline'[j].contract : j \in 1..Len(pipeline')}
    <3>4. \A i \in 1..Len(ordered) : d.provides[ordered[i]] = Provides(ordered[i])
      BY <2>1 DEF SameDefinitions, Placed
    <3>5. ASSUME NEW n \in 0..Len(ordered)
          PROVE  Accumulated(ordered, n)
                   \subseteq given' \cup UNION {pipeline'[j].contract : j \in 1..n}
      <4>1. \A j \in 1..n : j \in 1..Len(ordered)
        BY <2>2
      <4>2. \A j \in 1..n : Provides(ordered[j]) = pipeline'[j].contract
        BY <2>4, <3>4, <4>1
      <4>3. UNION {Provides(ordered[j]) : j \in 1..n} = UNION {pipeline'[j].contract : j \in 1..n}
        BY <4>2
      <4>4. available \subseteq given'
        BY <2>1
      <4> QED
        BY <4>3, <4>4 DEF Accumulated
    <3>6. ASSUME NEW i \in 1..Len(pipeline')
          PROVE  Requires(pipeline'[i].id)
                   \subseteq given' \cup UNION {pipeline'[j].contract : j \in 1..(i - 1)}
      <4>1. i - 1 \in 0..Len(ordered) /\ i \in 1..Len(ordered)
        BY <2>2, <2>4
      <4>2. Requires(ordered[i]) \subseteq Accumulated(ordered, i - 1)
        BY <2>5, <4>1 DEF ValidPlan
      <4>3. pipeline'[i].id = ordered[i]
        BY <2>4, <4>1
      <4> QED
        BY <3>5, <4>1, <4>2, <4>3
    <3>7. goals \subseteq given' \cup UNION {pipeline'[j].contract : j \in 1..Len(pipeline')}
      <4>1. Len(ordered) \in 0..Len(ordered)
        BY <2>2
      <4>2. goals \subseteq Accumulated(ordered, Len(ordered))
        BY <2>5 DEF ValidPlan
      <4> QED
        BY <2>4, <3>5, <4>1, <4>2
    <3> QED
      BY <3>6, <3>7
  <2>3. registry' = registry /\ goals' = goals
    BY <1>1, InputStays
  <2> QED
    BY <2>3, <2>6 DEF BuiltIsExecutable, Requires
<1>10. OutcomeInv'
  BY <1>6, <1>9 DEF OutcomeInv
<1> QED
  BY <1>7, <1>8, <1>10 DEF PlanInv

-----------------------------------------------------------------------------
(* The invariant *)

LEMMA PlanInit == Init => PlanInv
<1> SUFFICES ASSUME Init PROVE PlanInv
  OBVIOUS
<1>1. /\ registry \in Registries /\ goals \in GoalSets /\ given \in Contexts
      /\ available = given \cap Keys /\ pc = (IF goals = {} THEN "invalid_input" ELSE "expand")
      /\ goalsLeft = goals /\ visiting = <<>> /\ completed = {} /\ selected = {}
      /\ waiting = [c \in Ids |-> {}] /\ ordered = <<>> /\ pipeline = <<>>
  BY DEF Init, Canonical
<1>2. Len(visiting) = 0 /\ \A i \in 1..Len(visiting) : FALSE
  BY <1>1, EmptySeq
<1>3. PlanTypeInv
  <2>1. goals \subseteq Keys /\ given \subseteq Nat
    BY <1>1, PlannerAssumption
  <2>2. pc \in {"expand", "order", "planned"} \cup Finished
    BY <1>1 DEF Finished, Errors
  <2> QED
    BY <1>1, <2>1, <2>2 DEF PlanTypeInv, TypeOK
<1>4. ExpandInv
  <2>1. PathInv
    BY <1>1, <1>2 DEF PathInv, OnTheStack
  <2>2. LookedInv
    BY <1>1, <1>2 DEF LookedInv
  <2> QED
    BY <1>1, <2>1, <2>2 DEF ExpandInv, Knot
<1>5. OrderInv /\ OutcomeInv
  BY <1>1 DEF OrderInv, OutcomeInv, BuiltIsExecutable
<1> QED
  BY <1>3, <1>4, <1>5 DEF PlanInv

\* A step that changes nothing keeps what is said of the state.
LEMMA PlanIdle ==
  ASSUME PlanInv, UNCHANGED vars
  PROVE  PlanInv'
<1> USE DEF vars
<1>1. UNCHANGED input
  BY DEF input
<1>2. PlanTypeInv'
  BY DEF PlanInv, PlanTypeInv, TypeOK
<1>3. ExpandInv'
  <2> SUFFICES ASSUME pc' = "expand" PROVE ExpandInv'
    BY DEF ExpandInv
  <2>1. /\ PathInv /\ LookedInv /\ ordered = <<>>
        /\ \A d \in selected : \E k \in NeededKeys : Producers(k) = {d}
        /\ \A S \in SUBSET completed : ~Knot(S)
    BY DEF PlanInv, ExpandInv
  <2>2. PathInv'
    BY <1>1, <2>1, PathNext DEF PathInv, OnTheStack
  <2>3. LookedInv'
    BY <1>1, <2>1, LookedNext DEF LookedInv
  <2> QED
    BY <1>1, <2>1, <2>2, <2>3, ExpandInvNext
<1>4. OrderInv'
  <2> SUFFICES ASSUME pc' \in {"order", "planned"} PROVE OrderInv'
    BY DEF OrderInv
  <2>0. OrderInv
    BY DEF PlanInv
  <2>1. /\ \A i : {ordered'[m] : m \in 1..(i - 1)} = Before(i)
        /\ Placed' = Placed
    BY DEF Before, Placed
  <2>2. \A i : DependsOn(ordered[i])' = DependsOn(ordered[i])
    BY DEF DependsOn, Producers, Provides, Requires
  <2>3. /\ selected' = NeededIds' /\ Satisfiable'
        /\ \A c \in selected' : waiting'[c] = DependsOn(c)' \ Placed'
        /\ Placed' \subseteq selected'
        /\ \A i, j \in 1..Len(ordered') : ordered'[i] = ordered'[j] => i = j
    BY <1>1, <2>0, <2>1, InputStays, ReferenceStays DEF OrderInv
  <2>4. \A i \in 1..Len(ordered') :
           /\ DependsOn(ordered[i])' \subseteq {ordered'[m] : m \in 1..(i - 1)}
           /\ \A d \in selected' \ {ordered'[m] : m \in 1..(i - 1)} :
                d < ordered'[i] => ~(DependsOn(d)' \subseteq {ordered'[m] : m \in 1..(i - 1)})
    BY <1>1, <2>0, <2>1, <2>2, InputStays DEF OrderInv
  <2> QED
    BY <2>3, <2>4 DEF OrderInv, Before
<1>5. OutcomeInv'
  <2>1. BuiltIsExecutable'
    BY DEF PlanInv, OutcomeInv, BuiltIsExecutable, Requires
  <2>2. pc' = "planned" => Placed' = selected' /\ ValidPlan(ordered)'
    BY DEF PlanInv, OutcomeInv, ValidPlan, Accumulated, Requires, Provides, Placed
  <2>3. /\ pc' = "missing"   => \E k \in NeededKeys' : Producers(k)' = {}
        /\ pc' = "ambiguous" => \E k \in NeededKeys' : Cardinality(Producers(k)') > 1
        /\ pc' = "cycle"     => Cyclic'
        /\ pc' # "invalid_plan"
    BY <1>1, InputStays, ReferenceStays DEF PlanInv, OutcomeInv
  <2> QED
    BY <2>1, <2>2, <2>3 DEF OutcomeInv
<1> QED
  BY <1>2, <1>3, <1>4, <1>5 DEF PlanInv

\* The invariant of planning and building.
THEOREM PlanInvariant == Spec => []PlanInv
<1>1. PlanInv /\ [Next]_vars => PlanInv'
  BY NextGoalInv, NextRequirementInv, ReturnInv, StartOrderingInv, PickNextInv,
     FinishOrderingInv, BuildPipelineInv, PlanIdle DEF Next, Expand, Order
<1> QED
  BY PlanInit, <1>1, PTL DEF Spec

-----------------------------------------------------------------------------
(* The properties *)

\* The planner's and the builder's state has its types in every reachable state,
\* whatever the registry, the goals and the Contexts (planner.py, builder.py).
THEOREM PlannerTypeCorrect == Spec => []TypeOK
<1>1. PlanInv => TypeOK
  BY DEF PlanInv, PlanTypeInv
<1> QED
  BY <1>1, PlanInvariant, PTL

\* The planner succeeds exactly when the goals can be reached through unique
\* producers without a cycle, and every error it gives names a defect that the
\* needed part of the graph has (ExecutionPlanner.plan).
THEOREM PlanIffSatisfiableHolds == Spec => []PlanIffSatisfiable
<1>1. PlanInv => PlanIffSatisfiable
  <2> SUFFICES ASSUME PlanInv PROVE PlanIffSatisfiable
    OBVIOUS
  <2>1. pc = "planned" => Satisfiable
    BY DEF PlanInv, OrderInv
  <2>2. /\ pc = "missing"   => \E k \in NeededKeys : Producers(k) = {}
        /\ pc = "ambiguous" => \E k \in NeededKeys : Cardinality(Producers(k)) > 1
        /\ pc = "cycle"     => Cyclic
        /\ pc # "invalid_plan"
    BY DEF PlanInv, OutcomeInv
  <2>3. pc \in {"missing", "ambiguous", "cycle"} => ~Satisfiable
    <3>1. Cardinality({}) # 1 /\ ~(1 > 1)
      BY FS_EmptySet
    <3> QED
      BY <2>2, <3>1 DEF Satisfiable
  <2> QED
    BY <2>1, <2>2, <2>3 DEF PlanIffSatisfiable
<1> QED
  BY <1>1, PlanInvariant, PTL

\* A plan has every capability the goals need and no other, and takes the least
\* name whenever there is a choice (_topological_order).
THEOREM PlanIsCanonicalHolds == Spec => []PlanIsCanonical
<1>1. PlanInv => PlanIsCanonical
  <2> SUFFICES ASSUME PlanInv, pc = "planned" PROVE PlanIsCanonical
    BY DEF PlanIsCanonical
  <2>1. /\ selected = NeededIds
        /\ \A i, j \in 1..Len(ordered) : ordered[i] = ordered[j] => i = j
        /\ \A i \in 1..Len(ordered) :
             \A d \in selected \ Before(i) : d < ordered[i] => ~(DependsOn(d) \subseteq Before(i))
    BY DEF PlanInv, OrderInv
  <2>2. Placed = selected /\ Len(ordered) \in Nat
    BY TypeFacts, LenProperties DEF PlanInv, OutcomeInv
  <2>3. ASSUME NEW i \in 1..Len(ordered), NEW j \in 1..Len(ordered),
               i < j, ordered[j] < ordered[i]
        PROVE  ~(DependsOn(ordered[j]) \subseteq Before(i))
    <3>1. \A m \in 1..(i - 1) : m \in 1..Len(ordered) /\ m # j
      BY <2>2, <2>3
    <3>2. ordered[j] \notin Before(i)
      BY <2>1, <3>1 DEF Before
    <3>3. ordered[j] \in selected
      BY <2>2 DEF Placed
    <3> QED
      BY <2>1, <2>3, <3>2, <3>3
  <2> QED
    BY <2>1, <2>2, <2>3 DEF PlanIsCanonical, Before
<1> QED
  BY <1>1, PlanInvariant, PTL

\* A built pipeline declares what its steps and its goals need, beside what is
\* in the Context it is run with (PipelineBuilder.build, PlannedExecution.execute).
THEOREM BuiltIsExecutableHolds == Spec => []BuiltIsExecutable
<1>1. PlanInv => BuiltIsExecutable
  BY DEF PlanInv, OutcomeInv
<1> QED
  BY <1>1, PlanInvariant, PTL
=============================================================================
