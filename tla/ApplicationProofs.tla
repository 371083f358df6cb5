-------------------------- MODULE ApplicationProofs --------------------------
(***************************************************************************)
(* The scan, the doctor and the command line.                              *)
(*                                                                          *)
(* Preflight, the events of a scan and the doctor's forecast are correct    *)
(* for every registry, composition, environment and request. ScanInv is     *)
(* inductive for a scan with or without a doctor before it, DoctorInv and   *)
(* ForecastHolds are inductive with it. First come facts about the plan,    *)
(* which two recursive functions compute: that they are defined, and that   *)
(* a plan is a nonempty sequence of registered capabilities.                *)
(*                                                                          *)
(* What main returns and writes is right for every command line,            *)
(* configuration file, composition and behaviour of the services: CliInv is *)
(* inductive and implies ExitTellsScan and JsonOutcomeStated. It follows    *)
(* the scan only as far as main depends on it: which service was asked for, *)
(* whether anything ran, and what the status of a run says of its log.      *)
(*                                                                          *)
(* What the built-in definitions and factories make of a configuration is   *)
(* sound for every application host: ComposedInv and PreflightInv are       *)
(* inductive with CliInv and imply ComposedIsSound. Only this result takes  *)
(* the identities, keys, tools and providers to be the built-in ones.       *)
(***************************************************************************)
EXTENDS Doctor, Cli, SequenceTheorems, FiniteSetTheorems, WellFoundedInduction, TLAPS

-----------------------------------------------------------------------------
(* Facts about the operators of the model *)

\* A nonempty set of numbers has a least one.
LEMMA LeastOf ==
  ASSUME NEW A \in SUBSET Nat, A # {}
  PROVE  Least(A) \in A /\ \A y \in A : Least(A) <= y
<1>1. \A x, y \in Nat : y < x => <<y, x>> \in OpToRel(<, Nat)
  BY DEF OpToRel
<1>2. \E R : /\ IsWellFoundedOn(R, Nat)
             /\ \A x, y \in Nat : y < x => <<y, x>> \in R
  BY <1>1, NatLessThanWellFounded, Zenon
<1>3. PICK R : /\ IsWellFoundedOn(R, Nat)
               /\ \A x, y \in Nat : y < x => <<y, x>> \in R
  BY <1>2
<1>4. PICK x \in A : \A y \in A : ~(<<y, x>> \in R)
  BY <1>3, WFMin
<1>5. ASSUME NEW y \in A PROVE x <= y
  <2>1. x \in Nat /\ y \in Nat
    BY <1>4
  <2>2. ~(y < x)
    BY <1>3, <1>4, <2>1
  <2> QED
    BY <2>1, <2>2
<1> QED
  BY <1>5 DEF Least

\* A nonempty collection of subsets of a finite set has a minimal one.
LEMMA MinimalSubset ==
  ASSUME NEW S, IsFiniteSet(S), NEW C \in SUBSET (SUBSET S), C # {}
  PROVE  \E T \in C : \A U \in SUBSET T : U # T => U \notin C
<1>1. \A T \in SUBSET S : T \in FiniteSubsetsOf(S)
  BY FS_Subset DEF FiniteSubsetsOf
<1>2. C \subseteq FiniteSubsetsOf(S)
  BY <1>1
<1>3. IsWellFoundedOn(StrictSubsetOrdering(S), FiniteSubsetsOf(S))
  BY FS_StrictSubsetOrderingWellFounded
<1>4. PICK T \in C : \A U \in C : ~(<<U, T>> \in StrictSubsetOrdering(S))
  BY <1>2, <1>3, WFMin
<1>5. ASSUME NEW U \in SUBSET T, U # T, U \in C PROVE FALSE
  <2>1. U \in SUBSET S /\ T \in SUBSET S
    BY <1>4
  <2>2. <<U, T>> \in StrictSubsetOrdering(S)
    BY <1>5, <2>1 DEF StrictSubsetOrdering
  <2> QED
    BY <1>4, <1>5, <2>2
<1> QED
  BY <1>5

-----------------------------------------------------------------------------
(* The planner's order. Order is a recursive function on the subsets of what    *)
(* is to be ordered; it exists because every call removes an element.           *)

Free(reg, T) == {c \in T : \A p \in T : reg.requires[c] \cap reg.provides[p] = {}}

First(reg, T) == Least(Free(reg, T))

\* What sort returns for T, when g is what it returns for smaller sets.
Sorted(reg, g, T) ==
  IF Free(reg, T) = {} THEN <<>> ELSE <<First(reg, T)>> \o g[T \ {First(reg, T)}]

Sorts(reg, g, T) == \A U \in SUBSET T : g[U] = Sorted(reg, g, U)

LEMMA FirstIn ==
  ASSUME NEW reg, NEW T \in SUBSET Nat, Free(reg, T) # {}
  PROVE  First(reg, T) \in T /\ T \ {First(reg, T)} \in SUBSET T
         /\ T \ {First(reg, T)} # T
<1>1. Free(reg, T) \in SUBSET Nat
  BY DEF Free
<1>2. First(reg, T) \in Free(reg, T)
  BY <1>1, LeastOf DEF First
<1> QED
  BY <1>2 DEF Free

LEMMA SortsAgree ==
  ASSUME NEW reg, NEW S \in SUBSET Nat, IsFiniteSet(S), NEW g, NEW h,
         Sorts(reg, g, S), Sorts(reg, h, S)
  PROVE  \A T \in SUBSET S : g[T] = h[T]
<1> DEFINE C == {T \in SUBSET S : g[T] # h[T]}
<1>0. SUFFICES ASSUME C # {} PROVE FALSE
  OBVIOUS
<1>1. PICK T \in C : \A U \in SUBSET T : U # T => U \notin C
  <2>1. C \in SUBSET (SUBSET S)
    OBVIOUS
  <2> HIDE DEF C
  <2> QED
    BY <1>0, <2>1, MinimalSubset
<1>2. T \in SUBSET S /\ T \in SUBSET Nat /\ g[T] # h[T]
  BY <1>1
<1>3. g[T] = Sorted(reg, g, T) /\ h[T] = Sorted(reg, h, T)
  BY <1>2 DEF Sorts
<1>4. Free(reg, T) # {}
  BY <1>2, <1>3 DEF Sorted
<1>5. g[T \ {First(reg, T)}] = h[T \ {First(reg, T)}]
  BY <1>1, <1>2, <1>4, FirstIn
<1> QED
  BY <1>2, <1>3, <1>5 DEF Sorted

LEMMA SortsExist ==
  ASSUME NEW reg, NEW S \in SUBSET Nat, IsFiniteSet(S)
  PROVE  \A T \in SUBSET S : \E g : Sorts(reg, g, T)
<1> DEFINE C == {T \in SUBSET S : ~ \E g : Sorts(reg, g, T)}
<1>0. SUFFICES ASSUME C # {} PROVE FALSE
  OBVIOUS
<1>1. PICK T \in C : \A U \in SUBSET T : U # T => U \notin C
  <2>1. C \in SUBSET (SUBSET S)
    OBVIOUS
  <2> HIDE DEF C
  <2> QED
    BY <1>0, <2>1, MinimalSubset
<1>2. T \in SUBSET S /\ T \in SUBSET Nat
  BY <1>1
<1> DEFINE G(U) == CHOOSE g : Sorts(reg, g, U)
           rest == T \ {First(reg, T)}
           top  == IF Free(reg, T) = {} THEN <<>> ELSE <<First(reg, T)>> \o G(rest)[rest]
           h    == [U \in SUBSET T |-> IF U = T THEN top ELSE G(U)[U]]
<1>3. ASSUME NEW U \in SUBSET T, U # T PROVE Sorts(reg, G(U), U)
  <2>1. \E g : Sorts(reg, g, U)
    BY <1>1, <1>3
  <2> QED
    BY <2>1, Zenon
<1> HIDE DEF G
<1>4. ASSUME NEW U \in SUBSET T PROVE h[U] = Sorted(reg, h, U)
  <2> DEFINE less == U \ {First(reg, U)}
  <2>0. U \in SUBSET Nat /\ IsFiniteSet(U)
    BY <1>2, FS_Subset
  <2>1. CASE Free(reg, U) = {}
    <3>1. CASE U = T
      BY <2>1, <3>1 DEF Sorted
    <3>2. CASE U # T
      <4>1. G(U)[U] = Sorted(reg, G(U), U)
        BY <1>3, <3>2 DEF Sorts
      <4> QED
        BY <2>1, <3>2, <4>1 DEF Sorted
    <3> QED
      BY <3>1, <3>2
  <2>2. CASE Free(reg, U) # {}
    <3>1. less \in SUBSET U /\ less # U /\ less \in SUBSET T /\ less # T
      BY <2>0, <2>2, FirstIn
    <3>2. h[less] = G(less)[less]
      BY <3>1
    <3>3. CASE U = T
      <4>1. h[U] = <<First(reg, U)>> \o G(less)[less]
        BY <2>2, <3>3
      <4> QED
        BY <2>2, <3>2, <4>1 DEF Sorted
    <3>4. CASE U # T
      <4>1. Sorts(reg, G(U), U) /\ Sorts(reg, G(less), less)
        BY <1>3, <3>1, <3>4
      <4>2. Sorts(reg, G(U), less)
        BY <3>1, <4>1 DEF Sorts
      <4>3. less \in SUBSET Nat /\ IsFiniteSet(less)
        BY <2>0, <3>1, FS_Subset
      <4>4. G(U)[less] = G(less)[less]
        BY <4>1, <4>2, <4>3, SortsAgree
      <4>5. G(U)[U] = Sorted(reg, G(U), U) /\ h[U] = G(U)[U]
        BY <3>4, <4>1 DEF Sorts
      <4> QED
        BY <2>2, <3>2, <4>4, <4>5 DEF Sorted
    <3> QED
      BY <3>3, <3>4
  <2> QED
    BY <2>1, <2>2
<1> HIDE DEF h
<1>5. Sorts(reg, h, T)
  BY <1>4 DEF Sorts
<1> QED
  BY <1>1, <1>5

\* sort, and therefore Order, is what its definition says.
LEMMA SortUnfolds ==
  ASSUME NEW reg, NEW S \in SUBSET Nat, IsFiniteSet(S)
  PROVE  \E f : f[S] = Order(reg, S) /\ Sorts(reg, f, S)
<1> DEFINE P(f) ==
      f = [T \in SUBSET S |->
             LET free == {c \in T : \A p \in T : reg.requires[c] \cap reg.provides[p] = {}}
             IN IF free = {} THEN <<>> ELSE <<Least(free)>> \o f[T \ {Least(free)}]]
<1>1. \A f : P(f) <=> f = [T \in SUBSET S |-> Sorted(reg, f, T)]
  BY DEF Sorted, First, Free
<1>2. \E f : P(f)
  <2>1. PICK g : Sorts(reg, g, S)
    BY SortsExist
  <2> DEFINE f == [T \in SUBSET S |-> g[T]]
  <2>2. ASSUME NEW T \in SUBSET S PROVE f[T] = Sorted(reg, f, T)
    <3>1. g[T] = Sorted(reg, g, T) /\ f[T] = g[T]
      BY <2>1 DEF Sorts
    <3>2. CASE Free(reg, T) = {}
      BY <3>1, <3>2 DEF Sorted
    <3>3. CASE Free(reg, T) # {}
      <4>1. T \ {First(reg, T)} \in SUBSET S
        OBVIOUS
      <4>2. f[T \ {First(reg, T)}] = g[T \ {First(reg, T)}]
        BY <4>1
      <4> HIDE DEF f
      <4> QED
        BY <3>1, <3>3, <4>2 DEF Sorted
    <3> QED
      BY <3>2, <3>3
  <2>3. f = [T \in SUBSET S |-> f[T]]
    OBVIOUS
  <2> HIDE DEF f
  <2>4. f = [T \in SUBSET S |-> Sorted(reg, f, T)]
    BY <2>2, <2>3
  <2> QED
    BY <1>1, <2>4
<1> DEFINE sort == CHOOSE f : P(f)
<1>3. P(sort)
  BY <1>2, Zenon
<1>4. Order(reg, S) = sort[S]
  BY Zenon DEF Order
<1> HIDE DEF sort, P
<1>5. sort = [T \in SUBSET S |-> Sorted(reg, sort, T)]
  BY <1>1, <1>3
<1>6. Sorts(reg, sort, S)
  BY <1>5 DEF Sorts
<1> QED
  BY <1>4, <1>6

\* A plan consists of the capabilities that are to be ordered.
LEMMA OrderType ==
  ASSUME NEW reg, NEW S \in SUBSET Nat, IsFiniteSet(S)
  PROVE  Order(reg, S) \in Seq(S)
<1>1. PICK f : f[S] = Order(reg, S) /\ Sorts(reg, f, S)
  BY SortUnfolds
<1> DEFINE C == {T \in SUBSET S : f[T] \notin Seq(S)}
<1>0. SUFFICES ASSUME C # {} PROVE FALSE
  BY <1>1
<1>2. PICK T \in C : \A U \in SUBSET T : U # T => U \notin C
  <2>1. C \in SUBSET (SUBSET S)
    OBVIOUS
  <2> HIDE DEF C
  <2> QED
    BY <1>0, <2>1, MinimalSubset
<1>3. T \in SUBSET S /\ T \in SUBSET Nat /\ f[T] \notin Seq(S)
  BY <1>2
<1>4. f[T] = Sorted(reg, f, T)
  BY <1>1, <1>3 DEF Sorts
<1>5. Free(reg, T) # {}
  BY <1>3, <1>4 DEF Sorted
<1>6. First(reg, T) \in S /\ f[T \ {First(reg, T)}] \in Seq(S)
  BY <1>2, <1>3, <1>5, FirstIn
<1>7. <<First(reg, T)>> \in Seq(S)
  BY <1>6
<1>8. f[T] = <<First(reg, T)>> \o f[T \ {First(reg, T)}]
  BY <1>4, <1>5 DEF Sorted
<1> QED
  BY <1>3, <1>6, <1>7, <1>8, ConcatProperties

\* Capabilities that can be ranked below those that need them are all ordered.
LEMMA OrderComplete ==
  ASSUME NEW reg, NEW S \in SUBSET Nat, IsFiniteSet(S), NEW rank \in [S -> Nat],
         \A c, p \in S : reg.requires[c] \cap reg.provides[p] # {} => rank[p] < rank[c]
  PROVE  Len(Order(reg, S)) = Cardinality(S)
<1>1. PICK f : f[S] = Order(reg, S) /\ Sorts(reg, f, S)
  BY SortUnfolds
<1> DEFINE Whole(T) == f[T] \in Seq(S) /\ Len(f[T]) = Cardinality(T)
           C == {T \in SUBSET S : ~Whole(T)}
<1>0. SUFFICES ASSUME C # {} PROVE FALSE
  BY <1>1
<1> HIDE DEF Whole
<1>2. PICK T \in C : \A U \in SUBSET T : U # T => U \notin C
  <2>1. C \in SUBSET (SUBSET S)
    OBVIOUS
  <2> HIDE DEF C
  <2> QED
    BY <1>0, <2>1, MinimalSubset
<1>3. /\ T \in SUBSET S /\ T \in SUBSET Nat /\ IsFiniteSet(T)
      /\ ~Whole(T) /\ \A U \in SUBSET T : U # T => Whole(U)
  BY <1>2, FS_Subset
<1>4. f[T] = Sorted(reg, f, T)
  BY <1>1, <1>3 DEF Sorts
<1>5. CASE T = {}
  <2>1. f[T] = <<>>
    BY <1>4, <1>5 DEF Sorted, Free
  <2>2. Cardinality(T) = 0
    BY <1>5, FS_EmptySet
  <2> QED
    BY <1>3, <2>1, <2>2 DEF Whole
<1>6. CASE T # {}
  <2> DEFINE R == {rank[c] : c \in T}
  <2>1. PICK c \in T : \A p \in T : rank[c] <= rank[p]
    <3>1. R \in SUBSET Nat /\ R # {}
      BY <1>3, <1>6
    <3>2. Least(R) \in R /\ \A y \in R : Least(R) <= y
      BY <3>1, LeastOf
    <3> QED
      BY <3>2
  <2>2. c \in Free(reg, T)
    <3>1. ASSUME NEW p \in T, reg.requires[c] \cap reg.provides[p] # {} PROVE FALSE
      <4>1. rank[p] < rank[c] /\ rank[c] <= rank[p]
        BY <1>3, <2>1, <3>1
      <4>2. rank[p] \in Nat /\ rank[c] \in Nat
        BY <1>3
      <4> QED
        BY <4>1, <4>2
    <3> QED
      BY <3>1 DEF Free
  <2>3. PICK x \in T : x = First(reg, T)
    BY <1>3, <2>2, FirstIn
  <2> DEFINE rest == T \ {x}
             head == <<x>>
             tail == f[rest]
  <2>4. f[T] = head \o tail
    BY <1>4, <2>2, <2>3 DEF Sorted
  <2>5. rest \in SUBSET T /\ rest # T /\ rest \in SUBSET S
    BY <1>3, <2>3
  <2>6. Cardinality(rest) = Cardinality(T) - 1 /\ Cardinality(T) \in Nat
    <3>1. Cardinality(T) \in Nat
      BY <1>3, FS_CardinalityType
    <3>2. \A y : y \in T => Cardinality(T \ {y}) = Cardinality(T) - 1
      BY <1>3, FS_RemoveElement
    <3> QED
      BY <2>3, <3>1, <3>2
  <2>7. head \in Seq(S) /\ Len(head) = 1
    <3>1. x \in S
      BY <1>3, <2>3
    <3> QED
      BY <3>1
  <2> HIDE DEF rest, head
  <2>8. tail \in Seq(S) /\ Len(tail) = Cardinality(rest)
    <3>1. Whole(rest)
      BY <1>3, <2>5
    <3> QED
      BY <3>1 DEF Whole
  <2> HIDE DEF tail, C, R
  <2>9. head \o tail \in Seq(S) /\ Len(head \o tail) = 1 + Len(tail)
    <3>1. head \o tail \in Seq(S) /\ Len(head \o tail) = Len(head) + Len(tail)
      BY <2>7, <2>8, ConcatProperties, Zenon
    <3> QED
      BY <2>7, <3>1
  <2>10. f[T] \in Seq(S)
    BY <2>4, <2>9
  <2>11. Len(f[T]) = Cardinality(T)
    <3>1. Len(head \o tail) = Cardinality(T)
      BY <2>6, <2>8, <2>9
    <3> QED
      BY <2>4, <3>1
  <2> QED
    BY <1>3, <2>10, <2>11 DEF Whole
<1> QED
  BY <1>5, <1>6

-----------------------------------------------------------------------------
(* What a plan has to produce. Demanded is a recursive function on 0..n.        *)

\* Induction over the natural numbers, as a statement about a set.
LEMMA NatSetInduction ==
  ASSUME NEW S, 0 \in S, \A n \in Nat : n \in S => n + 1 \in S
  PROVE  Nat \subseteq S
<1> SUFFICES ASSUME Nat \ S # {} PROVE FALSE
  OBVIOUS
<1>1. PICK x \in Nat \ S : \A y \in Nat \ S : x <= y
  BY LeastOf
<1>2. x # 0 /\ x - 1 \in Nat /\ ~(x <= x - 1)
  BY <1>1
<1>3. x - 1 \in S
  BY <1>1, <1>2
<1> QED
  BY <1>1, <1>2, <1>3

\* The keys that the producers of K require.
Upstream(reg, K) == UNION {reg.requires[c] : c \in UNION {Producers(reg, k) : k \in K}}

Grows(reg, goals, g, n) ==
  /\ g[0] = goals
  /\ \A m \in 1..n : g[m] = g[m - 1] \cup Upstream(reg, g[m - 1])

LEMMA GrowthExists ==
  ASSUME NEW reg, NEW goals
  PROVE  \A n \in Nat : \E g : Grows(reg, goals, g, n)
<1> DEFINE S == {n \in Nat : \E g : Grows(reg, goals, g, n)}
<1>1. 0 \in S
  <2>1. Grows(reg, goals, [m \in {0} |-> goals], 0)
    BY DEF Grows
  <2> QED
    BY <2>1
<1>2. ASSUME NEW n \in Nat, n \in S PROVE n + 1 \in S
  <2>1. PICK g : Grows(reg, goals, g, n)
    BY <1>2
  <2> DEFINE h == [m \in 0..(n + 1) |->
                     IF m = n + 1 THEN g[n] \cup Upstream(reg, g[n]) ELSE g[m]]
  <2>2. h[0] = goals
    BY <2>1 DEF Grows
  <2>3. ASSUME NEW m \in 1..(n + 1) PROVE h[m] = h[m - 1] \cup Upstream(reg, h[m - 1])
    <3>1. CASE m = n + 1
      <4>1. h[m - 1] = g[n] /\ h[m] = g[n] \cup Upstream(reg, g[n])
        BY <3>1
      <4> QED
        BY <4>1
    <3>2. CASE m # n + 1
      <4>1. m \in 1..n /\ h[m] = g[m] /\ h[m - 1] = g[m - 1]
        BY <3>2
      <4> QED
        BY <2>1, <4>1 DEF Grows
    <3> QED
      BY <3>1, <3>2
  <2>4. Grows(reg, goals, h, n + 1)
    <3> HIDE DEF h
    <3> QED
      BY <2>2, <2>3 DEF Grows
  <2> QED
    BY <2>4
<1>3. \A m \in Nat : m \in S => m + 1 \in S
  BY <1>2
<1> HIDE DEF S
<1>4. Nat \subseteq S
  BY <1>1, <1>3, NatSetInduction, Zenon
<1> QED
  BY <1>4 DEF S

\* Demanded is what its definition says: the last of a series of growing sets.
LEMMA DemandGrows ==
  ASSUME NEW reg, NEW goals
  PROVE  \E g : /\ Demanded(reg, goals) = g[Cardinality(Ids)]
                /\ Grows(reg, goals, g, Cardinality(Ids))
<1> DEFINE N == Cardinality(Ids)
           P(f) == f = [n \in 0..N |->
             IF n = 0 THEN goals
             ELSE LET K == f[n - 1]
                  IN K \cup UNION {reg.requires[c] : c \in UNION {Producers(reg, k) : k \in K}}]
<1>1. N \in Nat
  BY ScanAssumption, FS_CardinalityType
<1>2. \A f : P(f) <=> f = [n \in 0..N |-> IF n = 0 THEN goals
                                        ELSE f[n - 1] \cup Upstream(reg, f[n - 1])]
  BY DEF Upstream
<1>3. \E f : P(f)
  <2>1. PICK g : Grows(reg, goals, g, N)
    BY <1>1, GrowthExists
  <2> DEFINE f == [n \in 0..N |-> g[n]]
  <2>2. ASSUME NEW n \in 0..N
        PROVE  f[n] = IF n = 0 THEN goals ELSE f[n - 1] \cup Upstream(reg, f[n - 1])
    <3>1. CASE n = 0
      BY <1>1, <2>1, <3>1 DEF Grows
    <3>2. CASE n # 0
      <4>1. n \in 1..N /\ f[n] = g[n] /\ f[n - 1] = g[n - 1]
        BY <1>1, <3>2
      <4> HIDE DEF f
      <4> QED
        BY <2>1, <3>2, <4>1 DEF Grows
    <3> QED
      BY <3>1, <3>2
  <2>3. f = [n \in 0..N |-> f[n]]
    OBVIOUS
  <2> HIDE DEF f, N
  <2> DEFINE T(n) == IF n = 0 THEN goals ELSE f[n - 1] \cup Upstream(reg, f[n - 1])
  <2>5. \A n \in 0..N : f[n] = T(n)
    BY <2>2
  <2> HIDE DEF T
  <2>6. f = [n \in 0..N |-> T(n)]
    BY <2>3, <2>5
  <2>4. P(f)
    BY <2>6 DEF T, Upstream
  <2> HIDE DEF P
  <2> QED
    BY <2>4, Zenon
<1> DEFINE grow == CHOOSE f : P(f)
<1>4. P(grow)
  BY <1>3, Zenon
<1>5. Demanded(reg, goals) = grow[N]
  BY Zenon DEF Demanded
<1> HIDE DEF grow, P, N
<1>6. grow = [n \in 0..N |-> IF n = 0 THEN goals
                            ELSE grow[n - 1] \cup Upstream(reg, grow[n - 1])]
  BY <1>2, <1>4
<1>7. grow[0] = goals
  BY <1>1, <1>6
<1>8. ASSUME NEW m \in 1..N PROVE grow[m] = grow[m - 1] \cup Upstream(reg, grow[m - 1])
  <2>1. m \in 0..N /\ m # 0
    BY <1>1
  <2> QED
    BY <1>6, <2>1
<1>9. Grows(reg, goals, grow, N)
  BY <1>7, <1>8 DEF Grows
<1> QED
  BY <1>5, <1>9 DEF N

\* The goals themselves are demanded.
LEMMA GoalsDemanded ==
  ASSUME NEW reg, NEW goals
  PROVE  goals \subseteq Demanded(reg, goals)
<1> DEFINE N == Cardinality(Ids)
<1>1. PICK g : Demanded(reg, goals) = g[N] /\ Grows(reg, goals, g, N)
  BY DemandGrows
<1>2. N \in Nat
  BY ScanAssumption, FS_CardinalityType
<1> HIDE DEF N
<1> DEFINE S == {n \in Nat : n <= N => goals \subseteq g[n]}
<1>3. 0 \in S
  BY <1>1 DEF Grows
<1>4. ASSUME NEW n \in Nat, n \in S, n + 1 <= N PROVE goals \subseteq g[n + 1]
  <2>1. n + 1 \in 1..N /\ n <= N /\ (n + 1) - 1 = n
    BY <1>2, <1>4
  <2>2. g[n + 1] = g[n] \cup Upstream(reg, g[n])
    BY <1>1, <2>1 DEF Grows
  <2> QED
    BY <1>4, <2>1, <2>2
<1>5. \A n \in Nat : n \in S => n + 1 \in S
  BY <1>4
<1> HIDE DEF S
<1>6. Nat \subseteq S
  BY <1>3, <1>5, NatSetInduction, Zenon
<1> QED
  BY <1>1, <1>2, <1>6 DEF S

\* Nothing is demanded but the goals and what is upstream of what is demanded.
LEMMA DemandedWithin ==
  ASSUME NEW reg, NEW K, NEW goals \in SUBSET K, Upstream(reg, K) \subseteq K
  PROVE  Demanded(reg, goals) \subseteq K
<1> DEFINE N == Cardinality(Ids)
<1>1. PICK g : Demanded(reg, goals) = g[N] /\ Grows(reg, goals, g, N)
  BY DemandGrows
<1>2. N \in Nat
  BY ScanAssumption, FS_CardinalityType
<1> HIDE DEF N
<1> DEFINE S == {n \in Nat : n <= N => g[n] \subseteq K}
<1>3. 0 \in S
  BY <1>1 DEF Grows
<1>4. ASSUME NEW n \in Nat, n \in S, n + 1 <= N PROVE g[n + 1] \subseteq K
  <2>1. n + 1 \in 1..N /\ n <= N /\ (n + 1) - 1 = n
    BY <1>2, <1>4
  <2>2. g[n + 1] = g[n] \cup Upstream(reg, g[n])
    BY <1>1, <2>1 DEF Grows
  <2>3. g[n] \subseteq K
    BY <1>4, <2>1
  <2>4. Upstream(reg, g[n]) \subseteq Upstream(reg, K)
    BY <2>3 DEF Upstream
  <2> QED
    BY <2>2, <2>3, <2>4
<1>5. \A n \in Nat : n \in S => n + 1 \in S
  BY <1>4
<1> HIDE DEF S
<1>6. Nat \subseteq S
  BY <1>3, <1>5, NatSetInduction, Zenon
<1> QED
  BY <1>1, <1>2, <1>6 DEF S

\* A plan for a request consists of enabled capabilities, and is not empty.
LEMMA PlanType ==
  ASSUME NEW reg, reg.ids \in SUBSET Ids, NEW goals, goals # {}, Plannable(reg, goals)
  PROVE  /\ Plan(reg, goals) \in Seq(reg.ids)
         /\ Plan(reg, goals) # <<>>
<1> DEFINE S == Needed(reg, goals)
<1>1. S \in SUBSET reg.ids /\ S \in SUBSET Nat
  BY ScanAssumption DEF Needed, Producers
<1>2. IsFiniteSet(S)
  BY <1>1, ScanAssumption, FS_Subset
<1>3. Plan(reg, goals) \in Seq(S)
  BY <1>1, <1>2, OrderType DEF Plan
<1>4. Plan(reg, goals) \in Seq(reg.ids)
  BY <1>1, <1>3, SeqMonotonic
<1>5. S # {}
  <2>1. PICK k \in goals : TRUE
    OBVIOUS
  <2>2. k \in Demanded(reg, goals)
    BY GoalsDemanded
  <2>3. Cardinality(Producers(reg, k)) = 1
    BY <2>2 DEF Plannable
  <2>4. Producers(reg, k) # {}
    BY <2>3, FS_EmptySet
  <2> QED
    BY <2>2, <2>4 DEF Needed
<1>6. Cardinality(S) # 0
  BY <1>2, <1>5, FS_EmptySet
<1>7. Len(Plan(reg, goals)) = Cardinality(S)
  BY DEF Plannable, Plan
<1>8. Len(<<>>) = 0
  OBVIOUS
<1> QED
  BY <1>4, <1>6, <1>7, <1>8

-----------------------------------------------------------------------------
(* The inductive invariant of a scan. The doctor's phases count as phases in    *)
(* which nothing of the scan has happened yet.                                  *)

Unplanned == {"consult", "tools", "prepare", "filter", "configuration_error"}
Started   == {"build", "construct", "execute", "accept", "result", "build_error"}
Unrun     == Unplanned \cup {"check", "preflight_error", "inspection", "build",
                             "construct", "build_error"}

CheckType == [kind : Kinds, of : Ids \cup Requirements, ready : BOOLEAN]

ScanType ==
  /\ composition \in Compositions /\ request \in Requests
  /\ pc \in Phases \cup Ended \cup {"consult", "tools"}
  /\ plan \in Seq(composition.ids) /\ manifest \subseteq Requirements
  /\ step \in 1..Len(plan) + 1
  /\ wanted \subseteq Requirements /\ seen \subseteq Requirements
  /\ checks \in Seq(CheckType)
  /\ built \in Seq(Ids)
  /\ log \in Seq(Statuses) /\ status \in Statuses \cup {"NONE"}
  /\ accepted \in BOOLEAN
  /\ events \in Seq(EventNames)

\* Where the scan is in its plan.
PlaceInv ==
  /\ pc \in Unplanned => plan = <<>> /\ step = 1 /\ wanted = {} /\ seen = {} /\ checks = <<>>
  /\ pc \notin Unplanned \cup {"interrupted"} => plan # <<>>
  /\ pc \in Unplanned \cup {"check", "build"} => built = <<>>
  /\ pc \in {"execute", "accept", "result"} => built # <<>>
  /\ pc \in Unrun => log = <<>>

Bound(c) == c \in composition.have \ composition.misbound

\* The requirements of the bound steps that were checked are the ones seen or
\* still wanted, and the checks are ready when the steps are bound and what was
\* seen is met.
ReadinessInv ==
  /\ \A i \in 1..(step - 1) : Bound(plan[i]) => composition.needs[plan[i]] \subseteq seen \cup wanted
  /\ \A r \in seen \cup wanted :
       \E i \in 1..(step - 1) : Bound(plan[i]) /\ r \in composition.needs[plan[i]]
  /\ pc # "internal_error" =>
       (AllReady <=> (\A i \in 1..(step - 1) : Bound(plan[i])) /\ (\A r \in seen : Met(r)))

DecidedInv ==
  /\ pc \in Started \cup {"preflight_error", "inspection"} => step = Len(plan) + 1 /\ wanted = {}
  /\ pc \in Started \/ built # <<>> => CanStart
  /\ pc = "preflight_error" => ~CanStart

Upto(k) == SubSeq(Lifecycle, 1, k)

HeardInv ==
  /\ request.service = "inspect" => events = <<>>
  /\ request.service = "run" =>
       /\ pc \in {"consult", "tools", "prepare"} => events = Upto(0)
       /\ pc \in {"filter", "configuration_error"} => events = Upto(1)
       /\ pc = "check" => events = Upto(3)
       /\ pc = "preflight_error" => events = Append(Upto(3), "PREFLIGHT_FAILED")
       /\ pc = "build" => events = Upto(4)
       /\ pc = "construct" => events = Upto(5)
       /\ pc = "build_error" => events \in {Upto(4), Upto(5)}
       /\ pc = "execute" => events = Upto(7)
       /\ pc = "accept" => events = Upto(8)
       /\ pc = "result" => events = Upto(9)
       /\ log # <<>> => Len(events) >= 7

ScanInv == ScanType /\ PlaceInv /\ ReadinessInv /\ DecidedInv /\ HeardInv

-----------------------------------------------------------------------------
(* The doctor *)

Alarm == \E i \in 1..Len(diagnosis) : diagnosis[i].status \notin {"READY", "WARNING"}

Promise ==
  /\ composition.have = composition.ids
  /\ Tools \cap composition.probed # {}
  /\ Declared \cap Requirements \subseteq composition.present
  /\ \A t \in Tools \cap composition.present : composition.probe[t] = "READY"

DoctorInv ==
  /\ DoctorTypeOK
  /\ pc \in {"consult", "tools"} => forecast = "NONE"
  /\ pc = "tools" =>
       /\ Tools \cap composition.probed # {}
       /\ toolsLeft \subseteq Tools \cap composition.present
       /\ FactoryStatus = "READY" \/ Alarm
       /\ \A t \in (Tools \cap composition.present) \ toolsLeft :
            composition.probe[t] = "READY" \/ Alarm
  /\ forecast = "READY" => Promise

-----------------------------------------------------------------------------
(* Facts about the state of a scan *)

LEMMA CompositionFields ==
  ASSUME ScanType
  PROVE  /\ composition \in CompositionType /\ request \in RequestType
         /\ composition.ids \in SUBSET Ids
         /\ composition.needs \in [Ids -> SUBSET Requirements]
         /\ request.service \in {"run", "inspect"}
         /\ request.goals # {}
  BY ScanAssumption DEF ScanType, CompositionType, RequestType

LEMMA PlanFacts ==
  ASSUME ScanType
  PROVE  /\ Len(plan) \in Nat
         /\ \A i \in 1..Len(plan) : plan[i] \in composition.ids /\ plan[i] \in Ids
         /\ (plan # <<>> <=> Len(plan) # 0)
<1>1. plan \in Seq(composition.ids) /\ composition.ids \in SUBSET Ids
  BY CompositionFields DEF ScanType
<1>2. \A i \in 1..Len(plan) : plan[i] \in composition.ids
  BY <1>1, ElementOfSeq
<1>3. plan # <<>> <=> Len(plan) # 0
  BY <1>1, EmptySeq
<1> QED
  BY <1>1, <1>2, <1>3

\* When every step has been looked at, the verdict is the readiness of the plan.
LEMMA ReadyIsStartable ==
  ASSUME ScanType, ReadinessInv, step = Len(plan) + 1, wanted = {}, pc # "internal_error"
  PROVE  AllReady <=> CanStart
<1>1. Len(plan) \in Nat /\ step - 1 = Len(plan)
  BY PlanFacts
<1> QED
  BY <1>1 DEF ReadinessInv, CanStart, Bound

LEMMA ReadinessKept ==
  ASSUME ReadinessInv, UNCHANGED <<composition, plan, step, wanted, seen, checks>>,
         pc # "internal_error"
  PROVE  ReadinessInv'
  BY DEF ReadinessInv, Bound, AllReady, Met

LEMMA ReadinessAsBefore ==
  ASSUME UNCHANGED <<composition, plan, checks>>
  PROVE  (CanStart' <=> CanStart) /\ (AllReady' <=> AllReady)
  BY DEF CanStart, AllReady, Met

-----------------------------------------------------------------------------
(* The lifecycle *)

LEMMA LifecycleType == Lifecycle \in Seq(EventNames) /\ Len(Lifecycle) = 9
<1>1. Len(Lifecycle) = 9
  BY DEF Lifecycle
<1>3. \A i \in 1..9 : Lifecycle[i] \in EventNames
  BY <1>1 DEF EventNames
<1>4. Lifecycle = [i \in 1..9 |-> Lifecycle[i]]
  BY DEF Lifecycle
<1>5. [i \in 1..9 |-> Lifecycle[i]] \in Seq(EventNames)
  BY <1>3, IsASeq
<1> QED
  BY <1>1, <1>4, <1>5

LEMMA UptoType ==
  ASSUME NEW k \in 0..9
  PROVE  Upto(k) \in Seq(EventNames) /\ Len(Upto(k)) = k
<1>1. \A i \in 1..9 : Lifecycle[i] \in EventNames
  BY LifecycleType, ElementOfSeq
<1>2. \A i \in 1..k : Lifecycle[i] \in EventNames
  BY <1>1
<1> QED
  BY <1>2, SubSeqProperties DEF Upto

LEMMA UptoNone == Upto(0) = <<>>
  BY SubSeqEmpty DEF Upto

LEMMA UptoNext ==
  ASSUME NEW k \in 0..8
  PROVE  Upto(k) \o <<Lifecycle[k + 1]>> = Upto(k + 1)
<1>1. 1 \in 1..Len(Lifecycle) /\ k + 1 \in 1..Len(Lifecycle) /\ (k + 1) - 1 = k
  BY LifecycleType
<1>2. SubSeq(Lifecycle, 1, k + 1) = SubSeq(Lifecycle, 1, (k + 1) - 1) \o <<Lifecycle[k + 1]>>
  BY <1>1, LifecycleType, SubSeqRecursiveSecond
<1> QED
  BY <1>1, <1>2 DEF Upto

LEMMA PairIsConcat ==
  ASSUME NEW S, NEW a \in S, NEW b \in S
  PROVE  <<a>> \o <<b>> = <<a, b>>
<1> DEFINE s == <<a>>
           t == <<b>>
           p == <<a, b>>
<1>1. /\ s \in Seq(S) /\ Len(s) = 1 /\ s[1] = a
      /\ t \in Seq(S) /\ Len(t) = 1 /\ t[1] = b
      /\ p \in Seq(S) /\ Len(p) = 2 /\ p[1] = a /\ p[2] = b
  OBVIOUS
<1> HIDE DEF s, t, p
<1>2. /\ s \o t \in Seq(S) /\ Len(s \o t) = 2
      /\ (s \o t)[1] = a /\ (s \o t)[2] = b
  BY <1>1, ConcatProperties
<1>3. \A i \in 1..2 : (s \o t)[i] = p[i]
  BY <1>1, <1>2
<1>4. s \o t = p
  BY <1>1, <1>2, <1>3, SeqEqual
<1> QED
  BY <1>4 DEF s, t, p

LEMMA UptoSecond ==
  ASSUME NEW k \in 0..7
  PROVE  Upto(k) \o <<Lifecycle[k + 1], Lifecycle[k + 2]>> = Upto(k + 2)
<1> DEFINE a == <<Lifecycle[k + 1]>>
           b == <<Lifecycle[k + 2]>>
<1>0. k \in 0..8 /\ k \in 0..9 /\ k + 1 \in 1..9 /\ k + 2 \in 1..9
  OBVIOUS
<1>1. Lifecycle[k + 1] \in EventNames /\ Lifecycle[k + 2] \in EventNames
  BY <1>0, LifecycleType, ElementOfSeq
<1>2. a \in Seq(EventNames) /\ b \in Seq(EventNames) /\ Upto(k) \in Seq(EventNames)
  <2>1. a \in Seq(EventNames) /\ b \in Seq(EventNames)
    BY <1>1
  <2>2. Upto(k) \in Seq(EventNames)
    BY <1>0, UptoType
  <2> QED
    BY <2>1, <2>2
<1>3. a \o b = <<Lifecycle[k + 1], Lifecycle[k + 2]>>
  BY <1>1, PairIsConcat
<1>4. Upto(k) \o a = Upto(k + 1)
  BY <1>0, UptoNext
<1>5. Upto(k + 1) \o b = Upto(k + 2)
  <2>1. k + 1 \in 0..8 /\ (k + 1) + 1 = k + 2
    OBVIOUS
  <2> QED
    BY <2>1, UptoNext
<1> HIDE DEF a, b
<1>6. (Upto(k) \o a) \o b = Upto(k) \o (a \o b)
  BY <1>2, ConcatAssociative
<1> QED
  BY <1>3, <1>4, <1>5, <1>6

LEMMA ConcatOfOne ==
  ASSUME NEW S, NEW s \in Seq(S), NEW x \in S
  PROVE  s \o <<x>> = Append(s, x)
<1> DEFINE t == <<x>>
<1>1. t \in Seq(S) /\ Len(t) = 1 /\ t[1] = x
  OBVIOUS
<1> HIDE DEF t
<1>2. /\ s \o t \in Seq(S) /\ Len(s \o t) = Len(s) + 1
      /\ \A i \in 1..(Len(s) + 1) : (s \o t)[i] = IF i <= Len(s) THEN s[i] ELSE t[i - Len(s)]
  BY <1>1, ConcatProperties
<1>3. /\ Append(s, x) \in Seq(S) /\ Len(Append(s, x)) = Len(s) + 1
      /\ \A i \in 1..Len(s) : Append(s, x)[i] = s[i]
      /\ Append(s, x)[Len(s) + 1] = x
      /\ Len(s) \in Nat
  BY AppendProperties
<1>4. ASSUME NEW i \in 1..(Len(s) + 1) PROVE (s \o t)[i] = Append(s, x)[i]
  <2>1. CASE i \in 1..Len(s)
    BY <1>2, <1>3, <2>1
  <2>2. CASE i = Len(s) + 1
    BY <1>1, <1>2, <1>3, <2>2
  <2>3. i \in 1..Len(s) \/ i = Len(s) + 1
    BY <1>3
  <2> QED
    BY <2>1, <2>2, <2>3
<1>5. s \o t = Append(s, x)
  BY <1>2, <1>3, <1>4, SeqEqual
<1> QED
  BY <1>5 DEF t

\* Emitting the next one or two events of the lifecycle.
LEMMA EmitNext ==
  ASSUME NEW k \in 0..8, NEW e, e = Lifecycle[k + 1], Emit(<<e>>),
         request.service = "run" => events = Upto(k),
         request.service = "inspect" => events = <<>>
  PROVE  /\ request.service = "run" => events' = Upto(k + 1)
         /\ request.service = "inspect" => events' = <<>>
  BY UptoNext DEF Emit

LEMMA EmitTwo ==
  ASSUME NEW k \in 0..7, NEW e, NEW f, e = Lifecycle[k + 1], f = Lifecycle[k + 2],
         Emit(<<e, f>>),
         request.service = "run" => events = Upto(k),
         request.service = "inspect" => events = <<>>
  PROVE  /\ request.service = "run" => events' = Upto(k + 2)
         /\ request.service = "inspect" => events' = <<>>
  BY UptoSecond DEF Emit

\* The lifecycle up to an event, by its position.
LEMMA ThroughIsUpto ==
  /\ Through("PREPARATION_STARTED") = Upto(1)
  /\ Through("PREFLIGHT_STARTED") = Upto(3)
  /\ Through("PREFLIGHT_COMPLETED") = Upto(4)
  /\ Through("BUILD_STARTED") = Upto(5)
  /\ Through("EXECUTION_STARTED") = Upto(7)
  /\ Lifecycle = Upto(9)
<1> DEFINE Place(e) == CHOOSE i \in 1..Len(Lifecycle) : Lifecycle[i] = e
<1>1. /\ Place("PREPARATION_STARTED") = 1 /\ Place("PREFLIGHT_STARTED") = 3
      /\ Place("PREFLIGHT_COMPLETED") = 4 /\ Place("BUILD_STARTED") = 5
      /\ Place("EXECUTION_STARTED") = 7
  <2> USE DEF Lifecycle
  <2>1. Place("PREPARATION_STARTED") = 1
    OBVIOUS
  <2>2. Place("PREFLIGHT_STARTED") = 3
    OBVIOUS
  <2>3. Place("PREFLIGHT_COMPLETED") = 4
    OBVIOUS
  <2>4. Place("BUILD_STARTED") = 5
    OBVIOUS
  <2>5. Place("EXECUTION_STARTED") = 7
    OBVIOUS
  <2> QED
    BY <2>1, <2>2, <2>3, <2>4, <2>5
<1>2. Lifecycle = Upto(9)
  BY LifecycleType, SubSeqFull DEF Upto
<1> QED
  BY <1>1, <1>2 DEF Through, Upto

-----------------------------------------------------------------------------
(* Every step of the scan keeps the invariant: first the types *)

LEMMA EventsTyped ==
  ASSUME events \in Seq(EventNames), NEW list \in Seq(EventNames), Emit(list)
  PROVE  events' \in Seq(EventNames) /\ Len(events') >= Len(events)
<1>1. events \o list \in Seq(EventNames) /\ Len(events \o list) = Len(events) + Len(list)
  BY ConcatProperties
<1>2. Len(events) \in Nat /\ Len(list) \in Nat
  OBVIOUS
<1> QED
  BY <1>1, <1>2 DEF Emit

\* The lists of events the steps emit.
LEMMA ListsTyped ==
  /\ <<>> \in Seq(EventNames)
  /\ \A e \in EventNames : <<e>> \in Seq(EventNames)
  /\ \A e, f \in EventNames : <<e, f>> \in Seq(EventNames)
  OBVIOUS

LEMMA NamesOfEvents ==
  /\ "PREPARATION_STARTED" \in EventNames /\ "PREPARATION_COMPLETED" \in EventNames
  /\ "PREFLIGHT_STARTED" \in EventNames /\ "PREFLIGHT_COMPLETED" \in EventNames
  /\ "PREFLIGHT_FAILED" \in EventNames /\ "BUILD_STARTED" \in EventNames
  /\ "BUILD_COMPLETED" \in EventNames /\ "EXECUTION_STARTED" \in EventNames
  /\ "EXECUTION_COMPLETED" \in EventNames /\ "RESULT_CREATED" \in EventNames
<1>1. /\ Lifecycle[1] = "PREPARATION_STARTED" /\ Lifecycle[2] = "PREPARATION_COMPLETED"
      /\ Lifecycle[3] = "PREFLIGHT_STARTED" /\ Lifecycle[4] = "PREFLIGHT_COMPLETED"
      /\ Lifecycle[5] = "BUILD_STARTED" /\ Lifecycle[6] = "BUILD_COMPLETED"
      /\ Lifecycle[7] = "EXECUTION_STARTED" /\ Lifecycle[8] = "EXECUTION_COMPLETED"
      /\ Lifecycle[9] = "RESULT_CREATED"
  BY DEF Lifecycle
<1>2. \A i \in 1..9 : Lifecycle[i] \in EventNames
  BY LifecycleType, ElementOfSeq
<1>3. "PREFLIGHT_FAILED" \in EventNames
  BY DEF EventNames
<1> QED
  BY <1>1, <1>2, <1>3

LEMMA CheckTyped ==
  ASSUME NEW kind \in Kinds, NEW of \in Ids \cup Requirements, NEW ready \in BOOLEAN
  PROVE  Check(kind, of, ready) \in CheckType
  BY DEF Check, CheckType

\* What looking at requirement r adds to the checks: nothing when a probe
\* raises, otherwise checks that are ready exactly when r is met.
LEMMA Looked ==
  ASSUME ScanType, NEW r \in Requirements,
         (r \in Tools /\ CheckTool(r)) \/ (r \notin Tools /\ CheckProvider(r))
  PROVE  /\ checks' \in Seq(CheckType)
         /\ \/ pc' = "internal_error" /\ composition.probe[r] = "RAISES"
               /\ r \in composition.present \cap composition.probed
            \/ pc' = pc /\ (AllReady' <=> AllReady /\ Met(r))
<1> DEFINE outcome == composition.probe[r]
           T(b) == Append(checks, Check("definition", r, b))
<1>1. checks \in Seq(CheckType)
  BY DEF ScanType
<1>2. ASSUME NEW s \in Seq(CheckType), NEW c \in CheckType
      PROVE  /\ Append(s, c) \in Seq(CheckType)
             /\ (\A i \in 1..Len(Append(s, c)) : Append(s, c)[i].ready)
                  <=> (\A i \in 1..Len(s) : s[i].ready) /\ c.ready
  <2>1. /\ Append(s, c) \in Seq(CheckType) /\ Len(Append(s, c)) = Len(s) + 1
        /\ Append(s, c)[Len(s) + 1] = c
        /\ \A i \in 1..Len(s) : Append(s, c)[i] = s[i]
        /\ Len(s) \in Nat
    BY AppendProperties
  <2>2. \A i \in 1..(Len(s) + 1) : i \in 1..Len(s) \/ i = Len(s) + 1
    BY <2>1
  <2>3. \A i \in 1..Len(s) : i \in 1..(Len(s) + 1)
    BY <2>1
  <2>4. Len(s) + 1 \in 1..(Len(s) + 1)
    BY <2>1
  <2> QED
    BY <2>1, <2>2, <2>3, <2>4
<1>3. \A kind \in Kinds : \A b \in BOOLEAN :
        Check(kind, r, b) \in CheckType /\ Check(kind, r, b).ready = b
  BY CheckTyped DEF Check
<1>4. {"definition", "executable", "configuration", "provider"} \subseteq Kinds
  BY DEF Kinds
<1>5. ASSUME NEW s \in Seq(CheckType), NEW kind \in Kinds, NEW b \in BOOLEAN,
             checks' = Append(s, Check(kind, r, b))
      PROVE  /\ checks' \in Seq(CheckType)
             /\ AllReady' <=> (\A i \in 1..Len(s) : s[i].ready) /\ b
  <2>1. Check(kind, r, b) \in CheckType /\ Check(kind, r, b).ready = b
    BY <1>3
  <2> QED
    BY <1>2, <1>5, <2>1 DEF AllReady
<1>6. /\ T(TRUE) \in Seq(CheckType)
      /\ (\A i \in 1..Len(T(TRUE)) : T(TRUE)[i].ready) <=> AllReady
  BY <1>1, <1>2, <1>3, <1>4 DEF AllReady
<1> HIDE DEF T
<1>7. CASE r \in Tools /\ CheckTool(r)
  <2>1. CASE r \notin composition.present
    <3>1. checks' = Append(checks, Check("definition", r, FALSE)) /\ pc' = pc
      BY <1>7, <2>1 DEF CheckTool
    <3> QED
      BY <1>1, <1>4, <1>5, <2>1, <3>1 DEF AllReady, Met
  <2>2. CASE r \in composition.present \ composition.probed
    <3>1. checks' = Append(T(TRUE), Check("executable", r, FALSE)) /\ pc' = pc
      BY <1>7, <2>2 DEF CheckTool, T
    <3> QED
      BY <1>4, <1>5, <1>6, <1>7, <2>2, <3>1 DEF Met
  <2>3. CASE r \in composition.present \cap composition.probed
    <3>1. Ask(r, "executable", T(TRUE))
      BY <1>7, <2>3 DEF CheckTool, T
    <3>2. CASE outcome = "RAISES"
      BY <1>1, <2>3, <3>1, <3>2 DEF Ask
    <3>3. CASE outcome # "RAISES"
      <4>1. checks' = Append(T(TRUE), Check("executable", r, outcome = "READY")) /\ pc' = pc
        BY <3>1, <3>3 DEF Ask
      <4>2. (outcome = "READY") \in BOOLEAN
        OBVIOUS
      <4>3. /\ checks' \in Seq(CheckType)
            /\ AllReady' <=> (\A i \in 1..Len(T(TRUE)) : T(TRUE)[i].ready) /\ outcome = "READY"
        BY <1>4, <1>5, <1>6, <4>1, <4>2
      <4> QED
        BY <1>6, <1>7, <2>3, <4>1, <4>3 DEF Met
    <3> QED
      BY <3>2, <3>3
  <2> QED
    BY <2>1, <2>2, <2>3
<1>8. CASE r \notin Tools /\ CheckProvider(r)
  <2>1. CASE r \notin composition.present
    <3>1. checks' = Append(checks, Check("configuration", r, FALSE)) /\ pc' = pc
      BY <1>8, <2>1 DEF CheckProvider
    <3> QED
      BY <1>1, <1>4, <1>5, <2>1, <3>1 DEF AllReady, Met
  <2>2. CASE r \in composition.present \ composition.probed
    <3>1. checks' = Append(checks, Check("configuration", r, TRUE)) /\ pc' = pc
      BY <1>8, <2>2 DEF CheckProvider
    <3> QED
      BY <1>1, <1>4, <1>5, <1>8, <2>2, <3>1 DEF Met, AllReady
  <2>3. CASE r \in composition.present \cap composition.probed
    <3>1. Ask(r, "provider", checks)
      BY <1>8, <2>3 DEF CheckProvider
    <3>2. CASE outcome = "RAISES"
      BY <1>1, <2>3, <3>1, <3>2 DEF Ask
    <3>3. CASE outcome # "RAISES"
      <4>1. checks' = Append(checks, Check("provider", r, outcome = "READY")) /\ pc' = pc
        BY <3>1, <3>3 DEF Ask
      <4>2. (outcome = "READY") \in BOOLEAN
        OBVIOUS
      <4>3. /\ checks' \in Seq(CheckType)
            /\ AllReady' <=> (\A i \in 1..Len(checks) : checks[i].ready) /\ outcome = "READY"
        BY <1>1, <1>4, <1>5, <4>1, <4>2
      <4> QED
        BY <1>8, <2>3, <4>1, <4>3 DEF Met, AllReady
    <3> QED
      BY <3>2, <3>3
  <2> QED
    BY <2>1, <2>2, <2>3
<1> QED
  BY <1>7, <1>8

USE DEF inputs, preflightVars, runVars

LEMMA PlanCompleteInv == ASSUME ScanInv, PlanComplete PROVE ScanInv'
<1> USE DEF PlanComplete
<1>1. /\ pc = "prepare" /\ pc' \in {"filter", "configuration_error"}
      /\ Emit(<<"PREPARATION_STARTED">>)
      /\ UNCHANGED <<composition, request, plan, manifest, step, wanted, seen, checks,
                     built, log, status, accepted>>
  OBVIOUS
<1>2. ScanType'
  BY <1>1, EventsTyped, ListsTyped, NamesOfEvents DEF ScanInv, ScanType, Phases, Ended, Raised
<1>3. PlaceInv'
  BY <1>1 DEF ScanInv, PlaceInv, Unplanned, Unrun
<1>4. ReadinessInv'
  BY <1>1, ReadinessKept DEF ScanInv
<1>5. DecidedInv'
  BY <1>1 DEF ScanInv, DecidedInv, PlaceInv, Unplanned, Started
<1>6. HeardInv'
  <2>1. /\ request.service = "run" => events = Upto(0)
        /\ request.service = "inspect" => events = <<>>
        /\ log = <<>>
    BY <1>1 DEF ScanInv, HeardInv, PlaceInv, Unrun, Unplanned
  <2>2. "PREPARATION_STARTED" = Lifecycle[0 + 1] /\ 0 \in 0..8
    BY DEF Lifecycle
  <2>3. /\ request.service = "run" => events' = Upto(1)
        /\ request.service = "inspect" => events' = <<>>
    BY <1>1, <2>1, <2>2, EmitNext
  <2> QED
    BY <1>1, <2>1, <2>3 DEF HeardInv
<1> QED
  BY <1>2, <1>3, <1>4, <1>5, <1>6 DEF ScanInv

LEMMA PlanAllowedInv == ASSUME ScanInv, PlanAllowed PROVE ScanInv'
<1>1. pc = "filter"
  BY DEF PlanAllowed
<1>2. /\ UNCHANGED <<composition, request, step, wanted, seen, checks, built, log,
                     status, accepted>>
      /\ step = 1 /\ wanted = {} /\ seen = {} /\ checks = <<>> /\ built = <<>> /\ log = <<>>
      /\ plan = <<>>
  BY <1>1 DEF PlanAllowed, ScanInv, PlaceInv, Unplanned, Unrun
<1>3. /\ request.service = "run" => events = Upto(1)
      /\ request.service = "inspect" => events = <<>>
  BY <1>1 DEF ScanInv, HeardInv
<1>4. ReadinessInv'
  <2>1. step' - 1 = 0 /\ seen' = {} /\ wanted' = {} /\ Len(checks') = 0
    BY <1>2
  <2> QED
    BY <2>1 DEF ReadinessInv, AllReady
<1>5. CASE Plannable(Allowed, request.goals)
  <2>1. /\ plan' = Plan(Allowed, request.goals)
        /\ manifest' = IF request.service = "inspect" THEN ManifestOf(plan') ELSE {}
        /\ pc' = "check"
        /\ Emit(<<"PREPARATION_COMPLETED", "PREFLIGHT_STARTED">>)
    BY <1>5 DEF PlanAllowed
  <2>2. Allowed.ids \in SUBSET composition.ids /\ Allowed.ids \in SUBSET Ids
        /\ request.goals # {}
    BY CompositionFields DEF Allowed, ScanInv, CompositionType
  <2>3. plan' \in Seq(Allowed.ids) /\ plan' # <<>>
    BY <1>5, <2>1, <2>2, PlanType
  <2>4. plan' \in Seq(composition.ids)
    BY <2>2, <2>3, SeqMonotonic
  <2>5. Len(plan') \in Nat
    BY <2>4
  <2>6. manifest' \subseteq Requirements
    <3>1. composition.needs \in [Ids -> SUBSET Requirements]
          /\ composition.ids \in SUBSET Ids
      BY CompositionFields DEF ScanInv
    <3>2. \A i \in 1..Len(plan') : plan'[i] \in Ids
      BY <2>4, <3>1, ElementOfSeq
    <3>3. ManifestOf(plan') \subseteq Requirements
      BY <3>1, <3>2 DEF ManifestOf
    <3> QED
      BY <2>1, <3>3
  <2>7. ScanType'
    <3>1. events' \in Seq(EventNames)
      BY <2>1, EventsTyped, ListsTyped, NamesOfEvents DEF ScanInv, ScanType
    <3> QED
      BY <1>2, <2>1, <2>4, <2>5, <2>6, <3>1 DEF ScanInv, ScanType, Phases
  <2>8. PlaceInv'
    BY <1>2, <2>1, <2>3 DEF PlaceInv, Unplanned, Unrun
  <2>9. DecidedInv'
    BY <1>2, <2>1 DEF DecidedInv, Started
  <2>10. HeardInv'
    <3>1. /\ "PREPARATION_COMPLETED" = Lifecycle[1 + 1]
          /\ "PREFLIGHT_STARTED" = Lifecycle[1 + 2]
          /\ 1 \in 0..7 /\ 1 + 2 = 3
      BY DEF Lifecycle
    <3>2. /\ request.service = "run" => events' = Upto(3)
          /\ request.service = "inspect" => events' = <<>>
      BY <1>3, <2>1, <3>1, EmitTwo
    <3> QED
      BY <1>2, <2>1, <3>2 DEF HeardInv
  <2> QED
    BY <1>4, <2>7, <2>8, <2>9, <2>10 DEF ScanInv
<1>6. CASE ~Plannable(Allowed, request.goals)
  <2>1. pc' = "configuration_error" /\ UNCHANGED <<plan, manifest, events>>
    BY <1>6 DEF PlanAllowed
  <2>2. ScanType'
    BY <1>2, <2>1 DEF ScanInv, ScanType, Ended, Raised
  <2>3. PlaceInv' /\ DecidedInv'
    BY <1>2, <2>1 DEF PlaceInv, DecidedInv, Unplanned, Unrun, Started
  <2>4. HeardInv'
    BY <1>2, <1>3, <2>1 DEF HeardInv
  <2> QED
    BY <1>4, <2>2, <2>3, <2>4 DEF ScanInv
<1> QED
  BY <1>5, <1>6

LEMMA CheckFactoryInv == ASSUME ScanInv, CheckFactory PROVE ScanInv'
<1> DEFINE c == plan[step]
<1>1. /\ pc = "check" /\ pc' = "check" /\ wanted = {} /\ step <= Len(plan)
      /\ checks' = Append(checks, Check("factory", c, Bound(c)))
      /\ wanted' = IF Bound(c) THEN composition.needs[c] ELSE {}
      /\ step' = step + 1
      /\ UNCHANGED <<composition, request, plan, manifest, seen, built, log, status,
                     accepted, events>>
  BY DEF CheckFactory, Bound
<1>2. /\ Len(plan) \in Nat /\ step \in 1..Len(plan) /\ c \in Ids
      /\ step' - 1 = step
  <2>1. Len(plan) \in Nat /\ step \in 1..Len(plan)
    BY <1>1, PlanFacts DEF ScanInv, ScanType
  <2> QED
    BY <1>1, <2>1, PlanFacts DEF ScanInv
<1>3. /\ checks \in Seq(CheckType) /\ Len(checks) \in Nat
      /\ Check("factory", c, Bound(c)) \in CheckType
      /\ Check("factory", c, Bound(c)).ready = Bound(c)
  <2>1. Bound(c) \in BOOLEAN /\ "factory" \in Kinds
    BY DEF Bound, Kinds
  <2> QED
    BY <1>2, <2>1, CheckTyped DEF ScanInv, ScanType, Check
<1>4. ScanType'
  <2>1. checks' \in Seq(CheckType)
    BY <1>1, <1>3, AppendProperties
  <2>2. wanted' \subseteq Requirements
    BY <1>1, <1>2, CompositionFields DEF ScanInv
  <2>3. step' \in 1..Len(plan') + 1
    BY <1>1, <1>2
  <2> QED
    BY <1>1, <2>1, <2>2, <2>3 DEF ScanInv, ScanType
<1>5. PlaceInv' /\ DecidedInv' /\ HeardInv'
  <2>1. PlaceInv'
    BY <1>1 DEF ScanInv, PlaceInv, Unplanned, Unrun
  <2>2. DecidedInv'
    BY <1>1 DEF ScanInv, DecidedInv, PlaceInv, Unplanned, Started
  <2>3. HeardInv'
    BY <1>1 DEF ScanInv, HeardInv
  <2> QED
    BY <2>1, <2>2, <2>3
<1>6. ReadinessInv'
  <2>1. AllReady' <=> AllReady /\ Bound(c)
    <3>1. /\ Len(checks') = Len(checks) + 1
          /\ checks'[Len(checks) + 1].ready = Bound(c)
          /\ \A i \in 1..Len(checks) : checks'[i] = checks[i]
      BY <1>1, <1>3, AppendProperties
    <3>2. \A i \in 1..(Len(checks) + 1) : i \in 1..Len(checks) \/ i = Len(checks) + 1
      BY <1>3
    <3>3. /\ \A i \in 1..Len(checks) : i \in 1..(Len(checks) + 1)
          /\ Len(checks) + 1 \in 1..(Len(checks) + 1)
      BY <1>3
    <3> HIDE DEF c
    <3> QED
      BY <3>1, <3>2, <3>3 DEF AllReady
  <2>2. \A i \in 1..step : i \in 1..(step - 1) \/ i = step
    BY <1>2
  <2>3. \A i \in 1..(step - 1) : i \in 1..step
    BY <1>2
  <2>4. \A d : Bound(d)' <=> Bound(d)
    BY <1>1 DEF Bound
  <2>5. \A r : Met(r)' <=> Met(r)
    BY <1>1 DEF Met
  <2>6. /\ \A i \in 1..(step - 1) : Bound(plan[i]) => composition.needs[plan[i]] \subseteq seen
        /\ \A r \in seen : \E i \in 1..(step - 1) : Bound(plan[i]) /\ r \in composition.needs[plan[i]]
        /\ AllReady <=> (\A i \in 1..(step - 1) : Bound(plan[i])) /\ (\A r \in seen : Met(r))
    BY <1>1 DEF ScanInv, ReadinessInv
  <2>7. \A i \in 1..step : Bound(plan[i]) => composition.needs[plan[i]] \subseteq seen \cup wanted'
    BY <1>1, <2>2, <2>6
  <2>8. \A r \in seen \cup wanted' :
          \E i \in 1..step : Bound(plan[i]) /\ r \in composition.needs[plan[i]]
    <3> SUFFICES ASSUME NEW r \in seen \cup wanted'
                 PROVE  \E i \in 1..step : Bound(plan[i]) /\ r \in composition.needs[plan[i]]
      OBVIOUS
    <3>1. CASE r \in seen
      BY <2>3, <2>6, <3>1
    <3>2. CASE r \in wanted'
      BY <1>1, <1>2, <3>2
    <3> QED
      BY <3>1, <3>2
  <2>9. AllReady' <=> (\A i \in 1..step : Bound(plan[i])) /\ (\A r \in seen : Met(r))
    <3>1. step \in 1..step
      BY <1>2
    <3> QED
      BY <2>1, <2>2, <2>3, <2>6, <3>1
  <2> HIDE DEF c
  <2>10. step' - 1 = step /\ plan' = plan /\ composition' = composition /\ seen' = seen
    BY <1>1, <1>2
  <2> QED
    BY <2>4, <2>5, <2>7, <2>8, <2>9, <2>10 DEF ReadinessInv
<1> QED
  BY <1>4, <1>5, <1>6 DEF ScanInv

LEMMA CheckRequirementInv == ASSUME ScanInv, CheckRequirement PROVE ScanInv'
<1> DEFINE r == Least(wanted)
<1>1. /\ pc = "check" /\ wanted # {}
      /\ wanted' = wanted \ {r} /\ seen' = seen \cup {r}
      /\ UNCHANGED <<composition, request, plan, manifest, step, built, log, status,
                     accepted, events>>
  BY DEF CheckRequirement
<1>2. r \in wanted /\ r \in Requirements
  <2>1. wanted \in SUBSET Nat /\ wanted \subseteq Requirements
    BY ScanAssumption DEF ScanInv, ScanType
  <2> QED
    BY <1>1, <2>1, LeastOf
<1>3. \/ r \in seen /\ UNCHANGED <<pc, checks>>
      \/ r \notin seen /\ r \in Tools /\ CheckTool(r)
      \/ r \notin seen /\ r \notin Tools /\ CheckProvider(r)
  BY <1>2 DEF CheckRequirement
<1> HIDE DEF r
<1>4. \A s : Met(s)' <=> Met(s)
  BY <1>1 DEF Met
<1>5. AllReady <=> (\A i \in 1..(step - 1) : Bound(plan[i])) /\ (\A s \in seen : Met(s))
  BY <1>1 DEF ScanInv, ReadinessInv
<1>6. /\ checks' \in Seq(CheckType)
      /\ \/ pc' = "internal_error"
         \/ pc' = pc /\ (AllReady' <=> AllReady /\ Met(r))
  <2>1. CASE r \in seen /\ UNCHANGED <<pc, checks>>
    <3>1. checks' \in Seq(CheckType) /\ (AllReady' <=> AllReady)
      BY <2>1 DEF AllReady, ScanInv, ScanType
    <3> QED
      BY <1>5, <2>1, <3>1
  <2>2. CASE ~(r \in seen /\ UNCHANGED <<pc, checks>>)
    BY <1>2, <1>3, <2>2, Looked DEF ScanInv
  <2> QED
    BY <2>1, <2>2
<1>7. ScanType'
  BY <1>1, <1>2, <1>6 DEF ScanInv, ScanType, Ended, Raised, Phases
<1>8. PlaceInv' /\ DecidedInv' /\ HeardInv'
  <2>1. PlaceInv'
    BY <1>1, <1>6 DEF ScanInv, PlaceInv, Unplanned, Unrun
  <2>2. DecidedInv'
    BY <1>1, <1>6 DEF ScanInv, DecidedInv, PlaceInv, Unplanned, Started
  <2>3. HeardInv'
    <3>1. log = <<>>
      BY <1>1 DEF ScanInv, PlaceInv, Unrun
    <3> QED
      BY <1>1, <1>6, <3>1 DEF ScanInv, HeardInv
  <2> QED
    BY <2>1, <2>2, <2>3
<1>9. ReadinessInv'
  <2>1. seen' \cup wanted' = seen \cup wanted
    BY <1>1, <1>2
  <2>2. \A d : Bound(d)' <=> Bound(d)
    BY <1>1 DEF Bound
  <2>3. pc' # "internal_error" =>
          (AllReady' <=> (\A i \in 1..(step - 1) : Bound(plan[i])) /\ (\A s \in seen' : Met(s)))
    BY <1>1, <1>5, <1>6
  <2> QED
    BY <1>1, <1>4, <2>1, <2>2, <2>3 DEF ScanInv, ReadinessInv
<1> QED
  BY <1>7, <1>8, <1>9 DEF ScanInv

LEMMA DecideInv == ASSUME ScanInv, Decide PROVE ScanInv'
<1>1. /\ pc = "check" /\ wanted = {} /\ step > Len(plan)
      /\ UNCHANGED <<composition, request, plan, manifest, step, wanted, seen, checks,
                     built, log, status, accepted>>
  BY DEF Decide
<1>2. /\ plan # <<>> /\ built = <<>> /\ log = <<>>
      /\ step = Len(plan) + 1
  <2>1. plan # <<>> /\ built = <<>> /\ log = <<>>
    BY <1>1 DEF ScanInv, PlaceInv, Unplanned, Unrun
  <2>2. Len(plan) \in Nat /\ step \in 1..Len(plan) + 1
    BY PlanFacts DEF ScanInv, ScanType
  <2> QED
    BY <1>1, <2>1, <2>2
<1>3. AllReady <=> CanStart
  BY <1>1, <1>2, ReadyIsStartable DEF ScanInv
<1>4. (AllReady' <=> AllReady) /\ (CanStart' <=> CanStart)
  BY <1>1, ReadinessAsBefore
<1>5. ReadinessInv'
  BY <1>1, ReadinessKept DEF ScanInv
<1>6. /\ request.service = "run" => events = Upto(3)
      /\ request.service = "inspect" => events = <<>>
  BY <1>1 DEF ScanInv, HeardInv
<1>7. CASE request.service = "inspect" /\ pc' = "inspection" /\ events' = events
  <2>1. ScanType'
    BY <1>1, <1>7 DEF ScanInv, ScanType, Ended
  <2>2. PlaceInv' /\ DecidedInv' /\ HeardInv'
    BY <1>1, <1>2, <1>6, <1>7 DEF PlaceInv, DecidedInv, HeardInv, Unplanned, Unrun, Started
  <2> QED
    BY <1>5, <2>1, <2>2 DEF ScanInv
<1>8. CASE request.service = "run" /\ AllReady /\ pc' = "build" /\ Emit(<<"PREFLIGHT_COMPLETED">>)
  <2>1. events' \in Seq(EventNames)
    BY <1>8, EventsTyped, ListsTyped, NamesOfEvents DEF ScanInv, ScanType
  <2>2. ScanType'
    BY <1>1, <1>8, <2>1 DEF ScanInv, ScanType, Phases
  <2>3. PlaceInv' /\ DecidedInv'
    BY <1>1, <1>2, <1>3, <1>4, <1>8 DEF PlaceInv, DecidedInv, Unplanned, Unrun, Started
  <2>4. "PREFLIGHT_COMPLETED" = Lifecycle[3 + 1] /\ 3 \in 0..8 /\ 3 + 1 = 4
    BY DEF Lifecycle
  <2>5. events' = Upto(4)
    BY <1>6, <1>8, <2>4, EmitNext
  <2>6. HeardInv'
    BY <1>1, <1>2, <1>8, <2>5 DEF HeardInv
  <2> QED
    BY <1>5, <2>2, <2>3, <2>6 DEF ScanInv
<1>9. CASE request.service = "run" /\ ~AllReady /\ pc' = "preflight_error"
           /\ Emit(<<"PREFLIGHT_FAILED">>)
  <2>1. events' \in Seq(EventNames)
    BY <1>9, EventsTyped, ListsTyped, NamesOfEvents DEF ScanInv, ScanType
  <2>2. ScanType'
    BY <1>1, <1>9, <2>1 DEF ScanInv, ScanType, Ended, Raised
  <2>3. PlaceInv' /\ DecidedInv'
    BY <1>1, <1>2, <1>3, <1>4, <1>9 DEF PlaceInv, DecidedInv, Unplanned, Unrun, Started
  <2>4. events' = Append(Upto(3), "PREFLIGHT_FAILED")
    <3>1. events' = Upto(3) \o <<"PREFLIGHT_FAILED">>
      BY <1>6, <1>9 DEF Emit
    <3>2. Upto(3) \in Seq(EventNames)
      BY UptoType
    <3> QED
      BY <3>1, <3>2, NamesOfEvents, ConcatOfOne
  <2>5. HeardInv'
    BY <1>1, <1>2, <1>9, <2>4 DEF HeardInv
  <2> QED
    BY <1>5, <2>2, <2>3, <2>5 DEF ScanInv
<1> QED
  BY <1>7, <1>8, <1>9 DEF Decide

LEMMA StartBuildInv == ASSUME ScanInv, StartBuild PROVE ScanInv'
<1>1. /\ pc = "build" /\ pc' \in {"construct", "build_error"}
      /\ \/ Emit(<<"BUILD_STARTED">>)
         \/ pc' = "build_error" /\ events' = events
      /\ UNCHANGED <<composition, request, plan, manifest, step, wanted, seen, checks,
                     built, log, status, accepted>>
  BY DEF StartBuild
<1>2. /\ request.service = "run" => events = Upto(4)
      /\ request.service = "inspect" => events = <<>>
      /\ log = <<>>
  BY <1>1 DEF ScanInv, HeardInv, PlaceInv, Unrun
<1>3. ScanType'
  <2>1. events' \in Seq(EventNames)
    BY <1>1, EventsTyped, ListsTyped, NamesOfEvents DEF ScanInv, ScanType
  <2> QED
    BY <1>1, <2>1 DEF ScanInv, ScanType, Phases, Ended, Raised
<1>4. PlaceInv'
  BY <1>1 DEF ScanInv, PlaceInv, Unplanned, Unrun
<1>5. ReadinessInv'
  BY <1>1, ReadinessKept DEF ScanInv
<1>6. DecidedInv'
  BY <1>1, ReadinessAsBefore DEF ScanInv, DecidedInv, Started
<1>7. HeardInv'
  <2>1. "BUILD_STARTED" = Lifecycle[4 + 1] /\ 4 \in 0..8 /\ 4 + 1 = 5
    BY DEF Lifecycle
  <2>2. Emit(<<"BUILD_STARTED">>) =>
          /\ request.service = "run" => events' = Upto(5)
          /\ request.service = "inspect" => events' = <<>>
    BY <1>2, <2>1, EmitNext
  <2> QED
    BY <1>1, <1>2, <2>2 DEF HeardInv
<1> QED
  BY <1>3, <1>4, <1>5, <1>6, <1>7 DEF ScanInv

LEMMA ConstructInv == ASSUME ScanInv, Construct PROVE ScanInv'
<1>1. /\ pc = "construct" /\ Len(built) < Len(plan)
      /\ \/ pc' = "build_error" /\ built' = built
         \/ pc' = "construct" /\ built' = Append(built, plan[Len(built) + 1])
      /\ UNCHANGED <<composition, request, plan, manifest, step, wanted, seen, checks,
                     log, status, accepted, events>>
  BY DEF Construct
<1>2. built' \in Seq(Ids)
  <2>1. built \in Seq(Ids) /\ Len(built) \in Nat /\ Len(plan) \in Nat
    BY PlanFacts DEF ScanInv, ScanType
  <2>2. Len(built) + 1 \in 1..Len(plan)
    BY <1>1, <2>1
  <2>3. plan[Len(built) + 1] \in Ids
    BY <2>2, PlanFacts DEF ScanInv
  <2> QED
    BY <1>1, <2>1, <2>3, AppendProperties
<1>3. ScanType'
  BY <1>1, <1>2 DEF ScanInv, ScanType, Phases, Ended, Raised
<1>4. PlaceInv'
  BY <1>1 DEF ScanInv, PlaceInv, Unplanned, Unrun
<1>5. ReadinessInv'
  BY <1>1, ReadinessKept DEF ScanInv
<1>6. DecidedInv'
  BY <1>1, ReadinessAsBefore DEF ScanInv, DecidedInv, Started
<1>7. HeardInv'
  BY <1>1 DEF ScanInv, HeardInv
<1> QED
  BY <1>3, <1>4, <1>5, <1>6, <1>7 DEF ScanInv

LEMMA StartRunInv == ASSUME ScanInv, StartRun PROVE ScanInv'
<1>1. /\ pc = "construct" /\ Len(built) = Len(plan)
      /\ \/ pc' = "execute" /\ Emit(<<"BUILD_COMPLETED", "EXECUTION_STARTED">>)
         \/ pc' = "internal_error" /\ Emit(<<"BUILD_COMPLETED">>)
      /\ UNCHANGED <<composition, request, plan, manifest, step, wanted, seen, checks,
                     built, log, status, accepted>>
  BY DEF StartRun
<1>2. /\ request.service = "run" => events = Upto(5)
      /\ request.service = "inspect" => events = <<>>
      /\ log = <<>>
  BY <1>1 DEF ScanInv, HeardInv, PlaceInv, Unrun
<1>3. built # <<>>
  <2>1. built \in Seq(Ids) /\ plan # <<>>
    BY <1>1 DEF ScanInv, ScanType, PlaceInv, Unplanned
  <2>2. Len(plan) # 0
    BY <2>1, PlanFacts DEF ScanInv
  <2> QED
    BY <1>1, <2>1, <2>2, EmptySeq
<1>4. ScanType'
  <2>1. events' \in Seq(EventNames)
    BY <1>1, EventsTyped, ListsTyped, NamesOfEvents DEF ScanInv, ScanType
  <2> QED
    BY <1>1, <2>1 DEF ScanInv, ScanType, Phases, Ended, Raised
<1>5. PlaceInv'
  BY <1>1, <1>3 DEF ScanInv, PlaceInv, Unplanned, Unrun
<1>6. ReadinessInv'
  BY <1>1, ReadinessKept DEF ScanInv
<1>7. DecidedInv'
  BY <1>1, ReadinessAsBefore DEF ScanInv, DecidedInv, Started
<1>8. HeardInv'
  <2>1. /\ "BUILD_COMPLETED" = Lifecycle[5 + 1] /\ "EXECUTION_STARTED" = Lifecycle[5 + 2]
        /\ 5 \in 0..8 /\ 5 \in 0..7 /\ 5 + 1 = 6 /\ 5 + 2 = 7
    BY DEF Lifecycle
  <2>2. CASE pc' = "execute" /\ Emit(<<"BUILD_COMPLETED", "EXECUTION_STARTED">>)
    <3>1. /\ request.service = "run" => events' = Upto(7)
          /\ request.service = "inspect" => events' = <<>>
      BY <1>2, <2>1, <2>2, EmitTwo
    <3> QED
      BY <1>1, <1>2, <2>2, <3>1 DEF HeardInv
  <2>3. CASE pc' = "internal_error" /\ Emit(<<"BUILD_COMPLETED">>)
    <3>1. request.service = "inspect" => events' = <<>>
      BY <1>2, <2>1, <2>3, EmitNext
    <3> QED
      BY <1>1, <1>2, <2>3, <3>1 DEF HeardInv
  <2> QED
    BY <1>1, <2>2, <2>3
<1> QED
  BY <1>4, <1>5, <1>6, <1>7, <1>8 DEF ScanInv

LEMMA AttemptInv == ASSUME ScanInv, Attempt PROVE ScanInv'
<1>1. /\ pc = "execute" /\ pc' \in {"execute", "accept"}
      /\ status' \in Statuses \cup {"NONE"}
      /\ Emit(IF pc' = "accept" THEN <<"EXECUTION_COMPLETED">> ELSE <<>>)
      /\ UNCHANGED <<composition, request, plan, manifest, step, wanted, seen, checks,
                     built, accepted>>
  BY DEF Attempt
<1>2. log' \in Seq(Statuses)
  <2>1. \E s \in Statuses : log' = Append(log, s)
    BY DEF Attempt, Runtime!Keep, Runtime!Stop, Runtime!Good, Runtime!Bad, Statuses
  <2>2. log \in Seq(Statuses)
    BY DEF ScanInv, ScanType
  <2> QED
    BY <2>1, <2>2, AppendProperties
<1>3. /\ request.service = "run" => events = Upto(7)
      /\ request.service = "inspect" => events = <<>>
  BY <1>1 DEF ScanInv, HeardInv
<1>4. ScanType'
  <2>1. events' \in Seq(EventNames)
    BY <1>1, EventsTyped, ListsTyped, NamesOfEvents DEF ScanInv, ScanType
  <2> QED
    BY <1>1, <1>2, <2>1 DEF ScanInv, ScanType, Phases
<1>5. PlaceInv'
  BY <1>1 DEF ScanInv, PlaceInv, Unplanned, Unrun
<1>6. ReadinessInv'
  BY <1>1, ReadinessKept DEF ScanInv
<1>7. DecidedInv'
  BY <1>1, ReadinessAsBefore DEF ScanInv, DecidedInv, Started
<1>8. HeardInv'
  <2>1. Len(Upto(7)) = 7 /\ Len(Upto(8)) = 8 /\ Upto(7) \in Seq(EventNames)
    <3>1. 7 \in 0..9 /\ 8 \in 0..9
      OBVIOUS
    <3> QED
      BY <3>1, UptoType
  <2>2. CASE pc' = "accept"
    <3>1. "EXECUTION_COMPLETED" = Lifecycle[7 + 1] /\ 7 \in 0..8 /\ 7 + 1 = 8
      BY DEF Lifecycle
    <3>2. Emit(<<"EXECUTION_COMPLETED">>)
      BY <1>1, <2>2
    <3>3. /\ request.service = "run" => events' = Upto(8)
          /\ request.service = "inspect" => events' = <<>>
      BY <1>3, <3>1, <3>2, EmitNext
    <3>4. request.service = "run" => Len(events') >= 7
      <4>1. request.service = "run" => Len(events') = 8
        BY <2>1, <3>3, Zenon
      <4> QED
        BY <4>1
    <3> QED
      BY <1>1, <2>2, <3>3, <3>4 DEF HeardInv
  <2>3. CASE pc' = "execute"
    <3>1. Emit(<<>>)
      BY <1>1, <2>3
    <3>2. /\ request.service = "run" => events' = Upto(7) \o <<>>
          /\ request.service = "inspect" => events' = <<>>
      BY <1>3, <3>1 DEF Emit
    <3>3. Upto(7) \o <<>> = Upto(7)
      BY <2>1, ConcatEmptySeq
    <3>4. request.service = "run" => events' = Upto(7)
      BY <3>2, <3>3, Zenon
    <3>5. request.service = "run" => Len(events') >= 7
      <4>1. request.service = "run" => Len(events') = 7
        BY <2>1, <3>4, Zenon
      <4>2. 7 >= 7
        OBVIOUS
      <4> QED
        BY <4>1, <4>2, Zenon
    <3> QED
      BY <1>1, <2>3, <3>2, <3>4, <3>5 DEF HeardInv
  <2> QED
    BY <1>1, <2>2, <2>3
<1> QED
  BY <1>4, <1>5, <1>6, <1>7, <1>8 DEF ScanInv

LEMMA CrashInv == ASSUME ScanInv, Crash PROVE ScanInv'
<1>1. /\ pc = "execute" /\ pc' = "internal_error" /\ status' = "NONE"
      /\ UNCHANGED <<composition, request, plan, manifest, step, wanted, seen, checks,
                     built, accepted, events, log>>
  BY DEF Crash, Runtime!Abandon
<1>2. ScanType'
  BY <1>1 DEF ScanInv, ScanType, Ended, Raised
<1>3. PlaceInv'
  BY <1>1 DEF ScanInv, PlaceInv, Unplanned, Unrun
<1>4. ReadinessInv'
  BY <1>1, ReadinessKept DEF ScanInv
<1>5. DecidedInv'
  BY <1>1, ReadinessAsBefore DEF ScanInv, DecidedInv, Started
<1>6. HeardInv'
  BY <1>1 DEF ScanInv, HeardInv
<1> QED
  BY <1>2, <1>3, <1>4, <1>5, <1>6 DEF ScanInv

LEMMA AcceptInv == ASSUME ScanInv, Accept PROVE ScanInv'
<1>1. /\ pc = "accept" /\ pc' = "result" /\ accepted' \in BOOLEAN
      /\ Emit(<<"RESULT_CREATED">>)
      /\ UNCHANGED <<composition, request, plan, manifest, step, wanted, seen, checks,
                     built, log, status>>
  BY DEF Accept
<1>2. /\ request.service = "run" => events = Upto(8)
      /\ request.service = "inspect" => events = <<>>
  BY <1>1 DEF ScanInv, HeardInv
<1>3. ScanType'
  <2>1. events' \in Seq(EventNames)
    BY <1>1, EventsTyped, ListsTyped, NamesOfEvents DEF ScanInv, ScanType
  <2> QED
    BY <1>1, <2>1 DEF ScanInv, ScanType, Ended
<1>4. PlaceInv'
  BY <1>1 DEF ScanInv, PlaceInv, Unplanned, Unrun
<1>5. ReadinessInv'
  BY <1>1, ReadinessKept DEF ScanInv
<1>6. DecidedInv'
  BY <1>1, ReadinessAsBefore DEF ScanInv, DecidedInv, Started
<1>7. HeardInv'
  <2>1. "RESULT_CREATED" = Lifecycle[8 + 1] /\ 8 \in 0..8 /\ 8 + 1 = 9
    BY DEF Lifecycle
  <2>2. /\ request.service = "run" => events' = Upto(9)
        /\ request.service = "inspect" => events' = <<>>
    BY <1>1, <1>2, <2>1, EmitNext
  <2>3. request.service = "run" => Len(events') >= 7
    <3>1. Len(Upto(9)) = 9
      BY UptoType
    <3>2. request.service = "run" => Len(events') = 9
      BY <2>2, <3>1, Zenon
    <3> QED
      BY <3>2
  <2> QED
    BY <1>1, <2>2, <2>3 DEF HeardInv
<1> QED
  BY <1>3, <1>4, <1>5, <1>6, <1>7 DEF ScanInv

LEMMA InterruptInv == ASSUME ScanInv, Interrupt PROVE ScanInv'
<1>1. /\ pc \notin Ended /\ pc' = "interrupted"
      /\ UNCHANGED <<composition, request, plan, manifest, step, wanted, seen, checks,
                     built, log, status, accepted, events>>
  BY DEF Interrupt
<1>2. ScanType'
  BY <1>1 DEF ScanInv, ScanType, Ended, Raised
<1>3. PlaceInv'
  BY <1>1 DEF PlaceInv, Unplanned, Unrun
<1>4. ReadinessInv'
  BY <1>1, ReadinessKept DEF ScanInv, Ended, Raised
<1>5. DecidedInv'
  BY <1>1, ReadinessAsBefore DEF ScanInv, DecidedInv, Started
<1>6. HeardInv'
  BY <1>1 DEF ScanInv, HeardInv
<1> QED
  BY <1>2, <1>3, <1>4, <1>5, <1>6 DEF ScanInv

LEMMA ScanIdleInv == ASSUME ScanInv, UNCHANGED scanVars PROVE ScanInv'
<1> USE DEF scanVars
<1>1. ScanType'
  BY DEF ScanInv, ScanType
<1>2. PlaceInv' /\ HeardInv'
  BY DEF ScanInv, PlaceInv, HeardInv
<1>3. ReadinessInv'
  BY DEF ScanInv, ReadinessInv, Bound, AllReady, Met
<1>4. DecidedInv'
  BY ReadinessAsBefore DEF ScanInv, DecidedInv
<1> QED
  BY <1>1, <1>2, <1>3, <1>4 DEF ScanInv

LEMMA ScanInvStep == ASSUME ScanInv, [Next]_scanVars PROVE ScanInv'
  BY PlanCompleteInv, PlanAllowedInv, CheckFactoryInv, CheckRequirementInv, DecideInv,
     StartBuildInv, ConstructInv, StartRunInv, AttemptInv, CrashInv, AcceptInv,
     InterruptInv, ScanIdleInv DEF Next, Steps

-----------------------------------------------------------------------------
(* The initial states, and the steps of the doctor *)

LEMMA ScanInitInv ==
  ASSUME composition \in Compositions, request \in Requests, ScanInit,
         pc \in {"consult", "prepare"}
  PROVE  ScanInv
<1> USE DEF ScanInit
<1>1. ScanType
  <2>1. /\ plan \in Seq(composition.ids) /\ Len(plan) = 0 /\ checks \in Seq(CheckType)
        /\ built \in Seq(Ids) /\ log \in Seq(Statuses) /\ events \in Seq(EventNames)
    OBVIOUS
  <2>2. step \in 1..Len(plan) + 1
    BY <2>1
  <2>3. manifest = {} /\ wanted = {} /\ seen = {} /\ status = "NONE" /\ accepted = FALSE
    OBVIOUS
  <2> HIDE DEF ScanInit
  <2> QED
    BY <2>1, <2>2, <2>3 DEF ScanType, Phases
<1>2. PlaceInv
  BY DEF PlaceInv, Unplanned, Unrun
<1>3. ReadinessInv
  BY DEF ReadinessInv, AllReady
<1>4. DecidedInv
  BY DEF DecidedInv, Started
<1>5. HeardInv
  BY UptoNone DEF HeardInv
<1> QED
  BY <1>1, <1>2, <1>3, <1>4, <1>5 DEF ScanInv

\* While the doctor works, nothing of the scan has happened.
LEMMA ConsultInv ==
  ASSUME ScanInv, UNCHANGED scanState, pc \in {"consult", "tools"},
         pc' \in {"consult", "tools", "prepare"}
  PROVE  ScanInv'
<1> USE DEF scanState
<1>1. ScanType'
  BY DEF ScanInv, ScanType, Phases
<1>2. PlaceInv'
  BY DEF ScanInv, PlaceInv, Unplanned, Unrun
<1>3. ReadinessInv'
  BY ReadinessKept DEF ScanInv
<1>4. DecidedInv'
  BY ReadinessAsBefore DEF ScanInv, DecidedInv, PlaceInv, Unplanned, Started
<1>5. HeardInv'
  BY DEF ScanInv, HeardInv
<1> QED
  BY <1>1, <1>2, <1>3, <1>4, <1>5 DEF ScanInv

LEMMA ScanStepOfDoctor == ASSUME ScanInv, [DoctorNext]_forecastVars PROVE ScanInv'
<1>1. CASE Next \/ UNCHANGED forecastVars
  BY <1>1, ScanInvStep DEF forecastVars
<1>2. CASE SkipDoctor \/ DoctorStep
  <2>1. UNCHANGED scanState /\ pc \in {"consult", "tools"} /\ pc' \in {"consult", "tools", "prepare"}
    BY <1>2 DEF SkipDoctor, DoctorStep, InspectHost, InspectTool, Conclude
  <2> QED
    BY <2>1, ConsultInv
<1> QED
  BY <1>1, <1>2 DEF DoctorNext

\* A scan never goes back to the doctor.
LEMMA NeverBack ==
  ASSUME pc \notin {"consult", "tools"}, [Next]_scanVars
  PROVE  pc' \notin {"consult", "tools"}
<1>1. CASE UNCHANGED scanVars
  BY <1>1 DEF scanVars
<1>2. CASE CheckRequirement
  <2>1. pc' = pc \/ pc' = "internal_error"
    BY <1>2 DEF CheckRequirement, CheckTool, CheckProvider, Ask
  <2> QED
    BY <2>1
<1>3. CASE PlanComplete \/ PlanAllowed \/ CheckFactory \/ Decide \/ StartBuild
           \/ Construct \/ StartRun \/ Attempt \/ Crash \/ Accept \/ Interrupt
  BY <1>3 DEF PlanComplete, PlanAllowed, CheckFactory, Decide, StartBuild, Construct,
              StartRun, Attempt, Crash, Accept, Interrupt
<1> QED
  BY <1>1, <1>2, <1>3 DEF Next, Steps

-----------------------------------------------------------------------------
(* What the invariant says *)

LEMMA InvSaysVerdict == ASSUME ScanInv PROVE VerdictIsReadiness
<1>1. built # <<>> \/ pc \in {"build", "build_error", "result"} => CanStart
  BY DEF ScanInv, DecidedInv, Started
<1>2. pc = "preflight_error" => ~CanStart
  BY DEF ScanInv, DecidedInv
<1>3. ASSUME pc = "inspection" PROVE AllReady <=> CanStart
  <2>1. step = Len(plan) + 1 /\ wanted = {}
    BY <1>3 DEF ScanInv, DecidedInv
  <2> QED
    BY <1>3, <2>1, ReadyIsStartable DEF ScanInv
<1> QED
  BY <1>1, <1>2, <1>3 DEF VerdictIsReadiness

LEMMA InvSaysEvents == ASSUME ScanInv PROVE EventsTellOutcome
<1>1. Len(Through("EXECUTION_STARTED")) = 7
  BY ThroughIsUpto, UptoType
<1>2. /\ request.service = "inspect" => events = <<>>
      /\ request.service = "run" =>
           /\ pc = "result" => events = Upto(9)
           /\ pc = "preflight_error" => events = Append(Upto(3), "PREFLIGHT_FAILED")
           /\ pc = "configuration_error" => events = Upto(1)
           /\ pc = "build_error" => events \in {Upto(4), Upto(5)}
           /\ log # <<>> => Len(events) >= 7
  BY DEF ScanInv, HeardInv
<1> QED
  BY <1>1, <1>2, ThroughIsUpto DEF EventsTellOutcome

LEMMA InvSaysType == ASSUME ScanInv, pc \notin {"consult", "tools"} PROVE TypeOK
<1>1. composition \in CompositionType /\ request \in RequestType /\ composition.ids \in SUBSET Ids
  BY CompositionFields DEF ScanInv
<1>2. plan \in Seq(Ids)
  BY <1>1, SeqMonotonic DEF ScanInv, ScanType
<1> QED
  BY <1>1, <1>2 DEF ScanInv, ScanType, TypeOK, CheckType

-----------------------------------------------------------------------------
(* A scan *)

(* Every variable of a scan keeps its type: the composition and the request are   *)
(* never changed, and the plan is a sequence of known capability IDs.             *)
THEOREM ScanTypeCorrect == Spec => []TypeOK
<1> DEFINE Inv == ScanInv /\ pc \notin {"consult", "tools"}
<1>1. Init => Inv
  BY ScanInitInv DEF Init
<1>2. Inv /\ [Next]_scanVars => Inv'
  BY ScanInvStep, NeverBack
<1>3. Inv => TypeOK
  BY InvSaysType
<1> QED
  BY <1>1, <1>2, <1>3, PTL DEF Spec

(* Preflight lets a scan on exactly when the plan can start, whatever the order   *)
(* in which its steps share requirements (ScanPreflight.run).                     *)
THEOREM VerdictIsReadinessHolds ==
  (Spec => []VerdictIsReadiness) /\ (DoctorSpec => []VerdictIsReadiness)
<1>1. Init => ScanInv
  BY ScanInitInv DEF Init
<1>2. DoctorInit => ScanInv
  BY ScanInitInv DEF DoctorInit
<1>3. ScanInv /\ [Next]_scanVars => ScanInv'
  BY ScanInvStep
<1>4. ScanInv /\ [DoctorNext]_forecastVars => ScanInv'
  BY ScanStepOfDoctor
<1>5. ScanInv => VerdictIsReadiness
  BY InvSaysVerdict
<1> QED
  BY <1>1, <1>2, <1>3, <1>4, <1>5, PTL DEF Spec, DoctorSpec

(* The events of a scan tell how it ended (ScanOrchestrator._emit).               *)
THEOREM EventsTellOutcomeHolds ==
  (Spec => []EventsTellOutcome) /\ (DoctorSpec => []EventsTellOutcome)
<1>1. Init => ScanInv
  BY ScanInitInv DEF Init
<1>2. DoctorInit => ScanInv
  BY ScanInitInv DEF DoctorInit
<1>3. ScanInv /\ [Next]_scanVars => ScanInv'
  BY ScanInvStep
<1>4. ScanInv /\ [DoctorNext]_forecastVars => ScanInv'
  BY ScanStepOfDoctor
<1>5. ScanInv => EventsTellOutcome
  BY InvSaysEvents
<1> QED
  BY <1>1, <1>2, <1>3, <1>4, <1>5, PTL DEF Spec, DoctorSpec

-----------------------------------------------------------------------------
(* The doctor, and the scan it forecasts *)

DiagnosisType ==
  [kind : DoctorKinds, of : Tools \cup {0},
   status : {"READY", "WARNING", "UNAVAILABLE", "INCOMPATIBLE", "MISCONFIGURED", "ERROR"}]

\* Where the checks of one list come first in another, an alarm is kept.
LEMMA AlarmKept ==
  ASSUME diagnosis \in Seq(DiagnosisType), NEW more \in Seq(DiagnosisType),
         diagnosis' = diagnosis \o more
  PROVE  /\ diagnosis' \in Seq(DiagnosisType)
         /\ Alarm => Alarm'
         /\ \A i \in 1..Len(more) : more[i].status \notin {"READY", "WARNING"} => Alarm'
<1>1. /\ diagnosis' \in Seq(DiagnosisType) /\ Len(diagnosis') = Len(diagnosis) + Len(more)
      /\ \A i \in 1..(Len(diagnosis) + Len(more)) :
           diagnosis'[i] = IF i <= Len(diagnosis) THEN diagnosis[i] ELSE more[i - Len(diagnosis)]
      /\ Len(diagnosis) \in Nat /\ Len(more) \in Nat
  BY ConcatProperties
<1>2. ASSUME NEW i \in 1..Len(diagnosis)
      PROVE  i \in 1..Len(diagnosis') /\ diagnosis'[i] = diagnosis[i]
  BY <1>1
<1>3. ASSUME NEW i \in 1..Len(more)
      PROVE  /\ Len(diagnosis) + i \in 1..Len(diagnosis')
             /\ diagnosis'[Len(diagnosis) + i] = more[i]
  <2>1. /\ Len(diagnosis) + i \in 1..(Len(diagnosis) + Len(more))
        /\ ~(Len(diagnosis) + i <= Len(diagnosis)) /\ (Len(diagnosis) + i) - Len(diagnosis) = i
    BY <1>1
  <2> QED
    BY <1>1, <2>1
<1> QED
  BY <1>1, <1>2, <1>3 DEF Alarm

LEMMA DoctorInitInv == ASSUME DoctorInit PROVE DoctorInv
<1>1. DoctorTypeOK
  <2>1. <<>> \in Seq(DiagnosisType)
    OBVIOUS
  <2> QED
    BY <2>1 DEF DoctorInit, DoctorTypeOK, DiagnosisType
<1> QED
  BY <1>1 DEF DoctorInit, DoctorInv

LEMMA ReportTyped ==
  ASSUME NEW kind \in DoctorKinds, NEW of \in Tools \cup {0},
         NEW s \in {"READY", "WARNING", "UNAVAILABLE", "INCOMPATIBLE", "MISCONFIGURED", "ERROR"}
  PROVE  DoctorCheck(kind, of, s) \in DiagnosisType /\ DoctorCheck(kind, of, s).status = s
  BY DEF DoctorCheck, DiagnosisType

LEMMA InspectHostInv == ASSUME ScanInv, DoctorInv, InspectHost PROVE DoctorInv'
<1> DEFINE a == DoctorCheck("platform", 0, PlatformStatus(host.support))
           b == DoctorCheck("python", 0, IF host.python THEN "READY" ELSE "INCOMPATIBLE")
           c == DoctorCheck("capability_registry", 0, RegistryStatus)
           d == DoctorCheck("factory_registry", 0, FactoryStatus)
<1>1. /\ pc = "consult" /\ pc' = "tools" /\ Tools \cap composition.probed # {}
      /\ diagnosis' = <<a, b, c, d>>
      /\ toolsLeft' = Tools \cap composition.present
      /\ host' = host /\ forecast' = forecast /\ composition' = composition
  BY DEF InspectHost, scanState
<1>2. forecast = "NONE" /\ host \in Hosts
  BY <1>1 DEF DoctorInv, DoctorTypeOK
<1>3. /\ a \in DiagnosisType /\ b \in DiagnosisType /\ c \in DiagnosisType /\ d \in DiagnosisType
      /\ d.status = FactoryStatus /\ FactoryStatus \in {"READY", "MISCONFIGURED", "ERROR"}
  <2>1. {"platform", "python", "capability_registry", "factory_registry"} \subseteq DoctorKinds
    BY DEF DoctorKinds
  <2>2. /\ PlatformStatus(host.support) \in {"READY", "INCOMPATIBLE", "WARNING"}
        /\ RegistryStatus \in {"READY", "MISCONFIGURED"}
        /\ FactoryStatus \in {"READY", "MISCONFIGURED", "ERROR"}
    BY DEF PlatformStatus, RegistryStatus, FactoryStatus
  <2>3. a \in DiagnosisType
    BY <2>1, <2>2, ReportTyped
  <2>4. b \in DiagnosisType
    BY <2>1, <2>2, ReportTyped
  <2>5. c \in DiagnosisType
    BY <2>1, <2>2, ReportTyped
  <2>6. d \in DiagnosisType /\ d.status = FactoryStatus
    BY <2>1, <2>2, ReportTyped
  <2> QED
    BY <2>2, <2>3, <2>4, <2>5, <2>6
<1> HIDE DEF a, b, c, d
<1>4. diagnosis' \in Seq(DiagnosisType) /\ Len(diagnosis') = 4 /\ diagnosis'[4] = d
  BY <1>1, <1>3
<1>5. DoctorTypeOK'
  BY <1>1, <1>2, <1>4 DEF DoctorTypeOK, DiagnosisType
<1>6. (FactoryStatus = "READY" \/ Alarm)'
  <2>1. FactoryStatus' = FactoryStatus
    BY <1>1 DEF FactoryStatus
  <2>2. FactoryStatus # "READY" => Alarm'
    BY <1>3, <1>4 DEF Alarm
  <2> QED
    BY <2>1, <2>2
<1> QED
  BY <1>1, <1>2, <1>5, <1>6 DEF DoctorInv

LEMMA InspectToolInv == ASSUME ScanInv, DoctorInv, InspectTool PROVE DoctorInv'
<1> DEFINE t == Least(toolsLeft)
           S(answer) == IF AvailabilityStatus(t) = "READY" THEN VersionStatus(answer)
                        ELSE AvailabilityStatus(t)
<1>1. /\ pc = "tools" /\ toolsLeft # {} /\ pc' = pc
      /\ toolsLeft' = toolsLeft \ {t}
      /\ UNCHANGED <<composition, host, forecast>>
  BY DEF InspectTool, scanState
<1>2. PICK answer \in VersionAnswers :
        diagnosis' = Append(diagnosis, DoctorCheck("tool_executable", t, S(answer)))
  BY DEF InspectTool
<1>3. /\ toolsLeft \subseteq Tools \cap composition.present /\ forecast = "NONE"
      /\ diagnosis \in Seq(DiagnosisType) /\ host \in Hosts
  BY <1>1 DEF DoctorInv, DoctorTypeOK, DiagnosisType
<1>4. t \in toolsLeft /\ t \in Tools /\ t \in composition.present
  <2>1. toolsLeft \in SUBSET Nat
    BY <1>3, ScanAssumption DEF Requirements
  <2> QED
    BY <1>1, <1>3, <2>1, LeastOf
<1>5. composition.probe[t] \in ProbeOutcomes
  BY <1>4, CompositionFields DEF ScanInv, CompositionType, Requirements
<1>6. /\ AvailabilityStatus(t) \in {"READY", "UNAVAILABLE", "ERROR"}
      /\ AvailabilityStatus(t) = "READY" => composition.probe[t] = "READY"
      /\ VersionStatus(answer) \in {"READY", "WARNING", "INCOMPATIBLE", "ERROR"}
  BY <1>5 DEF AvailabilityStatus, VersionStatus, ProbeOutcomes, VersionAnswers
<1>7. /\ S(answer) \in {"READY", "WARNING", "UNAVAILABLE", "INCOMPATIBLE", "MISCONFIGURED", "ERROR"}
      /\ composition.probe[t] # "READY" => S(answer) \notin {"READY", "WARNING"}
  BY <1>6
<1> DEFINE x == DoctorCheck("tool_executable", t, S(answer))
<1>8. x \in DiagnosisType /\ x.status = S(answer)
  BY <1>4, <1>7, ReportTyped DEF DoctorKinds
<1> HIDE DEF x, S, t
<1> DEFINE more == <<x>>
<1>9. diagnosis' = diagnosis \o more /\ more \in Seq(DiagnosisType)
      /\ Len(more) = 1 /\ more[1] = x
  <2>1. diagnosis' = Append(diagnosis, x)
    BY <1>2 DEF x
  <2> QED
    BY <1>3, <1>8, <2>1, ConcatOfOne
<1> HIDE DEF more
<1>10. /\ diagnosis' \in Seq(DiagnosisType) /\ (Alarm => Alarm')
       /\ composition.probe[t] # "READY" => Alarm'
  <2>1. /\ diagnosis' \in Seq(DiagnosisType) /\ (Alarm => Alarm')
        /\ \A i \in 1..Len(more) : more[i].status \notin {"READY", "WARNING"} => Alarm'
    BY <1>3, <1>9, AlarmKept
  <2>2. 1 \in 1..Len(more)
    BY <1>9
  <2> QED
    BY <1>7, <1>8, <1>9, <2>1, <2>2
<1>11. DoctorTypeOK'
  BY <1>1, <1>3, <1>10 DEF DoctorTypeOK, DiagnosisType
<1>12. FactoryStatus' = FactoryStatus
  BY <1>1 DEF FactoryStatus
<1>13. \A u \in (Tools \cap composition.present) \ toolsLeft :
         composition.probe[u] = "READY" \/ Alarm
  BY <1>1 DEF DoctorInv
<1>14. \A u \in (Tools \cap composition.present) \ toolsLeft' :
         composition.probe[u] = "READY" \/ Alarm'
  BY <1>1, <1>10, <1>13
<1> QED
  BY <1>1, <1>3, <1>10, <1>11, <1>12, <1>14 DEF DoctorInv

LEMMA ConcludeInv == ASSUME ScanInv, DoctorInv, Conclude PROVE DoctorInv'
<1> DEFINE a == DoctorCheck("configuration", 0, IF host.valid THEN "READY" ELSE "MISCONFIGURED")
           b == DoctorCheck("readiness_metadata", 0, MetadataStatus)
           c == DoctorCheck("composition", 0, CompositionStatus)
           d == DoctorCheck("provider", 0, "MISCONFIGURED")
           first == <<a, b, c>>
           last  == IF UnconfiguredProviders = {} THEN <<>> ELSE <<d>>
<1>1. /\ pc = "tools" /\ pc' = "prepare" /\ toolsLeft = {}
      /\ diagnosis' = diagnosis \o first \o last
      /\ forecast' = IF \A i \in 1..Len(diagnosis') : diagnosis'[i].status \in {"READY", "WARNING"}
                     THEN "READY" ELSE "NOT_READY"
      /\ UNCHANGED <<composition, host, toolsLeft>>
  BY DEF Conclude, scanState
<1>2. /\ a \in DiagnosisType /\ b \in DiagnosisType /\ c \in DiagnosisType /\ d \in DiagnosisType
      /\ b.status = MetadataStatus /\ d.status = "MISCONFIGURED"
  <2>1. {"configuration", "readiness_metadata", "composition", "provider"} \subseteq DoctorKinds
    BY DEF DoctorKinds
  <2>2. /\ MetadataStatus \in {"READY", "MISCONFIGURED"}
        /\ CompositionStatus \in {"READY", "MISCONFIGURED"}
    BY DEF MetadataStatus, CompositionStatus
  <2>3. a \in DiagnosisType
    BY <2>1, <2>2, ReportTyped
  <2>4. b \in DiagnosisType /\ b.status = MetadataStatus
    BY <2>1, <2>2, ReportTyped
  <2>5. c \in DiagnosisType
    BY <2>1, <2>2, ReportTyped
  <2>6. d \in DiagnosisType /\ d.status = "MISCONFIGURED"
    BY <2>1, <2>2, ReportTyped
  <2> QED
    BY <2>3, <2>4, <2>5, <2>6
<1> HIDE DEF a, b, c, d
<1>3. /\ first \in Seq(DiagnosisType) /\ Len(first) = 3 /\ first[2] = b
      /\ last \in Seq(DiagnosisType)
      /\ UnconfiguredProviders # {} => Len(last) = 1 /\ last[1] = d
  <2>1. <<>> \in Seq(DiagnosisType) /\ <<d>> \in Seq(DiagnosisType)
    BY <1>2
  <2> QED
    BY <1>2, <2>1
<1>4. /\ diagnosis \in Seq(DiagnosisType) /\ host \in Hosts /\ toolsLeft \subseteq Tools
      /\ FactoryStatus = "READY" \/ Alarm
      /\ Tools \cap composition.probed # {}
      /\ \A t \in Tools \cap composition.present : composition.probe[t] = "READY" \/ Alarm
  BY <1>1 DEF DoctorInv, DoctorTypeOK, DiagnosisType
<1> HIDE DEF first, last
<1> DEFINE more == first \o last
<1>5. /\ more \in Seq(DiagnosisType) /\ Len(more) = 3 + Len(last) /\ Len(last) \in Nat
      /\ more[2] = b
      /\ UnconfiguredProviders # {} => more[4] = d
  <2>1. /\ more \in Seq(DiagnosisType) /\ Len(more) = Len(first) + Len(last) /\ Len(last) \in Nat
        /\ \A i \in 1..(Len(first) + Len(last)) :
             more[i] = IF i <= Len(first) THEN first[i] ELSE last[i - Len(first)]
    <3>1. \A s, t \in Seq(DiagnosisType) :
            /\ s \o t \in Seq(DiagnosisType) /\ Len(s \o t) = Len(s) + Len(t) /\ Len(t) \in Nat
            /\ \A i \in 1..(Len(s) + Len(t)) :
                 (s \o t)[i] = IF i <= Len(s) THEN s[i] ELSE t[i - Len(s)]
      BY ConcatProperties
    <3> QED
      BY <1>3, <3>1, Zenon
  <2> HIDE DEF more
  <2>2. Len(more) = 3 + Len(last) /\ more[2] = b
    BY <1>3, <2>1
  <2>3. ASSUME UnconfiguredProviders # {} PROVE more[4] = d
    <3>1. 4 \in 1..(Len(first) + Len(last)) /\ ~(4 <= Len(first)) /\ 4 - Len(first) = 1
      BY <1>3, <2>3
    <3> QED
      BY <1>3, <2>1, <2>3, <3>1
  <2> QED
    BY <2>1, <2>2, <2>3
<1>6. diagnosis' = diagnosis \o more
  <2>1. \A r, s, t \in Seq(DiagnosisType) : (r \o s) \o t = r \o (s \o t)
    BY ConcatAssociative
  <2>2. (diagnosis \o first) \o last = diagnosis \o (first \o last)
    BY <1>3, <1>4, <2>1, Zenon
  <2> QED
    BY <1>1, <2>2
<1> HIDE DEF more
<1>7. /\ diagnosis' \in Seq(DiagnosisType) /\ (Alarm => Alarm')
      /\ \A i \in 1..Len(more) : more[i].status \notin {"READY", "WARNING"} => Alarm'
  BY <1>4, <1>5, <1>6, AlarmKept
<1>8. MetadataStatus # "READY" => Alarm'
  <2>1. 2 \in 1..Len(more)
    BY <1>5
  <2>2. MetadataStatus \in {"READY", "MISCONFIGURED"}
    BY DEF MetadataStatus
  <2> QED
    BY <1>2, <1>5, <1>7, <2>1, <2>2
<1>9. UnconfiguredProviders # {} => Alarm'
  <2>1. UnconfiguredProviders # {} => 4 \in 1..Len(more)
    BY <1>3, <1>5
  <2> QED
    BY <1>2, <1>5, <1>7, <2>1
<1>10. forecast' \in {"READY", "NOT_READY"} /\ (forecast' = "READY" => ~Alarm')
  BY <1>1 DEF Alarm
<1>11. DoctorTypeOK'
  BY <1>1, <1>4, <1>7, <1>10 DEF DoctorTypeOK, DiagnosisType
<1>12. ASSUME ~Alarm' PROVE Promise
  <2>1. FactoryStatus = "READY" /\ UndefinedTools = {} /\ UnconfiguredProviders = {}
        /\ \A t \in Tools \cap composition.present : composition.probe[t] = "READY"
    BY <1>4, <1>7, <1>8, <1>9, <1>12 DEF MetadataStatus
  <2>2. composition.have = composition.ids
    BY <2>1 DEF FactoryStatus
  <2>3. Declared \cap Requirements \subseteq composition.present
    BY <2>1 DEF UndefinedTools, UnconfiguredProviders, Requirements
  <2> QED
    BY <1>4, <2>1, <2>2, <2>3 DEF Promise
<1>13. Promise' <=> Promise
  BY <1>1 DEF Promise, Declared
<1> QED
  BY <1>1, <1>10, <1>11, <1>12, <1>13 DEF DoctorInv

LEMMA DoctorInvStep == ASSUME ScanInv, DoctorInv, [DoctorNext]_forecastVars PROVE DoctorInv'
<1>1. CASE InspectHost
  BY <1>1, InspectHostInv
<1>2. CASE InspectTool
  BY <1>2, InspectToolInv
<1>3. CASE Conclude
  BY <1>3, ConcludeInv
<1>4. CASE SkipDoctor
  <2>1. pc' = "prepare" /\ composition' = composition /\ UNCHANGED doctorVars
    BY <1>4 DEF SkipDoctor, scanState
  <2>2. Promise' <=> Promise
    BY <2>1 DEF Promise, Declared
  <2> QED
    BY <2>1, <2>2 DEF DoctorInv, DoctorTypeOK, doctorVars
<1>5. CASE UNCHANGED forecastVars
  <2>1. composition' = composition /\ pc' = pc /\ UNCHANGED <<host, toolsLeft, diagnosis, forecast>>
    BY <1>5 DEF forecastVars, scanVars, doctorVars
  <2>2. (Promise' <=> Promise) /\ (Alarm' <=> Alarm) /\ FactoryStatus' = FactoryStatus
    BY <2>1 DEF Promise, Declared, Alarm, FactoryStatus
  <2> QED
    BY <2>1, <2>2 DEF DoctorInv, DoctorTypeOK
<1>6. CASE Next /\ UNCHANGED doctorVars
  <2>1. pc \notin {"consult", "tools"} \/ pc' = "interrupted"
    BY <1>6 DEF Next, Steps, PlanComplete, PlanAllowed, CheckFactory, CheckRequirement, Decide,
                StartBuild, Construct, StartRun, Attempt, Crash, Accept, Interrupt
  <2>2. pc' \notin {"consult", "tools"}
    BY <1>6, <2>1, NeverBack
  <2>3. composition' = composition
    BY <1>6 DEF Next, Steps, PlanComplete, PlanAllowed, CheckFactory, CheckRequirement, Decide,
                StartBuild, Construct, StartRun, Attempt, Crash, Accept, Interrupt
  <2>4. Promise' <=> Promise
    BY <2>3 DEF Promise, Declared
  <2> QED
    BY <1>6, <2>2, <2>4 DEF DoctorInv, DoctorTypeOK, doctorVars
<1> QED
  BY <1>1, <1>2, <1>3, <1>4, <1>5, <1>6 DEF DoctorNext, DoctorStep

\* Adding a check that is ready or unforeseen.
Foreseen(list) == \A i \in 1..Len(list) : list[i].ready \/ Unforeseen(list[i])

LEMMA ForeseenAppend ==
  ASSUME NEW list \in Seq(CheckType), Foreseen(list), NEW c \in CheckType,
         c.ready \/ Unforeseen(c)
  PROVE  Append(list, c) \in Seq(CheckType) /\ Foreseen(Append(list, c))
<1>1. /\ Append(list, c) \in Seq(CheckType) /\ Len(Append(list, c)) = Len(list) + 1
      /\ Append(list, c)[Len(list) + 1] = c
      /\ \A i \in 1..Len(list) : Append(list, c)[i] = list[i]
      /\ Len(list) \in Nat
  BY AppendProperties
<1>2. \A i \in 1..(Len(list) + 1) : i \in 1..Len(list) \/ i = Len(list) + 1
  BY <1>1
<1> QED
  BY <1>1, <1>2 DEF Foreseen

\* What preflight says of a requirement that a registered factory declares,
\* when the doctor was ready.
LEMMA LookedForeseen ==
  ASSUME ScanInv, Promise, Foreseen(checks), NEW r \in Requirements, r \in Declared,
         (r \in Tools /\ CheckTool(r)) \/ (r \notin Tools /\ CheckProvider(r))
  PROVE  \/ /\ pc' = "internal_error" /\ checks' = checks
            /\ r \in Providers /\ composition.probe[r] = "RAISES"
         \/ pc' = pc /\ Foreseen(checks')
<1>1. r \in composition.present /\ checks \in Seq(CheckType)
  BY DEF Promise, ScanInv, ScanType
<1>2. ASSUME NEW kind \in Kinds
      PROVE  /\ Check(kind, r, TRUE) \in CheckType /\ Check(kind, r, TRUE).ready
             /\ Check(kind, r, FALSE) \in CheckType
             /\ \A b : Check(kind, r, b).kind = kind
  BY CheckTyped DEF Check
<1>3. CASE r \in Tools /\ CheckTool(r)
  <2>1. r \in composition.probed /\ composition.probe[r] = "READY"
    <3>1. Tools \cap composition.probed \in {{}, Tools}
      BY ScanAssumption DEF ScanInv, ScanType
    <3> QED
      BY <1>1, <1>3, <3>1 DEF Promise
  <2> DEFINE d == Check("definition", r, TRUE)
             e == Check("executable", r, TRUE)
  <2>2. pc' = pc /\ checks' = Append(Append(checks, d), e)
    BY <1>1, <1>3, <2>1 DEF CheckTool, Ask
  <2>3. d \in CheckType /\ d.ready /\ e \in CheckType /\ e.ready
    BY <1>2 DEF Kinds
  <2> HIDE DEF d, e
  <2>4. Append(checks, d) \in Seq(CheckType) /\ Foreseen(Append(checks, d))
    BY <1>1, <2>3, ForeseenAppend
  <2>5. Foreseen(Append(Append(checks, d), e))
    BY <2>3, <2>4, ForeseenAppend
  <2> QED
    BY <2>2, <2>5
<1>4. CASE r \notin Tools /\ CheckProvider(r)
  <2>1. r \in Providers
    BY <1>4 DEF Requirements
  <2>2. CASE r \notin composition.probed
    <3> DEFINE d == Check("configuration", r, TRUE)
    <3>1. pc' = pc /\ checks' = Append(checks, d)
      BY <1>1, <1>4, <2>2 DEF CheckProvider
    <3>2. d \in CheckType /\ d.ready
      BY <1>2 DEF Kinds
    <3> HIDE DEF d
    <3>3. Foreseen(Append(checks, d))
      BY <1>1, <3>2, ForeseenAppend
    <3> QED
      BY <3>1, <3>3
  <2>3. CASE r \in composition.probed
    <3>1. Ask(r, "provider", checks)
      BY <1>1, <1>4, <2>3 DEF CheckProvider
    <3>2. CASE composition.probe[r] = "RAISES"
      BY <2>1, <3>1, <3>2 DEF Ask
    <3>3. CASE composition.probe[r] # "RAISES"
      <4> DEFINE d == Check("provider", r, composition.probe[r] = "READY")
      <4>1. pc' = pc /\ checks' = Append(checks, d)
        BY <3>1, <3>3 DEF Ask
      <4>2. d \in CheckType /\ Unforeseen(d)
        <5>1. (composition.probe[r] = "READY") \in BOOLEAN /\ "provider" \in Kinds
          BY DEF Kinds
        <5> QED
          BY <5>1, CheckTyped DEF Unforeseen, Check
      <4> HIDE DEF d
      <4>3. Foreseen(Append(checks, d))
        BY <1>1, <4>2, ForeseenAppend
      <4> QED
        BY <4>1, <4>3
    <3> QED
      BY <3>2, <3>3
  <2> QED
    BY <2>2, <2>3
<1> QED
  BY <1>3, <1>4

LEMMA ForecastStep ==
  ASSUME ScanInv, DoctorInv, ForecastHolds, Next, UNCHANGED doctorVars
  PROVE  ForecastHolds'
<1> SUFFICES ASSUME forecast' = "READY"
             PROVE  /\ (\A i \in 1..Len(checks) : checks[i].ready \/ Unforeseen(checks[i]))'
                    /\ pc' = "internal_error" /\ built' = <<>> =>
                         \E r \in Providers : composition'.probe[r] = "RAISES"
                    /\ pc' = "build_error" =>
                         \E i \in 1..Len(plan') : plan'[i] \in composition'.broken
  BY DEF ForecastHolds
<1>1. forecast = "READY" /\ Promise
  BY DEF DoctorInv, doctorVars
<1>2. /\ Foreseen(checks)
      /\ pc = "internal_error" /\ built = <<>> => \E r \in Providers : composition.probe[r] = "RAISES"
      /\ pc = "build_error" => \E i \in 1..Len(plan) : plan[i] \in composition.broken
  BY <1>1 DEF ForecastHolds, Foreseen
<1>3. composition' = composition
  BY DEF Next, Steps, PlanComplete, PlanAllowed, CheckFactory, CheckRequirement, Decide,
         StartBuild, Construct, StartRun, Attempt, Crash, Accept, Interrupt
<1>4. (\A i \in 1..Len(checks) : checks[i].ready \/ Unforeseen(checks[i]))' <=> Foreseen(checks')
  BY <1>3 DEF Foreseen, Unforeseen
<1>5. CASE checks' = checks /\ pc' \notin {"internal_error", "build_error"}
  BY <1>2, <1>4, <1>5
<1>6. CASE CheckFactory
  <2> DEFINE c == plan[step]
             d == Check("factory", c, Bound(c))
  <2>1. /\ pc' = "check" /\ step <= Len(plan) /\ checks' = Append(checks, d)
    BY <1>6 DEF CheckFactory, Bound
  <2>2. c \in composition.ids /\ c \in Ids
    <3>1. Len(plan) \in Nat /\ step \in 1..Len(plan)
      BY <2>1, PlanFacts DEF ScanInv, ScanType
    <3> QED
      BY <3>1, PlanFacts DEF ScanInv
  <2>3. d \in CheckType
    <3>1. Bound(c) \in BOOLEAN /\ "factory" \in Kinds
      BY DEF Bound, Kinds
    <3> QED
      BY <2>2, <3>1, CheckTyped
  <2>4. d.ready \/ Unforeseen(d)
    BY <1>1, <2>2 DEF Promise, Unforeseen, Check, Bound
  <2>5. checks \in Seq(CheckType)
    BY DEF ScanInv, ScanType
  <2> HIDE DEF c, d
  <2>6. Foreseen(checks')
    BY <1>2, <2>1, <2>3, <2>4, <2>5, ForeseenAppend
  <2> QED
    BY <1>4, <2>1, <2>6
<1>7. CASE CheckRequirement
  <2> DEFINE r == Least(wanted)
  <2>1. /\ pc = "check" /\ wanted # {} /\ built' = built
        /\ \/ UNCHANGED <<pc, checks>>
           \/ r \in Tools /\ CheckTool(r)
           \/ r \notin Tools /\ CheckProvider(r)
    BY <1>7 DEF CheckRequirement
  <2>2. r \in wanted /\ r \in Requirements
    <3>1. wanted \in SUBSET Nat /\ wanted \subseteq Requirements
      BY ScanAssumption DEF ScanInv, ScanType
    <3> QED
      BY <2>1, <3>1, LeastOf
  <2>3. r \in Declared
    <3>1. PICK i \in 1..(step - 1) : Bound(plan[i]) /\ r \in composition.needs[plan[i]]
      BY <2>2 DEF ScanInv, ReadinessInv
    <3> QED
      BY <3>1 DEF Declared, Bound
  <2> HIDE DEF r
  <2>4. CASE UNCHANGED <<pc, checks>>
    BY <1>5, <2>1, <2>4
  <2>5. CASE (r \in Tools /\ CheckTool(r)) \/ (r \notin Tools /\ CheckProvider(r))
    <3>1. \/ /\ pc' = "internal_error" /\ checks' = checks
             /\ r \in Providers /\ composition.probe[r] = "RAISES"
          \/ pc' = pc /\ Foreseen(checks')
      BY <1>1, <1>2, <2>2, <2>3, <2>5, LookedForeseen
    <3> QED
      BY <1>2, <1>3, <1>4, <2>1, <3>1
  <2> QED
    BY <2>1, <2>4, <2>5
<1>8. CASE StartBuild
  <2>1. /\ pc = "build" /\ checks' = checks /\ plan' = plan
        /\ pc' = "construct" \/ pc' = "build_error"
        /\ composition.have = composition.ids
    BY <1>1, <1>8 DEF StartBuild, Promise
  <2>2. \A i \in 1..Len(plan) : plan[i] \in composition.have
    BY <2>1, PlanFacts DEF ScanInv
  <2>3. pc' = "construct"
    BY <1>8, <2>1, <2>2 DEF StartBuild
  <2> QED
    BY <1>5, <2>1, <2>3
<1>9. CASE Construct
  <2> DEFINE n == Len(built) + 1
  <2>1. /\ pc = "construct" /\ Len(built) < Len(plan) /\ checks' = checks /\ plan' = plan
        /\ \/ pc' = "build_error" /\ plan[n] \in composition.broken
           \/ pc' = pc
    BY <1>9 DEF Construct
  <2>2. n \in 1..Len(plan)
    <3>1. Len(built) \in Nat /\ Len(plan) \in Nat
      BY PlanFacts DEF ScanInv, ScanType
    <3> QED
      BY <2>1, <3>1
  <2> HIDE DEF n
  <2> QED
    BY <1>2, <1>3, <1>4, <2>1, <2>2
<1>10. CASE StartRun
  <2>1. /\ pc = "construct" /\ Len(built) = Len(plan) /\ checks' = checks /\ built' = built
        /\ pc' \in {"execute", "internal_error"}
    BY <1>10 DEF StartRun
  <2>2. built # <<>>
    <3>1. built \in Seq(Ids) /\ plan # <<>>
      BY <2>1 DEF ScanInv, ScanType, PlaceInv, Unplanned
    <3>2. Len(plan) # 0
      BY <3>1, PlanFacts DEF ScanInv
    <3> QED
      BY <2>1, <3>1, <3>2, EmptySeq
  <2> QED
    BY <1>2, <1>4, <2>1, <2>2
<1>11. CASE Crash
  <2>1. pc = "execute" /\ pc' = "internal_error" /\ checks' = checks /\ built' = built
    BY <1>11 DEF Crash
  <2>2. built # <<>>
    BY <2>1 DEF ScanInv, PlaceInv
  <2> QED
    BY <1>2, <1>4, <2>1, <2>2
<1>12. CASE PlanComplete \/ PlanAllowed \/ Decide \/ Attempt \/ Accept \/ Interrupt
  <2>1. checks' = checks /\ pc' \notin {"internal_error", "build_error"}
    BY <1>12 DEF PlanComplete, PlanAllowed, Decide, Attempt, Accept, Interrupt
  <2> QED
    BY <1>5, <2>1
<1> QED
  BY <1>6, <1>7, <1>8, <1>9, <1>10, <1>11, <1>12 DEF Next, Steps

(* A doctor that was ready is right about every later scan of the composition,    *)
(* for every registry, environment, host and request: preflight finds only what   *)
(* the doctor does not look at, an exception before construction comes from a     *)
(* provider's probe, and the build fails only inside a planned factory.           *)
THEOREM ForecastHoldsAlways == DoctorSpec => []ForecastHolds
<1> DEFINE Inv == ScanInv /\ DoctorInv /\ ForecastHolds
<1>1. DoctorInit => Inv
  BY ScanInitInv, DoctorInitInv DEF DoctorInit, ForecastHolds
<1>2. Inv /\ [DoctorNext]_forecastVars => Inv'
  <2> SUFFICES ASSUME Inv, [DoctorNext]_forecastVars PROVE Inv'
    OBVIOUS
  <2>1. ScanInv' /\ DoctorInv'
    BY ScanStepOfDoctor, DoctorInvStep
  <2>2. CASE Next /\ UNCHANGED doctorVars
    BY <2>1, <2>2, ForecastStep
  <2>3. CASE UNCHANGED forecastVars
    BY <2>1, <2>3 DEF ForecastHolds, Unforeseen, forecastVars, scanVars, doctorVars
  <2>4. CASE SkipDoctor \/ DoctorStep
    <3>1. pc' \in {"tools", "prepare"} /\ UNCHANGED checks /\ checks = <<>>
      <4>1. pc \in {"consult", "tools"} /\ pc' \in {"tools", "prepare"} /\ UNCHANGED checks
        BY <2>4 DEF SkipDoctor, DoctorStep, InspectHost, InspectTool, Conclude, scanState
      <4> QED
        BY <4>1 DEF ScanInv, PlaceInv, Unplanned
    <3> QED
      BY <2>1, <3>1 DEF ForecastHolds
  <2> QED
    BY <2>2, <2>3, <2>4 DEF DoctorNext
<1> QED
  BY <1>1, <1>2, PTL DEF DoctorSpec

-----------------------------------------------------------------------------
(* The command line: the inductive invariant *)

MainEnd   == {"handle", "handled", "returned", "escaped"}
ScanPlace == Phases \cup {"configuration_error", "preflight_error", "build_error",
                          "internal_error", "result", "inspection"}
Building  == {"build", "construct", "execute", "accept", "result", "build_error",
              "preflight_error"}

DocumentType ==
  [json : BOOLEAN, code : ExitCodes,
   outcome : {"help", "doctor", "dry_run", "completed"} \cup Exceptions]

\* The operator allowed partial results, as resolve_configuration sees it.
Allows == options.partial \/ configuration.partial

\* What main knows of its inputs.
InputInv ==
  /\ options \in CommandLineType /\ configuration \in FileType
  /\ ~options.file => configuration = Default

\* Where main is.
MainInv ==
  /\ pc \in MainPhases \cup ScanPlace
  /\ options.kind # "scan" => pc \notin {"load", "resolve", "compose"} \cup ScanPlace
  /\ options.kind \in {"malformed", "incomplete"} => pc \in {"parse"} \cup MainEnd /\ mode = None
  /\ pc = "help" => options.kind = "help"
  /\ pc \in {"doctor", "diagnosis"} => options.kind = "doctor"
  /\ raised \in Exceptions \cup {None}
  /\ raised # None => pc \in MainEnd
  /\ pc \in {"handle", "handled"} => raised # None
  /\ raised = "usage" => options.kind \in {"malformed", "incomplete"}

\* The service that main calls, and what it may do.
ServiceInv ==
  /\ pc \in {"compose"} \cup ScanPlace =>
       /\ request.service = IF options.dry THEN "inspect" ELSE "run"
       /\ request.partial = Allows
  /\ options.kind # "scan" \/ options.dry =>
       built = <<>> /\ log = <<>> /\ events = <<>> /\ pc \notin Building
  /\ pc = "inspection" => options.dry

\* The log of the run that has ended, its status and the verdict on it.
Judged ==
  /\ log # <<>> /\ Runtime!IsWorst(status, log)
  /\ status \in {"SUCCESS", "PARTIAL"} => Len(log) = Len(plan)

Verdict ==
  options.kind = "scan" /\ ~options.dry =>
    /\ code = 0 => Complete
    /\ code = 4 => log # <<>> /\ ~Complete
    /\ code \in {2, 3} => log = <<>>

RunInv ==
  /\ log \in Seq(Statuses)
  /\ pc \notin {"execute", "accept", "result", "return", "internal_error"} \cup MainEnd =>
       log = <<>>
  /\ raised \in {"usage", "configuration", "scan_configuration", "preflight", "build"} =>
       log = <<>>
  /\ pc \in {"accept", "result"} => Judged
  /\ pc = "result" =>
       accepted = (status = "SUCCESS" \/ (status = "PARTIAL" /\ request.partial))
  /\ pc \in {"return", "handled", "returned"} => Verdict

\* How the output mode becomes known.
ModeInv ==
  /\ mode \in Formats \cup {None}
  /\ preset # None =>
       /\ options.kind = "scan"
       /\ mode = Or(options.output, IF options.file THEN configuration.output ELSE "human")
  /\ preset = None => mode \in {None, Or(options.output, "human")}
  /\ mode = None /\ (options.kind = "doctor" \/ (options.kind = "scan" /\ options.output = "json")) =>
       pc = "parse" \/ raised = "interrupt"
  /\ options.kind = "help" => mode = None
  /\ pc \in {"resolve", "compose"} \cup ScanPlace => preset # None
  /\ pc \in {"parse", "load"} => preset = None

\* What has been written.
Stated ==
  /\ stdout # <<>>
  /\ stdout[Len(stdout)].code = code

\* How many documents there are; a second one only after an interrupt.
Count ==
  /\ pc \notin MainEnd \cup {"return"} => stdout = <<>>
  /\ pc = "return" => Len(stdout) = 1
  /\ pc = "handle" => stdout = <<>> \/ (Len(stdout) = 1 /\ raised = "interrupt")
  /\ pc = "handled" /\ JsonSelected =>
       Len(stdout) = 1 \/ (Len(stdout) = 2 /\ raised = "interrupt")

WrittenInv ==
  /\ Count
  /\ stdout \in Seq(DocumentType) /\ stderr \in Seq(ExitCodes) /\ code \in ExitCodes
  /\ pc \notin {"handled", "returned", "escaped"} => stderr = <<>>
  /\ pc = "return" => Stated /\ (stdout[Len(stdout)].json <=> mode = "json")
  /\ pc = "handled" => code = ExitCode[raised]
  /\ pc = "handled" /\ JsonSelected => stderr = <<>> /\ Stated /\ stdout[Len(stdout)].json
  /\ pc = "returned" => JsonOutcomeStated

CliInv == InputInv /\ MainInv /\ ServiceInv /\ RunInv /\ ModeInv /\ WrittenInv

USE DEF scanState

-----------------------------------------------------------------------------
(* The steps of the scan *)

\* Where a step of the scan leads, and what it leaves alone.
LEMMA ScanMoves ==
  ASSUME Steps
  PROVE  /\ pc \in Phases /\ pc' \in ScanPlace
         /\ request' = request /\ composition' = composition
<1> USE DEF Phases, ScanPlace
<1>1. CASE CheckRequirement
  <2>1. pc = "check" /\ (pc' = pc \/ pc' = "internal_error")
    BY <1>1 DEF CheckRequirement, CheckTool, CheckProvider, Ask
  <2>2. request' = request /\ composition' = composition
    BY <1>1 DEF CheckRequirement
  <2> QED
    BY <2>1, <2>2
<1>2. CASE PlanComplete \/ PlanAllowed \/ CheckFactory \/ Decide \/ StartBuild
           \/ Construct \/ StartRun \/ Attempt \/ Crash \/ Accept
  BY <1>2 DEF PlanComplete, PlanAllowed, CheckFactory, Decide, StartBuild, Construct,
              StartRun, Attempt, Crash, Accept
<1> QED
  BY <1>1, <1>2 DEF Steps

\* An inspection constructs, runs and announces nothing.
LEMMA InspectionIsQuiet ==
  ASSUME Steps, request.service = "inspect", built = <<>>, log = <<>>, events = <<>>,
         pc \notin Building
  PROVE  built' = <<>> /\ log' = <<>> /\ events' = <<>> /\ pc' \notin Building
<1> USE DEF Building
<1>1. CASE CheckRequirement
  <2>1. pc = "check" /\ (pc' = pc \/ pc' = "internal_error")
    BY <1>1 DEF CheckRequirement, CheckTool, CheckProvider, Ask
  <2>2. built' = built /\ log' = log /\ events' = events
    BY <1>1 DEF CheckRequirement
  <2> QED
    BY <2>1, <2>2
<1>2. CASE PlanComplete \/ PlanAllowed \/ CheckFactory \/ Decide
  BY <1>2 DEF PlanComplete, PlanAllowed, CheckFactory, Decide, Emit
<1>3. CASE StartBuild \/ Construct \/ StartRun \/ Attempt \/ Crash \/ Accept
  BY <1>3 DEF StartBuild, Construct, StartRun, Attempt, Crash, Accept
<1> QED
  BY <1>1, <1>2, <1>3 DEF Steps

\* Only an inspection ends as one.
LEMMA OnlyInspects ==
  ASSUME Steps, pc' = "inspection"
  PROVE  request.service = "inspect"
<1>1. CASE CheckRequirement
  <2>1. pc = "check" /\ (pc' = pc \/ pc' = "internal_error")
    BY <1>1 DEF CheckRequirement, CheckTool, CheckProvider, Ask
  <2> QED
    BY <2>1
<1>2. CASE PlanComplete \/ PlanAllowed \/ CheckFactory \/ Decide \/ StartBuild
           \/ Construct \/ StartRun \/ Attempt \/ Crash \/ Accept
  BY <1>2 DEF PlanComplete, PlanAllowed, CheckFactory, Decide, StartBuild, Construct,
              StartRun, Attempt, Crash, Accept
<1> QED
  BY <1>1, <1>2 DEF Steps

\* A run that ends has the worst status of its log, and is as long as the plan
\* unless it failed.
LEMMA AttemptJudged ==
  ASSUME log \in Seq(Statuses), Attempt
  PROVE  log' \in Seq(Statuses) /\ (pc' = "accept" => Judged')
<1> USE DEF Runtime!Good, Runtime!Bad, Statuses
<1>1. plan' = plan /\ pc = "execute" /\ pc' \in {"execute", "accept"}
  BY DEF Attempt
<1>2. PICK s \in Statuses : /\ log' = Append(log, s)
                            /\ \/ s \in {"SUCCESS", "PARTIAL"}
                                  /\ (pc' = "accept" <=> Len(log') = Len(plan))
                               \/ s \in {"FAILURE", "ERROR"}
  BY DEF Attempt, Runtime!Keep, Runtime!Stop
<1>3. pc' = "accept" => Runtime!IsWorst(status', log')
  <2>1. ASSUME pc' = "accept" PROVE Runtime!Conclude
    BY <2>1 DEF Attempt, Runtime!Keep, Runtime!Stop, Runtime!Continue
  <2> QED
    BY <2>1 DEF Runtime!Conclude
<1>4. /\ log' \in Seq(Statuses) /\ Len(log) \in Nat /\ Len(log') = Len(log) + 1
      /\ log'[Len(log')] = s /\ log' # <<>> /\ Len(log') \in 1..Len(log')
  <2>1. /\ Append(log, s) \in Seq(Statuses) /\ Len(Append(log, s)) = Len(log) + 1
        /\ Append(log, s)[Len(log) + 1] = s /\ Len(log) \in Nat
    BY AppendProperties
  <2>2. Len(log') # 0 /\ Len(log') \in 1..Len(log')
    BY <1>2, <2>1
  <2> QED
    BY <1>2, <2>1, <2>2
<1>5. ASSUME pc' = "accept", status' \in {"SUCCESS", "PARTIAL"} PROVE Len(log') = Len(plan')
  <2>1. \A i \in 1..Len(log') : Runtime!Rank[log'[i]] <= Runtime!Rank[status']
    BY <1>3, <1>5 DEF Runtime!IsWorst
  <2>2. Runtime!Rank[s] <= Runtime!Rank[status']
    BY <1>4, <2>1
  <2>3. s \notin {"FAILURE", "ERROR"}
    BY <1>5, <2>2 DEF Runtime!Rank
  <2> QED
    BY <1>1, <1>2, <1>5, <2>3
<1>6. ASSUME pc' = "accept" PROVE Judged'
  <2>1. (Runtime!IsWorst(status, log))'
    BY <1>3, <1>6 DEF Runtime!IsWorst
  <2> QED
    BY <1>4, <1>5, <1>6, <2>1 DEF Judged
<1> QED
  BY <1>4, <1>6

LEMMA RunInvOfScan == ASSUME CliInv, ScanStep PROVE RunInv'
<1>1. /\ pc \in Phases /\ pc' \in ScanPlace /\ request' = request
      /\ log \in Seq(Statuses) /\ raised' = raised /\ raised = None
  BY ScanMoves DEF ScanStep, cliVars, CliInv, RunInv, MainInv, Phases, ScanPlace, MainEnd
<1>2. CASE Attempt
  <2>1. pc = "execute" /\ pc' \in {"execute", "accept"}
    BY <1>2 DEF Attempt
  <2> QED
    BY <1>1, <1>2, <2>1, AttemptJudged DEF RunInv, MainEnd, None
<1>3. CASE Accept
  <2>1. /\ pc = "accept" /\ pc' = "result" /\ UNCHANGED <<plan, log, status>>
        /\ accepted' = (status = "SUCCESS" \/ (status = "PARTIAL" /\ request.partial))
    BY <1>3 DEF Accept
  <2>2. Judged
    BY <2>1 DEF CliInv, RunInv
  <2>3. Judged'
    BY <2>1, <2>2 DEF Judged, Runtime!IsWorst
  <2> QED
    BY <1>1, <2>1, <2>3 DEF RunInv, MainEnd, None
<1>4. CASE Crash
  BY <1>1, <1>4 DEF Crash, Runtime!Abandon, RunInv, MainEnd, None
<1>5. CASE PlanComplete \/ PlanAllowed \/ CheckFactory \/ CheckRequirement \/ Decide
           \/ StartBuild \/ Construct \/ StartRun
  <2>1. pc \in {"prepare", "filter", "check", "build", "construct"} /\ log' = log
    BY <1>5 DEF PlanComplete, PlanAllowed, CheckFactory, CheckRequirement, Decide,
                StartBuild, Construct, StartRun
  <2>2. log = <<>>
    BY <2>1 DEF CliInv, RunInv, MainEnd
  <2>3. pc' \notin {"accept", "result"}
    <3>1. CASE CheckRequirement
      <4>1. pc = "check" /\ (pc' = pc \/ pc' = "internal_error")
        BY <3>1 DEF CheckRequirement, CheckTool, CheckProvider, Ask
      <4> QED
        BY <4>1
    <3>2. CASE PlanComplete \/ PlanAllowed \/ CheckFactory \/ Decide \/ StartBuild
               \/ Construct \/ StartRun
      BY <3>2 DEF PlanComplete, PlanAllowed, CheckFactory, Decide, StartBuild, Construct,
                  StartRun
    <3> QED
      BY <1>5, <3>1, <3>2
  <2> QED
    BY <1>1, <2>1, <2>2, <2>3 DEF RunInv, ScanPlace, Phases, None
<1> QED
  BY <1>2, <1>3, <1>4, <1>5 DEF ScanStep, Steps

LEMMA ScanStepInv == ASSUME CliInv, ScanStep PROVE CliInv'
<1>1. /\ pc \in Phases /\ pc' \in ScanPlace /\ pc \in ScanPlace /\ request' = request
      /\ UNCHANGED cliVars
  BY ScanMoves DEF ScanStep, ScanPlace
<1>2. InputInv'
  BY <1>1 DEF CliInv, InputInv, cliVars
<1>3. MainInv'
  BY <1>1 DEF CliInv, MainInv, cliVars, ScanPlace, Phases, MainEnd, MainPhases
<1>4. ServiceInv'
  <2>1. /\ request.service = IF options.dry THEN "inspect" ELSE "run"
        /\ request.partial = Allows
        /\ options.kind = "scan"
    BY <1>1 DEF CliInv, ServiceInv, MainInv
  <2>2. options' = options /\ Allows' = Allows
    BY <1>1 DEF cliVars, Allows
  <2>3. ASSUME options.dry
        PROVE  built' = <<>> /\ log' = <<>> /\ events' = <<>> /\ pc' \notin Building
    BY <2>1, <2>3, InspectionIsQuiet DEF CliInv, ServiceInv, ScanStep
  <2>4. pc' = "inspection" => options.dry
    BY <2>1, OnlyInspects DEF ScanStep
  <2> QED
    BY <1>1, <2>1, <2>2, <2>3, <2>4 DEF ServiceInv
<1>5. RunInv'
  BY RunInvOfScan
<1>6. ModeInv'
  BY <1>1 DEF CliInv, ModeInv, cliVars, ScanPlace, Phases
<1>7. WrittenInv'
  BY <1>1 DEF CliInv, WrittenInv, Count, MainEnd, cliVars, ScanPlace, Phases
<1> QED
  BY <1>2, <1>3, <1>4, <1>5, <1>6, <1>7 DEF CliInv

-----------------------------------------------------------------------------
(* The steps of main *)

LEMMA OptionFields ==
  ASSUME InputInv
  PROVE  /\ options.kind \in {"malformed", "incomplete", "help", "doctor", "scan"}
         /\ options.output \in Formats \cup {None}
         /\ options.preset \in Presets \cup {None}
         /\ options.file \in BOOLEAN /\ options.dry \in BOOLEAN /\ options.partial \in BOOLEAN
         /\ configuration.output \in Formats /\ configuration.preset \in Presets
         /\ configuration.partial \in BOOLEAN
  BY DEF InputInv, CommandLineType, FileType

LEMMA CliInitInv == ASSUME CliInit PROVE CliInv
<1>1. InputInv
  BY CliAssumption DEF CliInit, InputInv, Default, FileType, Presets, Profiles, Formats
<1>2. /\ pc = "parse" /\ raised = None /\ mode = None /\ preset = None /\ code = 0
      /\ built = <<>> /\ log = <<>> /\ events = <<>> /\ stdout = <<>> /\ stderr = <<>>
  BY DEF CliInit, ScanInit
<1>3. MainInv
  BY <1>2 DEF MainInv, MainPhases, ScanPlace, Phases, MainEnd, None, Exceptions
<1>4. ServiceInv
  BY <1>2 DEF ServiceInv, ScanPlace, Phases, Building
<1>5. RunInv
  BY <1>2 DEF RunInv, None
<1>6. ModeInv
  BY <1>2 DEF ModeInv, ScanPlace, Phases
<1>7. WrittenInv
  BY <1>2 DEF WrittenInv, ExitCodes, Count
<1> QED
  BY <1>1, <1>3, <1>4, <1>5, <1>6, <1>7 DEF CliInv

LEMMA ParseInv == ASSUME CliInv, Parse PROVE CliInv'
<1>1. /\ pc = "parse" /\ pc' \in {"handle", "help", "doctor", "load"}
      /\ \/ options.kind \in {"malformed", "incomplete"} /\ raised' = "usage" /\ pc' = "handle"
            /\ mode' = mode
         \/ options.kind = "help" /\ pc' = "help" /\ raised' = raised /\ mode' = mode
         \/ options.kind = "doctor" /\ pc' = "doctor" /\ raised' = raised
            /\ mode' = IF options.output = None THEN "human" ELSE options.output
         \/ options.kind = "scan" /\ pc' = "load" /\ raised' = raised /\ mode' = options.output
      /\ UNCHANGED <<composition, request, plan, built, log, status, accepted, events, options,
                     configuration, preset, stdout, stderr, code>>
  BY DEF Parse, Throw
<1>2. /\ raised = None /\ log = <<>> /\ stderr = <<>> /\ preset = None
      /\ mode \in Formats \cup {None}
  BY <1>1 DEF CliInv, MainInv, RunInv, WrittenInv, MainEnd, ModeInv
<1>3. InputInv'
  BY <1>1 DEF CliInv, InputInv
<1>4. MainInv'
  BY <1>1, <1>2 DEF CliInv, MainInv, MainPhases, ScanPlace, Phases, MainEnd, Exceptions, None
<1>5. ServiceInv'
  BY <1>1 DEF CliInv, ServiceInv, ScanPlace, Phases, Building
<1>6. RunInv'
  BY <1>1, <1>2 DEF CliInv, RunInv
<1>7. ModeInv'
  BY <1>1, <1>2, OptionFields DEF CliInv, ModeInv, ScanPlace, Phases, Or, Formats, None
<1>8. WrittenInv'
  BY <1>1, <1>2 DEF CliInv, WrittenInv, Count, MainEnd
<1> QED
  BY <1>3, <1>4, <1>5, <1>6, <1>7, <1>8 DEF CliInv

LEMMA LoadInv == ASSUME CliInv, Load PROVE CliInv'
<1>1. /\ pc = "load" /\ configuration' \in IF options.file THEN Files ELSE {Default}
      /\ \/ raised' = "configuration" /\ pc' = "handle" /\ mode' = mode /\ preset' = preset
         \/ /\ pc' = "resolve" /\ raised' = raised
            /\ mode' = Or(options.output, configuration'.output)
            /\ preset' = Or(options.preset, configuration'.preset)
      /\ UNCHANGED <<composition, request, plan, built, log, status, accepted, events, options,
                     stdout, stderr, code>>
  BY DEF Load, Throw
<1>2. /\ raised = None /\ log = <<>> /\ stderr = <<>> /\ preset = None
      /\ mode \in Formats \cup {None} /\ options.kind = "scan"
  BY <1>1, OptionFields DEF CliInv, MainInv, RunInv, WrittenInv, MainEnd, ModeInv
<1>3. InputInv'
  <2>1. configuration' \in FileType
    <3>1. Default \in FileType
      BY DEF Default, FileType, Presets, Profiles, Formats
    <3> QED
      BY <1>1, <3>1, CliAssumption
  <2> QED
    BY <1>1, <2>1, OptionFields DEF CliInv, InputInv
<1>4. MainInv'
  BY <1>1, <1>2 DEF CliInv, MainInv, MainPhases, ScanPlace, Phases, MainEnd, Exceptions, None
<1>5. ServiceInv'
  BY <1>1 DEF CliInv, ServiceInv, ScanPlace, Phases, Building
<1>6. RunInv'
  BY <1>1, <1>2 DEF CliInv, RunInv
<1>7. ModeInv'
  <2>1. /\ configuration'.output \in Formats /\ configuration'.preset \in Presets
        /\ ~options.file => configuration'.output = "human"
    BY <1>1, <1>3, OptionFields DEF InputInv, FileType, Default
  <2>2. CASE pc' = "handle"
    BY <1>1, <1>2, <2>2 DEF CliInv, ModeInv, ScanPlace, Phases, None
  <2>3. CASE pc' = "resolve"
    <3>1. preset' # None /\ mode' \in Formats
      BY <1>1, <2>1, <2>3, OptionFields DEF CliInv, Or, Formats, Presets, None
    <3>2. mode' = Or(options.output, IF options.file THEN configuration'.output ELSE "human")
      BY <1>1, <2>1, <2>3 DEF Or
    <3>3. mode' # None
      BY <3>1 DEF Formats, None
    <3> QED
      BY <1>1, <1>2, <2>3, <3>1, <3>2, <3>3 DEF ModeInv
  <2> QED
    BY <1>1, <2>2, <2>3
<1>8. WrittenInv'
  BY <1>1, <1>2 DEF CliInv, WrittenInv, Count, MainEnd
<1> QED
  BY <1>3, <1>4, <1>5, <1>6, <1>7, <1>8 DEF CliInv

LEMMA ResolveInv == ASSUME CliInv, Resolve PROVE CliInv'
<1>1. /\ pc = "resolve"
      /\ \/ raised' \in {"configuration", "scan_configuration"} /\ pc' = "handle"
            /\ request' = request
         \/ /\ pc' = "compose" /\ raised' = raised
            /\ request' = [service  |-> IF options.dry THEN "inspect" ELSE "run",
                           goals    |-> GoalsOf[preset],
                           disabled |-> {},
                           partial  |-> options.partial \/ configuration.partial]
      /\ UNCHANGED <<composition, plan, built, log, status, accepted, events, options,
                     configuration, mode, preset, stdout, stderr, code>>
  BY DEF Resolve, Throw
<1>2. /\ raised = None /\ log = <<>> /\ stderr = <<>> /\ preset # None
      /\ options.kind = "scan"
  BY <1>1, OptionFields DEF CliInv, MainInv, RunInv, WrittenInv, MainEnd, ModeInv
<1>3. InputInv'
  BY <1>1 DEF CliInv, InputInv
<1>4. MainInv'
  BY <1>1, <1>2 DEF CliInv, MainInv, MainPhases, ScanPlace, Phases, MainEnd, Exceptions, None
<1>5. ServiceInv'
  <2>1. pc' = "compose" =>
          /\ request'.service = IF options.dry THEN "inspect" ELSE "run"
          /\ request'.partial = Allows
    BY <1>1 DEF Allows
  <2>2. Allows' = Allows
    BY <1>1 DEF Allows
  <2> QED
    BY <1>1, <2>1, <2>2 DEF CliInv, ServiceInv, ScanPlace, Phases, Building
<1>6. RunInv'
  BY <1>1, <1>2 DEF CliInv, RunInv
<1>7. ModeInv'
  BY <1>1, <1>2 DEF CliInv, ModeInv, ScanPlace, Phases, None
<1>8. WrittenInv'
  BY <1>1, <1>2 DEF CliInv, WrittenInv, Count, MainEnd
<1> QED
  BY <1>3, <1>4, <1>5, <1>6, <1>7, <1>8 DEF CliInv

LEMMA ComposeInv == ASSUME CliInv, Compose PROVE CliInv'
<1>1. /\ pc = "compose"
      /\ \/ raised' = "internal" /\ pc' = "handle"
         \/ pc' = "prepare" /\ raised' = raised
      /\ UNCHANGED <<request, plan, built, log, status, accepted, events, options,
                     configuration, mode, preset, stdout, stderr, code>>
  BY DEF Compose, Throw
<1>2. /\ raised = None /\ log = <<>> /\ stderr = <<>> /\ preset # None
      /\ options.kind = "scan"
  BY <1>1, OptionFields DEF CliInv, MainInv, RunInv, WrittenInv, MainEnd, ModeInv
<1>3. InputInv'
  BY <1>1 DEF CliInv, InputInv
<1>4. MainInv'
  BY <1>1, <1>2 DEF CliInv, MainInv, MainPhases, ScanPlace, Phases, MainEnd, Exceptions, None
<1>5. ServiceInv'
  <2>1. Allows' = Allows
    BY <1>1 DEF Allows
  <2> QED
    BY <1>1, <2>1 DEF CliInv, ServiceInv, ScanPlace, Phases, Building
<1>6. RunInv'
  BY <1>1, <1>2 DEF CliInv, RunInv
<1>7. ModeInv'
  BY <1>1, <1>2 DEF CliInv, ModeInv, ScanPlace, Phases, None
<1>8. WrittenInv'
  BY <1>1, <1>2 DEF CliInv, WrittenInv, Count, MainEnd
<1> QED
  BY <1>3, <1>4, <1>5, <1>6, <1>7, <1>8 DEF CliInv

LEMMA DiagnoseInv == ASSUME CliInv, Diagnose PROVE CliInv'
<1>1. /\ pc = "doctor"
      /\ \/ raised' = "internal" /\ pc' = "handle"
         \/ pc' = "diagnosis" /\ raised' = raised
      /\ UNCHANGED <<request, plan, built, log, status, accepted, events, options,
                     configuration, mode, preset, stdout, stderr, code>>
  BY DEF Diagnose, Throw
<1>2. raised = None /\ log = <<>> /\ stderr = <<>>
  BY <1>1 DEF CliInv, MainInv, RunInv, WrittenInv, MainEnd
<1>3. InputInv'
  BY <1>1 DEF CliInv, InputInv
<1>4. MainInv'
  BY <1>1, <1>2 DEF CliInv, MainInv, MainPhases, ScanPlace, Phases, MainEnd, Exceptions, None
<1>5. ServiceInv'
  BY <1>1 DEF CliInv, ServiceInv, ScanPlace, Phases, Building
<1>6. RunInv'
  BY <1>1, <1>2 DEF CliInv, RunInv
<1>7. ModeInv'
  BY <1>1, <1>2 DEF CliInv, ModeInv, ScanPlace, Phases, None
<1>8. WrittenInv'
  BY <1>1, <1>2 DEF CliInv, WrittenInv, Count, MainEnd
<1> QED
  BY <1>3, <1>4, <1>5, <1>6, <1>7, <1>8 DEF CliInv

LEMMA CaughtInv == ASSUME CliInv, Caught PROVE CliInv'
<1>1. /\ pc \in {"configuration_error", "preflight_error", "build_error", "internal_error"}
      /\ raised' \in {"scan_configuration", "preflight", "build", "internal"} /\ pc' = "handle"
      /\ pc = "internal_error" => raised' = "internal"
      /\ UNCHANGED <<request, plan, built, log, status, accepted, events, options,
                     configuration, mode, preset, stdout, stderr, code>>
  BY DEF Caught, Throw, Raised
<1>2. raised = None /\ stderr = <<>> /\ options.kind = "scan"
      /\ (raised' # "internal" => log = <<>>)
  BY <1>1 DEF CliInv, MainInv, RunInv, WrittenInv, MainEnd, ScanPlace
<1>3. InputInv'
  BY <1>1 DEF CliInv, InputInv
<1>4. MainInv'
  BY <1>1, <1>2 DEF CliInv, MainInv, MainPhases, ScanPlace, Phases, MainEnd, Exceptions, None
<1>5. ServiceInv'
  BY <1>1 DEF CliInv, ServiceInv, ScanPlace, Phases, Building
<1>6. RunInv'
  BY <1>1, <1>2 DEF CliInv, RunInv, MainEnd
<1>7. ModeInv'
  BY <1>1, <1>2 DEF CliInv, ModeInv, ScanPlace, Phases, None
<1>8. WrittenInv'
  BY <1>1, <1>2 DEF CliInv, WrittenInv, Count, MainEnd
<1> QED
  BY <1>3, <1>4, <1>5, <1>6, <1>7, <1>8 DEF CliInv

\* What the result of a scan says of its capabilities.
LEMMA AcceptedIsComplete ==
  ASSUME CliInv, pc = "result", options.kind = "scan"
  PROVE  /\ accepted => Complete
         /\ ~accepted => log # <<>> /\ ~Complete
         /\ accepted \in BOOLEAN
<1>1. /\ Judged /\ log \in Seq(Statuses)
      /\ accepted = (status = "SUCCESS" \/ (status = "PARTIAL" /\ request.partial))
      /\ request.partial = Allows
  BY DEF CliInv, RunInv, ServiceInv, ScanPlace
<1>2. Allows <=> Consent
  BY OptionFields DEF CliInv, InputInv, Allows, Consent, Default
<1>3. /\ log # <<>> /\ status \in Statuses
      /\ \A i \in 1..Len(log) : Runtime!Rank[log[i]] <= Runtime!Rank[status]
      /\ status = "SUCCESS" \/ \E i \in 1..Len(log) : log[i] = status
      /\ status \in {"SUCCESS", "PARTIAL"} => Len(log) = Len(plan)
  BY <1>1 DEF Judged, Runtime!IsWorst, Runtime!Good, Runtime!Bad, Statuses
<1>4. \A i \in 1..Len(log) : log[i] \in Statuses
  BY <1>1, ElementOfSeq
<1>5. ASSUME accepted PROVE Complete
  <2>1. CASE status = "SUCCESS"
    <3>1. \A i \in 1..Len(log) : log[i] = "SUCCESS"
      BY <1>3, <1>4, <2>1 DEF Statuses, Runtime!Rank
    <3> QED
      BY <1>3, <2>1, <3>1 DEF Complete
  <2>2. CASE status = "PARTIAL" /\ Consent
    <3>1. \A i \in 1..Len(log) : log[i] \in {"SUCCESS", "PARTIAL"}
      BY <1>3, <1>4, <2>2 DEF Statuses, Runtime!Rank
    <3> QED
      BY <1>3, <2>2, <3>1 DEF Complete
  <2> QED
    BY <1>1, <1>2, <1>5, <2>1, <2>2
<1>6. ASSUME ~accepted PROVE ~Complete
  <2>1. status # "SUCCESS" /\ ~(status = "PARTIAL" /\ Consent)
    BY <1>1, <1>2, <1>6
  <2>2. PICK i \in 1..Len(log) : log[i] = status
    BY <1>3, <2>1
  <2> QED
    BY <2>1, <2>2 DEF Complete
<1> QED
  BY <1>1, <1>3, <1>5, <1>6

LEMMA OutcomeTyped ==
  ASSUME CliInv, pc \in {"help", "diagnosis", "inspection", "result"}
  PROVE  /\ Outcome \in DocumentType
         /\ Outcome.json <=> mode = "json"
         /\ options.kind = "scan" /\ ~options.dry =>
              pc = "result" /\ Outcome.code = IF accepted THEN 0 ELSE 4
<1> DEFINE outcomes == {"help", "doctor", "dry_run", "completed"}
<1>1. \A j \in BOOLEAN, o \in outcomes, c \in ExitCodes :
        /\ Document(j, o, c) \in DocumentType
        /\ Document(j, o, c).json = j /\ Document(j, o, c).code = c
  BY DEF Document, DocumentType
<1>2. 0 \in ExitCodes /\ 3 \in ExitCodes /\ 4 \in ExitCodes /\ (mode = "json") \in BOOLEAN
  BY DEF ExitCodes
<1>3. CASE pc = "help"
  <2>1. options.kind = "help" /\ mode = None
    BY <1>3 DEF CliInv, MainInv, ModeInv
  <2>2. Outcome = Document(FALSE, "help", 0)
    BY <1>3 DEF Outcome
  <2> QED
    BY <1>1, <1>2, <2>1, <2>2 DEF None
<1>4. CASE pc = "diagnosis"
  <2>1. options.kind = "doctor"
    BY <1>4 DEF CliInv, MainInv
  <2>2. Outcome = Document(mode = "json", "doctor", IF doctorReady THEN 0 ELSE 3)
    BY <1>4 DEF Outcome
  <2> QED
    BY <1>1, <1>2, <2>1, <2>2
<1>5. CASE pc = "inspection"
  <2>1. options.dry
    BY <1>5 DEF CliInv, ServiceInv
  <2>2. Outcome = Document(mode = "json", "dry_run", IF AllReady THEN 0 ELSE 3)
    BY <1>5 DEF Outcome
  <2> QED
    BY <1>1, <1>2, <2>1, <2>2
<1>6. CASE pc = "result"
  <2>1. Outcome = Document(mode = "json", "completed", IF accepted THEN 0 ELSE 4)
    BY <1>6 DEF Outcome
  <2> QED
    BY <1>1, <1>2, <1>6, <2>1
<1> QED
  BY <1>3, <1>4, <1>5, <1>6

\* The last of what has been written.
LEMMA LastOf ==
  ASSUME NEW S, NEW s \in Seq(S), NEW x \in S
  PROVE  /\ Append(s, x) \in Seq(S) /\ Append(s, x) # <<>>
         /\ Append(s, x)[Len(Append(s, x))] = x
<1>1. /\ Append(s, x) \in Seq(S) /\ Len(Append(s, x)) = Len(s) + 1
      /\ Append(s, x)[Len(s) + 1] = x /\ Len(s) \in Nat
  BY AppendProperties
<1>2. Len(Append(s, x)) # 0
  BY <1>1
<1> QED
  BY <1>1, <1>2

\* One more has been written.
LEMMA OneMore ==
  ASSUME NEW S, NEW s \in Seq(S), NEW x \in S
  PROVE  Len(Append(s, x)) = Len(s) + 1
  BY AppendProperties

LEMMA WriteInv == ASSUME CliInv, Write PROVE CliInv'
<1>1. /\ pc \in {"help", "diagnosis", "inspection", "result"}
      /\ code' = Outcome.code
      /\ \/ stdout' = Append(stdout, Outcome) /\ pc' = "return" /\ raised' = raised
         \/ raised' = "internal" /\ pc' = "handle" /\ stdout' = stdout
      /\ UNCHANGED <<composition, request, plan, built, log, status, accepted, events,
                     options, configuration, mode, preset, stderr>>
  BY DEF Write, Throw
<1>2. /\ raised = None /\ stderr = <<>> /\ stdout \in Seq(DocumentType)
  BY <1>1 DEF CliInv, MainInv, WrittenInv, MainEnd
<1>3. /\ Outcome \in DocumentType
      /\ Outcome.json <=> mode = "json"
      /\ options.kind = "scan" /\ ~options.dry =>
           pc = "result" /\ Outcome.code = IF accepted THEN 0 ELSE 4
  BY <1>1, OutcomeTyped
<1>4. code' \in ExitCodes
  BY <1>1, <1>3 DEF DocumentType
<1>5. InputInv'
  BY <1>1 DEF CliInv, InputInv
<1>6. MainInv'
  BY <1>1, <1>2 DEF CliInv, MainInv, MainPhases, ScanPlace, Phases, MainEnd, Exceptions, None
<1>7. ServiceInv'
  BY <1>1 DEF CliInv, ServiceInv, ScanPlace, Phases, Building
<1>8. RunInv'
  <2>1. Verdict'
    <3>1. (options.kind = "scan" /\ ~options.dry) =>
            /\ code' = 0 => Complete
            /\ code' = 4 => log # <<>> /\ ~Complete
            /\ code' \notin {2, 3}
      BY <1>1, <1>3, AcceptedIsComplete
    <3>2. Complete' <=> Complete
      BY <1>1 DEF Complete, Consent
    <3> QED
      BY <1>1, <3>1, <3>2 DEF Verdict
  <2> QED
    BY <1>1, <1>2, <2>1 DEF CliInv, RunInv, MainEnd, None
<1>9. ModeInv'
  BY <1>1, <1>2 DEF CliInv, ModeInv, ScanPlace, Phases, None
<1>10. WrittenInv'
  <2>1. CASE pc' = "return"
    <3>1. /\ stdout' \in Seq(DocumentType) /\ stdout' # <<>>
          /\ stdout'[Len(stdout')] = Outcome
      BY <1>1, <1>2, <1>3, <2>1, LastOf
    <3>2. Stated' /\ (stdout'[Len(stdout')].json <=> mode' = "json")
      BY <1>1, <1>3, <3>1 DEF Stated
    <3>3. Len(stdout') = 1
      BY <1>1, <1>2, <1>3, <2>1, OneMore DEF CliInv, WrittenInv, Count, MainEnd
    <3>4. Count'
      BY <2>1, <3>3 DEF Count, MainEnd
    <3> QED
      BY <1>1, <1>2, <1>4, <2>1, <3>1, <3>2, <3>4 DEF CliInv, WrittenInv
  <2>2. CASE pc' = "handle"
    <3>1. Count'
      BY <1>1, <1>2, <2>2 DEF CliInv, WrittenInv, Count, MainEnd
    <3> QED
      BY <1>1, <1>2, <1>4, <2>2, <3>1 DEF CliInv, WrittenInv
  <2> QED
    BY <1>1, <2>1, <2>2
<1> QED
  BY <1>5, <1>6, <1>7, <1>8, <1>9, <1>10 DEF CliInv

LEMMA ExitCodeOf ==
  ASSUME NEW e \in Exceptions
  PROVE  /\ ExitCode[e] \in ExitCodes /\ ExitCode[e] \notin {0, 4}
         /\ ExitCode[e] \in {2, 3} =>
              e \in {"usage", "configuration", "scan_configuration", "preflight", "build"}
         /\ e = "interrupt" => ExitCode[e] = 130
  BY DEF Exceptions, ExitCode, ExitCodes

LEMMA HandleInv == ASSUME CliInv, Handle PROVE CliInv'
<1> DEFINE d == Document(TRUE, raised, ExitCode[raised])
<1>1. /\ pc = "handle" /\ code' = ExitCode[raised]
      /\ \/ pc' = "handled" /\ JsonSelected /\ stdout' = Append(stdout, d) /\ stderr' = stderr
         \/ pc' = "handled" /\ ~JsonSelected /\ stderr' = Append(stderr, ExitCode[raised])
            /\ stdout' = stdout
         \/ pc' = "escaped" /\ stdout' = stdout /\ stderr' = stderr
      /\ UNCHANGED <<composition, request, plan, built, log, status, accepted, events,
                     options, configuration, mode, preset, raised>>
  BY DEF Handle
<1>2. /\ raised \in Exceptions /\ raised # None /\ stderr = <<>>
      /\ stdout \in Seq(DocumentType) /\ stderr \in Seq(ExitCodes)
  BY <1>1 DEF CliInv, MainInv, WrittenInv
<1>3. /\ ExitCode[raised] \in ExitCodes /\ ExitCode[raised] \notin {0, 4}
      /\ ExitCode[raised] \in {2, 3} =>
           raised \in {"usage", "configuration", "scan_configuration", "preflight", "build"}
  BY <1>2, ExitCodeOf
<1>4. d \in DocumentType /\ d.json = TRUE /\ d.code = ExitCode[raised]
  BY <1>2, <1>3 DEF Document, DocumentType
<1> HIDE DEF d
<1>5. InputInv'
  BY <1>1 DEF CliInv, InputInv
<1>6. MainInv'
  BY <1>1, <1>2 DEF CliInv, MainInv, MainPhases, ScanPlace, Phases, MainEnd, Exceptions, None
<1>7. ServiceInv'
  BY <1>1 DEF CliInv, ServiceInv, ScanPlace, Phases, Building
<1>8. RunInv'
  <2>1. Verdict'
    <3>1. code' \notin {0, 4} /\ (code' \in {2, 3} => log = <<>>)
      BY <1>1, <1>3 DEF CliInv, RunInv
    <3> QED
      BY <1>1, <3>1 DEF Verdict
  <2> QED
    BY <1>1, <1>2, <2>1 DEF CliInv, RunInv, MainEnd
<1>9. ModeInv'
  BY <1>1, <1>2 DEF CliInv, ModeInv, ScanPlace, Phases, None
<1>10. WrittenInv'
  <2>1. JsonSelected' <=> JsonSelected
    BY <1>1 DEF JsonSelected
  <2>2. CASE pc' = "handled" /\ JsonSelected
    <3>1. /\ stdout' \in Seq(DocumentType) /\ stdout' # <<>>
          /\ stdout'[Len(stdout')] = d
      BY <1>1, <1>2, <1>4, <2>2, LastOf
    <3>2. Stated' /\ stdout'[Len(stdout')].json /\ stderr' = <<>>
      <4>1. stdout'[Len(stdout')].json /\ stdout'[Len(stdout')].code = code'
        BY <1>1, <1>4, <2>2, <3>1
      <4> QED
        BY <1>1, <1>2, <2>2, <3>1, <4>1 DEF Stated
    <3>3. Count'
      <4>1. Len(stdout') = Len(stdout) + 1
        BY <1>1, <1>2, <1>4, <2>2, OneMore
      <4>2. Len(stdout) = 0 \/ (Len(stdout) = 1 /\ raised = "interrupt")
        BY <1>1 DEF CliInv, WrittenInv, Count
      <4>3. Len(stdout') = 1 \/ (Len(stdout') = 2 /\ raised' = "interrupt")
        <5>1. raised' = raised
          BY <1>1
        <5>2. CASE Len(stdout) = 0
          BY <4>1, <5>2
        <5>3. CASE Len(stdout) = 1 /\ raised = "interrupt"
          BY <4>1, <5>1, <5>3
        <5> QED
          BY <4>2, <5>2, <5>3
      <4> QED
        BY <2>2, <4>3 DEF Count, MainEnd
    <3> QED
      BY <1>1, <1>2, <1>3, <2>2, <3>1, <3>2, <3>3 DEF WrittenInv
  <2>3. CASE pc' = "handled" /\ ~JsonSelected
    <3>1. stderr' \in Seq(ExitCodes)
      BY <1>1, <1>2, <1>3, <2>3, LastOf, Zenon
    <3>2. Count'
      BY <2>1, <2>3 DEF Count, MainEnd
    <3> QED
      BY <1>1, <1>2, <1>3, <2>1, <2>3, <3>1, <3>2 DEF WrittenInv
  <2>4. CASE pc' = "escaped"
    BY <1>1, <1>2, <1>3, <2>4 DEF WrittenInv, Count, MainEnd
  <2> QED
    BY <1>1, <2>2, <2>3, <2>4
<1> QED
  BY <1>5, <1>6, <1>7, <1>8, <1>9, <1>10 DEF CliInv

\* When a reader may expect JSON, main knows the mode at the end.
LEMMA KnownIsSelected ==
  ASSUME CliInv, pc \in {"return", "handled"}, Known, Requested = "json"
  PROVE  JsonSelected /\ (pc = "return" => mode = "json")
<1>1. pc = "return" => raised = None
  BY DEF CliInv, MainInv, MainEnd
<1>2. raised = "interrupt" => pc = "handled" /\ code = 130
  BY <1>1, ExitCodeOf DEF CliInv, WrittenInv, MainInv, Exceptions, None
<1>3. preset # None => options.kind = "scan" /\ mode = Requested
  BY DEF CliInv, ModeInv, Requested
<1>4. preset = None => Requested = Or(options.output, "human") /\ mode \in {None, Requested}
  BY DEF CliInv, ModeInv, Requested
<1>5. CASE raised = "usage"
  <2>1. options.kind \in {"malformed", "incomplete"} /\ mode = None
    BY <1>5 DEF CliInv, MainInv
  <2>2. options.kind = "incomplete" /\ preset = None
    BY <1>3, <2>1 DEF Known
  <2>3. options.output = "json"
    BY <1>4, <2>2 DEF Or
  <2> QED
    BY <1>1, <1>5, <2>2, <2>3 DEF JsonSelected, None
<1>6. CASE raised # "usage"
  <2>1. mode # None
    <3>1. CASE options.kind = "doctor" /\ code # 130
      BY <1>2, <3>1 DEF CliInv, ModeInv
    <3>2. CASE options.kind = "scan" /\ preset # None
      BY <1>3 , <3>2 DEF None
    <3>3. CASE options.kind = "scan" /\ preset = None /\ raised = "configuration"
      <4>1. options.output = "json"
        BY <1>4, <3>3 DEF Or
      <4> QED
        BY <3>3, <4>1 DEF CliInv, ModeInv
    <3> QED
      BY <1>6, <3>1, <3>2, <3>3 DEF Known
  <2>2. mode = "json"
    BY <1>3, <1>4, <2>1
  <2> QED
    BY <1>6, <2>2 DEF JsonSelected
<1> QED
  BY <1>5, <1>6

LEMMA ReturnInv == ASSUME CliInv, Return PROVE CliInv'
<1>1. /\ pc \in {"return", "handled"} /\ pc' = "returned"
      /\ UNCHANGED <<composition, request, plan, built, log, status, accepted, events,
                     options, configuration, mode, preset, raised, stdout, stderr, code>>
  BY DEF Return, cliVars
<1>2. /\ stdout \in Seq(DocumentType) /\ stderr \in Seq(ExitCodes) /\ code \in ExitCodes
  BY DEF CliInv, WrittenInv
<1>3. InputInv'
  BY <1>1 DEF CliInv, InputInv
<1>4. MainInv'
  BY <1>1 DEF CliInv, MainInv, MainPhases, ScanPlace, Phases, MainEnd
<1>5. ServiceInv'
  BY <1>1 DEF CliInv, ServiceInv, ScanPlace, Phases, Building
<1>6. RunInv'
  <2>1. Verdict'
    BY <1>1 DEF CliInv, RunInv, Verdict, Complete, Consent
  <2>2. pc' \in MainEnd
    BY <1>1 DEF MainEnd
  <2> QED
    BY <1>1, <2>1, <2>2 DEF CliInv, RunInv
<1>7. ModeInv'
  BY <1>1 DEF CliInv, ModeInv, ScanPlace, Phases
<1>8. WrittenInv'
  <2>1. ASSUME Known, Requested = "json"
        PROVE  /\ stderr = <<>> /\ Stated /\ stdout[Len(stdout)].json
               /\ Len(stdout) = 1 \/ (Len(stdout) = 2 /\ raised = "interrupt")
    BY <1>1, <2>1, KnownIsSelected DEF CliInv, WrittenInv, Count
  <2>2. (Known' <=> Known) /\ Requested' = Requested
    BY <1>1 DEF Known, Requested
  <2>3. JsonOutcomeStated'
    BY <1>1, <2>1, <2>2 DEF JsonOutcomeStated, Stated
  <2>4. Count'
    BY <1>1 DEF Count, MainEnd
  <2> QED
    BY <1>1, <1>2, <2>3, <2>4 DEF WrittenInv
<1> QED
  BY <1>3, <1>4, <1>5, <1>6, <1>7, <1>8 DEF CliInv

LEMMA InterruptMainInv == ASSUME CliInv, InterruptMain PROVE CliInv'
<1>1. /\ pc \notin {"returned", "escaped"}
      /\ \/ pc \in {"handle", "handled"} /\ pc' = "escaped" /\ raised' = raised
         \/ pc \notin {"handle", "handled"} /\ pc' = "handle" /\ raised' = "interrupt"
      /\ UNCHANGED <<composition, request, plan, built, log, status, accepted, events,
                     options, configuration, mode, preset, stdout, stderr, code>>
  BY DEF InterruptMain, Throw
<1>2. InputInv'
  BY <1>1 DEF CliInv, InputInv
<1>3. MainInv'
  BY <1>1 DEF CliInv, MainInv, MainPhases, ScanPlace, Phases, MainEnd, Exceptions, None
<1>4. ServiceInv'
  BY <1>1 DEF CliInv, ServiceInv, ScanPlace, Phases, Building
<1>5. RunInv'
  BY <1>1 DEF CliInv, RunInv, MainEnd
<1>6. ModeInv'
  BY <1>1 DEF CliInv, MainInv, ModeInv, ScanPlace, Phases, MainEnd, None
<1>7. WrittenInv'
  <2>1. Count'
    BY <1>1 DEF CliInv, WrittenInv, Count, MainEnd
  <2> QED
    BY <1>1, <2>1 DEF CliInv, WrittenInv
<1> QED
  BY <1>2, <1>3, <1>4, <1>5, <1>6, <1>7 DEF CliInv

LEMMA MainIdleInv == ASSUME CliInv, UNCHANGED vars PROVE CliInv'
<1> USE DEF vars, scanVars, cliVars
<1>1. InputInv' /\ MainInv' /\ ServiceInv'
  BY DEF CliInv, InputInv, MainInv, ServiceInv, Allows
<1>2. RunInv'
  BY DEF CliInv, RunInv, Judged, Runtime!IsWorst, Verdict, Complete, Consent
<1>3. ModeInv'
  BY DEF CliInv, ModeInv
<1>4. WrittenInv'
  BY DEF CliInv, WrittenInv, Count, Stated, JsonSelected, JsonOutcomeStated, Returned,
         Known, Requested
<1> QED
  BY <1>1, <1>2, <1>3, <1>4 DEF CliInv

LEMMA CliStep == ASSUME CliInv, [CliNext]_vars PROVE CliInv'
  BY ParseInv, LoadInv, ResolveInv, ComposeInv, ScanStepInv, DiagnoseInv, CaughtInv,
     WriteInv, HandleInv, ReturnInv, InterruptMainInv, MainIdleInv DEF CliNext

(* The exit code can be trusted by a script, for every composition and host: 0    *)
(* from a scan means that the whole plan ran and was usable, 4 that it did not,   *)
(* 2 and 3 that nothing ran; a dry run and the doctor construct nothing (main).   *)
THEOREM ExitTellsScanHolds == CliSpec => []ExitTellsScan
<1>1. CliInit => CliInv
  BY CliInitInv
<1>2. CliInv /\ [CliNext]_vars => CliInv'
  BY CliStep
<1>3. CliInv => ExitTellsScan
  <2> SUFFICES ASSUME CliInv PROVE ExitTellsScan
    OBVIOUS
  <2>1. pc = "returned" => Verdict
    BY DEF CliInv, RunInv
  <2>2. options.kind # "scan" \/ options.dry => built = <<>> /\ log = <<>> /\ events = <<>>
    BY DEF CliInv, ServiceInv
  <2> QED
    BY <2>1, <2>2 DEF ExitTellsScan, Verdict, Returned
<1> QED
  BY <1>1, <1>2, <1>3, PTL DEF CliSpec

(* In JSON mode every return of main leaves a last document that states its exit  *)
(* code, and no message on stderr, however early the mode was known; a document   *)
(* before it only when an interrupt came in between (effective_output).           *)
THEOREM JsonOutcomeStatedHolds == CliSpec => []JsonOutcomeStated
<1>1. CliInit => CliInv
  BY CliInitInv
<1>2. CliInv /\ [CliNext]_vars => CliInv'
  BY CliStep
<1>3. CliInv => JsonOutcomeStated
  BY DEF CliInv, WrittenInv, JsonOutcomeStated, Returned
<1> QED
  BY <1>1, <1>2, <1>3, PTL DEF CliSpec

-----------------------------------------------------------------------------
(* The built-in definitions and factories: every compatible preset can be        *)
(* planned, and a composition has what its factories declare.                    *)

\* How far down the built-in definitions a capability and a key are, and which
\* capability produces a key.
Rank == <<5, 4, 1, 2, 7, 8, 0, 4, 3, 5, 6, 3>>
KeyRank == <<2, 5, 4, 3, 5, 1, 2, 7, 8, 0, 4, 3, 6>>
MadeBy == <<4, 1, 2, 12, 10, 3, 4, 5, 6, 7, 8, 9, 11>>

\* A key has one producer among the built-in capabilities.
LEMMA ProducersOfKeys ==
  ASSUME NEW c \in 1..12, NEW k \in 1..13
  PROVE  k \in DefaultProvides[c] <=> c = MadeBy[k]
  BY DEF DefaultProvides, MadeBy

\* A capability requires keys above its own and provides keys of its own rank.
LEMMA RanksOfKeys ==
  ASSUME NEW c \in 1..12
  PROVE  /\ \A k \in DefaultRequires[c] : k \in 1..13 /\ KeyRank[k] < Rank[c]
         /\ \A k \in DefaultProvides[c] : k \in 1..13 /\ KeyRank[k] = Rank[c]
         /\ Rank[c] \in Nat
  BY DEF DefaultRequires, DefaultProvides, Rank, KeyRank

\* The keys a profile can be asked for.
Demandable(prof) ==
  IF prof = "full_assessment" THEN 1..13 ELSE {1, 4, 6, 10, 11}

\* The producers of these keys require only such keys.
LEMMA DemandableClosed ==
  ASSUME NEW prof, NEW c \in CapabilityIds(prof), BuiltIn,
         NEW k \in Demandable(prof), k \in DefaultProvides[c]
  PROVE  DefaultRequires[c] \subseteq Demandable(prof)
<1>1. c \in 1..12 /\ k \in 1..13
  BY DEF BuiltIn, CapabilityIds, Demandable, SUBDOMAIN_DISCOVERY, HOST_RESOLUTION,
         HTTP_PROBE, WEB_CRAWL, TECHNOLOGY_DETECTION
<1>2. CASE prof = "full_assessment"
  BY <1>1, <1>2, RanksOfKeys DEF Demandable
<1>3. CASE prof # "full_assessment"
  <2>1. c \in {7, 3, 4, 12, 8}
    BY <1>3 DEF CapabilityIds, SUBDOMAIN_DISCOVERY, HOST_RESOLUTION, HTTP_PROBE,
                WEB_CRAWL, TECHNOLOGY_DETECTION
  <2>2. DefaultRequires[c] \subseteq {1, 4, 6, 10}
    BY <2>1 DEF DefaultRequires
  <2> QED
    BY <1>3, <2>2 DEF Demandable
<1> QED
  BY <1>2, <1>3

\* The profile has their producers.
LEMMA DemandableProduced ==
  ASSUME NEW prof, NEW k \in Demandable(prof), BuiltIn
  PROVE  k \in 1..13 /\ MadeBy[k] \in CapabilityIds(prof) /\ MadeBy[k] \in 1..12
<1>1. CASE prof = "full_assessment"
  BY <1>1 DEF Demandable, BuiltIn, CapabilityIds, MadeBy
<1>2. CASE prof # "full_assessment"
  BY <1>2 DEF Demandable, CapabilityIds, MadeBy, SUBDOMAIN_DISCOVERY, HOST_RESOLUTION,
              HTTP_PROBE, WEB_CRAWL, TECHNOLOGY_DETECTION
<1> QED
  BY <1>1, <1>2

\* A preset asks for such keys of a profile it is compatible with.
LEMMA GoalsDemandable ==
  ASSUME NEW pre \in Presets, NEW prof, Compatible(pre, prof)
  PROVE  GoalsOf[pre] \subseteq Demandable(prof)
  BY DEF Presets, Compatible, GoalsOf, Demandable

\* The registry of a profile can plan what a compatible preset asks for.
LEMMA BuiltInPlannable ==
  ASSUME BuiltIn, NEW pre \in Presets, NEW prof, Compatible(pre, prof), NEW reg,
         reg.ids = CapabilityIds(prof), reg.requires = DefaultRequires,
         reg.provides = DefaultProvides
  PROVE  Plannable(reg, GoalsOf[pre])
<1> DEFINE D == Demandable(prof)
           S == Needed(reg, GoalsOf[pre])
<1>0. reg.ids \in SUBSET (1..12)
  BY DEF BuiltIn, CapabilityIds, SUBDOMAIN_DISCOVERY, HOST_RESOLUTION, HTTP_PROBE,
         WEB_CRAWL, TECHNOLOGY_DETECTION
<1>1. Upstream(reg, D) \subseteq D
  BY DemandableClosed DEF Upstream, Producers
<1>2. Demanded(reg, GoalsOf[pre]) \subseteq D
  BY <1>1, GoalsDemandable, DemandedWithin
<1>3. ASSUME NEW k \in D PROVE Cardinality(Producers(reg, k)) = 1
  <2>1. k \in 1..13 /\ MadeBy[k] \in reg.ids
    BY DemandableProduced
  <2>2. Producers(reg, k) = {MadeBy[k]}
    BY <1>0, <2>1, ProducersOfKeys DEF Producers
  <2> QED
    BY <2>2, FS_Singleton
<1>4. S \in SUBSET (1..12)
  BY <1>0 DEF Needed, Producers
<1>5. S \in SUBSET Nat /\ IsFiniteSet(S)
  <2>1. IsFiniteSet(1..12)
    BY FS_Interval, 1 \in Int, 12 \in Int, Zenon
  <2> QED
    BY <1>4, <2>1, FS_Subset
<1> DEFINE rank == [c \in S |-> Rank[c]]
<1>6. rank \in [S -> Nat]
  BY <1>4, RanksOfKeys
<1>7. ASSUME NEW c \in S, NEW p \in S, reg.requires[c] \cap reg.provides[p] # {}
      PROVE  rank[p] < rank[c]
  BY <1>4, <1>7, RanksOfKeys
<1> HIDE DEF rank, S
<1>8. Len(Order(reg, S)) = Cardinality(S)
  BY <1>5, <1>6, <1>7, OrderComplete
<1> QED
  BY <1>2, <1>3, <1>8 DEF Plannable, S

\* Ports are provider roles, and what stands in for them are tools.
LEMMA BackedCapabilities ==
  /\ \A c \in ToolBacked : PortOf[c] \in {8, 10, 11, 12, 14} /\ ToolOf[c] \in 1..5
  /\ ToolBacked = {4, 7, 8, 9, 12}
<1> USE DEF ToolBacked, SUBDOMAIN_DISCOVERY, HTTP_PROBE, WEB_CRAWL, TECHNOLOGY_DETECTION,
            VULNERABILITY_DETECTION
<1>1. ToolBacked = {4, 7, 8, 9, 12}
  OBVIOUS
<1>2. ASSUME NEW c \in ToolBacked
      PROVE  PortOf[c] \in {8, 10, 11, 12, 14} /\ ToolOf[c] \in 1..5
  BY DEF PortOf, ToolOf, Subdomains, HttpProbe, Crawl, Technology, Detection, Subfinder,
         Httpx, Katana, Whatweb, Nuclei
<1> QED
  BY <1>1, <1>2

\* What a factory declares to need.
LEMMA DeclaredNeeds ==
  ASSUME BuiltIn, NEW ports, NEW c \in Ids
  PROVE  /\ c \in ToolBacked /\ PortOf[c] \in ports => FactoryNeeds(ports)[c] = {PortOf[c]}
         /\ c \in ToolBacked /\ PortOf[c] \notin ports => FactoryNeeds(ports)[c] = {ToolOf[c]}
         /\ c = 11 => FactoryNeeds(ports)[c] = {13}
         /\ c = 10 => FactoryNeeds(ports)[c] = {6, 7, 9}
         /\ c \notin ToolBacked \cup {10, 11} => FactoryNeeds(ports)[c] = {}
<1>1. c \in ToolBacked => c # 11 /\ c # 10
  BY BackedCapabilities
<1> QED
  BY <1>1 DEF FactoryNeeds, ExternalRequirement, VULNERABILITY_INTELLIGENCE,
              VULNERABILITY_ENRICHMENT, Vulnerability, Cvss, Epss, Kev

\* What a factory hands over, the resolver apart.
LEMMA WiredParts ==
  ASSUME NEW ports, NEW c
  PROVE  /\ c \in ToolBacked /\ PortOf[c] \in ports => Wired(c, ports) = {PortOf[c]}
         /\ c \in ToolBacked /\ PortOf[c] \notin ports => Wired(c, ports) = {ToolOf[c]}
         /\ c = 11 /\ Vulnerability \in ports => Wired(c, ports) = {13}
         /\ c = 10 => Wired(c, ports) \subseteq {6, 7, 9}
         /\ c \notin ToolBacked \cup {10, 11} => Wired(c, ports) \subseteq {Resolver}
<1>1. c \in ToolBacked => c \notin {3, 10, 11}
  BY BackedCapabilities
<1> USE DEF Wired, VULNERABILITY_INTELLIGENCE, VULNERABILITY_ENRICHMENT, HOST_RESOLUTION
<1>2. ASSUME c \in ToolBacked
      PROVE  Wired(c, ports) = IF PortOf[c] \in ports THEN {PortOf[c]} ELSE {ToolOf[c]}
  BY <1>1, <1>2
<1>3. ASSUME c = 11, Vulnerability \in ports PROVE Wired(c, ports) = {13}
  BY <1>1, <1>3 DEF Vulnerability
<1>4. ASSUME c = 10 PROVE Wired(c, ports) \subseteq {6, 7, 9}
  BY <1>1, <1>4 DEF Cvss, Epss, Kev
<1>5. ASSUME c \notin ToolBacked \cup {10, 11} PROVE Wired(c, ports) \subseteq {Resolver}
  BY <1>5
<1> QED
  BY <1>2, <1>3, <1>4, <1>5

\* A profile that lets its host supply providers has a runner for its tools.
LEMMA RunnerIsThere ==
  ASSUME BuiltIn, NEW prof, prof # "local_smoke", NEW h
  PROVE  ~LacksRunner(prof, h)
<1>1. SUFFICES ASSUME RequiredTools(prof, h) # {} PROVE HasRunner(prof, h)
  BY DEF LacksRunner
<1> DEFINE ports == Dependencies(prof, h)
<1>2. PICK t \in Tools : \E c \in CapabilityIds(prof) : t \in FactoryNeeds(ports)[c]
  BY <1>1 DEF RequiredTools
<1>3. PICK c \in CapabilityIds(prof) : t \in FactoryNeeds(ports)[c]
  BY <1>2
<1>4. c \in Ids /\ t \in 1..5
  BY DEF BuiltIn, CapabilityIds, SUBDOMAIN_DISCOVERY, HOST_RESOLUTION, HTTP_PROBE,
         WEB_CRAWL, TECHNOLOGY_DETECTION
<1>5. h.supplied \subseteq ports
  BY DEF Dependencies
<1> HIDE DEF ports
<1>6. c \in ToolBacked /\ PortOf[c] \notin ports
  <2>1. /\ c \in ToolBacked /\ PortOf[c] \in ports => FactoryNeeds(ports)[c] = {PortOf[c]}
        /\ c = 11 => FactoryNeeds(ports)[c] = {13}
        /\ c = 10 => FactoryNeeds(ports)[c] = {6, 7, 9}
        /\ c \notin ToolBacked \cup {10, 11} => FactoryNeeds(ports)[c] = {}
    BY <1>4, DeclaredNeeds
  <2>2. c \in ToolBacked => PortOf[c] \notin 1..5
    BY BackedCapabilities
  <2> QED
    BY <1>3, <1>4, <2>1, <2>2
<1> QED
  BY <1>5, <1>6 DEF HasRunner

\* A composition in which everything a factory declares is there, except the
\* vulnerability provider when the h has none, and in which a factory whose
\* requirements are there hands over nothing else.
Sound(comp, prof, ports) ==
  /\ comp.ids = CapabilityIds(prof) /\ comp.have = comp.ids /\ comp.misbound = {}
  /\ comp.requires = DefaultRequires /\ comp.provides = DefaultProvides
  /\ \A c \in comp.ids : \A r \in comp.needs[c] :
       /\ r \in Requirements
       /\ r \in comp.present \/ (r = Vulnerability /\ Vulnerability \notin ports)
       /\ r \in Tools => r \in comp.probed
  /\ \A c \in comp.ids :
       comp.needs[c] \subseteq comp.present =>
         Wired(c, ports) \ {Resolver} \subseteq comp.needs[c]

\* Whatever the host supplies, what is composed is sound.
LEMMA ComponentsSound ==
  ASSUME BuiltIn, NEW prof, NEW h
  PROVE  Sound(Components(prof, h), prof, Dependencies(prof, h))
<1> DEFINE ports == Dependencies(prof, h)
           comp == Components(prof, h)
           ids == CapabilityIds(prof)
<1>1. /\ comp.ids = ids /\ comp.have = ids /\ comp.misbound = {}
      /\ comp.requires = DefaultRequires /\ comp.provides = DefaultProvides
      /\ comp.needs = FactoryNeeds(ports)
      /\ comp.present = RequiredTools(prof, h) \cup Configured(ports)
      /\ comp.probed = (IF HasToolProbe(prof, h) THEN Tools ELSE {}) \cup h.watched
  BY DEF Components
<1>2. \A c \in ids : c \in Ids /\ (prof # "full_assessment" => c \notin {10, 11})
  BY DEF BuiltIn, CapabilityIds, SUBDOMAIN_DISCOVERY, HOST_RESOLUTION, HTTP_PROBE,
         WEB_CRAWL, TECHNOLOGY_DETECTION
<1>3. prof = "full_assessment" => {6, 7, 9} \subseteq ports
  BY DEF Dependencies, Cvss, Epss, Kev
<1>4. Tools = 1..5 /\ Providers = 6..14
  BY DEF BuiltIn
<1>5. \A c \in ids : \A t \in Tools : t \in FactoryNeeds(ports)[c] =>
        t \in RequiredTools(prof, h) /\ HasToolProbe(prof, h)
  BY DEF RequiredTools, HasToolProbe
<1>6. Vulnerability = 13 /\ Resolver = 15 /\ NvdClient = 0
  BY DEF Vulnerability, Resolver, NvdClient
<1> HIDE DEF comp, ids, ports
<1>7. ASSUME NEW c \in ids, NEW r \in FactoryNeeds(ports)[c]
      PROVE  /\ r \in Requirements
             /\ r \in comp.present \/ (r = Vulnerability /\ Vulnerability \notin ports)
             /\ r \in Tools => r \in comp.probed
  <2>1. \/ r \in 1..5
        \/ r \in {8, 10, 11, 12, 14, 6, 7, 9} /\ r \in ports
        \/ r = 13
    <3>1. c \in ToolBacked => PortOf[c] \in {8, 10, 11, 12, 14} /\ ToolOf[c] \in 1..5
      BY BackedCapabilities
    <3>2. CASE c \in ToolBacked
      <4>1. (r = PortOf[c] /\ r \in ports) \/ r = ToolOf[c]
        BY <1>2, <1>7, <3>2, DeclaredNeeds
      <4> QED
        BY <3>1, <3>2, <4>1
    <3>3. CASE c \notin ToolBacked
      <4>1. r = 13 \/ (c = 10 /\ r \in {6, 7, 9})
        BY <1>2, <1>7, <3>3, DeclaredNeeds
      <4> QED
        BY <1>2, <1>3, <4>1
    <3> QED
      BY <3>2, <3>3
  <2>2. r \in Requirements
    BY <1>4, <2>1 DEF Requirements
  <2>3. r \in Tools => r \in comp.present /\ r \in comp.probed
    BY <1>1, <1>5, <1>7
  <2>4. r \in ports /\ r \in Providers => r \in comp.present
    BY <1>1 DEF Configured
  <2> QED
    BY <1>4, <1>6, <2>1, <2>2, <2>3, <2>4
<1>8. ASSUME NEW c \in ids, FactoryNeeds(ports)[c] \subseteq comp.present
      PROVE  Wired(c, ports) \ {Resolver} \subseteq FactoryNeeds(ports)[c]
  <2>1. 13 \in comp.present => 13 \in ports
    BY <1>1, <1>4 DEF Configured, RequiredTools
  <2>2. c \in Ids
    BY <1>2
  <2>3. CASE c \in ToolBacked
    BY <2>2, <2>3, DeclaredNeeds, WiredParts
  <2>4. CASE c = 11
    <3>1. FactoryNeeds(ports)[c] = {13}
      BY <2>2, <2>4, DeclaredNeeds
    <3>2. Wired(c, ports) = {13}
      BY <1>6, <1>8, <2>1, <2>4, <3>1, WiredParts
    <3> QED
      BY <3>1, <3>2
  <2>5. CASE c = 10
    <3>1. FactoryNeeds(ports)[c] = {6, 7, 9} /\ Wired(c, ports) \subseteq {6, 7, 9}
      BY <2>2, <2>5, DeclaredNeeds, WiredParts
    <3> QED
      BY <3>1
  <2>6. CASE c \notin ToolBacked \cup {10, 11}
    <3>1. Wired(c, ports) \subseteq {Resolver}
      BY <2>6, WiredParts
    <3> QED
      BY <3>1
  <2> QED
    BY <2>3, <2>4, <2>5, <2>6
<1> QED
  BY <1>1, <1>7, <1>8 DEF Sound, comp, ids, ports

-----------------------------------------------------------------------------
(* What is composed and what preflight finds in it: the inductive invariant      *)

\* Every check is ready or has an excuse.
Excused(list) == \A i \in 1..Len(list) : list[i].ready \/ Excusable(list[i])

Answers(check, r) ==
  check.kind \in {"executable", "configuration", "provider"} /\ check.of = r

\* Requirement r is there and was looked at, unless some check forbids construction.
Answered(list, r) ==
  \/ \E i \in 1..Len(list) : ~list[i].ready
  \/ r \in composition.present /\ \E i \in 1..Len(list) : Answers(list[i], r)

Opening == {"parse", "help", "doctor", "diagnosis", "load", "resolve"}

\* What is composed, and for which request.
ComposedInv ==
  /\ BuiltIn
  /\ preset \in Presets \cup {None} /\ profile \in Profiles \cup {None}
  /\ pc \in Opening => profile = None
  /\ pc \in {"compose"} \cup ScanPlace =>
       /\ preset \in Presets /\ profile \in Profiles /\ Compatible(preset, profile)
       /\ request.goals = GoalsOf[preset] /\ request.disabled = {}
  /\ composition.ids # {} => Sound(composition, profile, dependencies)
  /\ pc \in ScanPlace => composition.ids # {}
  /\ pc \in Opening \cup {"compose"} => composition.ids = {}
  /\ pc # "configuration_error"
  /\ raised = "internal" /\ profile # None /\ composition.ids = {} =>
       profile = "local_smoke"

\* The requirements of the capabilities in list
NeedsOf(list) == UNION {composition.needs[list[i]] : i \in 1..Len(list)}

\* How far preflight has come, and what it and the builder leave behind.
PreflightInv ==
  /\ checks \in Seq(CheckType) /\ Excused(checks)
  /\ pc \in Opening \cup {"compose", "prepare", "filter"} =>
       step = 1 /\ wanted = {} /\ seen = {} /\ checks = <<>> /\ built = <<>>
  /\ pc \in {"check", "build", "construct"} => plan \in Seq(composition.ids)
  /\ pc = "check" =>
       /\ step \in 1..(Len(plan) + 1) /\ wanted \cup seen \subseteq NeedsOf(plan)
       /\ \A i \in 1..(step - 1) : composition.needs[plan[i]] \subseteq seen \cup wanted
       /\ \A r \in seen : Answered(checks, r)
       /\ built = <<>>
  /\ pc \in {"build", "construct"} =>
       \A i \in 1..Len(plan) : \A r \in composition.needs[plan[i]] :
         r \in composition.present /\ FoundReady(r)
  /\ built \in Seq(Ids)
  /\ \A i \in 1..Len(built) : \A r \in Wired(built[i], dependencies) \ {Resolver} :
       FoundReady(r)

-----------------------------------------------------------------------------
(* The steps keep ComposedInv.                                                  *)

LEMMA ComposedScan == ASSUME CliInv, ComposedInv, ScanStep PROVE ComposedInv'
<1>1. /\ pc \in Phases /\ pc' \in ScanPlace /\ pc \in ScanPlace
      /\ request' = request /\ composition' = composition /\ UNCHANGED cliVars
  BY ScanMoves DEF ScanStep, ScanPlace
<1>2. /\ preset \in Presets /\ Compatible(preset, profile)
      /\ request.goals = GoalsOf[preset] /\ request.disabled = {}
      /\ Sound(composition, profile, dependencies)
  BY <1>1 DEF ComposedInv
<1>3. Plannable(composition, request.goals)
  BY <1>2, BuiltInPlannable DEF ComposedInv, Sound
<1>4. Plannable(Allowed, request.goals)
  <2>1. /\ composition.ids \ request.disabled = composition.ids
        /\ Allowed.requires = composition.requires /\ Allowed.provides = composition.provides
    BY <1>2 DEF Allowed
  <2>2. Allowed.ids = CapabilityIds(profile)
    BY <1>2, <2>1 DEF Allowed, Sound
  <2> QED
    BY <1>2, <2>1, <2>2, BuiltInPlannable DEF ComposedInv, Sound
<1>5. pc' # "configuration_error"
  <2>1. CASE PlanComplete
    BY <1>2, <1>3, <2>1 DEF PlanComplete
  <2>2. CASE PlanAllowed
    BY <1>4, <2>2 DEF PlanAllowed
  <2>3. CASE CheckRequirement
    BY <1>1, <2>3 DEF CheckRequirement, CheckTool, CheckProvider, Ask
  <2>4. CASE CheckFactory \/ Decide \/ StartBuild \/ Construct \/ StartRun \/ Attempt
             \/ Crash \/ Accept
    BY <2>4 DEF CheckFactory, Decide, StartBuild, Construct, StartRun, Attempt, Crash, Accept
  <2> QED
    BY <2>1, <2>2, <2>3, <2>4 DEF ScanStep, Steps
<1> QED
  BY <1>1, <1>2, <1>5 DEF ComposedInv, cliVars, ScanPlace, Phases, Opening

LEMMA ComposedResolve == ASSUME CliInv, ComposedInv, Resolve PROVE ComposedInv'
<1>1. /\ pc = "resolve" /\ UNCHANGED <<composition, dependencies, preset>>
      /\ \/ raised' # "internal" /\ pc' = "handle" /\ UNCHANGED <<profile, request>>
         \/ /\ pc' = "compose" /\ raised' = raised /\ profile' = ResolvedProfile
            /\ Compatible(preset, ResolvedProfile)
            /\ request'.goals = GoalsOf[preset] /\ request'.disabled = {}
  BY DEF Resolve, Throw
<1>2. preset \in Presets /\ profile = None /\ composition.ids = {} /\ raised = None
  BY <1>1 DEF CliInv, MainInv, MainEnd, ModeInv, ComposedInv, Opening
<1>3. ResolvedProfile \in Profiles
  BY DEF ResolvedProfile, CliInv, InputInv, FileType, Profiles
<1> QED
  BY <1>1, <1>2, <1>3 DEF ComposedInv, Opening, ScanPlace, Phases, None

LEMMA ComposedCompose == ASSUME CliInv, ComposedInv, Compose PROVE ComposedInv'
<1>1. PICK h \in AppHosts :
        \/ /\ Refuses(profile, h, options.target) \/ LacksRunner(profile, h)
           /\ raised' = "internal" /\ pc' = "handle"
           /\ UNCHANGED <<composition, dependencies>>
        \/ /\ composition' = Components(profile, h)
           /\ dependencies' = Dependencies(profile, h)
           /\ pc' = "prepare" /\ raised' = raised
  BY DEF Compose, Throw
<1>2. pc = "compose" /\ UNCHANGED <<request, profile, preset>> /\ raised = None
  BY DEF Compose, CliInv, MainInv, MainEnd
<1>3. CASE pc' = "handle"
  <2>1. profile = "local_smoke"
    BY <1>1, <1>3, RunnerIsThere DEF ComposedInv, Refuses
  <2>2. raised' = "internal" /\ UNCHANGED <<composition, dependencies>>
    BY <1>1, <1>3
  <2> QED
    BY <1>2, <1>3, <2>1, <2>2 DEF ComposedInv, Opening, ScanPlace, Phases
<1>4. CASE pc' # "handle"
  <2>1. /\ composition' = Components(profile, h) /\ dependencies' = Dependencies(profile, h)
        /\ pc' = "prepare" /\ raised' = raised
    BY <1>1, <1>4
  <2>2. Sound(Components(profile, h), profile, Dependencies(profile, h))
    BY ComponentsSound DEF ComposedInv
  <2>3. Sound(composition', profile', dependencies')
    BY <1>2, <2>1, <2>2
  <2>4. composition'.ids # {}
    BY <1>2, <2>3 DEF Sound, CapabilityIds, ComposedInv, BuiltIn
  <2> QED
    BY <1>2, <2>1, <2>3, <2>4 DEF ComposedInv, Opening, ScanPlace, Phases, None
<1> QED
  BY <1>3, <1>4

LEMMA ComposedLoad == ASSUME CliInv, ComposedInv, Load PROVE ComposedInv'
<1>1. /\ pc = "load" /\ UNCHANGED <<composition, dependencies, profile, request>>
      /\ \/ raised' # "internal" /\ pc' = "handle" /\ UNCHANGED preset
         \/ /\ pc' = "resolve" /\ raised' = raised
            /\ preset' = Or(options.preset, configuration'.preset)
  BY DEF Load, Throw
<1>2. configuration' \in FileType
  BY LoadInv DEF CliInv, InputInv
<1>3. preset' \in Presets \cup {None}
  BY <1>1, <1>2 DEF Or, ComposedInv, CliInv, InputInv, CommandLineType, FileType
<1> QED
  BY <1>1, <1>3 DEF ComposedInv, Opening, ScanPlace, Phases, CliInv, MainInv, MainEnd, None

LEMMA ComposedMain ==
  ASSUME CliInv, ComposedInv, Parse \/ Diagnose \/ Caught \/ Write \/ Handle \/ Return
                              \/ InterruptMain \/ UNCHANGED vars
  PROVE  ComposedInv'
<1>1. UNCHANGED <<composition, request, dependencies, profile, preset>>
  <2>1. CASE Parse \/ Diagnose \/ Caught \/ Write
    BY <2>1 DEF Parse, Diagnose, Caught, Write
  <2>2. CASE Handle \/ Return \/ InterruptMain \/ UNCHANGED vars
    BY <2>2 DEF Handle, Return, InterruptMain, vars, cliVars, scanVars
  <2> QED
    BY <2>1, <2>2
<1>2. CASE UNCHANGED vars
  BY <1>1, <1>2 DEF ComposedInv, vars, cliVars, scanVars
<1>3. CASE Parse
  <2>1. pc = "parse" /\ pc' \in {"handle", "help", "doctor", "load"}
        /\ (raised' = "usage" \/ raised' = raised)
    BY <1>3 DEF Parse, Throw
  <2> QED
    BY <1>1, <2>1 DEF ComposedInv, Opening, ScanPlace, Phases
<1>4. CASE Diagnose
  <2>1. pc = "doctor" /\ pc' \in {"handle", "diagnosis"}
    BY <1>4 DEF Diagnose, Throw
  <2> QED
    BY <1>1, <2>1 DEF ComposedInv, Opening, ScanPlace, Phases
<1>5. CASE Caught
  <2>1. pc \in ScanPlace /\ pc' = "handle"
    BY <1>5 DEF Caught, Throw, Raised, ScanPlace
  <2> QED
    BY <1>1, <2>1 DEF ComposedInv, Opening, ScanPlace, Phases
<1>6. CASE Write
  <2>1. pc \in {"help", "diagnosis", "inspection", "result"} /\ pc' \in {"handle", "return"}
        /\ (raised' = "internal" \/ raised' = raised)
    BY <1>6 DEF Write, Throw
  <2> QED
    BY <1>1, <2>1 DEF ComposedInv, Opening, ScanPlace, Phases
<1>7. CASE Handle \/ Return
  <2>1. pc' \in MainEnd /\ raised' = raised
    BY <1>7 DEF Handle, Return, MainEnd, cliVars
  <2> QED
    BY <1>1, <2>1 DEF ComposedInv, Opening, ScanPlace, Phases, MainEnd
<1>8. CASE InterruptMain
  <2>1. pc' \in MainEnd /\ (raised' = raised \/ raised' = "interrupt")
    BY <1>8 DEF InterruptMain, Throw, MainEnd
  <2> QED
    BY <1>1, <2>1 DEF ComposedInv, Opening, ScanPlace, Phases, MainEnd
<1> QED
  BY <1>2, <1>3, <1>4, <1>5, <1>6, <1>7, <1>8

LEMMA ComposedStep == ASSUME CliInv, ComposedInv, [CliNext]_vars PROVE ComposedInv'
  BY ComposedScan, ComposedResolve, ComposedCompose, ComposedLoad, ComposedMain DEF CliNext

\* Steps that leave preflight and the builder alone
LEMMA PreflightKept ==
  ASSUME PreflightInv, UNCHANGED <<composition, dependencies, step, wanted, seen, checks, built>>,
         pc' \notin {"check", "build", "construct"},
         pc' \in {"compose", "prepare", "filter"} \cup Opening =>
           pc \in {"compose", "prepare", "filter"} \cup Opening
  PROVE  PreflightInv'
<1>1. Excused(checks)'
  BY DEF PreflightInv, Excused, Excusable
<1>2. \A r : FoundReady(r)' <=> FoundReady(r)
  BY DEF FoundReady
<1> QED
  BY <1>1, <1>2 DEF PreflightInv

\* What a check that is added does to what was said before.
LEMMA CheckAdded ==
  ASSUME NEW list \in Seq(CheckType), Excused(list), NEW c \in CheckType,
         c.ready \/ Excusable(c)
  PROVE  /\ Append(list, c) \in Seq(CheckType) /\ Excused(Append(list, c))
         /\ \A r : Answered(list, r) => Answered(Append(list, c), r)
         /\ \A r : ~c.ready \/ (r \in composition.present /\ Answers(c, r)) =>
              Answered(Append(list, c), r)
<1>1. /\ Append(list, c) \in Seq(CheckType) /\ Len(Append(list, c)) = Len(list) + 1
      /\ Append(list, c)[Len(list) + 1] = c
      /\ \A i \in 1..Len(list) : Append(list, c)[i] = list[i]
      /\ Len(list) \in Nat
  BY AppendProperties
<1>2. /\ \A i \in 1..(Len(list) + 1) : i \in 1..Len(list) \/ i = Len(list) + 1
      /\ \A i \in 1..Len(list) : i \in 1..(Len(list) + 1)
      /\ Len(list) + 1 \in 1..(Len(list) + 1)
  BY <1>1
<1>3. Excused(Append(list, c))
  BY <1>1, <1>2 DEF Excused
<1>4. ASSUME NEW r, Answered(list, r) PROVE Answered(Append(list, c), r)
  BY <1>1, <1>2, <1>4 DEF Answered
<1>5. ASSUME NEW r, ~c.ready \/ (r \in composition.present /\ Answers(c, r))
      PROVE  Answered(Append(list, c), r)
  BY <1>1, <1>2, <1>5 DEF Answered
<1> QED
  BY <1>1, <1>3, <1>4, <1>5

\* What looking at a requirement of a planned capability does.
LEMMA LookedSoundly ==
  ASSUME BuiltIn, checks \in Seq(CheckType), Excused(checks), NEW r \in Requirements,
         r \in composition.present \/ (r = Vulnerability /\ Vulnerability \notin dependencies),
         r \in Tools => r \in composition.probed,
         (r \in Tools /\ CheckTool(r)) \/ (r \notin Tools /\ CheckProvider(r))
  PROVE  \/ pc' = "internal_error" /\ checks' = checks
         \/ /\ pc' = pc /\ checks' \in Seq(CheckType) /\ Excused(checks')
            /\ Answered(checks', r) /\ \A s : Answered(checks, s) => Answered(checks', s)
<1> DEFINE outcome == composition.probe[r]
<1>1. ASSUME NEW kind \in Kinds, NEW b \in BOOLEAN
      PROVE  /\ Check(kind, r, b) \in CheckType /\ Check(kind, r, b).kind = kind
             /\ Check(kind, r, b).of = r /\ Check(kind, r, b).ready = b
  BY CheckTyped DEF Check
<1>2. CASE r \in Tools /\ CheckTool(r)
  <2>1. r \in composition.present /\ r \in composition.probed
    BY <1>2 DEF BuiltIn, Vulnerability
  <2> DEFINE d == Check("definition", r, TRUE)
             e == Check("executable", r, outcome = "READY")
  <2>2. \/ pc' = "internal_error" /\ checks' = checks
        \/ pc' = pc /\ checks' = Append(Append(checks, d), e)
    BY <1>2, <2>1 DEF CheckTool, Ask
  <2>3. d \in CheckType /\ d.ready /\ e \in CheckType /\ Answers(e, r)
    BY <1>1 DEF Kinds, Answers
  <2>4. e.ready \/ Excusable(e)
    BY <1>1 DEF Kinds, Excusable
  <2> HIDE DEF d, e
  <2>5. /\ Append(checks, d) \in Seq(CheckType) /\ Excused(Append(checks, d))
        /\ \A s : Answered(checks, s) => Answered(Append(checks, d), s)
    BY <2>3, CheckAdded
  <2> DEFINE first == Append(checks, d)
  <2> HIDE DEF first
  <2>6. first \in Seq(CheckType) /\ Excused(first)
    BY <2>5 DEF first
  <2>7. /\ Append(first, e) \in Seq(CheckType) /\ Excused(Append(first, e))
        /\ Answered(Append(first, e), r)
        /\ \A s : Answered(first, s) => Answered(Append(first, e), s)
    BY <2>1, <2>3, <2>4, <2>6, CheckAdded
  <2> QED
    BY <2>2, <2>5, <2>7 DEF first
<1>3. CASE r \notin Tools /\ CheckProvider(r)
  <2>1. ASSUME NEW c \in CheckType, checks' = Append(checks, c), pc' = pc,
               c.ready \/ Excusable(c),
               ~c.ready \/ (r \in composition.present /\ Answers(c, r))
        PROVE  /\ checks' \in Seq(CheckType) /\ Excused(checks') /\ Answered(checks', r)
               /\ \A s : Answered(checks, s) => Answered(checks', s)
    BY <2>1, CheckAdded
  <2>2. CASE r \notin composition.present
    <3> DEFINE c == Check("configuration", r, FALSE)
    <3>1. checks' = Append(checks, c) /\ pc' = pc
      BY <1>3, <2>2 DEF CheckProvider
    <3>2. c \in CheckType /\ c.of = r /\ ~c.ready
      BY <1>1 DEF Kinds
    <3>3. Excusable(c)
      BY <2>2, <3>2 DEF Excusable
    <3> HIDE DEF c
    <3> QED
      BY <2>1, <3>1, <3>2, <3>3
  <2>3. CASE r \in composition.present \ composition.probed
    <3> DEFINE c == Check("configuration", r, TRUE)
    <3>1. checks' = Append(checks, c) /\ pc' = pc
      BY <1>3, <2>3 DEF CheckProvider
    <3>2. c \in CheckType /\ Answers(c, r) /\ c.ready
      BY <1>1 DEF Kinds, Answers
    <3> HIDE DEF c
    <3> QED
      BY <2>1, <2>3, <3>1, <3>2
  <2>4. CASE r \in composition.present \cap composition.probed
    <3> DEFINE c == Check("provider", r, outcome = "READY")
    <3>1. \/ pc' = "internal_error" /\ checks' = checks
          \/ pc' = pc /\ checks' = Append(checks, c)
      BY <1>3, <2>4 DEF CheckProvider, Ask
    <3>2. c \in CheckType /\ Answers(c, r)
      BY <1>1 DEF Kinds, Answers
    <3>3. c.ready \/ Excusable(c)
      BY <1>1 DEF Kinds, Excusable
    <3> HIDE DEF c
    <3> QED
      BY <2>1, <2>4, <3>1, <3>2, <3>3
  <2> QED
    BY <2>2, <2>3, <2>4
<1> QED
  BY <1>2, <1>3

\* A requirement that was answered in a preflight without a failure was found.
LEMMA AnsweredIsFound ==
  ASSUME AllReady, NEW r, Answered(checks, r)
  PROVE  r \in composition.present /\ FoundReady(r)
  BY DEF AllReady, Answered, Answers, FoundReady

\* The steps of a plan are registered.
LEMMA PlannedSteps ==
  ASSUME plan \in Seq(composition.ids)
  PROVE  Len(plan) \in Nat /\ \A i \in 1..Len(plan) : plan[i] \in composition.ids
  BY ElementOfSeq

-----------------------------------------------------------------------------
(* The steps keep PreflightInv.                                                 *)

LEMMA PreflightPlanned ==
  ASSUME CliInv, ComposedInv, PreflightInv, PlanAllowed, dependencies' = dependencies
  PROVE  PreflightInv'
<1>1. /\ pc = "filter" /\ UNCHANGED <<composition, step, wanted, seen, checks, built>>
      /\ \/ pc' = "check" /\ plan' = Plan(Allowed, request.goals)
            /\ Plannable(Allowed, request.goals)
         \/ pc' = "configuration_error"
  BY DEF PlanAllowed
<1>2. CASE pc' = "configuration_error"
  BY <1>1, <1>2, PreflightKept
<1>3. CASE pc' = "check"
  <2>1. step = 1 /\ wanted = {} /\ seen = {} /\ checks = <<>> /\ built = <<>>
    BY <1>1 DEF PreflightInv
  <2>2. /\ request.disabled = {} /\ request.goals # {}
        /\ composition.ids = CapabilityIds(profile)
    BY <1>1 DEF ComposedInv, ScanPlace, Phases, GoalsOf, Presets, Sound
  <2>3. Allowed.ids = composition.ids /\ composition.ids \in SUBSET Ids
    <3>1. Allowed.ids = composition.ids \ {}
      BY <2>2 DEF Allowed
    <3>2. CapabilityIds(profile) \subseteq Ids
      BY DEF ComposedInv, BuiltIn, CapabilityIds, SUBDOMAIN_DISCOVERY, HOST_RESOLUTION,
             HTTP_PROBE, WEB_CRAWL, TECHNOLOGY_DETECTION
    <3> QED
      BY <2>2, <3>1, <3>2
  <2>4. plan' \in Seq(composition.ids)
    BY <1>1, <1>3, <2>2, <2>3, PlanType
  <2>5. Excused(checks)' /\ checks' \in Seq(CheckType) /\ built' \in Seq(Ids)
    BY <1>1, <2>1 DEF Excused
  <2>6. step' \in 1..(Len(plan') + 1) /\ 1..(step' - 1) = {} /\ 1..Len(built') = {}
    BY <1>1, <2>1, <2>4
  <2> QED
    BY <1>1, <1>3, <2>1, <2>4, <2>5, <2>6 DEF PreflightInv, Opening
<1> QED
  BY <1>1, <1>2, <1>3

LEMMA PreflightFactory ==
  ASSUME CliInv, ComposedInv, PreflightInv, CheckFactory, dependencies' = dependencies
  PROVE  PreflightInv'
<1> DEFINE c == plan[step]
           check == Check("factory", c, TRUE)
<1>1. /\ pc = "check" /\ wanted = {} /\ step <= Len(plan)
      /\ UNCHANGED <<composition, pc, plan, seen, built>> /\ step' = step + 1
  BY DEF CheckFactory
<1>2. /\ plan \in Seq(composition.ids) /\ Len(plan) \in Nat /\ step \in 1..(Len(plan) + 1)
      /\ wanted \cup seen \subseteq NeedsOf(plan) /\ built = <<>>
      /\ \A i \in 1..(step - 1) : composition.needs[plan[i]] \subseteq seen \cup wanted
      /\ \A r \in seen : Answered(checks, r)
      /\ checks \in Seq(CheckType) /\ Excused(checks)
  BY <1>1, PlannedSteps DEF PreflightInv
<1>3. step \in 1..Len(plan) /\ c \in composition.ids
  BY <1>1, <1>2, PlannedSteps
<1>4. /\ composition.have = composition.ids /\ composition.misbound = {}
      /\ composition.ids \in SUBSET Ids
  BY <1>3 DEF ComposedInv, Sound, BuiltIn, CapabilityIds, SUBDOMAIN_DISCOVERY,
              HOST_RESOLUTION, HTTP_PROBE, WEB_CRAWL, TECHNOLOGY_DETECTION
<1>5. checks' = Append(checks, check) /\ wanted' = composition.needs[c]
  BY <1>3, <1>4 DEF CheckFactory
<1>6. check \in CheckType /\ check.ready
  BY <1>3, <1>4, CheckTyped DEF Check, Kinds
<1> HIDE DEF check, c
<1>7. /\ checks' \in Seq(CheckType) /\ Excused(checks')
      /\ \A r : Answered(checks, r) => Answered(checks', r)
  BY <1>2, <1>5, <1>6, CheckAdded
<1>8. Excused(checks)' /\ \A r : Answered(checks, r)' <=> Answered(checks', r)
  BY <1>1, <1>7 DEF Excused, Excusable, Answered
<1>9. wanted' \cup seen' \subseteq NeedsOf(plan)'
  BY <1>1, <1>2, <1>3, <1>5 DEF NeedsOf, c
<1>10. ASSUME NEW i \in 1..(step' - 1) PROVE composition.needs[plan[i]] \subseteq seen' \cup wanted'
  <2>1. i \in 1..(step - 1) \/ i = step
    BY <1>1, <1>2
  <2> QED
    BY <1>1, <1>2, <1>5, <2>1 DEF c
<1>11. step' \in 1..(Len(plan') + 1)
  BY <1>1, <1>2, <1>3
<1> QED
  BY <1>1, <1>2, <1>7, <1>8, <1>9, <1>10, <1>11 DEF PreflightInv, Opening

LEMMA PreflightRequirement ==
  ASSUME CliInv, ComposedInv, PreflightInv, CheckRequirement, dependencies' = dependencies
  PROVE  PreflightInv'
<1> DEFINE r == Least(wanted)
<1>1. /\ pc = "check" /\ wanted # {}
      /\ UNCHANGED <<composition, step, plan, built>>
      /\ wanted' = wanted \ {r} /\ seen' = seen \cup {r}
  BY DEF CheckRequirement
<1>2. /\ plan \in Seq(composition.ids) /\ Len(plan) \in Nat /\ step \in 1..(Len(plan) + 1)
      /\ wanted \cup seen \subseteq NeedsOf(plan) /\ built = <<>>
      /\ \A i \in 1..(step - 1) : composition.needs[plan[i]] \subseteq seen \cup wanted
      /\ \A s \in seen : Answered(checks, s)
      /\ checks \in Seq(CheckType) /\ Excused(checks)
  BY <1>1, PlannedSteps DEF PreflightInv
<1>3. ASSUME NEW s \in NeedsOf(plan)
      PROVE  /\ s \in Requirements /\ (s \in Tools => s \in composition.probed)
             /\ s \in composition.present \/ (s = Vulnerability /\ Vulnerability \notin dependencies)
  <2>1. PICK i \in 1..Len(plan) : s \in composition.needs[plan[i]]
    BY DEF NeedsOf
  <2>2. plan[i] \in composition.ids
    BY <1>2, PlannedSteps
  <2> QED
    BY <2>1, <2>2 DEF ComposedInv, Sound
<1>4. r \in wanted
  <2>1. wanted \in SUBSET Nat
    BY <1>2, <1>3, ScanAssumption
  <2> QED
    BY <1>1, <2>1, LeastOf
<1>5. \/ r \in seen /\ UNCHANGED <<pc, checks>>
      \/ r \notin seen /\ r \in Tools /\ CheckTool(r)
      \/ r \notin seen /\ r \notin Tools /\ CheckProvider(r)
  BY DEF CheckRequirement
<1> HIDE DEF r
<1>6. \/ pc' = "internal_error" /\ checks' = checks
      \/ /\ pc' = pc /\ checks' \in Seq(CheckType) /\ Excused(checks')
         /\ Answered(checks', r) /\ \A s : Answered(checks, s) => Answered(checks', s)
  <2>1. CASE r \in seen /\ UNCHANGED <<pc, checks>>
    <3>1. Answered(checks', r)
      BY <1>2, <2>1
    <3> QED
      BY <1>2, <2>1, <3>1
  <2>2. CASE ~(r \in seen /\ UNCHANGED <<pc, checks>>)
    BY <1>2, <1>3, <1>4, <1>5, <2>2, LookedSoundly DEF ComposedInv
  <2> QED
    BY <2>1, <2>2
<1>7. CASE pc' = "internal_error" /\ checks' = checks
  <2>1. Excused(checks)'
    BY <1>1, <1>2, <1>7 DEF Excused, Excusable
  <2> QED
    BY <1>1, <1>2, <1>7, <2>1 DEF PreflightInv, Opening
<1>8. CASE ~(pc' = "internal_error" /\ checks' = checks)
  <2>1. /\ pc' = pc /\ checks' \in Seq(CheckType) /\ Excused(checks')
        /\ Answered(checks', r) /\ \A s : Answered(checks, s) => Answered(checks', s)
    BY <1>6, <1>8
  <2>2. Excused(checks)' /\ \A s : Answered(checks, s)' <=> Answered(checks', s)
    BY <1>1, <2>1 DEF Excused, Excusable, Answered
  <2>3. wanted' \cup seen' = wanted \cup seen /\ NeedsOf(plan)' = NeedsOf(plan)
    BY <1>1, <1>4 DEF NeedsOf
  <2>4. \A s \in seen' : Answered(checks, s)'
    BY <1>1, <1>2, <2>1, <2>2
  <2> QED
    BY <1>1, <1>2, <2>1, <2>2, <2>3, <2>4 DEF PreflightInv, Opening
<1> QED
  BY <1>7, <1>8

LEMMA PreflightDecided ==
  ASSUME PreflightInv, Decide, dependencies' = dependencies
  PROVE  PreflightInv'
<1>1. /\ pc = "check" /\ wanted = {} /\ step > Len(plan)
      /\ UNCHANGED <<composition, plan, step, wanted, seen, checks, built>>
      /\ \/ pc' \in {"inspection", "preflight_error"}
         \/ pc' = "build" /\ AllReady
  BY DEF Decide
<1>2. CASE pc' \in {"inspection", "preflight_error"}
  BY <1>1, <1>2, PreflightKept DEF Opening
<1>3. CASE pc' = "build" /\ AllReady
  <2>1. /\ plan \in Seq(composition.ids) /\ Len(plan) \in Nat /\ step \in 1..(Len(plan) + 1)
        /\ \A i \in 1..(step - 1) : composition.needs[plan[i]] \subseteq seen
        /\ \A r \in seen : Answered(checks, r)
        /\ built = <<>> /\ checks \in Seq(CheckType) /\ Excused(checks)
    BY <1>1, PlannedSteps DEF PreflightInv
  <2>2. step - 1 = Len(plan)
    BY <1>1, <2>1
  <2>3. \A i \in 1..Len(plan) : \A r \in composition.needs[plan[i]] :
          r \in composition.present /\ FoundReady(r)
    BY <1>3, <2>1, <2>2, AnsweredIsFound
  <2>4. Excused(checks)' /\ \A r : FoundReady(r)' <=> FoundReady(r)
    BY <1>1, <2>1 DEF Excused, Excusable, FoundReady
  <2> QED
    BY <1>1, <1>3, <2>1, <2>3, <2>4 DEF PreflightInv, Opening
<1> QED
  BY <1>1, <1>2, <1>3

LEMMA PreflightBuild ==
  ASSUME PreflightInv, StartBuild, dependencies' = dependencies
  PROVE  PreflightInv'
<1>1. /\ pc = "build" /\ pc' \in {"construct", "build_error"}
      /\ UNCHANGED <<composition, plan, step, wanted, seen, checks, built>>
  BY DEF StartBuild
<1>2. Excused(checks)' /\ \A r : FoundReady(r)' <=> FoundReady(r)
  BY <1>1 DEF PreflightInv, Excused, Excusable, FoundReady
<1> QED
  BY <1>1, <1>2 DEF PreflightInv, Opening

LEMMA PreflightConstruct ==
  ASSUME ComposedInv, PreflightInv, Construct, dependencies' = dependencies
  PROVE  PreflightInv'
<1> DEFINE c == plan[Len(built) + 1]
<1>1. /\ pc = "construct" /\ Len(built) < Len(plan)
      /\ UNCHANGED <<composition, plan, step, wanted, seen, checks>>
      /\ \/ pc' = "build_error" /\ UNCHANGED built
         \/ pc' = pc /\ built' = Append(built, c)
  BY DEF Construct
<1>2. CASE pc' = "build_error" /\ UNCHANGED built
  BY <1>1, <1>2, PreflightKept DEF Opening
<1>3. CASE pc' = pc /\ built' = Append(built, c)
  <2>1. /\ plan \in Seq(composition.ids) /\ Len(plan) \in Nat /\ built \in Seq(Ids)
        /\ \A i \in 1..Len(plan) : \A r \in composition.needs[plan[i]] :
             r \in composition.present /\ FoundReady(r)
    BY <1>1, PlannedSteps DEF PreflightInv
  <2>2. Len(built) + 1 \in 1..Len(plan) /\ c \in composition.ids
    <3>1. Len(built) + 1 \in 1..Len(plan)
      BY <1>1, <2>1
    <3> QED
      BY <2>1, <3>1, PlannedSteps
  <2>3. \A r \in composition.needs[c] : r \in composition.present /\ FoundReady(r)
    BY <2>1, <2>2
  <2>4. c \in Ids /\ Wired(c, dependencies) \ {Resolver} \subseteq composition.needs[c]
    BY <2>2, <2>3 DEF ComposedInv, Sound, BuiltIn, CapabilityIds, SUBDOMAIN_DISCOVERY,
                      HOST_RESOLUTION, HTTP_PROBE, WEB_CRAWL, TECHNOLOGY_DETECTION
  <2> HIDE DEF c
  <2>5. /\ built' \in Seq(Ids) /\ Len(built') = Len(built) + 1 /\ built'[Len(built) + 1] = c
        /\ \A i \in 1..Len(built) : built'[i] = built[i]
        /\ Len(built) \in Nat
    BY <1>3, <2>1, <2>4, AppendProperties
  <2>6. ASSUME NEW i \in 1..Len(built'), NEW r \in Wired(built'[i], dependencies) \ {Resolver}
        PROVE  FoundReady(r)
    <3>1. i \in 1..Len(built) \/ i = Len(built) + 1
      BY <2>5
    <3>2. CASE i \in 1..Len(built)
      BY <2>5, <2>6, <3>2 DEF PreflightInv
    <3>3. CASE i = Len(built) + 1
      BY <2>3, <2>4, <2>5, <2>6, <3>3
    <3> QED
      BY <3>1, <3>2, <3>3
  <2>7. Excused(checks)' /\ \A r : FoundReady(r)' <=> FoundReady(r)
    BY <1>1 DEF PreflightInv, Excused, Excusable, FoundReady
  <2> QED
    BY <1>1, <1>3, <2>5, <2>6, <2>7 DEF PreflightInv, Opening
<1> QED
  BY <1>1, <1>2, <1>3

LEMMA PreflightScan == ASSUME CliInv, ComposedInv, PreflightInv, ScanStep PROVE PreflightInv'
<1>1. dependencies' = dependencies
  BY DEF ScanStep, cliVars
<1>2. CASE PlanComplete
  <2>1. /\ pc = "prepare" /\ pc' \in {"filter", "configuration_error"}
        /\ UNCHANGED <<composition, step, wanted, seen, checks, built>>
    BY <1>2 DEF PlanComplete
  <2> QED
    BY <1>1, <2>1, PreflightKept DEF Opening
<1>3. CASE StartRun \/ Attempt \/ Crash \/ Accept
  <2>1. /\ pc' \in {"execute", "accept", "result", "internal_error"}
        /\ UNCHANGED <<composition, step, wanted, seen, checks, built>>
    BY <1>3 DEF StartRun, Attempt, Crash, Accept
  <2> QED
    BY <1>1, <2>1, PreflightKept DEF Opening
<1> QED
  BY <1>1, <1>2, <1>3, PreflightPlanned, PreflightFactory, PreflightRequirement,
     PreflightDecided, PreflightBuild, PreflightConstruct DEF ScanStep, Steps

LEMMA PreflightMain ==
  ASSUME PreflightInv, CliNext \/ UNCHANGED vars, ~ScanStep
  PROVE  PreflightInv'
<1>1. CASE Compose
  <2>1. /\ pc = "compose" /\ pc' \in {"handle", "prepare"}
        /\ UNCHANGED <<plan, step, wanted, seen, checks, built>>
    BY <1>1 DEF Compose, Throw
  <2>2. step = 1 /\ wanted = {} /\ seen = {} /\ checks = <<>> /\ built = <<>>
    BY <2>1 DEF PreflightInv
  <2>3. Excused(checks)' /\ 1..Len(built') = {}
    BY <2>1, <2>2 DEF Excused
  <2> QED
    BY <2>1, <2>2, <2>3 DEF PreflightInv, Opening
<1>2. CASE UNCHANGED vars
  <2>1. Excused(checks)' /\ Excused(checks) /\ NeedsOf(plan)' = NeedsOf(plan)
        /\ (\A r : FoundReady(r)' <=> FoundReady(r))
        /\ (\A r : Answered(checks, r)' <=> Answered(checks, r))
    BY <1>2 DEF PreflightInv, Excused, Excusable, NeedsOf, FoundReady, Answered, vars, scanVars,
                cliVars
  <2> QED
    BY <1>2, <2>1 DEF PreflightInv, vars, scanVars, cliVars
<1>3. CASE Parse \/ Load \/ Resolve \/ Diagnose
  <2>1. /\ pc \in Opening /\ pc' \in Opening \cup {"compose", "handle"}
        /\ UNCHANGED <<composition, dependencies, step, wanted, seen, checks, built>>
    BY <1>3 DEF Parse, Load, Resolve, Diagnose, Throw, Opening
  <2> QED
    BY <2>1, PreflightKept DEF Opening
<1>4. CASE Caught \/ Write \/ Handle \/ Return \/ InterruptMain
  <2>1. pc' \in {"return"} \cup MainEnd
    BY <1>4 DEF Caught, Write, Handle, Return, InterruptMain, Throw, MainEnd
  <2>2. UNCHANGED <<composition, dependencies, step, wanted, seen, checks, built>>
    BY <1>4 DEF Caught, Write, Handle, Return, InterruptMain, cliVars
  <2> QED
    BY <2>1, <2>2, PreflightKept DEF Opening, MainEnd
<1> QED
  BY <1>1, <1>2, <1>3, <1>4 DEF CliNext

(* What configuration and composition let through is sound, whoever the host is:  *)
(* composing fails only for what local smoke refuses, the preset can be planned   *)
(* from the profile's registry, preflight fails only for a probe's answer or the  *)
(* vulnerability provider nobody supplied, and a capability is constructed only   *)
(* around ports and tools that preflight has found (resolve_configuration,        *)
(* ApplicationComposition, ScanPreflight, create_default_factory_registry).       *)
THEOREM ComposedIsSoundHolds == BuiltIn /\ CliSpec => []ComposedIsSound
<1> DEFINE Inv == CliInv /\ ComposedInv /\ PreflightInv
<1>1. BuiltIn /\ CliInit => Inv
  <2> SUFFICES ASSUME BuiltIn, CliInit PROVE ComposedInv /\ PreflightInv
    BY CliInitInv
  <2>1. ComposedInv
    BY DEF CliInit, ComposedInv, NoComposition, Opening, ScanPlace, Phases, None
  <2>2. Excused(checks) /\ 1..Len(built) = {}
    BY DEF CliInit, ScanInit, Excused
  <2>3. PreflightInv
    BY <2>2 DEF CliInit, ScanInit, PreflightInv
  <2> QED
    BY <2>1, <2>3
<1>2. Inv /\ [CliNext]_vars => Inv'
  BY CliStep, ComposedStep, PreflightScan, PreflightMain DEF CliNext
<1>3. Inv => ComposedIsSound
  BY DEF ComposedInv, PreflightInv, ComposedIsSound, Excused
<1> QED
  BY <1>1, <1>2, <1>3, PTL DEF CliSpec
=============================================================================
