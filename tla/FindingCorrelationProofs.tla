----------------------- MODULE FindingCorrelationProofs -----------------------
(***************************************************************************)
(* Proofs about FindingCorrelation, for every collection of records.        *)
(*                                                                          *)
(* The argument rests on GroupInv: the groups partition the records taken   *)
(* so far and any two members of a group may be merged. FamilyInv adds that *)
(* the records taken so far of a family whose members may all be merged are *)
(* one group.                                                               *)
(***************************************************************************)
EXTENDS FindingCorrelation, WellFoundedInduction, TLAPS

-----------------------------------------------------------------------------
(* Comparison *)

\* A nonempty set of references has a primary one.
LEMMA PrimaryOf ==
  ASSUME NEW refs \in SUBSET References, refs # {}
  PROVE  Primary(refs) \in refs
<1>1. refs \subseteq Nat
  BY CorrelationAssumption
<1>2. \A x, y \in Nat : y < x => <<y, x>> \in OpToRel(<, Nat)
  BY DEF OpToRel
<1>3. \E R : /\ IsWellFoundedOn(R, Nat)
             /\ \A x, y \in Nat : y < x => <<y, x>> \in R
  BY <1>2, NatLessThanWellFounded, Zenon
<1>4. PICK R : /\ IsWellFoundedOn(R, Nat)
               /\ \A x, y \in Nat : y < x => <<y, x>> \in R
  BY <1>3
<1>5. PICK x \in refs : \A y \in refs : ~(<<y, x>> \in R)
  BY <1>1, <1>4, WFMin
<1>6. ASSUME NEW y \in refs PROVE x <= y
  <2>1. x \in Nat /\ y \in Nat
    BY <1>1, <1>5
  <2>2. ~(y < x)
    BY <1>4, <1>5, <2>1
  <2>. QED
    BY <2>1, <2>2
<1>. QED
  BY <1>6 DEF Primary

LEMMA IncompatibleSymmetric ==
  ASSUME NEW l \in Records, NEW r \in Records
  PROVE  Incompatible(l, r) <=> Incompatible(r, l)
BY DEF Incompatible, Contradict, ReferencesConflict

\* compare does not depend on the order of its arguments.
LEMMA MergeSymmetric ==
  ASSUME NEW l \in Records, NEW r \in Records
  PROVE  automatic_merge(l, r) <=> automatic_merge(r, l)
<1>1. Incompatible(l, r) <=> Incompatible(r, l)
  BY IncompatibleSymmetric
<1>2. Blocking(l, r) <=> Blocking(r, l)
  BY <1>1 DEF Blocking
<1>3. (Fingerprint(l) = Fingerprint(r)) <=> (Fingerprint(r) = Fingerprint(l))
  OBVIOUS
<1>4. SameConcreteAnchor(l, r) <=> SameConcreteAnchor(r, l)
  BY DEF SameConcreteAnchor
<1>5. Strength(l, r) = Strength(r, l)
  <2>1. CASE Incompatible(l, r)
    BY <2>1, <1>1 DEF Strength
  <2>2. CASE ~Incompatible(l, r) /\ Fingerprint(l) = Fingerprint(r)
    BY <2>2, <1>1 DEF Strength
  <2>3. CASE ~Incompatible(l, r) /\ Fingerprint(l) # Fingerprint(r)
    BY <2>3, <1>1, <1>4 DEF Strength
  <2>. QED
    BY <2>1, <2>2, <2>3
<1>. QED
  BY <1>2, <1>5 DEF automatic_merge

\* Two records of a collection are merged only if they agree and have the same
\* primary reference.
LEMMA MergeMeans ==
  ASSUME NEW l \in Records, NEW r \in Records, Fingerprint(l) # Fingerprint(r),
         automatic_merge(l, r)
  PROVE  /\ ~Incompatible(l, r)
         /\ l.asset = r.asset
         /\ l.refs # {} /\ r.refs # {}
         /\ Primary(l.refs) = Primary(r.refs)
         /\ Primary(l.refs) \in l.refs \cap r.refs
<1>1. ~Incompatible(l, r)
  BY DEF automatic_merge, Blocking
<1>2. SameConcreteAnchor(l, r)
  BY <1>1 DEF automatic_merge, Strength
<1>3. l.refs # {} /\ r.refs # {} /\ Primary(l.refs) = Primary(r.refs)
  BY <1>2 DEF SameConcreteAnchor
<1>4. l.refs \in SUBSET References /\ r.refs \in SUBSET References
  BY DEF Records
<1>5. Primary(l.refs) \in l.refs /\ Primary(r.refs) \in r.refs
  BY <1>3, <1>4, PrimaryOf
<1>. QED
  BY <1>1, <1>3, <1>5 DEF Incompatible

-----------------------------------------------------------------------------
(* The inductive invariant *)

GroupsTyped ==
  groups \subseteq [first : records \ left, members : SUBSET (records \ left)]

Partition ==
  /\ \A g \in groups : g.first \in g.members
  /\ \A r \in records \ left : \E g \in groups : r \in g.members
  /\ \A g, h \in groups : g # h => g.members \cap h.members = {}

PairsMerge ==
  \A g \in groups : \A r, s \in g.members : r # s => automatic_merge(r, s)

GroupInv ==
  /\ records \subseteq Records
  /\ \A r, s \in records : Fingerprint(r) = Fingerprint(s) => r = s
  /\ left \subseteq records
  /\ GroupsTyped
  /\ Partition
  /\ PairsMerge

OutcomeInv ==
  /\ pc \in {"grouping", "done", "too_many", "conflict"}
  /\ unmerged \subseteq SUBSET records
  /\ pc # "done" => findings = {}
  /\ pc = "done" => left = {} /\ findings = {Aggregate(g) : g \in groups}
  /\ pc = "conflict" => left = {} /\ IdentitiesConflict

FamilyInv ==
  \A r \in records : (r.refs # {} /\ Agreed(Family(r))) =>
    \/ Family(r) \subseteq left
    \/ \E g \in groups : g.members = Family(r) \ left

\* Members of a group share their primary reference.
LEMMA MembersShare ==
  ASSUME GroupInv, NEW g \in groups, NEW r \in g.members, NEW s \in g.members,
         r # s
  PROVE  /\ r \in records /\ s \in records
         /\ ~Incompatible(r, s)
         /\ r.asset = s.asset
         /\ r.refs # {} /\ s.refs # {}
         /\ Primary(r.refs) = Primary(s.refs)
         /\ Primary(r.refs) \in r.refs \cap s.refs
<1>1. r \in records /\ s \in records
  BY DEF GroupInv, GroupsTyped
<1>2. r \in Records /\ s \in Records /\ Fingerprint(r) # Fingerprint(s)
  BY <1>1 DEF GroupInv
<1>3. automatic_merge(r, s)
  BY DEF GroupInv, PairsMerge
<1>. QED
  BY <1>1, <1>2, <1>3, MergeMeans

LEMMA InitGroups == Init => GroupInv /\ OutcomeInv /\ FamilyInv
<1>. SUFFICES ASSUME Init PROVE GroupInv /\ OutcomeInv /\ FamilyInv
  OBVIOUS
<1>1. records \subseteq Records /\ \A r, s \in records :
        Fingerprint(r) = Fingerprint(s) => r = s
  BY CorrelationAssumption DEF Init
<1>2. GroupInv
  BY <1>1 DEF Init, GroupInv, GroupsTyped, Partition, PairsMerge
<1>3. OutcomeInv
  BY DEF Init, OutcomeInv
<1>4. FamilyInv
  BY DEF Init, FamilyInv, Family
<1>. QED
  BY <1>2, <1>3, <1>4

\* A record that joins a group may be merged with all its members, and is new.
LEMMA JoinGroups ==
  ASSUME GroupInv, NEW q \in left, left' = left \ {q}, records' = records, Join(q)
  PROVE  GroupInv'
<1>1. PICK g \in groups : /\ Candidates(q) = {g}
                          /\ groups' = (groups \ {g}) \cup {Grown(g, q)}
  BY DEF Join
<1>. DEFINE G == Grown(g, q)
<1>2. /\ g.first \in records \ left /\ g.members \subseteq records \ left
      /\ G = [first |-> g.first, members |-> g.members \cup {q}]
  BY DEF GroupInv, GroupsTyped, Grown
<1>3. \A m \in g.members : automatic_merge(m, q)
  BY <1>1 DEF Candidates
<1>. HIDE DEF G
<1>4. groups' = (groups \ {g}) \cup {G}
  BY <1>1 DEF G
<1>5. q \in records /\ records' = records /\ left' = left \ {q}
  BY DEF GroupInv
<1>6. GroupsTyped'
  BY <1>2, <1>4, <1>5 DEF GroupInv, GroupsTyped
<1>7. Partition'
  <2>1. \A h \in groups : q \notin h.members
    BY DEF GroupInv, GroupsTyped
  <2>2. \A h \in groups' : h.first \in h.members
    BY <1>2, <1>4 DEF GroupInv, Partition
  <2>3. \A r \in records' \ left' : \E h \in groups' : r \in h.members
    BY <1>2, <1>4, <1>5 DEF GroupInv, Partition
  <2>4. \A h \in groups \ {g} : h.members \cap G.members = {}
    BY <1>2, <2>1 DEF GroupInv, Partition
  <2>5. \A h, k \in groups' : h # k => h.members \cap k.members = {}
    BY <1>4, <2>4 DEF GroupInv, Partition
  <2>. QED
    BY <2>2, <2>3, <2>5 DEF Partition
<1>8. PairsMerge'
  <2>. SUFFICES ASSUME NEW h \in groups', NEW r \in h.members, NEW s \in h.members,
                       r # s
                PROVE  automatic_merge(r, s)
    BY DEF PairsMerge, automatic_merge, Strength, Blocking, Incompatible
  <2>1. CASE h \in groups
    BY <2>1 DEF GroupInv, PairsMerge
  <2>2. CASE h = G
    <3>1. CASE r \in g.members /\ s \in g.members
      BY <3>1 DEF GroupInv, PairsMerge
    <3>2. CASE r \in g.members /\ s = q
      BY <3>2, <1>3
    <3>3. CASE r = q /\ s \in g.members
      <4>1. q \in Records /\ s \in Records
        BY <3>3, <1>2, <1>5 DEF GroupInv
      <4>2. automatic_merge(s, q)
        BY <3>3, <1>3
      <4>. QED
        BY <3>3, <4>1, <4>2, MergeSymmetric
    <3>. QED
      BY <2>2, <1>2, <3>1, <3>2, <3>3
  <2>. QED
    BY <1>4, <2>1, <2>2
<1>. QED
  BY <1>5, <1>6, <1>7, <1>8 DEF GroupInv

LEMMA StartGroups ==
  ASSUME GroupInv, NEW q \in left, left' = left \ {q}, records' = records, Start(q)
  PROVE  GroupInv'
<1>. DEFINE G == [first |-> q, members |-> {q}]
<1>1. groups' = groups \cup {G}
  BY DEF Start
<1>2. G.first = q /\ G.members = {q}
  OBVIOUS
<1>3. q \in records /\ records' = records /\ left' = left \ {q}
  BY DEF GroupInv
<1>4. GroupsTyped'
  BY <1>1, <1>3 DEF GroupInv, GroupsTyped
<1>. HIDE DEF G
<1>5. \A h \in groups : q \notin h.members
  BY DEF GroupInv, GroupsTyped
<1>6. Partition'
  <2>1. \A h \in groups' : h.first \in h.members
    BY <1>1, <1>2 DEF GroupInv, Partition
  <2>2. \A r \in records' \ left' : \E h \in groups' : r \in h.members
    BY <1>1, <1>2, <1>3 DEF GroupInv, Partition
  <2>3. \A h, k \in groups' : h # k => h.members \cap k.members = {}
    BY <1>1, <1>2, <1>5 DEF GroupInv, Partition
  <2>. QED
    BY <2>1, <2>2, <2>3 DEF Partition
<1>7. PairsMerge'
  BY <1>1, <1>2 DEF GroupInv, PairsMerge
<1>. QED
  BY <1>3, <1>4, <1>6, <1>7 DEF GroupInv

\* A record that may be merged with one of a family is of the family.
LEMMA MergeKeepsFamily ==
  ASSUME GroupInv, NEW r \in records, r.refs # {}, NEW m \in records,
         NEW q \in records, m # q, automatic_merge(m, q)
  PROVE  m \in Family(r) <=> q \in Family(r)
<1>1. m \in Records /\ q \in Records /\ Fingerprint(m) # Fingerprint(q)
  BY DEF GroupInv
<1>2. /\ m.asset = q.asset /\ m.refs # {} /\ q.refs # {}
      /\ Primary(m.refs) = Primary(q.refs)
  BY <1>1, MergeMeans
<1>. QED
  BY <1>2 DEF Family

\* A candidate group for a record of a family consists of members of the family.
LEMMA CandidateInFamily ==
  ASSUME GroupInv, NEW r \in records, r.refs # {}, NEW q \in left,
         NEW g \in Candidates(q)
  PROVE  /\ g \in groups /\ g.first \in g.members
         /\ \A m \in g.members : /\ m \in records \ left
                                 /\ m \in Family(r) <=> q \in Family(r)
<1>1. g \in groups /\ \A m \in g.members : automatic_merge(m, q)
  BY DEF Candidates
<1>2. g.first \in g.members /\ \A m \in g.members : m \in records \ left
  BY <1>1 DEF GroupInv, GroupsTyped, Partition
<1>3. q \in records /\ \A m \in g.members : m # q
  BY <1>2 DEF GroupInv
<1>. QED
  BY <1>1, <1>2, <1>3, MergeKeepsFamily

LEMMA TakeFamily ==
  ASSUME GroupInv, FamilyInv, NEW q \in left, left' = left \ {q},
         records' = records, Join(q) \/ Start(q)
  PROVE  FamilyInv'
<1>. SUFFICES ASSUME NEW r \in records, r.refs # {}, Agreed(Family(r))
              PROVE  \/ Family(r) \subseteq left'
                     \/ \E g \in groups' : g.members = Family(r) \ left'
  BY DEF FamilyInv, Family
<1>. DEFINE F == Family(r)
<1>1. F \subseteq left \/ \E g \in groups : g.members = F \ left
  BY DEF FamilyInv
<1>2. q \in records /\ F \subseteq records
  BY DEF GroupInv, Family
<1>3. ASSUME NEW g \in groups, g \notin Candidates(q)
      PROVE  g \in groups'
  BY <1>3 DEF Join, Start
<1>4. ASSUME NEW g \in groups, Candidates(q) = {g}
      PROVE  \E h \in groups' : h.members = g.members \cup {q}
  <2>1. Join(q)
    BY <1>4 DEF Start
  <2>2. Grown(g, q) \in groups'
    BY <1>4, <2>1 DEF Join
  <2>3. Grown(g, q).members = g.members \cup {q}
    BY DEF Grown, GroupInv, GroupsTyped
  <2>. QED
    BY <2>2, <2>3
<1>5. ASSUME Candidates(q) = {}
      PROVE  \E h \in groups' : h.members = {q}
  <2>1. [first |-> q, members |-> {q}] \in groups'
    BY <1>5 DEF Join, Start
  <2>. QED
    BY <2>1
<1>6. CASE q \notin F
  <2>1. CASE F \subseteq left
    BY <1>6, <2>1
  <2>2. CASE ~(F \subseteq left)
    <3>1. PICK g \in groups : g.members = F \ left
      BY <1>1, <2>2
    <3>2. PICK m \in F : m \notin left
      BY <2>2
    <3>3. g \notin Candidates(q)
      BY <1>6, <3>1, <3>2, CandidateInFamily
    <3>4. g \in groups' /\ g.members = F \ left'
      BY <1>3, <1>6, <3>1, <3>3
    <3>. QED
      BY <3>4
  <2>. QED
    BY <2>1, <2>2
<1>7. CASE q \in F
  <2>1. CASE F \subseteq left
    <3>1. Candidates(q) = {}
      BY <1>7, <2>1, CandidateInFamily
    <3>2. F \ left' = {q}
      BY <1>7, <2>1
    <3>. QED
      BY <1>5, <3>1, <3>2
  <2>2. CASE ~(F \subseteq left)
    <3>1. PICK g \in groups : g.members = F \ left
      BY <1>1, <2>2
    <3>2. \A m \in g.members : m \in F /\ m # q
      BY <3>1
    <3>3. g \in Candidates(q)
      BY <1>7, <3>2 DEF Agreed, Candidates
    <3>4. ASSUME NEW h \in Candidates(q) PROVE h = g
      <4>1. h \in groups /\ h.first \in h.members /\ h.first \in F \ left
        BY <1>7, CandidateInFamily
      <4>. QED
        BY <3>1, <4>1 DEF GroupInv, Partition
    <3>5. Candidates(q) = {g}
      BY <3>3, <3>4
    <3>6. F \ left' = g.members \cup {q}
      BY <1>7, <3>1
    <3>. QED
      BY <1>4, <3>5, <3>6
  <2>. QED
    BY <2>1, <2>2
<1>. QED
  BY <1>6, <1>7

\* No group is unstable.
LEMMA NoneUnstable ==
  ASSUME GroupInv, NEW g \in groups
  PROVE  ~Unstable(g)
BY MembersShare DEF Unstable

IInv == GroupInv /\ OutcomeInv /\ FamilyInv

LEMMA NextKeepsInvariant == IInv /\ [Next]_vars => IInv'
<1>. SUFFICES ASSUME IInv, [Next]_vars PROVE IInv'
  OBVIOUS
<1>. USE DEF IInv
<1>1. ASSUME NEW q \in left, Take(q) PROVE IInv'
  <2>1. /\ left' = left \ {q} /\ records' = records
        /\ Join(q) \/ Start(q)
        /\ pc = "grouping"
        /\ UNCHANGED <<pc, findings, unmerged>>
    BY <1>1 DEF Take
  <2>2. GroupInv'
    BY <2>1, JoinGroups, StartGroups
  <2>3. FamilyInv'
    BY <2>1, TakeFamily
  <2>4. OutcomeInv'
    BY <2>1 DEF OutcomeInv
  <2>. QED
    BY <2>2, <2>3, <2>4
<1>2. ASSUME Finish PROVE IInv'
  <2>1. pc = "grouping" /\ left = {} /\ UNCHANGED <<records, left, groups>>
    BY <1>2 DEF Finish
  <2>2. GroupInv'
    BY <2>1 DEF GroupInv, GroupsTyped, Partition, PairsMerge
  <2>3. FamilyInv'
    BY <2>1 DEF FamilyInv, Family
  <2>4. pc' = IF IdentitiesConflict THEN "conflict" ELSE "done"
    BY <1>2, NoneUnstable DEF Finish
  <2>5. IdentitiesConflict' <=> IdentitiesConflict
    BY <2>1 DEF IdentitiesConflict, AnchorFor, Common
  <2>6. {Aggregate(g) : g \in groups}' = {Aggregate(g) : g \in groups}
    BY <2>1 DEF Aggregate, AnchorFor, Common
  <2>7. CASE IdentitiesConflict
    <3>1. pc' = "conflict"
      BY <2>4, <2>7
    <3>2. findings' = findings /\ unmerged' = unmerged
      BY <1>2, <3>1 DEF Finish
    <3>. QED
      BY <2>1, <2>2, <2>3, <2>5, <2>7, <3>1, <3>2 DEF OutcomeInv
  <2>8. CASE ~IdentitiesConflict
    <3>1. pc' = "done"
      BY <2>4, <2>8
    <3>2. findings' = {Aggregate(g) : g \in groups} /\ unmerged' \subseteq SUBSET records
      BY <1>2, <3>1 DEF Finish
    <3>. QED
      BY <2>1, <2>2, <2>3, <2>6, <3>1, <3>2 DEF OutcomeInv
  <2>. QED
    BY <2>2, <2>3, <2>7, <2>8
<1>3. CASE UNCHANGED vars
  <2>1. GroupInv'
    BY <1>3 DEF vars, GroupInv, GroupsTyped, Partition, PairsMerge
  <2>2. FamilyInv'
    BY <1>3 DEF vars, FamilyInv, Family
  <2>3. OutcomeInv'
    BY <1>3 DEF vars, OutcomeInv, IdentitiesConflict, AnchorFor, Common, Aggregate
  <2>. QED
    BY <2>1, <2>2, <2>3
<1>. QED
  BY <1>1, <1>2, <1>3 DEF Next

LEMMA InvariantHolds == Spec => []IInv
<1>1. Init => IInv
  BY InitGroups DEF IInv
<1>. QED
  BY <1>1, NextKeepsInvariant, PTL DEF Spec

-----------------------------------------------------------------------------
(* Theorems *)

\* Every reachable state of correlation is well typed.
THEOREM TypeCorrect == Spec => []TypeOK
<1>1. IInv => TypeOK
  BY DEF IInv, GroupInv, GroupsTyped, OutcomeInv, TypeOK
<1>. QED
  BY <1>1, InvariantHolds, PTL

\* Whatever the records, the members of a group agree on subject and references
\* and have the same primary reference.
THEOREM MergedAgreeHolds == Spec => []MergedAgree
<1>1. IInv => MergedAgree
  BY MembersShare DEF IInv, MergedAgree
<1>. QED
  BY <1>1, InvariantHolds, PTL

\* A group of two or more has a common reference.
LEMMA LoneWithoutCommon ==
  ASSUME GroupInv, NEW g \in groups, Common(g) = {}
  PROVE  g.members = {g.first}
<1>1. g.first \in g.members
  BY DEF GroupInv, Partition
<1>2. ASSUME NEW r \in g.members, r # g.first
      PROVE  FALSE
  <2>. DEFINE x == Primary(g.first.refs)
  <2>1. x \in g.first.refs
    BY <1>1, <1>2, MembersShare
  <2>2. \A s \in g.members : x \in s.refs
    BY <1>1, <2>1, MembersShare
  <2>3. g.first \in Records
    BY <1>1 DEF GroupInv, GroupsTyped
  <2>4. x \in References
    BY <2>1, <2>3 DEF Records
  <2>. HIDE DEF x
  <2>5. x \in Common(g)
    BY <2>2, <2>4 DEF Common
  <2>. QED
    BY <2>5
<1>. QED
  BY <1>1, <1>2

LEMMA OnlyOf ==
  ASSUME NEW x, NEW V, x \in V, \A y \in V : y = x
  PROVE  Only(V) = x
<1>1. V = {x}
  OBVIOUS
<1>. QED
  BY <1>1 DEF Only

LEMMA OnlyFrom ==
  ASSUME NEW V, Only(V) # None
  PROVE  Only(V) \in V
BY DEF Only

\* The anchor of a group has the subject of its members.
LEMMA AnchorSubject ==
  ASSUME GroupInv, NEW g \in groups
  PROVE  LET a == AnchorFor(g)
         IN /\ \A r \in g.members :
                 /\ a.asset = r.asset
                 /\ r.endpoint # None => a.endpoint = r.endpoint
                 /\ r.technology # None => a.technology = r.technology
            /\ a.endpoint # None => \E r \in g.members : r.endpoint = a.endpoint
            /\ a.technology # None =>
                 \E r \in g.members : r.technology = a.technology
<1>. DEFINE E == {s.endpoint : s \in g.members} \ {None}
            T == {s.technology : s \in g.members} \ {None}
<1>1. g.first \in g.members
  BY DEF GroupInv, Partition
<1>2. CASE Common(g) = {}
  <2>1. g.members = {g.first}
    BY <1>2, LoneWithoutCommon
  <2>2. /\ AnchorFor(g).asset = g.first.asset
        /\ AnchorFor(g).endpoint = g.first.endpoint
        /\ AnchorFor(g).technology = g.first.technology
    BY <1>2 DEF AnchorFor
  <2>. QED
    BY <2>1, <2>2
<1>3. CASE Common(g) # {}
  <2>1. /\ AnchorFor(g).asset = g.first.asset
        /\ AnchorFor(g).endpoint = Only(E)
        /\ AnchorFor(g).technology = Only(T)
    BY <1>3 DEF AnchorFor
  <2>2. \A r \in g.members : r.asset = g.first.asset
    BY <1>1, MembersShare
  <2>3. ASSUME NEW r \in g.members, r.endpoint # None
        PROVE  Only(E) = r.endpoint
    <3>1. r.endpoint \in E
      BY <2>3
    <3>2. \A s \in g.members : s.endpoint # None => s.endpoint = r.endpoint
      BY <2>3, MembersShare DEF Incompatible, Contradict
    <3>3. \A y \in E : y = r.endpoint
      BY <3>2
    <3>. QED
      BY <3>1, <3>3, OnlyOf
  <2>4. ASSUME NEW r \in g.members, r.technology # None
        PROVE  Only(T) = r.technology
    <3>1. r.technology \in T
      BY <2>4
    <3>2. \A s \in g.members : s.technology # None => s.technology = r.technology
      BY <2>4, MembersShare DEF Incompatible, Contradict
    <3>3. \A y \in T : y = r.technology
      BY <3>2
    <3>. QED
      BY <3>1, <3>3, OnlyOf
  <2>5. Only(E) # None => \E r \in g.members : r.endpoint = Only(E)
    BY OnlyFrom
  <2>6. Only(T) # None => \E r \in g.members : r.technology = Only(T)
    BY OnlyFrom
  <2>. HIDE DEF E, T
  <2>. QED
    BY <2>1, <2>2, <2>3, <2>4, <2>5, <2>6
<1>. QED
  BY <1>2, <1>3

\* A finding keeps every explicit endpoint and technology of its sources.
THEOREM SubjectRetainedHolds == Spec => []SubjectRetained
<1>1. IInv => SubjectRetained
  <2>. SUFFICES ASSUME IInv, NEW f \in findings
                PROVE  /\ \A r \in f.sources :
                            /\ f.anchor.asset = r.asset
                            /\ r.endpoint # None => f.anchor.endpoint = r.endpoint
                            /\ r.technology # None => f.anchor.technology = r.technology
                       /\ f.anchor.endpoint # None =>
                            \E r \in f.sources : r.endpoint = f.anchor.endpoint
                       /\ f.anchor.technology # None =>
                            \E r \in f.sources : r.technology = f.anchor.technology
    BY DEF SubjectRetained
  <2>1. PICK g \in groups : f = Aggregate(g)
    BY DEF IInv, OutcomeInv
  <2>2. f.anchor = AnchorFor(g) /\ f.sources = g.members
    BY <2>1 DEF Aggregate
  <2>. QED
    BY <2>2, AnchorSubject DEF IInv
<1>. QED
  BY <1>1, InvariantHolds, PTL

\* Every record ends up in exactly one finding.
THEOREM EverySourceOnceHolds == Spec => []EverySourceOnce
<1>1. IInv => EverySourceOnce
  <2>. SUFFICES ASSUME IInv, pc = "done", NEW r \in records
                PROVE  \E f \in findings :
                         /\ r \in f.sources
                         /\ \A h \in findings : r \in h.sources => h = f
    BY DEF EverySourceOnce
  <2>1. left = {} /\ findings = {Aggregate(g) : g \in groups}
    BY DEF IInv, OutcomeInv
  <2>2. PICK g \in groups : r \in g.members
    BY <2>1 DEF IInv, GroupInv, Partition
  <2>3. \A h \in groups : r \in h.members => h = g
    BY <2>2 DEF IInv, GroupInv, Partition
  <2>4. \A h \in groups : Aggregate(h).sources = h.members
    BY DEF Aggregate
  <2>5. Aggregate(g) \in findings /\ r \in Aggregate(g).sources
    BY <2>1, <2>2, <2>4
  <2>6. \A h \in findings : r \in h.sources => h = Aggregate(g)
    BY <2>1, <2>3, <2>4
  <2>. QED
    BY <2>5, <2>6
<1>. QED
  BY <1>1, InvariantHolds, PTL

\* Records about one vulnerability that may all be merged become one finding, in
\* whatever order they are taken and whatever else the collection holds.
THEOREM AgreedFamilyMergesHolds == Spec => []AgreedFamilyMerges
<1>1. IInv => AgreedFamilyMerges
  <2>. SUFFICES ASSUME IInv, pc = "done", NEW r \in records, r.refs # {},
                       Agreed(Family(r))
                PROVE  \E f \in findings : f.sources = Family(r)
    BY DEF AgreedFamilyMerges
  <2>1. left = {} /\ findings = {Aggregate(g) : g \in groups}
    BY DEF IInv, OutcomeInv
  <2>2. r \in Family(r)
    BY DEF Family
  <2>3. PICK g \in groups : g.members = Family(r)
    BY <2>1, <2>2 DEF IInv, FamilyInv
  <2>4. Aggregate(g) \in findings /\ Aggregate(g).sources = Family(r)
    BY <2>1, <2>3 DEF Aggregate
  <2>. QED
    BY <2>4
<1>. QED
  BY <1>1, InvariantHolds, PTL

\* _anchor_for never raises, and conflicting identities need two records about one
\* vulnerability of one asset that may not be merged.
THEOREM ConflictNeedsDisagreementHolds == Spec => []ConflictNeedsDisagreement
<1>1. IInv => ConflictNeedsDisagreement
  <2>. SUFFICES ASSUME IInv, pc = "conflict",
                       \A r \in records : r.refs # {} => Agreed(Family(r))
                PROVE  FALSE
    BY DEF ConflictNeedsDisagreement, IInv, OutcomeInv
  <2>1. left = {} /\ IdentitiesConflict
    BY DEF IInv, OutcomeInv
  <2>2. PICK g \in groups, h \in groups : g # h /\ AnchorFor(g) = AnchorFor(h)
    BY <2>1 DEF IdentitiesConflict
  <2>3. /\ g.first \in g.members /\ h.first \in h.members
        /\ g.first \in records /\ h.first \in records
    BY DEF IInv, GroupInv, GroupsTyped, Partition
  <2>4. g.members \cap h.members = {}
    BY <2>2 DEF IInv, GroupInv, Partition
  <2>5. (Common(g) = {}) <=> (Common(h) = {})
    <3>1. AnchorFor(g).kind = AnchorFor(h).kind
      BY <2>2
    <3>2. \A k \in groups : AnchorFor(k).kind =
            IF Common(k) # {} THEN "concrete_reference" ELSE "classification_subject"
      BY DEF AnchorFor
    <3>. QED
      BY <3>1, <3>2
  <2>6. CASE Common(g) = {}
    <3>1. \A k \in {g, h} : /\ AnchorFor(k).of = k.first.cls
                            /\ AnchorFor(k).asset = k.first.asset
                            /\ AnchorFor(k).endpoint = k.first.endpoint
                            /\ AnchorFor(k).technology = k.first.technology
      BY <2>5, <2>6 DEF AnchorFor
    <3>2. Fingerprint(g.first) = Fingerprint(h.first)
      BY <2>2, <3>1 DEF Fingerprint
    <3>3. g.first = h.first
      BY <2>3, <3>2 DEF IInv, GroupInv
    <3>. QED
      BY <2>3, <2>4, <3>3
  <2>7. CASE Common(g) # {}
    <3>1. \A k \in {g, h} : /\ AnchorFor(k).of = Primary(k.first.refs)
                            /\ AnchorFor(k).asset = k.first.asset
      BY <2>5, <2>7 DEF AnchorFor
    <3>2. Family(g.first) = Family(h.first)
      BY <2>2, <3>1 DEF Family
    <3>3. ASSUME NEW k \in {g, h} PROVE k.members = Family(k.first)
      <4>1. k.first.refs # {}
        BY <2>3, <2>5, <2>7 DEF Common
      <4>2. k.first \in Family(k.first)
        BY <2>3, <4>1 DEF Family
      <4>3. PICK j \in groups : j.members = Family(k.first)
        BY <2>1, <2>3, <4>1, <4>2 DEF IInv, FamilyInv
      <4>4. k.first \in k.members /\ k \in groups
        BY <2>3
      <4>. QED
        BY <4>2, <4>3, <4>4 DEF IInv, GroupInv, Partition
    <3>. QED
      BY <2>3, <2>4, <3>2, <3>3
  <2>. QED
    BY <2>6, <2>7
<1>. QED
  BY <1>1, InvariantHolds, PTL
==============================================================================
