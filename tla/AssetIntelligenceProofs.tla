----------------------- MODULE AssetIntelligenceProofs -----------------------
(***************************************************************************)
(* The identity index is correct for every set of observations: IInv is     *)
(* inductive and implies each invariant of AssetIntelligence.               *)
(***************************************************************************)
EXTENDS AssetIntelligence, WellFoundedInduction, TLAPS

\* A nonempty set of aliases has a least one.
LEMMA LeastOf ==
  ASSUME NEW A \in SUBSET Aliases, A # {}
  PROVE  Least(A) \in A
<1>1. A \subseteq Nat
  BY AliasAssumption
<1>2. \A x, y \in Nat : y < x => <<y, x>> \in OpToRel(<, Nat)
  BY DEF OpToRel
<1>3. \E R : /\ IsWellFoundedOn(R, Nat)
             /\ \A x, y \in Nat : y < x => <<y, x>> \in R
  BY <1>2, NatLessThanWellFounded, Zenon
<1>4. PICK R : /\ IsWellFoundedOn(R, Nat)
               /\ \A x, y \in Nat : y < x => <<y, x>> \in R
  BY <1>3
<1>5. PICK x \in A : \A y \in A : ~(<<y, x>> \in R)
  BY <1>1, <1>4, WFMin
<1>6. ASSUME NEW y \in A PROVE x <= y
  <2>1. x \in Nat /\ y \in Nat
    BY <1>1, <1>5
  <2>2. ~(y < x)
    BY <1>4, <1>5, <2>1
  <2>. QED
    BY <2>1, <2>2
<1>. QED
  BY <1>6 DEF Least

-----------------------------------------------------------------------------
(* The inductive invariant *)

USE AliasAssumption, ObservationAssumption

Processed == input \ todo

Active == IF pc = "merge" THEN Processed \cup {current} ELSE Processed

\* An asset never grows over a set that no observation crosses.
ComponentsInv ==
  \A S \in SUBSET Aliases :
    Respects(S, Active) =>
      \A b \in builders : content[b].aliases \subseteq S \/ content[b].aliases \cap S = {}

\* What the local variables of add mean while builders are merged.
MergeInv ==
  /\ pc # "merge" => rest = {}
  /\ pc = "merge" =>
       /\ current \in todo
       /\ current.kind = "host" \/ current.aliases # {}
       /\ dest \in builders /\ dest \notin rest
       /\ current \in builders => dest = current
       /\ \A b \in rest : content[b].aliases \cap current.aliases # {}
       /\ \/ content[dest].aliases \cap current.aliases # {}
          \/ rest = {} /\ dest = current /\ content[dest] = Empty
       /\ \A a \in current.aliases : byAlias[a] \in rest \cup {dest, None}

Kept == {"host", "endpoint"}

PlacedInv ==
  /\ builders \subseteq Active
  /\ \A o \in Processed : o.aliases # {} =>
       \E b \in builders : o.aliases \subseteq content[b].aliases
  /\ \A b \in builders : \A m \in content[b].members :
       m \in Processed /\ m.aliases \subseteq content[b].aliases
  /\ \A o \in Processed : (o.kind \in Kept /\ o.aliases # {}) =>
       \E b \in builders : o \in content[b].members

\* A builder without aliases was made for a host without any.
NamedInv ==
  \A b \in builders : content[b].aliases = {} =>
    (pc = "merge" /\ b = current) \/ (b.kind = "host" /\ b.aliases = {})

OutcomeInv ==
  /\ pc # "done" => assets = {} /\ linked = {}
  /\ pc = "done" =>
       /\ todo = {}
       /\ \A b \in builders : content[b].aliases # {}
       /\ assets = {Asset(b) : b \in builders}
       /\ linked = {[asset |-> Asset(Found(t)).name, technology |-> t] :
                      t \in {u \in Sourced : Found(u) # None}}
  /\ pc = "raised" => \E o \in input : o.kind = "host" /\ o.aliases = {}

\* The state of the index; assets and linked are left to OutcomeInv.
IndexType ==
  /\ input \subseteq Observations /\ todo \subseteq input
  /\ pc \in {"observe", "merge", "done", "raised"}
  /\ current \in input \cup {None}
  /\ dest \in Observations \cup {None}
  /\ rest \subseteq builders
  /\ builders \subseteq input
  /\ content \in [Observations -> Contents]
  /\ byAlias \in [Aliases -> builders \cup {None}]

IndexInv == IndexType /\ IndexIsPartition /\ ComponentsInv /\ MergeInv
              /\ PlacedInv /\ NamedInv

IInv == IndexInv /\ OutcomeInv

-----------------------------------------------------------------------------
(* Init, and the steps that only prepare an addition *)

LEMMA InitInv == Init => IInv
<1>. SUFFICES ASSUME Init PROVE IInv
  OBVIOUS
<1>. USE DEF Init
<1>1. IndexType
  BY DEF IndexType, Empty, Contents
<1>2. IndexIsPartition /\ ComponentsInv /\ MergeInv /\ PlacedInv /\ NamedInv
  BY DEF IndexIsPartition, ComponentsInv, MergeInv, PlacedInv, NamedInv, Processed
<1>3. OutcomeInv
  BY DEF OutcomeInv
<1>. QED
  BY <1>1, <1>2, <1>3 DEF IInv, IndexInv

LEMMA SkipInv == ASSUME IInv, NEW o \in todo, Skip(o) PROVE IInv'
<1>. USE DEF Skip, IInv, IndexInv
<1>1. IndexType' /\ IndexIsPartition'
  BY DEF IndexType, IndexIsPartition
<1>2. /\ Processed' = Processed \cup {o} /\ o.aliases = {} /\ o \in Observations
      /\ Active' = Active \cup {o} /\ Active = Processed
  BY DEF Processed, Active, IndexType
<1>3. ComponentsInv'
  <2>. SUFFICES ASSUME NEW S \in SUBSET Aliases, Respects(S, Active'), NEW b \in builders
                PROVE  content[b].aliases \subseteq S \/ content[b].aliases \cap S = {}
    BY DEF ComponentsInv, Respects
  <2>1. Respects(S, Active)
    BY <1>2 DEF Respects
  <2>. QED
    BY <2>1 DEF ComponentsInv
<1>4. MergeInv' /\ NamedInv' /\ OutcomeInv'
  BY DEF MergeInv, NamedInv, OutcomeInv
<1>5. PlacedInv'
  BY <1>2 DEF PlacedInv, Kept
<1>. QED
  BY <1>1, <1>3, <1>4, <1>5

LEMMA BeginInv == ASSUME IInv, NEW o \in todo, Begin(o) PROVE IInv'
<1>. USE DEF Begin, IInv, IndexInv
<1>1. /\ o \in Observations /\ o \in input /\ o \notin Processed /\ o \notin builders
      /\ pc = "observe" /\ Active = Processed /\ Processed' = Processed
      /\ Active' = Processed \cup {o} /\ o.aliases \in SUBSET Aliases
  BY DEF Processed, Active, IndexType, PlacedInv
<1>2. OutcomeInv'
  BY DEF OutcomeInv
<1>3. CASE Existing(o.aliases) # {}
  <2>1. PICK b \in Existing(o.aliases) : dest' = b /\ rest' = Existing(o.aliases) \ {b}
    BY <1>3
  <2>2. UNCHANGED <<input, todo, builders, content, byAlias>>
    BY <1>3
  <2>3. \A c \in Existing(o.aliases) :
          c \in builders /\ content[c].aliases \cap o.aliases # {}
    BY <1>1 DEF Existing, IndexIsPartition
  <2>4. IndexType'
    BY <1>1, <2>1, <2>2, <2>3 DEF IndexType
  <2>5. IndexIsPartition' /\ NamedInv'
    BY <1>1, <2>2 DEF IndexIsPartition, NamedInv
  <2>6. MergeInv'
    BY <1>1, <2>1, <2>2, <2>3 DEF MergeInv, Existing
  <2>7. ComponentsInv'
    BY <1>1, <2>2 DEF ComponentsInv, Respects
  <2>8. PlacedInv'
    BY <1>1, <2>2 DEF PlacedInv
  <2>. QED
    BY <1>2, <2>4, <2>5, <2>6, <2>7, <2>8
<1>4. CASE Existing(o.aliases) = {}
  <2>1. /\ dest' = o /\ rest' = {} /\ builders' = builders \cup {o}
        /\ content' = [content EXCEPT ![o] = Empty]
        /\ UNCHANGED <<input, todo, byAlias>>
    BY <1>4
  <2>2. /\ content'[o] = Empty
        /\ \A b \in builders : content'[b] = content[b]
    BY <1>1, <2>1 DEF IndexType
  <2>3. IndexType'
    BY <1>1, <2>1 DEF IndexType, Contents, Empty
  <2>4. IndexIsPartition' /\ NamedInv'
    BY <1>1, <2>1, <2>2 DEF IndexIsPartition, NamedInv, Empty, IndexType
  <2>5. MergeInv'
    BY <1>1, <1>4, <2>1, <2>2 DEF MergeInv, Existing
  <2>6. ComponentsInv'
    BY <1>1, <2>1, <2>2 DEF ComponentsInv, Respects, Empty
  <2>7. PlacedInv'
    BY <1>1, <2>1, <2>2 DEF PlacedInv, Empty
  <2>. QED
    BY <1>2, <2>3, <2>4, <2>5, <2>6, <2>7
<1>. QED
  BY <1>3, <1>4

-----------------------------------------------------------------------------
(* One merge *)

LEMMA MergeStep == ASSUME IInv, NEW source \in rest, Merge(source) PROVE IInv'
<1>. USE DEF IInv, IndexInv
<1>1. /\ pc = "merge" /\ pc' = "merge" /\ current \in todo /\ current \in input
      /\ dest \in builders /\ source \in builders /\ dest # source
      /\ builders \subseteq Observations /\ dest \in Observations /\ source \in Observations
      /\ UNCHANGED <<input, todo, current, dest, assets, linked>>
      /\ rest' = rest \ {source}
  BY DEF Merge, MergeInv, IndexType
<1>2. /\ content[dest].aliases \cap current.aliases # {}
      /\ content[source].aliases \cap current.aliases # {}
  BY <1>1 DEF MergeInv
<1>3. /\ content'[dest].aliases = content[dest].aliases \cup content[source].aliases
      /\ content'[dest].members = content[dest].members \cup content[source].members
      /\ \A b \in builders \ {dest} : content'[b] = content[b]
      /\ content' \in [Observations -> Contents]
  BY <1>1 DEF Merge, IndexType, Contents
<1>4. \A a \in Aliases : byAlias'[a] = IF a \in content[source].aliases THEN dest
                                       ELSE byAlias[a]
  BY DEF Merge
<1>5. builders' = builders \ {source}
  <2>1. PICK b \in builders : content'[b] = content'[source] /\ builders' = builders \ {b}
    BY DEF Merge
  <2>2. content'[source] = content[source]
    BY <1>1, <1>3
  <2>3. \A x, y \in builders :
          content[x].aliases \cap content[y].aliases # {} => x = y
    BY <1>1 DEF IndexIsPartition
  <2>4. b = source
    <3>1. ASSUME b = dest PROVE FALSE
      <4>1. content[dest].aliases \subseteq content[source].aliases
        BY <1>3, <2>1, <2>2, <3>1
      <4>2. content[dest].aliases \cap content[source].aliases # {}
        BY <1>2, <4>1
      <4>. QED
        BY <1>1, <2>3, <4>2
    <3>2. ASSUME b # dest PROVE b = source
      <4>1. content[b] = content[source]
        BY <1>3, <2>1, <2>2, <3>2
      <4>. QED
        BY <1>1, <1>2, <2>3, <4>1
    <3>. QED
      BY <3>1, <3>2
  <2>. QED
    BY <2>1, <2>4
<1>6. \A a \in Aliases : byAlias[a] = source => a \in content[source].aliases
  BY <1>1 DEF IndexIsPartition, IndexType
<1>7. IndexType'
  <2>1. byAlias' \in [Aliases -> builders' \cup {None}]
    BY <1>1, <1>4, <1>5, <1>6 DEF IndexType, Merge
  <2>. QED
    BY <1>1, <1>3, <1>5, <2>1 DEF IndexType
<1>8. IndexIsPartition'
  <2>1. ASSUME NEW b \in builders', NEW a \in content'[b].aliases PROVE byAlias'[a] = b
    <3>1. a \in Aliases
      BY <1>1, <1>3, <1>5 DEF Contents
    <3>2. CASE b = dest
      BY <1>1, <1>3, <1>4, <2>1, <3>1, <3>2 DEF IndexIsPartition
    <3>3. CASE b # dest
      BY <1>1, <1>3, <1>4, <1>5, <2>1, <3>1, <3>3 DEF IndexIsPartition
    <3>. QED
      BY <3>2, <3>3
  <2>2. ASSUME NEW a \in Aliases, byAlias'[a] # None
        PROVE  byAlias'[a] \in builders' /\ a \in content'[byAlias'[a]].aliases
    <3>1. CASE a \in content[source].aliases
      BY <1>1, <1>3, <1>4, <1>5, <3>1
    <3>2. CASE a \notin content[source].aliases
      <4>1. byAlias'[a] = byAlias[a] /\ byAlias[a] \in builders /\ a \in content[byAlias[a]].aliases
        BY <1>4, <2>2, <3>2 DEF IndexIsPartition
      <4>2. byAlias[a] # source
        BY <1>6, <3>2
      <4>. QED
        BY <1>3, <1>5, <4>1, <4>2
    <3>. QED
      BY <3>1, <3>2
  <2>. QED
    BY <2>1, <2>2 DEF IndexIsPartition
<1>9. Processed' = Processed /\ Active' = Active /\ Active = Processed \cup {current}
  BY <1>1 DEF Processed, Active
<1>10. ComponentsInv'
  <2>. SUFFICES ASSUME NEW S \in SUBSET Aliases, Respects(S, Active), NEW b \in builders'
                PROVE  content'[b].aliases \subseteq S \/ content'[b].aliases \cap S = {}
    BY <1>9 DEF ComponentsInv, Respects
  <2>1. \A c \in builders : content[c].aliases \subseteq S \/ content[c].aliases \cap S = {}
    BY DEF ComponentsInv
  <2>2. current.aliases \subseteq S \/ current.aliases \cap S = {}
    BY <1>9 DEF Respects
  <2>3. CASE b = dest
    BY <1>1, <1>2, <1>3, <2>1, <2>2, <2>3
  <2>4. CASE b # dest
    BY <1>3, <1>5, <2>1, <2>4
  <2>. QED
    BY <2>3, <2>4
<1>11. MergeInv'
  <2>1. \A b \in rest' : content'[b].aliases \cap current.aliases # {}
    BY <1>1, <1>3 DEF MergeInv, IndexType
  <2>2. content'[dest].aliases \cap current.aliases # {}
    BY <1>2, <1>3
  <2>3. \A a \in current.aliases : byAlias'[a] \in rest' \cup {dest, None}
    <3>1. \A a \in current.aliases : a \in Aliases /\ byAlias[a] \in rest \cup {dest, None}
      BY <1>1 DEF MergeInv, IndexType
    <3>. QED
      BY <1>1, <1>4, <1>6, <3>1
  <2>. QED
    BY <1>1, <1>5, <2>1, <2>2, <2>3 DEF MergeInv
<1>12. PlacedInv'
  <2>1. builders' \subseteq Active'
    BY <1>5, <1>9 DEF PlacedInv
  <2>2. \A b \in builders : \E c \in builders' :
          /\ content[b].aliases \subseteq content'[c].aliases
          /\ content[b].members \subseteq content'[c].members
    <3>. SUFFICES ASSUME NEW b \in builders
                  PROVE  \E c \in builders' :
                           /\ content[b].aliases \subseteq content'[c].aliases
                           /\ content[b].members \subseteq content'[c].members
      OBVIOUS
    <3>1. CASE b \in {source, dest}
      BY <1>1, <1>3, <1>5, <3>1
    <3>2. CASE b \notin {source, dest}
      BY <1>3, <1>5, <3>2
    <3>. QED
      BY <3>1, <3>2
  <2>3. \A o \in Processed : o.aliases # {} =>
          \E b \in builders' : o.aliases \subseteq content'[b].aliases
    BY <2>2 DEF PlacedInv
  <2>4. \A o \in Processed : (o.kind \in Kept /\ o.aliases # {}) =>
          \E b \in builders' : o \in content'[b].members
    BY <2>2 DEF PlacedInv
  <2>5. \A b \in builders' : \A m \in content'[b].members :
          m \in Processed /\ m.aliases \subseteq content'[b].aliases
    <3>. SUFFICES ASSUME NEW b \in builders', NEW m \in content'[b].members
                  PROVE  m \in Processed /\ m.aliases \subseteq content'[b].aliases
      OBVIOUS
    <3>1. CASE b = dest
      BY <1>1, <1>3, <3>1 DEF PlacedInv
    <3>2. CASE b # dest
      BY <1>3, <1>5, <3>2 DEF PlacedInv
    <3>. QED
      BY <3>1, <3>2
  <2>. QED
    BY <1>9, <2>1, <2>3, <2>4, <2>5 DEF PlacedInv
<1>13. NamedInv'
  <2>. SUFFICES ASSUME NEW b \in builders', content'[b].aliases = {}
                PROVE  (b.kind = "host" /\ b.aliases = {}) \/ b = current
    BY <1>1 DEF NamedInv
  <2>1. b # dest /\ b \in builders /\ content[b].aliases = {}
    BY <1>2, <1>3, <1>5
  <2>. QED
    BY <2>1 DEF NamedInv
<1>14. OutcomeInv'
  BY <1>1 DEF OutcomeInv
<1>. QED
  BY <1>7, <1>8, <1>10, <1>11, <1>12, <1>13, <1>14

-----------------------------------------------------------------------------
(* The end of an addition *)

LEMMA AttachInv == ASSUME IInv, Attach PROVE IInv'
<1>. USE DEF IInv, IndexInv
<1>1. /\ pc = "merge" /\ pc' = "observe" /\ rest = {} /\ rest' = {}
      /\ current \in todo /\ current \in input /\ current \in Observations
      /\ dest \in builders /\ builders \subseteq Observations
      /\ todo' = todo \ {current} /\ builders' = builders
      /\ UNCHANGED <<input, current, dest, assets, linked>>
  BY DEF Attach, MergeInv, IndexType
<1>2. /\ content'[dest].aliases = content[dest].aliases \cup current.aliases
      /\ content'[dest].members = IF current.kind \in Kept
                                  THEN content[dest].members \cup {current}
                                  ELSE content[dest].members
      /\ \A b \in builders \ {dest} : content'[b] = content[b]
      /\ content' \in [Observations -> Contents]
  <2>1. content \in [Observations -> Contents] /\ dest \in Observations
    BY <1>1 DEF IndexType
  <2>2. content'[dest] = [aliases |-> content[dest].aliases \cup current.aliases,
                          members |-> IF current.kind \in Kept
                                      THEN content[dest].members \cup {current}
                                      ELSE content[dest].members]
    BY <2>1 DEF Attach, Kept
  <2>3. \A b \in Observations \ {dest} : content'[b] = content[b]
    BY <2>1 DEF Attach
  <2>4. content'[dest] \in Contents
    BY <1>1, <2>1, <2>2 DEF Contents
  <2>5. content' \in [Observations -> Contents]
    BY <2>1, <2>3, <2>4 DEF Attach
  <2>. QED
    BY <1>1, <2>2, <2>3, <2>5
<1>3. \A a \in Aliases : byAlias'[a] = IF a \in content'[dest].aliases THEN dest
                                       ELSE byAlias[a]
  BY DEF Attach
<1>4. \A a \in current.aliases : a \in Aliases /\ byAlias[a] \in {dest, None}
  BY <1>1 DEF MergeInv
<1>5. /\ Processed' = Processed \cup {current} /\ Active' = Processed'
      /\ Active = Processed \cup {current}
  BY <1>1 DEF Processed, Active, IndexType
<1>6. IndexType'
  <2>1. byAlias' \in [Aliases -> builders' \cup {None}]
    BY <1>1, <1>3 DEF IndexType, Attach
  <2>. QED
    BY <1>1, <1>2, <2>1 DEF IndexType
<1>7. IndexIsPartition'
  <2>1. ASSUME NEW b \in builders, NEW a \in content'[b].aliases PROVE byAlias'[a] = b
    <3>1. a \in Aliases
      BY <1>1, <1>2 DEF Contents
    <3>2. CASE b = dest
      BY <1>3, <2>1, <3>1, <3>2
    <3>3. CASE b # dest
      <4>1. byAlias[a] = b /\ b # None
        BY <1>1, <1>2, <2>1, <3>3 DEF IndexIsPartition
      <4>2. a \notin content'[dest].aliases
        BY <1>1, <1>2, <1>4, <3>3, <4>1 DEF IndexIsPartition
      <4>. QED
        BY <1>3, <3>1, <4>1, <4>2
    <3>. QED
      BY <3>2, <3>3
  <2>2. ASSUME NEW a \in Aliases, byAlias'[a] # None
        PROVE  byAlias'[a] \in builders /\ a \in content'[byAlias'[a]].aliases
    <3>1. CASE a \in content'[dest].aliases
      BY <1>1, <1>3, <3>1
    <3>2. CASE a \notin content'[dest].aliases
      <4>1. byAlias'[a] = byAlias[a] /\ byAlias[a] \in builders
              /\ a \in content[byAlias[a]].aliases
        BY <1>3, <2>2, <3>2 DEF IndexIsPartition
      <4>. QED
        BY <1>2, <3>2, <4>1
    <3>. QED
      BY <3>1, <3>2
  <2>. QED
    BY <1>1, <2>1, <2>2 DEF IndexIsPartition
<1>8. ComponentsInv'
  <2>. SUFFICES ASSUME NEW S \in SUBSET Aliases, Respects(S, Active), NEW b \in builders
                PROVE  content'[b].aliases \subseteq S \/ content'[b].aliases \cap S = {}
    BY <1>1, <1>5 DEF ComponentsInv, Respects
  <2>1. \A c \in builders : content[c].aliases \subseteq S \/ content[c].aliases \cap S = {}
    BY DEF ComponentsInv
  <2>2. current.aliases \subseteq S \/ current.aliases \cap S = {}
    BY <1>5 DEF Respects
  <2>3. content[dest].aliases \cap current.aliases # {} \/ content[dest].aliases = {}
    BY <1>1 DEF MergeInv, Empty
  <2>4. CASE b = dest
    BY <1>1, <1>2, <2>1, <2>2, <2>3, <2>4
  <2>5. CASE b # dest
    BY <1>2, <2>1, <2>5
  <2>. QED
    BY <2>4, <2>5
<1>9. MergeInv' /\ OutcomeInv'
  BY <1>1 DEF MergeInv, OutcomeInv
<1>10. PlacedInv'
  <2>1. builders' \subseteq Active'
    BY <1>1, <1>5 DEF PlacedInv
  <2>2. \A b \in builders : /\ content[b].aliases \subseteq content'[b].aliases
                            /\ content[b].members \subseteq content'[b].members
    BY <1>2
  <2>3. \A o \in Processed' : o.aliases # {} =>
          \E b \in builders : o.aliases \subseteq content'[b].aliases
    BY <1>1, <1>2, <1>5, <2>2 DEF PlacedInv
  <2>4. \A o \in Processed' : (o.kind \in Kept /\ o.aliases # {}) =>
          \E b \in builders : o \in content'[b].members
    BY <1>1, <1>2, <1>5, <2>2 DEF PlacedInv
  <2>5. \A b \in builders : \A m \in content'[b].members :
          m \in Processed' /\ m.aliases \subseteq content'[b].aliases
    <3>. SUFFICES ASSUME NEW b \in builders, NEW m \in content'[b].members
                  PROVE  m \in Processed' /\ m.aliases \subseteq content'[b].aliases
      OBVIOUS
    <3>1. CASE m \in content[b].members
      BY <1>5, <2>2, <3>1 DEF PlacedInv
    <3>2. CASE m \notin content[b].members
      BY <1>2, <1>5, <3>2
    <3>. QED
      BY <3>1, <3>2
  <2>. QED
    BY <1>1, <2>1, <2>3, <2>4, <2>5 DEF PlacedInv
<1>11. NamedInv'
  <2>. SUFFICES ASSUME NEW b \in builders, content'[b].aliases = {}
                PROVE  b.kind = "host" /\ b.aliases = {}
    BY <1>1 DEF NamedInv
  <2>1. CASE b = dest
    <3>1. current.aliases = {} /\ content[dest].aliases = {}
      BY <1>2, <2>1
    <3>. QED
      BY <1>1, <2>1, <3>1 DEF MergeInv
  <2>2. CASE b # dest
    <3>1. content[b].aliases = {}
      BY <1>2, <2>2
    <3>2. b # current
      BY <1>1, <2>2 DEF MergeInv
    <3>. QED
      BY <1>1, <3>1, <3>2 DEF NamedInv
  <2>. QED
    BY <2>1, <2>2
<1>. QED
  BY <1>6, <1>7, <1>8, <1>9, <1>10, <1>11

-----------------------------------------------------------------------------
(* The read model *)

\* Once everything is added, the source of a technology leads to its builder.
LEMMA FoundBuilder ==
  ASSUME IndexInv, todo = {}, NEW t \in Sourced
  PROVE  /\ Found(t) \in builders
         /\ \A b \in builders : t.aliases \subseteq content[b].aliases <=> b = Found(t)
<1>. USE DEF IndexInv
<1>1. t \in Observations /\ t \in Processed /\ t.kind = "technology" /\ t.aliases # {}
        /\ t.aliases \in SUBSET Aliases
  BY DEF Sourced, Processed, IndexType
<1>2. Least(t.aliases) \in t.aliases
  BY <1>1, LeastOf
<1>3. t.aliases = {Least(t.aliases)}
  <2>1. \A a, b \in t.aliases : a = b
    BY <1>1
  <2>. QED
    BY <1>2, <2>1
<1>4. PICK c \in builders : t.aliases \subseteq content[c].aliases
  BY <1>1 DEF PlacedInv
<1>5. \A b \in builders : t.aliases \subseteq content[b].aliases => byAlias[Least(t.aliases)] = b
  BY <1>2 DEF IndexIsPartition
<1>. QED
  BY <1>4, <1>5 DEF Found

LEMMA FinishInv == ASSUME IInv, Finish PROVE IInv'
<1>. USE DEF IInv
<1>1. /\ pc = "observe" /\ todo = {} /\ pc' \in {"done", "raised"}
      /\ UNCHANGED <<input, todo, current, dest, rest, builders, content, byAlias>>
  BY DEF Finish
<1>2. IndexInv'
  <2>1. Active' = Active /\ Processed' = Processed
    BY <1>1 DEF Active, Processed
  <2>. QED
    BY <1>1, <2>1 DEF IndexInv, IndexType, IndexIsPartition, ComponentsInv, MergeInv,
                      PlacedInv, NamedInv
<1>3. OutcomeInv'
  <2>1. CASE pc' = "raised"
    <3>1. PICK b \in builders : content[b].aliases = {}
      BY <1>1, <2>1, FoundBuilder DEF Finish
    <3>2. b \in input /\ b.kind = "host" /\ b.aliases = {}
      BY <1>1, <3>1 DEF IndexInv, NamedInv, IndexType
    <3>3. UNCHANGED <<assets, linked>>
      BY <2>1 DEF Finish
    <3>. QED
      BY <1>1, <2>1, <3>2, <3>3 DEF OutcomeInv
  <2>2. CASE pc' = "done"
    <3>1. /\ \A b \in builders : content[b].aliases # {}
          /\ assets' = {Asset(b) : b \in builders}
          /\ linked' = {[asset |-> Asset(Found(t)).name, technology |-> t] :
                          t \in {u \in Sourced : Found(u) # None}}
      BY <2>2 DEF Finish
    <3>2. Sourced' = Sourced /\ (\A b : Asset(b)' = Asset(b)) /\ (\A t : Found(t)' = Found(t))
      BY <1>1 DEF Sourced, Asset, Found
    <3>. QED
      BY <1>1, <2>2, <3>1, <3>2 DEF OutcomeInv
  <2>. QED
    BY <1>1, <2>1, <2>2
<1>. QED
  BY <1>2, <1>3

\* IInv holds in every reachable state.
THEOREM Inductive == Spec => []IInv
<1>1. Init => IInv
  BY InitInv
<1>2. IInv /\ [Next]_vars => IInv'
  <2>. SUFFICES ASSUME IInv, [Next]_vars PROVE IInv'
    OBVIOUS
  <2>1. CASE Next
    BY <2>1, SkipInv, BeginInv, MergeStep, AttachInv, FinishInv DEF Next
  <2>2. CASE UNCHANGED vars
    <3>1. Active' = Active /\ Processed' = Processed /\ Sourced' = Sourced
            /\ (\A b : Asset(b)' = Asset(b)) /\ (\A t : Found(t)' = Found(t))
      BY <2>2 DEF vars, Active, Processed, Sourced, Asset, Found
    <3>2. IndexInv'
      BY <2>2, <3>1 DEF vars, IInv, IndexInv, IndexType, IndexIsPartition, ComponentsInv,
                        MergeInv, PlacedInv, NamedInv
    <3>3. OutcomeInv'
      BY <2>2, <3>1 DEF vars, IInv, OutcomeInv
    <3>. QED
      BY <3>2, <3>3 DEF IInv
  <2>. QED
    BY <2>1, <2>2
<1>. QED
  BY <1>1, <1>2, PTL DEF Spec

-----------------------------------------------------------------------------
(* The properties *)

\* Every reachable state of the capability is well typed.
THEOREM TypeCorrect == Spec => []TypeOK
<1>1. IInv => TypeOK
  <2>. SUFFICES ASSUME IInv PROVE TypeOK
    OBVIOUS
  <2>. USE DEF IInv, IndexInv
  <2>1. CASE pc = "done"
    <3>1. \A b \in builders : /\ content[b].aliases \in SUBSET Aliases
                              /\ content[b].members \in SUBSET Observations
                              /\ content[b].aliases # {}
      BY <2>1 DEF IndexType, OutcomeInv, Contents
    <3>2. \A b \in builders :
            Asset(b) \in [name : Aliases, type : {"host", "domain"},
                          aliases : SUBSET Aliases, members : SUBSET Observations]
      BY <3>1, LeastOf DEF Asset, Type
    <3>3. \A t \in Sourced : Asset(Found(t)).name \in Aliases /\ t \in Observations
      BY <2>1, <3>2, FoundBuilder DEF OutcomeInv, Sourced, IndexType
    <3>4. /\ assets \subseteq [name : Aliases, type : {"host", "domain"},
                               aliases : SUBSET Aliases, members : SUBSET Observations]
          /\ linked \subseteq [asset : Aliases, technology : Observations]
      BY <2>1, <3>2, <3>3 DEF OutcomeInv
    <3>. QED
      BY <3>4 DEF TypeOK, IndexType
  <2>2. CASE pc # "done"
    BY <2>2 DEF TypeOK, IndexType, OutcomeInv
  <2>. QED
    BY <2>1, <2>2
<1>. QED
  BY Inductive, <1>1, PTL

\* The index and the list of builders always describe one partition: _merge
\* removes the builder it has merged, although list.remove compares by value.
THEOREM IndexIsPartitionHolds == Spec => []IndexIsPartition
<1>1. IInv => IndexIsPartition
  BY DEF IInv, IndexInv
<1>. QED
  BY Inductive, <1>1, PTL

\* Two assets that share an alias are one.
LEMMA AssetsDisjoint ==
  ASSUME IInv, pc = "done", NEW b \in builders, NEW c \in builders, b # c
  PROVE  Asset(b).aliases \cap Asset(c).aliases = {}
BY DEF IInv, IndexInv, IndexIsPartition, Asset

\* The assets are the connected components of what was observed.
THEOREM AssetsAreComponentsHolds == Spec => []AssetsAreComponents
<1>1. IInv => AssetsAreComponents
  <2>. SUFFICES ASSUME IInv, pc = "done" PROVE AssetsAreComponents
    BY DEF AssetsAreComponents
  <2>1. /\ assets = {Asset(b) : b \in builders} /\ Processed = input /\ Active = input
        /\ \A b \in builders : Asset(b).aliases = content[b].aliases
    BY DEF IInv, IndexInv, IndexType, OutcomeInv, Processed, Active, Asset
  <2>2. ASSUME NEW o \in input, o.aliases # {}
        PROVE  \E x \in assets :
                 /\ o.aliases \subseteq x.aliases
                 /\ \A y \in assets : y # x => o.aliases \cap y.aliases = {}
    <3>1. PICK b \in builders : o.aliases \subseteq content[b].aliases
      BY <2>1, <2>2 DEF IInv, IndexInv, PlacedInv
    <3>2. \A y \in assets : y # Asset(b) => Asset(b).aliases \cap y.aliases = {}
      BY <2>1, AssetsDisjoint
    <3>3. \A y \in assets : y # Asset(b) => o.aliases \cap y.aliases = {}
      BY <2>1, <3>1, <3>2
    <3>. QED
      BY <2>1, <3>1, <3>3
  <2>3. \A S \in SUBSET Aliases : Respects(S, input) =>
          \A x \in assets : x.aliases \subseteq S \/ x.aliases \cap S = {}
    BY <2>1 DEF IInv, IndexInv, ComponentsInv
  <2>. QED
    BY <2>2, <2>3 DEF AssetsAreComponents
<1>. QED
  BY Inductive, <1>1, PTL

\* Hosts and endpoints stay with the asset that has their aliases, and a
\* technology is linked to the asset of its source and to no other.
THEOREM ObservationsKeptHolds == Spec => []ObservationsKept
<1>1. ASSUME IInv, pc = "done"
      PROVE  \A o \in input : (o.kind \in Kept /\ o.aliases # {}) =>
               \A x \in assets : o \in x.members <=> o.aliases \subseteq x.aliases
  <2>. SUFFICES ASSUME NEW o \in input,
                       o.kind \in Kept, o.aliases # {}, NEW b \in builders
                PROVE  o \in Asset(b).members <=> o.aliases \subseteq Asset(b).aliases
    BY <1>1 DEF Kept, IInv, OutcomeInv
  <2>1. o \in Processed /\ Asset(b).aliases = content[b].aliases
          /\ Asset(b).members = content[b].members
    BY <1>1 DEF IInv, OutcomeInv, Processed, Asset
  <2>2. o \in content[b].members => o.aliases \subseteq content[b].aliases
    BY <1>1 DEF IInv, IndexInv, PlacedInv
  <2>3. PICK c \in builders : o \in content[c].members /\ o.aliases \subseteq content[c].aliases
    BY <1>1, <2>1 DEF IInv, IndexInv, PlacedInv
  <2>4. o.aliases \subseteq content[b].aliases => b = c
    BY <1>1, <2>3 DEF IInv, IndexInv, IndexIsPartition
  <2>. QED
    BY <2>1, <2>2, <2>3, <2>4
<1>2. ASSUME IInv, pc = "done"
      PROVE  \A t \in Sourced : \A x \in assets :
               [asset |-> x.name, technology |-> t] \in linked
                 <=> t.aliases \subseteq x.aliases
  <2>. SUFFICES ASSUME NEW t \in Sourced, NEW b \in builders
                PROVE  [asset |-> Asset(b).name, technology |-> t] \in linked
                         <=> t.aliases \subseteq Asset(b).aliases
    BY <1>2 DEF IInv, OutcomeInv
  <2>1. /\ Found(t) \in builders /\ Found(t) # None
        /\ t.aliases \subseteq content[b].aliases <=> b = Found(t)
    BY <1>2, FoundBuilder DEF IInv, IndexInv, IndexType, OutcomeInv
  <2>2. ASSUME NEW c \in builders, Asset(c).name = Asset(b).name PROVE c = b
    <3>1. \A d \in builders : Asset(d).name \in content[d].aliases
      BY <1>2, LeastOf DEF Asset, IInv, IndexInv, IndexType, OutcomeInv, Contents
    <3>. QED
      BY <1>2, <2>2, <3>1 DEF IInv, IndexInv, IndexIsPartition
  <2>3. [asset |-> Asset(b).name, technology |-> t] \in linked
          <=> Asset(b).name = Asset(Found(t)).name
    <3>1. linked = {[asset |-> Asset(Found(u)).name, technology |-> u] :
                      u \in {v \in Sourced : Found(v) # None}}
      BY <1>2 DEF IInv, OutcomeInv
    <3>2. ASSUME NEW u \in Sourced,
                 [asset |-> Asset(b).name, technology |-> t]
                   = [asset |-> Asset(Found(u)).name, technology |-> u]
          PROVE  Asset(b).name = Asset(Found(t)).name
      BY <3>2
    <3>. QED
      BY <2>1, <3>1, <3>2
  <2>4. Asset(b).aliases = content[b].aliases
    BY DEF Asset
  <2>. QED
    BY <2>1, <2>2, <2>3, <2>4
<1>3. IInv => ObservationsKept
  BY <1>1, <1>2 DEF ObservationsKept, Kept
<1>. QED
  BY Inductive, <1>3, PTL

\* The capability fails only on a host with neither a name nor an address.
THEOREM OnlyNamelessRaisesHolds == Spec => []OnlyNamelessRaises
<1>1. IInv => OnlyNamelessRaises
  BY DEF IInv, OutcomeInv, OnlyNamelessRaises
<1>. QED
  BY Inductive, <1>1, PTL
==============================================================================
