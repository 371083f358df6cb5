-------------------------- MODULE FindingCorrelation --------------------------
(***************************************************************************)
(* FindingCorrelator.correlate (domain/finding_correlation.py): normalized  *)
(* records are taken in a canonical order, each joins the one group all of  *)
(* whose members it may be merged with or starts a group, and every group   *)
(* becomes a canonical finding identified by its anchor.                    *)
(*                                                                          *)
(* Assets, endpoints, technologies, classifications and references are      *)
(* numbers in the order of their serialized forms; 0 is an absent endpoint  *)
(* or technology. Titles, weaknesses, evidence and the reasons of decisions *)
(* do not influence grouping and are left out. Hashes are injective.        *)
(***************************************************************************)
EXTENDS Naturals, FiniteSets

CONSTANTS
  Assets, Endpoints, Technologies, Classes, \* subjects and classifications
  References,  \* concrete references
  Kind,        \* Kind[r] is 1 (CVE), 2 (GHSA) or 3 (OSV)
  Inputs,      \* the record collections considered
  MaxRecords   \* _MAX_CORRELATION_RECORDS

None == 0

Records == [cls : Classes, asset : Assets, endpoint : Endpoints \cup {None},
            technology : Technologies \cup {None}, refs : SUBSET References]

\* finding_fingerprint(identity)
Fingerprint(r) == <<r.cls, r.asset, r.endpoint, r.technology>>

ASSUME CorrelationAssumption ==
  /\ Assets \subseteq Nat /\ Classes \subseteq Nat
  /\ Endpoints \subseteq Nat \ {None} /\ Technologies \subseteq Nat \ {None}
  /\ References \subseteq Nat
  /\ Kind \in [References -> 1..3]
  /\ \A r, s \in References : r < s => Kind[r] <= Kind[s]
  /\ \A S \in Inputs : S \subseteq Records /\ IsFiniteSet(S)
  \* A FindingRecordCollection has one record per fingerprint.
  /\ \A S \in Inputs : \A r, s \in S : Fingerprint(r) = Fingerprint(s) => r = s
  /\ MaxRecords \in Nat

VARIABLES
  records,   \* the collection
  left,      \* records not grouped yet
  groups,    \* groups: [first, members], first being the first one to join
  pc,        \* "grouping", "done", or the error that ended the call
  findings,  \* canonical findings: [anchor, sources]
  unmerged   \* pairs whose decision is retained

vars == <<records, left, groups, pc, findings, unmerged>>

-----------------------------------------------------------------------------
(* Pairwise comparison *)

\* The smallest of a set of references: schemes are tried in priority order.
Primary(refs) == CHOOSE x \in refs : \A y \in refs : x <= y

OfKind(refs, k) == {x \in refs : Kind[x] = k}

\* _concrete_references_conflict
ReferencesConflict(a, b) ==
  /\ a # {} /\ b # {}
  /\ \/ a \cap b = {}
     \/ \E k \in 1..3 : /\ OfKind(a, k) # {} /\ OfKind(b, k) # {}
                        /\ OfKind(a, k) \cap OfKind(b, k) = {}

\* explicit values that differ
Contradict(x, y) == x # None /\ y # None /\ x # y

Incompatible(l, r) ==
  \/ l.asset # r.asset
  \/ ReferencesConflict(l.refs, r.refs)
  \/ Contradict(l.endpoint, r.endpoint)
  \/ Contradict(l.technology, r.technology)

SameConcreteAnchor(l, r) ==
  l.refs \cap r.refs # {} /\ Primary(l.refs) = Primary(r.refs)

\* compare(left, right).strength
Strength(l, r) ==
  CASE Incompatible(l, r) -> "no_match"
    [] ~Incompatible(l, r) /\ Fingerprint(l) = Fingerprint(r) -> "exact"
    [] ~Incompatible(l, r) /\ Fingerprint(l) # Fingerprint(r) ->
         IF SameConcreteAnchor(l, r)
         THEN IF l.endpoint # None /\ l.endpoint = r.endpoint
                 /\ l.technology = r.technology
              THEN "exact" ELSE "strong"
         ELSE IF l.refs \cap r.refs # {} THEN "possible"
         ELSE IF l.cls = r.cls THEN "possible" ELSE "no_match"

\* some conflict of compare(left, right) is blocking
Blocking(l, r) ==
  Incompatible(l, r) \/ (l.cls # r.cls /\ l.refs \cap r.refs = {})

automatic_merge(l, r) == Strength(l, r) \in {"exact", "strong"} /\ ~Blocking(l, r)

-----------------------------------------------------------------------------
(* Grouping *)

\* Lexicographic order of the sorted tuples of two sets of references
ReferencesBefore(a, b) ==
  /\ a # b
  /\ LET d == Primary((a \ b) \cup (b \ a))
     IN IF d \in a THEN \E y \in b : y > d ELSE ~ \E x \in a : x > d

\* an absent value sorts last
PresentBefore(x, y) == x # None /\ (y = None \/ x < y)

\* _record_sort_key up to the fingerprint, whose order is that of hashes
KeyBefore(r, s) ==
  \/ ReferencesBefore(r.refs, s.refs)
  \/ /\ r.refs = s.refs
     /\ \/ r.asset < s.asset
        \/ /\ r.asset = s.asset
           /\ \/ PresentBefore(r.endpoint, s.endpoint)
              \/ /\ r.endpoint = s.endpoint
                 /\ PresentBefore(r.technology, s.technology)

Init ==
  /\ records \in Inputs
  /\ left = records
  /\ groups = {}
  /\ pc = IF Cardinality(records) > MaxRecords THEN "too_many" ELSE "grouping"
  /\ findings = {}
  /\ unmerged = {}

\* Mutant: one mergeable member is enough.
CandidatesAny(r) == {g \in groups : \E m \in g.members : automatic_merge(m, r)}

\* The groups record r could join
Candidates(r) == {g \in groups : \A m \in g.members : automatic_merge(m, r)}

Grown(g, r) == [g EXCEPT !.members = @ \cup {r}]

\* Mutant: the group without r is kept too.
JoinCopy(r) ==
  \E g \in groups : /\ Candidates(r) = {g}
                    /\ groups' = groups \cup {Grown(g, r)}

Join(r) ==
  \E g \in groups : /\ Candidates(r) = {g}
                    /\ groups' = (groups \ {g}) \cup {Grown(g, r)}

\* Mutant: a record may start a group although it could join one.
StartAlways(r) == groups' = groups \cup {[first |-> r, members |-> {r}]}

Start(r) ==
  /\ \A g \in groups : Candidates(r) # {g}
  /\ groups' = groups \cup {[first |-> r, members |-> {r}]}

\* The order of records with equal keys is that of their hashes: any order.
Take(r) ==
  /\ pc = "grouping"
  /\ \A s \in left : ~KeyBefore(s, r)
  /\ left' = left \ {r}
  /\ Join(r) \/ Start(r)
  /\ UNCHANGED <<records, pc, findings, unmerged>>

-----------------------------------------------------------------------------
(* Aggregation *)

\* the references that all members have
Common(g) == {x \in References : \A r \in g.members : x \in r.refs}

\* the single explicit value of the members, if there is just one
Only(values) == IF \E x \in values : values = {x}
                THEN CHOOSE x \in values : values = {x} ELSE None

\* _anchor_for raises: the members have different primary references
Unstable(g) ==
  Common(g) # {} /\ \E r, s \in g.members : Primary(r.refs) # Primary(s.refs)

\* _anchor_for; the canonical ID is a hash of it
AnchorFor(g) ==
  LET r == g.first
  IN IF Common(g) # {}
     THEN [kind |-> "concrete_reference", of |-> Primary(r.refs), asset |-> r.asset,
           endpoint |-> Only({s.endpoint : s \in g.members} \ {None}),
           technology |-> Only({s.technology : s \in g.members} \ {None})]
     ELSE [kind |-> "classification_subject", of |-> r.cls, asset |-> r.asset,
           endpoint |-> r.endpoint, technology |-> r.technology]

\* CanonicalFindingCollection: two different findings with one identity
IdentitiesConflict == \E g, h \in groups : g # h /\ AnchorFor(g) = AnchorFor(h)

\* _aggregate
Aggregate(g) == [anchor |-> AnchorFor(g), sources |-> g.members]

Finish ==
  /\ pc = "grouping"
  /\ left = {}
  /\ pc' = IF \E g \in groups : Unstable(g) THEN "unstable_anchor"
           ELSE IF IdentitiesConflict THEN "conflict" ELSE "done"
  /\ IF pc' = "done"
     THEN /\ findings' = {Aggregate(g) : g \in groups}
          /\ unmerged' = {p \in SUBSET records : \E l, r \in p :
                            p = {l, r} /\ l # r /\ ~automatic_merge(l, r)}
     ELSE UNCHANGED <<findings, unmerged>>
  /\ UNCHANGED <<records, left, groups>>

Next == (\E r \in left : Take(r)) \/ Finish

Spec == Init /\ [][Next]_vars

-----------------------------------------------------------------------------
(* Type *)

\* The records and groups that the correlation service hands from one stage
\* to the next keep their types.
TypeOK ==
  /\ records \subseteq Records
  /\ left \subseteq records
  /\ groups \subseteq [first : records \ left, members : SUBSET (records \ left)]
  /\ pc \in {"grouping", "done", "too_many", "unstable_anchor", "conflict"}
  /\ findings \subseteq {Aggregate(g) : g \in groups}
  /\ unmerged \subseteq SUBSET records

-----------------------------------------------------------------------------
(* Properties *)

\* Two records of one group never disagree on the subject or on a reference, and
\* have the same primary reference, although they were compared one at a time.
MergedAgree ==
  \A g \in groups : \A r, s \in g.members :
    r # s => /\ ~Incompatible(r, s)
             /\ Primary(r.refs) = Primary(s.refs)
             /\ Primary(r.refs) \in r.refs \cap s.refs

\* A finding has the asset of every source and each explicit endpoint and
\* technology of any source, and has one only if a source does.
SubjectRetained ==
  \A f \in findings :
    /\ \A r \in f.sources :
         /\ f.anchor.asset = r.asset
         /\ r.endpoint # None => f.anchor.endpoint = r.endpoint
         /\ r.technology # None => f.anchor.technology = r.technology
    /\ f.anchor.endpoint # None => \E r \in f.sources : r.endpoint = f.anchor.endpoint
    /\ f.anchor.technology # None =>
         \E r \in f.sources : r.technology = f.anchor.technology

\* Each record is a source of exactly one finding.
EverySourceOnce ==
  pc = "done" =>
    \A r \in records : \E f \in findings :
      /\ r \in f.sources
      /\ \A g \in findings : r \in g.sources => g = f

\* the records about one vulnerability of one asset
Family(r) == {s \in records : /\ s.asset = r.asset /\ s.refs # {}
                              /\ Primary(s.refs) = Primary(r.refs)}

Agreed(S) == \A r, s \in S : r # s => automatic_merge(r, s)

\* Records about one vulnerability that may all be merged become one finding.
AgreedFamilyMerges ==
  pc = "done" => \A r \in records :
    (r.refs # {} /\ Agreed(Family(r))) => \E f \in findings : f.sources = Family(r)

\* Of the errors of grouping, the unstable anchor never occurs, and conflicting
\* identities only when records about one vulnerability disagree.
ConflictNeedsDisagreement ==
  /\ pc # "unstable_anchor"
  /\ pc = "conflict" => \E r \in records : r.refs # {} /\ ~Agreed(Family(r))

\* "Normal disagreements are typed domain values rather than broad exceptions"
\* (docs/finding-correlation.md): correlation does not raise for them.
DisagreementIsNoError == pc # "conflict"

==============================================================================
