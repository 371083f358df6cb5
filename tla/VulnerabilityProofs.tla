------------------------ MODULE VulnerabilityProofs ------------------------
(***************************************************************************)
(* What vulnerability enrichment reports and what vulnerability            *)
(* intelligence publishes, for any findings, observations, services and    *)
(* answers: two components that share nothing, and two invariants.         *)
(*                                                                         *)
(* Enrichment: the invariant follows a provider from its call to its       *)
(* return: what has arrived is what the questions asked so far are due     *)
(* (AskInv), and what a provider returned stays supported by its records   *)
(* and true to its events (SettledInv) until the aggregate is made of it   *)
(* (DoneInv).                                                              *)
(*                                                                         *)
(* Vulnerability intelligence: the invariant says what the search in       *)
(* progress is about and what it has received (QueryInv, PageInv), what    *)
(* the finished lookups found and owed (FoundInv, ExactInv), and what the  *)
(* graph and the assessments were made of (MadeInv).                       *)
(***************************************************************************)
EXTENDS Enrichment, VulnerabilityIntelligence, SequenceTheorems, FiniteSetTheorems,
        WellFoundedInduction, TLAPS

-----------------------------------------------------------------------------
(* Enrichment: the inductive invariant *)

Usable == present /\ Requested \cap Overlong = {}

Before == [cvss |-> {}, epss |-> {"cvss"}, kev |-> {"cvss", "epss"}]

\* The providers that have been called and have returned.
Over ==
  CASE phase = "start"                 -> {}
    [] phase \in {"calling", "asking"}  -> Before[turn]
    [] OTHER -> IF Usable /\ Requested # {} THEN Providers ELSE {}

WellFormed(f) ==
  /\ DOMAIN f = Requested
  /\ \A c \in Requested : f[c].cve = c /\ OutcomeIsValid(f[c])

\* The outcomes f of a production provider p tell how its requests ev went.
Tells(p, f, ev) ==
  /\ honest /\ Fits(p) /\ ev \subseteq {"list"} =>
       IF p = "cvss" /\ \E c \in Requested : Cardinality(Known(p, c)) > MaxAssessments
       THEN f = ForAll("ERROR")
       ELSE \A c \in Requested :
              f[c] = Outcome(c, IF Known(p, c) = {} THEN "NOT_FOUND" ELSE "AVAILABLE",
                             Known(p, c))
  /\ ev \cap Transient # {} => f = ForAll("UNAVAILABLE")
  /\ ev \cap (Broken \cup {"junk", "too_many", "encoding"}) # {} => f = ForAll("ERROR")
  /\ f = ForAll("UNAVAILABLE") => ev \cap Transient # {}

\* The data of outcome o is supported by the records rs of provider p.
Supported(p, o, ev, rs) ==
  /\ composition[p] = "production" =>
       CASE p = "cvss" -> \A d \in o.data : \E r \in rs : r.cve = o.cve /\ d \in r.entries
         [] p = "epss" -> \A d \in o.data : \A r \in rs :
                            r.cve = o.cve => BadEpss(r) \/ d = <<r.probability, r.percentile>>
         [] OTHER      -> o.data # {} => \E r \in rs : r.cve = o.cve
  /\ composition[p] = "custom" /\ o.data # {} =>
       \E a \in CustomAnswers : Exact(a) /\ o \in ToSet(a)
  /\ composition[p] = "absent" \/ ev \cap (Transient \cup Broken) # {} => o.data = {}

Sound(p, f, ev, rs) ==
  /\ WellFormed(f)
  /\ composition[p] = "production" => Tells(p, f, ev)
  /\ \A c \in Requested : Supported(p, f[c], ev, rs)

EventNames == Transient \cup Broken \cup {"list", "junk", "too_many", "encoding"}

EnrichType ==
  /\ findings \in Collections /\ present \in BOOLEAN /\ honest \in BOOLEAN
  /\ composition \in [Providers -> {"production", "custom", "absent"}]
  /\ phase \in {"start", "calling", "asking", "aggregate", "done"}
  /\ turn \in Providers
  /\ DOMAIN outcome = Providers /\ DOMAIN events = Providers /\ DOMAIN records = Providers
  /\ \A p \in Providers : records[p] \in Seq(ToSet(records[p]))

PlaceInv ==
  /\ phase = "start" => turn = "cvss"
  /\ phase \in {"calling", "asking", "aggregate"} => Usable
  /\ phase \in {"calling", "asking"} => Requested # {}
  /\ \A p \in Providers \ Over :
       /\ outcome[p] = <<>>
       /\ (p = turn /\ phase = "asking") \/ (events[p] = {} /\ records[p] = <<>>)

\* What a truthful service answers to question q.
Due(p, q) == CASE p = "cvss" -> {r \in Holdings.cvss : r.cve \in q}
               [] p = "epss" -> {r \in Holdings.epss : r.cve \in q}
               [] OTHER      -> Holdings.kev

AskInv ==
  phase = "asking" =>
    /\ composition[turn] = "production" /\ Fits(turn)
    /\ asks \subseteq Questions(turn) /\ events[turn] \subseteq {"list"}
    /\ honest => ToSet(records[turn]) = UNION {Due(turn, q) : q \in Questions(turn) \ asks}

SettledInv ==
  \A p \in Over : Sound(p, outcome[p], events[p], ToSet(records[p]))

DoneInv ==
  /\ phase # "done" => enriched = {} /\ status = "NONE"
  /\ phase = "done" /\ ~Usable => enriched = {} /\ status = "ERROR"
  /\ phase = "done" /\ Usable =>
       /\ status = StatusOf({Enriched(f) : f \in findings})
       /\ enriched = IF status = "FAILURE" THEN {} ELSE {Enriched(f) : f \in findings}

EnrichInv == EnrichType /\ PlaceInv /\ AskInv /\ SettledInv /\ DoneInv

-----------------------------------------------------------------------------
(* Lemmas on the operators *)

\* The elements of a concatenation.
LEMMA JoinedElements ==
  ASSUME NEW s, NEW t, s \in Seq(ToSet(s)), t \in Seq(ToSet(t))
  PROVE  /\ s \o t \in Seq(ToSet(s \o t))
         /\ ToSet(s \o t) = ToSet(s) \cup ToSet(t)
<1> DEFINE U == ToSet(s) \cup ToSet(t)
           u == s \o t
<1>1. s \in Seq(U) /\ t \in Seq(U)  OBVIOUS
<1> HIDE DEF U
<1>2. /\ u \in Seq(U) /\ Len(u) = Len(s) + Len(t)
      /\ \A i \in 1..Len(u) : u[i] = IF i <= Len(s) THEN s[i] ELSE t[i - Len(s)]
  BY <1>1, ConcatProperties
<1> HIDE DEF u
<1>3. DOMAIN s = 1..Len(s) /\ DOMAIN t = 1..Len(t) /\ DOMAIN u = 1..Len(u)
      /\ Len(s) \in Nat /\ Len(t) \in Nat
  BY <1>1, <1>2, LenProperties
<1>4. \A x \in ToSet(s) : x \in ToSet(u)
  <2> TAKE x \in ToSet(s)
  <2>1. PICK i \in 1..Len(s) : x = s[i]  BY <1>3 DEF ToSet
  <2>2. i \in 1..Len(u) /\ i <= Len(s)  BY <2>1, <1>2, <1>3
  <2>3. u[i] = s[i]  BY <2>2, <1>2
  <2> QED  BY <2>1, <2>2, <2>3, <1>3 DEF ToSet
<1>5. \A x \in ToSet(t) : x \in ToSet(u)
  <2> TAKE x \in ToSet(t)
  <2>1. PICK i \in 1..Len(t) : x = t[i]  BY <1>3 DEF ToSet
  <2>2. i + Len(s) \in 1..Len(u) /\ ~(i + Len(s) <= Len(s)) /\ (i + Len(s)) - Len(s) = i
    BY <2>1, <1>2, <1>3
  <2>3. u[i + Len(s)] = t[(i + Len(s)) - Len(s)]  BY <2>2, <1>2
  <2> QED  BY <2>1, <2>2, <2>3, <1>3 DEF ToSet
<1>6. \A x \in ToSet(u) : x \in ToSet(s) \cup ToSet(t)
  <2> TAKE x \in ToSet(u)
  <2>1. PICK i \in 1..Len(u) : x = u[i]  BY <1>3 DEF ToSet
  <2>2. CASE i <= Len(s)
    <3>1. i \in 1..Len(s) /\ u[i] = s[i]  BY <2>1, <2>2, <1>2, <1>3
    <3> QED  BY <3>1, <2>1, <1>3 DEF ToSet
  <2>3. CASE ~(i <= Len(s))
    <3>1. i - Len(s) \in 1..Len(t) /\ u[i] = t[i - Len(s)]  BY <2>1, <2>3, <1>2, <1>3
    <3> QED  BY <3>1, <2>1, <1>3 DEF ToSet
  <2> QED  BY <2>2, <2>3
<1>7. ToSet(u) = U  BY <1>4, <1>5, <1>6 DEF U
<1> QED  BY <1>2, <1>7 DEF u, U

\* A sequence has finitely many elements.
LEMMA ElementsAreFinite ==
  ASSUME NEW S, NEW s \in Seq(S)
  PROVE  IsFiniteSet(ToSet(s))
<1>1. DOMAIN s = 1..Len(s) /\ Len(s) \in Nat  BY LenProperties
<1>2. IsFiniteSet(1..Len(s))  BY <1>1, FS_Interval
<1>3. s \in Surjection(1..Len(s), ToSet(s))
  <2>1. s \in [1..Len(s) -> S]  BY LenProperties
  <2>2. s \in [1..Len(s) -> ToSet(s)]  BY <1>1, <2>1 DEF ToSet
  <2>3. \A x \in ToSet(s) : \E i \in 1..Len(s) : s[i] = x  BY <1>1 DEF ToSet
  <2> QED  BY <2>2, <2>3 DEF Surjection
<1> QED  BY <1>2, <1>3, FS_Surjection

\* SetToSeq lists a finite set.
LEMMA ListedElements ==
  ASSUME NEW S, IsFiniteSet(S)
  PROVE  SetToSeq(S) \in Seq(S) /\ ToSet(SetToSeq(S)) = S
<1> DEFINE n == Cardinality(S)
           f == SetToSeq(S)
<1>1. n \in Nat /\ ExistsBijection(1..n, S)  BY FS_CardinalityType
<1>2. PICK g \in [1..n -> S] : IsInjective(g)
  BY <1>1, Zenon DEF ExistsBijection, Bijection, Injection
<1>3. f \in [1..n -> S] /\ IsInjective(f)  BY <1>2, Zenon DEF SetToSeq
<1>4. IsFiniteSet(1..n) /\ Cardinality(1..n) = n  BY <1>1, FS_Interval
<1> HIDE DEF f
<1>5. f \in Injection(1..n, S)  BY <1>3, Zenon DEF Injection
<1>6. f \in Surjection(1..n, S)
  <2> HIDE DEF n
  <2>1. Cardinality(1..n) = Cardinality(S)  BY <1>4, Zenon DEF n
  <2> QED  BY <1>5, <2>1, FS_Injection
<1>7. f \in Seq(S) /\ DOMAIN f = 1..n  BY <1>1, <1>3
<1>8. ToSet(f) = S
  <2> HIDE DEF n
  <2>1. \A x \in S : \E i \in 1..n : f[i] = x  BY <1>6, Zenon DEF Surjection
  <2> QED  BY <2>1, <1>3, <1>7 DEF ToSet
<1> QED  BY <1>7, <1>8 DEF f

\* The image of a finite set under a function is finite.
LEMMA FiniteImages ==
  ASSUME NEW S, IsFiniteSet(S), NEW f, DOMAIN f = S
  PROVE  IsFiniteSet({f[x] : x \in S})
<1> DEFINE T == {f[x] : x \in S}
           g == [x \in S |-> f[x]]
<1>1. g \in [S -> T] /\ \A t \in T : \E x \in S : g[x] = t  OBVIOUS
<1>2. g \in Surjection(S, T)  BY <1>1 DEF Surjection
<1> HIDE DEF T, g
<1>3. IsFiniteSet(T)  BY <1>2, FS_Surjection
<1> QED  BY <1>3 DEF T

-----------------------------------------------------------------------------
(* What a provider returns is sound *)

\* The same outcome without data for every CVE is sound, if the requests of a
\* production provider call for it.
LEMMA FailureIsSound ==
  ASSUME NEW p \in Providers, NEW ev, NEW rs, NEW st \in {"ERROR", "UNAVAILABLE"},
         Requested # {},
         composition[p] = "production" =>
           /\ ~(honest /\ Fits(p) /\ ev \subseteq {"list"})
           /\ st = "UNAVAILABLE" <=> ev \cap Transient # {}
           /\ st = "UNAVAILABLE" => ev \cap (Broken \cup {"junk", "too_many", "encoding"}) = {}
  PROVE  Sound(p, ForAll(st), ev, rs)
<1> DEFINE f == ForAll(st)
<1>1. DOMAIN f = Requested
      /\ \A c \in Requested : f[c].cve = c /\ f[c].status = st /\ f[c].data = {}
  BY DEF ForAll
<1>2. \A s \in {"ERROR", "UNAVAILABLE"} : f = ForAll(s) <=> s = st  BY DEF ForAll
<1> HIDE DEF f
<1>3. WellFormed(f)  BY <1>1 DEF WellFormed, OutcomeIsValid, Statuses
<1>4. composition[p] = "production" => Tells(p, f, ev)  BY <1>2 DEF Tells, f
<1>5. \A c \in Requested : Supported(p, f[c], ev, rs)
  <2> TAKE c \in Requested
  <2> QED  BY <1>1, Zenon DEF Supported
<1> QED  BY <1>3, <1>4, <1>5 DEF Sound, f

\* The answer of a host's provider is sound once it is exact.
LEMMA CustomIsSound ==
  ASSUME NEW p \in Providers, NEW a \in CustomAnswers, NEW rs,
         Requested # {}, composition[p] = "custom"
  PROVE  Sound(p, ExactOutcomes(a), {}, rs)
<1>1. CASE ~Exact(a)
  <2>1. Sound(p, ForAll("ERROR"), {}, rs)  BY <1>1, FailureIsSound
  <2> QED  BY <1>1, <2>1 DEF ExactOutcomes
<1>2. CASE Exact(a)
  <2> DEFINE f == ExactOutcomes(a)
  <2>1. f = [c \in Requested |-> CHOOSE o \in ToSet(a) : o.cve = c]
    BY <1>2, Zenon DEF ExactOutcomes
  <2>2. \A c \in Requested : \E o \in ToSet(a) : o.cve = c  BY <1>2 DEF Exact
  <2>3. DOMAIN f = Requested /\ \A c \in Requested : f[c] \in ToSet(a) /\ f[c].cve = c
    BY <2>1, <2>2
  <2> HIDE DEF f
  <2>4. \A o \in ToSet(a) : OutcomeIsValid(o)  BY EnrichmentAssumption DEF ToSet
  <2>5. WellFormed(f)  BY <2>3, <2>4 DEF WellFormed
  <2>6. \A c \in Requested : Supported(p, f[c], {}, rs)
    BY <1>2, <2>3 DEF Supported
  <2> QED  BY <2>5, <2>6 DEF Sound, f
<1> QED  BY <1>1, <1>2

\* What the outcomes of a production provider none of whose requests went wrong
\* have to satisfy.
LEMMA CompleteIsSound ==
  ASSUME NEW p \in Providers, NEW f, NEW rs,
         composition[p] = "production", WellFormed(f),
         f # ForAll("UNAVAILABLE"),
         honest /\ Fits(p) =>
           IF p = "cvss" /\ \E c \in Requested : Cardinality(Known(p, c)) > MaxAssessments
           THEN f = ForAll("ERROR")
           ELSE \A c \in Requested :
                  f[c] = Outcome(c, IF Known(p, c) = {} THEN "NOT_FOUND" ELSE "AVAILABLE",
                                 Known(p, c)),
         \A c \in Requested :
           CASE p = "cvss" -> \A d \in f[c].data : \E r \in rs : r.cve = c /\ d \in r.entries
             [] p = "epss" -> \A d \in f[c].data : \A r \in rs :
                                r.cve = c => BadEpss(r) \/ d = <<r.probability, r.percentile>>
             [] OTHER      -> f[c].data # {} => \E r \in rs : r.cve = c,
         NEW ev \in SUBSET {"list"}
  PROVE  Sound(p, f, ev, rs)
<1>1. ev \cap Transient = {} /\ ev \cap Broken = {}
      /\ ev \cap (Broken \cup {"junk", "too_many", "encoding"}) = {}
  BY DEF Transient, Broken
<1>2. Tells(p, f, ev)  BY <1>1, Zenon DEF Tells
<1>3. \A c \in Requested : Supported(p, f[c], ev, rs)
  <2> TAKE c \in Requested
  <2>1. f[c].cve = c  BY DEF WellFormed
  <2> QED  BY <1>1, <2>1 DEF Supported
<1> QED  BY <1>2, <1>3 DEF Sound

\* What the truthful service p has sent when it has answered all questions.
TrueRecords(p) == UNION {Due(p, q) : q \in Questions(p)}

LEMMA TrueRecordsAre ==
  ASSUME Requested # {}
  PROVE  /\ TrueRecords("cvss") = {r \in Holdings.cvss : r.cve \in Requested}
         /\ TrueRecords("epss") = {r \in Holdings.epss : r.cve \in Requested}
         /\ TrueRecords("kev") = Holdings.kev
<1>1. TrueRecords("cvss") = {r \in Holdings.cvss : r.cve \in Requested}
  <2>1. Questions("cvss") = {{c} : c \in Requested}
        /\ \A q : Due("cvss", q) = {r \in Holdings.cvss : r.cve \in q}
    BY DEF Questions, Due
  <2>2. \A r \in TrueRecords("cvss") : r \in Holdings.cvss /\ r.cve \in Requested
    <3> SUFFICES ASSUME NEW q \in Questions("cvss"), NEW r \in Due("cvss", q)
                 PROVE  r \in Holdings.cvss /\ r.cve \in Requested
      BY Zenon DEF TrueRecords
    <3> QED  BY <2>1
  <2>3. \A r \in Holdings.cvss : r.cve \in Requested => r \in TrueRecords("cvss")
    <3> SUFFICES ASSUME NEW r \in Holdings.cvss, r.cve \in Requested
                 PROVE  r \in TrueRecords("cvss")
      OBVIOUS
    <3>1. {r.cve} \in Questions("cvss") /\ r \in Due("cvss", {r.cve})  BY <2>1
    <3> QED  BY <3>1, Zenon DEF TrueRecords
  <2> QED  BY <2>2, <2>3
<1>2. TrueRecords("epss") = {r \in Holdings.epss : r.cve \in Requested}
  BY DEF TrueRecords, Due, Questions
<1>3. TrueRecords("kev") = Holdings.kev
  BY DEF TrueRecords, Due, Questions
<1> QED  BY <1>1, <1>2, <1>3

\* get_cvss: every assessment comes from a record of its own CVE.
LEMMA CvssIsSound ==
  ASSUME composition["cvss"] = "production", Requested # {},
         NEW rs, honest => rs = TrueRecords("cvss"), NEW ev \in SUBSET {"list"}
  PROVE  Sound("cvss", NvdCvss(rs), ev, rs)
<1> DEFINE bad == \E r \in rs : BadCvss(r)
           f == NvdCvss(rs)
           many == \E c \in Requested : Cardinality(CvssData(c, rs)) > MaxAssessments
<1>0. PICK c0 \in Requested : TRUE  OBVIOUS
<1>1. CASE many
  <2>1. f = ForAll("ERROR")  BY <1>1 DEF NvdCvss
  <2>2. DOMAIN f = Requested
        /\ \A c \in Requested : f[c] = [cve |-> c, status |-> "ERROR", data |-> {}]
    BY <2>1 DEF ForAll
  <2>3. f # ForAll("UNAVAILABLE")  BY <1>0, <2>2 DEF ForAll
  <2>4. WellFormed(f)  BY <2>2 DEF WellFormed, OutcomeIsValid, Statuses
  <2>5. honest => \E c \in Requested : Cardinality(Known("cvss", c)) > MaxAssessments
    <3> SUFFICES ASSUME honest PROVE \E c \in Requested : Cardinality(Known("cvss", c)) > MaxAssessments
      OBVIOUS
    <3>1. \A c \in Requested : Known("cvss", c) = CvssData(c, rs)
      BY TrueRecordsAre DEF Known, CvssData
    <3> QED  BY <3>1, <1>1, Zenon
  <2> HIDE DEF f
  <2>6. \A c \in Requested : f[c].data = {}  BY <2>2
  <2> QED  BY <2>1, <2>3, <2>4, <2>5, <2>6, CompleteIsSound DEF f, Providers
<1>2. CASE ~many
  <2>1. f = [c \in Requested |->
               Outcome(c, IF bad THEN "PARTIAL"
                          ELSE IF CvssData(c, rs) # {} THEN "AVAILABLE" ELSE "NOT_FOUND",
                       CvssData(c, rs))]
    BY <1>2, Zenon DEF NvdCvss
  <2>2. DOMAIN f = Requested
        /\ \A c \in Requested :
             f[c] = Outcome(c, IF bad THEN "PARTIAL"
                               ELSE IF CvssData(c, rs) # {} THEN "AVAILABLE" ELSE "NOT_FOUND",
                            CvssData(c, rs))
    BY <2>1
  <2> HIDE DEF f, bad
  <2>3. f # ForAll("UNAVAILABLE")  BY <1>0, <2>2 DEF ForAll, Outcome
  <2>4. WellFormed(f)  BY <2>2 DEF WellFormed, OutcomeIsValid, Statuses, Outcome
  <2>5. honest =>
          /\ \A c \in Requested : Known("cvss", c) = CvssData(c, rs)
          /\ ~bad
    <3> SUFFICES ASSUME honest
                 PROVE  (\A c \in Requested : Known("cvss", c) = CvssData(c, rs)) /\ ~bad
      OBVIOUS
    <3>1. rs = {r \in Holdings.cvss : r.cve \in Requested}  BY TrueRecordsAre
    <3>2. \A c \in Requested : Known("cvss", c) = CvssData(c, rs)
      BY <3>1 DEF Known, CvssData
    <3>3. ~bad  BY <3>1, TruthAssumption DEF bad, BadCvss
    <3> QED  BY <3>2, <3>3
  <2>6. honest => ~\E c \in Requested : Cardinality(Known("cvss", c)) > MaxAssessments
    BY <2>5, <1>2, Zenon
  <2>7. honest => \A c \in Requested :
          f[c] = Outcome(c, IF Known("cvss", c) = {} THEN "NOT_FOUND" ELSE "AVAILABLE",
                         Known("cvss", c))
    BY <2>5, <2>2
  <2>8. \A c \in Requested : \A d \in f[c].data : \E r \in rs : r.cve = c /\ d \in r.entries
    BY <2>2 DEF Outcome, CvssData
  <2> QED  BY <2>3, <2>4, <2>6, <2>7, <2>8, CompleteIsSound DEF f, Providers
<1> QED  BY <1>1, <1>2

\* get_epss: one value for a CVE, or none.
LEMMA EpssIsSound ==
  ASSUME composition["epss"] = "production", Requested # {},
         NEW rs, IsFiniteSet(rs), honest => rs = TrueRecords("epss"), NEW ev \in SUBSET {"list"}
  PROVE  Sound("epss", FirstEpss(rs), ev, rs)
<1> DEFINE bad == \E r \in rs : BadEpss(r)
           f == FirstEpss(rs)
           data(c) == EpssData(c, rs)
<1>0. PICK c0 \in Requested : TRUE  OBVIOUS
<1>1. DOMAIN f = Requested
      /\ \A c \in Requested :
           f[c] = CASE Cardinality(data(c)) = 1 ->
                         Outcome(c, IF bad THEN "PARTIAL" ELSE "AVAILABLE", data(c))
                    [] Cardinality(data(c)) > 1 -> Outcome(c, "PARTIAL", {})
                    [] OTHER -> Outcome(c, IF bad THEN "PARTIAL" ELSE "NOT_FOUND", {})
  BY DEF FirstEpss
<1>2. \A c : IsFiniteSet(data(c))
  <2> TAKE c
  <2> DEFINE S == {s \in rs : s.cve = c /\ ~BadEpss(s)}
             g == [r \in S |-> <<r.probability, r.percentile>>]
  <2>1. IsFiniteSet(S)  BY FS_Subset
  <2>2. data(c) = {g[r] : r \in S} /\ DOMAIN g = S  BY DEF EpssData
  <2> HIDE DEF S, g
  <2> QED  BY <2>1, <2>2, FiniteImages
<1>3. \A c : /\ Cardinality(data(c)) \in Nat
             /\ Cardinality(data(c)) = 0 <=> data(c) = {}
             /\ Cardinality(data(c)) = 1 <=> \E x : data(c) = {x}
  BY <1>2, FS_CardinalityType, FS_EmptySet, FS_Singleton
<1>4. \A c, x : x \in data(c) <=> \E r \in rs : /\ r.cve = c /\ ~BadEpss(r)
                                               /\ x = <<r.probability, r.percentile>>
  BY DEF EpssData
<1> HIDE DEF f, bad, data
<1>5. f # ForAll("UNAVAILABLE")
  <2>1. f[c0].status # "UNAVAILABLE"  BY <1>1, <1>3 DEF Outcome
  <2> QED  BY <2>1, <1>0 DEF ForAll
<1>6. WellFormed(f)
  <2>1. \A c \in Requested : f[c].cve = c  BY <1>1 DEF Outcome
  <2>2. \A c \in Requested : OutcomeIsValid(f[c])
    <3> TAKE c \in Requested
    <3>1. CASE Cardinality(data(c)) = 1
      <4>1. f[c] = Outcome(c, IF bad THEN "PARTIAL" ELSE "AVAILABLE", data(c)) /\ data(c) # {}
        BY <3>1, <1>1, <1>3
      <4> QED  BY <4>1 DEF Outcome, OutcomeIsValid, Statuses
    <3>2. CASE Cardinality(data(c)) # 1
      <4>1. f[c].data = {} /\ f[c].status \in {"PARTIAL", "NOT_FOUND"}
        BY <3>2, <1>1, <1>3 DEF Outcome
      <4> QED  BY <4>1 DEF OutcomeIsValid, Statuses
    <3> QED  BY <3>1, <3>2
  <2> QED  BY <2>1, <2>2, <1>1 DEF WellFormed
<1>7. \A c \in Requested : \A d \in f[c].data : \A r \in rs :
        r.cve = c => BadEpss(r) \/ d = <<r.probability, r.percentile>>
  <2> SUFFICES ASSUME NEW c \in Requested, NEW d \in f[c].data, NEW r \in rs,
                      r.cve = c, ~BadEpss(r)
               PROVE  d = <<r.probability, r.percentile>>
    OBVIOUS
  <2>1. Cardinality(data(c)) = 1 /\ f[c].data = data(c)
    BY <1>1, <1>3 DEF Outcome
  <2>2. PICK x : data(c) = {x}  BY <2>1, <1>3
  <2>3. <<r.probability, r.percentile>> \in data(c)  BY <1>4, Zenon
  <2> QED  BY <2>1, <2>2, <2>3
<1>8. honest => \A c \in Requested :
        f[c] = Outcome(c, IF Known("epss", c) = {} THEN "NOT_FOUND" ELSE "AVAILABLE",
                       Known("epss", c))
  <2> SUFFICES ASSUME honest, NEW c \in Requested
               PROVE  f[c] = Outcome(c, IF Known("epss", c) = {} THEN "NOT_FOUND"
                                        ELSE "AVAILABLE", Known("epss", c))
    OBVIOUS
  <2>1. rs = {r \in Holdings.epss : r.cve \in Requested}  BY TrueRecordsAre
  <2>2. Known("epss", c) = data(c)  BY <2>1 DEF Known, EpssData, data
  <2>3. ~bad  BY <2>1, TruthAssumption DEF bad, BadEpss
  <2>4. \A x, y \in data(c) : x = y
    <3> TAKE x, y \in data(c)
    <3>1. PICK r \in rs : r.cve = c /\ x = <<r.probability, r.percentile>>  BY <1>4
    <3>2. PICK s \in rs : s.cve = c /\ y = <<s.probability, s.percentile>>  BY <1>4
    <3>3. r = s  BY <3>1, <3>2, <2>1, TruthAssumption
    <3> QED  BY <3>1, <3>2, <3>3
  <2>5. CASE data(c) = {}
    <3>1. Cardinality(data(c)) = 0  BY <2>5, <1>3
    <3>2. f[c] = Outcome(c, "NOT_FOUND", {})  BY <3>1, <2>3, <1>1
    <3> QED  BY <3>2, <2>2, <2>5
  <2>6. CASE data(c) # {}
    <3>1. PICK x \in data(c) : TRUE  BY <2>6
    <3>2. data(c) = {x}  BY <2>4
    <3>3. Cardinality(data(c)) = 1  BY <3>2, <1>3
    <3>4. f[c] = Outcome(c, "AVAILABLE", data(c))  BY <3>3, <2>3, <1>1
    <3> QED  BY <3>4, <2>2, <2>6
  <2> QED  BY <2>5, <2>6
<1>9. honest /\ Fits("epss") =>
        \A c \in Requested :
          f[c] = Outcome(c, IF Known("epss", c) = {} THEN "NOT_FOUND" ELSE "AVAILABLE",
                         Known("epss", c))
  BY <1>8
<1> QED  BY <1>5, <1>6, <1>7, <1>9, CompleteIsSound DEF f, Providers

\* get_kev: a CVE is listed if the catalog holds it.
LEMMA KevIsSound ==
  ASSUME composition["kev"] = "production", Requested # {}, Requested \subseteq Cve,
         NEW rs, honest => rs = TrueRecords("kev"), NEW ev \in SUBSET {"list"}
  PROVE  Sound("kev", CisaKev(rs), ev, rs)
<1> DEFINE bad == \E r \in rs : r.cve \in Overlong \cup {NoCve}
           f == CisaKev(rs)
           listed == {TRUE}
<1>0. PICK c0 \in Requested : TRUE  OBVIOUS
<1>1. DOMAIN f = Requested
      /\ \A c \in Requested :
           f[c] = IF \E r \in rs : r.cve = c
                  THEN Outcome(c, IF bad THEN "PARTIAL" ELSE "AVAILABLE", listed)
                  ELSE Outcome(c, IF bad THEN "PARTIAL" ELSE "NOT_FOUND", {})
  BY DEF CisaKev
<1>2. honest => ~bad
  <2> SUFFICES ASSUME honest PROVE ~bad  OBVIOUS
  <2>1. rs = Holdings.kev  BY TrueRecordsAre
  <2> QED  BY <2>1, EnrichmentAssumption DEF NoCve
<1>a. listed # {}  OBVIOUS
<1> HIDE DEF f, bad, listed
<1>3. f # ForAll("UNAVAILABLE")  BY <1>0, <1>1 DEF ForAll, Outcome
<1>4. WellFormed(f)  BY <1>1, <1>a DEF WellFormed, OutcomeIsValid, Statuses, Outcome
<1>5. \A c \in Requested : f[c].data # {} => \E r \in rs : r.cve = c
  BY <1>1 DEF Outcome
<1>6. honest => \A c \in Requested :
        f[c] = Outcome(c, IF Known("kev", c) = {} THEN "NOT_FOUND" ELSE "AVAILABLE",
                       Known("kev", c))
  <2> SUFFICES ASSUME honest, NEW c \in Requested
               PROVE  f[c] = Outcome(c, IF Known("kev", c) = {} THEN "NOT_FOUND"
                                        ELSE "AVAILABLE", Known("kev", c))
    OBVIOUS
  <2>1. rs = Holdings.kev  BY TrueRecordsAre
  <2>2. Known("kev", c) = {TRUE : r \in {s \in rs : s.cve = c}}  BY <2>1 DEF Known
  <2>3. CASE \E r \in rs : r.cve = c
    <3>1. Known("kev", c) = listed  BY <2>2, <2>3 DEF listed
    <3> QED  BY <3>1, <2>3, <1>1, <1>2, <1>a
  <2>4. CASE ~\E r \in rs : r.cve = c
    <3>1. Known("kev", c) = {}  BY <2>2, <2>4
    <3> QED  BY <3>1, <2>4, <1>1, <1>2
  <2> QED  BY <2>3, <2>4
<1> QED  BY <1>3, <1>4, <1>5, <1>6, CompleteIsSound DEF f, Providers

-----------------------------------------------------------------------------
(* The invariant is inductive *)

\* The setting never changes, nor what it determines.
LEMMA SettingStays ==
  ASSUME UNCHANGED setting
  PROVE  /\ Requested' = Requested /\ Usable' = Usable
         /\ \A p : Questions(p)' = Questions(p) /\ Fits(p)' = Fits(p)
         /\ \A p, c : Known(p, c)' = Known(p, c)
         /\ \A s : ForAll(s)' = ForAll(s)
         /\ \A r : BadEpss(r)' = BadEpss(r)
         /\ \A a : Exact(a)' = Exact(a)
<1>1. Requested' = Requested  BY DEF Requested, Anchors, setting
<1>2. Usable' = Usable  BY <1>1 DEF Usable, setting
<1>3. \A p : Questions(p)' = Questions(p) /\ Fits(p)' = Fits(p)
  BY <1>1 DEF Questions, Fits
<1>4. \A r : BadEpss(r)' = BadEpss(r)  BY <1>1 DEF BadEpss
<1>5. \A p, c : Known(p, c)' = Known(p, c)  BY <1>4 DEF Known, EpssData
<1>6. \A s : ForAll(s)' = ForAll(s)  BY <1>1 DEF ForAll
<1>7. \A a : Exact(a)' = Exact(a)  BY <1>1 DEF Exact
<1> QED  BY <1>1, <1>2, <1>3, <1>4, <1>5, <1>6, <1>7

\* A provider that has returned stays sound while its outcomes, its events and
\* its records stay what they are.
LEMMA SoundStays ==
  ASSUME UNCHANGED setting, NEW p, NEW f, NEW ev, NEW rs, Sound(p, f, ev, rs)
  PROVE  Sound(p, f, ev, rs)'
<1>1. WellFormed(f)'  BY SettingStays DEF Sound, WellFormed
<1>2. composition' = composition /\ honest' = honest  BY DEF setting
<1>3. (composition[p] = "production")' => Tells(p, f, ev)'
  BY <1>2, SettingStays DEF Sound, Tells
<1>4. ASSUME NEW c \in Requested PROVE Supported(p, f[c], ev, rs)'
  BY <1>2, <1>4, SettingStays DEF Sound, Supported
<1> QED  BY <1>1, <1>3, <1>4, SettingStays DEF Sound

LEMMA InitEnrich == Init => EnrichInv
<1> SUFFICES ASSUME Init PROVE EnrichInv  OBVIOUS
<1> USE DEF Init
<1>1. EnrichType  BY DEF EnrichType, Providers
<1>2. Over = {}  BY DEF Over
<1>3. PlaceInv  BY <1>2 DEF PlaceInv, Over
<1>4. AskInv  BY DEF AskInv
<1>5. SettledInv  BY <1>2 DEF SettledInv
<1>6. DoneInv  BY DEF DoneInv
<1> QED  BY <1>1, <1>3, <1>4, <1>5, <1>6 DEF EnrichInv

\* A provider returns sound outcomes, and the next one has its turn.
LEMMA SettleKeeps ==
  ASSUME EnrichInv, NEW f, phase \in {"calling", "asking"}, Settle(f),
         DOMAIN events' = Providers, DOMAIN records' = Providers,
         \A p \in Providers \ {turn} : events'[p] = events[p] /\ records'[p] = records[p],
         records'[turn] \in Seq(ToSet(records'[turn])),
         Sound(turn, f, events'[turn], ToSet(records'[turn]))
  PROVE  EnrichInv'
<1> USE DEF EnrichInv
<1>1. /\ outcome' = [outcome EXCEPT ![turn] = f]
      /\ phase' = IF turn = "kev" THEN "aggregate" ELSE "calling"
      /\ turn' = IF turn = "cvss" THEN "epss" ELSE "kev"
      /\ UNCHANGED setting /\ status' = status /\ enriched' = enriched
  BY DEF Settle
<1>2. /\ turn \in Providers /\ Usable /\ Requested # {}
      /\ DOMAIN outcome = Providers
      /\ \A p \in Providers : records[p] \in Seq(ToSet(records[p]))
  BY DEF EnrichType, PlaceInv
<1>3. Usable' = Usable /\ Requested' = Requested  BY <1>1, SettingStays
<1>4. Over = Before[turn] /\ Over' = Over \cup {turn}
  BY <1>1, <1>2, <1>3 DEF Over, Before, Providers
<1>5. /\ DOMAIN outcome' = Providers /\ outcome'[turn] = f
      /\ \A p \in Providers \ {turn} : outcome'[p] = outcome[p]
  BY <1>1, <1>2
<1>6. EnrichType'
  <2>1. /\ findings' = findings /\ present' = present /\ honest' = honest
        /\ composition' = composition
    BY <1>1 DEF setting
  <2>2. \A p \in Providers : records'[p] \in Seq(ToSet(records'[p]))
    BY <1>2
  <2> QED  BY <2>1, <2>2, <1>1, <1>2, <1>5 DEF EnrichType, Providers
<1>7. PlaceInv'
  <2>1. \A p \in Providers \ Over' :
          /\ p # turn /\ p \notin Over
          /\ outcome'[p] = <<>> /\ events'[p] = {} /\ records'[p] = <<>>
    BY <1>4, <1>5 DEF PlaceInv
  <2> QED  BY <2>1, <1>1, <1>2, <1>3 DEF PlaceInv
<1>8. AskInv'  BY <1>1 DEF AskInv
<1>9. SettledInv'
  <2> SUFFICES ASSUME NEW p \in Over'
               PROVE  Sound(p, outcome[p], events[p], ToSet(records[p]))'
    BY DEF SettledInv
  <2>1. Sound(p, outcome'[p], events'[p], ToSet(records'[p]))
    <3>1. CASE p = turn  BY <3>1, <1>5
    <3>2. CASE p # turn
      <4>1. p \in Over /\ p \in Providers  BY <3>2, <1>4, <1>2 DEF Before, Providers
      <4> QED  BY <4>1, <3>2, <1>5 DEF SettledInv
    <3> QED  BY <3>1, <3>2
  <2> QED  BY <2>1, <1>1, SoundStays
<1>10. DoneInv'  BY <1>1 DEF DoneInv
<1> QED  BY <1>6, <1>7, <1>8, <1>9, <1>10

LEMMA StartEnrich == EnrichInv /\ Start => EnrichInv'
<1> SUFFICES ASSUME EnrichInv, Start PROVE EnrichInv'  OBVIOUS
<1> USE DEF EnrichInv
<1>1. /\ phase = "start" /\ turn = "cvss" /\ UNCHANGED <<setting, turn, asks, events, records,
                                                         outcome, enriched>>
      /\ IF ~Usable THEN phase' = "done" /\ status' = "ERROR"
         ELSE phase' = (IF Requested = {} THEN "aggregate" ELSE "calling") /\ status' = status
  BY DEF Start, PlaceInv, Usable
<1>2. Usable' = Usable /\ Requested' = Requested  BY <1>1, SettingStays
<1>3. findings' = findings /\ present' = present /\ honest' = honest
      /\ composition' = composition
  BY <1>1 DEF setting
<1>4. Over = {} /\ Over' = {}  BY <1>1, <1>2 DEF Over, Before
<1>5. EnrichType'  BY <1>1, <1>3 DEF EnrichType
<1>6. PlaceInv'
  <2>1. \A p \in Providers \ Over' :
          outcome'[p] = <<>> /\ events'[p] = {} /\ records'[p] = <<>>
    BY <1>1, <1>4 DEF PlaceInv
  <2> QED  BY <2>1, <1>1, <1>2 DEF PlaceInv
<1>7. AskInv'  BY <1>1 DEF AskInv
<1>8. SettledInv'  BY <1>4 DEF SettledInv
<1>9. DoneInv'  BY <1>1, <1>2 DEF DoneInv
<1> QED  BY <1>5, <1>6, <1>7, <1>8, <1>9

\* The provider whose turn it is has received nothing before it is asked.
LEMMA TurnIsFresh ==
  ASSUME EnrichInv, phase = "calling"
  PROVE  events[turn] = {} /\ records[turn] = <<>> /\ turn \in Providers /\ Requested # {}
<1> QED  BY DEF EnrichInv, EnrichType, PlaceInv, Over, Before, Providers

LEMMA CallAbsentEnrich == EnrichInv /\ CallAbsent => EnrichInv'
<1> SUFFICES ASSUME EnrichInv, CallAbsent PROVE EnrichInv'  OBVIOUS
<1>1. /\ phase = "calling" /\ composition[turn] = "absent"
      /\ Settle(ForAll("UNAVAILABLE")) /\ events' = events /\ records' = records
  BY DEF CallAbsent
<1>2. Sound(turn, ForAll("UNAVAILABLE"), events[turn], ToSet(records[turn]))
  BY <1>1, TurnIsFresh, FailureIsSound
<1> QED  BY <1>1, <1>2, SettleKeeps, TurnIsFresh DEF EnrichInv, EnrichType

LEMMA CallCustomEnrich == EnrichInv /\ CallCustom => EnrichInv'
<1> SUFFICES ASSUME EnrichInv, CallCustom PROVE EnrichInv'  OBVIOUS
<1>1. /\ phase = "calling" /\ composition[turn] = "custom"
      /\ events' = events /\ records' = records
      /\ DOMAIN events = Providers /\ DOMAIN records = Providers
      /\ records[turn] \in Seq(ToSet(records[turn]))
  BY TurnIsFresh DEF CallCustom, EnrichInv, EnrichType
<1>2. CASE Settle(ForAll("ERROR"))
  <2>1. Sound(turn, ForAll("ERROR"), events[turn], ToSet(records[turn]))
    BY <1>1, TurnIsFresh, FailureIsSound
  <2> QED  BY <1>1, <1>2, <2>1, SettleKeeps
<1>3. CASE \E a \in CustomAnswers : Settle(ExactOutcomes(a))
  <2>1. PICK a \in CustomAnswers : Settle(ExactOutcomes(a))  BY <1>3
  <2>2. Sound(turn, ExactOutcomes(a), events[turn], ToSet(records[turn]))
    BY <1>1, TurnIsFresh, CustomIsSound
  <2> QED  BY <1>1, <2>1, <2>2, SettleKeeps
<1> QED  BY <1>2, <1>3 DEF CallCustom

LEMMA CallProductionEnrich == EnrichInv /\ CallProduction => EnrichInv'
<1> SUFFICES ASSUME EnrichInv, CallProduction PROVE EnrichInv'  OBVIOUS
<1>1. /\ phase = "calling" /\ composition[turn] = "production"
      /\ events' = events /\ records' = records
      /\ DOMAIN events = Providers /\ DOMAIN records = Providers
      /\ records[turn] \in Seq(ToSet(records[turn]))
  BY TurnIsFresh DEF CallProduction, EnrichInv, EnrichType
<1>2. CASE ~Fits(turn)
  <2>1. Settle(ForAll("ERROR"))  BY <1>2 DEF CallProduction
  <2>2. events[turn] \cap Transient = {}  BY <1>1, TurnIsFresh
  <2>3. Sound(turn, ForAll("ERROR"), events[turn], ToSet(records[turn]))
    BY <1>1, <1>2, <2>2, TurnIsFresh, FailureIsSound
  <2> QED  BY <1>1, <2>1, <2>3, SettleKeeps
<1>3. CASE Fits(turn)
  <2> USE DEF EnrichInv
  <2>1. /\ phase' = "asking" /\ asks' = Questions(turn)
        /\ UNCHANGED <<setting, turn, outcome, enriched, status>>
    BY <1>3 DEF CallProduction
  <2>2. Usable' = Usable /\ Requested' = Requested
        /\ \A p : Questions(p)' = Questions(p) /\ Fits(p)' = Fits(p)
    BY <2>1, SettingStays
  <2>3. findings' = findings /\ present' = present /\ honest' = honest
        /\ composition' = composition
    BY <2>1 DEF setting
  <2>4. Over' = Over  BY <1>1, <2>1 DEF Over
  <2>5. EnrichType'  BY <1>1, <2>1, <2>3 DEF EnrichType
  <2>6. PlaceInv'  BY <1>1, <2>1, <2>2, <2>4 DEF PlaceInv
  <2>7. AskInv'
    <3> DEFINE p == turn
    <3>0. turn' = p /\ asks' = Questions(p)  BY <2>1
    <3>1. events'[p] = {} /\ records'[p] = <<>>  BY <1>1, TurnIsFresh
    <3>2. ToSet(<<>>) = {}  BY DEF ToSet
    <3>3. Questions(p)' = Questions(p) /\ Fits(p)' /\ (composition[p])' = "production"
      <4>1. Questions(turn)' = Questions(turn)
        BY <2>1, <2>2 DEF Questions
      <4>2. Fits(turn)'  BY <2>1, <2>2, <1>3 DEF Fits
      <4> QED  BY <4>1, <4>2, <2>1, <2>3, <1>1
    <3>4. (UNION {Due(turn, q) : q \in Questions(turn) \ asks})' = {}
      <4>1. (Questions(turn) \ asks)' = {}  BY <3>3, <3>0
      <4> QED  BY <4>1
    <3> QED  BY <3>0, <3>1, <3>2, <3>3, <3>4, <2>1 DEF AskInv
  <2>8. SettledInv'
    <3> SUFFICES ASSUME NEW p \in Over
                 PROVE  Sound(p, outcome[p], events[p], ToSet(records[p]))'
      BY <2>4 DEF SettledInv
    <3>1. Sound(p, outcome'[p], events'[p], ToSet(records'[p]))
      BY <1>1, <2>1 DEF SettledInv
    <3> QED  BY <3>1, <2>1, SoundStays
  <2>9. DoneInv'  BY <1>1, <2>1 DEF DoneInv
  <2> QED  BY <2>5, <2>6, <2>7, <2>8, <2>9
<1> QED  BY <1>2, <1>3

LEMMA FailEnrich ==
  ASSUME NEW e \in Transient \cup Broken
  PROVE  EnrichInv /\ Fail(e) => EnrichInv'
<1> SUFFICES ASSUME EnrichInv, Fail(e) PROVE EnrichInv'  OBVIOUS
<1> DEFINE st == IF e \in Transient THEN "UNAVAILABLE" ELSE "ERROR"
<1>1. /\ phase = "asking" /\ Settle(ForAll(st)) /\ records' = records
      /\ events' = [events EXCEPT ![turn] = @ \cup {e}]
  BY DEF Fail
<1>2. /\ DOMAIN events = Providers /\ DOMAIN records = Providers
      /\ records[turn] \in Seq(ToSet(records[turn])) /\ turn \in Providers
      /\ events[turn] \subseteq {"list"} /\ Requested # {}
  BY <1>1 DEF EnrichInv, EnrichType, PlaceInv, AskInv
<1>3. /\ e \in events'[turn] /\ events'[turn] \subseteq {"list", e}
      /\ DOMAIN events' = Providers
      /\ \A p \in Providers \ {turn} : events'[p] = events[p]
  BY <1>1, <1>2
<1>4. e # "list" /\ (e \in Transient <=> e \notin Broken)
      /\ e \notin {"junk", "too_many", "encoding"} /\ "list" \notin Transient
      /\ "list" \notin Broken
  BY DEF Transient, Broken
<1>5. st = "UNAVAILABLE" <=> events'[turn] \cap Transient # {}
  BY <1>3, <1>4
<1>6. st = "UNAVAILABLE" =>
        events'[turn] \cap (Broken \cup {"junk", "too_many", "encoding"}) = {}
  BY <1>3, <1>4
<1>7. ~(events'[turn] \subseteq {"list"})  BY <1>3, <1>4
<1> HIDE DEF st
<1>8. st \in {"ERROR", "UNAVAILABLE"}  BY DEF st
<1>9. Sound(turn, ForAll(st), events'[turn], ToSet(records[turn]))
  BY <1>2, <1>5, <1>6, <1>7, <1>8, FailureIsSound
<1>10. /\ phase \in {"calling", "asking"} /\ Settle(ForAll(st))
       /\ DOMAIN records' = Providers /\ records'[turn] \in Seq(ToSet(records'[turn]))
       /\ \A p \in Providers \ {turn} : events'[p] = events[p] /\ records'[p] = records[p]
       /\ Sound(turn, ForAll(st), events'[turn], ToSet(records'[turn]))
  BY <1>1, <1>2, <1>3, <1>9
<1> QED  BY <1>3, <1>10, SettleKeeps

\* A provider that raises on what it received.
LEMMA RaiseEnrich ==
  ASSUME EnrichInv, phase = "asking", Settle(ForAll("ERROR")), records' = records,
         NEW e \in {"junk", "too_many", "encoding"},
         e \in events'[turn], events'[turn] \subseteq events[turn] \cup {e},
         DOMAIN events' = Providers,
         \A p \in Providers \ {turn} : events'[p] = events[p]
  PROVE  EnrichInv'
<1>1. /\ DOMAIN records = Providers
      /\ records[turn] \in Seq(ToSet(records[turn])) /\ turn \in Providers
      /\ events[turn] \subseteq {"list"} /\ Requested # {}
  BY DEF EnrichInv, EnrichType, PlaceInv, AskInv
<1>2. e \in events'[turn] /\ events'[turn] \subseteq {"list", e}  BY <1>1
<1>3. events'[turn] \cap Transient = {}  BY <1>2 DEF Transient
<1>4. ~(events'[turn] \subseteq {"list"})  BY <1>2
<1>5. Sound(turn, ForAll("ERROR"), events'[turn], ToSet(records[turn]))
  BY <1>1, <1>3, <1>4, FailureIsSound
<1>6. /\ phase \in {"calling", "asking"}
      /\ DOMAIN records' = Providers /\ records'[turn] \in Seq(ToSet(records'[turn]))
      /\ \A p \in Providers \ {turn} : events'[p] = events[p] /\ records'[p] = records[p]
      /\ Sound(turn, ForAll("ERROR"), events'[turn], ToSet(records'[turn]))
  BY <1>1, <1>2, <1>5
<1> QED  BY <1>6, SettleKeeps

\* A source goes on to its next question.
LEMMA AskOn ==
  ASSUME EnrichInv, phase = "asking", NEW q \in asks, asks' = asks \ {q},
         UNCHANGED <<setting, phase, turn, outcome, enriched, status>>,
         DOMAIN events' = Providers, DOMAIN records' = Providers,
         \A p \in Providers \ {turn} : events'[p] = events[p] /\ records'[p] = records[p],
         records'[turn] \in Seq(ToSet(records'[turn])),
         events'[turn] \subseteq {"list"},
         honest => ToSet(records'[turn]) = ToSet(records[turn]) \cup Due(turn, q)
  PROVE  EnrichInv'
<1> USE DEF EnrichInv
<1>1. Usable' = Usable /\ Requested' = Requested  BY SettingStays
<1>2. findings' = findings /\ present' = present /\ honest' = honest
      /\ composition' = composition
  BY DEF setting
<1>3. Over' = Over /\ turn \notin Over /\ Over \subseteq Providers
  BY DEF Over, EnrichType, Before, Providers
<1>4. turn \in Providers /\ \A p \in Providers : records[p] \in Seq(ToSet(records[p]))
  BY DEF EnrichType
<1>5. EnrichType'  BY <1>2, <1>4 DEF EnrichType
<1>6. PlaceInv'
  <2>1. \A p \in Providers \ Over' :
          /\ outcome'[p] = <<>>
          /\ (p = turn' /\ phase' = "asking") \/ (events'[p] = {} /\ records'[p] = <<>>)
    BY <1>3 DEF PlaceInv
  <2> QED  BY <2>1, <1>1, <1>3 DEF PlaceInv
<1>7. AskInv'
  <2> DEFINE known(s) == UNION {Due(turn, r) : r \in s}
             rest == Questions(turn) \ asks
  <2>0. /\ composition[turn] = "production" /\ Fits(turn)
        /\ asks \subseteq Questions(turn) /\ events[turn] \subseteq {"list"}
        /\ honest => ToSet(records[turn]) = known(rest)
    BY DEF AskInv
  <2>1. Questions(turn)' = Questions(turn) /\ Fits(turn)'
    BY <2>0, <1>1 DEF Questions, Fits
  <2>2. Questions(turn) \ (asks \ {q}) = rest \cup {q}  BY <2>0
  <2>3. known(rest \cup {q}) = known(rest) \cup Due(turn, q)
    <3>1. \A x \in known(rest \cup {q}) : x \in known(rest) \cup Due(turn, q)
      <4> HIDE DEF rest
      <4> QED  OBVIOUS
    <3>2. \A x \in known(rest) \cup Due(turn, q) : x \in known(rest \cup {q})
      <4> HIDE DEF rest
      <4> QED  OBVIOUS
    <3> QED  BY <3>1, <3>2, Zenon
  <2>4. honest => ToSet(records'[turn]) = known(Questions(turn) \ (asks \ {q}))
    <3> HIDE DEF known, rest
    <3> QED  BY <2>0, <2>2, <2>3
  <2>5. (UNION {Due(turn, r) : r \in Questions(turn) \ asks})'
          = known(Questions(turn) \ (asks \ {q}))
    BY <2>1 DEF Due
  <2>6. (composition[turn])' = "production" /\ (asks \subseteq Questions(turn))'
        /\ (events[turn] \subseteq {"list"})'
    BY <2>0, <2>1, <1>2
  <2> QED  BY <2>1, <2>4, <2>5, <2>6, <1>2 DEF AskInv
<1>8. SettledInv'
  <2> SUFFICES ASSUME NEW p \in Over
               PROVE  Sound(p, outcome[p], events[p], ToSet(records[p]))'
    BY <1>3 DEF SettledInv
  <2>1. Sound(p, outcome'[p], events'[p], ToSet(records'[p]))
    BY <1>3 DEF SettledInv
  <2> QED  BY <2>1, SoundStays
<1>9. DoneInv'  BY DEF DoneInv
<1> QED  BY <1>5, <1>6, <1>7, <1>8, <1>9

LEMMA AnswerEnrich == EnrichInv /\ Answer => EnrichInv'
<1> SUFFICES ASSUME EnrichInv, Answer PROVE EnrichInv'  OBVIOUS
<1>1. phase = "asking"  BY DEF Answer
<1>2. PICK q \in asks : \E b \in Bodies(turn, q) :
        LET all == Keep(records[turn], b)
            form == IF Len(all) > MaxRecords THEN "too_many" ELSE b.form
        IN /\ events' = [events EXCEPT ![turn] = @ \cup {form}]
           /\ IF form # "list"
              THEN Settle(ForAll("ERROR")) /\ UNCHANGED records
              ELSE /\ records' = [records EXCEPT ![turn] = all]
                   /\ asks' = asks \ {q}
                   /\ UNCHANGED <<setting, phase, turn, outcome, enriched, status>>
  BY Zenon DEF Answer
<1>3. PICK b \in Bodies(turn, q) :
        LET all == Keep(records[turn], b)
            form == IF Len(all) > MaxRecords THEN "too_many" ELSE b.form
        IN /\ events' = [events EXCEPT ![turn] = @ \cup {form}]
           /\ IF form # "list"
              THEN Settle(ForAll("ERROR")) /\ UNCHANGED records
              ELSE /\ records' = [records EXCEPT ![turn] = all]
                   /\ asks' = asks \ {q}
                   /\ UNCHANGED <<setting, phase, turn, outcome, enriched, status>>
  BY <1>2, Zenon
<1> DEFINE all == Keep(records[turn], b)
           form == IF Len(all) > MaxRecords THEN "too_many" ELSE b.form
<1>4. /\ events' = [events EXCEPT ![turn] = @ \cup {form}]
      /\ form # "list" => Settle(ForAll("ERROR")) /\ records' = records
      /\ form = "list" =>
           /\ records' = [records EXCEPT ![turn] = all]
           /\ asks' = asks \ {q}
           /\ UNCHANGED <<setting, phase, turn, outcome, enriched, status>>
  BY <1>3, Zenon
<1>5. /\ DOMAIN events = Providers /\ DOMAIN records = Providers
      /\ records[turn] \in Seq(ToSet(records[turn])) /\ turn \in Providers
      /\ \A p \in Providers : records[p] \in Seq(ToSet(records[p]))
      /\ events[turn] \subseteq {"list"}
  BY <1>1 DEF EnrichInv, EnrichType, AskInv
<1>6. b.form \in {"list", "junk"} /\ b.records \in Seq(ToSet(b.records))
      /\ (honest => ToSet(b.records) = Due(turn, q))
  <2>1. CASE honest
    <3> DEFINE D == Due(turn, q)
    <3>1. IsFiniteSet(D)
      <4>1. /\ IsFiniteSet({r \in Holdings.cvss : r.cve \in q})
            /\ IsFiniteSet({r \in Holdings.epss : r.cve \in q})
        BY TruthAssumption, FS_Subset
      <4> QED  BY <4>1, TruthAssumption DEF Due
    <3>2. b = [form |-> "list", records |-> SetToSeq(D)]
      BY <2>1 DEF Bodies, TrueBody, Due
    <3> HIDE DEF D
    <3>3. SetToSeq(D) \in Seq(D) /\ ToSet(SetToSeq(D)) = D  BY <3>1, ListedElements
    <3> QED  BY <3>2, <3>3 DEF D
  <2>2. CASE ~honest
    <3>1. b \in OddBodies[turn]  BY <2>2 DEF Bodies
    <3> QED  BY <3>1, <2>2, <1>5, EnrichmentAssumption
  <2> QED  BY <2>1, <2>2
<1>7. /\ all \in Seq(ToSet(all))
      /\ ToSet(all) = ToSet(records[turn]) \cup ToSet(b.records)
  <2>1. all = records[turn] \o b.records  BY DEF Keep
  <2> QED  BY <2>1, <1>5, <1>6, JoinedElements
<1>8. form \in {"list", "junk", "too_many"}  BY <1>6
<1> HIDE DEF all, form
<1>9. CASE form # "list"
  <2>1. form \in {"junk", "too_many", "encoding"}  BY <1>8, <1>9
  <2>2. /\ form \in events'[turn] /\ events'[turn] \subseteq events[turn] \cup {form}
        /\ DOMAIN events' = Providers
        /\ \A p \in Providers \ {turn} : events'[p] = events[p]
    BY <1>4, <1>5
  <2>3. Settle(ForAll("ERROR")) /\ records' = records  BY <1>4, <1>9
  <2> QED  BY <2>1, <2>2, <2>3, <1>1, RaiseEnrich
<1>10. CASE form = "list"
  <2>1. /\ DOMAIN events' = Providers /\ DOMAIN records' = Providers
        /\ \A p \in Providers \ {turn} : events'[p] = events[p] /\ records'[p] = records[p]
        /\ records'[turn] = all /\ events'[turn] \subseteq {"list"}
    BY <1>4, <1>5, <1>10
  <2>2. /\ records'[turn] \in Seq(ToSet(records'[turn]))
        /\ honest => ToSet(records'[turn]) = ToSet(records[turn]) \cup Due(turn, q)
    BY <2>1, <1>6, <1>7
  <2>3. asks' = asks \ {q} /\ UNCHANGED <<setting, phase, turn, outcome, enriched, status>>
    BY <1>4, <1>10
  <2> QED  BY <1>1, <2>1, <2>2, <2>3, AskOn
<1> QED  BY <1>9, <1>10

LEMMA AnswerNotFoundEnrich == EnrichInv /\ AnswerNotFound => EnrichInv'
<1> SUFFICES ASSUME EnrichInv, AnswerNotFound PROVE EnrichInv'  OBVIOUS
<1>1. /\ phase = "asking" /\ turn = "cvss" /\ events' = events /\ records' = records
      /\ UNCHANGED <<setting, phase, turn, outcome, enriched, status>>
  BY DEF AnswerNotFound, NotFoundIsEmpty
<1>2. PICK q \in asks : /\ asks' = asks \ {q}
                        /\ honest => TrueBody(turn, q).records = <<>>
  BY DEF AnswerNotFound
<1>3. /\ DOMAIN events = Providers /\ DOMAIN records = Providers
      /\ records[turn] \in Seq(ToSet(records[turn]))
      /\ events[turn] \subseteq {"list"}
  BY <1>1 DEF EnrichInv, EnrichType, AskInv, Providers
<1>4. honest => Due(turn, q) = {}
  <2> SUFFICES ASSUME honest PROVE Due(turn, q) = {}  OBVIOUS
  <2> DEFINE D == {r \in Holdings.cvss : r.cve \in q}
  <2>1. IsFiniteSet(D)  BY TruthAssumption, FS_Subset
  <2>2. Due(turn, q) = D /\ SetToSeq(D) = <<>>  BY <1>1, <1>2 DEF Due, TrueBody
  <2> HIDE DEF D
  <2>3. ToSet(SetToSeq(D)) = D  BY <2>1, ListedElements
  <2>4. ToSet(<<>>) = {}  BY DEF ToSet
  <2> QED  BY <2>2, <2>3, <2>4
<1>5. honest => ToSet(records[turn]) = ToSet(records[turn]) \cup Due(turn, q)
  BY <1>4
<1> QED  BY <1>1, <1>2, <1>3, <1>5, AskOn

LEMMA EncodingFailsEnrich == EnrichInv /\ EncodingFails => EnrichInv'
<1> SUFFICES ASSUME EnrichInv, EncodingFails PROVE EnrichInv'  OBVIOUS
<1>1. /\ phase = "asking" /\ Settle(ForAll("ERROR")) /\ records' = records
      /\ events' = [events EXCEPT ![turn] = @ \cup {"encoding"}]
  BY DEF EncodingFails
<1>2. DOMAIN events = Providers /\ turn \in Providers
  BY DEF EnrichInv, EnrichType
<1>3. /\ "encoding" \in events'[turn] /\ events'[turn] \subseteq events[turn] \cup {"encoding"}
      /\ DOMAIN events' = Providers
      /\ \A p \in Providers \ {turn} : events'[p] = events[p]
  BY <1>1, <1>2
<1> QED  BY <1>1, <1>3, RaiseEnrich

LEMMA NormalizeEnrich == EnrichInv /\ Normalize => EnrichInv'
<1> SUFFICES ASSUME EnrichInv, Normalize PROVE EnrichInv'  OBVIOUS
<1> DEFINE rs == ToSet(records[turn])
           ev == events[turn]
           f == CASE turn = "cvss" -> NvdCvss(rs)
                  [] turn = "epss" -> FirstEpss(rs)
                  [] OTHER         -> CisaKev(rs)
<1>1. phase = "asking" /\ asks = {} /\ Settle(f) /\ events' = events /\ records' = records
  BY DEF Normalize
<1>2. /\ DOMAIN events = Providers /\ DOMAIN records = Providers
      /\ records[turn] \in Seq(ToSet(records[turn])) /\ turn \in Providers
      /\ composition[turn] = "production" /\ events[turn] \subseteq {"list"}
      /\ honest => rs = TrueRecords(turn)
      /\ Requested # {}
  BY <1>1 DEF EnrichInv, EnrichType, AskInv, PlaceInv, TrueRecords
<1>3. IsFiniteSet(rs)  BY <1>2, ElementsAreFinite
<1>4. Requested \subseteq Cve
  BY EnrichmentAssumption DEF EnrichInv, EnrichType, Requested, Anchors
<1>5. Sound(turn, f, ev, rs)
  <2> HIDE DEF rs, ev
  <2>0. ev \in SUBSET {"list"}  BY <1>2 DEF ev
  <2>1. CASE turn = "cvss"
    <3>1. Sound("cvss", NvdCvss(rs), ev, rs)  BY <2>0, <2>1, <1>2, CvssIsSound
    <3> QED  BY <3>1, <2>1
  <2>2. CASE turn = "epss"
    <3>1. Sound("epss", FirstEpss(rs), ev, rs)  BY <2>0, <2>2, <1>2, <1>3, EpssIsSound
    <3> QED  BY <3>1, <2>2
  <2>3. CASE turn = "kev"
    <3>1. Sound("kev", CisaKev(rs), ev, rs)  BY <2>0, <2>3, <1>2, <1>4, KevIsSound
    <3> QED  BY <3>1, <2>3
  <2> QED  BY <2>1, <2>2, <2>3, <1>2 DEF Providers
<1> HIDE DEF f
<1> QED  BY <1>1, <1>2, <1>5, SettleKeeps

LEMMA AggregateEnrich == EnrichInv /\ Aggregate => EnrichInv'
<1> SUFFICES ASSUME EnrichInv, Aggregate PROVE EnrichInv'  OBVIOUS
<1> USE DEF EnrichInv
<1>1. /\ phase = "aggregate" /\ phase' = "done"
      /\ UNCHANGED <<setting, turn, asks, events, records, outcome>>
      /\ status' = StatusOf({Enriched(f) : f \in findings})
      /\ enriched' = IF status' = "FAILURE" THEN {} ELSE {Enriched(f) : f \in findings}
  BY DEF Aggregate
<1>2. Usable' = Usable /\ Requested' = Requested /\ Usable
  BY <1>1, SettingStays DEF PlaceInv
<1>3. findings' = findings /\ present' = present /\ honest' = honest
      /\ composition' = composition
  BY <1>1 DEF setting
<1>4. Over' = Over  BY <1>1, <1>2 DEF Over
<1>5. EnrichType'  BY <1>1, <1>3 DEF EnrichType
<1>6. PlaceInv'  BY <1>1, <1>2, <1>4 DEF PlaceInv
<1>7. AskInv'  BY <1>1 DEF AskInv
<1>8. SettledInv'
  <2> SUFFICES ASSUME NEW p \in Over
               PROVE  Sound(p, outcome[p], events[p], ToSet(records[p]))'
    BY <1>4 DEF SettledInv
  <2>1. Sound(p, outcome'[p], events'[p], ToSet(records'[p]))
    BY <1>1 DEF SettledInv
  <2> QED  BY <2>1, <1>1, SoundStays
<1>9. DoneInv'
  <2>0. findings' = findings /\ outcome' = outcome
    BY <1>1, <1>3
  <2>4. \A c : Completeness(c)' = Completeness(c)
    BY <2>0 DEF Completeness
  <2>1. \A f : Enriched(f)' = Enriched(f)
    <3> SUFFICES ASSUME NEW f PROVE Enriched(f)' = Enriched(f)
      OBVIOUS
    <3> DEFINE O == {<<p, outcome[p][c]>> : p \in Providers, c \in Anchors(f)}
               K == Completeness(CHOOSE c \in Anchors(f) : TRUE)
               of(o, k) ==
                 [finding |-> f, cve |-> Anchors(f), outcomes |-> o,
                  completeness |-> IF Anchors(f) = {} THEN "NOT_APPLICABLE" ELSE k]
    <3>1. O' = O
      BY <2>0 DEF Anchors
    <3>2. K' = K
      BY <2>4 DEF Anchors
    <3>3. Enriched(f) = of(O, K)
      BY DEF Enriched
    <3>4. Enriched(f)' = of(O', K')
      BY DEF Enriched, Anchors
    <3> HIDE DEF of, O, K
    <3> QED
      BY <3>1, <3>2, <3>3, <3>4
  <2>2. {Enriched(f) : f \in findings}' = {Enriched(f) : f \in findings}
    BY <2>0, <2>1
  <2>3. StatusOf({Enriched(f) : f \in findings})' = StatusOf({Enriched(f) : f \in findings})
    BY <2>2 DEF StatusOf
  <2> QED  BY <1>1, <1>2, <2>2, <2>3 DEF DoneInv
<1> QED  BY <1>5, <1>6, <1>7, <1>8, <1>9

\* Every step keeps the invariant.
LEMMA NextEnrich == EnrichInv /\ [Next]_vars => EnrichInv'
<1> SUFFICES ASSUME EnrichInv, [Next]_vars PROVE EnrichInv'  OBVIOUS
<1>1. CASE Start  BY <1>1, StartEnrich
<1>2. CASE CallAbsent  BY <1>2, CallAbsentEnrich
<1>3. CASE CallCustom  BY <1>3, CallCustomEnrich
<1>4. CASE CallProduction  BY <1>4, CallProductionEnrich
<1>5. CASE \E e \in Transient \cup Broken : Fail(e)  BY <1>5, FailEnrich
<1>6. CASE Answer  BY <1>6, AnswerEnrich
<1>7. CASE AnswerNotFound  BY <1>7, AnswerNotFoundEnrich
<1>8. CASE EncodingFails  BY <1>8, EncodingFailsEnrich
<1>9. CASE Normalize  BY <1>9, NormalizeEnrich
<1>10. CASE Aggregate  BY <1>10, AggregateEnrich
<1>11. CASE UNCHANGED vars
  <2> USE DEF EnrichInv
  <2>1. /\ UNCHANGED setting
        /\ UNCHANGED <<findings, present, composition, honest, phase, turn, asks, events,
                       records, outcome, enriched, status>>
    BY <1>11 DEF vars, setting
  <2>2. Usable' = Usable /\ Requested' = Requested
        /\ \A p : Questions(p)' = Questions(p) /\ Fits(p)' = Fits(p)
    BY <2>1, SettingStays
  <2>3. Over' = Over  BY <2>1, <2>2 DEF Over
  <2>4. EnrichType'  BY <2>1 DEF EnrichType
  <2>5. PlaceInv'  BY <2>1, <2>2, <2>3 DEF PlaceInv
  <2>6. AskInv'
    <3>1. Questions(turn)' = Questions(turn) /\ Fits(turn)' = Fits(turn)
          /\ \A p, q : Due(p, q)' = Due(p, q)
      BY <2>1, <2>2 DEF Questions, Fits, Due
    <3> QED  BY <2>1, <3>1 DEF AskInv, Due
  <2>7. SettledInv'
    <3> SUFFICES ASSUME NEW p \in Over
                 PROVE  Sound(p, outcome[p], events[p], ToSet(records[p]))'
      BY <2>3 DEF SettledInv
    <3>1. Sound(p, outcome'[p], events'[p], ToSet(records'[p]))
      BY <2>1 DEF SettledInv
    <3> QED  BY <3>1, <2>1, SoundStays
  <2>8. DoneInv'
    <3>1. \A f : Enriched(f)' = Enriched(f)
      BY <2>1 DEF Enriched, Completeness, Anchors
    <3>2. {Enriched(f) : f \in findings}' = {Enriched(f) : f \in findings}
      BY <3>1, <2>1
    <3> QED  BY <2>1, <2>2, <3>2 DEF DoneInv, StatusOf
  <2> QED  BY <2>4, <2>5, <2>6, <2>7, <2>8
<1> QED  BY <1>1, <1>2, <1>3, <1>4, <1>5, <1>6, <1>7, <1>8, <1>9, <1>10, <1>11 DEF Next

-----------------------------------------------------------------------------
(* The theorems *)

\* EnrichInv holds in every state that enrichment reaches.
LEMMA EnrichInvariant == Spec => []EnrichInv
<1>1. Init => EnrichInv  BY InitEnrich
<1>2. EnrichInv /\ [Next]_vars => EnrichInv'  BY NextEnrich
<1> QED  BY <1>1, <1>2, PTL DEF Spec

LEMMA ExactFollows == EnrichInv => OutcomesAreExact
<1> SUFFICES ASSUME EnrichInv, NEW p \in Providers, composition[p] = "production", Settled(p)
             PROVE  Tells(p, outcome[p], events[p])
  BY Zenon DEF OutcomesAreExact, Tells
<1>1. p \in Over  BY DEF Settled, EnrichInv, PlaceInv
<1> QED  BY <1>1 DEF EnrichInv, SettledInv, Sound

\* A production provider of truthful services tells exactly what its service
\* knows when no request failed, and a request that failed leaves no data
\* (get_cvss, get_epss, get_kev over their HTTPS sources).
THEOREM OutcomesAreExactHolds == Spec => []OutcomesAreExact
BY EnrichInvariant, ExactFollows, PTL

\* The CVE of a finding is the only one it refers to.
LEMMA AnchorIsSole ==
  ASSUME EnrichInv, NEW f \in findings, NEW c \in Anchors(f)
  PROVE  f.cves = {c} /\ Anchors(f) = {c} /\ c \in Requested
<1>1. IsFiniteSet(f.cves)  BY EnrichmentAssumption DEF EnrichInv, EnrichType
<1>2. Cardinality(f.cves) = 1 /\ Anchors(f) = f.cves  BY DEF Anchors
<1>3. \E x : f.cves = {x}  BY <1>1, <1>2, FS_Singleton
<1> QED  BY <1>2, <1>3 DEF Requested

LEMMA OwnFollows == EnrichInv => DataIsItsOwn
<1> SUFFICES ASSUME EnrichInv, NEW e \in enriched, NEW po \in e.outcomes
             PROVE  LET p == po[1]
                        o == po[2]
                    IN /\ e.cve = {o.cve} /\ e.finding.cves = {o.cve}
                       /\ composition[p] = "production" =>
                            CASE p = "cvss" -> \A d \in o.data : \E r \in Received(p, o.cve) : d \in r.entries
                              [] p = "epss" -> \A d \in o.data : \A r \in Received(p, o.cve) :
                                                 BadEpss(r) \/ d = <<r.probability, r.percentile>>
                              [] OTHER      -> o.data # {} => Received(p, o.cve) # {}
                       /\ composition[p] = "custom" /\ o.data # {} =>
                            \E a \in CustomAnswers : Exact(a) /\ o \in ToSet(a)
                       /\ composition[p] = "absent" \/ events[p] \cap (Transient \cup Broken) # {}
                            => o.data = {}
  BY Zenon DEF DataIsItsOwn
<1>1. phase = "done" /\ Usable /\ e \in {Enriched(f) : f \in findings}
  BY DEF EnrichInv, DoneInv
<1>2. PICK f \in findings : e = Enriched(f)  BY <1>1
<1>3. e.finding = f /\ e.cve = Anchors(f)
      /\ e.outcomes = {<<p, outcome[p][c]>> : p \in Providers, c \in Anchors(f)}
  BY <1>2 DEF Enriched
<1>4. PICK p \in Providers, c \in Anchors(f) : po = <<p, outcome[p][c]>>  BY <1>3
<1>5. f.cves = {c} /\ Anchors(f) = {c} /\ c \in Requested  BY AnchorIsSole
<1>6. Sound(p, outcome[p], events[p], ToSet(records[p]))
  BY <1>1, <1>5 DEF EnrichInv, SettledInv, Over
<1> DEFINE o == outcome[p][c]
<1>7. o.cve = c /\ Supported(p, o, events[p], ToSet(records[p]))
  BY <1>5, <1>6 DEF Sound, WellFormed
<1>8. po[1] = p /\ po[2] = o  BY <1>4
<1> HIDE DEF o
<1>9. e.cve = {o.cve} /\ e.finding.cves = {o.cve}  BY <1>3, <1>5, <1>7
<1>10. composition[p] = "production" =>
         CASE p = "cvss" -> \A d \in o.data : \E r \in Received(p, o.cve) : d \in r.entries
           [] p = "epss" -> \A d \in o.data : \A r \in Received(p, o.cve) :
                              BadEpss(r) \/ d = <<r.probability, r.percentile>>
           [] OTHER      -> o.data # {} => Received(p, o.cve) # {}
  BY <1>7 DEF Supported, Received
<1>11. /\ composition[p] = "custom" /\ o.data # {} =>
             \E a \in CustomAnswers : Exact(a) /\ o \in ToSet(a)
       /\ composition[p] = "absent" \/ events[p] \cap (Transient \cup Broken) # {} => o.data = {}
  BY <1>7, Zenon DEF Supported
<1> QED  BY <1>8, <1>9, <1>10, <1>11, Zenon

\* A finding carries only data that a record for its own CVE supports
\* (enrichment_cve, get_cvss, get_epss, get_kev, _exact_outcomes).
THEOREM DataIsItsOwnHolds == Spec => []DataIsItsOwn
BY EnrichInvariant, OwnFollows, PTL

\* Once every provider has returned, a CVE is complete if all three have data
\* and has none if none has.
LEMMA CompletenessTells ==
  ASSUME EnrichInv, phase = "done", Usable, NEW c \in Requested
  PROVE  /\ Completeness(c) \in {"COMPLETE", "PARTIAL", "NONE"}
         /\ Completeness(c) = "COMPLETE" <=>
              \A p \in Providers : outcome[p][c].status = "AVAILABLE"
         /\ Completeness(c) = "NONE" <=> \A p \in Providers : outcome[p][c].data = {}
<1>1. \A p \in Providers : OutcomeIsValid(outcome[p][c])
  BY DEF EnrichInv, SettledInv, Over, Sound, WellFormed
<1>2. \A p \in Providers : outcome[p][c].status = "AVAILABLE" => outcome[p][c].data # {}
  BY <1>1 DEF OutcomeIsValid
<1>3. "cvss" \in Providers  BY DEF Providers
<1> QED  BY <1>2, <1>3 DEF Completeness

\* The completeness of the eligible findings is that of the CVEs asked for.
LEMMA EligibleAre ==
  ASSUME EnrichInv, phase = "done", Usable
  PROVE  {e.completeness : e \in {Enriched(f) : f \in findings}} \ {"NOT_APPLICABLE"}
           = {Completeness(c) : c \in Requested}
<1> DEFINE es == {Enriched(f) : f \in findings}
           left == {e.completeness : e \in es} \ {"NOT_APPLICABLE"}
           right == {Completeness(c) : c \in Requested}
<1>0. \A f : Enriched(f).completeness =
               IF Anchors(f) = {} THEN "NOT_APPLICABLE"
               ELSE Completeness(CHOOSE c \in Anchors(f) : TRUE)
  BY DEF Enriched
<1>1. \A x \in left : x \in right
  <2> TAKE x \in left
  <2>1. PICK f \in findings : x = Enriched(f).completeness /\ x # "NOT_APPLICABLE"  OBVIOUS
  <2>2. Anchors(f) # {} /\ x = Completeness(CHOOSE c \in Anchors(f) : TRUE)  BY <2>1, <1>0
  <2>3. (CHOOSE c \in Anchors(f) : TRUE) \in Anchors(f)  BY <2>2
  <2>4. (CHOOSE c \in Anchors(f) : TRUE) \in Requested  BY <2>3, AnchorIsSole
  <2> QED  BY <2>2, <2>4
<1>2. \A x \in right : x \in left
  <2> TAKE x \in right
  <2>1. PICK c \in Requested : x = Completeness(c)  OBVIOUS
  <2>2. PICK f \in findings : c \in Anchors(f)  BY DEF Requested
  <2>3. Anchors(f) = {c}  BY <2>2, AnchorIsSole
  <2>4. (CHOOSE d \in Anchors(f) : TRUE) = c  BY <2>3
  <2>5. x = Enriched(f).completeness  BY <2>1, <2>3, <2>4, <1>0
  <2>6. x # "NOT_APPLICABLE"  BY <2>1, CompletenessTells
  <2> QED  BY <2>5, <2>6
<1> QED  BY <1>1, <1>2, Zenon

LEMMA IsolatedFollows == EnrichInv => FailureIsIsolated
<1> SUFFICES ASSUME EnrichInv, phase = "done" PROVE FailureIsIsolated
  BY DEF FailureIsIsolated
<1> DEFINE es == {Enriched(f) : f \in findings}
           eligible == {e.completeness : e \in es} \ {"NOT_APPLICABLE"}
           data == {p \in Providers : \E c \in Requested : outcome[p][c].data # {}}
<1>1. ~Usable => status = "ERROR"  BY DEF EnrichInv, DoneInv
<1>2. CASE Usable
  <2>1. status = StatusOf(es) /\ enriched = IF status = "FAILURE" THEN {} ELSE es
    BY <1>2 DEF EnrichInv, DoneInv
  <2>2. eligible = {Completeness(c) : c \in Requested}  BY <1>2, EligibleAre
  <2>3. StatusOf(es) = CASE eligible \subseteq {"COMPLETE"} -> "SUCCESS"
                         [] eligible = {"NONE"}            -> "FAILURE"
                         [] OTHER                          -> "PARTIAL"
    BY Zenon DEF StatusOf
  <2> HIDE DEF es, eligible
  <2>4. /\ status \in {"SUCCESS", "FAILURE", "PARTIAL"}
        /\ status = "SUCCESS" <=> eligible \subseteq {"COMPLETE"}
        /\ status = "FAILURE" <=> eligible = {"NONE"}
    BY <2>1, <2>3
  <2>5. status = "FAILURE" <=> Requested # {} /\ data = {}
    <3>1. eligible = {"NONE"} <=>
            Requested # {} /\ \A c \in Requested : Completeness(c) = "NONE"
      BY <2>2
    <3>2. \A c \in Requested :
            Completeness(c) = "NONE" <=> \A p \in Providers : outcome[p][c].data = {}
      BY <1>2, CompletenessTells
    <3> QED  BY <2>4, <3>1, <3>2
  <2>6. status = "SUCCESS" <=>
          \A p \in Providers, c \in Requested : outcome[p][c].status = "AVAILABLE"
    <3>1. \A c \in Requested :
            Completeness(c) = "COMPLETE" <=>
              \A p \in Providers : outcome[p][c].status = "AVAILABLE"
      BY <1>2, CompletenessTells
    <3>2. eligible \subseteq {"COMPLETE"} <=> \A c \in Requested : Completeness(c) = "COMPLETE"
      BY <2>2
    <3> QED  BY <2>4, <3>1, <3>2, Zenon
  <2>7. status # "FAILURE" =>
          /\ {e.finding : e \in enriched} = findings
          /\ \A e \in enriched : \A c \in Anchors(e.finding) : \A p \in Providers :
               <<p, outcome[p][c]>> \in e.outcomes
    <3> SUFFICES ASSUME status # "FAILURE"
                 PROVE  /\ {e.finding : e \in enriched} = findings
                        /\ \A e \in enriched : \A c \in Anchors(e.finding) :
                             \A p \in Providers : <<p, outcome[p][c]>> \in e.outcomes
      OBVIOUS
    <3>1. enriched = {Enriched(f) : f \in findings}  BY <2>1 DEF es
    <3>2. \A f : Enriched(f).finding = f  BY DEF Enriched
    <3>3. {e.finding : e \in enriched} = findings  BY <3>1, <3>2
    <3>4. \A f : \A c \in Anchors(f) : \A p \in Providers :
            <<p, outcome[p][c]>> \in Enriched(f).outcomes
      BY DEF Enriched
    <3>5. \A e \in enriched : \A c \in Anchors(e.finding) :
            \A p \in Providers : <<p, outcome[p][c]>> \in e.outcomes
      <4> TAKE e \in enriched
      <4>1. PICK f \in findings : e = Enriched(f)  BY <3>1
      <4> QED  BY <4>1, <3>2, <3>4, Zenon
    <3> QED  BY <3>3, <3>5
  <2> HIDE DEF data
  <2>8. status # "ERROR"  BY <2>4
  <2> QED  BY <2>5, <2>6, <2>7, <2>8, <1>2, Zenon DEF FailureIsIsolated, Usable, data
<1>3. CASE ~Usable
  BY <1>1, <1>3, Zenon DEF FailureIsIsolated, Usable
<1> QED  BY <1>2, <1>3

\* The failure of one provider takes neither another's data nor a finding away
\* (VulnerabilityEnrichmentService.enrich, _completeness, _status).
THEOREM FailureIsIsolatedHolds == Spec => []FailureIsIsolated
BY EnrichInvariant, IsolatedFollows, PTL

-----------------------------------------------------------------------------
(* The inductive invariant of the chain *)

Asking == query.path # "none"

\* The search in progress is one of the lookup in progress; what came of it are
\* items of its path, and a CPE is asked about when it alone qualifies.
QueryInv ==
  /\ query.path = "none" => query = NoQuery /\ reply = "none" /\ current = NoKey
  /\ Asking => stage = "lookups" /\ current \in pending /\ reply # "none"
  /\ query.path = "cpe" =>
       query = [path |-> "cpe", of |-> current] /\ items \in Seq(CpeItems)
  /\ query.path = "cve" =>
       /\ \E c \in CpeItems : Qualifies(c, current) /\ query = [path |-> "cve", of |-> c.cpe]
       /\ truthful => QualifyingTruth(current) = {query.of}
       /\ items \in Seq(CveItems)

\* With a truthful service the pages received so far are a beginning of what it
\* holds, and an answer is all of it.
PageInv ==
  truthful =>
    /\ reply = "pending" =>
         start <= Len(Truth(query)) /\ items = SubSeq(Truth(query), 1, start)
    /\ reply = "items" => items = Truth(query)

\* Which capabilities have run, with what result.
PlaceOK ==
  CASE mode = "composed" ->
         /\ stage \in {"vulnerability_intelligence", "lookups", "graph", "risk", "stopped", "done"}
         /\ stage = "vulnerability_intelligence" =>
              pending = {} /\ failed = {} /\ vi = NoIntelligence
         /\ stage \in {"vulnerability_intelligence", "lookups"} => results.vi = "NONE"
         /\ stage = "stopped" => results.vi \in {"FAILURE", "ERROR"} /\ vi = NoIntelligence
         /\ stage \in {"graph", "risk", "done"} =>
              /\ pending = {}
              /\ results.vi = IF failed = {} THEN "SUCCESS" ELSE "PARTIAL"
              /\ failed # {} => failed # Lookups
    [] OTHER ->
         /\ stage \in {"given", "graph", "risk", "done"}
         /\ stage = "graph" => mode = "intelligence"
         /\ results.vi = "NONE" /\ pending = {} /\ failed = {} /\ ~truthful
         /\ mode = "intelligence" /\ stage # "given" => vi \in OddIntelligence

\* What the two capabilities behind it made, and of what.
MadeInv ==
  /\ stage \in {"risk", "done"} =>
       CASE mode \in {"composed", "intelligence"} ->
              /\ graph = BuildGraph(ai, vi)
              /\ results.graph = IF graph.skipped > 0 THEN "PARTIAL" ELSE "SUCCESS"
         [] mode = "graph"   -> graph \in OddGraphs /\ results.graph = "NONE"
         [] mode = "nothing" -> graph = NoGraph /\ results.graph = "NONE"
  /\ stage \notin {"risk", "done"} => results.graph = "NONE" /\ graph = NoGraph
  /\ stage # "done" => results.risk = "NONE" /\ risk = NoRisk
  /\ stage = "done" =>
       IF mode = "nothing" THEN risk = NoRisk /\ results.risk = "FAILURE"
       ELSE /\ risk = AssessRisk(graph)
            /\ results.risk = IF risk.skipped > 0 THEN "PARTIAL" ELSE "SUCCESS"

Justified(l) ==
  /\ \E c \in CpeItems : /\ c.cpe = l.product
                         /\ c.product = l.technology.product /\ c.version = l.technology.version
                         /\ l.technology.vendor \in {0, c.vendor}
                         /\ l.confidence = 100 => c.vendor = l.technology.vendor
  /\ Eligible(l.technology)

\* What the lookups have found: justified links to vulnerabilities that are
\* there, once, with a known identifier, CPE and confidence.
FoundInv ==
  mode = "composed" =>
    /\ \A l \in vi.links : Justified(l) /\ l.id # None /\ l.product \in Nat
                           /\ l.confidence \in {60, 100}
    /\ {l.id : l \in vi.links} = {v.id : v \in vi.vulnerabilities}
    /\ \A v, w \in vi.vulnerabilities : v.id = w.id => v = w
    /\ \A v \in vi.vulnerabilities : IsVulnerability(v)

\* The links a lookup owes when the service is truthful.
Owed(k) ==
  UNION {{Link(t, r.id, c) : t \in ObservationsOf(k), r \in {s \in ToSet(Records[c]) : Accepted(s)}} :
           c \in IF Cardinality(QualifyingTruth(k)) = 1 THEN QualifyingTruth(k) ELSE {}}

ExactInv ==
  truthful /\ stage \in {"lookups", "graph", "risk", "done"} =>
    vi.links = UNION {Owed(k) : k \in Lookups \ (pending \cup failed)}

Results == {"NONE", "SUCCESS", "PARTIAL", "FAILURE", "ERROR"}

ChainType ==
  /\ truthful \in BOOLEAN
  /\ query.path \in {"none", "cpe", "cve"}
  /\ start \in Nat /\ page \in 0..(MaxPages - 1) /\ attempt \in 0..MaxRetries
  /\ items \in Seq(CpeItems \cup CveItems)
  /\ reply \in {"none", "pending", "items", "failed", "broken"}
  /\ mode \in {"composed", "intelligence", "graph", "nothing"}
  /\ ai \in Observations
  /\ results \in [vi : Results, graph : Results, risk : Results]
  /\ pending \cup failed \subseteq Lookups /\ pending \cap failed = {}

ChainInv == ChainType /\ QueryInv /\ PageInv /\ PlaceOK /\ MadeInv /\ FoundInv /\ ExactInv

-----------------------------------------------------------------------------
(* Scores and the graph *)

\* A nonempty set of numbers has a least one.
LEMMA LeastNumber ==
  ASSUME NEW A \in SUBSET Nat, A # {}
  PROVE  \E x \in A : \A y \in A : x <= y
<1>1. \A x, y \in Nat : y < x => <<y, x>> \in OpToRel(<, Nat)  BY DEF OpToRel
<1>2. \E R : /\ IsWellFoundedOn(R, Nat)
             /\ \A x, y \in Nat : y < x => <<y, x>> \in R
  BY <1>1, NatLessThanWellFounded, Zenon
<1>3. PICK R : /\ IsWellFoundedOn(R, Nat)
               /\ \A x, y \in Nat : y < x => <<y, x>> \in R
  BY <1>2
<1>4. PICK x \in A : \A y \in A : ~(<<y, x>> \in R)  BY <1>3, WFMin
<1>5. ASSUME NEW y \in A PROVE x <= y
  <2>1. x \in Nat /\ y \in Nat  BY <1>4
  <2>2. ~(y < x)  BY <1>3, <1>4, <2>1
  <2> QED  BY <2>1, <2>2
<1> QED  BY <1>4, <1>5

\* Among the elements of a set, one for which f, a number, is least.
LEMMA LeastBy ==
  ASSUME NEW S, NEW f \in [S -> Nat], S # {}
  PROVE  \E x \in S : \A y \in S : f[x] <= f[y]
<1> DEFINE A == {f[x] : x \in S}
<1>1. A \subseteq Nat /\ A # {}  OBVIOUS
<1> HIDE DEF A
<1>2. PICK a \in A : \A b \in A : a <= b  BY <1>1, LeastNumber
<1>3. PICK x \in S : a = f[x]  BY DEF A
<1>4. ASSUME NEW y \in S PROVE f[x] <= f[y]  BY <1>2, <1>3 DEF A
<1> QED  BY <1>4

\* The preferred of some edges is one of them, and the most confident.
LEMMA PreferredIs ==
  ASSUME NEW es, es # {}, \A e \in es : IsMatch(e)
  PROVE  /\ PreferredEdge(es) \in es
         /\ \A f \in es : PreferredEdge(es).confidence >= f.confidence
<1> DEFINE doubt == [e \in es |-> 100 - e.confidence]
<1>1. doubt \in [es -> Nat]
  <2> SUFFICES ASSUME NEW e \in es PROVE 100 - e.confidence \in Nat  OBVIOUS
  <2>1. e.confidence \in 0..100 \cup {-1}  BY DEF IsMatch, None
  <2> QED  BY <2>1
<1>2. PICK m \in es : \A f \in es : doubt[m] <= doubt[f]  BY <1>1, LeastBy
<1> DEFINE best == {e \in es : e.confidence = m.confidence}
           place == [e \in best |-> e.product + 1]
<1>3. place \in [best -> Nat] /\ best # {}
  <2> SUFFICES ASSUME NEW e \in es PROVE e.product + 1 \in Nat  OBVIOUS
  <2>1. e.product \in Nat \cup {-1}  BY DEF IsMatch, None
  <2> QED  BY <2>1
<1> HIDE DEF place
<1>4. PICK x \in best : \A f \in best : place[x] <= place[f]  BY <1>3, LeastBy
<1>5. \A f \in es : x.confidence > f.confidence
                    \/ (x.confidence = f.confidence /\ x.product <= f.product)
  <2> TAKE f \in es
  <2>1. /\ f.confidence \in Int /\ m.confidence \in Int
        /\ f.product \in Int /\ x.product \in Int
    BY <1>4 DEF IsMatch, None
  <2>2. m.confidence >= f.confidence  BY <1>2, <2>1
  <2>3. CASE f \in best
    <3>1. x.product + 1 <= f.product + 1  BY <1>4, <2>3 DEF place
    <3> QED  BY <1>4, <2>1, <2>3, <3>1
  <2>4. CASE f \notin best
    <3>1. x.confidence = m.confidence /\ f.confidence # m.confidence  BY <1>4, <2>4
    <3> QED  BY <2>1, <2>2, <3>1
  <2> QED  BY <2>3, <2>4
<1>6. \E e \in es : \A f \in es : e.confidence > f.confidence
                                  \/ (e.confidence = f.confidence /\ e.product <= f.product)
  BY <1>4, <1>5
<1> DEFINE p == PreferredEdge(es)
<1>7. p \in es /\ \A f \in es : p.confidence > f.confidence
                                \/ (p.confidence = f.confidence /\ p.product <= f.product)
  BY <1>6 DEF PreferredEdge
<1> HIDE DEF p
<1>8. \A f \in es : p.confidence >= f.confidence
  <2> TAKE f \in es
  <2>1. p.confidence \in Int /\ f.confidence \in Int  BY <1>7 DEF IsMatch, None
  <2> QED  BY <1>7, <2>1
<1> QED  BY <1>7, <1>8 DEF p

\* Of the records of a vulnerability the least is one.
LEMMA LeastRecordIs ==
  ASSUME NEW vs, vs # {}, \A v \in vs : IsVulnerability(v),
         \A v, w \in vs : <<v.rank, v.severity, v.score>> = <<w.rank, w.severity, w.score>> => v = w
  PROVE  LeastRecord(vs) \in vs
<1> DEFINE a(v) == Alphabetical[v.severity]
           sorts(v) == <<v.rank, a(v), v.score>>
           before(k, l) == \E i \in 1..3 : k[i] < l[i] /\ \A j \in 1..(i - 1) : k[j] = l[j]
<1>1. \A v \in vs : /\ v.rank \in Nat /\ v.score \in Nat \cup {-1} /\ v.severity \in Severities
                    /\ a(v) \in 1..5
  BY DEF IsVulnerability, Alphabetical, Severities, None
<1>2. \A v, w \in vs : a(v) = a(w) => v.severity = w.severity
  BY <1>1 DEF Alphabetical, Severities
<1> HIDE DEF a
<1>3. PICK m \in vs : \A w \in vs : m.rank <= w.rank
  <2> DEFINE f == [v \in vs |-> v.rank]
  <2>1. f \in [vs -> Nat]  BY <1>1
  <2>2. PICK m \in vs : \A w \in vs : f[m] <= f[w]  BY <2>1, LeastBy
  <2> QED  BY <2>2
<1> DEFINE S == {v \in vs : v.rank = m.rank}
<1>4. PICK n \in S : \A w \in S : a(n) <= a(w)
  <2> DEFINE f == [v \in S |-> a(v)]
  <2>1. f \in [S -> Nat] /\ S # {}  BY <1>1, <1>3
  <2> HIDE DEF S
  <2>2. PICK n \in S : \A w \in S : f[n] <= f[w]  BY <2>1, LeastBy
  <2> QED  BY <2>2
<1> DEFINE T == {v \in S : a(v) = a(n)}
<1>5. PICK x \in T : \A w \in T : x.score <= w.score
  <2> DEFINE f == [v \in T |-> v.score + 1]
  <2>1. f \in [T -> Nat] /\ T # {}
    <3> SUFFICES ASSUME NEW v \in vs PROVE v.score + 1 \in Nat  BY <1>4
    <3>1. v.score \in Nat \cup {-1}  BY <1>1
    <3> QED  BY <3>1
  <2>2. T \subseteq vs  BY DEF T, S
  <2> HIDE DEF T, S
  <2>3. PICK y \in T : \A w \in T : f[y] <= f[w]
    <3> HIDE DEF f
    <3> QED  BY <2>1, LeastBy
  <2>4. ASSUME NEW w \in T PROVE y.score <= w.score
    <3>1. y.score + 1 <= w.score + 1  BY <2>3
    <3>2. y.score \in Int /\ w.score \in Int  BY <1>1, <2>2
    <3> QED  BY <3>1, <3>2
  <2> QED  BY <2>4
<1>6. x \in vs /\ x.rank = m.rank /\ a(x) = a(n)  BY <1>5
<1>7. ASSUME NEW w \in vs \ {x} PROVE before(sorts(x), sorts(w))
  <2>1. /\ x.rank \in Int /\ w.rank \in Int /\ x.score \in Int /\ w.score \in Int
        /\ a(x) \in Int /\ a(w) \in Int
    BY <1>1, <1>6
  <2>2. CASE x.rank # w.rank
    <3>1. x.rank < w.rank  BY <1>3, <1>6, <2>1, <2>2
    <3>2. sorts(x)[1] < sorts(w)[1] /\ 1..(1 - 1) = {}  BY <3>1
    <3> QED  BY <3>2
  <2>3. CASE x.rank = w.rank /\ a(x) # a(w)
    <3>1. a(x) < a(w)  BY <1>4, <1>6, <2>1, <2>3
    <3>2. sorts(x)[2] < sorts(w)[2] /\ sorts(x)[1] = sorts(w)[1] /\ 1..(2 - 1) = {1}  BY <3>1, <2>3
    <3> QED  BY <3>2
  <2>4. CASE x.rank = w.rank /\ a(x) = a(w)
    <3>1. w \in T  BY <1>6, <2>4
    <3>2. x.score <= w.score  BY <1>5, <3>1
    <3>3. x.score # w.score  BY <1>2, <1>6, <2>4, <1>7
    <3>4. x.score < w.score  BY <2>1, <3>2, <3>3
    <3>5. /\ sorts(x)[3] < sorts(w)[3] /\ sorts(x)[1] = sorts(w)[1] /\ sorts(x)[2] = sorts(w)[2]
          /\ 1..(3 - 1) = {1, 2}
      BY <3>4, <2>4
    <3> QED  BY <3>5
  <2> QED  BY <2>2, <2>3, <2>4
<1>8. \E v \in vs : \A w \in vs \ {v} : before(sorts(v), sorts(w))  BY <1>6, <1>7
<1> HIDE DEF before
<1>9. (CHOOSE v \in vs : \A w \in vs \ {v} : before(sorts(v), sorts(w))) \in vs  BY <1>8
<1> QED  BY <1>9 DEF LeastRecord, before, a

\* The scores are what the constructor of an assessment accepts, and without a
\* valid CVSS score the level is the severity.
LEMMA ScoresFit ==
  ASSUME NEW v, IsVulnerability(v)
  PROVE  /\ PriorityScore(v) \in 0..100
         /\ ~ValidScore(v) =>
              Level(PriorityScore(v), ValidScore(v) \/ KnownSeverity(v)) = v.severity
<1>1. CASE ValidScore(v)
  <2>1. v.score \in 0..100  BY <1>1 DEF ValidScore
  <2>2. (7 * v.score + 5) \div 10 \in 0..100  BY <2>1
  <2> QED  BY <1>1, <2>2 DEF PriorityScore, CvssFactor
<1>2. CASE ~ValidScore(v)
  <2>1. PriorityScore(v) = Contribution[v.severity]
    BY <1>2 DEF PriorityScore, SeverityFactor
  <2>2. v.severity \in Severities  BY DEF IsVulnerability
  <2> QED
    BY <1>2, <2>1, <2>2 DEF Severities, Contribution, Level, KnownSeverity
<1> QED  BY <1>1, <1>2

LEMMA CompletenessFits ==
  ASSUME NEW v, NEW match, NEW technology
  PROVE  DataCompleteness(v, match, technology) \in 0..100
<1> DEFINE T == {c \in {1, 2, 3, 4} :
                   CASE c = 1 -> ValidScore(v) \/ KnownSeverity(v)
                     [] c = 2 -> match # None
                     [] c = 3 -> technology \in 0..100
                     [] OTHER -> TRUE}
<1>1. T \in SUBSET (1..4)  OBVIOUS
<1> HIDE DEF T
<1>2. IsFiniteSet(1..4) /\ Cardinality(1..4) = 4
  <2>1. 1 \in Int /\ 4 \in Int  OBVIOUS
  <2>2. IsFiniteSet(1..4) /\ Cardinality(1..4) = IF 1 > 4 THEN 0 ELSE 4 - 1 + 1
    BY <2>1, FS_Interval, Zenon
  <2> QED  BY <2>2
<1>3. IsFiniteSet(T) /\ Cardinality(T) <= 4  BY <1>1, <1>2, FS_Subset
<1>4. Cardinality(T) \in Nat  BY <1>3, FS_CardinalityType
<1>5. 25 * Cardinality(T) \in 0..100  BY <1>3, <1>4
<1> QED  BY <1>5 DEF DataCompleteness, T

\* The confidence is a percentage, and a more confident match never lowers it.
LEMMA ConfidenceFits ==
  ASSUME NEW m \in 0..100 \cup {None}, NEW technology
  PROVE  /\ ConfidenceScore(m, technology) \in 0..100
         /\ \A n \in 0..100 : m >= n =>
              ConfidenceScore(m, technology) >= ConfidenceScore(n, technology)
<1>1. CASE technology \in 0..100
  <2>1. CASE m = None
    <3>1. ConfidenceScore(m, technology) = technology  BY <1>1, <2>1 DEF ConfidenceScore, None
    <3>2. \A n \in 0..100 : ~(m >= n)  BY <2>1 DEF None
    <3> QED  BY <1>1, <3>1, <3>2
  <2>2. ASSUME NEW n \in 0..100
        PROVE  ConfidenceScore(n, technology) = (n + technology) \div 2 /\ n # None
    BY <1>1 DEF ConfidenceScore, None
  <2>3. CASE m # None
    <3>1. m \in 0..100  BY <2>3
    <3>2. (m + technology) \div 2 \in 0..100  BY <1>1, <3>1
    <3>3. ASSUME NEW n \in 0..100, m >= n
          PROVE  (m + technology) \div 2 >= (n + technology) \div 2
      BY <1>1, <3>1, <3>3
    <3> QED  BY <2>2, <3>1, <3>2, <3>3
  <2> QED  BY <2>1, <2>3
<1>2. CASE technology \notin 0..100
  <2>1. CASE m = None
    <3>1. ConfidenceScore(m, technology) = 0  BY <1>2, <2>1 DEF ConfidenceScore, None
    <3>2. \A n \in 0..100 : ~(m >= n)  BY <2>1 DEF None
    <3> QED  BY <3>1, <3>2
  <2>2. \A n \in 0..100 : ConfidenceScore(n, technology) = n
    BY <1>2 DEF ConfidenceScore, None
  <2>3. CASE m # None
    <3>1. m \in 0..100  BY <2>3
    <3> QED  BY <2>2, <3>1
  <2> QED  BY <2>1, <2>3
<1> QED  BY <1>1, <1>2

IsGraph(g) ==
  /\ \A e \in g.edges : e.kind = "matches" => IsMatch(e)
  /\ \A n \in g.nodes : n.id[1] = "vulnerability" => IsVulnerability(n.entity)

\* What the risk assessments of a graph are, whoever built it.
LEMMA AssessmentsFit ==
  ASSUME NEW g, IsGraph(g), NEW a \in AssessRisk(g).assessments
  PROVE  /\ {a.priority, a.confidence, a.completeness} \subseteq 0..100
         /\ LET v == Entity(g, a.vulnerability) IN ~ValidScore(v) => a.level = v.severity
         /\ \A e \in g.edges :
              /\ e.kind = "matches" /\ e.confidence # None
              /\ e.source = a.technology /\ e.target = a.vulnerability
              => a.confidence >= ConfidenceScore(e.confidence, Entity(g, a.technology).confidence)
<1> DEFINE valid == {e \in g.edges : ValidEdge(g, e)}
           alike(m) == {e \in valid : /\ e.kind = "matches"
                                      /\ e.source = m.source /\ e.target = m.target}
           best(m) == PreferredEdge(alike(m))
<1>1. PICK o \in valid, m \in valid :
        /\ o.kind = "observed" /\ m.kind = "matches" /\ o.target = m.source
        /\ a = Assessment(g, o.source, m.source, m.target, best(m))
  BY DEF AssessRisk
<1> DEFINE es == alike(m)
           p == best(m)
           v == Entity(g, m.target)
           t == Entity(g, m.source)
<1>2. m \in es /\ \A e \in es : IsMatch(e)  BY <1>1 DEF IsGraph
<1>3. p \in es /\ \A e \in es : p.confidence >= e.confidence
  <2> HIDE DEF alike
  <2> QED  BY <1>2, PreferredIs
<1>4. IsVulnerability(v)
  <2>1. HasNode(g, m.target) /\ m.target[1] = "vulnerability"  BY <1>1 DEF ValidEdge
  <2>2. PICK x \in g.nodes : x.id = m.target  BY <2>1 DEF HasNode
  <2> DEFINE c == CHOOSE n \in g.nodes : n.id = m.target
  <2>3. c \in g.nodes /\ c.id = m.target  BY <2>2
  <2> HIDE DEF c
  <2>4. IsVulnerability(c.entity)  BY <2>1, <2>3 DEF IsGraph
  <2> QED  BY <2>4 DEF Entity, c
<1>5. /\ a.technology = m.source /\ a.vulnerability = m.target
      /\ a.priority = PriorityScore(v)
      /\ a.level = Level(PriorityScore(v), ValidScore(v) \/ KnownSeverity(v))
      /\ a.confidence = ConfidenceScore(p.confidence, t.confidence)
      /\ a.completeness = DataCompleteness(v, p.confidence, t.confidence)
  <2> HIDE DEF best
  <2> QED  BY <1>1 DEF Assessment
<1> HIDE DEF v, t, p
<1>6. p.confidence \in 0..100 \cup {None}  BY <1>2, <1>3 DEF IsMatch
<1>7. {a.priority, a.confidence, a.completeness} \subseteq 0..100
  <2>0. PriorityScore(v) \in 0..100  BY <1>4, ScoresFit, Zenon
  <2>1. a.priority \in 0..100  BY <1>5, <2>0
  <2>2. a.confidence \in 0..100  BY <1>5, <1>6, ConfidenceFits
  <2>3. a.completeness \in 0..100  BY <1>5, CompletenessFits
  <2> QED  BY <2>1, <2>2, <2>3
<1>8. ~ValidScore(v) => a.level = v.severity  BY <1>4, <1>5, ScoresFit
<1>9. ASSUME NEW e \in g.edges, e.kind = "matches", e.confidence # None,
             e.source = m.source, e.target = m.target
      PROVE  a.confidence >= ConfidenceScore(e.confidence, t.confidence)
  <2>1. ValidEdge(g, e)  BY <1>1, <1>9 DEF ValidEdge
  <2>2. e \in es  BY <1>9, <2>1
  <2>3. p.confidence >= e.confidence  BY <1>3, <2>2
  <2>4. e.confidence \in 0..100  BY <1>2, <1>9, <2>2 DEF IsMatch
  <2> QED  BY <1>5, <1>6, <2>3, <2>4, ConfidenceFits
<1> QED  BY <1>5, <1>7, <1>8, <1>9 DEF v, t

\* One assessment for an asset, a technology and a vulnerability.
LEMMA AssessmentsDiffer ==
  ASSUME NEW g, NEW a \in AssessRisk(g).assessments, NEW b \in AssessRisk(g).assessments,
         <<a.asset, a.technology, a.vulnerability>> = <<b.asset, b.technology, b.vulnerability>>
  PROVE  a = b
<1> DEFINE valid == {e \in g.edges : ValidEdge(g, e)}
           best(s, t) == PreferredEdge({e \in valid : /\ e.kind = "matches"
                                                      /\ e.source = s /\ e.target = t})
           made(o, s, t) == Assessment(g, o, s, t, best(s, t))
<1>1. ASSUME NEW x \in AssessRisk(g).assessments
      PROVE  x = made(x.asset, x.technology, x.vulnerability)
  <2>1. PICK o \in valid, m \in valid : x = made(o.source, m.source, m.target)
    BY DEF AssessRisk
  <2>2. x.asset = o.source /\ x.technology = m.source /\ x.vulnerability = m.target
    <3> HIDE DEF best
    <3> QED  BY <2>1 DEF Assessment
  <2> HIDE DEF made
  <2> QED  BY <2>1, <2>2
<1> HIDE DEF made
<1>2. /\ a = made(a.asset, a.technology, a.vulnerability)
      /\ b = made(b.asset, b.technology, b.vulnerability)
  BY <1>1
<1> QED  BY <1>2

-----------------------------------------------------------------------------
(* The graph of asset intelligence a and vulnerability intelligence w *)

Placed(a) == {o \in a.observed : o.asset \in a.assets \ {None}}
Matched(w) == {l \in w.links : /\ l.id # None /\ l.product # None
                               /\ \E v \in w.vulnerabilities : v.id = l.id}

\* The assets that have a node.
LEMMA AssetNodesAre ==
  ASSUME NEW as, NEW x
  PROVE  (\E n \in AssetNodes(as) : n.id = <<"asset", x>>) <=> x \in as \ {None}
<1>1. ASSUME x \in as \ {None}
      PROVE  \E n \in AssetNodes(as) : n.id = <<"asset", x>>
  <2>1. Node("asset", x, [identifier |-> x]) \in AssetNodes(as)  BY <1>1 DEF AssetNodes
  <2>2. Node("asset", x, [identifier |-> x]).id = <<"asset", x>>  BY DEF Node
  <2> QED  BY <2>1, <2>2
<1>2. ASSUME NEW n \in AssetNodes(as), n.id = <<"asset", x>>
      PROVE  x \in as \ {None}
  <2>1. PICK y \in as \ {None} : n = Node("asset", y, [identifier |-> y])  BY DEF AssetNodes
  <2>2. n.id = <<"asset", y>>  BY <2>1 DEF Node
  <2>3. <<"asset", y>>[2] = <<"asset", x>>[2]  BY <1>2, <2>2
  <2> QED  BY <2>3
<1> QED  BY <1>1, <1>2

\* The vulnerabilities that have a node.
LEMMA VulnerabilityNodesAre ==
  ASSUME NEW vs, NEW x
  PROVE  (\E n \in VulnerabilityNodes(vs) : n.id = <<"vulnerability", x>>)
         <=> (x # None /\ \E v \in vs : v.id = x)
<1> DEFINE e(i) == LeastRecord({u \in vs : u.id = i})
<1>0. VulnerabilityNodes(vs) = {Node("vulnerability", i, e(i)) : i \in {v.id : v \in vs} \ {None}}
  BY DEF VulnerabilityNodes
<1> HIDE DEF e
<1>1. ASSUME NEW v \in vs, v.id = x, x # None
      PROVE  \E n \in VulnerabilityNodes(vs) : n.id = <<"vulnerability", x>>
  <2>1. Node("vulnerability", x, e(x)) \in VulnerabilityNodes(vs)  BY <1>0, <1>1
  <2>2. Node("vulnerability", x, e(x)).id = <<"vulnerability", x>>  BY DEF Node
  <2> QED  BY <2>1, <2>2
<1>2. ASSUME NEW n \in VulnerabilityNodes(vs), n.id = <<"vulnerability", x>>
      PROVE  x # None /\ \E v \in vs : v.id = x
  <2>1. PICK i \in {v.id : v \in vs} \ {None} : n = Node("vulnerability", i, e(i))
    BY <1>0
  <2>2. n.id = <<"vulnerability", i>>  BY <2>1 DEF Node
  <2>3. <<"vulnerability", i>>[2] = <<"vulnerability", x>>[2]  BY <1>2, <2>2
  <2> QED  BY <2>1, <2>3
<1> QED  BY <1>1, <1>2

\* What BuildGraph keeps of the relationships, and what it skips.
LEMMA BuiltIs ==
  ASSUME NEW a, NEW w
  PROVE  LET g == BuildGraph(a, w)
         IN /\ g.nodes = AssetNodes(a.assets) \cup VulnerabilityNodes(w.vulnerabilities)
                         \cup {TechnologyNode(o.technology) : o \in Placed(a)}
                         \cup {TechnologyNode(l.technology) : l \in Matched(w)}
            /\ g.edges = {ObservedEdge(o) : o \in Placed(a)} \cup {MatchEdge(l) : l \in Matched(w)}
            /\ g.skipped = Cardinality(a.observed \ Placed(a)) + Cardinality(w.links \ Matched(w))
<1> DEFINE A == {n.id : n \in AssetNodes(a.assets)}
           V == {n.id : n \in VulnerabilityNodes(w.vulnerabilities)}
           P == {o \in a.observed : <<"asset", o.asset>> \in A}
           M == {l \in w.links : <<"vulnerability", l.id>> \in V /\ l.product # None}
<1>1. ASSUME NEW x PROVE <<"asset", x>> \in A <=> x \in a.assets \ {None}
  <2>1. \A y : y \in A <=> \E n \in AssetNodes(a.assets) : n.id = y  BY Zenon
  <2> QED  BY <2>1, AssetNodesAre, Zenon
<1>2. ASSUME NEW x
      PROVE  <<"vulnerability", x>> \in V <=> (x # None /\ \E v \in w.vulnerabilities : v.id = x)
  <2>1. \A y : y \in V <=> \E n \in VulnerabilityNodes(w.vulnerabilities) : n.id = y  BY Zenon
  <2> QED  BY <2>1, VulnerabilityNodesAre, Zenon
<1>3. BuildGraph(a, w) =
        [nodes   |-> AssetNodes(a.assets) \cup VulnerabilityNodes(w.vulnerabilities)
                     \cup {TechnologyNode(o.technology) : o \in P}
                     \cup {TechnologyNode(l.technology) : l \in M},
         edges   |-> {ObservedEdge(o) : o \in P} \cup {MatchEdge(l) : l \in M},
         skipped |-> Cardinality(a.observed \ P) + Cardinality(w.links \ M)]
  BY DEF BuildGraph
<1> HIDE DEF A, V
<1>4. P = Placed(a) /\ M = Matched(w)  BY <1>1, <1>2 DEF Placed, Matched
<1> HIDE DEF P, M
<1> QED  BY <1>3, <1>4

LEMMA BuiltIsGraph ==
  ASSUME NEW a, NEW w,
         \A v \in w.vulnerabilities : IsVulnerability(v),
         \A l \in w.links : IsMatch(l)
  PROVE  IsGraph(BuildGraph(a, w))
<1> DEFINE g == BuildGraph(a, w)
<1> HIDE DEF g
<1>1. ASSUME NEW e \in g.edges, e.kind = "matches" PROVE IsMatch(e)
  <2>1. e \in {ObservedEdge(o) : o \in Placed(a)} \cup {MatchEdge(l) : l \in Matched(w)}
    BY BuiltIs DEF g
  <2>2. \A o : ObservedEdge(o).kind = "observed"  BY DEF ObservedEdge
  <2>3. PICK l \in w.links : e = MatchEdge(l)  BY <1>1, <2>1, <2>2 DEF Matched
  <2>4. e.confidence = l.confidence /\ e.product = l.product  BY <2>3 DEF MatchEdge
  <2> QED  BY <2>4 DEF IsMatch
<1>2. ASSUME NEW n \in g.nodes, n.id[1] = "vulnerability" PROVE IsVulnerability(n.entity)
  <2>1. n \in AssetNodes(a.assets) \cup VulnerabilityNodes(w.vulnerabilities)
              \cup {TechnologyNode(o.technology) : o \in Placed(a)}
              \cup {TechnologyNode(l.technology) : l \in Matched(w)}
    BY BuiltIs DEF g
  <2>2. /\ \A x \in AssetNodes(a.assets) : x.id[1] = "asset"
        /\ \A t : TechnologyNode(t).id[1] = "technology"
    BY DEF AssetNodes, TechnologyNode, Node
  <2>3. n \in VulnerabilityNodes(w.vulnerabilities)  BY <1>2, <2>1, <2>2
  <2>4. PICK i \in {v.id : v \in w.vulnerabilities} :
          n.entity = LeastRecord({v \in w.vulnerabilities : v.id = i})
    BY <2>3 DEF VulnerabilityNodes, Node
  <2> DEFINE vs == {v \in w.vulnerabilities : v.id = i}
  <2>5. vs # {} /\ \A v \in vs : IsVulnerability(v)  BY <2>4
  <2>6. ASSUME NEW v \in vs, NEW x \in vs,
               <<v.rank, v.severity, v.score>> = <<x.rank, x.severity, x.score>>
        PROVE  v = x
    <3>1. v.rank = x.rank /\ v.severity = x.severity /\ v.score = x.score /\ v.id = x.id
      BY <2>6
    <3>2. v = [id |-> v.id, severity |-> v.severity, score |-> v.score, rank |-> v.rank]
      BY <2>5 DEF IsVulnerability
    <3>3. x = [id |-> x.id, severity |-> x.severity, score |-> x.score, rank |-> x.rank]
      BY <2>5 DEF IsVulnerability
    <3> QED  BY <3>1, <3>2, <3>3, Zenon
  <2> HIDE DEF vs
  <2>7. LeastRecord(vs) \in vs  BY <2>5, <2>6, LeastRecordIs
  <2> QED  BY <2>4, <2>5, <2>7 DEF vs
<1> QED  BY <1>1, <1>2 DEF IsGraph, g

\* No edge is without its two nodes.
LEMMA BuiltEdgesAreValid ==
  ASSUME NEW a, NEW w
  PROVE  LET g == BuildGraph(a, w) IN \A e \in g.edges : ValidEdge(g, e)
<1> DEFINE g == BuildGraph(a, w)
<1> HIDE DEF g
<1>0. /\ g.edges = {ObservedEdge(o) : o \in Placed(a)} \cup {MatchEdge(l) : l \in Matched(w)}
      /\ g.nodes = AssetNodes(a.assets) \cup VulnerabilityNodes(w.vulnerabilities)
                   \cup {TechnologyNode(o.technology) : o \in Placed(a)}
                   \cup {TechnologyNode(l.technology) : l \in Matched(w)}
  BY BuiltIs, Zenon DEF g
<1>1. /\ g.edges = {ObservedEdge(o) : o \in Placed(a)} \cup {MatchEdge(l) : l \in Matched(w)}
      /\ AssetNodes(a.assets) \subseteq g.nodes /\ VulnerabilityNodes(w.vulnerabilities) \subseteq g.nodes
      /\ \A o \in Placed(a) : TechnologyNode(o.technology) \in g.nodes
      /\ \A l \in Matched(w) : TechnologyNode(l.technology) \in g.nodes
  BY <1>0
<1>2. \A t : TechnologyNode(t).id = <<"technology", t>>  BY DEF TechnologyNode, Node
<1>3. ASSUME NEW o \in Placed(a) PROVE ValidEdge(g, ObservedEdge(o))
  <2>1. \E n \in AssetNodes(a.assets) : n.id = <<"asset", o.asset>>
    BY AssetNodesAre DEF Placed
  <2>2. HasNode(g, <<"asset", o.asset>>) /\ HasNode(g, <<"technology", o.technology>>)
    BY <1>1, <1>2, <2>1 DEF HasNode
  <2> QED  BY <2>2 DEF ValidEdge, ObservedEdge
<1>4. ASSUME NEW l \in Matched(w) PROVE ValidEdge(g, MatchEdge(l))
  <2>1. \E n \in VulnerabilityNodes(w.vulnerabilities) : n.id = <<"vulnerability", l.id>>
    BY VulnerabilityNodesAre DEF Matched
  <2>2. HasNode(g, <<"vulnerability", l.id>>) /\ HasNode(g, <<"technology", l.technology>>)
    BY <1>1, <1>2, <2>1 DEF HasNode
  <2> QED  BY <2>2 DEF ValidEdge, MatchEdge
<1> QED  BY <1>1, <1>3, <1>4 DEF g

\* Nothing is skipped of relationships whose ends are known.
LEMMA BuiltIsWhole ==
  ASSUME NEW a, NEW w,
         \A o \in a.observed : o.asset \in a.assets \ {None},
         \A l \in w.links : /\ l.id # None /\ l.product # None
                            /\ \E v \in w.vulnerabilities : v.id = l.id
  PROVE  BuildGraph(a, w).skipped = 0
<1>1. a.observed \ Placed(a) = {} /\ w.links \ Matched(w) = {}  BY DEF Placed, Matched
<1>2. Cardinality({}) = 0  BY FS_EmptySet
<1>3. BuildGraph(a, w).skipped = Cardinality({}) + Cardinality({})  BY <1>1, BuiltIs
<1> QED  BY <1>2, <1>3

LEMMA ValidAreAssessed ==
  ASSUME NEW g, \A e \in g.edges : ValidEdge(g, e)
  PROVE  AssessRisk(g).skipped = 0
<1>1. g.edges \ {e \in g.edges : ValidEdge(g, e)} = {}  OBVIOUS
<1>2. AssessRisk(g).skipped = Cardinality(g.edges \ {e \in g.edges : ValidEdge(g, e)})
  BY DEF AssessRisk
<1> QED  BY <1>1, <1>2, FS_EmptySet

\* The joins of observations and links whose ends are known.
Joins(a, w) ==
  {p \in {<<o.asset, l.technology, l.id>> : o \in a.observed, l \in w.links} :
     /\ p[1] \in a.assets \ {None} /\ p[3] # None
     /\ \E v \in w.vulnerabilities : v.id = p[3]
     /\ \E o \in a.observed : o.asset = p[1] /\ o.technology = p[2]
     /\ \E l \in w.links : l.technology = p[2] /\ l.id = p[3] /\ l.product # None}

\* The assessments of a built graph are the joins.
LEMMA AssessmentsAreJoins ==
  ASSUME NEW a, NEW w
  PROVE  {<<x.asset[2], x.technology[2], x.vulnerability[2]>> :
             x \in AssessRisk(BuildGraph(a, w)).assessments} = Joins(a, w)
<1> DEFINE g == BuildGraph(a, w)
           valid == {e \in g.edges : ValidEdge(g, e)}
           made(o, m) == Assessment(g, o.source, m.source, m.target,
                           PreferredEdge({e \in valid : /\ e.kind = "matches"
                                                        /\ e.source = m.source
                                                        /\ e.target = m.target}))
           triple(x) == <<x.asset[2], x.technology[2], x.vulnerability[2]>>
           joins == Joins(a, w)
<1>1. valid = g.edges  BY BuiltEdgesAreValid
<1>2. g.edges = {ObservedEdge(o) : o \in Placed(a)} \cup {MatchEdge(l) : l \in Matched(w)}
  BY BuiltIs
<1> HIDE DEF g
<1>3. AssessRisk(g).assessments =
        {made(p[1], p[2]) : p \in {q \in valid \X valid :
            q[1].kind = "observed" /\ q[2].kind = "matches" /\ q[1].target = q[2].source}}
  BY DEF AssessRisk
<1>4. \A o, m : triple(made(o, m)) = <<o.source[2], m.source[2], m.target[2]>>
  BY DEF Assessment
<1> HIDE DEF made, valid
<1>5. ASSUME NEW x \in AssessRisk(g).assessments PROVE triple(x) \in joins
  <2>1. PICK o \in g.edges, m \in g.edges :
          /\ o.kind = "observed" /\ m.kind = "matches" /\ o.target = m.source
          /\ x = made(o, m)
    BY <1>1, <1>3
  <2>2. PICK ob \in Placed(a) : o = ObservedEdge(ob)
    BY <1>2, <2>1 DEF MatchEdge
  <2>3. PICK l \in Matched(w) : m = MatchEdge(l)
    BY <1>2, <2>1 DEF ObservedEdge
  <2>4. /\ o.source[2] = ob.asset /\ o.target = <<"technology", ob.technology>>
        /\ m.source = <<"technology", l.technology>> /\ m.target[2] = l.id
    BY <2>2, <2>3 DEF ObservedEdge, MatchEdge
  <2>5. ob.technology = l.technology
    <3>1. <<"technology", ob.technology>>[2] = <<"technology", l.technology>>[2]  BY <2>1, <2>4
    <3> QED  BY <3>1
  <2>6. triple(x) = <<ob.asset, l.technology, l.id>>  BY <1>4, <2>1, <2>4
  <2>7. ob \in a.observed /\ ob.asset \in a.assets \ {None}
        /\ l \in w.links /\ l.id # None /\ l.product # None
        /\ \E v \in w.vulnerabilities : v.id = l.id
    BY DEF Placed, Matched
  <2> HIDE DEF triple
  <2> QED  BY <2>5, <2>6, <2>7 DEF Joins
<1>6. ASSUME NEW p \in joins PROVE \E x \in AssessRisk(g).assessments : triple(x) = p
  <2>1. p = <<p[1], p[2], p[3]>>  BY DEF Joins
  <2>2. PICK ob \in Placed(a) : ob.asset = p[1] /\ ob.technology = p[2]  BY DEF Placed, Joins
  <2>3. PICK l \in Matched(w) : l.technology = p[2] /\ l.id = p[3]  BY DEF Matched, Joins
  <2> DEFINE o == ObservedEdge(ob)
             m == MatchEdge(l)
  <2>4. o \in g.edges /\ m \in g.edges  BY <1>2
  <2>5. /\ o.kind = "observed" /\ m.kind = "matches"
        /\ o.source = <<"asset", p[1]>> /\ o.target = <<"technology", p[2]>>
        /\ m.source = <<"technology", p[2]>> /\ m.target = <<"vulnerability", p[3]>>
    BY <2>2, <2>3 DEF ObservedEdge, MatchEdge
  <2> HIDE DEF o, m, joins
  <2>6. made(o, m) \in AssessRisk(g).assessments
    <3>1. <<o, m>> \in {q \in valid \X valid :
            q[1].kind = "observed" /\ q[2].kind = "matches" /\ q[1].target = q[2].source}
      BY <1>1, <2>4, <2>5
    <3> QED  BY <1>3, <3>1
  <2>7. triple(made(o, m)) = p
    <3>1. o.source[2] = p[1] /\ m.source[2] = p[2] /\ m.target[2] = p[3]  BY <2>5
    <3> QED  BY <1>4, <2>1, <3>1
  <2> QED  BY <2>6, <2>7
<1> HIDE DEF joins, triple
<1>7. {triple(x) : x \in AssessRisk(g).assessments} = joins
  <2>1. joins \subseteq {triple(x) : x \in AssessRisk(g).assessments}  BY <1>6
  <2> QED  BY <1>5, <2>1
<1> QED  BY <1>7 DEF joins, triple, g

-----------------------------------------------------------------------------
(* Pages and candidates *)

\* The names that qualify for k among the first candidates of each name in s.
Named(s, k) ==
  LET first == {s[i] : i \in {j \in DOMAIN s : \A h \in 1..(j - 1) : s[h].cpe # s[j].cpe}}
  IN {c.cpe : c \in {d \in first : Qualifies(d, k)}}

LEMMA NamedQualify ==
  ASSUME NEW s \in Seq(CpeItems), NEW k, NEW x \in Named(s, k)
  PROVE  \E c \in CpeItems : Qualifies(c, k) /\ c.cpe = x
<1>1. PICK i \in DOMAIN s : Qualifies(s[i], k) /\ s[i].cpe = x  BY DEF Named
<1>2. s[i] \in CpeItems  BY <1>1
<1> QED  BY <1>1, <1>2

\* It does not matter that only the first candidate of a name is looked at.
LEMMA NamedAreAll ==
  ASSUME NEW s \in Seq(CpeItems), NEW k,
         \A i, j \in DOMAIN s :
           s[i].cpe # 0 /\ s[i].cpe = s[j].cpe => s[i].deprecated = s[j].deprecated
  PROVE  Named(s, k) = {c.cpe : c \in {d \in ToSet(s) : Qualifies(d, k)}}
<1> DEFINE T == {c.cpe : c \in {d \in ToSet(s) : Qualifies(d, k)}}
<1>1. Named(s, k) \subseteq T  BY DEF Named, ToSet
<1>2. ASSUME NEW x \in T PROVE x \in Named(s, k)
  <2>1. PICK i \in DOMAIN s : Qualifies(s[i], k) /\ s[i].cpe = x  BY DEF ToSet
  <2> DEFINE A == {j \in DOMAIN s : s[j].cpe = x}
  <2>2. A \in SUBSET Nat /\ A # {}
    <3>1. DOMAIN s = 1..Len(s) /\ Len(s) \in Nat  BY LenProperties
    <3> QED  BY <2>1, <3>1
  <2> HIDE DEF A
  <2>3. PICK j \in A : \A h \in A : j <= h  BY <2>2, LeastNumber
  <2>4. j \in DOMAIN s /\ s[j].cpe = x  BY <2>3 DEF A
  <2>5. ASSUME NEW h \in 1..(j - 1) PROVE s[h].cpe # s[j].cpe
    <3>1. DOMAIN s = 1..Len(s) /\ Len(s) \in Nat  BY LenProperties
    <3>2. h \in DOMAIN s /\ ~(j <= h)  BY <2>4, <3>1
    <3> QED  BY <2>3, <2>4, <3>2 DEF A
  <2>6. Qualifies(s[j], k)
    <3> DEFINE d == s[i]
               e == s[j]
    <3>1. d \in CpeItems /\ e \in CpeItems  BY <2>1, <2>4
    <3>0. d.cpe # 0  BY <2>1 DEF Qualifies
    <3>2. d.cpe = e.cpe /\ d.deprecated = e.deprecated  BY <2>1, <2>4, <3>0
    <3> HIDE DEF d, e
    <3>3. <<d.vendor, d.product, d.version>> = <<e.vendor, e.product, e.version>>
      BY <3>0, <3>1, <3>2, VulnerabilityIntelligenceAssumption
    <3>4. d.vendor = e.vendor /\ d.product = e.product /\ d.version = e.version  BY <3>3
    <3>5. Qualifies(d, k)  BY <2>1 DEF d
    <3>6. Qualifies(e, k)  BY <3>2, <3>4, <3>5 DEF Qualifies
    <3> QED  BY <3>6 DEF e
  <2> QED  BY <2>4, <2>5, <2>6 DEF Named
<1> QED  BY <1>1, <1>2

LEMMA TruthQualifies ==
  ASSUME NEW k \in DOMAIN Products
  PROVE  Named(Products[k], k) = QualifyingTruth(k) /\ IsFiniteSet(QualifyingTruth(k))
<1> DEFINE s == Products[k]
<1>1. s \in Seq(CpeItems)  BY NvdAssumption
<1>2. \A i, j \in DOMAIN s :
        s[i].cpe # 0 /\ s[i].cpe = s[j].cpe => s[i].deprecated = s[j].deprecated
  BY VulnerabilityIntelligenceAssumption
<1> HIDE DEF s
<1>3. Named(s, k) = {c.cpe : c \in {d \in ToSet(s) : Qualifies(d, k)}}
  BY <1>1, <1>2, NamedAreAll
<1> DEFINE F == {d \in ToSet(s) : Qualifies(d, k)}
           f == [c \in F |-> c.cpe]
<1>4. IsFiniteSet(F)
  <2>1. IsFiniteSet(ToSet(s))  BY <1>1, ElementsAreFinite
  <2> QED  BY <2>1, FS_Subset
<1>5. IsFiniteSet({f[x] : x \in F})
  <2> HIDE DEF F
  <2>1. DOMAIN f = F  OBVIOUS
  <2> HIDE DEF f
  <2> QED  BY <1>4, <2>1, FiniteImages
<1>6. {f[x] : x \in F} = {c.cpe : c \in F}  OBVIOUS
<1> QED  BY <1>3, <1>5, <1>6 DEF QualifyingTruth, s

\* A finite set of one element has no other than a chosen one.
LEMMA SoleElement ==
  ASSUME NEW S, Cardinality(S) = 1
  PROVE  (CHOOSE c \in S : TRUE) \in S /\ (IsFiniteSet(S) => S = {CHOOSE c \in S : TRUE})
<1>1. S # {}  BY FS_EmptySet
<1>2. (CHOOSE c \in S : TRUE) \in S  BY <1>1
<1>3. ASSUME IsFiniteSet(S) PROVE S = {CHOOSE c \in S : TRUE}
  <2>1. PICK x : S = {x}  BY <1>3, FS_Singleton
  <2> QED  BY <1>2, <2>1
<1> QED  BY <1>2, <1>3

\* The lesser of two numbers.
LEMMA MinIs ==
  ASSUME NEW a \in Int, NEW b \in Int
  PROVE  Min({a, b}) = IF a <= b THEN a ELSE b
<1>1. CASE a <= b
  <2>1. Min({a, b}) \in {a, b} /\ \A y \in {a, b} : Min({a, b}) <= y
    BY <1>1 DEF Min
  <2> QED  BY <1>1, <2>1
<1>2. CASE ~(a <= b)
  <2>1. Min({a, b}) \in {a, b} /\ \A y \in {a, b} : Min({a, b}) <= y
    BY <1>2 DEF Min
  <2> QED  BY <1>2, <2>1
<1> QED  BY <1>1, <1>2

\* What was got of Truth(q), its first n items, and the page p are its first m.
Continues(q, n, got, p) ==
  \E m \in 0..Len(Truth(q)) :
    m = n + Len(p.items) /\ got \o p.items = SubSeq(Truth(q), 1, m)

\* A page of a truthful service continues what was received before it.
LEMMA PageContinues ==
  ASSUME NEW S, NEW q, Truth(q) \in Seq(S), NEW n \in 0..Len(Truth(q)),
         NEW got, got = SubSeq(Truth(q), 1, n), NEW p \in HonestPages(q, n)
  PROVE  /\ p.array /\ p.total = Len(Truth(q)) /\ p.start \in {n, Missing}
         /\ p.items \in Seq(S) /\ p.per \in {Len(p.items), Missing}
         /\ p.items = <<>> => n = Len(Truth(q))
         /\ Continues(q, n, got, p)
<1> DEFINE s == Truth(q)
           slice(m) == SubSeq(s, n + 1, Min({n + m, Len(s)}))
<1>0. HonestPages(q, n) =
        {[array |-> TRUE, items |-> slice(k), total |-> Len(s), start |-> n,
          per |-> Len(slice(k))] : k \in PageSizes}
        \cup {[array |-> TRUE, items |-> slice(k), total |-> Len(s), start |-> Missing,
               per |-> Missing] : k \in PageSizes}
  BY Zenon DEF HonestPages
<1> HIDE DEF s, slice
<1>1. PICK m \in PageSizes :
        /\ p.array /\ p.total = Len(s) /\ p.start \in {n, Missing}
        /\ p.items = slice(m) /\ p.per \in {Len(slice(m)), Missing}
  BY <1>0
<1>2. m \in Nat \ {0}  BY NvdAssumption
<1>3. s \in Seq(S) /\ Len(s) \in Nat /\ n \in 0..Len(s)  BY DEF s
<1> DEFINE b == IF n + m <= Len(s) THEN n + m ELSE Len(s)
<1>4. Min({n + m, Len(s)}) = b /\ b \in n..Len(s) /\ (n < Len(s) => n < b)
  BY <1>2, <1>3, MinIs
<1> DEFINE x == SubSeq(s, n + 1, b)
<1>5. p.items = x  BY <1>1, <1>4 DEF slice
<1> HIDE DEF b
<1>6. x \in Seq(S) /\ Len(x) = b - n
  <2>1. n + 1 \in Int /\ b \in Int /\ \A i \in (n + 1)..b : i \in 1..Len(s)  BY <1>3, <1>4
  <2>2. \A i \in (n + 1)..b : s[i] \in S  BY <1>3, <2>1, ElementOfSeq
  <2>3. x \in Seq(S) /\ Len(x) = IF n + 1 <= b THEN b - (n + 1) + 1 ELSE 0
    BY <2>1, <2>2, SubSeqProperties
  <2> QED  BY <1>3, <1>4, <2>3
<1> HIDE DEF x
<1>7. SubSeq(s, 1, n) \o x = SubSeq(s, 1, b)
  <2>1. 1 \in 1..Len(s) + 1 /\ n \in 1 - 1..Len(s) /\ b \in n..Len(s)  BY <1>3, <1>4
  <2> QED  BY <1>3, <2>1, ConcatAdjacentSubSeq DEF x
<1>8. b = n + Len(x) /\ b \in 0..Len(s)  BY <1>3, <1>4, <1>6
<1>9. x = <<>> => n = Len(s)
  <2>1. x = <<>> => Len(x) = 0  BY EmptySeq
  <2> QED  BY <1>3, <1>4, <1>6, <2>1
<1>10. p.per \in {Len(x), Missing}  BY <1>1, <1>5
<1>11. Continues(q, n, got, p)  BY <1>5, <1>7, <1>8 DEF Continues, s
<1> QED  BY <1>1, <1>5, <1>6, <1>9, <1>10, <1>11 DEF s

-----------------------------------------------------------------------------
(* The invariant holds *)

LEMMA LookupsAreListed ==
  ASSUME ai \in Observations
  PROVE  \A k \in Lookups : k \in DOMAIN Products /\ ObservationsOf(k) # {}
<1> TAKE k \in Lookups
<1>1. PICK o \in ai.observed : Eligible(o.technology) /\ k = Key(o.technology)  BY DEF Lookups
<1>2. o.technology \in Technologies  BY <1>1 DEF Technologies
<1>3. k \in DOMAIN Products  BY <1>1, <1>2, VulnerabilityIntelligenceAssumption
<1>4. o.technology \in ObservationsOf(k)  BY <1>1 DEF ObservationsOf
<1> QED  BY <1>3, <1>4

\* What the service holds for a search is a sequence of items of its path.
LEMMA TruthIsListed ==
  ASSUME ChainType, QueryInv, Asking
  PROVE  /\ query.path = "cpe" => Truth(query) \in Seq(CpeItems)
         /\ query.path = "cve" => Truth(query) \in Seq(CveItems)
<1>1. ASSUME query.path = "cpe" PROVE Truth(query) \in Seq(CpeItems)
  <2>1. query.of = current /\ current \in Lookups
    BY <1>1 DEF QueryInv, ChainType, Asking
  <2>2. current \in DOMAIN Products  BY <2>1, LookupsAreListed DEF ChainType
  <2>3. Truth(query) = Products[current]  BY <1>1, <2>1 DEF Truth
  <2> QED  BY <2>2, <2>3, NvdAssumption
<1>2. ASSUME query.path = "cve" PROVE Truth(query) \in Seq(CveItems)
  <2>1. PICK c \in CpeItems : Qualifies(c, current) /\ query = [path |-> "cve", of |-> c.cpe]
    BY <1>2 DEF QueryInv
  <2>2. c.cpe \in DOMAIN Records  BY <2>1, VulnerabilityIntelligenceAssumption DEF Qualifies
  <2>3. Truth(query) = Records[c.cpe]  BY <2>1 DEF Truth
  <2> QED  BY <2>2, <2>3, NvdAssumption
<1> QED  BY <1>1, <1>2

\* What a step that leaves the findings alone keeps.
LEMMA RestStays ==
  ASSUME PlaceOK, MadeInv, FoundInv, ExactInv,
         UNCHANGED <<truthful, mode, stage, ai, vi, graph, risk, results, pending, failed>>
  PROVE  PlaceOK' /\ MadeInv' /\ FoundInv' /\ ExactInv'
<1>1. Lookups' = Lookups  BY DEF Lookups
<1>2. PlaceOK'  BY <1>1 DEF PlaceOK
<1>3. MadeInv'  BY DEF MadeInv
<1>4. FoundInv'  BY DEF FoundInv
<1>5. \A k : Owed(k)' = Owed(k)  BY DEF Owed, ObservationsOf
<1>6. ExactInv'  BY <1>1, <1>5 DEF ExactInv
<1> QED  BY <1>2, <1>3, <1>4, <1>6

\* One turn of the page loop keeps what is known of the items.
LEMMA PaginateKeeps ==
  ASSUME NEW S, ChainType, items \in Seq(S), Truth(query) \in Seq(S), PageInv,
         reply = "pending", UNCHANGED <<truthful, query>>,
         NEW p \in IF truthful THEN HonestPages(query, start) ELSE PageOf(S), Paginate(p)
  PROVE  /\ items' \in Seq(S) /\ PageInv'
         /\ start' \in Nat /\ page' \in 0..(MaxPages - 1) /\ attempt' \in 0..MaxRetries
         /\ reply' \in {"pending", "items", "failed"}
<1> DEFINE first == IF p.start = Missing THEN start ELSE p.start
           size == IF p.per \in {Missing, 0} THEN Len(p.items) ELSE p.per
           next == first + size
           total == Len(Truth(query))
<1>0. /\ start \in Nat /\ page \in 0..(MaxPages - 1) /\ attempt \in 0..MaxRetries
      /\ MaxPages \in Nat \ {0} /\ MaxRetries \in Nat
  BY NvdAssumption DEF ChainType
<1>1. p.items \in Seq(S) /\ p.start \in Nat \cup {Missing} /\ p.per \in Nat \cup {Missing}
  <2>1. CASE truthful
    <3>1. start \in 0..Len(Truth(query))  BY <1>0, <2>1, LenProperties DEF PageInv
    <3>2. p.start \in {start, Missing} /\ p.items \in Seq(S) /\ p.per \in {Len(p.items), Missing}
      BY <2>1, <3>1, PageContinues DEF PageInv
    <3>3. Len(p.items) \in Nat  BY <3>2, LenProperties
    <3> QED  BY <1>0, <3>2, <3>3
  <2>2. CASE ~truthful  BY <2>2 DEF PageOf
  <2> QED  BY <2>1, <2>2
<1>2. first \in Nat /\ size \in Nat /\ next \in Nat
  <2>1. Len(p.items) \in Nat  BY <1>1, LenProperties
  <2>2. first \in Nat  BY <1>0, <1>1
  <2>3. size \in Nat  BY <1>1, <2>1
  <2> QED  BY <2>2, <2>3
<1>3. /\ truthful => next = start + Len(p.items) /\ p.total = total /\ p.total # Missing
      /\ truthful => /\ next \in 0..total /\ items \o p.items = SubSeq(Truth(query), 1, next)
                     /\ p.items = <<>> => next = total
  <2> SUFFICES ASSUME truthful
               PROVE  /\ next = start + Len(p.items) /\ p.total = total /\ p.total # Missing
                      /\ next \in 0..total /\ items \o p.items = SubSeq(Truth(query), 1, next)
                      /\ p.items = <<>> => next = total
    OBVIOUS
  <2>1. start \in 0..total /\ items = SubSeq(Truth(query), 1, start) /\ total \in Nat
    BY <1>0, LenProperties DEF PageInv
  <2>2. p.total = total /\ p.start \in {start, Missing} /\ p.per \in {Len(p.items), Missing}
        /\ (p.items = <<>> => start = total)
    BY <2>1, PageContinues
  <2>a. PICK m \in 0..total :
          m = start + Len(p.items) /\ items \o p.items = SubSeq(Truth(query), 1, m)
    <3>1. Continues(query, start, items, p)  BY <2>1, PageContinues
    <3> QED  BY <3>1 DEF Continues
  <2>3. Len(p.items) \in Nat  BY <1>1, LenProperties
  <2>4. first = start /\ size = Len(p.items)  BY <1>0, <2>2, <2>3 DEF Missing
  <2>5. p.items = <<>> => Len(p.items) = 0  BY EmptySeq
  <2>6. next = start + Len(p.items) /\ next = m  BY <2>4, <2>a
  <2> HIDE DEF next, total, first, size
  <2>7. p.total = total /\ p.total # Missing  BY <2>1, <2>2 DEF Missing
  <2>8. next \in 0..total  BY <2>6
  <2>9. items \o p.items = SubSeq(Truth(query), 1, next)  BY <2>6, <2>a
  <2>10. p.items = <<>> => next = total  BY <2>1, <2>2, <2>5, <2>6
  <2> QED  BY <2>6, <2>7, <2>8, <2>9, <2>10
<1> HIDE DEF next, total
<1>4. items \o p.items \in Seq(S)  BY <1>1, ConcatProperties
<1>5. CASE ~p.array /\ Answered("failed") /\ UNCHANGED items
  BY <1>0, <1>5 DEF Answered, PageInv
<1>6. CASE items' = items \o p.items /\ Answered("failed")
  BY <1>0, <1>4, <1>6 DEF Answered, PageInv
<1>7. CASE /\ items' = items \o p.items /\ Answered("items") /\ p.total # Missing
           /\ next >= p.total \/ p.items = <<>>
  <2>1. truthful => items' = Truth(query)
    <3> SUFFICES ASSUME truthful PROVE items' = Truth(query)  OBVIOUS
    <3>1. total \in Nat  BY LenProperties DEF total
    <3>2. next = total  BY <1>3, <1>7, <3>1
    <3>3. SubSeq(Truth(query), 1, Len(Truth(query))) = Truth(query)  BY SubSeqFull
    <3> QED  BY <1>3, <1>7, <3>2, <3>3 DEF total
  <2> QED  BY <1>0, <1>4, <1>7, <2>1 DEF Answered, PageInv
<1>8. CASE /\ items' = items \o p.items /\ page + 1 # MaxPages
           /\ start' = next /\ page' = page + 1 /\ attempt' = 0 /\ reply' = "pending"
  <2>1. page' \in 0..(MaxPages - 1) /\ attempt' \in 0..MaxRetries  BY <1>0, <1>8
  <2>2. truthful => start' <= Len(Truth(query)) /\ items' = SubSeq(Truth(query), 1, start')
    <3>1. total \in Nat  BY LenProperties DEF total
    <3> QED  BY <1>3, <1>8, <3>1 DEF total
  <2> QED  BY <1>2, <1>4, <1>8, <2>1, <2>2 DEF PageInv, next
<1> HIDE DEF first, size
<1>9. Paginate(p) => \/ ~p.array /\ Answered("failed") /\ UNCHANGED items
                     \/ /\ p.array /\ items' = items \o p.items
                        /\ IF p.total = Missing THEN Answered("failed")
                           ELSE IF next >= p.total \/ p.items = <<>> THEN Answered("items")
                           ELSE IF next <= start \/ page + 1 = MaxPages THEN Answered("failed")
                           ELSE start' = next /\ page' = page + 1 /\ attempt' = 0 /\ reply' = "pending"
  BY Zenon DEF Paginate, next, first, size
<1>10. \/ ~p.array /\ Answered("failed") /\ UNCHANGED items
       \/ items' = items \o p.items /\ Answered("failed")
       \/ /\ items' = items \o p.items /\ Answered("items") /\ p.total # Missing
          /\ next >= p.total \/ p.items = <<>>
       \/ /\ items' = items \o p.items /\ page + 1 # MaxPages
          /\ start' = next /\ page' = page + 1 /\ attempt' = 0 /\ reply' = "pending"
  <2>1. CASE p.total = Missing  BY <1>9, <2>1
  <2>2. CASE p.total # Missing /\ (next >= p.total \/ p.items = <<>>)  BY <1>9, <2>2
  <2>3. CASE p.total # Missing /\ ~(next >= p.total \/ p.items = <<>>)
    <3>1. CASE next <= start \/ page + 1 = MaxPages  BY <1>9, <2>3, <3>1
    <3>2. CASE ~(next <= start \/ page + 1 = MaxPages)  BY <1>9, <2>3, <3>2
    <3> QED  BY <3>1, <3>2
  <2> QED  BY <2>1, <2>2, <2>3
<1> QED  BY <1>5, <1>6, <1>7, <1>8, <1>10

LEMMA NetworkChain == ChainInv /\ Network => ChainInv'
<1> SUFFICES ASSUME ChainInv, Network PROVE ChainInv'  OBVIOUS
<1> USE DEF ChainInv
<1>1. /\ reply = "pending" /\ UNCHANGED <<truthful, query>>
      /\ UNCHANGED <<mode, stage, ai, vi, graph, risk, results, pending, failed, current>>
  BY DEF Network, NvdStep, Respond, Reject, Retry, Break, lookup
<1>2. PlaceOK' /\ MadeInv' /\ FoundInv' /\ ExactInv'  BY <1>1, RestStays
<1>3. Asking /\ query.path \in {"cpe", "cve"}  BY <1>1 DEF QueryInv, ChainType, Asking
<1> DEFINE S == IF query.path = "cpe" THEN CpeItems ELSE CveItems
<1>4. items \in Seq(S) /\ Truth(query) \in Seq(S)
  <2>1. CASE query.path = "cpe"  BY <1>3, <2>1, TruthIsListed DEF QueryInv
  <2>2. CASE query.path = "cve"  BY <1>3, <2>2, TruthIsListed DEF QueryInv
  <2> QED  BY <1>3, <2>1, <2>2
<1>5. /\ items' \in Seq(S) /\ PageInv'
      /\ start' \in Nat /\ page' \in 0..(MaxPages - 1) /\ attempt' \in 0..MaxRetries
      /\ reply' \in {"pending", "items", "failed", "broken"}
  <2>1. CASE Respond
    <3>1. PICK p \in IF truthful THEN HonestPages(query, start) ELSE OddPages[query.path] :
            Paginate(p)
      BY <2>1 DEF Respond
    <3>2. p \in IF truthful THEN HonestPages(query, start) ELSE PageOf(S)
      <4>1. OddPages.cpe = OddPages["cpe"] /\ OddPages.cve = OddPages["cve"]  OBVIOUS
      <4> QED  BY <1>3, <3>1, <4>1, NvdAssumption
    <3> HIDE DEF S
    <3> QED  BY <1>1, <1>4, <3>1, <3>2, PaginateKeeps
  <2>2. CASE Reject \/ Break
    BY <1>4, <2>2 DEF Reject, Break, Answered, ChainType, PageInv
  <2>3. CASE Retry /\ attempt < MaxRetries
    <3>1. attempt' \in 0..MaxRetries
      BY <2>3, NvdAssumption DEF Retry, ChainType
    <3> QED  BY <1>4, <2>3, <3>1 DEF Retry, ChainType, PageInv
  <2>4. CASE Retry /\ ~(attempt < MaxRetries)
    BY <1>4, <2>4 DEF Retry, Answered, ChainType, PageInv
  <2> QED  BY <2>1, <2>2, <2>3, <2>4 DEF Network, NvdStep
<1>6. ChainType'
  <2>1. items' \in Seq(CpeItems \cup CveItems)
    <3>1. S \subseteq CpeItems \cup CveItems  OBVIOUS
    <3> HIDE DEF S
    <3> QED  BY <1>5, <3>1
  <2>2. Lookups' = Lookups  BY <1>1 DEF Lookups
  <2>3. reply' \in {"none", "pending", "items", "failed", "broken"}  BY <1>5
  <2>4. start' \in Nat /\ page' \in 0..(MaxPages - 1) /\ attempt' \in 0..MaxRetries  BY <1>5
  <2>5. UNCHANGED <<truthful, query, mode, ai, results, pending, failed>>  BY <1>1
  <2> QED  BY <2>1, <2>2, <2>3, <2>4, <2>5 DEF ChainType
<1>7. QueryInv'  BY <1>1, <1>3, <1>5 DEF QueryInv, Asking
<1> QED  BY <1>2, <1>5, <1>6, <1>7

LEMMA InitChain == ChainInit => ChainInv
<1> SUFFICES ASSUME ChainInit PROVE ChainInv  OBVIOUS
<1>1. ChainType
  BY NvdAssumption DEF ChainInit, NvdInit, ChainType, NoQuery, Results
<1>2. QueryInv /\ PageInv  BY DEF ChainInit, NvdInit, QueryInv, PageInv, NoQuery, Asking
<1>3. PlaceOK  BY DEF ChainInit, PlaceOK
<1>4. MadeInv  BY DEF ChainInit, MadeInv
<1>5. FoundInv /\ ExactInv  BY DEF ChainInit, FoundInv, ExactInv, NoIntelligence
<1> QED  BY <1>1, <1>2, <1>3, <1>4, <1>5 DEF ChainInv

\* While no search is in progress, nothing is known of pages.
LEMMA SearchIdle ==
  ASSUME ChainInv, UNCHANGED <<nvdVars, current>>,
         ~Asking \/ (stage' = stage /\ current \in pending')
  PROVE  QueryInv' /\ PageInv'
<1>1. UNCHANGED <<truthful, query, start, page, attempt, items, reply, current>>  BY DEF nvdVars
<1>2. QueryInv /\ PageInv  BY DEF ChainInv
<1>3. QueryInv'
  <2>1. CASE query.path = "none"  BY <1>1, <1>2, <2>1 DEF QueryInv, Asking
  <2>2. CASE query.path # "none"  BY <1>1, <1>2, <2>2 DEF QueryInv, Asking
  <2> QED  BY <2>1, <2>2
<1>4. PageInv'  BY <1>1, <1>2 DEF PageInv
<1> QED  BY <1>3, <1>4

LEMMA SeedChain == ChainInv /\ Seed => ChainInv'
<1> SUFFICES ASSUME ChainInv, Seed PROVE ChainInv'  OBVIOUS
<1>0. ChainType /\ QueryInv /\ PlaceOK /\ MadeInv  BY DEF ChainInv
<1>1. /\ stage = "given" /\ stage' \in {"graph", "risk"}
      /\ UNCHANGED <<truthful, query, start, page, attempt, items, reply, current>>
      /\ UNCHANGED <<mode, ai, risk, results, pending, failed>>
  BY DEF Seed, nvdVars, lookup
<1>2. mode # "composed" /\ ~truthful  BY <1>0, <1>1 DEF PlaceOK
<1>3. ChainType'
  <2>1. Lookups' = Lookups  BY <1>1 DEF Lookups
  <2> QED  BY <1>0, <1>1, <2>1 DEF ChainType
<1>4. QueryInv' /\ PageInv'
  <2>1. ~Asking  BY <1>0, <1>1 DEF QueryInv
  <2> QED  BY <1>1, <2>1, SearchIdle DEF nvdVars
<1>5. PlaceOK'  BY <1>0, <1>1, <1>2 DEF PlaceOK, Seed
<1>6. MadeInv'
  <2>1. graph = NoGraph /\ results.graph = "NONE" /\ results.risk = "NONE" /\ risk = NoRisk
    BY <1>0, <1>1 DEF MadeInv
  <2> QED  BY <1>1, <1>2, <2>1 DEF MadeInv, Seed
<1>7. FoundInv' /\ ExactInv'  BY <1>1, <1>2 DEF FoundInv, ExactInv
<1> QED  BY <1>3, <1>4, <1>5, <1>6, <1>7 DEF ChainInv

LEMMA GroupChain == ChainInv /\ Group => ChainInv'
<1> SUFFICES ASSUME ChainInv, Group PROVE ChainInv'  OBVIOUS
<1>0. ChainType /\ QueryInv /\ PlaceOK /\ MadeInv /\ FoundInv  BY DEF ChainInv
<1>1. /\ stage = "vulnerability_intelligence" /\ stage' = "lookups" /\ pending' = Lookups
      /\ UNCHANGED <<truthful, query, start, page, attempt, items, reply, current>>
      /\ UNCHANGED <<mode, ai, graph, risk, vi, results, failed>>
  BY DEF Group, nvdVars, chain
<1>2. mode = "composed" /\ failed = {} /\ vi = NoIntelligence /\ results.vi = "NONE"
  BY <1>0, <1>1 DEF PlaceOK
<1>3. Lookups' = Lookups  BY <1>1 DEF Lookups
<1>4. ChainType'  BY <1>0, <1>1, <1>2, <1>3 DEF ChainType
<1>5. QueryInv' /\ PageInv'
  <2>1. ~Asking  BY <1>0, <1>1 DEF QueryInv
  <2> QED  BY <1>1, <2>1, SearchIdle DEF nvdVars
<1>6. PlaceOK'  BY <1>1, <1>2 DEF PlaceOK
<1>7. MadeInv'  BY <1>0, <1>1 DEF MadeInv
<1>8. FoundInv'  BY <1>0, <1>1 DEF FoundInv
<1>9. ExactInv'
  <2>1. vi'.links = {}  BY <1>1, <1>2 DEF NoIntelligence
  <2>2. Lookups' \ (pending' \cup failed') = {}  BY <1>1, <1>2, <1>3
  <2> QED  BY <2>1, <2>2 DEF ExactInv
<1> QED  BY <1>4, <1>5, <1>6, <1>7, <1>8, <1>9 DEF ChainInv

\* A question is asked: no page of the answer is there yet.
LEMMA AskKeeps ==
  ASSUME NEW q, Ask(q), ChainInv, NEW S, Truth(q) \in Seq(S)
  PROVE  /\ query' = q /\ reply' = "pending" /\ truthful' = truthful
         /\ items' \in Seq(S) /\ items' \in Seq(CpeItems \cup CveItems) /\ items' \in Seq(CpeItems)
         /\ items' \in Seq(CveItems)
         /\ start' = 0 /\ page' \in 0..(MaxPages - 1) /\ attempt' \in 0..MaxRetries
         /\ PageInv'
<1>1. /\ query' = q /\ reply' = "pending" /\ items' = <<>> /\ truthful' = truthful
      /\ start' = 0 /\ page' = 0 /\ attempt' = 0
  BY DEF Ask
<1>2. 0 <= Len(Truth(q)) /\ SubSeq(Truth(q), 1, 0) = <<>>
  <2>1. Len(Truth(q)) \in Nat  BY LenProperties
  <2>2. SubSeq(Truth(q), 1, 0) = <<>>  BY SubSeqEmpty
  <2> QED  BY <2>1, <2>2
<1>3. PageInv'  BY <1>1, <1>2 DEF PageInv
<1> QED  BY <1>1, <1>3, NvdAssumption

LEMMA SearchChain == ChainInv /\ Search => ChainInv'
<1> SUFFICES ASSUME ChainInv, Search PROVE ChainInv'  OBVIOUS
<1>0. ChainType /\ QueryInv /\ PlaceOK /\ MadeInv /\ FoundInv /\ ExactInv  BY DEF ChainInv
<1>1. PICK k \in pending : current' = k /\ Ask([path |-> "cpe", of |-> k])  BY DEF Search
<1> DEFINE q == [path |-> "cpe", of |-> k]
<1>2. /\ stage = "lookups"
      /\ UNCHANGED <<mode, stage, ai, vi, graph, risk, results, pending, failed>>
  BY DEF Search, chain
<1>3. k \in Lookups /\ k \in DOMAIN Products
  BY <1>0, LookupsAreListed DEF ChainType
<1>4. Truth(q) \in Seq(CpeItems)  BY <1>3, NvdAssumption DEF Truth
<1>5. q.path = "cpe" /\ q.of = k  OBVIOUS
<1> HIDE DEF q
<1>6. /\ query' = q /\ reply' = "pending" /\ truthful' = truthful
      /\ items' \in Seq(CpeItems) /\ items' \in Seq(CpeItems \cup CveItems)
      /\ start' = 0 /\ page' \in 0..(MaxPages - 1) /\ attempt' \in 0..MaxRetries /\ PageInv'
  <2>1. Ask(q)  BY <1>1 DEF q
  <2> QED  BY <1>4, <2>1, AskKeeps
<1>7. PlaceOK' /\ MadeInv' /\ FoundInv' /\ ExactInv'  BY <1>0, <1>2, <1>6, RestStays
<1>8. ChainType'
  <2>1. Lookups' = Lookups  BY <1>2 DEF Lookups
  <2> QED  BY <1>0, <1>2, <1>5, <1>6, <2>1 DEF ChainType
<1>9. QueryInv'
  <2>1. query'.path = "cpe" /\ query' = [path |-> "cpe", of |-> current']
    BY <1>1, <1>6 DEF q
  <2> QED  BY <1>1, <1>2, <1>6, <2>1 DEF QueryInv, Asking
<1> QED  BY <1>6, <1>7, <1>8, <1>9 DEF ChainInv

\* The lookup in progress is over: no search is in progress then.
LEMMA DropKeeps ==
  ASSUME ChainInv, Asking, Drop, UNCHANGED <<mode, ai>>,
         results' \in [vi : Results, graph : Results, risk : Results],
         failed' \in {failed, failed \cup {current}}
  PROVE  /\ ChainType' /\ QueryInv' /\ PageInv'
         /\ current \in pending /\ current \in Lookups /\ truthful' = truthful
         /\ Lookups' = Lookups /\ pending' = pending \ {current}
         /\ failed' = failed =>
              Lookups' \ (pending' \cup failed') = (Lookups \ (pending \cup failed)) \cup {current}
         /\ failed' = failed \cup {current} =>
              Lookups' \ (pending' \cup failed') = Lookups \ (pending \cup failed)
<1>0. ChainType /\ QueryInv /\ PlaceOK  BY DEF ChainInv
<1>1. /\ query' = NoQuery /\ reply' = "none" /\ start' = 0 /\ page' = 0 /\ attempt' = 0
      /\ items' = <<>> /\ truthful' = truthful /\ current' = NoKey
      /\ pending' = pending \ {current}
  BY DEF Drop, Forget
<1>2. current \in pending /\ current \in Lookups /\ Lookups' = Lookups /\ current \notin failed
  BY <1>0 DEF QueryInv, ChainType, Lookups
<1>3. ChainType'
  <2>1. items' \in Seq(CpeItems \cup CveItems)  BY <1>1
  <2>2. page' \in 0..(MaxPages - 1) /\ attempt' \in 0..MaxRetries  BY <1>1, NvdAssumption
  <2>3. pending' \cup failed' \subseteq Lookups' /\ pending' \cap failed' = {}
    BY <1>0, <1>1, <1>2 DEF ChainType
  <2>4. query'.path = "none"  BY <1>1 DEF NoQuery
  <2> QED  BY <1>0, <1>1, <2>1, <2>2, <2>3, <2>4 DEF ChainType
<1>4. QueryInv' /\ PageInv'
  <2>1. query'.path = "none"  BY <1>1 DEF NoQuery
  <2> QED  BY <1>1, <2>1 DEF QueryInv, PageInv, Asking
<1>5. failed' = failed =>
        Lookups' \ (pending' \cup failed') = (Lookups \ (pending \cup failed)) \cup {current}
  BY <1>1, <1>2
<1>6. failed' = failed \cup {current} =>
        Lookups' \ (pending' \cup failed') = Lookups \ (pending \cup failed)
  BY <1>1, <1>2
<1> QED  BY <1>1, <1>2, <1>3, <1>4, <1>5, <1>6

\* A lookup that is over and owes the links L leaves L to be found.
LEMMA OwedGrows ==
  ASSUME ExactInv, truthful, stage = "lookups", UNCHANGED ai, NEW L, Owed(current) = L,
         vi'.links = vi.links \cup L,
         Lookups' \ (pending' \cup failed') = (Lookups \ (pending \cup failed)) \cup {current}
  PROVE  ExactInv'
<1>1. \A k : Owed(k)' = Owed(k)  BY DEF Owed, ObservationsOf
<1> DEFINE K == Lookups \ (pending \cup failed)
<1>2. vi.links = UNION {Owed(k) : k \in K}  BY DEF ExactInv
<1> HIDE DEF K
<1>3. UNION {Owed(k) : k \in K \cup {current}} = (UNION {Owed(k) : k \in K}) \cup L  OBVIOUS
<1>4. vi'.links = UNION {Owed(k) : k \in K \cup {current}}  BY <1>2, <1>3
<1>5. vi'.links = UNION {Owed(k)' : k \in K \cup {current}}  BY <1>1, <1>4
<1> QED  BY <1>5 DEF ExactInv, K

LEMMA CandidatesChain == ChainInv /\ Candidates => ChainInv'
<1> SUFFICES ASSUME ChainInv, Candidates PROVE ChainInv'  OBVIOUS
<1>0. ChainType /\ QueryInv /\ PageInv /\ PlaceOK /\ MadeInv /\ FoundInv /\ ExactInv
  BY DEF ChainInv
<1> DEFINE names == Named(items, current)
<1>1. /\ stage = "lookups" /\ reply = "items" /\ query.path = "cpe"
      /\ UNCHANGED <<mode, stage, ai, vi, graph, risk, results, failed>>
  BY DEF Candidates, chain
<1>2. IF Cardinality(names) = 1
      THEN /\ Ask([path |-> "cve", of |-> CHOOSE c \in names : TRUE])
           /\ UNCHANGED <<pending, current>>
      ELSE Drop
  BY DEF Candidates, Named
<1>3. /\ Asking /\ query = [path |-> "cpe", of |-> current] /\ items \in Seq(CpeItems)
      /\ current \in pending /\ current \in Lookups /\ current \in DOMAIN Products
  BY <1>0, <1>1, LookupsAreListed DEF QueryInv, Asking, ChainType
<1>4. truthful => names = QualifyingTruth(current) /\ IsFiniteSet(names)
  <2> SUFFICES ASSUME truthful PROVE names = QualifyingTruth(current) /\ IsFiniteSet(names)
    OBVIOUS
  <2>1. items = Products[current]  BY <1>0, <1>1, <1>3 DEF PageInv, Truth
  <2> QED  BY <1>3, <2>1, TruthQualifies
<1>5. ASSUME NEW x \in names PROVE \E c \in CpeItems : Qualifies(c, current) /\ c.cpe = x
  BY <1>3, <1>5, NamedQualify
<1> HIDE DEF names
<1>6. CASE Cardinality(names) = 1
  <2> DEFINE x == CHOOSE c \in names : TRUE
             q == [path |-> "cve", of |-> x]
  <2>1. x \in names /\ (truthful => names = {x})  BY <1>4, <1>6, SoleElement
  <2> HIDE DEF x
  <2>2. PICK c \in CpeItems : Qualifies(c, current) /\ c.cpe = x  BY <1>5, <2>1
  <2>3. q.path = "cve" /\ q.of = x /\ UNCHANGED <<pending, current>>  BY <1>2, <1>6
  <2>4. Truth(q) \in Seq(CveItems)
    <3>1. x \in DOMAIN Records
      BY <2>2, VulnerabilityIntelligenceAssumption DEF Qualifies
    <3> QED  BY <3>1, NvdAssumption DEF Truth
  <2>5. Ask(q)  BY <1>2, <1>6 DEF x
  <2> HIDE DEF q
  <2>6. /\ query' = q /\ reply' = "pending" /\ truthful' = truthful
        /\ items' \in Seq(CveItems) /\ items' \in Seq(CpeItems \cup CveItems)
        /\ start' = 0 /\ page' \in 0..(MaxPages - 1) /\ attempt' \in 0..MaxRetries /\ PageInv'
    BY <2>4, <2>5, AskKeeps
  <2>7. PlaceOK' /\ MadeInv' /\ FoundInv' /\ ExactInv'  BY <1>0, <1>1, <2>3, <2>6, RestStays
  <2>8. ChainType'
    <3>1. Lookups' = Lookups  BY <1>1 DEF Lookups
    <3> QED  BY <1>0, <1>1, <2>3, <2>6, <3>1 DEF ChainType
  <2>9. QueryInv'
    <3>1. query' = [path |-> "cve", of |-> c.cpe] /\ Qualifies(c, current')
      BY <2>2, <2>3, <2>6 DEF q
    <3>2. truthful' => QualifyingTruth(current') = {query'.of}
      BY <1>4, <2>1, <2>3, <2>6
    <3>3. query'.path = "cve"  BY <2>3, <2>6
    <3>4. query'.path = "cve" =>
            /\ \E d \in CpeItems : Qualifies(d, current') /\ query' = [path |-> "cve", of |-> d.cpe]
            /\ truthful' => QualifyingTruth(current') = {query'.of}
            /\ items' \in Seq(CveItems)
      BY <2>6, <3>1, <3>2
    <3>5. Asking' => stage' = "lookups" /\ current' \in pending' /\ reply' # "none"
      BY <1>1, <1>3, <2>3, <2>6
    <3> QED  BY <3>3, <3>4, <3>5 DEF QueryInv
  <2> QED  BY <2>6, <2>7, <2>8, <2>9 DEF ChainInv
<1>7. CASE Cardinality(names) # 1
  <2>0. Drop  BY <1>2, <1>7
  <2>1. /\ ChainType' /\ QueryInv' /\ PageInv' /\ truthful' = truthful
        /\ pending' = pending \ {current} /\ Lookups' = Lookups
        /\ Lookups' \ (pending' \cup failed') = (Lookups \ (pending \cup failed)) \cup {current}
    <3>1. results' \in [vi : Results, graph : Results, risk : Results]
      BY <1>0, <1>1 DEF ChainType
    <3> QED  BY <1>1, <1>3, <2>0, <3>1, DropKeeps
  <2>2. PlaceOK'  BY <1>0, <1>1, <2>1 DEF PlaceOK
  <2>3. MadeInv' /\ FoundInv'  BY <1>0, <1>1 DEF MadeInv, FoundInv
  <2>4. ExactInv'
    <3>1. CASE truthful
      <4>1. Owed(current) = {}  BY <1>4, <1>7, <3>1 DEF Owed
      <4> QED  BY <1>0, <1>1, <2>1, <3>1, <4>1, OwedGrows
    <3>2. CASE ~truthful  BY <2>1, <3>2 DEF ExactInv
    <3> QED  BY <3>1, <3>2
  <2> QED  BY <2>1, <2>2, <2>3, <2>4 DEF ChainInv
<1> QED  BY <1>6, <1>7

LEMMA LookupFailsChain == ChainInv /\ LookupFails => ChainInv'
<1> SUFFICES ASSUME ChainInv, LookupFails PROVE ChainInv'  OBVIOUS
<1>0. ChainType /\ QueryInv /\ PageInv /\ PlaceOK /\ MadeInv /\ FoundInv /\ ExactInv
  BY DEF ChainInv
<1>1. /\ stage = "lookups" /\ reply = "failed" /\ failed' = failed \cup {current} /\ Drop
      /\ UNCHANGED <<mode, stage, ai, vi, graph, risk, results>>
  BY DEF LookupFails, chain
<1>2. Asking  BY <1>0, <1>1 DEF QueryInv, Asking
<1>3. /\ ChainType' /\ QueryInv' /\ PageInv' /\ truthful' = truthful
      /\ pending' = pending \ {current} /\ Lookups' = Lookups
      /\ Lookups' \ (pending' \cup failed') = Lookups \ (pending \cup failed)
  <2>1. results' \in [vi : Results, graph : Results, risk : Results]
    BY <1>0, <1>1 DEF ChainType
  <2> QED  BY <1>1, <1>2, <2>1, DropKeeps
<1>4. PlaceOK'  BY <1>0, <1>1, <1>3 DEF PlaceOK
<1>5. MadeInv' /\ FoundInv'  BY <1>0, <1>1 DEF MadeInv, FoundInv
<1>6. ExactInv'
  <2>1. \A k : Owed(k)' = Owed(k)  BY <1>1 DEF Owed, ObservationsOf
  <2> QED  BY <1>0, <1>1, <1>3, <2>1 DEF ExactInv
<1> QED  BY <1>3, <1>4, <1>5, <1>6 DEF ChainInv

LEMMA LookupBreaksChain == ChainInv /\ LookupBreaks => ChainInv'
<1> SUFFICES ASSUME ChainInv, LookupBreaks PROVE ChainInv'  OBVIOUS
<1>0. ChainType /\ QueryInv /\ PageInv /\ PlaceOK /\ MadeInv  BY DEF ChainInv
<1>1. /\ stage = "lookups" /\ reply = "broken" /\ vi' = NoIntelligence /\ stage' = "stopped" /\ Drop
      /\ results' = [results EXCEPT !.vi = "ERROR"]
      /\ UNCHANGED <<mode, ai, graph, risk, failed>>
  BY DEF LookupBreaks, chain
<1>2. Asking  BY <1>0, <1>1 DEF QueryInv, Asking
<1>3. results' \in [vi : Results, graph : Results, risk : Results] /\ results'.vi = "ERROR"
      /\ results'.graph = results.graph /\ results'.risk = results.risk
  BY <1>0, <1>1 DEF ChainType, Results
<1>4. ChainType' /\ QueryInv' /\ PageInv' /\ truthful' = truthful
  BY <1>1, <1>2, <1>3, DropKeeps
<1>5. mode = "composed"  BY <1>0, <1>1 DEF PlaceOK
<1>6. PlaceOK'  BY <1>1, <1>3, <1>5 DEF PlaceOK
<1>7. MadeInv'  BY <1>0, <1>1, <1>3 DEF MadeInv
<1>8. FoundInv' /\ ExactInv'  BY <1>1 DEF FoundInv, ExactInv, NoIntelligence
<1> QED  BY <1>4, <1>6, <1>7, <1>8 DEF ChainInv

LEMMA PublishChain == ChainInv /\ Publish => ChainInv'
<1> SUFFICES ASSUME ChainInv, Publish PROVE ChainInv'  OBVIOUS
<1>0. ChainType /\ QueryInv /\ PageInv /\ PlaceOK /\ MadeInv /\ FoundInv /\ ExactInv
  BY DEF ChainInv
<1> DEFINE st == CASE failed = {}                     -> "SUCCESS"
                   [] failed # {} /\ failed = Lookups -> "FAILURE"
                   [] OTHER                           -> "PARTIAL"
<1>1. /\ stage = "lookups" /\ pending = {}
      /\ results' = [results EXCEPT !.vi = st]
      /\ stage' = IF st = "FAILURE" THEN "stopped" ELSE "graph"
      /\ vi' = IF st = "FAILURE" THEN NoIntelligence ELSE vi
      /\ UNCHANGED nvdVars
      /\ UNCHANGED <<mode, ai, graph, risk, pending, failed, current>>
  BY DEF Publish, chain, lookup
<1>2. \/ st = "SUCCESS" /\ failed = {}
      \/ st = "FAILURE" /\ failed # {} /\ failed = Lookups
      \/ st = "PARTIAL" /\ failed # {} /\ failed # Lookups
  OBVIOUS
<1> HIDE DEF st
<1>3. /\ results' \in [vi : Results, graph : Results, risk : Results] /\ results'.vi = st
      /\ results'.graph = results.graph /\ results'.risk = results.risk
  BY <1>0, <1>1, <1>2 DEF ChainType, Results
<1>4. mode = "composed" /\ Lookups' = Lookups  BY <1>0, <1>1 DEF PlaceOK, Lookups
<1>5. UNCHANGED <<truthful, query, start, page, attempt, items, reply>>  BY <1>1 DEF nvdVars
<1>6. ChainType'  BY <1>0, <1>1, <1>3, <1>4, <1>5 DEF ChainType
<1>7. QueryInv' /\ PageInv'
  <2>1. ~Asking  BY <1>0, <1>1 DEF QueryInv
  <2> QED  BY <1>1, <2>1, SearchIdle
<1>8. PlaceOK'  BY <1>1, <1>2, <1>3, <1>4 DEF PlaceOK
<1>9. MadeInv'  BY <1>0, <1>1, <1>3 DEF MadeInv
<1>10. FoundInv'
  <2>1. CASE st = "FAILURE"  BY <1>1, <2>1 DEF FoundInv, NoIntelligence
  <2>2. CASE st # "FAILURE"  BY <1>0, <1>1, <2>2 DEF FoundInv
  <2> QED  BY <2>1, <2>2
<1>11. ExactInv'
  <2>1. CASE st = "FAILURE"  BY <1>1, <2>1 DEF ExactInv
  <2>2. CASE st # "FAILURE"
    <3>1. \A k : Owed(k)' = Owed(k)  BY <1>1 DEF Owed, ObservationsOf
    <3> QED  BY <1>0, <1>1, <1>4, <1>5, <2>2, <3>1 DEF ExactInv
  <2> QED  BY <2>1, <2>2
<1> QED  BY <1>6, <1>7, <1>8, <1>9, <1>10, <1>11 DEF ChainInv

LEMMA KnowledgeGraphChain == ChainInv /\ KnowledgeGraph => ChainInv'
<1> SUFFICES ASSUME ChainInv, KnowledgeGraph PROVE ChainInv'  OBVIOUS
<1>0. ChainType /\ QueryInv /\ PageInv /\ PlaceOK /\ MadeInv /\ FoundInv /\ ExactInv
  BY DEF ChainInv
<1> DEFINE st == IF graph'.skipped > 0 THEN "PARTIAL" ELSE "SUCCESS"
<1>1. /\ stage = "graph" /\ graph' = BuildGraph(ai, vi) /\ stage' = "risk"
      /\ results' = [results EXCEPT !.graph = st] /\ UNCHANGED nvdVars
      /\ UNCHANGED <<mode, ai, vi, risk, pending, failed, current>>
  BY DEF KnowledgeGraph, lookup
<1>2. st \in {"PARTIAL", "SUCCESS"}  OBVIOUS
<1>3. /\ results' \in [vi : Results, graph : Results, risk : Results] /\ results'.vi = results.vi
      /\ results'.graph = st /\ results'.risk = results.risk
  <2> HIDE DEF st
  <2> QED  BY <1>0, <1>1, <1>2 DEF ChainType, Results
<1>4. UNCHANGED <<truthful, query, start, page, attempt, items, reply>> /\ Lookups' = Lookups
  BY <1>1 DEF nvdVars, Lookups
<1>5. ChainType'  BY <1>0, <1>1, <1>3, <1>4 DEF ChainType
<1>6. QueryInv' /\ PageInv'
  <2>1. ~Asking  BY <1>0, <1>1 DEF QueryInv
  <2> QED  BY <1>1, <2>1, SearchIdle
<1>7. PlaceOK'  BY <1>0, <1>1, <1>3, <1>4 DEF PlaceOK
<1>8. mode \in {"composed", "intelligence"}
  BY <1>0, <1>1 DEF PlaceOK
<1>9. MadeInv'  BY <1>0, <1>1, <1>3, <1>8 DEF MadeInv
<1>10. FoundInv'  BY <1>0, <1>1 DEF FoundInv
<1>11. ExactInv'
  <2>1. \A k : Owed(k)' = Owed(k)  BY <1>1 DEF Owed, ObservationsOf
  <2> QED  BY <1>0, <1>1, <1>4, <2>1 DEF ExactInv
<1> QED  BY <1>5, <1>6, <1>7, <1>9, <1>10, <1>11 DEF ChainInv

LEMMA RiskChain == ChainInv /\ Risk => ChainInv'
<1> SUFFICES ASSUME ChainInv, Risk PROVE ChainInv'  OBVIOUS
<1>0. ChainType /\ QueryInv /\ PageInv /\ PlaceOK /\ MadeInv /\ FoundInv /\ ExactInv
  BY DEF ChainInv
<1> DEFINE st == IF mode = "nothing" THEN "FAILURE"
                 ELSE IF risk'.skipped > 0 THEN "PARTIAL" ELSE "SUCCESS"
<1>1. /\ stage = "risk" /\ stage' = "done"
      /\ risk' = IF mode = "nothing" THEN risk ELSE AssessRisk(graph)
      /\ results' = [results EXCEPT !.risk = st] /\ UNCHANGED nvdVars
      /\ UNCHANGED <<mode, ai, vi, graph, pending, failed, current>>
  <2>1. CASE mode = "nothing"  BY <2>1 DEF Risk, lookup
  <2>2. CASE mode # "nothing"  BY <2>2 DEF Risk, lookup
  <2> QED  BY <2>1, <2>2
<1>2. st \in {"FAILURE", "PARTIAL", "SUCCESS"}  OBVIOUS
<1>3. /\ results' \in [vi : Results, graph : Results, risk : Results] /\ results'.vi = results.vi
      /\ results'.graph = results.graph /\ results'.risk = st
  <2> HIDE DEF st
  <2> QED  BY <1>0, <1>1, <1>2 DEF ChainType, Results
<1>4. UNCHANGED <<truthful, query, start, page, attempt, items, reply>> /\ Lookups' = Lookups
  BY <1>1 DEF nvdVars, Lookups
<1>5. ChainType'  BY <1>0, <1>1, <1>3, <1>4 DEF ChainType
<1>6. QueryInv' /\ PageInv'
  <2>1. ~Asking  BY <1>0, <1>1 DEF QueryInv
  <2> QED  BY <1>1, <2>1, SearchIdle
<1>7. PlaceOK'  BY <1>0, <1>1, <1>3, <1>4 DEF PlaceOK
<1>8. MadeInv'  BY <1>0, <1>1, <1>3 DEF MadeInv
<1>9. FoundInv'  BY <1>0, <1>1 DEF FoundInv
<1>10. ExactInv'
  <2>1. \A k : Owed(k)' = Owed(k)  BY <1>1 DEF Owed, ObservationsOf
  <2> QED  BY <1>0, <1>1, <1>4, <2>1 DEF ExactInv
<1> QED  BY <1>5, <1>6, <1>7, <1>8, <1>9, <1>10 DEF ChainInv

LEMMA VulnerabilitiesChain == ChainInv /\ Vulnerabilities => ChainInv'
<1> SUFFICES ASSUME ChainInv, Vulnerabilities PROVE ChainInv'  OBVIOUS
<1>0. ChainType /\ QueryInv /\ PageInv /\ PlaceOK /\ MadeInv /\ FoundInv /\ ExactInv
  BY DEF ChainInv
<1> DEFINE accepted == {i \in DOMAIN items : Accepted(items[i])}
           known == {v.id : v \in vi.vulnerabilities}
           fresh == {j \in accepted : /\ items[j].id \notin known
                                      /\ \A h \in accepted : h < j => items[h].id # items[j].id}
           added == {ToVulnerability(items[i]) : i \in fresh}
           L == {Link(t, items[i].id, query.of) : t \in ObservationsOf(current), i \in accepted}
<1>1. /\ stage = "lookups" /\ reply = "items" /\ query.path = "cve" /\ Drop
      /\ vi' = [vulnerabilities |-> vi.vulnerabilities \cup added, links |-> vi.links \cup L]
      /\ UNCHANGED <<mode, stage, ai, graph, risk, results, failed>>
  BY DEF Vulnerabilities, chain
<1>2. /\ Asking /\ items \in Seq(CveItems) /\ current \in pending /\ current \in Lookups
      /\ mode = "composed"
  BY <1>0, <1>1 DEF QueryInv, Asking, PlaceOK, ChainType
<1>3. PICK c \in CpeItems : Qualifies(c, current) /\ query = [path |-> "cve", of |-> c.cpe]
  BY <1>0, <1>1 DEF QueryInv
<1>4. query.of = c.cpe  BY <1>3
<1>5. /\ ChainType' /\ QueryInv' /\ PageInv' /\ truthful' = truthful
      /\ pending' = pending \ {current} /\ Lookups' = Lookups
      /\ Lookups' \ (pending' \cup failed') = (Lookups \ (pending \cup failed)) \cup {current}
  <2>1. results' \in [vi : Results, graph : Results, risk : Results]
    BY <1>0, <1>1 DEF ChainType
  <2> QED  BY <1>1, <1>2, <2>1, DropKeeps
<1>6. PlaceOK'  BY <1>0, <1>1, <1>2, <1>5 DEF PlaceOK
<1>7. MadeInv'  BY <1>0, <1>1 DEF MadeInv
<1>8. \A i \in accepted : items[i] \in CveItems /\ items[i].id # None
  <2>1. \A i \in DOMAIN items : items[i] \in CveItems  BY <1>2
  <2> QED  BY <2>1 DEF Accepted
<1>9. accepted \subseteq Nat
  <2>1. DOMAIN items = 1..Len(items) /\ Len(items) \in Nat  BY <1>2, LenProperties
  <2> QED  BY <2>1
<1>10. ExactInv'
  <2>1. CASE truthful
    <3>1. items = Records[query.of] /\ QualifyingTruth(current) = {query.of}
      BY <1>0, <1>1, <2>1 DEF PageInv, QueryInv, Truth
    <3>2. Cardinality(QualifyingTruth(current)) = 1  BY <3>1, FS_Singleton
    <3> DEFINE Rs == {s \in ToSet(Records[query.of]) : Accepted(s)}
               M(x) == {Link(t, r.id, x) : t \in ObservationsOf(current),
                                           r \in {s \in ToSet(Records[x]) : Accepted(s)}}
    <3>3. Owed(current) = UNION {M(x) : x \in {query.of}}  BY <3>1, <3>2 DEF Owed
    <3>4. Rs = {items[i] : i \in accepted}  BY <3>1 DEF ToSet
    <3>5. M(query.of) = {Link(t, r.id, query.of) : t \in ObservationsOf(current), r \in Rs}
      OBVIOUS
    <3> HIDE DEF M, Rs, accepted
    <3>6. Owed(current) = M(query.of)  BY <3>3
    <3>7. M(query.of) = L  BY <3>4, <3>5
    <3> HIDE DEF L
    <3>8. vi'.links = vi.links \cup L  BY <1>1
    <3> QED  BY <1>0, <1>1, <1>5, <2>1, <3>6, <3>7, <3>8, OwedGrows
  <2>2. CASE ~truthful  BY <1>5, <2>2 DEF ExactInv
  <2> QED  BY <2>1, <2>2
<1>11. ASSUME NEW l \in L
       PROVE  /\ Justified(l) /\ l.id # None /\ l.product \in Nat /\ l.confidence \in {60, 100}
              /\ \E i \in accepted : l.id = items[i].id
  <2>1. PICK t \in ObservationsOf(current), i \in accepted : l = Link(t, items[i].id, query.of)
    OBVIOUS
  <2>2. /\ l.technology = t /\ l.id = items[i].id /\ l.product = c.cpe
        /\ l.confidence = IF t.vendor # 0 THEN 100 ELSE 60
    BY <1>4, <2>1 DEF Link
  <2>3. Eligible(t) /\ current = Key(t)  BY DEF ObservationsOf
  <2>4. current[1] = t.vendor /\ current[2] = t.product /\ current[3] = t.version
    BY <2>3 DEF Key
  <2>5. /\ c.product = t.product /\ c.version = t.version
        /\ t.vendor \in {0, c.vendor} /\ (l.confidence = 100 => c.vendor = t.vendor)
    BY <1>3, <2>2, <2>4 DEF Qualifies
  <2>6. Justified(l)  BY <2>2, <2>3, <2>5 DEF Justified
  <2>7. l.product \in Nat  BY <2>2, VulnerabilityIntelligenceAssumption
  <2> QED  BY <1>8, <2>2, <2>6, <2>7
<1>12. \A i \in accepted : \E l \in L : l.id = items[i].id
  <2> TAKE i \in accepted
  <2>1. PICK t : t \in ObservationsOf(current)  BY <1>0, <1>2, LookupsAreListed DEF ChainType
  <2>2. Link(t, items[i].id, query.of) \in L  BY <2>1
  <2>3. Link(t, items[i].id, query.of).id = items[i].id  BY DEF Link
  <2> QED  BY <2>2, <2>3
<1>13. ASSUME NEW i \in accepted, items[i].id \notin known
       PROVE  \E j \in fresh : items[j].id = items[i].id
  <2> DEFINE A == {j \in accepted : items[j].id = items[i].id}
  <2>1. A \in SUBSET Nat /\ A # {}  BY <1>9
  <2> HIDE DEF A
  <2>2. PICK j \in A : \A h \in A : j <= h  BY <2>1, LeastNumber
  <2>3. j \in accepted /\ items[j].id = items[i].id  BY DEF A
  <2>4. ASSUME NEW h \in accepted, h < j PROVE items[h].id # items[j].id
    <3>1. h \in Nat /\ j \in Nat /\ ~(j <= h)  BY <1>9, <2>3, <2>4
    <3>2. h \notin A  BY <2>2, <3>1
    <3> QED  BY <2>3, <3>2 DEF A
  <2> QED  BY <1>13, <2>3, <2>4
<1>14. \A r : ToVulnerability(r).id = r.id  BY DEF ToVulnerability
<1>15. ASSUME NEW i \in accepted PROVE IsVulnerability(ToVulnerability(items[i]))
  <2> DEFINE r == items[i]
             v == ToVulnerability(r)
  <2>1. r.rank \in Nat  BY <1>8, VulnerabilityIntelligenceAssumption
  <2> HIDE DEF r
  <2>2. v = [id |-> v.id, severity |-> v.severity, score |-> v.score, rank |-> v.rank]
    BY DEF ToVulnerability
  <2>3. v.severity \in Severities  BY DEF ToVulnerability, Severities
  <2>4. v.rank \in Nat /\ v.score \in Nat \cup {None}  BY <2>1 DEF ToVulnerability
  <2> HIDE DEF v
  <2>5. IsVulnerability(v)  BY <2>2, <2>3, <2>4 DEF IsVulnerability
  <2> QED  BY <2>5 DEF v, r
<1>16. FoundInv'
  <2>1. vi'.vulnerabilities = vi.vulnerabilities \cup added /\ vi'.links = vi.links \cup L
    BY <1>1
  <2>2. \A j \in fresh : j \in accepted /\ items[j].id \notin known  OBVIOUS
  <2>3. \A i, j \in fresh : items[i].id = items[j].id => i = j
    <3> SUFFICES ASSUME NEW i \in fresh, NEW j \in fresh, items[i].id = items[j].id, i # j
                 PROVE  FALSE
      OBVIOUS
    <3>1. i \in accepted /\ j \in accepted  OBVIOUS
    <3>2. i < j \/ j < i  BY <1>9, <3>1
    <3> QED  BY <3>1, <3>2
  <2>4. \A v \in added : \E j \in fresh : v = ToVulnerability(items[j]) /\ v.id = items[j].id
    BY <1>14
  <2>5. \A j \in fresh : ToVulnerability(items[j]) \in added  OBVIOUS
  <2>6. \A v \in vi.vulnerabilities : v.id \in known  OBVIOUS
  <2>7. \A k \in known : \E v \in vi.vulnerabilities : v.id = k  OBVIOUS
  <2> HIDE DEF accepted, known, fresh, added, L
  <2>8. /\ \A l \in vi.links : Justified(l) /\ l.id # None /\ l.product \in Nat
                               /\ l.confidence \in {60, 100}
        /\ {l.id : l \in vi.links} = {v.id : v \in vi.vulnerabilities}
        /\ \A v, w \in vi.vulnerabilities : v.id = w.id => v = w
        /\ \A v \in vi.vulnerabilities : IsVulnerability(v)
    BY <1>0, <1>2 DEF FoundInv
  <2>9. \A l \in vi'.links : Justified(l) /\ l.id # None /\ l.product \in Nat
                             /\ l.confidence \in {60, 100}
    BY <1>11, <2>1, <2>8
  <2>10. ASSUME NEW l \in vi'.links PROVE \E v \in vi'.vulnerabilities : v.id = l.id
    <3>1. CASE l \in vi.links  BY <2>1, <2>8, <3>1
    <3>2. CASE l \in L
      <4>1. PICK i \in accepted : l.id = items[i].id  BY <1>11, <3>2
      <4>2. CASE items[i].id \in known  BY <2>1, <2>7, <4>1, <4>2
      <4>3. CASE items[i].id \notin known
        <5>1. PICK j \in fresh : items[j].id = items[i].id  BY <1>13, <4>3
        <5>2. ToVulnerability(items[j]) \in vi'.vulnerabilities  BY <2>1, <2>5
        <5> QED  BY <1>14, <4>1, <5>1, <5>2
      <4> QED  BY <4>2, <4>3
    <3> QED  BY <2>1, <3>1, <3>2
  <2>11. ASSUME NEW v \in vi'.vulnerabilities PROVE \E l \in vi'.links : l.id = v.id
    <3>1. CASE v \in vi.vulnerabilities
      <4>1. v.id \in {l.id : l \in vi.links}  BY <2>8, <3>1
      <4> QED  BY <2>1, <4>1
    <3>2. CASE v \in added
      <4>1. PICK j \in fresh : v.id = items[j].id  BY <2>4, <3>2
      <4>2. PICK l \in L : l.id = items[j].id  BY <1>12, <2>2
      <4> QED  BY <2>1, <4>1, <4>2
    <3> QED  BY <2>1, <3>1, <3>2
  <2>12. {l.id : l \in vi'.links} = {v.id : v \in vi'.vulnerabilities}  BY <2>10, <2>11
  <2>13. ASSUME NEW v \in vi'.vulnerabilities, NEW w \in vi'.vulnerabilities, v.id = w.id
         PROVE  v = w
    <3>1. CASE v \in vi.vulnerabilities /\ w \in vi.vulnerabilities  BY <2>8, <2>13, <3>1
    <3>2. CASE v \in vi.vulnerabilities /\ w \in added
      BY <2>2, <2>4, <2>6, <2>13, <3>2
    <3>3. CASE v \in added /\ w \in vi.vulnerabilities
      BY <2>2, <2>4, <2>6, <2>13, <3>3
    <3>4. CASE v \in added /\ w \in added
      BY <2>3, <2>4, <2>13, <3>4
    <3> QED  BY <2>1, <3>1, <3>2, <3>3, <3>4
  <2>14. ASSUME NEW v \in vi'.vulnerabilities PROVE IsVulnerability(v)
    <3>1. CASE v \in vi.vulnerabilities  BY <2>8, <3>1
    <3>2. CASE v \in added
      <4>1. PICK j \in fresh : v = ToVulnerability(items[j])  BY <2>4, <3>2
      <4> QED  BY <1>15, <2>2, <4>1
    <3> QED  BY <2>1, <3>1, <3>2
  <2> QED  BY <2>9, <2>12, <2>13, <2>14 DEF FoundInv
<1> QED  BY <1>5, <1>6, <1>7, <1>10, <1>16 DEF ChainInv

LEMMA NextChain == ChainInv /\ [ChainNext]_chainVars => ChainInv'
<1> SUFFICES ASSUME ChainInv, [ChainNext]_chainVars PROVE ChainInv'  OBVIOUS
<1>1. CASE Group            BY <1>1, GroupChain
<1>2. CASE Search           BY <1>2, SearchChain
<1>3. CASE Candidates       BY <1>3, CandidatesChain
<1>4. CASE Vulnerabilities  BY <1>4, VulnerabilitiesChain
<1>5. CASE LookupFails      BY <1>5, LookupFailsChain
<1>6. CASE LookupBreaks     BY <1>6, LookupBreaksChain
<1>7. CASE Publish          BY <1>7, PublishChain
<1>8. CASE KnowledgeGraph   BY <1>8, KnowledgeGraphChain
<1>9. CASE Risk             BY <1>9, RiskChain
<1>10. CASE Seed            BY <1>10, SeedChain
<1>11. CASE Network         BY <1>11, NetworkChain
<1>12. CASE UNCHANGED chainVars
  <2>1. /\ UNCHANGED <<truthful, query, start, page, attempt, items, reply>>
        /\ UNCHANGED <<mode, stage, ai, vi, graph, risk, results, pending, failed, current>>
        /\ UNCHANGED nvdVars
    BY <1>12 DEF chainVars, nvdVars
  <2>2. ChainType' /\ QueryInv' /\ PageInv'
    <3>1. ChainType'  BY <2>1 DEF ChainInv, ChainType, Lookups
    <3>2. ~Asking \/ current \in pending'  BY <2>1 DEF ChainInv, QueryInv
    <3> QED  BY <2>1, <3>1, <3>2, SearchIdle
  <2>3. PlaceOK' /\ MadeInv' /\ FoundInv' /\ ExactInv'
    BY <2>1, RestStays DEF ChainInv
  <2> QED  BY <2>2, <2>3 DEF ChainInv
<1> QED  BY <1>1, <1>2, <1>3, <1>4, <1>5, <1>6, <1>7, <1>8, <1>9, <1>10, <1>11, <1>12
         DEF ChainNext, Advance

\* What a run of the chain keeps: which search is in progress and what it has
\* received, which lookups are done and what they found, and what the graph and
\* the assessments were made of.
THEOREM ChainInvariant == ChainSpec => []ChainInv
<1>1. ChainInit => ChainInv  BY InitChain
<1>2. ChainInv /\ [ChainNext]_chainVars => ChainInv'  BY NextChain
<1> QED  BY <1>1, <1>2, PTL DEF ChainSpec

-----------------------------------------------------------------------------
(* What follows from it *)

\* The types of the chain's state, the place of the thread included.
THEOREM IntelligenceTypes == ChainSpec => []IntelligenceTypeOK
<1>1. ChainInv => IntelligenceTypeOK
  <2> SUFFICES ASSUME ChainInv PROVE IntelligenceTypeOK  OBVIOUS
  <2>1. ChainType /\ QueryInv /\ PlaceOK  BY DEF ChainInv
  <2>2. NvdTypeOK  BY <2>1 DEF ChainType, NvdTypeOK
  <2>3. stage \in {"given", "vulnerability_intelligence", "lookups", "graph", "risk", "stopped",
                   "done"}
    BY <2>1 DEF PlaceOK
  <2>4. current \in Lookups \cup {NoKey}  BY <2>1 DEF ChainType, QueryInv, Asking
  <2>5. \A s \in {results.vi, results.graph, results.risk} : s \in Results
    BY <2>1 DEF ChainType
  <2> QED  BY <2>1, <2>2, <2>3, <2>4, <2>5 DEF IntelligenceTypeOK, ChainType, Results
<1> QED  BY <1>1, ChainInvariant, PTL

\* With a truthful service the published links are exactly those the finished
\* lookups owe (_get_paginated_items, _request_json, execute).
THEOREM LinksAreExact == ChainSpec => []LookupsAreExact
<1>1. ChainInv => LookupsAreExact
  <2> SUFFICES ASSUME ChainInv, truthful, results.vi \in {"SUCCESS", "PARTIAL"}
               PROVE  /\ vi.links = UNION {Owed(k) : k \in Lookups \ failed}
                      /\ results.vi = "SUCCESS" <=> failed = {}
                      /\ Lookups # {} => failed # Lookups
    BY DEF LookupsAreExact, Owed
  <2>1. PlaceOK /\ ExactInv  BY DEF ChainInv
  <2>2. /\ stage \in {"graph", "risk", "done"} /\ pending = {}
        /\ results.vi = IF failed = {} THEN "SUCCESS" ELSE "PARTIAL"
        /\ failed # {} => failed # Lookups
    BY <2>1 DEF PlaceOK
  <2>3. Lookups \ (pending \cup failed) = Lookups \ failed  BY <2>2
  <2> QED  BY <2>1, <2>2, <2>3 DEF ExactInv
<1> QED  BY <1>1, ChainInvariant, PTL

\* Whatever the service answers, a link rests on an exact match, and its
\* vulnerability is there, once (_qualifying_candidates, execute).
THEOREM LinksAreJustified == ChainSpec => []MatchIsJustified
<1>1. ChainInv => MatchIsJustified
  BY DEF ChainInv, FoundInv, Justified, MatchIsJustified
<1> QED  BY <1>1, ChainInvariant, PTL

\* What the vulnerability intelligence behind a built graph is made of.
LEMMA IntelligenceFits ==
  ASSUME ChainInv, stage \in {"risk", "done"}, mode \in {"composed", "intelligence"}
  PROVE  /\ \A v \in vi.vulnerabilities : IsVulnerability(v)
         /\ \A l \in vi.links : IsMatch(l)
<1>1. CASE mode = "composed"
  <2>1. FoundInv  BY DEF ChainInv
  <2>2. ASSUME NEW l \in vi.links PROVE IsMatch(l)
    <3>1. l.product \in Nat /\ l.confidence \in {60, 100}  BY <1>1, <2>1 DEF FoundInv
    <3> QED  BY <3>1 DEF IsMatch
  <2> QED  BY <1>1, <2>1, <2>2 DEF FoundInv
<1>2. CASE mode = "intelligence"
  <2>1. vi \in OddIntelligence  BY <1>2 DEF ChainInv, PlaceOK
  <2> QED  BY <2>1, VulnerabilityIntelligenceAssumption
<1> QED  BY <1>1, <1>2

\* After vulnerability intelligence no relationship has an unknown end.
LEMMA NothingSkipped ==
  ASSUME ChainInv, mode = "composed", \A o \in ai.observed : o.asset \in ai.assets \ {None},
         stage \in {"risk", "done"}
  PROVE  graph.skipped = 0 /\ (stage = "done" => risk.skipped = 0)
<1>1. MadeInv /\ FoundInv  BY DEF ChainInv
<1>2. graph = BuildGraph(ai, vi)  BY <1>1 DEF MadeInv
<1>3. \A l \in vi.links : /\ l.id # None /\ l.product # None
                          /\ \E v \in vi.vulnerabilities : v.id = l.id
  <2> TAKE l \in vi.links
  <2>1. l.id # None /\ l.product \in Nat  BY <1>1 DEF FoundInv
  <2>2. l.id \in {v.id : v \in vi.vulnerabilities}  BY <1>1 DEF FoundInv
  <2>3. l.product # None  BY <2>1 DEF None
  <2> QED  BY <2>1, <2>2, <2>3
<1>4. graph.skipped = 0  BY <1>2, <1>3, BuiltIsWhole
<1>5. ASSUME stage = "done" PROVE risk.skipped = 0
  <2>1. risk = AssessRisk(graph)  BY <1>1, <1>5 DEF MadeInv
  <2>2. \A e \in graph.edges : ValidEdge(graph, e)  BY <1>2, BuiltEdgesAreValid
  <2> QED  BY <2>1, <2>2, ValidAreAssessed
<1> QED  BY <1>4, <1>5

\* The graph says what was published and no more, and the assessments are the
\* joins of its edges, each with scores its constructor accepts, made of the
\* most confident match (KnowledgeGraphCapability, RiskIntelligenceCapability).
THEOREM RisksAreJoins == ChainSpec => []RisksAreThePaths
<1>1. ChainInv => RisksAreThePaths
  <2> SUFFICES ASSUME ChainInv PROVE RisksAreThePaths  OBVIOUS
  <2>1. MadeInv  BY DEF ChainInv
  <2>2. ASSUME results.graph # "NONE" PROVE \A e \in graph.edges : ValidEdge(graph, e)
    <3>1. graph = BuildGraph(ai, vi)  BY <2>1, <2>2 DEF MadeInv, ChainInv, ChainType
    <3> QED  BY <3>1, BuiltEdgesAreValid
  <2>3. ASSUME mode = "composed", \A o \in ai.observed : o.asset \in ai.assets \ {None}
        PROVE  results.graph # "PARTIAL" /\ results.risk # "PARTIAL"
    <3>1. results.graph # "PARTIAL"
      <4>1. CASE stage \in {"risk", "done"}
        <5>1. graph.skipped = 0  BY <2>3, <4>1, NothingSkipped
        <5>2. ~(graph.skipped > 0)  BY <5>1
        <5> QED  BY <2>1, <2>3, <4>1, <5>2 DEF MadeInv
      <4>2. CASE stage \notin {"risk", "done"}  BY <2>1, <4>2 DEF MadeInv
      <4> QED  BY <4>1, <4>2
    <3>2. results.risk # "PARTIAL"
      <4>1. CASE stage = "done"
        <5>1. risk.skipped = 0  BY <2>3, <4>1, NothingSkipped
        <5>2. ~(risk.skipped > 0)  BY <5>1
        <5> QED  BY <2>1, <2>3, <4>1, <5>2 DEF MadeInv
      <4>2. CASE stage # "done"  BY <2>1, <4>2 DEF MadeInv
      <4> QED  BY <4>1, <4>2
    <3> QED  BY <3>1, <3>2
  <2>4. ASSUME stage = "done", mode = "nothing" PROVE risk.assessments = {}
    BY <2>1, <2>4 DEF MadeInv, NoRisk
  <2>5. ASSUME stage = "done", mode # "nothing"
        PROVE  risk = AssessRisk(graph) /\ IsGraph(graph)
               /\ (mode \in {"composed", "intelligence"} => graph = BuildGraph(ai, vi))
    <3>1. risk = AssessRisk(graph)  BY <2>1, <2>5 DEF MadeInv
    <3>2. CASE mode \in {"composed", "intelligence"}
      <4>1. graph = BuildGraph(ai, vi)  BY <2>1, <2>5, <3>2 DEF MadeInv
      <4>2. IsGraph(graph)  BY <2>5, <3>2, <4>1, IntelligenceFits, BuiltIsGraph
      <4> QED  BY <3>1, <4>1, <4>2
    <3>3. CASE mode = "graph"
      <4>1. graph \in OddGraphs  BY <2>1, <2>5, <3>3 DEF MadeInv
      <4>2. IsGraph(graph)  BY <4>1, VulnerabilityIntelligenceAssumption DEF IsGraph
      <4> QED  BY <3>1, <3>3, <4>2
    <3> QED  BY <2>5, <3>2, <3>3 DEF ChainInv, ChainType
  <2>6. ASSUME stage = "done", mode \in {"composed", "intelligence"}
        PROVE  {<<a.asset[2], a.technology[2], a.vulnerability[2]>> : a \in risk.assessments} =
               {p \in Paths : /\ p[1] \in ai.assets \ {None} /\ p[3] # None
                              /\ \E v \in vi.vulnerabilities : v.id = p[3]
                              /\ \E o \in ai.observed : o.asset = p[1] /\ o.technology = p[2]
                              /\ \E l \in vi.links : /\ l.technology = p[2] /\ l.id = p[3]
                                                     /\ l.product # None}
    <3>1. risk = AssessRisk(BuildGraph(ai, vi))  BY <2>5, <2>6
    <3>2. {<<a.asset[2], a.technology[2], a.vulnerability[2]>> :
             a \in AssessRisk(BuildGraph(ai, vi)).assessments} = Joins(ai, vi)
      BY AssessmentsAreJoins, Zenon
    <3> QED  BY <3>1, <3>2 DEF Joins, Paths
  <2>7. ASSUME stage = "done", NEW a \in risk.assessments, NEW b \in risk.assessments,
               <<a.asset, a.technology, a.vulnerability>> = <<b.asset, b.technology, b.vulnerability>>
        PROVE  a = b
    <3>1. a \in AssessRisk(graph).assessments /\ b \in AssessRisk(graph).assessments
      BY <2>4, <2>5, <2>7
    <3> QED  BY <2>7, <3>1, AssessmentsDiffer
  <2>8. ASSUME stage = "done", NEW a \in risk.assessments
        PROVE  /\ {a.priority, a.confidence, a.completeness} \subseteq 0..100
               /\ LET v == Entity(graph, a.vulnerability) IN ~ValidScore(v) => a.level = v.severity
               /\ \A e \in graph.edges :
                    /\ e.kind = "matches" /\ e.confidence # None
                    /\ e.source = a.technology /\ e.target = a.vulnerability
                    => a.confidence >= ConfidenceScore(e.confidence,
                                                       Entity(graph, a.technology).confidence)
    <3>1. a \in AssessRisk(graph).assessments /\ IsGraph(graph)  BY <2>4, <2>5, <2>8
    <3> QED  BY <3>1, AssessmentsFit
  <2> QED  BY <2>2, <2>3, <2>6, <2>7, <2>8, Zenon DEF RisksAreThePaths
<1> QED  BY <1>1, ChainInvariant, PTL
=============================================================================
