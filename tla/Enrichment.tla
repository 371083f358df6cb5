----------------------------- MODULE Enrichment -----------------------------
(***************************************************************************)
(* VulnerabilityEnrichmentCapability over its service, the three providers  *)
(* (CVSS from NVD, EPSS from FIRST, the KEV catalog of CISA) and the HTTPS  *)
(* sources behind them. A provider may also be absent, or be one that the   *)
(* host supplies. A service may answer truthfully or send anything, and     *)
(* each request may fail in every way the transport tells apart.            *)
(*                                                                          *)
(* An outcome is [cve, status, data], data being the set of assessments     *)
(* (at most one for EPSS and KEV). Scores are in tenths.                    *)
(***************************************************************************)
EXTENDS Naturals, Sequences, FiniteSets, SequencesExt

CONSTANTS
  Cve,           \* CVE identifiers
  Overlong,      \* those a reference may hold and CveId refuses
  Collections,   \* CANONICAL_FINDINGS tried: sets of [id, cves]
  Holdings,      \* what the truthful services know: [cvss, epss, kev]
  OddBodies,     \* what the other ones may send to each provider
  CustomAnswers, \* sequences of outcomes of a host's provider
  MaxCves,       \* max_cves_per_call
  MaxUrlCves,    \* how many CVEs fit into the URL of one EPSS request
  MaxRecords,    \* max_records
  MaxAssessments \* _MAX_CVSS_ASSESSMENTS

Providers == {"cvss", "epss", "kev"}
NoCve == "none"   \* an identifier that is missing or no CVE

Statuses == {"AVAILABLE", "NOT_FOUND", "NOT_APPLICABLE", "UNAVAILABLE", "PARTIAL", "ERROR"}

\* The checks of the outcomes' __post_init__.
OutcomeIsValid(o) ==
  /\ o.status \in Statuses
  /\ o.status = "AVAILABLE" => o.data # {}
  /\ o.status \notin {"AVAILABLE", "PARTIAL"} => o.data = {}

ASSUME EnrichmentAssumption ==
  /\ Overlong \subseteq Cve /\ NoCve \notin Cve
  /\ \A fs \in Collections : \A f \in fs : f.cves \subseteq Cve
  /\ \A fs \in Collections : \A f, g \in fs : f.id = g.id => f = g
  /\ \A fs \in Collections : \A f \in fs : IsFiniteSet(f.cves)
  /\ \A p \in Providers : \A b \in OddBodies[p] :
       b.form \in {"list", "junk"} /\ b.records \in Seq(ToSet(b.records))
  /\ \A r \in Holdings.kev : r.cve \in Cve \ Overlong
  /\ \A a \in CustomAnswers : \A i \in DOMAIN a : OutcomeIsValid(a[i])

VARIABLES
  findings,    \* the collection under CANONICAL_FINDINGS
  present,     \* whether the Context holds one
  composition, \* per provider: "production", "custom" or "absent"
  honest,      \* whether the services answer truthfully
  phase,       \* "start", "calling", "asking", "aggregate", "done"
  turn,        \* the provider whose turn it is
  asks,        \* the questions its source has not asked yet, sets of CVEs
  events,      \* per provider: how its requests went
  records,     \* per provider: the raw records received
  outcome,     \* per provider: the outcome for each CVE
  enriched,    \* state key enriched_vulnerabilities
  status       \* of the capability

vars == <<findings, present, composition, honest, phase, turn, asks, events, records,
          outcome, enriched, status>>
setting == <<findings, present, composition, honest>>

Init ==
  /\ findings \in Collections /\ present \in BOOLEAN
  /\ composition \in [Providers -> {"production", "custom", "absent"}]
  /\ honest \in BOOLEAN
  /\ phase = "start" /\ turn = "cvss" /\ asks = {}
  /\ events = [p \in Providers |-> {}] /\ records = [p \in Providers |-> <<>>]
  /\ outcome = [p \in Providers |-> <<>>]
  /\ enriched = {} /\ status = "NONE"

\* enrichment_cve: the sole CVE among the references of a finding.
Anchors(f) == IF Cardinality(f.cves) = 1 THEN f.cves ELSE {}

\* eligible_cves
Requested == UNION {Anchors(f) : f \in findings}

-----------------------------------------------------------------------------
(* VulnerabilityEnrichmentService *)

\* execute and enrich, up to the first provider.
Start ==
  /\ phase = "start"
  /\ IF ~present \/ Requested \cap Overlong # {}
     THEN phase' = "done" /\ status' = "ERROR"
     ELSE /\ phase' = IF Requested = {} THEN "aggregate" ELSE "calling"
          /\ UNCHANGED status
  /\ UNCHANGED <<setting, turn, asks, events, records, outcome, enriched>>

\* The same outcome without data for every CVE of the call.
ForAll(st) == [c \in Requested |-> [cve |-> c, status |-> st, data |-> {}]]

\* Mutant: the exception of one provider ends the whole enrichment.
SettleOrRaise(f) ==
  /\ outcome' = [outcome EXCEPT ![turn] = f]
  /\ asks' = {}
  /\ IF f = ForAll("ERROR") THEN phase' = "done" /\ status' = "ERROR" /\ UNCHANGED turn
     ELSE /\ phase' = IF turn = "kev" THEN "aggregate" ELSE "calling"
          /\ turn' = IF turn = "cvss" THEN "epss" ELSE "kev"
          /\ UNCHANGED status
  /\ UNCHANGED <<setting, enriched>>

\* _safe_cvss, _safe_epss and _safe_kev return, one after the other.
Settle(f) ==
  /\ outcome' = [outcome EXCEPT ![turn] = f]
  /\ asks' = {}
  /\ phase' = IF turn = "kev" THEN "aggregate" ELSE "calling"
  /\ turn' = IF turn = "cvss" THEN "epss" ELSE "kev"
  /\ UNCHANGED <<setting, status, enriched>>

\* _UnavailableCvssProvider and its like.
CallAbsent ==
  /\ phase = "calling" /\ composition[turn] = "absent"
  /\ Settle(ForAll("UNAVAILABLE"))
  /\ UNCHANGED <<events, records>>

\* _exact_outcomes: one outcome for each CVE asked for and no other, or ERROR
\* for all of them.
Exact(answer) ==
  /\ \A i, j \in DOMAIN answer : answer[i].cve = answer[j].cve => i = j
  /\ {o.cve : o \in ToSet(answer)} = Requested

ExactOutcomes(answer) ==
  IF Exact(answer) THEN [c \in Requested |-> CHOOSE o \in ToSet(answer) : o.cve = c]
                   ELSE ForAll("ERROR")

\* A provider of the host returns, or raises.
CallCustom ==
  /\ phase = "calling" /\ composition[turn] = "custom"
  /\ \/ \E a \in CustomAnswers : Settle(ExactOutcomes(a))
     \/ Settle(ForAll("ERROR"))
  /\ UNCHANGED <<events, records>>

-----------------------------------------------------------------------------
(* The HTTPS sources *)

\* NvdCvssHttpSource asks for one CVE at a time, FirstEpssHttpSource for all,
\* CisaKevHttpSource reads the catalog.
Questions(p) == IF p = "cvss" THEN {{c} : c \in Requested} ELSE {Requested}

\* _requested of a source, and the limit on the URL of a request.
Fits(p) ==
  /\ Cardinality(Requested) <= MaxCves
  /\ p = "epss" => Cardinality(Requested) <= MaxUrlCves

CallProduction ==
  /\ phase = "calling" /\ composition[turn] = "production"
  /\ IF Fits(turn)
     THEN /\ phase' = "asking" /\ asks' = Questions(turn)
          /\ UNCHANGED <<setting, turn, outcome, enriched, status>>
     ELSE Settle(ForAll("ERROR"))
  /\ UNCHANGED <<events, records>>

\* LocalHttpsDataTransport.get and _response. A redirect is a refusal; 404 is
\* an empty answer of NVD and a refusal of the others.
Transient == {"timeout", "unreachable", "busy"}            \* 408, 425, 429 and 5xx are busy
Broken    == {"oversized", "exception", "refused"}
NotFoundIsEmpty(p) == p = "cvss"

\* Mutant: a source that was busy is asked again from the beginning.
FailAgain(e) ==
  /\ phase = "asking" /\ asks # {}
  /\ events' = [events EXCEPT ![turn] = @ \cup {e}]
  /\ IF e \in Transient
     THEN /\ asks' = Questions(turn) /\ records' = [records EXCEPT ![turn] = <<>>]
          /\ UNCHANGED <<setting, phase, turn, outcome, enriched, status>>
     ELSE Settle(ForAll("ERROR")) /\ UNCHANGED records

\* A request fails: the whole source is unavailable, or the provider raises.
Fail(e) ==
  /\ phase = "asking" /\ asks # {}
  /\ events' = [events EXCEPT ![turn] = @ \cup {e}]
  /\ Settle(ForAll(IF e \in Transient THEN "UNAVAILABLE" ELSE "ERROR"))
  /\ UNCHANGED records

\* What the truthful services know. NVD has one record for a CVE.
TrueBody(p, q) ==
  [form |-> "list",
   records |-> SetToSeq(CASE p = "cvss" -> {r \in Holdings.cvss : r.cve \in q}
                          [] p = "epss" -> {r \in Holdings.epss : r.cve \in q}
                          [] OTHER      -> Holdings.kev)]

Bodies(p, q) == IF honest THEN {TrueBody(p, q)} ELSE OddBodies[p]

\* Mutant: only the records of the last answer are kept.
KeepLast(old, body) == body.records

\* NvdCvssHttpSource.read collects the records of all its answers.
Keep(old, body) == old \o body.records

\* 200 and a body. What is no JSON object with a list, or has too many
\* records, makes the provider raise.
Answer ==
  /\ phase = "asking"
  /\ \E q \in asks : \E b \in Bodies(turn, q) :
       LET all == Keep(records[turn], b)
           form == IF Len(all) > MaxRecords THEN "too_many" ELSE b.form
       IN /\ events' = [events EXCEPT ![turn] = @ \cup {form}]
          /\ IF form # "list"
             THEN Settle(ForAll("ERROR")) /\ UNCHANGED records
             ELSE /\ records' = [records EXCEPT ![turn] = all]
                  /\ asks' = asks \ {q}
                  /\ UNCHANGED <<setting, phase, turn, outcome, enriched, status>>

\* NVD answers 404.
AnswerNotFound ==
  /\ phase = "asking" /\ NotFoundIsEmpty(turn)
  /\ \E q \in asks :
       /\ honest => TrueBody(turn, q).records = <<>>
       /\ asks' = asks \ {q}
  /\ UNCHANGED <<setting, phase, turn, events, records, outcome, enriched, status>>

\* The records of several answers do not fit into one document, or hold a
\* number that JSON has not (_encoded).
EncodingFails ==
  /\ phase = "asking" /\ asks = {} /\ turn = "cvss"
  /\ events' = [events EXCEPT ![turn] = @ \cup {"encoding"}]
  /\ Settle(ForAll("ERROR"))
  /\ UNCHANGED records

-----------------------------------------------------------------------------
(* The providers: raw records to outcomes *)

\* _severity_for_score
Band(score) ==
  CASE score = 0       -> "none"
    [] score \in 1..39  -> "low"
    [] score \in 40..69 -> "medium"
    [] score \in 70..89 -> "high"
    [] OTHER           -> "critical"

\* _parse_cvss_entry and CvssAssessment.__post_init__. key is the list that
\* holds the entry.
GoodEntry(e) ==
  e.version = e.key /\ e.score \in 0..100 /\ e.severity = Band(e.score) /\ e.vector

\* v3: the record has a list for CVSS 3.1 or 3.0; without one it is passed over.
BadCvss(r) ==
  \/ r.cve \notin Requested
  \/ r.v3 /\ (r.entries = {} \/ \E e \in r.entries : ~GoodEntry(e))

CvssData(c, rs) == UNION {{e \in r.entries : r.v3 /\ GoodEntry(e)} : r \in {s \in rs : s.cve = c}}

\* What makes a service truthful: it knows finitely many things, reports them in
\* the documented form, and FIRST has one value for a CVE.
ASSUME TruthAssumption ==
  /\ IsFiniteSet(Holdings.cvss) /\ IsFiniteSet(Holdings.epss) /\ IsFiniteSet(Holdings.kev)
  /\ \A r \in Holdings.cvss :
       r.v3 => r.entries # {} /\ \A e \in r.entries : GoodEntry(e)
  /\ \A r \in Holdings.epss : r.probability \in 0..10 /\ r.percentile \in 0..10
  /\ \A r, s \in Holdings.epss : r.cve = s.cve => r = s

Outcome(c, st, data) == [cve |-> c, status |-> st, data |-> data]

\* One bad record makes every outcome partial.
NvdCvss(rs) ==
  LET bad == \E r \in rs : BadCvss(r)
  IN IF \E c \in Requested : Cardinality(CvssData(c, rs)) > MaxAssessments
     THEN ForAll("ERROR")
     ELSE [c \in Requested |->
             Outcome(c, IF bad THEN "PARTIAL"
                        ELSE IF CvssData(c, rs) # {} THEN "AVAILABLE" ELSE "NOT_FOUND",
                     CvssData(c, rs))]

\* _ratio of both values, in tenths.
BadEpss(r) ==
  r.cve \notin Requested \/ r.probability \notin 0..10 \/ r.percentile \notin 0..10

EpssData(c, rs) ==
  {<<r.probability, r.percentile>> : r \in {s \in rs : s.cve = c /\ ~BadEpss(s)}}

\* Mutant: of two values for one CVE the first is reported.
FirstEpssOfTwo(rs) ==
  LET bad == \E r \in rs : BadEpss(r)
  IN [c \in Requested |->
        IF EpssData(c, rs) = {} THEN Outcome(c, IF bad THEN "PARTIAL" ELSE "NOT_FOUND", {})
        ELSE Outcome(c, IF bad THEN "PARTIAL" ELSE "AVAILABLE",
                     {CHOOSE d \in EpssData(c, rs) : TRUE})]

\* Two values for one CVE leave it without any.
FirstEpss(rs) ==
  LET bad == \E r \in rs : BadEpss(r)
  IN [c \in Requested |->
        CASE Cardinality(EpssData(c, rs)) = 1 ->
               Outcome(c, IF bad THEN "PARTIAL" ELSE "AVAILABLE", EpssData(c, rs))
          [] Cardinality(EpssData(c, rs)) > 1 -> Outcome(c, "PARTIAL", {})
          [] OTHER -> Outcome(c, IF bad THEN "PARTIAL" ELSE "NOT_FOUND", {})]

\* The catalog holds other CVEs too; what is no CveId is malformed.
CisaKev(rs) ==
  LET bad == \E r \in rs : r.cve \in Overlong \cup {NoCve}
  IN [c \in Requested |->
        IF \E r \in rs : r.cve = c
        THEN Outcome(c, IF bad THEN "PARTIAL" ELSE "AVAILABLE", {TRUE})
        ELSE Outcome(c, IF bad THEN "PARTIAL" ELSE "NOT_FOUND", {})]

\* get_cvss, get_epss and get_kev, after the document is read.
Normalize ==
  /\ phase = "asking" /\ asks = {}
  /\ LET rs == ToSet(records[turn])
     IN Settle(CASE turn = "cvss" -> NvdCvss(rs)
                 [] turn = "epss" -> FirstEpss(rs)
                 [] OTHER         -> CisaKev(rs))
  /\ UNCHANGED <<events, records>>

-----------------------------------------------------------------------------
(* VulnerabilityEnrichmentAggregator and the capability's result *)

\* _completeness
Completeness(c) ==
  IF \A p \in Providers : outcome[p][c].status = "AVAILABLE" /\ outcome[p][c].data # {}
  THEN "COMPLETE"
  ELSE IF \E p \in Providers : outcome[p][c].data # {} THEN "PARTIAL" ELSE "NONE"

Enriched(f) ==
  [finding |-> f, cve |-> Anchors(f),
   outcomes |-> {<<p, outcome[p][c]>> : p \in Providers, c \in Anchors(f)},
   completeness |-> IF Anchors(f) = {} THEN "NOT_APPLICABLE"
                    ELSE Completeness(CHOOSE c \in Anchors(f) : TRUE)]

\* VulnerabilityEnrichmentCapability._status
StatusOf(es) ==
  LET eligible == {e.completeness : e \in es} \ {"NOT_APPLICABLE"}
  IN CASE eligible \subseteq {"COMPLETE"}                    -> "SUCCESS"
       [] eligible = {"NONE"}                               -> "FAILURE"
       [] OTHER                                             -> "PARTIAL"

Aggregate ==
  /\ phase = "aggregate"
  /\ LET es == {Enriched(f) : f \in findings}
     IN /\ status' = StatusOf(es)
        /\ enriched' = IF status' = "FAILURE" THEN {} ELSE es
  /\ phase' = "done"
  /\ UNCHANGED <<setting, turn, asks, events, records, outcome>>

Next ==
  \/ Start \/ CallAbsent \/ CallCustom \/ CallProduction
  \/ \E e \in Transient \cup Broken : Fail(e)
  \/ Answer \/ AnswerNotFound \/ EncodingFails \/ Normalize \/ Aggregate

\* The thread runs, and every request returns or raises within its timeout.
Spec == Init /\ [][Next]_vars /\ WF_vars(Next)

-----------------------------------------------------------------------------
(* Properties *)

\* Whether provider p has been called and has returned.
Settled(p) == outcome[p] # <<>>

\* What service p knows about CVE c.
Known(p, c) ==
  CASE p = "cvss" -> CvssData(c, Holdings.cvss)
    [] p = "epss" -> EpssData(c, Holdings.epss)
    [] OTHER      -> {TRUE : r \in {s \in Holdings.kev : s.cve = c}}

\* A production provider of truthful services, none of whose requests went
\* wrong, reports for each CVE exactly what its service knows, however many
\* requests that took (NvdCvssHttpSource.read, get_cvss, get_epss, get_kev), and
\* fails for all only if one of them has too many assessments. A request that
\* went wrong, at any place in the sequence, leaves no data at all: UNAVAILABLE
\* if the source may answer later, ERROR otherwise.
OutcomesAreExact ==
  \A p \in {q \in Providers : composition[q] = "production" /\ Settled(q)} :
    /\ honest /\ Fits(p) /\ events[p] \subseteq {"list"} =>
         IF p = "cvss" /\ \E c \in Requested : Cardinality(Known(p, c)) > MaxAssessments
         THEN outcome[p] = ForAll("ERROR")
         ELSE \A c \in Requested :
                outcome[p][c] = Outcome(c, IF Known(p, c) = {} THEN "NOT_FOUND"
                                           ELSE "AVAILABLE", Known(p, c))
    /\ events[p] \cap Transient # {} => outcome[p] = ForAll("UNAVAILABLE")
    /\ events[p] \cap (Broken \cup {"junk", "too_many", "encoding"}) # {} =>
         outcome[p] = ForAll("ERROR")
    /\ outcome[p] = ForAll("UNAVAILABLE") => events[p] \cap Transient # {}

\* The records about CVE c that provider p has received.
Received(p, c) == {r \in ToSet(records[p]) : r.cve = c}

\* A finding carries only data that some record for its own CVE supports, from
\* the provider it is filed under, whatever the services mix into an answer. A
\* contradicted EPSS value is carried by none, and a provider that is absent or
\* could not be reached contributes nothing (get_cvss, get_epss, get_kev,
\* _exact_outcomes, enrichment_cve).
DataIsItsOwn ==
  \A e \in enriched : \A po \in e.outcomes :
    LET p == po[1]
        o == po[2]
    IN /\ e.cve = {o.cve} /\ e.finding.cves = {o.cve}
       /\ composition[p] = "production" =>
            CASE p = "cvss" -> \A d \in o.data : \E r \in Received(p, o.cve) : d \in r.entries
              [] p = "epss" -> \A d \in o.data : \A r \in Received(p, o.cve) :
                                 BadEpss(r) \/ d = <<r.probability, r.percentile>>
              [] OTHER      -> o.data # {} => Received(p, o.cve) # {}
       /\ composition[p] = "custom" /\ o.data # {} =>
            \E a \in CustomAnswers : Exact(a) /\ o \in ToSet(a)
       /\ composition[p] = "absent" \/ events[p] \cap (Transient \cup Broken) # {} => o.data = {}

\* One provider that fails, answers for the wrong CVEs or is missing takes
\* neither another provider's data nor a finding away: the capability fails only
\* when no provider has data for any CVE, raises only without a usable
\* collection, and otherwise publishes every finding, with SUCCESS only when
\* every eligible one has data from all three (enrich, _safe_cvss and its like,
\* _completeness, _status).
FailureIsIsolated ==
  phase = "done" =>
    LET usable == present /\ Requested \cap Overlong = {}
        data   == {p \in Providers : \E c \in Requested : outcome[p][c].data # {}}
    IN /\ status = "ERROR" <=> ~usable
       /\ usable =>
            /\ status = "FAILURE" <=> Requested # {} /\ data = {}
            /\ status = "SUCCESS" <=>
                 \A p \in Providers, c \in Requested : outcome[p][c].status = "AVAILABLE"
            /\ status # "FAILURE" =>
                 /\ {e.finding : e \in enriched} = findings
                 /\ \A e \in enriched : \A c \in Anchors(e.finding) : \A p \in Providers :
                      <<p, outcome[p][c]>> \in e.outcomes

\* The capability returns: no source is asked again, so no service that keeps
\* failing can hold the scan.
EnrichmentEnds == <>(phase = "done")
=============================================================================
