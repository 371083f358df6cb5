---------------------------- MODULE ReconProofs ----------------------------
(***************************************************************************)
(* The reconnaissance capabilities for any names, addresses, exact targets *)
(* and answers of the tools. What ties the properties together is that the *)
(* published hosts have the names that were discovered, one host a name,   *)
(* with addresses (AreHosts), that nothing is found before they are there  *)
(* (OrderInv), and what the loop of host_resolution has counted (LoopInv). *)
(***************************************************************************)
EXTENDS Recon, FiniteSetTheorems, WellFoundedInduction, TLAPS

-----------------------------------------------------------------------------
(* The inductive invariant *)

Subdomains    == ctx["subdomains"].items
Hosts         == ctx["hosts"].items
AliveHosts    == ctx["alive_hosts"].items
HttpEndpoints == ctx["http_endpoints"].items

ReconType ==
  /\ ReconTypeOK
  /\ DOMAIN ctx = Keys
  /\ exact # Broad => ~custom
  /\ IsFiniteSet(Subdomains) /\ IsFiniteSet(HttpEndpoints)

\* host_resolution runs after subdomain_discovery, and nothing runs before its
\* hosts are there.
OrderInv ==
  /\ \A c \in Capabilities \ {"host_resolution"} : status[c] # "RUNNING"
  /\ status["host_resolution"] # "NONE" /\ "subdomain_discovery" \in pipeline =>
       status["subdomain_discovery"] # "NONE"
  /\ status["host_resolution"] \in {"NONE", "RUNNING"} => ctx["hosts"] = Absent
  /\ status["host_resolution"] = "NONE" => garbled = {}
  /\ Hosts = {} => AliveHosts = {} /\ HttpEndpoints = {}

\* What host_resolution makes of the names ns: one host for a name, with
\* addresses.
AreHosts(hs, ns) ==
  /\ \A h \in hs : h.name \in ns \cap Names /\ h.addrs \subseteq Addresses /\ h.addrs # {}
  /\ \A g, h \in hs : g.name = h.name => g = h
  /\ exact # Broad => hs \subseteq {[name |-> exact.host, addrs |-> {exact.ip}]}

NamesOf(hs) == {h.name : h \in hs}

\* The loop of host_resolution counts an error for every name that it leaves
\* without a host or for which an answer was malformed.
LoopInv ==
  status["host_resolution"] = "RUNNING" =>
    /\ Subdomains # {} /\ todo \subseteq Subdomains \ Invalid
    /\ AreHosts(hosts, Subdomains) /\ NamesOf(hosts) \cap todo = {}
    /\ issues = 0 <=> NamesOf(hosts) = Subdomains \ todo /\ garbled = {}

ExactInv == exact # Broad => Subdomains \subseteq {exact.host}

ReconInv ==
  /\ ReconType /\ OrderInv /\ AreHosts(Hosts, Names) /\ LoopInv /\ ExactInv
  /\ WithinScope /\ AliveIsJustified /\ ResolutionTellsLoss /\ ErrorsHaveCause

-----------------------------------------------------------------------------
(* Lemmas on the operators *)

\* A set of numbers that is not empty has a least element.
LEMMA LeastExists ==
  ASSUME NEW T \in SUBSET Nat, T # {}
  PROVE  \E x \in T : \A y \in T : x <= y
<1>1. \A x, y \in Nat : y < x => <<y, x>> \in OpToRel(<, Nat)  BY DEF OpToRel
<1>2. \E R : /\ IsWellFoundedOn(R, Nat)
             /\ \A x, y \in Nat : y < x => <<y, x>> \in R
  BY <1>1, NatLessThanWellFounded, Zenon
<1>3. PICK R : /\ IsWellFoundedOn(R, Nat)
               /\ \A x, y \in Nat : y < x => <<y, x>> \in R
  BY <1>2
<1>4. PICK x \in T : \A y \in T : ~(<<y, x>> \in R)  BY <1>3, WFMin
<1>5. ASSUME NEW y \in T PROVE x <= y
  <2>1. x \in Nat /\ y \in Nat /\ ~(y < x)  BY <1>3, <1>4
  <2> QED  BY <2>1
<1> QED  BY <1>4, <1>5

\* Min is the least name left.
LEMMA MinIsLeast ==
  ASSUME NEW T \in SUBSET Nat, T # {}
  PROVE  Min(T) \in T
BY LeastExists, Zenon DEF Min

\* The hosts with names have a first one.
LEMMA LeastIsOne ==
  ASSUME NEW hs, hs # {}, \A h \in hs : h.name \in Nat
  PROVE  Least(hs) \in hs /\ \A g \in hs : Least(hs).name <= g.name
<1> DEFINE T == {h.name : h \in hs}
<1>1. T \in SUBSET Nat /\ T # {}  OBVIOUS
<1> HIDE DEF T
<1>2. PICK x \in T : \A y \in T : x <= y  BY <1>1, LeastExists
<1>3. \E h \in hs : \A g \in hs : h.name <= g.name  BY <1>2 DEF T
<1> QED  BY <1>3, Zenon DEF Least

\* The image of a finite set under a function is finite and no larger.
LEMMA ImageIsSmaller ==
  ASSUME NEW S, IsFiniteSet(S), NEW f, DOMAIN f = S
  PROVE  IsFiniteSet({f[x] : x \in S}) /\ Cardinality({f[x] : x \in S}) <= Cardinality(S)
<1> DEFINE T == {f[x] : x \in S}
           g == [x \in S |-> f[x]]
<1>1. g \in [S -> T] /\ \A t \in T : \E x \in S : g[x] = t  OBVIOUS
<1>2. g \in Surjection(S, T)  BY <1>1 DEF Surjection
<1> HIDE DEF T, g
<1>3. IsFiniteSet(T) /\ Cardinality(T) <= Cardinality(S)  BY <1>2, FS_Surjection
<1> QED  BY <1>3 DEF T

\* What a probe wrote is a finite set of endpoints.
LEMMA ProbesAreFinite ==
  ASSUME NEW out \in Probes, NEW J \in SUBSET DOMAIN out
  PROVE  IsFiniteSet({out[i] : i \in J}) /\ {out[i] : i \in J} \subseteq HttpEndpoint
<1>1. out \in Seq(HttpEndpoint)  BY ReconAssumption
<1>2. DOMAIN out = 1..Len(out) /\ Len(out) \in Nat /\ \A i \in DOMAIN out : out[i] \in HttpEndpoint
  BY <1>1
<1>3. IsFiniteSet(J)
  <2>1. IsFiniteSet(1..Len(out))  BY <1>2, FS_Interval
  <2> QED  BY <1>2, <2>1, FS_Subset
<1> DEFINE f == [i \in J |-> out[i]]
<1>4. DOMAIN f = J /\ {f[i] : i \in J} = {out[i] : i \in J}  OBVIOUS
<1> HIDE DEF f
<1>5. IsFiniteSet({f[i] : i \in J})  BY <1>3, <1>4, ImageIsSmaller
<1> QED  BY <1>2, <1>4, <1>5

\* Aliases of more hosts are more.
LEMMA AliasesGrow ==
  ASSUME NEW hs, NEW gs, hs \subseteq gs
  PROVE  AliasesOf(hs) \subseteq AliasesOf(gs)
BY DEF AliasesOf

LEMMA AliasesAre ==
  ASSUME NEW hs, NEW ns, AreHosts(hs, ns)
  PROVE  /\ \A h \in hs : Identities(h) = {h.name} \cup h.addrs
         /\ \A x : x \in AliasesOf(hs) <=> \E h \in hs : x \in Identities(h)
<1>1. \A h \in hs : h.name # Nobody  BY ReconAssumption DEF AreHosts, Identity
<1> QED  BY <1>1 DEF Identities, AliasesOf

-----------------------------------------------------------------------------
(* What the capabilities have in common *)

\* What Conclude does to the state.
LEMMA ConcludeGives ==
  ASSUME NEW c \in Capabilities, NEW st, NEW why, NEW values, Conclude(c, st, why, values),
         ReconType
  PROVE  /\ DOMAIN ctx' = Keys
         /\ status'[c] = st /\ \A d \in Capabilities \ {c} : status'[d] = status[d]
         /\ cause'[c] = why /\ \A d \in Capabilities \ {c} : cause'[d] = cause[d]
         /\ st \in {"NONE", "RUNNING", "SUCCESS", "PARTIAL", "FAILURE", "ERROR"} =>
              status' \in [Capabilities ->
                             {"NONE", "RUNNING", "SUCCESS", "PARTIAL", "FAILURE", "ERROR"}]
         /\ why \in {"none", "provider", "input", "evidence", "limit"} =>
              cause' \in [Capabilities -> {"none", "provider", "input", "evidence", "limit"}]
         /\ ~Usable(st) => ctx' = ctx
         /\ Usable(st) => \A k \in Keys :
              ctx'[k] = IF k \in DOMAIN values THEN Value(values[k]) ELSE ctx[k]
<1>1. /\ status \in [Capabilities -> {"NONE", "RUNNING", "SUCCESS", "PARTIAL", "FAILURE", "ERROR"}]
      /\ cause \in [Capabilities -> {"none", "provider", "input", "evidence", "limit"}]
      /\ DOMAIN ctx = Keys
  BY DEF ReconType, ReconTypeOK
<1>2. /\ status' = [status EXCEPT ![c] = st]
      /\ cause' = [cause EXCEPT ![c] = why]
      /\ ctx' = IF Usable(st)
                THEN [k \in Keys |-> IF k \in DOMAIN values THEN Value(values[k]) ELSE ctx[k]]
                ELSE ctx
  BY Zenon DEF Conclude
<1> QED  BY <1>1, <1>2

\* The reports of a provider and what becomes of them.
LEMMA ReportsAre ==
  ASSUME NEW kept, NEW rejected, NEW report \in Reports(kept, rejected)
  PROVE  /\ report \in {"SUCCESS", "PARTIAL", "FAILURE", "UNAVAILABLE", "ERROR", "RAISED"}
         /\ Found(report, kept) \subseteq kept
         /\ \A found : /\ Mapped(report, found) \in {"SUCCESS", "PARTIAL", "FAILURE", "ERROR"}
                       /\ Usable(Mapped(report, found)) => Usable(report)
         /\ Why(report) \in {"none", "provider"}
<1>1. report \in {"SUCCESS", "PARTIAL", "FAILURE", "UNAVAILABLE", "ERROR", "RAISED"}
  BY DEF Reports
<1>2. \A found : /\ Mapped(report, found) \in {"SUCCESS", "PARTIAL", "FAILURE", "ERROR"}
                 /\ Usable(Mapped(report, found)) => Usable(report)
  BY <1>1 DEF Mapped, Usable
<1> QED  BY <1>1, <1>2 DEF Found, Why

Ended == {"SUCCESS", "PARTIAL", "FAILURE", "ERROR"}

\* Capability c ends and publishes no other keys than these.
Ends(c, keys) ==
  /\ Ready(c) /\ UNCHANGED <<setting, resolving>>
  /\ status' \in [Capabilities -> {"NONE", "RUNNING", "SUCCESS", "PARTIAL", "FAILURE", "ERROR"}]
  /\ status'[c] \in Ended /\ \A d \in Capabilities \ {c} : status'[d] = status[d]
  /\ cause' \in [Capabilities -> {"none", "provider", "input", "evidence", "limit"}]
  /\ ~custom => cause'[c] \notin {"input", "evidence"}
  /\ \A d \in Capabilities \ {c} : cause'[d] = cause[d]
  /\ DOMAIN ctx' = Keys /\ \A k \in Keys \ keys : ctx'[k] = ctx[k]

LEMMA ConcludeEnds ==
  ASSUME ReconInv, NEW c \in Capabilities, NEW st \in Ended,
         NEW why \in {"none", "provider", "input", "evidence", "limit"},
         ~custom => why \notin {"input", "evidence"},
         NEW values, Ready(c), UNCHANGED <<setting, resolving>>, Conclude(c, st, why, values)
  PROVE  /\ Ends(c, DOMAIN values)
         /\ \/ ctx' = ctx
            \/ \A k \in DOMAIN values : k \in Keys => ctx'[k] = Value(values[k])
<1>1. ReconType  BY DEF ReconInv
<1>2. DOMAIN ctx = Keys  BY <1>1 DEF ReconType
<1>3. /\ DOMAIN ctx' = Keys
      /\ status'[c] = st /\ \A d \in Capabilities \ {c} : status'[d] = status[d]
      /\ cause'[c] = why /\ \A d \in Capabilities \ {c} : cause'[d] = cause[d]
      /\ status' \in [Capabilities -> {"NONE", "RUNNING", "SUCCESS", "PARTIAL", "FAILURE", "ERROR"}]
      /\ cause' \in [Capabilities -> {"none", "provider", "input", "evidence", "limit"}]
      /\ ~Usable(st) => ctx' = ctx
      /\ Usable(st) => \A k \in Keys :
           ctx'[k] = IF k \in DOMAIN values THEN Value(values[k]) ELSE ctx[k]
  BY <1>1, ConcludeGives DEF Ended
<1>4. \A k \in Keys \ DOMAIN values : ctx'[k] = ctx[k]  BY <1>3
<1>5. Ends(c, DOMAIN values)  BY <1>3, <1>4 DEF Ends
<1> QED  BY <1>3, <1>5

\* A refusal publishes nothing.
LEMMA RefuseEnds ==
  ASSUME ReconInv, NEW c \in Capabilities,
         NEW why \in {"none", "provider", "input", "evidence", "limit"},
         ~custom => why \notin {"input", "evidence"},
         Ready(c), UNCHANGED <<setting, resolving>>, Refuse(c, why)
  PROVE  Ends(c, {}) /\ ctx' = ctx
<1>1. Conclude(c, "ERROR", why, << >>)  BY DEF Refuse
<1>2. ctx' = ctx  BY <1>1 DEF Conclude, Usable
<1>3. "ERROR" \in Ended /\ DOMAIN << >> = {}  BY DEF Ended
<1>4. Ends(c, DOMAIN << >>)  BY <1>1, <1>3, ConcludeEnds
<1> QED  BY <1>2, <1>3, <1>4

\* A provider's answer is published as it was found, or not at all.
LEMMA FinishEnds ==
  ASSUME ReconInv, NEW c \in Capabilities, NEW kept, NEW rejected,
         NEW report \in Reports(kept, rejected), NEW values,
         Ready(c), UNCHANGED <<setting, resolving>>, Finish(c, report, kept, values)
  PROVE  /\ Ends(c, DOMAIN values)
         /\ \/ ctx' = ctx
            \/ \A k \in DOMAIN values : k \in Keys => ctx'[k] = Value(values[k])
<1> DEFINE st == Mapped(report, Found(report, kept) # {})
<1>1. Conclude(c, st, Why(report), values)  BY Zenon DEF Finish
<1>2. st \in Ended /\ Why(report) \in {"none", "provider"}  BY ReportsAre, Zenon DEF Ended
<1> HIDE DEF st
<1> QED  BY <1>1, <1>2, ConcludeEnds

LEMMA AllCapabilities ==
  /\ Capabilities = {"subdomain_discovery", "host_resolution", "http_probe", "web_crawl",
                     "technology_detection", "vulnerability_detection"}
  /\ Keys = {"subdomains", "hosts", "alive_hosts", "http_endpoints", "endpoints",
             "technologies", "vulnerabilities"}
BY DEF Capabilities, Keys

\* What subdomain_discovery publishes.
LEMMA SubdomainEffect ==
  ASSUME ReconInv, SubdomainDiscovery
  PROVE  /\ Ends("subdomain_discovery", {"subdomains"})
         /\ \/ ctx'["subdomains"] = ctx["subdomains"]
            \/ \E ns \in SUBSET Names :
                 /\ ctx'["subdomains"] = Value(ns) /\ IsFiniteSet(ns)
                 /\ ~custom => ns \subseteq InScope
                 /\ exact # Broad => ns \subseteq {exact.host}
<1>1. Ready("subdomain_discovery") /\ UNCHANGED <<setting, resolving>>
  BY DEF SubdomainDiscovery
<1>2. PICK out \in IF exact # Broad THEN {LocalSeed} ELSE Discoveries :
        LET kept == IF custom THEN out ELSE out \cap InScope
        IN \E report \in IF exact # Broad THEN {"SUCCESS"} ELSE Reports(kept, kept # out) :
             Finish("subdomain_discovery", report, kept, [subdomains |-> Found(report, kept)])
  BY Zenon DEF SubdomainDiscovery
<1> DEFINE kept == IF custom THEN out ELSE out \cap InScope
<1>3. PICK report \in IF exact # Broad THEN {"SUCCESS"} ELSE Reports(kept, kept # out) :
        Finish("subdomain_discovery", report, kept, [subdomains |-> Found(report, kept)])
  BY <1>2, Zenon
<1>4. /\ out \subseteq Names /\ IsFiniteSet(out)
      /\ exact # Broad => ~custom /\ out = {exact.host} /\ exact.host \in InScope
  <2>1. CASE exact # Broad
    <3>1. ~custom /\ exact \in Exact  BY <2>1 DEF ReconInv, ReconType, ReconTypeOK
    <3>2. out = {exact.host}  BY <2>1 DEF LocalSeed
    <3>3. exact.host \in InScope /\ InScope \subseteq Names  BY <3>1, ReconAssumption
    <3> QED  BY <3>1, <3>2, <3>3, FS_Singleton
  <2>2. CASE exact = Broad
    <3>1. out \in Discoveries  BY <2>2
    <3> QED  BY <3>1, <2>2, ReconAssumption
  <2> QED  BY <2>1, <2>2
<1>5. report \in Reports(kept, kept # out)
  <2>1. CASE exact # Broad
    <3>1. kept = out  BY <1>4, <2>1
    <3> QED  BY <3>1, <2>1, <1>3 DEF Reports
  <2>2. CASE exact = Broad  BY <2>2, <1>3
  <2> QED  BY <2>1, <2>2
<1>6. /\ kept \subseteq out /\ IsFiniteSet(kept) /\ (~custom => kept \subseteq InScope)
  BY <1>4, FS_Subset
<1> HIDE DEF kept
<1> DEFINE ns == Found(report, kept)
           values == [subdomains |-> ns]
<1>7. ns \subseteq kept /\ IsFiniteSet(ns)  BY <1>5, <1>6, ReportsAre, FS_Subset
<1>8. DOMAIN values = {"subdomains"} /\ values["subdomains"] = ns  OBVIOUS
<1>9. Finish("subdomain_discovery", report, kept, values)  BY <1>3
<1> HIDE DEF values, ns
<1>10. /\ Ends("subdomain_discovery", DOMAIN values)
       /\ \/ ctx' = ctx
          \/ \A k \in DOMAIN values : k \in Keys => ctx'[k] = Value(values[k])
  BY <1>1, <1>5, <1>9, AllCapabilities, FinishEnds
<1>11. ctx'["subdomains"] = ctx["subdomains"] \/ ctx'["subdomains"] = Value(ns)
  BY <1>8, <1>10, AllCapabilities
<1>12. ns \in SUBSET Names /\ (~custom => ns \subseteq InScope)
       /\ (exact # Broad => ns \subseteq {exact.host})
  BY <1>4, <1>6, <1>7
<1> QED  BY <1>7, <1>8, <1>10, <1>11, <1>12

\* The hosts of a scan are named in its scope and have addresses.
LEMMA ScopedHosts ==
  ASSUME ReconInv, ~custom, NEW hs \in SUBSET Hosts, hs # {}
  PROVE  /\ \A h \in hs : h.name \in InScope /\ h.name \notin Bare /\ Identities(h) # {}
         /\ InputAccepted(hs)
         /\ exact # Broad => exact.host \in AliasesOf(hs)
         /\ AliasesOf(hs) \subseteq Authority
<1>1. AreHosts(Hosts, Names) /\ AreHosts(hs, Names)  BY DEF ReconInv, AreHosts
<1>2. \A h \in hs : h.name \in InScope
  BY DEF ReconInv, WithinScope, Subdomains, Hosts
<1>3. \A h \in hs : h.name \notin Bare /\ Identities(h) # {}
  BY <1>1, <1>2, ReconAssumption, AliasesAre
<1>4. exact # Broad => hs = {[name |-> exact.host, addrs |-> {exact.ip}]}
  BY <1>1 DEF AreHosts
<1>5. InputAccepted(hs)  BY <1>3, <1>4 DEF InputAccepted, IsExactInput
<1>6. exact # Broad => exact.host \in AliasesOf(hs)
  <2> SUFFICES ASSUME exact # Broad PROVE exact.host \in AliasesOf(hs)  OBVIOUS
  <2>1. PICK h \in hs : h.name = exact.host  BY <1>4
  <2>2. exact.host \in Identities(h)  BY <2>1, <1>1, AliasesAre
  <2> QED  BY <2>2, <1>1, AliasesAre
<1>7. AliasesOf(hs) \subseteq Authority  BY AliasesGrow DEF Authority, Hosts
<1> QED  BY <1>2, <1>3, <1>5, <1>6, <1>7

\* What http_probe publishes: the endpoints it found, and for each the host it
\* stands for.
LEMMA ProbeEffect ==
  ASSUME ReconInv, HttpProbe
  PROVE  /\ Ends("http_probe", {"alive_hosts", "http_endpoints"})
         /\ \/ /\ ctx'["alive_hosts"] = ctx["alive_hosts"]
               /\ ctx'["http_endpoints"] = ctx["http_endpoints"]
            \/ \E es \in SUBSET HttpEndpoint :
                 /\ ctx'["alive_hosts"] = Value({AliveFor(e, Hosts) : e \in es})
                 /\ ctx'["http_endpoints"] = Value(es)
                 /\ IsFiniteSet(es) /\ (Hosts = {} => es = {})
                 /\ ~custom => \A e \in es : HttpxApproves(e, Hosts) /\ e.host \in Authority
<1> DEFINE hs == Hosts
           publication(es) == [alive_hosts |-> {AliveFor(e, hs) : e \in es},
                               http_endpoints |-> es]
<1>1. Ready("http_probe") /\ UNCHANGED <<setting, resolving>>  BY DEF HttpProbe
<1>2. \A es : DOMAIN publication(es) = {"alive_hosts", "http_endpoints"}
              /\ publication(es)["alive_hosts"] = {AliveFor(e, hs) : e \in es}
              /\ publication(es)["http_endpoints"] = es
  OBVIOUS
<1>3. \/ hs = {} /\ Conclude("http_probe", "SUCCESS", "none", publication({}))
      \/ hs # {} /\ ~custom /\ ~InputAccepted(hs) /\ Refuse("http_probe", "input")
      \/ /\ hs # {} /\ (custom \/ InputAccepted(hs))
         /\ \E out \in Probes :
              LET passed == {i \in DOMAIN out : HttpxApproves(out[i], hs)}
                  kept   == IF custom THEN {out[i] : i \in DOMAIN out} ELSE FirstOf(out, passed)
              IN \E report \in Reports(kept, passed # DOMAIN out) :
                   LET es == Found(report, kept)
                   IN IF report # "RAISED" /\ EvidenceInvalid(es, hs)
                      THEN Refuse("http_probe", "evidence")
                      ELSE Finish("http_probe", report, kept, publication(es))
  BY Zenon DEF HttpProbe, Hosts
<1> HIDE DEF publication
<1>4. ASSUME NEW es,
             Ends("http_probe", DOMAIN publication(es)),
             ctx' = ctx \/ \A k \in DOMAIN publication(es) : k \in Keys =>
                             ctx'[k] = Value(publication(es)[k])
      PROVE  /\ Ends("http_probe", {"alive_hosts", "http_endpoints"})
             /\ \/ /\ ctx'["alive_hosts"] = ctx["alive_hosts"]
                   /\ ctx'["http_endpoints"] = ctx["http_endpoints"]
                \/ /\ ctx'["alive_hosts"] = Value({AliveFor(e, hs) : e \in es})
                   /\ ctx'["http_endpoints"] = Value(es)
  BY <1>2, <1>4, AllCapabilities
<1>5. CASE hs = {} /\ Conclude("http_probe", "SUCCESS", "none", publication({}))
  <2>1. "SUCCESS" \in Ended  BY DEF Ended
  <2>2. /\ Ends("http_probe", DOMAIN publication({}))
        /\ \/ ctx' = ctx
           \/ \A k \in DOMAIN publication({}) : k \in Keys =>
                ctx'[k] = Value(publication({})[k])
    BY <1>1, <1>5, <2>1, AllCapabilities, ConcludeEnds
  <2>3. IsFiniteSet({})  BY FS_EmptySet
  <2>4. {} \in SUBSET HttpEndpoint /\ \A e \in {} : HttpxApproves(e, hs) /\ e.host \in Authority
    OBVIOUS
  <2> QED  BY <1>4, <2>2, <2>3, <2>4
<1>6. CASE hs # {} /\ ~custom /\ ~InputAccepted(hs) /\ Refuse("http_probe", "input")
  BY <1>6, ScopedHosts
<1>7. CASE /\ hs # {} /\ (custom \/ InputAccepted(hs))
           /\ \E out \in Probes :
                LET passed == {i \in DOMAIN out : HttpxApproves(out[i], hs)}
                    kept   == IF custom THEN {out[i] : i \in DOMAIN out} ELSE FirstOf(out, passed)
                IN \E report \in Reports(kept, passed # DOMAIN out) :
                     LET es == Found(report, kept)
                     IN IF report # "RAISED" /\ EvidenceInvalid(es, hs)
                        THEN Refuse("http_probe", "evidence")
                        ELSE Finish("http_probe", report, kept, publication(es))
  <2>1. PICK out \in Probes :
          LET passed == {i \in DOMAIN out : HttpxApproves(out[i], hs)}
              kept   == IF custom THEN {out[i] : i \in DOMAIN out} ELSE FirstOf(out, passed)
          IN \E report \in Reports(kept, passed # DOMAIN out) :
               LET es == Found(report, kept)
               IN IF report # "RAISED" /\ EvidenceInvalid(es, hs)
                  THEN Refuse("http_probe", "evidence")
                  ELSE Finish("http_probe", report, kept, publication(es))
    BY <1>7, Zenon
  <2> DEFINE passed == {i \in DOMAIN out : HttpxApproves(out[i], hs)}
             kept   == IF custom THEN {out[i] : i \in DOMAIN out} ELSE FirstOf(out, passed)
  <2>2. PICK report \in Reports(kept, passed # DOMAIN out) :
          LET es == Found(report, kept)
          IN IF report # "RAISED" /\ EvidenceInvalid(es, hs)
             THEN Refuse("http_probe", "evidence")
             ELSE Finish("http_probe", report, kept, publication(es))
    BY <2>1, Zenon
  <2> DEFINE es == Found(report, kept)
  <2>3. IF report # "RAISED" /\ EvidenceInvalid(es, hs)
        THEN Refuse("http_probe", "evidence")
        ELSE Finish("http_probe", report, kept, publication(es))
    BY <2>2, Zenon
  <2>4. es \subseteq kept  BY <2>2, ReportsAre
  <2>5. \E J \in SUBSET DOMAIN out :
          /\ kept = {out[i] : i \in J}
          /\ ~custom => /\ J \subseteq passed
                        /\ \A i, j \in J : i < j =>
                             <<out[i].host, out[i].origin>> # <<out[j].host, out[j].origin>>
    <3>1. CASE custom
      <4>1. kept = {out[i] : i \in DOMAIN out}  BY <3>1
      <4> QED  BY <4>1, <3>1
    <3>2. CASE ~custom
      <4> DEFINE J == {j \in passed : \A k \in passed : k < j =>
                         <<out[k].host, out[k].origin>> # <<out[j].host, out[j].origin>>}
      <4>1. kept = {out[i] : i \in J}  BY <3>2, Zenon DEF FirstOf
      <4>2. J \subseteq passed /\ passed \subseteq DOMAIN out  OBVIOUS
      <4>3. \A i, j \in J : i < j =>
              <<out[i].host, out[i].origin>> # <<out[j].host, out[j].origin>>
        BY <4>2
      <4> HIDE DEF J, kept
      <4> QED  BY <4>1, <4>2, <4>3
    <3> QED  BY <3>1, <3>2
  <2>6. PICK J \in SUBSET DOMAIN out :
          /\ kept = {out[i] : i \in J}
          /\ ~custom => /\ J \subseteq passed
                        /\ \A i, j \in J : i < j =>
                             <<out[i].host, out[i].origin>> # <<out[j].host, out[j].origin>>
    BY <2>5, Zenon
  <2>7. IsFiniteSet(kept) /\ kept \subseteq HttpEndpoint  BY <2>6, ProbesAreFinite
  <2>8. ~custom => \A e \in es : HttpxApproves(e, hs)
    <3>1. ~custom => \A i \in J : HttpxApproves(out[i], hs)  BY <2>6
    <3> HIDE DEF kept, passed, es
    <3> QED  BY <3>1, <2>4, <2>6
  <2>9. ~custom => ~EvidenceInvalid(es, hs)
    <3> SUFFICES ASSUME ~custom PROVE ~EvidenceInvalid(es, hs)  OBVIOUS
    <3>1. DOMAIN out \subseteq Nat
      BY ReconAssumption
    <3> HIDE DEF kept, passed, es
    <3>2. ~Conflicting(es)
      <4> SUFFICES ASSUME NEW e \in es, NEW f \in es, e # f,
                          <<e.host, e.origin>> = <<f.host, f.origin>>
                   PROVE  FALSE
        BY Zenon DEF Conflicting
      <4>1. PICK i \in J : e = out[i]  BY <2>4, <2>6
      <4>2. PICK j \in J : f = out[j]  BY <2>4, <2>6
      <4>3. i < j \/ j < i  BY <4>1, <4>2, <3>1
      <4> QED  BY <4>1, <4>2, <4>3, <2>6
    <3>3. \A h \in hs : h.name \notin Bare  BY <1>7, ScopedHosts
    <3> QED  BY <3>2, <3>3 DEF EvidenceInvalid
  <2> HIDE DEF passed, kept
  <2>10. IsFiniteSet(es) /\ es \in SUBSET HttpEndpoint  BY <2>4, <2>7, FS_Subset
  <2>11. ~custom => \A e \in es : e.host \in Authority
    <3> SUFFICES ASSUME ~custom, NEW e \in es PROVE e.host \in Authority  OBVIOUS
    <3>1. HttpxApproves(e, hs)  BY <2>8
    <3>2. exact # Broad => exact.host \in AliasesOf(hs)  BY <1>7, ScopedHosts
    <3> QED  BY <3>1, <3>2 DEF HttpxApproves, IsExactOrigin, Authority, Hosts
  <2> HIDE DEF es
  <2>12. CASE report # "RAISED" /\ EvidenceInvalid(es, hs)
    <3>1. custom  BY <2>9, <2>12
    <3>2. Ends("http_probe", {}) /\ ctx' = ctx
      BY <1>1, <2>3, <2>12, <3>1, AllCapabilities, RefuseEnds
    <3> QED  BY <3>2 DEF Ends
  <2>13. CASE ~(report # "RAISED" /\ EvidenceInvalid(es, hs))
    <3>1. Finish("http_probe", report, kept, publication(es))  BY <2>3, <2>13
    <3>2. /\ Ends("http_probe", DOMAIN publication(es))
          /\ \/ ctx' = ctx
             \/ \A k \in DOMAIN publication(es) : k \in Keys =>
                  ctx'[k] = Value(publication(es)[k])
      BY <1>1, <2>2, <3>1, AllCapabilities, FinishEnds
    <3> QED  BY <1>4, <1>7, <2>8, <2>10, <2>11, <3>2
  <2> QED  BY <2>12, <2>13
<1> QED  BY <1>3, <1>5, <1>6, <1>7

\* What web_crawl publishes: pages of responsive hosts.
LEMMA CrawlEffect ==
  ASSUME ReconInv, WebCrawl
  PROVE  /\ Ends("web_crawl", {"endpoints"})
         /\ \/ ctx'["endpoints"] = ctx["endpoints"]
            \/ \E es \in SUBSET Endpoint :
                 /\ ctx'["endpoints"] = Value(es)
                 /\ ~custom => \A e \in es : /\ e.host \in Authority
                                             /\ exact # Broad => IsExactOrigin(e)
<1> DEFINE hs == AliveHosts
           values(es) == [endpoints |-> es]
<1>1. Ready("web_crawl") /\ UNCHANGED <<setting, resolving>>  BY DEF WebCrawl
<1>2. \A es : DOMAIN values(es) = {"endpoints"} /\ values(es)["endpoints"] = es  OBVIOUS
<1>3. \/ hs = {} /\ Conclude("web_crawl", "SUCCESS", "none", values({}))
      \/ hs # {} /\ ~custom /\ ~InputAccepted(hs) /\ Refuse("web_crawl", "input")
      \/ /\ hs # {} /\ (custom \/ InputAccepted(hs))
         /\ \E out \in Crawls :
              LET passed == {e \in out : KatanaApproves(e, hs)}
                  kept   == IF custom THEN out ELSE {[e EXCEPT !.note = 0] : e \in passed}
              IN \E report \in Reports(kept, passed # out) :
                   LET es == Found(report, kept)
                   IN IF report # "RAISED" /\ Contradictory(es)
                      THEN Refuse("web_crawl", "evidence")
                      ELSE Finish("web_crawl", report, kept, values(es))
  BY Zenon DEF WebCrawl, AliveHosts
<1> HIDE DEF values
<1>4. ASSUME NEW es,
             Ends("web_crawl", DOMAIN values(es)),
             ctx' = ctx \/ \A k \in DOMAIN values(es) : k \in Keys => ctx'[k] = Value(values(es)[k])
      PROVE  /\ Ends("web_crawl", {"endpoints"})
             /\ ctx'["endpoints"] = ctx["endpoints"] \/ ctx'["endpoints"] = Value(es)
  BY <1>2, <1>4, AllCapabilities
<1>5. CASE hs = {} /\ Conclude("web_crawl", "SUCCESS", "none", values({}))
  <2>1. "SUCCESS" \in Ended  BY DEF Ended
  <2>2. /\ Ends("web_crawl", DOMAIN values({}))
        /\ ctx' = ctx \/ \A k \in DOMAIN values({}) : k \in Keys => ctx'[k] = Value(values({})[k])
    BY <1>1, <1>5, <2>1, AllCapabilities, ConcludeEnds
  <2> QED  BY <1>4, <2>2
<1>6. ~custom => hs \in SUBSET Hosts
  BY DEF ReconInv, WithinScope, AliveHosts, Hosts
<1>7. CASE hs # {} /\ ~custom /\ ~InputAccepted(hs) /\ Refuse("web_crawl", "input")
  BY <1>6, <1>7, ScopedHosts
<1>8. CASE /\ hs # {} /\ (custom \/ InputAccepted(hs))
           /\ \E out \in Crawls :
                LET passed == {e \in out : KatanaApproves(e, hs)}
                    kept   == IF custom THEN out ELSE {[e EXCEPT !.note = 0] : e \in passed}
                IN \E report \in Reports(kept, passed # out) :
                     LET es == Found(report, kept)
                     IN IF report # "RAISED" /\ Contradictory(es)
                        THEN Refuse("web_crawl", "evidence")
                        ELSE Finish("web_crawl", report, kept, values(es))
  <2>1. PICK out \in Crawls :
          LET passed == {e \in out : KatanaApproves(e, hs)}
              kept   == IF custom THEN out ELSE {[e EXCEPT !.note = 0] : e \in passed}
          IN \E report \in Reports(kept, passed # out) :
               LET es == Found(report, kept)
               IN IF report # "RAISED" /\ Contradictory(es)
                  THEN Refuse("web_crawl", "evidence")
                  ELSE Finish("web_crawl", report, kept, values(es))
    BY <1>8, Zenon
  <2> DEFINE passed == {e \in out : KatanaApproves(e, hs)}
             kept   == IF custom THEN out ELSE {[e EXCEPT !.note = 0] : e \in passed}
  <2>2. PICK report \in Reports(kept, passed # out) :
          LET es == Found(report, kept)
          IN IF report # "RAISED" /\ Contradictory(es)
             THEN Refuse("web_crawl", "evidence")
             ELSE Finish("web_crawl", report, kept, values(es))
    BY <2>1, Zenon
  <2> DEFINE es == Found(report, kept)
  <2>3. IF report # "RAISED" /\ Contradictory(es)
        THEN Refuse("web_crawl", "evidence")
        ELSE Finish("web_crawl", report, kept, values(es))
    BY <2>2, Zenon
  <2>4. es \subseteq kept  BY <2>2, ReportsAre
  <2>5. out \subseteq Endpoint  BY ReconAssumption
  <2>6. ~custom => \A e \in kept : \E d \in passed :
          e \in Endpoint /\ e.host = d.host /\ e.origin = d.origin /\ e.note = 0
    BY <2>5 DEF Endpoint
  <2>7. kept \subseteq Endpoint  BY <2>5, <2>6
  <2>8. ~custom => ~Contradictory(es)
    <3> SUFFICES ASSUME ~custom, NEW e \in es, NEW f \in es, e # f,
                        [e EXCEPT !.note = 0] = [f EXCEPT !.note = 0]
                 PROVE  FALSE
      BY Zenon DEF Contradictory
    <3>1. e \in Endpoint /\ e.note = 0 /\ f \in Endpoint /\ f.note = 0  BY <2>4, <2>6
    <3>2. [e EXCEPT !.note = 0] = e /\ [f EXCEPT !.note = 0] = f  BY <3>1 DEF Endpoint
    <3> QED  BY <3>2
  <2>9. ~custom => \A e \in es : e.host \in Authority /\ (exact # Broad => IsExactOrigin(e))
    <3> SUFFICES ASSUME ~custom, NEW e \in es
                 PROVE  e.host \in Authority /\ (exact # Broad => IsExactOrigin(e))
      OBVIOUS
    <3>1. PICK d \in passed : e.host = d.host /\ e.origin = d.origin  BY <2>4, <2>6
    <3>2. KatanaApproves(d, hs)  BY <3>1
    <3>3. (exact # Broad => exact.host \in AliasesOf(hs)) /\ AliasesOf(hs) \subseteq Authority
      BY <1>6, <1>8, ScopedHosts
    <3> QED  BY <3>1, <3>2, <3>3 DEF KatanaApproves, IsExactOrigin
  <2> HIDE DEF passed, kept
  <2>10. es \in SUBSET Endpoint  BY <2>4, <2>7
  <2> HIDE DEF es
  <2>11. CASE report # "RAISED" /\ Contradictory(es)
    <3>1. custom  BY <2>8, <2>11
    <3>2. Ends("web_crawl", {}) /\ ctx' = ctx
      BY <1>1, <2>3, <2>11, <3>1, AllCapabilities, RefuseEnds
    <3> QED  BY <3>2 DEF Ends
  <2>12. CASE ~(report # "RAISED" /\ Contradictory(es))
    <3>1. Finish("web_crawl", report, kept, values(es))  BY <2>3, <2>12
    <3>2. /\ Ends("web_crawl", DOMAIN values(es))
          /\ ctx' = ctx \/ \A k \in DOMAIN values(es) : k \in Keys => ctx'[k] = Value(values(es)[k])
      BY <1>1, <2>2, <3>1, AllCapabilities, FinishEnds
    <3> QED  BY <1>4, <2>9, <2>10, <3>2
  <2> QED  BY <2>11, <2>12
<1> QED  BY <1>3, <1>5, <1>7, <1>8

\* What technology_detection publishes: products on the pages it was given.
LEMMA TechnologyEffect ==
  ASSUME ReconInv, TechnologyDetection
  PROVE  /\ Ends("technology_detection", {"technologies"})
         /\ \/ ctx'["technologies"] = ctx["technologies"]
            \/ \E ts \in SUBSET Technology :
                 /\ ctx'["technologies"] = Value(ts)
                 /\ ~custom => \A t \in ts : /\ t.source.host \in Authority
                                             /\ exact # Broad => IsExactOrigin(t.source)
<1> DEFINE es == ctx["endpoints"].items
           values(ts) == [technologies |-> ts]
           c == "technology_detection"
<1>1. Ready(c) /\ UNCHANGED <<setting, resolving>>  BY DEF TechnologyDetection
<1>2. \A ts : DOMAIN values(ts) = {"technologies"} /\ values(ts)["technologies"] = ts  OBVIOUS
<1>3. \/ es = {} /\ Conclude(c, "SUCCESS", "none", values({}))
      \/ es # {} /\ ~custom /\ WhatWebInput(es) # "none" /\ Refuse(c, WhatWebInput(es))
      \/ /\ es # {} /\ (custom \/ WhatWebInput(es) = "none")
         /\ \E out \in Detections :
              LET kept == IF custom THEN out ELSE {t \in out : t.source \in WhatWebTargets(es)}
              IN \E report \in Reports(kept, kept # out) :
                   Finish(c, report, kept, values(Found(report, kept)))
  BY Zenon DEF TechnologyDetection
<1>0. c \in Capabilities  BY AllCapabilities
<1> HIDE DEF values
<1>4. ASSUME NEW ts,
             Ends(c, DOMAIN values(ts)),
             ctx' = ctx \/ \A k \in DOMAIN values(ts) : k \in Keys => ctx'[k] = Value(values(ts)[k])
      PROVE  /\ Ends(c, {"technologies"})
             /\ ctx'["technologies"] = ctx["technologies"] \/ ctx'["technologies"] = Value(ts)
  BY <1>2, <1>4, AllCapabilities
<1>5. ~custom => \A e \in es : e.host \in Authority /\ (exact # Broad => IsExactOrigin(e))
  BY DEF ReconInv, WithinScope
<1>6. CASE es = {} /\ Conclude(c, "SUCCESS", "none", values({}))
  <2>1. "SUCCESS" \in Ended  BY DEF Ended
  <2> HIDE DEF c
  <2>2. /\ Ends(c, DOMAIN values({}))
        /\ ctx' = ctx \/ \A k \in DOMAIN values({}) : k \in Keys => ctx'[k] = Value(values({})[k])
    BY <1>0, <1>1, <1>6, <2>1, ConcludeEnds
  <2> QED  BY <1>4, <2>2 DEF c
<1>7. CASE es # {} /\ ~custom /\ WhatWebInput(es) # "none" /\ Refuse(c, WhatWebInput(es))
  <2>1. WhatWebInput(es) = "limit"  BY <1>5, <1>7 DEF WhatWebInput
  <2> HIDE DEF c
  <2>2. Refuse(c, "limit")  BY <1>7, <2>1
  <2>3. Ends(c, {}) /\ ctx' = ctx  BY <1>0, <1>1, <2>2, RefuseEnds
  <2> QED  BY <2>3 DEF Ends, c
<1>8. CASE /\ es # {} /\ (custom \/ WhatWebInput(es) = "none")
           /\ \E out \in Detections :
                LET kept == IF custom THEN out ELSE {t \in out : t.source \in WhatWebTargets(es)}
                IN \E report \in Reports(kept, kept # out) :
                     Finish(c, report, kept, values(Found(report, kept)))
  <2>1. PICK out \in Detections :
          LET kept == IF custom THEN out ELSE {t \in out : t.source \in WhatWebTargets(es)}
          IN \E report \in Reports(kept, kept # out) :
               Finish(c, report, kept, values(Found(report, kept)))
    BY <1>8, Zenon
  <2> DEFINE kept == IF custom THEN out ELSE {t \in out : t.source \in WhatWebTargets(es)}
  <2>2. PICK report \in Reports(kept, kept # out) :
          Finish(c, report, kept, values(Found(report, kept)))
    BY <2>1, Zenon
  <2> DEFINE ts == Found(report, kept)
  <2>3. ts \subseteq kept  BY <2>2, ReportsAre
  <2>4. kept \subseteq Technology  BY ReconAssumption
  <2>5. ~custom => \A t \in ts :
          t.source.host \in Authority /\ (exact # Broad => IsExactOrigin(t.source))
    <3> SUFFICES ASSUME ~custom, NEW t \in ts
                 PROVE  t.source.host \in Authority /\ (exact # Broad => IsExactOrigin(t.source))
      OBVIOUS
    <3>1. t.source \in WhatWebTargets(es)  BY <2>3
    <3>2. CASE exact # Broad
      <4>1. t.source.host = exact.host /\ t.source.origin = exact.origin
        BY <3>1, <3>2 DEF WhatWebTargets
      <4>2. PICK e \in es : TRUE  BY <1>8
      <4>3. exact.host \in Authority  BY <4>2, <1>5, <3>2 DEF IsExactOrigin
      <4> QED  BY <4>1, <4>3 DEF IsExactOrigin
    <3>3. CASE exact = Broad
      <4>1. PICK e \in es : t.source = Url(e)  BY <3>1, <3>3 DEF WhatWebTargets
      <4> QED  BY <4>1, <3>3, <1>5 DEF Url
    <3> QED  BY <3>2, <3>3
  <2> HIDE DEF kept, c
  <2>6. Finish(c, report, kept, values(ts))  BY <2>2
  <2>7. ts \in SUBSET Technology  BY <2>3, <2>4
  <2> HIDE DEF ts
  <2>8. /\ Ends(c, DOMAIN values(ts))
        /\ ctx' = ctx \/ \A k \in DOMAIN values(ts) : k \in Keys => ctx'[k] = Value(values(ts)[k])
    BY <1>0, <1>1, <2>2, <2>6, FinishEnds
  <2> QED  BY <1>4, <2>5, <2>7, <2>8 DEF c
<1> QED  BY <1>3, <1>6, <1>7, <1>8

\* What vulnerability_detection publishes: findings on the endpoints it was given.
LEMMA VulnerabilityEffect ==
  ASSUME ReconInv, VulnerabilityDetection
  PROVE  /\ Ends("vulnerability_detection", {"vulnerabilities"})
         /\ \/ ctx'["vulnerabilities"] = ctx["vulnerabilities"]
            \/ \E fs \in SUBSET Finding :
                 /\ ctx'["vulnerabilities"] = Value(fs)
                 /\ ~custom => \A f \in fs : f.target.host \in Authority
<1> DEFINE es == HttpEndpoints
           values(fs) == [vulnerabilities |-> fs]
           c == "vulnerability_detection"
<1>1. Ready(c) /\ UNCHANGED <<setting, resolving>>  BY DEF VulnerabilityDetection
<1>2. \A fs : DOMAIN values(fs) = {"vulnerabilities"} /\ values(fs)["vulnerabilities"] = fs
  OBVIOUS
<1>3. \/ es = {} /\ Conclude(c, "SUCCESS", "none", values({}))
      \/ es # {} /\ ~custom /\ Refuse(c, "limit")
      \/ /\ es # {}
         /\ \E out \in Scans :
              LET kept == IF custom THEN out ELSE {f \in out : f.target \in NucleiTargets(es)}
              IN \E report \in Reports(kept, kept # out) :
                   Finish(c, report, kept, values(Found(report, kept)))
  BY Zenon DEF VulnerabilityDetection, HttpEndpoints
<1>0. c \in Capabilities  BY AllCapabilities
<1> HIDE DEF values
<1>4. ASSUME NEW fs,
             Ends(c, DOMAIN values(fs)),
             ctx' = ctx \/ \A k \in DOMAIN values(fs) : k \in Keys => ctx'[k] = Value(values(fs)[k])
      PROVE  /\ Ends(c, {"vulnerabilities"})
             /\ ctx'["vulnerabilities"] = ctx["vulnerabilities"] \/ ctx'["vulnerabilities"] = Value(fs)
  BY <1>2, <1>4, AllCapabilities
<1>5. ~custom => \A e \in es : e.host \in Authority
  BY DEF ReconInv, WithinScope, HttpEndpoints
<1>6. CASE es = {} /\ Conclude(c, "SUCCESS", "none", values({}))
  <2>1. "SUCCESS" \in Ended  BY DEF Ended
  <2> HIDE DEF c
  <2>2. /\ Ends(c, DOMAIN values({}))
        /\ ctx' = ctx \/ \A k \in DOMAIN values({}) : k \in Keys => ctx'[k] = Value(values({})[k])
    BY <1>0, <1>1, <1>6, <2>1, ConcludeEnds
  <2> QED  BY <1>4, <2>2 DEF c
<1>7. CASE es # {} /\ ~custom /\ Refuse(c, "limit")
  <2> HIDE DEF c
  <2>1. Ends(c, {}) /\ ctx' = ctx  BY <1>0, <1>1, <1>7, RefuseEnds
  <2> QED  BY <2>1 DEF Ends, c
<1>8. CASE /\ es # {}
           /\ \E out \in Scans :
                LET kept == IF custom THEN out ELSE {f \in out : f.target \in NucleiTargets(es)}
                IN \E report \in Reports(kept, kept # out) :
                     Finish(c, report, kept, values(Found(report, kept)))
  <2>1. PICK out \in Scans :
          LET kept == IF custom THEN out ELSE {f \in out : f.target \in NucleiTargets(es)}
          IN \E report \in Reports(kept, kept # out) :
               Finish(c, report, kept, values(Found(report, kept)))
    BY <1>8, Zenon
  <2> DEFINE kept == IF custom THEN out ELSE {f \in out : f.target \in NucleiTargets(es)}
  <2>2. PICK report \in Reports(kept, kept # out) :
          Finish(c, report, kept, values(Found(report, kept)))
    BY <2>1, Zenon
  <2> DEFINE fs == Found(report, kept)
  <2>3. fs \subseteq kept  BY <2>2, ReportsAre
  <2>4. kept \subseteq Finding  BY ReconAssumption
  <2>5. ~custom => \A f \in fs : f.target.host \in Authority
    <3> SUFFICES ASSUME ~custom, NEW f \in fs PROVE f.target.host \in Authority  OBVIOUS
    <3>1. f.target \in NucleiTargets(es)  BY <2>3
    <3>2. PICK e \in es : f.target = [host |-> e.host, origin |-> e.origin]
      BY <3>1 DEF NucleiTargets
    <3> QED  BY <3>2, <1>5
  <2> HIDE DEF kept, c
  <2>6. Finish(c, report, kept, values(fs))  BY <2>2
  <2>7. fs \in SUBSET Finding  BY <2>3, <2>4
  <2> HIDE DEF fs
  <2>8. /\ Ends(c, DOMAIN values(fs))
        /\ ctx' = ctx \/ \A k \in DOMAIN values(fs) : k \in Keys => ctx'[k] = Value(values(fs)[k])
    BY <1>0, <1>1, <2>2, <2>6, FinishEnds
  <2> QED  BY <1>4, <2>5, <2>7, <2>8 DEF c
<1> QED  BY <1>3, <1>6, <1>7, <1>8

-----------------------------------------------------------------------------
(* The invariant is inductive *)

LEMMA InitRecon == Init => ReconInv
<1> SUFFICES ASSUME Init PROVE ReconInv  OBVIOUS
<1> USE DEF Init, Absent
<1>1. DOMAIN ctx = Keys /\ \A k \in Keys : ctx[k].known = FALSE /\ ctx[k].items = {}
  OBVIOUS
<1>2. /\ Subdomains = {} /\ Hosts = {} /\ AliveHosts = {} /\ HttpEndpoints = {}
      /\ ctx["endpoints"].items = {} /\ ctx["technologies"].items = {}
      /\ ctx["vulnerabilities"].items = {}
      /\ ctx["subdomains"].items = {} /\ ctx["hosts"].items = {}
      /\ ctx["alive_hosts"].items = {} /\ ctx["http_endpoints"].items = {}
  BY <1>1, AllCapabilities DEF Subdomains, Hosts, AliveHosts, HttpEndpoints
<1>3. ReconTypeOK  BY <1>2 DEF ReconTypeOK
<1>4. IsFiniteSet({}) /\ Cardinality({}) = 0  BY FS_EmptySet
<1>5. ReconType  BY <1>1, <1>2, <1>3, <1>4 DEF ReconType
<1>6. OrderInv  BY <1>1, <1>2, AllCapabilities DEF OrderInv
<1>7. AreHosts(Hosts, Names)  BY <1>2 DEF AreHosts
<1>8. LoopInv /\ ResolutionTellsLoss  BY AllCapabilities DEF LoopInv, ResolutionTellsLoss, Usable
<1>9. ExactInv  BY <1>2 DEF ExactInv
<1>10. WithinScope  BY <1>2 DEF WithinScope
<1>11. AliveIsJustified
  <2> DEFINE es    == ctx["http_endpoints"].items
             alive == ctx["alive_hosts"].items
  <2>1. es = {} /\ alive = {}  BY <1>2
  <2> HIDE DEF es, alive
  <2>2. Cardinality(alive) <= Cardinality(es)  BY <2>1, <1>4
  <2>3. /\ \A e \in es : \E h \in alive : e.host \in Identities(h) \/ e.ip \in h.addrs
        /\ \A h \in alive : \E e \in es :
             e.host \in Identities(h) \/ (e.ip \in h.addrs /\ e.host \notin Authority)
        /\ \A e \in es, h \in ctx["hosts"].items : e.host = h.name => h \in alive
    BY <2>1
  <2> QED  BY <2>2, <2>3, Zenon DEF AliveIsJustified, es, alive
<1>12. ErrorsHaveCause  BY DEF ErrorsHaveCause
<1> QED  BY <1>5, <1>6, <1>7, <1>8, <1>9, <1>10, <1>11, <1>12 DEF ReconInv

\* What the end of a capability other than host_resolution leaves alone.
LEMMA EndsKeep ==
  ASSUME ReconInv, NEW c \in Capabilities \ {"host_resolution"}, NEW keys, Ends(c, keys)
  PROVE  /\ exact' = exact /\ custom' = custom /\ pipeline' = pipeline
         /\ todo' = todo /\ hosts' = hosts /\ issues' = issues /\ garbled' = garbled
         /\ c \in pipeline /\ status[c] = "NONE"
         /\ status["host_resolution"] # "RUNNING"
         /\ status'["host_resolution"] = status["host_resolution"]
         /\ \A d \in Capabilities \ {"host_resolution"} : status'[d] # "RUNNING"
         /\ ErrorsHaveCause' /\ LoopInv'
         /\ \A k \in Keys \ keys : ctx'[k] = ctx[k]
<1>1. /\ exact' = exact /\ custom' = custom /\ pipeline' = pipeline
      /\ todo' = todo /\ hosts' = hosts /\ issues' = issues /\ garbled' = garbled
  BY DEF Ends, setting, resolving
<1>2. c \in pipeline /\ status[c] = "NONE" /\ status["host_resolution"] # "RUNNING"
  BY AllCapabilities DEF Ends, Ready
<1>3. /\ status'["host_resolution"] = status["host_resolution"]
      /\ \A d \in Capabilities \ {"host_resolution"} : status'[d] # "RUNNING"
  BY AllCapabilities DEF Ends, Ended, ReconInv, OrderInv
<1>4. ErrorsHaveCause'
  <2> SUFFICES ASSUME ~custom, NEW d \in Capabilities
               PROVE  cause'[d] \notin {"input", "evidence"}
    BY <1>1 DEF ErrorsHaveCause
  <2> QED  BY DEF Ends, ReconInv, ErrorsHaveCause
<1>5. LoopInv'  BY <1>2, <1>3 DEF LoopInv
<1> QED  BY <1>1, <1>2, <1>3, <1>4, <1>5 DEF Ends

\* The last three capabilities touch nothing but their own key.
LEMMA LaterKeeps ==
  ASSUME ReconInv, NEW c \in {"web_crawl", "technology_detection", "vulnerability_detection"},
         NEW k \in {"endpoints", "technologies", "vulnerabilities"}, Ends(c, {k}),
         ReconTypeOK', WithinScope'
  PROVE  ReconInv'
<1>1. c \in Capabilities \ {"host_resolution"}  BY AllCapabilities
<1>2. /\ exact' = exact /\ custom' = custom /\ pipeline' = pipeline
      /\ hosts' = hosts /\ garbled' = garbled
      /\ c \in pipeline /\ status[c] = "NONE"
      /\ status'["host_resolution"] = status["host_resolution"]
      /\ \A d \in Capabilities \ {"host_resolution"} : status'[d] # "RUNNING"
      /\ ErrorsHaveCause' /\ LoopInv'
      /\ \A j \in Keys \ {k} : ctx'[j] = ctx[j]
  BY <1>1, EndsKeep
<1>3. /\ ctx'["subdomains"] = ctx["subdomains"] /\ ctx'["hosts"] = ctx["hosts"]
      /\ ctx'["alive_hosts"] = ctx["alive_hosts"]
      /\ ctx'["http_endpoints"] = ctx["http_endpoints"]
  BY <1>2, AllCapabilities
<1>4. /\ Subdomains' = Subdomains /\ Hosts' = Hosts /\ AliveHosts' = AliveHosts
      /\ HttpEndpoints' = HttpEndpoints /\ Authority' = Authority
  BY <1>3 DEF Subdomains, Hosts, AliveHosts, HttpEndpoints, Authority
<1>5. status'["subdomain_discovery"] = status["subdomain_discovery"]
  BY <1>1, AllCapabilities DEF Ends
<1>6. ReconType'  BY <1>2, <1>4 DEF ReconInv, ReconType, Ends
<1>7. OrderInv'  BY <1>2, <1>3, <1>4, <1>5 DEF ReconInv, OrderInv, Absent
<1>8. AreHosts(Hosts, Names)'  BY <1>2, <1>4 DEF ReconInv, AreHosts
<1>9. ExactInv'  BY <1>2, <1>4 DEF ReconInv, ExactInv
<1>10. AliveIsJustified'  BY <1>3, <1>4 DEF ReconInv, AliveIsJustified
<1>11. ResolutionTellsLoss'  BY <1>2, <1>3 DEF ReconInv, ResolutionTellsLoss
<1> QED  BY <1>2, <1>6, <1>7, <1>8, <1>9, <1>10, <1>11 DEF ReconInv

LEMMA WebCrawlKeeps == ReconInv /\ WebCrawl => ReconInv'
<1> SUFFICES ASSUME ReconInv, WebCrawl PROVE ReconInv'  OBVIOUS
<1> DEFINE c == "web_crawl"
<1>1. Ends(c, {"endpoints"})  BY CrawlEffect
<1>2. /\ exact' = exact /\ custom' = custom /\ pipeline' = pipeline
      /\ todo' = todo /\ garbled' = garbled /\ issues' = issues
      /\ \A j \in Keys \ {"endpoints"} : ctx'[j] = ctx[j]
  BY <1>1, EndsKeep, AllCapabilities
<1>3. \A j \in Keys \ {"endpoints"} : ctx'[j].items = ctx[j].items  BY <1>2
<1>4. /\ ctx'["endpoints"].items \subseteq Endpoint
      /\ ~custom => \A e \in ctx'["endpoints"].items :
                      e.host \in Authority /\ (exact # Broad => IsExactOrigin(e))
  <2>1. /\ ctx["endpoints"].items \subseteq Endpoint
        /\ ~custom => \A e \in ctx["endpoints"].items :
                        e.host \in Authority /\ (exact # Broad => IsExactOrigin(e))
    BY DEF ReconInv, ReconType, ReconTypeOK, WithinScope
  <2>2. CASE ctx'["endpoints"] = ctx["endpoints"]  BY <2>1, <2>2
  <2>3. CASE \E es \in SUBSET Endpoint :
               /\ ctx'["endpoints"] = Value(es)
               /\ ~custom => \A e \in es : e.host \in Authority /\ (exact # Broad => IsExactOrigin(e))
    BY <2>3 DEF Value
  <2> QED  BY <2>2, <2>3, CrawlEffect
<1>5. Authority' = Authority /\ \A e : IsExactOrigin(e)' = IsExactOrigin(e)
  BY <1>2, <1>3, AllCapabilities DEF Authority, IsExactOrigin
<1>6. ReconTypeOK'  BY <1>1, <1>2, <1>3, <1>4, AllCapabilities
  DEF ReconInv, ReconType, ReconTypeOK, Ends
<1>7. WithinScope'
  <2> SUFFICES ASSUME ~custom PROVE WithinScope'  BY <1>2 DEF WithinScope
  <2>1. WithinScope  BY DEF ReconInv
  <2>2. \A e : IsExactOrigin(e)' <=> e.host = exact.host /\ e.origin = exact.origin
    BY <1>2 DEF IsExactOrigin
  <2> QED  BY <2>1, <2>2, <1>2, <1>3, <1>4, <1>5, AllCapabilities DEF WithinScope, IsExactOrigin
<1> QED  BY <1>1, <1>6, <1>7, LaterKeeps

LEMMA TechnologyKeeps == ReconInv /\ TechnologyDetection => ReconInv'
<1> SUFFICES ASSUME ReconInv, TechnologyDetection PROVE ReconInv'  OBVIOUS
<1> DEFINE c == "technology_detection"
<1>1. Ends(c, {"technologies"})  BY TechnologyEffect
<1>2. /\ exact' = exact /\ custom' = custom /\ pipeline' = pipeline
      /\ todo' = todo /\ garbled' = garbled /\ issues' = issues
      /\ \A j \in Keys \ {"technologies"} : ctx'[j] = ctx[j]
  BY <1>1, EndsKeep, AllCapabilities
<1>3. \A j \in Keys \ {"technologies"} : ctx'[j].items = ctx[j].items  BY <1>2
<1>4. /\ ctx'["technologies"].items \subseteq Technology
      /\ ~custom => \A t \in ctx'["technologies"].items :
           t.source.host \in Authority /\ (exact # Broad => IsExactOrigin(t.source))
  <2>1. /\ ctx["technologies"].items \subseteq Technology
        /\ ~custom => \A t \in ctx["technologies"].items :
             t.source.host \in Authority /\ (exact # Broad => IsExactOrigin(t.source))
    BY DEF ReconInv, ReconType, ReconTypeOK, WithinScope
  <2>2. CASE ctx'["technologies"] = ctx["technologies"]  BY <2>1, <2>2
  <2>3. CASE \E ts \in SUBSET Technology :
               /\ ctx'["technologies"] = Value(ts)
               /\ ~custom => \A t \in ts :
                    t.source.host \in Authority /\ (exact # Broad => IsExactOrigin(t.source))
    BY <2>3 DEF Value
  <2> QED  BY <2>2, <2>3, TechnologyEffect
<1>5. Authority' = Authority  BY <1>3, AllCapabilities DEF Authority
<1>6. ReconTypeOK'  BY <1>1, <1>2, <1>3, <1>4, AllCapabilities
  DEF ReconInv, ReconType, ReconTypeOK, Ends
<1>7. WithinScope'
  <2> SUFFICES ASSUME ~custom PROVE WithinScope'  BY <1>2 DEF WithinScope
  <2>1. WithinScope  BY DEF ReconInv
  <2> QED  BY <2>1, <1>2, <1>3, <1>4, <1>5, AllCapabilities DEF WithinScope, IsExactOrigin
<1> QED  BY <1>1, <1>6, <1>7, LaterKeeps

LEMMA VulnerabilityKeeps == ReconInv /\ VulnerabilityDetection => ReconInv'
<1> SUFFICES ASSUME ReconInv, VulnerabilityDetection PROVE ReconInv'  OBVIOUS
<1> DEFINE c == "vulnerability_detection"
<1>1. Ends(c, {"vulnerabilities"})  BY VulnerabilityEffect
<1>2. /\ exact' = exact /\ custom' = custom /\ pipeline' = pipeline
      /\ todo' = todo /\ garbled' = garbled /\ issues' = issues
      /\ \A j \in Keys \ {"vulnerabilities"} : ctx'[j] = ctx[j]
  BY <1>1, EndsKeep, AllCapabilities
<1>3. \A j \in Keys \ {"vulnerabilities"} : ctx'[j].items = ctx[j].items  BY <1>2
<1>4. /\ ctx'["vulnerabilities"].items \subseteq Finding
      /\ ~custom => \A f \in ctx'["vulnerabilities"].items : f.target.host \in Authority
  <2>1. /\ ctx["vulnerabilities"].items \subseteq Finding
        /\ ~custom => \A f \in ctx["vulnerabilities"].items : f.target.host \in Authority
    BY DEF ReconInv, ReconType, ReconTypeOK, WithinScope
  <2>2. CASE ctx'["vulnerabilities"] = ctx["vulnerabilities"]  BY <2>1, <2>2
  <2>3. CASE \E fs \in SUBSET Finding :
               /\ ctx'["vulnerabilities"] = Value(fs)
               /\ ~custom => \A f \in fs : f.target.host \in Authority
    BY <2>3 DEF Value
  <2> QED  BY <2>2, <2>3, VulnerabilityEffect
<1>5. Authority' = Authority  BY <1>3, AllCapabilities DEF Authority
<1>6. ReconTypeOK'  BY <1>1, <1>2, <1>3, <1>4, AllCapabilities
  DEF ReconInv, ReconType, ReconTypeOK, Ends
<1>7. WithinScope'
  <2> SUFFICES ASSUME ~custom PROVE WithinScope'  BY <1>2 DEF WithinScope
  <2>1. WithinScope  BY DEF ReconInv
  <2> QED  BY <2>1, <1>2, <1>3, <1>4, <1>5, AllCapabilities DEF WithinScope, IsExactOrigin
<1> QED  BY <1>1, <1>6, <1>7, LaterKeeps

\* subdomain_discovery publishes names before there is anything to be named.
LEMMA SubdomainKeeps == ReconInv /\ SubdomainDiscovery => ReconInv'
<1> SUFFICES ASSUME ReconInv, SubdomainDiscovery PROVE ReconInv'  OBVIOUS
<1> DEFINE c == "subdomain_discovery"
<1>1. Ends(c, {"subdomains"})  BY SubdomainEffect
<1>2. /\ exact' = exact /\ custom' = custom /\ pipeline' = pipeline
      /\ todo' = todo /\ hosts' = hosts /\ issues' = issues /\ garbled' = garbled
      /\ c \in pipeline /\ status[c] = "NONE"
      /\ status["host_resolution"] # "RUNNING"
      /\ status'["host_resolution"] = status["host_resolution"]
      /\ \A d \in Capabilities \ {"host_resolution"} : status'[d] # "RUNNING"
      /\ ErrorsHaveCause' /\ LoopInv'
      /\ \A j \in Keys \ {"subdomains"} : ctx'[j] = ctx[j]
  BY <1>1, EndsKeep, AllCapabilities
<1>3. \A j \in Keys \ {"subdomains"} : ctx'[j].items = ctx[j].items  BY <1>2
<1>4. /\ ctx'["subdomains"].items \subseteq Names /\ IsFiniteSet(ctx'["subdomains"].items)
      /\ ~custom => ctx'["subdomains"].items \subseteq InScope
      /\ exact # Broad => ctx'["subdomains"].items \subseteq {exact.host}
  <2>1. /\ ctx["subdomains"].items \subseteq Names /\ IsFiniteSet(ctx["subdomains"].items)
        /\ ~custom => ctx["subdomains"].items \subseteq InScope
        /\ exact # Broad => ctx["subdomains"].items \subseteq {exact.host}
    BY DEF ReconInv, ReconType, ReconTypeOK, WithinScope, ExactInv, Subdomains
  <2>2. CASE ctx'["subdomains"] = ctx["subdomains"]  BY <2>1, <2>2
  <2>3. CASE \E ns \in SUBSET Names :
               /\ ctx'["subdomains"] = Value(ns) /\ IsFiniteSet(ns)
               /\ ~custom => ns \subseteq InScope
               /\ exact # Broad => ns \subseteq {exact.host}
    BY <2>3 DEF Value
  <2> QED  BY <2>2, <2>3, SubdomainEffect
<1>5. Authority' = Authority /\ Hosts' = Hosts /\ AliveHosts' = AliveHosts
      /\ HttpEndpoints' = HttpEndpoints /\ ctx'["hosts"] = ctx["hosts"]
  BY <1>2, <1>3, AllCapabilities DEF Authority, Hosts, AliveHosts, HttpEndpoints
<1>6. status["host_resolution"] = "NONE" /\ ctx["hosts"] = Absent
  BY <1>2 DEF ReconInv, OrderInv
<1>7. Hosts = {} /\ ctx["hosts"].items = {}  BY <1>6 DEF Hosts, Absent
<1>8. ReconTypeOK'  BY <1>1, <1>2, <1>3, <1>4, AllCapabilities
  DEF ReconInv, ReconType, ReconTypeOK, Ends
<1>9. ReconType'  BY <1>1, <1>2, <1>4, <1>5, <1>8
  DEF ReconInv, ReconType, Ends, Subdomains
<1>10. status'[c] # "NONE"  BY <1>1 DEF Ends, Ended
<1>11. OrderInv'  BY <1>2, <1>5, <1>6, <1>10 DEF ReconInv, OrderInv, Absent
<1>12. AreHosts(Hosts, Names)'  BY <1>2, <1>5 DEF ReconInv, AreHosts
<1>13. ExactInv'  BY <1>2, <1>4 DEF ExactInv, Subdomains
<1>14. WithinScope'
  <2> SUFFICES ASSUME ~custom PROVE WithinScope'  BY <1>2 DEF WithinScope
  <2>1. WithinScope  BY DEF ReconInv
  <2> QED  BY <2>1, <1>2, <1>3, <1>4, <1>5, <1>7, AllCapabilities DEF WithinScope, IsExactOrigin
<1>15. AliveIsJustified'
  <2>1. AliveIsJustified  BY DEF ReconInv
  <2> QED  BY <2>1, <1>3, <1>5, AllCapabilities DEF AliveIsJustified
<1>16. ResolutionTellsLoss'  BY <1>2, <1>6 DEF ResolutionTellsLoss, Usable
<1> QED  BY <1>2, <1>9, <1>11, <1>12, <1>13, <1>14, <1>15, <1>16 DEF ReconInv

\* The host an endpoint stands for: it has the endpoint's identity, or else its
\* address; it is one of the hosts asked for where one of them has the identity,
\* and the one of that name where there is one.
LEMMA AliveForIs ==
  ASSUME NEW hs, AreHosts(hs, Names), NEW e \in HttpEndpoint
  PROVE  /\ \/ e.host \in Identities(AliveFor(e, hs))
            \/ e.ip \in AliveFor(e, hs).addrs /\ e.host \notin AliasesOf(hs)
         /\ e.host \in AliasesOf(hs) => AliveFor(e, hs) \in hs
         /\ \A h \in hs : e.host = h.name => AliveFor(e, hs) = h
<1>1. /\ \A h \in hs : h.name \in Names /\ h.addrs \subseteq Addresses
      /\ \A g, h \in hs : g.name = h.name => g = h
      /\ \A h \in hs : Identities(h) = {h.name} \cup h.addrs
      /\ \A x : x \in AliasesOf(hs) <=> \E h \in hs : x \in Identities(h)
  BY AliasesAre DEF AreHosts
<1>2. /\ Names \subseteq Nat /\ Names \cap Addresses = {} /\ Nobody \notin Identity
      /\ e.host \in Names \cup Addresses /\ e.ip \in Addresses \cup {Nobody}
  BY ReconAssumption DEF HttpEndpoint, Identity
<1>3. \A id : Source(id, hs) # {} => Least(Source(id, hs)) \in Source(id, hs)
  <2> SUFFICES ASSUME NEW id, Source(id, hs) # {} PROVE Least(Source(id, hs)) \in Source(id, hs)
    OBVIOUS
  <2>1. \A h \in Source(id, hs) : h.name \in Nat  BY <1>1, <1>2 DEF Source
  <2> QED  BY <2>1, LeastIsOne
<1>4. \A id : Source(id, hs) # {} =>
        Least(Source(id, hs)) \in hs /\ id \in Identities(Least(Source(id, hs)))
  BY <1>3 DEF Source
<1>5. \A id : Source(id, hs) = {} <=> id \notin AliasesOf(hs)  BY <1>1 DEF Source
<1>6. CASE Source(e.host, hs) # {}
  <2>1. AliveFor(e, hs) = Least(Source(e.host, hs))  BY <1>6 DEF AliveFor
  <2>2. ASSUME NEW h \in hs, e.host = h.name PROVE AliveFor(e, hs) = h
    <3>1. e.host \notin Addresses  BY <1>1, <1>2, <2>2
    <3> DEFINE g == Least(Source(e.host, hs))
    <3>2. g \in hs /\ e.host \in Identities(g)  BY <1>4, <1>6
    <3> HIDE DEF g
    <3>3. e.host \in {g.name} \cup g.addrs /\ g.addrs \subseteq Addresses  BY <1>1, <3>2
    <3>4. g = h  BY <1>1, <2>2, <3>1, <3>2, <3>3
    <3> QED  BY <2>1, <3>4 DEF g
  <2> QED  BY <1>4, <1>6, <2>1, <2>2
<1>7. CASE Source(e.host, hs) = {} /\ e.ip # Nobody /\ Source(e.ip, hs) # {}
  <2> DEFINE g == Least(Source(e.ip, hs))
  <2>1. AliveFor(e, hs) = g  BY <1>7 DEF AliveFor
  <2>2. g \in hs /\ e.ip \in Identities(g)  BY <1>4, <1>7
  <2> HIDE DEF g
  <2>3. e.ip \in Addresses  BY <1>2, <1>7
  <2>4. e.ip \in g.addrs
    <3>1. e.ip \in {g.name} \cup g.addrs /\ g.name \in Names  BY <1>1, <2>2
    <3> QED  BY <3>1, <2>3, <1>2
  <2>5. \A h \in hs : e.host # h.name  BY <1>1, <1>5, <1>7
  <2> QED  BY <1>5, <1>7, <2>1, <2>4, <2>5
<1>8. CASE Source(e.host, hs) = {} /\ ~(e.ip # Nobody /\ Source(e.ip, hs) # {})
  <2>1. AliveFor(e, hs) = IF e.host \in Addresses THEN [name |-> Nobody, addrs |-> {e.host}]
                          ELSE [name |-> e.host, addrs |-> {e.ip} \ {Nobody}]
    BY <1>8, Zenon DEF AliveFor
  <2>2. e.host # Nobody  BY <1>2 DEF Identity
  <2>3. e.host \in Identities(AliveFor(e, hs))
    <3>1. CASE e.host \in Addresses  BY <2>1, <3>1 DEF Identities
    <3>2. CASE e.host \notin Addresses  BY <2>1, <2>2, <3>2 DEF Identities
    <3> QED  BY <3>1, <3>2
  <2>4. \A h \in hs : e.host # h.name  BY <1>1, <1>5, <1>8
  <2> QED  BY <1>5, <1>8, <2>3, <2>4
<1> QED  BY <1>6, <1>7, <1>8

\* The hosts derived from endpoints are justified by them.
LEMMA DerivedAreJustified ==
  ASSUME NEW hs, AreHosts(hs, Names), NEW es \in SUBSET HttpEndpoint, IsFiniteSet(es),
         NEW alive, \A e \in es : AliveFor(e, hs) \in alive,
         \A h \in alive : \E e \in es : h = AliveFor(e, hs)
  PROVE  /\ \A e \in es : \E h \in alive : e.host \in Identities(h) \/ e.ip \in h.addrs
         /\ \A h \in alive : \E e \in es :
              e.host \in Identities(h) \/ (e.ip \in h.addrs /\ e.host \notin AliasesOf(hs))
         /\ \A e \in es, h \in hs : e.host = h.name => h \in alive
         /\ Cardinality(alive) <= Cardinality(es)
<1>1. \A e \in es :
        /\ \/ e.host \in Identities(AliveFor(e, hs))
           \/ e.ip \in AliveFor(e, hs).addrs /\ e.host \notin AliasesOf(hs)
        /\ \A h \in hs : e.host = h.name => AliveFor(e, hs) = h
  BY AliveForIs
<1>2. Cardinality(alive) <= Cardinality(es)
  <2> DEFINE f == [e \in es |-> AliveFor(e, hs)]
  <2>1. DOMAIN f = es /\ alive = {f[e] : e \in es}  OBVIOUS
  <2> HIDE DEF f
  <2> QED  BY <2>1, ImageIsSmaller
<1>3. \A e \in es : \E h \in alive : e.host \in Identities(h) \/ e.ip \in h.addrs
  BY <1>1
<1>4. \A h \in alive : \E e \in es :
        e.host \in Identities(h) \/ (e.ip \in h.addrs /\ e.host \notin AliasesOf(hs))
  BY <1>1
<1>5. \A e \in es, h \in hs : e.host = h.name => h \in alive  BY <1>1
<1> QED  BY <1>2, <1>3, <1>4, <1>5

LEMMA HttpProbeKeeps == ReconInv /\ HttpProbe => ReconInv'
<1> SUFFICES ASSUME ReconInv, HttpProbe PROVE ReconInv'  OBVIOUS
<1> DEFINE c == "http_probe"
           keys == {"alive_hosts", "http_endpoints"}
<1>1. Ends(c, keys)  BY ProbeEffect
<1>2. /\ exact' = exact /\ custom' = custom /\ pipeline' = pipeline
      /\ todo' = todo /\ hosts' = hosts /\ issues' = issues /\ garbled' = garbled
      /\ status'["host_resolution"] = status["host_resolution"]
      /\ \A d \in Capabilities \ {"host_resolution"} : status'[d] # "RUNNING"
      /\ ErrorsHaveCause' /\ LoopInv'
      /\ \A j \in Keys \ keys : ctx'[j] = ctx[j]
  BY <1>1, EndsKeep, AllCapabilities
<1>3. \A j \in Keys \ keys : ctx'[j].items = ctx[j].items  BY <1>2
<1>4. /\ Authority' = Authority /\ Hosts' = Hosts /\ Subdomains' = Subdomains
      /\ ctx'["hosts"] = ctx["hosts"] /\ ctx'["subdomains"] = ctx["subdomains"]
      /\ Authority = AliasesOf(Hosts)
  BY <1>2, <1>3, AllCapabilities DEF Authority, Hosts, Subdomains
<1>5. status'["subdomain_discovery"] = status["subdomain_discovery"]
  BY <1>1, AllCapabilities DEF Ends
<1>6. AreHosts(Hosts, Names)  BY DEF ReconInv
<1>7. /\ HttpEndpoints' \subseteq HttpEndpoint /\ IsFiniteSet(HttpEndpoints')
      /\ Hosts = {} => AliveHosts' = {} /\ HttpEndpoints' = {}
      /\ ~custom => /\ AliveHosts' \subseteq Hosts
                    /\ \A e \in HttpEndpoints' :
                         e.host \in Authority
                         /\ (exact # Broad => IsExactOrigin(e) /\ e.ip = exact.ip)
      /\ \A e \in HttpEndpoints' : \E h \in AliveHosts' :
           e.host \in Identities(h) \/ e.ip \in h.addrs
      /\ \A h \in AliveHosts' : \E e \in HttpEndpoints' :
           e.host \in Identities(h) \/ (e.ip \in h.addrs /\ e.host \notin Authority)
      /\ \A e \in HttpEndpoints', h \in Hosts : e.host = h.name => h \in AliveHosts'
      /\ Cardinality(AliveHosts') <= Cardinality(HttpEndpoints')
  <2>1. CASE ctx'["alive_hosts"] = ctx["alive_hosts"]
             /\ ctx'["http_endpoints"] = ctx["http_endpoints"]
    <3>1. AliveHosts' = AliveHosts /\ HttpEndpoints' = HttpEndpoints
      BY <2>1 DEF AliveHosts, HttpEndpoints
    <3>2. HttpEndpoints \subseteq HttpEndpoint /\ IsFiniteSet(HttpEndpoints)
      BY DEF ReconInv, ReconType, ReconTypeOK, HttpEndpoints
    <3>3. Hosts = {} => AliveHosts = {} /\ HttpEndpoints = {}  BY DEF ReconInv, OrderInv
    <3>4. ~custom => /\ AliveHosts \subseteq Hosts
                     /\ \A e \in HttpEndpoints :
                          e.host \in Authority
                          /\ (exact # Broad => IsExactOrigin(e) /\ e.ip = exact.ip)
      BY DEF ReconInv, WithinScope, HttpEndpoints, AliveHosts, Hosts
    <3>6. AliveIsJustified  BY DEF ReconInv
    <3> QED  BY <3>1, <3>2, <3>3, <3>4, <3>6 DEF AliveIsJustified, HttpEndpoints, AliveHosts, Hosts
  <2>2. CASE \E es \in SUBSET HttpEndpoint :
               /\ ctx'["alive_hosts"] = Value({AliveFor(e, Hosts) : e \in es})
               /\ ctx'["http_endpoints"] = Value(es)
               /\ IsFiniteSet(es) /\ (Hosts = {} => es = {})
               /\ ~custom => \A e \in es : HttpxApproves(e, Hosts) /\ e.host \in Authority
    <3>1. PICK es \in SUBSET HttpEndpoint :
               /\ ctx'["alive_hosts"] = Value({AliveFor(e, Hosts) : e \in es})
               /\ ctx'["http_endpoints"] = Value(es)
               /\ IsFiniteSet(es) /\ (Hosts = {} => es = {})
               /\ ~custom => \A e \in es : HttpxApproves(e, Hosts) /\ e.host \in Authority
      BY <2>2
    <3> DEFINE alive == {AliveFor(e, Hosts) : e \in es}
    <3>2. AliveHosts' = alive /\ HttpEndpoints' = es
      BY <3>1 DEF AliveHosts, HttpEndpoints, Value
    <3>3. Hosts = {} => alive = {} /\ es = {}  BY <3>1
    <3>4. ~custom => /\ alive \subseteq Hosts
                     /\ \A e \in es : e.host \in Authority
                          /\ (exact # Broad => IsExactOrigin(e) /\ e.ip = exact.ip)
      BY <1>4, <1>6, <3>1, AliveForIs DEF HttpxApproves
    <3>5. /\ \A e \in es : AliveFor(e, Hosts) \in alive
          /\ \A h \in alive : \E e \in es : h = AliveFor(e, Hosts)
      OBVIOUS
    <3> HIDE DEF alive
    <3>6. /\ \A e \in es : \E h \in alive : e.host \in Identities(h) \/ e.ip \in h.addrs
          /\ \A h \in alive : \E e \in es :
               e.host \in Identities(h) \/ (e.ip \in h.addrs /\ e.host \notin AliasesOf(Hosts))
          /\ \A e \in es, h \in Hosts : e.host = h.name => h \in alive
          /\ Cardinality(alive) <= Cardinality(es)
      <4>1. IsFiniteSet(es) /\ es \in SUBSET HttpEndpoint  BY <3>1
      <4>2. Cardinality(alive) <= Cardinality(es)
        BY <1>6, <4>1, <3>5, DerivedAreJustified
      <4>3. \A e \in es, h \in Hosts : e.host = h.name => h \in alive
        BY <1>6, <4>1, <3>5, DerivedAreJustified
      <4>4. \A e \in es : \E h \in alive : e.host \in Identities(h) \/ e.ip \in h.addrs
        BY <1>6, <4>1, <3>5, DerivedAreJustified
      <4>5. \A h \in alive : \E e \in es :
               e.host \in Identities(h) \/ (e.ip \in h.addrs /\ e.host \notin AliasesOf(Hosts))
        BY <1>6, <4>1, <3>5, DerivedAreJustified
      <4> QED  BY <4>2, <4>3, <4>4, <4>5
    <3> QED  BY <1>4, <3>1, <3>2, <3>3, <3>4, <3>6
  <2> QED  BY <2>1, <2>2, ProbeEffect
<1>8. ReconTypeOK'  BY <1>1, <1>2, <1>3, <1>7, AllCapabilities
  DEF ReconInv, ReconType, ReconTypeOK, Ends, HttpEndpoints
<1>9. ReconType'  BY <1>1, <1>2, <1>4, <1>7, <1>8 DEF ReconInv, ReconType, Ends
<1>10. OrderInv'  BY <1>2, <1>4, <1>5, <1>7 DEF ReconInv, OrderInv, Absent
<1>11. AreHosts(Hosts, Names)'  BY <1>2, <1>4 DEF ReconInv, AreHosts
<1>12. ExactInv'  BY <1>2, <1>4 DEF ReconInv, ExactInv
<1>13. WithinScope'
  <2> SUFFICES ASSUME ~custom PROVE WithinScope'  BY <1>2 DEF WithinScope
  <2>1. WithinScope  BY DEF ReconInv
  <2>2. /\ ctx'["alive_hosts"].items \subseteq ctx'["hosts"].items
        /\ \A e \in ctx'["http_endpoints"].items : e.host \in Authority
             /\ (exact # Broad => IsExactOrigin(e) /\ e.ip = exact.ip)
    BY <1>4, <1>7 DEF AliveHosts, HttpEndpoints, Hosts
  <2> QED  BY <2>1, <2>2, <1>2, <1>3, <1>4, AllCapabilities DEF WithinScope, IsExactOrigin
<1>14. AliveIsJustified'
  <2> QED  BY <1>4, <1>7 DEF AliveIsJustified, AliveHosts, HttpEndpoints, Hosts
<1>15. ResolutionTellsLoss'  BY <1>2, <1>4 DEF ReconInv, ResolutionTellsLoss
<1> QED  BY <1>2, <1>9, <1>10, <1>11, <1>12, <1>13, <1>14, <1>15 DEF ReconInv

\* While host_resolution has not ended, its hosts are not there and neither is
\* anything found at one: a step of it need only account for what it does itself.
LEMMA ResolutionKeeps ==
  ASSUME ReconInv, status["host_resolution"] \in {"NONE", "RUNNING"}, UNCHANGED setting,
         todo' \cup garbled' \subseteq Names, issues' \in Nat,
         status' \in [Capabilities -> {"NONE", "RUNNING", "SUCCESS", "PARTIAL", "FAILURE", "ERROR"}],
         status'["host_resolution"] # "NONE",
         \A d \in Capabilities \ {"host_resolution"} : status'[d] = status[d],
         "subdomain_discovery" \in pipeline => status["subdomain_discovery"] # "NONE",
         cause' \in [Capabilities -> {"none", "provider", "input", "evidence", "limit"}],
         ErrorsHaveCause', DOMAIN ctx' = Keys,
         \A k \in Keys \ {"hosts"} : ctx'[k] = ctx[k],
         AreHosts(Hosts', Subdomains),
         status'["host_resolution"] = "RUNNING" => ctx'["hosts"] = Absent,
         LoopInv', ResolutionTellsLoss'
  PROVE  ReconInv'
<1>1. exact' = exact /\ custom' = custom /\ pipeline' = pipeline  BY DEF setting
<1>2. \A k \in Keys \ {"hosts"} : ctx'[k].items = ctx[k].items  OBVIOUS
<1>3. /\ Subdomains' = Subdomains /\ AliveHosts' = AliveHosts /\ HttpEndpoints' = HttpEndpoints
      /\ ctx'["endpoints"].items = ctx["endpoints"].items
      /\ ctx'["technologies"].items = ctx["technologies"].items
      /\ ctx'["vulnerabilities"].items = ctx["vulnerabilities"].items
  BY <1>2, AllCapabilities DEF Subdomains, AliveHosts, HttpEndpoints
<1>4. Hosts = {} /\ AliveHosts = {} /\ HttpEndpoints = {}
  BY DEF ReconInv, OrderInv, Absent, Hosts
<1>5. Authority = {}  BY <1>4 DEF Authority, AliasesOf, Hosts
<1>6. ReconTypeOK'  BY <1>1, <1>3 DEF ReconInv, ReconType, ReconTypeOK, Subdomains, HttpEndpoints
<1>7. ReconType'  BY <1>1, <1>3, <1>6 DEF ReconInv, ReconType
<1>8. OrderInv'
  <2>1. \A d \in Capabilities \ {"host_resolution"} : status'[d] # "RUNNING"
    BY DEF ReconInv, OrderInv
  <2>2. "subdomain_discovery" \in pipeline => status'["subdomain_discovery"] # "NONE"
    BY AllCapabilities
  <2> QED  BY <1>1, <1>3, <1>4, <2>1, <2>2 DEF OrderInv, Absent
<1>9. AreHosts(Hosts, Names)'  BY <1>1 DEF AreHosts
<1>10. ExactInv'  BY <1>1, <1>3 DEF ReconInv, ExactInv
<1>11. WithinScope'
  <2> SUFFICES ASSUME ~custom PROVE WithinScope'  BY <1>1 DEF WithinScope
  <2>1. /\ ctx["subdomains"].items \subseteq InScope
        /\ \A e \in ctx["endpoints"].items : e.host \in Authority
        /\ \A t \in ctx["technologies"].items : t.source.host \in Authority
        /\ \A f \in ctx["vulnerabilities"].items : f.target.host \in Authority
    BY DEF ReconInv, WithinScope
  <2>2. /\ ctx'["subdomains"].items \subseteq InScope
        /\ ctx'["alive_hosts"].items = {} /\ ctx'["http_endpoints"].items = {}
        /\ ctx'["endpoints"].items = {} /\ ctx'["technologies"].items = {}
        /\ ctx'["vulnerabilities"].items = {}
    BY <1>3, <1>4, <1>5, <2>1 DEF Subdomains, AliveHosts, HttpEndpoints
  <2>3. {h.name : h \in ctx'["hosts"].items} \subseteq ctx'["subdomains"].items
    BY <1>3 DEF AreHosts, Hosts, Subdomains
  <2> QED  BY <2>2, <2>3 DEF WithinScope
<1>12. AliveIsJustified'
  <2> DEFINE es    == ctx'["http_endpoints"].items
             alive == ctx'["alive_hosts"].items
  <2>1. es = {} /\ alive = {}  BY <1>3, <1>4 DEF AliveHosts, HttpEndpoints
  <2> HIDE DEF es, alive
  <2>2. Cardinality(alive) <= Cardinality(es)  BY <2>1, FS_EmptySet
  <2>3. /\ \A e \in es : \E h \in alive : e.host \in Identities(h) \/ e.ip \in h.addrs
        /\ \A h \in alive : \E e \in es :
             e.host \in Identities(h) \/ (e.ip \in h.addrs /\ e.host \notin Authority')
        /\ \A e \in es, h \in ctx'["hosts"].items : e.host = h.name => h \in alive
    BY <2>1
  <2> QED  BY <2>2, <2>3, Zenon DEF AliveIsJustified, es, alive
<1> QED  BY <1>7, <1>8, <1>9, <1>10, <1>11, <1>12 DEF ReconInv

\* While names are still being resolved nothing but the loop's own state moves.
LEMMA LoopKeeps ==
  ASSUME ReconInv, Resolving, Unfinished, todo' \cup garbled' \subseteq Names, issues' \in Nat,
         LoopInv'
  PROVE  ReconInv'
<1>1. status["host_resolution"] = "RUNNING"  BY DEF Resolving
<1>2. /\ UNCHANGED setting /\ status' = status /\ cause' = cause /\ ctx' = ctx
      /\ custom' = custom
  BY DEF Unfinished, setting
<1>3. ReconType /\ OrderInv /\ ErrorsHaveCause  BY DEF ReconInv
<1>4. ctx["hosts"] = Absent /\ Hosts = {} /\ Hosts' = {}
  BY <1>1, <1>2, <1>3 DEF OrderInv, Absent, Hosts
<1>5. AreHosts(Hosts', Subdomains)  BY <1>4 DEF AreHosts
<1>6. ErrorsHaveCause' /\ ResolutionTellsLoss'
  BY <1>1, <1>2, <1>3 DEF ErrorsHaveCause, ResolutionTellsLoss, Usable
<1>7. "subdomain_discovery" \in pipeline => status["subdomain_discovery"] # "NONE"
  BY <1>1, <1>3 DEF OrderInv
<1> QED  BY <1>1, <1>2, <1>3, <1>4, <1>5, <1>6, <1>7, ResolutionKeeps
         DEF ReconType, ReconTypeOK

LEMMA MalformationIsOne ==
  ASSUME NEW answer
  PROVE  /\ Malformation(answer) = {} => Cardinality(Malformation(answer)) = 0
         /\ Malformation(answer) # {} => Cardinality(Malformation(answer)) = 1
<1>1. Malformation(answer) # {} => Malformation(answer) = {Malformed}  BY DEF Malformation
<1> QED  BY <1>1, FS_EmptySet, FS_Singleton

\* The first of the names still to be resolved.
LEMMA NextName ==
  ASSUME ReconInv, Resolving
  PROVE  /\ Min(todo) \in todo /\ Min(todo) \in Names /\ Min(todo) \in Subdomains
         /\ Min(todo) \notin NamesOf(hosts) /\ issues \in Nat
         /\ todo \subseteq Subdomains \ Invalid /\ todo \cup garbled \subseteq Names
<1>1. /\ todo # {} /\ todo \cup garbled \subseteq Names /\ issues \in Nat
  BY DEF ReconInv, ReconType, ReconTypeOK, Resolving
<1>2. todo \subseteq Subdomains \ Invalid /\ NamesOf(hosts) \cap todo = {}
  BY DEF ReconInv, LoopInv, Resolving
<1>3. Min(todo) \in todo  BY <1>1, ReconAssumption, MinIsLeast
<1> QED  BY <1>1, <1>2, <1>3

LEMMA UnresolvedKeeps == ReconInv /\ Unresolved => ReconInv'
<1> SUFFICES ASSUME ReconInv, Unresolved PROVE ReconInv'  OBVIOUS
<1> DEFINE m == Min(todo)
<1>1. Resolving /\ Unfinished /\ hosts' = hosts /\ todo' = todo \ {m}  BY DEF Unresolved
<1>2. PICK answer \in {a \in Resolutions : a \cap Addresses = {}} \cup {{}} :
        /\ issues' = issues + 1 + 2 * Cardinality(Malformation(answer))
        /\ garbled' = IF Malformation(answer) = {} THEN garbled ELSE garbled \cup {m}
  BY DEF Unresolved
<1>3. /\ m \in todo /\ m \in Names /\ m \notin NamesOf(hosts) /\ issues \in Nat
      /\ todo \cup garbled \subseteq Names /\ m \in Subdomains
  BY <1>1, NextName
<1> HIDE DEF m
<1>4. issues' \in Nat /\ issues' # 0  BY <1>2, <1>3, MalformationIsOne
<1>5. todo' \cup garbled' \subseteq Names  BY <1>1, <1>2, <1>3
<1>6. LoopInv'
  <2>1. exact' = exact /\ Subdomains' = Subdomains /\ status' = status
    BY <1>1 DEF Unfinished, setting, Subdomains
  <2>2. LoopInv /\ status["host_resolution"] = "RUNNING"  BY <1>1 DEF ReconInv, Resolving
  <2>3. AreHosts(hosts, Subdomains)'  BY <1>1, <2>1, <2>2 DEF LoopInv, AreHosts
  <2>4. NamesOf(hosts)' = NamesOf(hosts)  BY <1>1 DEF NamesOf
  <2>5. NamesOf(hosts) # Subdomains \ todo'  BY <1>1, <1>3
  <2> QED  BY <1>1, <1>4, <2>1, <2>2, <2>3, <2>4, <2>5 DEF LoopInv
<1> QED  BY <1>1, <1>4, <1>5, <1>6, LoopKeeps

LEMMA ResolvedKeeps == ReconInv /\ Resolved => ReconInv'
<1> SUFFICES ASSUME ReconInv, Resolved PROVE ReconInv'  OBVIOUS
<1> DEFINE m == Min(todo)
<1>1. Resolving /\ Unfinished /\ todo' = todo \ {m}  BY DEF Resolved
<1>2. PICK answer \in IF exact # Broad THEN {LocalAnswer} ELSE Resolutions :
        /\ answer \cap Addresses # {}
        /\ hosts' = hosts \cup {[name |-> m, addrs |-> answer \cap Addresses]}
        /\ issues' = issues + 2 * Cardinality(Malformation(answer))
        /\ garbled' = IF Malformation(answer) = {} THEN garbled ELSE garbled \cup {m}
  BY DEF Resolved
<1>3. /\ m \in todo /\ m \in Names /\ m \notin NamesOf(hosts) /\ issues \in Nat
      /\ todo \cup garbled \subseteq Names /\ m \in Subdomains
  BY <1>1, NextName
<1> HIDE DEF m
<1>4. /\ issues' \in Nat
      /\ Malformation(answer) = {} => issues' = issues /\ garbled' = garbled
      /\ Malformation(answer) # {} => issues' # 0 /\ garbled' # {}
  <2>1. issues' = issues + 2 * Cardinality(Malformation(answer))  BY <1>2
  <2>2. CASE Malformation(answer) = {}
    <3>1. Cardinality(Malformation(answer)) = 0  BY <2>2, MalformationIsOne
    <3> QED  BY <1>2, <1>3, <2>1, <2>2, <3>1
  <2>3. CASE Malformation(answer) # {}
    <3>1. Cardinality(Malformation(answer)) = 1  BY <2>3, MalformationIsOne
    <3>2. garbled' # {}  BY <1>2, <2>3
    <3> QED  BY <1>3, <2>1, <2>3, <3>1, <3>2
  <2> QED  BY <2>2, <2>3
<1>5. todo' \cup garbled' \subseteq Names  BY <1>1, <1>2, <1>3
<1>6. exact # Broad => m = exact.host /\ answer \cap Addresses = {exact.ip}
  <2> SUFFICES ASSUME exact # Broad PROVE m = exact.host /\ answer \cap Addresses = {exact.ip}
    OBVIOUS
  <2>1. Subdomains \subseteq {exact.host}  BY DEF ReconInv, ExactInv
  <2>2. exact \in Exact  BY DEF ReconInv, ReconType, ReconTypeOK
  <2> QED  BY <1>2, <1>3, <2>1, <2>2, ReconAssumption DEF LocalAnswer
<1>7. LoopInv'
  <2> DEFINE h == [name |-> m, addrs |-> answer \cap Addresses]
  <2>1. exact' = exact /\ Subdomains' = Subdomains /\ status' = status
    BY <1>1 DEF Unfinished, setting, Subdomains
  <2>2. LoopInv /\ status["host_resolution"] = "RUNNING"  BY <1>1 DEF ReconInv, Resolving
  <2>3. /\ h.name = m /\ h.addrs = answer \cap Addresses /\ hosts' = hosts \cup {h}
        /\ exact # Broad => h = [name |-> exact.host, addrs |-> {exact.ip}]
    BY <1>2, <1>6
  <2> HIDE DEF h
  <2>4. \A g \in hosts : g.name # m  BY <1>3 DEF NamesOf
  <2>5. AreHosts(hosts', Subdomains)
    BY <1>2, <1>3, <2>2, <2>3, <2>4 DEF LoopInv, AreHosts
  <2>6. AreHosts(hosts, Subdomains)'  BY <2>1, <2>5 DEF AreHosts
  <2>7. NamesOf(hosts)' = NamesOf(hosts) \cup {m}  BY <2>3 DEF NamesOf
  <2>8. NamesOf(hosts)' = Subdomains \ todo' <=> NamesOf(hosts) = Subdomains \ todo
    <3>1. NamesOf(hosts) \cap todo = {} /\ todo \subseteq Subdomains  BY <2>2 DEF LoopInv
    <3> QED  BY <1>1, <1>3, <2>7, <3>1
  <2>9. NamesOf(hosts)' \cap todo' = {}  BY <1>1, <2>2, <2>7 DEF LoopInv
  <2>10. issues' = 0 <=> NamesOf(hosts)' = Subdomains \ todo' /\ garbled' = {}
    BY <1>4, <2>2, <2>8 DEF LoopInv
  <2> QED  BY <1>1, <2>1, <2>2, <2>6, <2>9, <2>10 DEF LoopInv
<1> QED  BY <1>1, <1>4, <1>5, <1>7, LoopKeeps

LEMMA ResolverBreaksKeeps == ReconInv /\ ResolverBreaks => ReconInv'
<1> SUFFICES ASSUME ReconInv, ResolverBreaks PROVE ReconInv'  OBVIOUS
<1> DEFINE c == "host_resolution"
<1>1. /\ UNCHANGED setting /\ custom' = custom
      /\ todo' = {} /\ issues' = 0 /\ garbled' = {}
      /\ Conclude(c, "ERROR", "provider", << >>) /\ status[c] = "RUNNING"
  BY DEF ResolverBreaks, Refuse, Resolving, setting
<1>2. ReconType /\ OrderInv /\ ErrorsHaveCause  BY DEF ReconInv
<1>3. /\ DOMAIN ctx' = Keys /\ ctx' = ctx
      /\ status'[c] = "ERROR" /\ \A d \in Capabilities \ {c} : status'[d] = status[d]
      /\ cause'[c] = "provider" /\ \A d \in Capabilities \ {c} : cause'[d] = cause[d]
      /\ status' \in [Capabilities -> {"NONE", "RUNNING", "SUCCESS", "PARTIAL", "FAILURE", "ERROR"}]
      /\ cause' \in [Capabilities -> {"none", "provider", "input", "evidence", "limit"}]
  BY <1>1, <1>2, AllCapabilities, ConcludeGives DEF Usable
<1>4. Hosts' = {}  BY <1>1, <1>2, <1>3 DEF OrderInv, Absent, Hosts
<1>5. AreHosts(Hosts', Subdomains)  BY <1>4 DEF AreHosts
<1>6. ErrorsHaveCause'  BY <1>1, <1>2, <1>3 DEF ErrorsHaveCause
<1>7. LoopInv' /\ ResolutionTellsLoss'  BY <1>3 DEF LoopInv, ResolutionTellsLoss, Usable
<1>8. "subdomain_discovery" \in pipeline => status["subdomain_discovery"] # "NONE"
  BY <1>1, <1>2 DEF OrderInv
<1> QED  BY <1>1, <1>3, <1>5, <1>6, <1>7, <1>8, ResolutionKeeps

LEMMA BeginResolutionKeeps == ReconInv /\ BeginResolution => ReconInv'
<1> SUFFICES ASSUME ReconInv, BeginResolution PROVE ReconInv'  OBVIOUS
<1> DEFINE c     == "host_resolution"
           names == Subdomains
<1>1. /\ UNCHANGED setting /\ exact' = exact /\ custom' = custom
      /\ status[c] = "NONE"
  BY DEF BeginResolution, setting, Ready
<1>2. \/ /\ Conclude(c, "FAILURE", "none", << >>)
         /\ UNCHANGED resolving
      \/ /\ names = {} /\ Conclude(c, "SUCCESS", "none", [hosts |-> {}])
         /\ UNCHANGED resolving
      \/ /\ names # {} /\ status' = [status EXCEPT ![c] = "RUNNING"]
         /\ todo' = names \ Invalid
         /\ hosts' = {} /\ issues' = Cardinality(names \cap Invalid) /\ garbled' = {}
         /\ UNCHANGED <<cause, ctx>>
  BY Zenon DEF BeginResolution, Subdomains
<1>3. ReconType /\ OrderInv /\ ErrorsHaveCause  BY DEF ReconInv
<1>4. "subdomain_discovery" \in pipeline => status["subdomain_discovery"] # "NONE"
  BY AllCapabilities DEF BeginResolution, Ready, Requires
<1>5. garbled = {} /\ ctx["hosts"] = Absent /\ Hosts = {}
  BY <1>1, <1>3 DEF OrderInv, Absent, Hosts
<1>6. ASSUME NEW st \in {"FAILURE", "SUCCESS"}, NEW values, Conclude(c, st, "none", values),
             UNCHANGED resolving
      PROVE  /\ DOMAIN ctx' = Keys
             /\ status'[c] = st /\ \A d \in Capabilities \ {c} : status'[d] = status[d]
             /\ status' \in [Capabilities -> {"NONE", "RUNNING", "SUCCESS", "PARTIAL", "FAILURE", "ERROR"}]
             /\ cause' \in [Capabilities -> {"none", "provider", "input", "evidence", "limit"}]
             /\ ErrorsHaveCause' /\ LoopInv'
             /\ todo' \cup garbled' \subseteq Names /\ issues' \in Nat
             /\ ~Usable(st) => ctx' = ctx
             /\ Usable(st) => \A k \in Keys :
                  ctx'[k] = IF k \in DOMAIN values THEN Value(values[k]) ELSE ctx[k]
  <2>1. /\ DOMAIN ctx' = Keys
        /\ status'[c] = st /\ \A d \in Capabilities \ {c} : status'[d] = status[d]
        /\ cause'[c] = "none" /\ \A d \in Capabilities \ {c} : cause'[d] = cause[d]
        /\ status' \in [Capabilities -> {"NONE", "RUNNING", "SUCCESS", "PARTIAL", "FAILURE", "ERROR"}]
        /\ cause' \in [Capabilities -> {"none", "provider", "input", "evidence", "limit"}]
        /\ ~Usable(st) => ctx' = ctx
        /\ Usable(st) => \A k \in Keys :
             ctx'[k] = IF k \in DOMAIN values THEN Value(values[k]) ELSE ctx[k]
    BY <1>3, <1>6, AllCapabilities, ConcludeGives
  <2>2. ErrorsHaveCause'  BY <1>1, <1>3, <2>1 DEF ErrorsHaveCause
  <2>3. LoopInv'  BY <2>1 DEF LoopInv
  <2>4. todo' \cup garbled' \subseteq Names /\ issues' \in Nat
    BY <1>3, <1>6 DEF ReconType, ReconTypeOK, resolving
  <2> QED  BY <2>1, <2>2, <2>3, <2>4
<1>7. CASE Conclude(c, "FAILURE", "none", << >>) /\ UNCHANGED resolving
  <2>1. ~Usable("FAILURE")  BY DEF Usable
  <2>2. /\ ctx' = ctx /\ status'[c] = "FAILURE"  BY <1>6, <1>7, <2>1
  <2>3. ResolutionTellsLoss' /\ Hosts' = {}
    BY <1>5, <2>2 DEF ResolutionTellsLoss, Usable, Hosts, Absent
  <2>4. AreHosts(Hosts', Subdomains)  BY <2>3 DEF AreHosts
  <2> QED  BY <1>1, <1>4, <1>6, <1>7, <2>2, <2>3, <2>4, ResolutionKeeps
<1>8. CASE /\ names = {} /\ Conclude(c, "SUCCESS", "none", [hosts |-> {}])
           /\ UNCHANGED resolving
  <2> DEFINE values == [hosts |-> {}]
  <2>1. DOMAIN values = {"hosts"} /\ values["hosts"] = {} /\ Usable("SUCCESS")
        /\ Conclude(c, "SUCCESS", "none", values)
    BY <1>8 DEF Usable
  <2> HIDE DEF values
  <2>2. /\ \A k \in Keys : ctx'[k] = IF k \in DOMAIN values THEN Value(values[k]) ELSE ctx[k]
        /\ status'[c] = "SUCCESS"
    BY <1>6, <1>8, <2>1
  <2>3. /\ ctx'["hosts"] = Value({}) /\ \A k \in Keys \ {"hosts"} : ctx'[k] = ctx[k]
    BY <2>1, <2>2, AllCapabilities
  <2>4. Hosts' = {} /\ Subdomains' = {} /\ garbled' = {}
    BY <1>5, <1>8, <2>3, AllCapabilities DEF Hosts, Value, Subdomains, resolving
  <2>5. ResolutionTellsLoss'
    BY <2>2, <2>4 DEF ResolutionTellsLoss, Hosts, Subdomains
  <2>6. AreHosts(Hosts', Subdomains)  BY <2>4 DEF AreHosts
  <2> QED  BY <1>1, <1>4, <1>6, <1>8, <2>1, <2>2, <2>3, <2>5, <2>6, ResolutionKeeps
<1>9. CASE /\ names # {} /\ status' = [status EXCEPT ![c] = "RUNNING"]
           /\ todo' = names \ Invalid
           /\ hosts' = {} /\ issues' = Cardinality(names \cap Invalid) /\ garbled' = {}
           /\ UNCHANGED <<cause, ctx>>
  <2>1. /\ status' \in [Capabilities -> {"NONE", "RUNNING", "SUCCESS", "PARTIAL", "FAILURE", "ERROR"}]
        /\ status'[c] = "RUNNING" /\ \A d \in Capabilities \ {c} : status'[d] = status[d]
    BY <1>3, <1>9, AllCapabilities DEF ReconType, ReconTypeOK
  <2>2. names \subseteq Names /\ IsFiniteSet(names \cap Invalid)
    BY <1>3, FS_Subset DEF ReconType, ReconTypeOK, Subdomains
  <2>3. issues' \in Nat /\ (issues' = 0 <=> names \cap Invalid = {})
    BY <1>9, <2>2, FS_CardinalityType, FS_EmptySet
  <2>4. Hosts' = {} /\ Subdomains' = Subdomains /\ ctx' = ctx /\ ctx["hosts"] = Absent
    BY <1>5, <1>9 DEF Hosts, Subdomains
  <2>5. AreHosts(Hosts', Subdomains)  BY <2>4 DEF AreHosts
  <2>6. LoopInv'
    <3>1. NamesOf(hosts)' = {}  BY <1>9 DEF NamesOf
    <3>2. AreHosts(hosts, Subdomains)'  BY <1>9 DEF AreHosts
    <3>3. issues' = 0 <=> NamesOf(hosts)' = Subdomains \ todo' /\ garbled' = {}
      BY <1>9, <2>3, <3>1
    <3> QED  BY <1>9, <2>4, <3>1, <3>2, <3>3 DEF LoopInv
  <2>7. ErrorsHaveCause' /\ ResolutionTellsLoss'
    BY <1>1, <1>3, <1>9, <2>1 DEF ErrorsHaveCause, ResolutionTellsLoss, Usable
  <2>8. /\ cause' \in [Capabilities -> {"none", "provider", "input", "evidence", "limit"}]
        /\ DOMAIN ctx' = Keys /\ todo' \cup garbled' \subseteq Names
    BY <1>3, <1>9, <2>2 DEF ReconType, ReconTypeOK
  <2> QED  BY <1>1, <1>4, <2>1, <2>3, <2>4, <2>5, <2>6, <2>7, <2>8, ResolutionKeeps
<1> QED  BY <1>2, <1>7, <1>8, <1>9

LEMMA EndResolutionKeeps == ReconInv /\ EndResolution => ReconInv'
<1> SUFFICES ASSUME ReconInv, EndResolution PROVE ReconInv'  OBVIOUS
<1> DEFINE c  == "host_resolution"
           st == CASE hosts = {}               -> "FAILURE"
                   [] hosts # {} /\ issues > 0 -> "PARTIAL"
                   [] OTHER                    -> "SUCCESS"
           values == [hosts |-> hosts]
<1>1. /\ UNCHANGED setting /\ exact' = exact /\ custom' = custom
      /\ todo' = todo /\ hosts' = hosts /\ issues' = issues /\ garbled' = garbled
      /\ status[c] = "RUNNING" /\ todo = {}
  BY DEF EndResolution, setting, resolving
<1>2. Conclude(c, st, "none", values)  BY Zenon DEF EndResolution
<1>3. ReconType /\ OrderInv /\ ErrorsHaveCause /\ LoopInv  BY DEF ReconInv
<1>4. /\ Subdomains # {} /\ AreHosts(hosts, Subdomains)
      /\ issues = 0 <=> NamesOf(hosts) = Subdomains /\ garbled = {}
  BY <1>1, <1>3 DEF LoopInv
<1>5. issues \in Nat /\ todo \cup garbled \subseteq Names
  BY <1>3 DEF ReconType, ReconTypeOK
<1>6. /\ st \in {"FAILURE", "PARTIAL", "SUCCESS"}
      /\ hosts = {} => st = "FAILURE"
      /\ hosts # {} => (st = "SUCCESS" <=> issues = 0) /\ Usable(st)
  BY <1>5 DEF Usable
<1>7. DOMAIN values = {"hosts"} /\ values["hosts"] = hosts  OBVIOUS
<1> HIDE DEF st, values
<1>8. /\ DOMAIN ctx' = Keys
      /\ status'[c] = st /\ \A d \in Capabilities \ {c} : status'[d] = status[d]
      /\ cause'[c] = "none" /\ \A d \in Capabilities \ {c} : cause'[d] = cause[d]
      /\ status' \in [Capabilities -> {"NONE", "RUNNING", "SUCCESS", "PARTIAL", "FAILURE", "ERROR"}]
      /\ cause' \in [Capabilities -> {"none", "provider", "input", "evidence", "limit"}]
      /\ ~Usable(st) => ctx' = ctx
      /\ Usable(st) => \A k \in Keys :
           ctx'[k] = IF k \in DOMAIN values THEN Value(values[k]) ELSE ctx[k]
  BY <1>2, <1>3, <1>6, AllCapabilities, ConcludeGives
<1>9. /\ \A k \in Keys \ {"hosts"} : ctx'[k] = ctx[k]
      /\ Usable(st) => ctx'["hosts"] = Value(hosts)
  BY <1>7, <1>8, AllCapabilities
<1>10. Subdomains' = Subdomains  BY <1>9, AllCapabilities DEF Subdomains
<1>11. CASE hosts = {}
  <2>1. st = "FAILURE" /\ ~Usable(st) /\ ctx' = ctx  BY <1>6, <1>8, <1>11 DEF Usable
  <2>2. Hosts' = {}  BY <1>1, <1>3, <2>1 DEF OrderInv, Absent, Hosts
  <2>3. AreHosts(Hosts', Subdomains)  BY <2>2 DEF AreHosts
  <2>4. LoopInv' /\ ResolutionTellsLoss' /\ ErrorsHaveCause'
    BY <1>1, <1>3, <1>8, <2>1 DEF LoopInv, ResolutionTellsLoss, ErrorsHaveCause
  <2>5. "subdomain_discovery" \in pipeline => status["subdomain_discovery"] # "NONE"
    BY <1>1, <1>3 DEF OrderInv
  <2> QED  BY <1>1, <1>5, <1>8, <1>9, <2>1, <2>3, <2>4, <2>5, ResolutionKeeps
<1>12. CASE hosts # {}
  <2>1. Usable(st) /\ (st = "SUCCESS" <=> issues = 0)  BY <1>6, <1>12
  <2>2. Hosts' = hosts /\ ctx'["hosts"].items = hosts  BY <1>9, <2>1 DEF Value, Hosts
  <2>3. AreHosts(Hosts', Subdomains)  BY <1>4, <2>2
  <2>4. ResolutionTellsLoss'
    <3>1. ctx'["subdomains"].items = Subdomains  BY <1>10 DEF Subdomains
    <3>2. NamesOf(hosts) # {}  BY <1>12 DEF NamesOf
    <3>3. st = "SUCCESS" <=> NamesOf(hosts) = Subdomains /\ garbled' = {}
      BY <1>1, <1>4, <2>1
    <3> QED  BY <1>4, <1>8, <2>2, <3>1, <3>2, <3>3 DEF ResolutionTellsLoss, NamesOf
  <2>5. LoopInv' /\ ErrorsHaveCause'
    BY <1>1, <1>3, <1>6, <1>8 DEF LoopInv, ErrorsHaveCause
  <2>6. "subdomain_discovery" \in pipeline => status["subdomain_discovery"] # "NONE"
    BY <1>1, <1>3 DEF OrderInv
  <2> QED  BY <1>1, <1>5, <1>6, <1>8, <1>9, <2>3, <2>4, <2>5, <2>6, ResolutionKeeps
<1> QED  BY <1>11, <1>12

LEMMA NextRecon == ReconInv /\ [Next]_vars => ReconInv'
<1> SUFFICES ASSUME ReconInv, [Next]_vars PROVE ReconInv'  OBVIOUS
<1>1. CASE SubdomainDiscovery  BY <1>1, SubdomainKeeps
<1>2. CASE BeginResolution  BY <1>2, BeginResolutionKeeps
<1>3. CASE Unresolved  BY <1>3, UnresolvedKeeps
<1>4. CASE Resolved  BY <1>4, ResolvedKeeps
<1>5. CASE ResolverBreaks  BY <1>5, ResolverBreaksKeeps
<1>6. CASE EndResolution  BY <1>6, EndResolutionKeeps
<1>7. CASE HttpProbe  BY <1>7, HttpProbeKeeps
<1>8. CASE WebCrawl  BY <1>8, WebCrawlKeeps
<1>9. CASE TechnologyDetection  BY <1>9, TechnologyKeeps
<1>10. CASE VulnerabilityDetection  BY <1>10, VulnerabilityKeeps
<1>11. CASE UNCHANGED vars
  <2>1. /\ exact' = exact /\ custom' = custom /\ pipeline' = pipeline /\ status' = status
        /\ cause' = cause /\ ctx' = ctx /\ todo' = todo /\ hosts' = hosts
        /\ issues' = issues /\ garbled' = garbled
    BY <1>11 DEF vars
  <2>2. /\ Subdomains' = Subdomains /\ Hosts' = Hosts /\ AliveHosts' = AliveHosts
        /\ HttpEndpoints' = HttpEndpoints /\ Authority' = Authority
    BY <2>1 DEF Subdomains, Hosts, AliveHosts, HttpEndpoints, Authority
  <2>3. ReconType'  BY <2>1, <2>2 DEF ReconInv, ReconType, ReconTypeOK
  <2>4. OrderInv' /\ ExactInv' /\ ResolutionTellsLoss' /\ ErrorsHaveCause'
    BY <2>1, <2>2 DEF ReconInv, OrderInv, ExactInv, ResolutionTellsLoss, ErrorsHaveCause, Absent
  <2>5. AreHosts(Hosts, Names)' /\ LoopInv'
    BY <2>1, <2>2 DEF ReconInv, AreHosts, LoopInv, NamesOf
  <2>6. WithinScope'  BY <2>1, <2>2 DEF ReconInv, WithinScope, IsExactOrigin
  <2>7. AliveIsJustified'  BY <2>1, <2>2 DEF ReconInv, AliveIsJustified
  <2> QED  BY <2>3, <2>4, <2>5, <2>6, <2>7 DEF ReconInv
<1> QED  BY <1>1, <1>2, <1>3, <1>4, <1>5, <1>6, <1>7, <1>8, <1>9, <1>10, <1>11 DEF Next

\* The invariant holds of every run.
THEOREM ReconInvariant == Spec => []ReconInv
BY InitRecon, NextRecon, PTL DEF Spec

-----------------------------------------------------------------------------
(* What follows from it *)

\* The Context holds what its keys promise and the statuses are those of the
\* runtime (Context, Result, CapabilityStatus).
THEOREM ReconTypeCorrect == Spec => []ReconTypeOK
<1>1. ReconInv => ReconTypeOK  BY DEF ReconInv, ReconType
<1> QED  BY <1>1, ReconInvariant, PTL

\* With the built-in adapters a scan never leaves its scope, however many names,
\* addresses and origins there are and whatever the tools write: what one
\* adapter lets through is all the next one can be asked about.
THEOREM WithinScopeHolds == Spec => []WithinScope
<1>1. ReconInv => WithinScope  BY DEF ReconInv
<1> QED  BY <1>1, ReconInvariant, PTL

\* Every responsive host has an endpoint that makes it one, every endpoint a
\* host, and a name that answered its own host (_derive_alive_hosts).
THEOREM AliveIsJustifiedHolds == Spec => []AliveIsJustified
<1>1. ReconInv => AliveIsJustified  BY DEF ReconInv
<1> QED  BY <1>1, ReconInvariant, PTL

\* host_resolution reports SUCCESS exactly when nothing is missing from what it
\* publishes, for any number of names and any answers of the resolver.
THEOREM ResolutionTellsLossHolds == Spec => []ResolutionTellsLoss
<1>1. ReconInv => ResolutionTellsLoss  BY DEF ReconInv
<1> QED  BY <1>1, ReconInvariant, PTL

\* No built-in adapter refuses what the capability before it published, nor
\* what it let through itself.
THEOREM ErrorsHaveCauseHolds == Spec => []ErrorsHaveCause
<1>1. ReconInv => ErrorsHaveCause  BY DEF ReconInv
<1> QED  BY <1>1, ReconInvariant, PTL
=============================================================================
