------------------------------- MODULE Recon -------------------------------
(***************************************************************************)
(* The reconnaissance and detection capabilities over one Context:          *)
(* subdomain_discovery, host_resolution, http_probe, web_crawl,             *)
(* technology_detection and vulnerability_detection, each with the targets  *)
(* its adapter approves and the status it makes of the provider's answer.   *)
(* How an adapter reads its tool's output is module ToolAdapters; here a    *)
(* tool names anything, and what matters is which of it passes.             *)
(*                                                                          *)
(* Names and addresses are different numbers in the order of their text.    *)
(* An origin is a scheme and a port. In exact mode (the local smoke         *)
(* profile) only one origin on one address is authorized.                   *)
(***************************************************************************)
EXTENDS Integers, FiniteSets, Sequences, FiniteSetsExt

CONSTANTS
  Names,        \* hostnames tools and providers may come up with
  InScope,      \* those that end in the root domain
  Invalid,      \* no hostname at all
  Bare,         \* a hostname, but not a DNS name (one label, an address)
  Addresses,
  Malformed,    \* what a resolver may return in place of an address
  Nobody,       \* no name, no address
  Exact,        \* the exact targets tried, as [host, origin, ip]
  Broad,        \* no exact target
  Pipelines,    \* the sets of capabilities composed
  Discoveries,  \* sets of names a subdomain tool writes
  Resolutions,  \* sets of addresses a resolver returns
  Probes,       \* sequences of endpoints an HTTP tool writes
  Crawls,       \* sets of endpoints a crawler writes
  Detections,   \* sets of technologies a detector writes
  Scans,        \* sets of findings a scanner writes
  MaxTargets    \* WhatWebConfig.max_targets, NucleiConfig.max_targets

Identity == Names \cup Addresses
Authorized == [host : Identity, origin : Nat]
HttpEndpoint == [host : Identity, origin : Nat, ip : Addresses \cup {Nobody}, note : Nat]
Endpoint == [host : Identity, origin : Nat, path : Nat, note : Nat]
Technology == [source : [host : Identity, origin : Nat, path : Nat], product : Nat]
Finding == [target : Authorized, template : Nat]

Capabilities == {"subdomain_discovery", "host_resolution", "http_probe", "web_crawl",
                 "technology_detection", "vulnerability_detection"}

Requires == [subdomain_discovery |-> {}, host_resolution |-> {"subdomain_discovery"},
             http_probe |-> {"host_resolution"}, web_crawl |-> {"http_probe"},
             technology_detection |-> {"web_crawl"},
             vulnerability_detection |-> {"http_probe"}]

ASSUME ReconAssumption ==
  /\ Names \subseteq Nat /\ Addresses \subseteq Nat /\ Names \cap Addresses = {}
  /\ Nobody \notin Identity /\ Malformed \notin Identity
  /\ InScope \cup Invalid \cup Bare \subseteq Names
  /\ InScope \cap (Invalid \cup Bare) = {} /\ Invalid \cap Bare = {}
  /\ \A x \in Exact : x.host \in InScope /\ x.origin \in Nat /\ x.ip \in Addresses
  /\ Broad \notin Exact
  /\ Pipelines \subseteq SUBSET Capabilities
  /\ Discoveries \subseteq SUBSET Names /\ \A d \in Discoveries : IsFiniteSet(d)
  /\ Resolutions \subseteq SUBSET (Addresses \cup {Malformed})
  /\ \A s \in Probes : s \in Seq(HttpEndpoint)
  /\ Crawls \subseteq SUBSET Endpoint /\ Detections \subseteq SUBSET Technology
  /\ Scans \subseteq SUBSET Finding
  /\ MaxTargets \in Nat \ {0}

VARIABLES
  exact,    \* the exact target, or Broad
  custom,   \* whether the caller's own providers replace the adapters
  pipeline, \* the capabilities composed
  status,   \* of each capability: NONE, RUNNING, or that of its Result
  cause,    \* of each capability that ended in ERROR: why
  ctx,      \* the Context: state key to value, Absent before
  todo,     \* host_resolution: normalized names still to be resolved
  hosts,    \* host_resolution: hosts resolved so far
  issues,   \* host_resolution: errors so far
  garbled   \* names for which the resolver returned a malformed address

vars == <<exact, custom, pipeline, status, cause, ctx, todo, hosts, issues, garbled>>
resolving == <<todo, hosts, issues, garbled>>
setting == <<exact, custom, pipeline>>

Absent == [known |-> FALSE, items |-> {}]
Value(items) == [known |-> TRUE, items |-> items]
Keys == {"subdomains", "hosts", "alive_hosts", "http_endpoints", "endpoints",
         "technologies", "vulnerabilities"}

\* Only local smoke has an exact target; it has its own providers and stops
\* before vulnerability detection.
Init ==
  /\ exact \in Exact \cup {Broad}
  /\ custom \in BOOLEAN /\ (exact # Broad => ~custom)
  /\ pipeline \in Pipelines
  /\ exact # Broad => /\ "subdomain_discovery" \in pipeline
                      /\ "vulnerability_detection" \notin pipeline
  /\ status = [c \in Capabilities |-> "NONE"]
  /\ cause = [c \in Capabilities |-> "none"]
  /\ ctx = [k \in Keys |-> Absent]
  /\ todo = {} /\ hosts = {} /\ issues = 0 /\ garbled = {}

-----------------------------------------------------------------------------
(* What the capabilities have in common *)

Usable(st) == st \in {"SUCCESS", "PARTIAL"}

\* The runtime takes the capabilities in an order the plan allows and stops at
\* the first that fails.
Ready(c) ==
  /\ c \in pipeline /\ status[c] = "NONE"
  /\ \A d \in Capabilities : status[d] \notin {"FAILURE", "ERROR", "RUNNING"}
  /\ \A d \in Requires[c] \cap pipeline : status[d] # "NONE"

\* A Result, and what a usable one publishes.
Conclude(c, st, why, values) ==
  /\ status' = [status EXCEPT ![c] = st]
  /\ cause' = [cause EXCEPT ![c] = why]
  /\ ctx' = IF Usable(st)
            THEN [k \in Keys |-> IF k \in DOMAIN values THEN Value(values[k]) ELSE ctx[k]]
            ELSE ctx

\* The status of the Result from that of the provider and what it found.
Mapped(provider, found) ==
  CASE provider = "SUCCESS" -> "SUCCESS"
    [] provider = "PARTIAL" -> IF found THEN "PARTIAL" ELSE "FAILURE"
    [] provider = "FAILURE" -> "FAILURE"
    [] OTHER                -> "ERROR"

\* A provider result: the status an adapter reports when kept records passed
\* and rejected tells whether others did not (ToolAdapters), or any status
\* when the caller brought the provider. RAISED: it raised, or returned
\* something that is no result.
Reports(kept, rejected) ==
  {"FAILURE", "UNAVAILABLE", "ERROR", "RAISED"} \cup
  (IF custom THEN {"SUCCESS", "PARTIAL"} ELSE {}) \cup
  (IF kept # {} THEN {"PARTIAL"} ELSE {}) \cup
  (IF ~rejected THEN {"SUCCESS"} ELSE {})

Found(report, kept) == IF Usable(report) THEN kept ELSE {}

\* Why a Result is ERROR: the provider, or what the capability thinks of its
\* input or answer.
Why(report) == IF Mapped(report, TRUE) = "ERROR" THEN "provider" ELSE "none"

\* The end of every execute: the provider's status, mapped, with what it found.
Finish(c, report, kept, values) ==
  LET st == Mapped(report, Found(report, kept) # {})
  IN Conclude(c, st, Why(report), values)

Refuse(c, why) == Conclude(c, "ERROR", why, << >>)

-----------------------------------------------------------------------------
(* subdomain_discovery *)

\* What the providers of local smoke answer without a tool.
LocalSeed   == {exact.host}
LocalAnswer == {exact.ip}

\* Subfinder keeps names below the root; local smoke seeds its one name.
SubdomainDiscovery ==
  /\ Ready("subdomain_discovery")
  /\ \E out \in IF exact # Broad THEN {LocalSeed} ELSE Discoveries :
       LET kept == IF custom THEN out ELSE out \cap InScope
       IN \E report \in IF exact # Broad THEN {"SUCCESS"} ELSE Reports(kept, kept # out) :
            Finish("subdomain_discovery", report, kept,
                   [subdomains |-> Found(report, kept)])
  /\ UNCHANGED <<setting, resolving>>

-----------------------------------------------------------------------------
(* host_resolution *)

BeginResolution ==
  /\ Ready("host_resolution")
  /\ LET names == ctx["subdomains"].items
     IN \/ /\ ~ctx["subdomains"].known
           /\ Conclude("host_resolution", "FAILURE", "none", << >>)
           /\ UNCHANGED resolving
        \/ /\ ctx["subdomains"].known /\ names = {}
           /\ Conclude("host_resolution", "SUCCESS", "none", [hosts |-> {}])
           /\ UNCHANGED resolving
        \/ /\ names # {}
           /\ status' = [status EXCEPT !["host_resolution"] = "RUNNING"]
           /\ todo' = names \ Invalid
           /\ hosts' = {} /\ issues' = Cardinality(names \cap Invalid) /\ garbled' = {}
           /\ UNCHANGED <<cause, ctx>>
  /\ UNCHANGED setting

Resolving == status["host_resolution"] = "RUNNING" /\ todo # {}
Unfinished == UNCHANGED <<setting, status, cause, ctx>>

Malformation(answer) == answer \cap {Malformed}

\* Mutant: a name without an address is passed over without a word.
UnresolvedQuietly ==
  /\ Resolving /\ exact = Broad
  /\ todo' = todo \ {Min(todo)}
  /\ UNCHANGED <<hosts, issues, garbled>> /\ Unfinished

\* HostResolverError, or an answer without a usable address.
Unresolved ==
  /\ Resolving /\ exact = Broad
  /\ \E answer \in {a \in Resolutions : a \cap Addresses = {}} \cup {{}} :
       /\ issues' = issues + 1 + 2 * Cardinality(Malformation(answer))
       /\ garbled' = IF Malformation(answer) = {} THEN garbled ELSE garbled \cup {Min(todo)}
  /\ todo' = todo \ {Min(todo)}
  /\ UNCHANGED hosts /\ Unfinished

\* A malformed address counts once by itself and once as an error.
Resolved ==
  /\ Resolving
  /\ \E answer \in IF exact # Broad THEN {LocalAnswer} ELSE Resolutions :
       /\ answer \cap Addresses # {}
       /\ hosts' = hosts \cup {[name |-> Min(todo), addrs |-> answer \cap Addresses]}
       /\ issues' = issues + 2 * Cardinality(Malformation(answer))
       /\ garbled' = IF Malformation(answer) = {} THEN garbled ELSE garbled \cup {Min(todo)}
  /\ todo' = todo \ {Min(todo)}
  /\ Unfinished

\* Any other exception, or an answer that is no tuple, ends the capability.
ResolverBreaks ==
  /\ Resolving /\ exact = Broad
  /\ Refuse("host_resolution", "provider")
  /\ todo' = {} /\ hosts' = {} /\ issues' = 0 /\ garbled' = {}
  /\ UNCHANGED setting

EndResolution ==
  /\ status["host_resolution"] = "RUNNING" /\ todo = {}
  /\ Conclude("host_resolution",
              CASE hosts = {}                -> "FAILURE"
                [] hosts # {} /\ issues > 0  -> "PARTIAL"
                [] OTHER                     -> "SUCCESS",
              "none", [hosts |-> hosts])
  /\ UNCHANGED <<setting, resolving>>

-----------------------------------------------------------------------------
(* http_probe *)

Identities(h) == (IF h.name = Nobody THEN {} ELSE {h.name}) \cup h.addrs
AliasesOf(hs) == UNION {Identities(h) : h \in hs}

\* The exact check of HTTPX and Katana on their input.
IsExactInput(hs) == hs = {[name |-> exact.host, addrs |-> {exact.ip}]}

\* _prepare_targets, _prepare_seeds: a name that is no DNS name, or in exact
\* mode anything but the authorized host, makes the input invalid.
InputAccepted(hs) ==
  IF exact # Broad THEN IsExactInput(hs)
  ELSE \A h \in hs : h.name \notin Bare /\ Identities(h) # {}

IsExactOrigin(e) == e.host = exact.host /\ e.origin = exact.origin

\* _record_endpoint: the URL leads to an alias of a host that was asked for.
HttpxApproves(e, hs) ==
  IF exact # Broad THEN IsExactOrigin(e) /\ e.ip = exact.ip
  ELSE e.host \in AliasesOf(hs)

\* Mutant: a record is dropped only when it is repeated exactly.
AllOf(seq, approved) == {seq[i] : i \in approved}

\* _parse_jsonl of HTTPX: of the approved records with one identity the first.
FirstOf(seq, approved) ==
  {seq[i] : i \in {j \in approved : \A k \in approved :
      k < j => <<seq[k].host, seq[k].origin>> # <<seq[j].host, seq[j].origin>>}}

\* _normalize_endpoints of http_probe: two endpoints with one identity.
Conflicting(endpoints) ==
  \E e, f \in endpoints : e # f /\ <<e.host, e.origin>> = <<f.host, f.origin>>

\* _host_sort_key: by name, where there is one.
Least(hs) == CHOOSE h \in hs : \A g \in hs : h.name <= g.name

\* sources: setdefault over the hosts in their order. Names are never
\* addresses, so a host is found by its own name first.
Source(id, hs) == {h \in hs : id \in Identities(h)}

\* Mutant: the address an endpoint was reached at is looked up first.
AliveByAddress(e, hs) ==
  CASE e.ip # Nobody /\ Source(e.ip, hs) # {} -> Least(Source(e.ip, hs))
    [] (e.ip = Nobody \/ Source(e.ip, hs) = {}) /\ Source(e.host, hs) # {} ->
         Least(Source(e.host, hs))
    [] OTHER -> [name |-> e.host, addrs |-> {e.ip} \ {Nobody}]

\* _derive_alive_hosts: the host an endpoint stands for.
AliveFor(e, hs) ==
  CASE Source(e.host, hs) # {} -> Least(Source(e.host, hs))
    [] Source(e.host, hs) = {} /\ e.ip # Nobody /\ Source(e.ip, hs) # {} ->
         Least(Source(e.ip, hs))
    [] OTHER -> IF e.host \in Addresses THEN [name |-> Nobody, addrs |-> {e.host}]
                ELSE [name |-> e.host, addrs |-> {e.ip} \ {Nobody}]

\* normalize_dns_hostname on the names of the input raises for a bare one.
EvidenceInvalid(endpoints, hs) ==
  Conflicting(endpoints) \/ \E h \in hs : h.name \in Bare

HttpProbe ==
  LET hs == ctx["hosts"].items
      publication(es) == [alive_hosts |-> {AliveFor(e, hs) : e \in es}, http_endpoints |-> es]
  IN
  /\ Ready("http_probe")
  /\ \/ hs = {} /\ Conclude("http_probe", "SUCCESS", "none", publication({}))
     \/ hs # {} /\ ~custom /\ ~InputAccepted(hs) /\ Refuse("http_probe", "input")
     \/ /\ hs # {} /\ (custom \/ InputAccepted(hs))
        /\ \E out \in Probes :
             LET passed == {i \in DOMAIN out : HttpxApproves(out[i], hs)}
                 kept   == IF custom THEN {out[i] : i \in DOMAIN out} ELSE FirstOf(out, passed)
             IN \E report \in Reports(kept, passed # DOMAIN out) :
                  LET es == Found(report, kept)
                  IN IF report # "RAISED" /\ EvidenceInvalid(es, hs)
                     THEN Refuse("http_probe", "evidence")
                     ELSE Finish("http_probe", report, kept, publication(es))
  /\ UNCHANGED <<setting, resolving>>

-----------------------------------------------------------------------------
(* web_crawl *)

\* Mutant: a crawler's record is approved by its origin alone.
KatanaApprovesAny(e, hs) ==
  IF exact # Broad THEN IsExactOrigin(e) ELSE e.host \in Identity

\* _url_to_endpoint: names and addresses of the responsive hosts.
KatanaApproves(e, hs) ==
  IF exact # Broad THEN IsExactOrigin(e) ELSE e.host \in AliasesOf(hs)

\* _normalize_endpoints of web_crawl: one URL with two descriptions.
Contradictory(endpoints) ==
  \E e, f \in endpoints : e # f /\ [e EXCEPT !.note = 0] = [f EXCEPT !.note = 0]

WebCrawl ==
  LET hs == ctx["alive_hosts"].items IN
  /\ Ready("web_crawl")
  /\ \/ hs = {} /\ Conclude("web_crawl", "SUCCESS", "none", [endpoints |-> {}])
     \/ hs # {} /\ ~custom /\ ~InputAccepted(hs) /\ Refuse("web_crawl", "input")
     \/ /\ hs # {} /\ (custom \/ InputAccepted(hs))
        /\ \E out \in Crawls :
             LET passed == {e \in out : KatanaApproves(e, hs)}
                 \* an Endpoint the adapter makes has no description
                 kept   == IF custom THEN out ELSE {[e EXCEPT !.note = 0] : e \in passed}
             IN \E report \in Reports(kept, passed # out) :
                  LET es == Found(report, kept)
                  IN IF report # "RAISED" /\ Contradictory(es)
                     THEN Refuse("web_crawl", "evidence")
                     ELSE Finish("web_crawl", report, kept, [endpoints |-> es])
  /\ UNCHANGED <<setting, resolving>>

-----------------------------------------------------------------------------
(* technology_detection and vulnerability_detection *)

Url(e) == [host |-> e.host, origin |-> e.origin, path |-> e.path]

\* _prepare_targets of WhatWeb: in exact mode the origin itself, path 0.
WhatWebTargets(es) ==
  IF exact # Broad THEN {[host |-> exact.host, origin |-> exact.origin, path |-> 0]}
  ELSE {Url(e) : e \in es}

WhatWebInput(es) ==
  CASE exact # Broad /\ \E e \in es : ~IsExactOrigin(e)           -> "input"
    [] Cardinality(WhatWebTargets(es)) > MaxTargets              -> "limit"
    [] OTHER                                                     -> "none"

TechnologyDetection ==
  LET es == ctx["endpoints"].items IN
  /\ Ready("technology_detection")
  /\ \/ es = {} /\ Conclude("technology_detection", "SUCCESS", "none", [technologies |-> {}])
     \/ /\ es # {} /\ ~custom /\ WhatWebInput(es) # "none"
        /\ Refuse("technology_detection", WhatWebInput(es))
     \/ /\ es # {} /\ (custom \/ WhatWebInput(es) = "none")
        /\ \E out \in Detections :
             LET kept == IF custom THEN out
                         ELSE {t \in out : t.source \in WhatWebTargets(es)}
             IN \E report \in Reports(kept, kept # out) :
                  Finish("technology_detection", report, kept,
                         [technologies |-> Found(report, kept)])
  /\ UNCHANGED <<setting, resolving>>

NucleiTargets(es) == {[host |-> e.host, origin |-> e.origin] : e \in es}

VulnerabilityDetection ==
  LET es == ctx["http_endpoints"].items IN
  /\ Ready("vulnerability_detection")
  /\ \/ /\ es = {}
        /\ Conclude("vulnerability_detection", "SUCCESS", "none", [vulnerabilities |-> {}])
     \/ /\ es # {} /\ ~custom /\ Cardinality(NucleiTargets(es)) > MaxTargets
        /\ Refuse("vulnerability_detection", "limit")
     \/ /\ es # {} /\ (custom \/ Cardinality(NucleiTargets(es)) <= MaxTargets)
        /\ \E out \in Scans :
             LET kept == IF custom THEN out
                         ELSE {f \in out : f.target \in NucleiTargets(es)}
             IN \E report \in Reports(kept, kept # out) :
                  Finish("vulnerability_detection", report, kept,
                         [vulnerabilities |-> Found(report, kept)])
  /\ UNCHANGED <<setting, resolving>>

Next ==
  \/ SubdomainDiscovery
  \/ BeginResolution \/ Unresolved \/ Resolved \/ ResolverBreaks \/ EndResolution
  \/ HttpProbe \/ WebCrawl \/ TechnologyDetection \/ VulnerabilityDetection

Spec == Init /\ [][Next]_vars

-----------------------------------------------------------------------------
(* Properties *)

\* The types of the Context and of what the capabilities report.
ReconTypeOK ==
  /\ exact \in Exact \cup {Broad} /\ custom \in BOOLEAN /\ pipeline \in Pipelines
  /\ status \in [Capabilities -> {"NONE", "RUNNING", "SUCCESS", "PARTIAL", "FAILURE", "ERROR"}]
  /\ cause \in [Capabilities -> {"none", "provider", "input", "evidence", "limit"}]
  /\ ctx["subdomains"].items \subseteq Names
  /\ ctx["http_endpoints"].items \subseteq HttpEndpoint
  /\ ctx["endpoints"].items \subseteq Endpoint
  /\ ctx["technologies"].items \subseteq Technology
  /\ ctx["vulnerabilities"].items \subseteq Finding
  /\ todo \cup garbled \subseteq Names /\ issues \in Nat

Authority == AliasesOf(ctx["hosts"].items)

\* With the built-in adapters a scan stays inside its scope from end to end,
\* whatever the tools write: every name is below the root, and every endpoint,
\* technology and finding is on a name that was resolved or on an address such
\* a name resolved to; in exact mode on the one authorized origin (the filters
\* of the five adapters, each of which sees only what the one before passed on).
WithinScope ==
  ~custom =>
    /\ ctx["subdomains"].items \subseteq InScope
    /\ {h.name : h \in ctx["hosts"].items} \subseteq ctx["subdomains"].items
    /\ ctx["alive_hosts"].items \subseteq ctx["hosts"].items
    /\ {e.host : e \in ctx["http_endpoints"].items \cup ctx["endpoints"].items} \subseteq Authority
    /\ {t.source.host : t \in ctx["technologies"].items} \subseteq Authority
    /\ {f.target.host : f \in ctx["vulnerabilities"].items} \subseteq Authority
    /\ exact # Broad =>
         /\ \A e \in ctx["http_endpoints"].items : IsExactOrigin(e) /\ e.ip = exact.ip
         /\ \A e \in ctx["endpoints"].items : IsExactOrigin(e)
         /\ \A t \in ctx["technologies"].items : IsExactOrigin(t.source)

\* A responsive host is one that answered: each has an endpoint, each endpoint
\* has one, and an endpoint of a resolved name makes exactly that host
\* responsive, never another one that shares its address
\* (_derive_alive_hosts).
AliveIsJustified ==
  LET es    == ctx["http_endpoints"].items
      alive == ctx["alive_hosts"].items
  IN /\ \A e \in es : \E h \in alive : e.host \in Identities(h) \/ e.ip \in h.addrs
     /\ \A h \in alive : \E e \in es :
          \/ e.host \in Identities(h)
          \/ e.ip \in h.addrs /\ e.host \notin Authority
     /\ \A e \in es, h \in ctx["hosts"].items : e.host = h.name => h \in alive
     /\ Cardinality(alive) <= Cardinality(es)

\* The status of host_resolution tells whether something is missing: SUCCESS
\* exactly when every discovered name has a host and no answer was malformed,
\* and hosts are published only if there are any or nothing was discovered
\* (the error counts kept over the loop, which no early continue may skip).
ResolutionTellsLoss ==
  Usable(status["host_resolution"]) /\ ctx["subdomains"].known =>
    LET resolved == {h.name : h \in ctx["hosts"].items}
        names    == ctx["subdomains"].items
    IN /\ status["host_resolution"] = "SUCCESS" <=> resolved = names /\ garbled = {}
       /\ resolved = {} <=> names = {}

\* The parts fit: with the built-in adapters no capability refuses what the
\* one before it published or what its own adapter let through. ERROR comes
\* from a provider or from too many targets (the input checks of HTTPX, Katana
\* and WhatWeb against the exact target, _normalize_endpoints).
ErrorsHaveCause ==
  ~custom => \A c \in Capabilities : cause[c] \notin {"input", "evidence"}
=============================================================================
