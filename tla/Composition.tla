---------------------------- MODULE Composition ----------------------------
(***************************************************************************)
(* What a scan is composed of: ApplicationComposition                       *)
(* (composition/application.py) with the built-in definitions               *)
(* (sdk/default_capabilities.py), the built-in factories                    *)
(* (create_default_factory_registry of planning/factories.py) and the       *)
(* supported tools (adapters/default_tools.py). The result is a composition *)
(* of module Scan.                                                          *)
(*                                                                          *)
(* A port is what an application host may supply, known by the provider     *)
(* role that its readiness requirement has; what a provider object does is  *)
(* the other modules' subject.                                              *)
(***************************************************************************)
EXTENDS Scan

CONSTANT AppHosts \* what the hosts of the application supply

\* CapabilityId, in the order of the serialized identities
ASSET_INTELLIGENCE         == 1
FINDING_CORRELATION        == 2
HOST_RESOLUTION            == 3
HTTP_PROBE                 == 4
KNOWLEDGE_GRAPH            == 5
RISK_INTELLIGENCE          == 6
SUBDOMAIN_DISCOVERY        == 7
TECHNOLOGY_DETECTION       == 8
VULNERABILITY_DETECTION    == 9
VULNERABILITY_ENRICHMENT   == 10
VULNERABILITY_INTELLIGENCE == 11
WEB_CRAWL                  == 12

\* Requirements: tools 1..5, provider roles 6..14; the resolver has no role.
Httpx         == 1
Katana        == 2
Nuclei        == 3
Subfinder     == 4
Whatweb       == 5
Cvss          == 6
Epss          == 7
HttpProbe     == 8
Kev           == 9
Subdomains    == 10
Technology    == 11
Detection     == 12
Vulnerability == 13
Crawl         == 14
Resolver      == 15

Ports == Providers \cup {Resolver}

Profiles == {"reconnaissance", "full_assessment", "local_smoke"}

\* supplied: the ports of CompositionProviders; faulty: those among them that
\* make their factory raise (in the truth test of `port or default`, which the
\* enrichment ports do not undergo); ownProbe: a tool readiness probe is given;
\* runner: a tool runner is given; watched: roles with a provider readiness
\* probe; answers: what probes will say.
AppHostType ==
  [supplied : SUBSET Ports, faulty : SUBSET Ports, ownProbe : BOOLEAN,
   runner : BOOLEAN, watched : SUBSET Providers, answers : [Requirements -> ProbeOutcomes]]

\* What the numbers above and below belong to. The scan's theorems are not
\* restricted to it.
BuiltIn == Ids = 1..12 /\ Keys = 1..13 /\ Tools = 1..5 /\ Providers = 6..14

ASSUME CompositionAssumption ==
  /\ AppHosts \subseteq AppHostType
  /\ \A h \in AppHosts : h.faulty \subseteq h.supplied \ {Cvss, Epss, Kev}

-----------------------------------------------------------------------------
(* The built-in definitions *)

\* Keys: 1 alive_hosts 2 asset_intelligence 3 canonical_findings 4 endpoints
\* 5 enriched_vulnerabilities 6 hosts 7 http_endpoints 8 knowledge_graph
\* 9 risk_intelligence 10 subdomains 11 technologies 12 vulnerabilities
\* 13 vulnerability_intelligence
DefaultRequires == <<{1, 4, 6, 10, 11}, {12}, {10}, {6}, {2, 13}, {8}, {}, {4},
                     {7}, {3}, {2}, {1}>>
DefaultProvides == <<{2}, {3}, {6}, {1, 7}, {8}, {9}, {10}, {11}, {12}, {5},
                     {13}, {4}>>

\* capability_ids
CapabilityIds(prof) ==
  IF prof = "full_assessment" THEN Ids
  ELSE {SUBDOMAIN_DISCOVERY, HOST_RESOLUTION, HTTP_PROBE, WEB_CRAWL,
        TECHNOLOGY_DETECTION}

-----------------------------------------------------------------------------
(* The built-in factories *)

\* Capabilities with a port, each with the tool that stands in for it
ToolBacked == {SUBDOMAIN_DISCOVERY, HTTP_PROBE, WEB_CRAWL, TECHNOLOGY_DETECTION,
               VULNERABILITY_DETECTION}
PortOf == [c \in ToolBacked |->
             CASE c = SUBDOMAIN_DISCOVERY -> Subdomains [] c = HTTP_PROBE -> HttpProbe
               [] c = WEB_CRAWL -> Crawl [] c = TECHNOLOGY_DETECTION -> Technology
               [] c = VULNERABILITY_DETECTION -> Detection]
ToolOf == [c \in ToolBacked |->
             CASE c = SUBDOMAIN_DISCOVERY -> Subfinder [] c = HTTP_PROBE -> Httpx
               [] c = WEB_CRAWL -> Katana [] c = TECHNOLOGY_DETECTION -> Whatweb
               [] c = VULNERABILITY_DETECTION -> Nuclei]

\* _external_requirement
ExternalRequirement(c, ports) ==
  IF PortOf[c] \in ports THEN {PortOf[c]} ELSE {ToolOf[c]}

\* The requirements declared with the factories
FactoryNeeds(ports) ==
  [c \in Ids |->
     CASE c \in ToolBacked                -> ExternalRequirement(c, ports)
       [] c = VULNERABILITY_INTELLIGENCE  -> {Vulnerability}
       [] c = VULNERABILITY_ENRICHMENT    -> {Cvss, Epss, Kev}
       [] OTHER                           -> {}]

\* Mutant: the vulnerability role is declared like the roles that are required
\* only when their provider is there.
ConfiguredAlways(ports) == (ports \cup {Vulnerability}) \cap Providers

\* The roles declared with configuration_present
Configured(ports) == ports \cap Providers

\* What the factory of c hands to the capability it constructs. Without a
\* provider the vulnerability capability makes an NVD client of its own.
NvdClient == 0
Wired(c, ports) ==
  CASE c \in ToolBacked -> IF PortOf[c] \in ports THEN {PortOf[c]} ELSE {ToolOf[c]}
    [] c = VULNERABILITY_INTELLIGENCE ->
         IF Vulnerability \in ports THEN {Vulnerability} ELSE {NvdClient}
    [] c = VULNERABILITY_ENRICHMENT -> {Cvss, Epss, Kev} \cap ports
    [] c = HOST_RESOLUTION -> {Resolver} \cap ports
    [] OTHER -> {}

-----------------------------------------------------------------------------
(* ApplicationComposition *)

\* __post_init__: local smoke takes .test origins only and owns its providers.
Refuses(prof, host, target) ==
  prof = "local_smoke" /\ (target # "test_origin" \/ host.supplied # {})

\* _capability_dependencies
Dependencies(prof, host) ==
  CASE prof = "local_smoke"     -> {Subdomains, Resolver}
    [] prof = "full_assessment" -> host.supplied \cup {Cvss, Epss, Kev}
    [] OTHER                       -> host.supplied

\* _requires_tool_runner: it looks at what the host supplies, not at what the
\* factories will get.
HasRunner(prof, host) ==
  \/ host.runner
  \/ \E c \in CapabilityIds(prof) \cap ToolBacked : PortOf[c] \notin host.supplied

\* _required_tool_registry
RequiredTools(prof, host) ==
  Tools \cap UNION {FactoryNeeds(Dependencies(prof, host))[c] : c \in CapabilityIds(prof)}

\* Without tools there is no probe unless the host gives one; with tools and
\* no probe, a runner has to be there.
HasToolProbe(prof, host) == host.ownProbe \/ RequiredTools(prof, host) # {}
LacksRunner(prof, host) ==
  ~host.ownProbe /\ RequiredTools(prof, host) # {} /\ ~HasRunner(prof, host)

\* _create_application_components
Components(prof, host) ==
  LET ports == Dependencies(prof, host)
      ids   == CapabilityIds(prof)
  IN [ids      |-> ids,
      requires |-> DefaultRequires,
      provides |-> DefaultProvides,
      have     |-> ids,
      misbound |-> {},
      broken   |-> {c \in ids : Wired(c, ports) \cap host.faulty # {}},
      needs    |-> FactoryNeeds(ports),
      present  |-> RequiredTools(prof, host) \cup Configured(ports),
      probed   |-> (IF HasToolProbe(prof, host) THEN Tools ELSE {}) \cup host.watched,
      probe    |-> host.answers]

=============================================================================
