------------------------------- MODULE MCCli -------------------------------
(* Instances of Cli for TLC: the built-in capabilities on hosts that supply       *)
(* nothing, some ports or all of them, with tools and providers ready or not.    *)
EXTENDS Cli

ASSUME BuiltInAssumption == BuiltIn

MCIds       == 1..12
MCKeys      == 1..13
MCTools     == 1..5
MCProviders == 6..14

Host(supplied, faulty, watched, answers) ==
  [supplied |-> supplied, faulty |-> faulty, ownProbe |-> FALSE, runner |-> FALSE,
   watched |-> watched, answers |-> answers]

Say(what, R) == [r \in Requirements |-> IF r \in R THEN what ELSE "READY"]

\* The ports of the capabilities that a tool stands behind
ToolPorts == {Subdomains, HttpProbe, Crawl, Technology, Detection}

MCAppHosts ==
  {Host({}, {}, {}, Say("READY", {})),
   Host({}, {}, {}, Say("NOT_READY", {Httpx, Subfinder})),
   Host({Vulnerability, Subdomains, Kev}, {}, {Vulnerability}, Say("PROBE_ERROR", {Vulnerability})),
   Host({Vulnerability, Crawl, Resolver}, {}, {}, Say("RAISES", {Nuclei})),
   Host(ToolPorts, {}, {Crawl}, Say("RAISES", {Crawl})),
   Host(ToolPorts \cup {Vulnerability}, {Technology}, {}, Say("NOT_READY", {Httpx})),
   [Host(ToolPorts \ {Detection}, {}, {}, Say("NOT_READY", {Katana}))
      EXCEPT !.ownProbe = TRUE, !.runner = TRUE]}

Line(kind, output, pre, partial, file, dry, target) ==
  [kind |-> kind, output |-> output, preset |-> pre, partial |-> partial,
   file |-> file, dry |-> dry, target |-> target]

MCCommandLines ==
  {Line(kind, output, "none", FALSE, FALSE, FALSE, "neither") :
     kind \in {"malformed", "incomplete", "help", "doctor"}, output \in {"none", "json"}}
  \cup
  {Line("scan", output, pre, partial, file, dry, target) :
     output \in {"none", "json"}, pre \in {"none", "reconnaissance", "full"},
     partial \in BOOLEAN, file \in BOOLEAN, dry \in BOOLEAN,
     target \in {"dns", "test_origin", "other_origin", "neither"}}

File(readable, pre, prof, partial, output) ==
  [readable |-> readable, preset |-> pre, profile |-> prof, partial |-> partial,
   output |-> output]

MCFiles ==
  {File(FALSE, "full", "reconnaissance", FALSE, "json")} \cup
  {File(TRUE, "reconnaissance", prof, partial, output) :
     prof \in {"reconnaissance", "full_assessment", "local_smoke"},
     partial \in BOOLEAN, output \in {"human", "json"}} \cup
  {File(TRUE, "full", prof, FALSE, "json") : prof \in {"full_assessment", "reconnaissance"}}

=============================================================================
