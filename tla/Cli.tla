--------------------------------- MODULE Cli ---------------------------------
(***************************************************************************)
(* One process of the command line: main of cli/main.py, with              *)
(* parse_cli_args, resolve_configuration (configuration/models.py) and the  *)
(* construction of the services by module Composition, around the scan of   *)
(* module Scan.                                                             *)
(*                                                                          *)
(* Everything main does before its handlers is inside one try: an exception *)
(* leads to a handler, a KeyboardInterrupt or an exception inside a handler *)
(* leaves main. What is written is abstracted to documents: their outcome,  *)
(* the exit code they state and whether they are JSON. Diagnostics that the *)
(* operator asks for go to stderr as well and are Scan's `events`.          *)
(***************************************************************************)
EXTENDS Composition

CONSTANTS
  CommandLines,   \* what argv may hold
  Files           \* what the configuration file may hold

Presets  == {"reconnaissance", "full"}
Formats  == {"human", "json"}
None     == "none"

\* malformed: argparse refuses it; incomplete: no target, or two --config.
\* target: a DNS name, an http://*.test origin, any other origin, or neither.
CommandLineType ==
  [kind : {"malformed", "incomplete", "help", "doctor", "scan"},
   output : Formats \cup {None}, preset : Presets \cup {None},
   partial : BOOLEAN, file : BOOLEAN, dry : BOOLEAN,
   target : {"dns", "test_origin", "other_origin", "neither"}]

\* The configuration file; `readable` stands for the loader's other checks.
FileType == [readable : BOOLEAN, preset : Presets, profile : Profiles,
             partial : BOOLEAN, output : Formats]

Default == [readable |-> TRUE, preset |-> "reconnaissance",
            profile |-> "reconnaissance", partial |-> FALSE, output |-> "human"]

\* Mutant: every profile is taken to support every preset.
CompatibleAlways(pre, prof) == TRUE

\* validate_profile_compatibility
Compatible(pre, prof) == pre = "full" => prof = "full_assessment"

ASSUME CliAssumption ==
  /\ CommandLines \subseteq CommandLineType
  /\ Files \subseteq FileType

\* for_reconnaissance, for_full_assessment: technologies, risk_intelligence
GoalsOf == [reconnaissance |-> {11}, full |-> {9}]

VARIABLES
  options,       \* argv, and CliOptions once parsed
  configuration, \* the configuration file, or the defaults
  mode,          \* effective_output
  profile,       \* resolved.composition_profile
  dependencies,  \* CapabilityDependencies: the ports the factories get
  preset,        \* effective_preset
  raised,        \* the exception a handler is looking at
  doctorReady,   \* DoctorResult.ready
  stdout,        \* documents written: [json, outcome, code]
  stderr,        \* error messages written: exit codes they belong to
  code           \* the exit code main is about to return

cliVars == <<options, configuration, mode, profile, dependencies, preset,
             raised, doctorReady, stdout, stderr, code>>
vars == <<scanVars, cliVars>>

NoComposition ==
  [ids |-> {}, requires |-> [c \in Ids |-> {}], provides |-> [c \in Ids |-> {}],
   have |-> {}, misbound |-> {}, broken |-> {}, needs |-> [c \in Ids |-> {}],
   present |-> {}, probed |-> {}, probe |-> [r \in Requirements |-> "READY"]]
NoRequest == [service |-> "inspect", goals |-> GoalsOf["reconnaissance"],
              disabled |-> {}, partial |-> FALSE]

CliInit ==
  /\ options \in CommandLines
  /\ configuration = Default
  /\ mode = None /\ profile = None /\ dependencies = {} /\ preset = None
  /\ raised = None /\ doctorReady = FALSE
  /\ stdout = <<>> /\ stderr = <<>> /\ code = 0
  /\ composition = NoComposition /\ request = NoRequest
  /\ pc = "parse"
  /\ ScanInit

Document(json, outcome, exit) == [json |-> json, outcome |-> outcome, code |-> exit]

Throw(e) == raised' = e /\ pc' = "handle"

-----------------------------------------------------------------------------
(* Options and configuration *)

\* parse_cli_args, and the selection of the command
Parse ==
  /\ pc = "parse"
  /\ \/ /\ options.kind \in {"malformed", "incomplete"}
        /\ Throw("usage")
        /\ UNCHANGED mode
     \/ /\ options.kind = "help"
        /\ pc' = "help" /\ UNCHANGED <<raised, mode>>
     \/ /\ options.kind = "doctor"
        /\ mode' = IF options.output = None THEN "human" ELSE options.output
        /\ pc' = "doctor" /\ UNCHANGED raised
     \/ /\ options.kind = "scan"
        /\ mode' = options.output
        /\ pc' = "load" /\ UNCHANGED raised
  /\ UNCHANGED <<scanState, options, configuration, profile, dependencies, preset,
                 doctorReady, stdout, stderr, code>>

\* load_configuration, with the check of RedForgeConfiguration itself
Loads(file) == file.readable /\ Compatible(file.preset, file.profile)

Or(override, value) == IF override # None THEN override ELSE value

\* Mutant: the output format of the file is not taken into account yet.
LoadKeepMode ==
  /\ pc = "load"
  /\ configuration' \in IF options.file THEN Files ELSE {Default}
  /\ \/ /\ ~Loads(configuration')
        /\ Throw("configuration") /\ UNCHANGED <<mode, preset>>
     \/ /\ Loads(configuration')
        /\ preset' = Or(options.preset, configuration'.preset)
        /\ pc' = "resolve" /\ UNCHANGED <<mode, raised>>
  /\ UNCHANGED <<scanState, options, profile, dependencies, doctorReady, stdout,
                 stderr, code>>

Load ==
  /\ pc = "load"
  /\ configuration' \in IF options.file THEN Files ELSE {Default}
  /\ \/ /\ ~Loads(configuration')
        /\ Throw("configuration") /\ UNCHANGED <<mode, preset>>
     \/ /\ Loads(configuration')
        /\ mode' = Or(options.output, configuration'.output)
        /\ preset' = Or(options.preset, configuration'.preset)
        /\ pc' = "resolve" /\ UNCHANGED raised
  /\ UNCHANGED <<scanState, options, profile, dependencies, doctorReady, stdout,
                 stderr, code>>

\* --preset full selects the full composition whatever the file says.
ResolvedProfile ==
  IF options.preset = "full" THEN "full_assessment" ELSE configuration.profile

\* ScanTarget, or ExactNetworkTarget for the local smoke profile
ValidTarget(p) ==
  options.target \in IF p = "local_smoke" THEN {"test_origin", "other_origin"}
                     ELSE {"dns"}

\* resolve_configuration
Resolve ==
  /\ pc = "resolve"
  /\ \/ /\ ~Compatible(preset, ResolvedProfile)
        /\ Throw("configuration") /\ UNCHANGED <<profile, request>>
     \/ /\ Compatible(preset, ResolvedProfile) /\ ~ValidTarget(ResolvedProfile)
        /\ Throw("scan_configuration") /\ UNCHANGED <<profile, request>>
     \/ /\ Compatible(preset, ResolvedProfile) /\ ValidTarget(ResolvedProfile)
        /\ profile' = ResolvedProfile
        /\ request' = [service  |-> IF options.dry THEN "inspect" ELSE "run",
                       goals    |-> GoalsOf[preset],
                       disabled |-> {},
                       partial  |-> options.partial \/ configuration.partial]
        /\ pc' = "compose" /\ UNCHANGED raised
  /\ UNCHANGED <<composition, plan, manifest, preflightVars, runVars, events,
                 options, configuration, mode, dependencies, preset, doctorReady,
                 stdout, stderr, code>>

\* ApplicationComposition and its components, on one of the hosts
Compose ==
  /\ pc = "compose"
  /\ \E host \in AppHosts :
       LET fails == Refuses(profile, host, options.target) \/ LacksRunner(profile, host)
       IN \/ fails /\ Throw("internal") /\ UNCHANGED <<composition, dependencies>>
          \/ /\ ~fails
             /\ composition' = Components(profile, host)
             /\ dependencies' = Dependencies(profile, host)
             /\ pc' = "prepare" /\ UNCHANGED raised
  /\ UNCHANGED <<request, plan, manifest, preflightVars, runVars, events,
                 options, configuration, mode, profile, preset, doctorReady,
                 stdout, stderr, code>>

-----------------------------------------------------------------------------
(* The services, and what main makes of their outcome *)

ScanStep == Steps /\ UNCHANGED cliVars

\* RedForgeDoctor.inspect, by its answer
Diagnose ==
  /\ pc = "doctor"
  /\ \/ doctorReady' \in BOOLEAN /\ pc' = "diagnosis" /\ UNCHANGED raised
     \/ Throw("internal") /\ UNCHANGED doctorReady
  /\ UNCHANGED <<scanState, options, configuration, mode, profile, dependencies,
                 preset, stdout, stderr, code>>

\* An exception of the scan reaches main's handlers.
Caught ==
  /\ pc \in Raised \ {"interrupted"}
  /\ Throw(CASE pc = "configuration_error" -> "scan_configuration"
             [] pc = "preflight_error" -> "preflight"
             [] pc = "build_error" -> "build"
             [] OTHER -> "internal")
  /\ UNCHANGED <<scanState, options, configuration, mode, profile, dependencies,
                 preset, doctorReady, stdout, stderr, code>>

\* What main writes when a command has been carried out, with its exit code.
Outcome ==
  CASE pc = "help"       -> Document(FALSE, "help", 0)
    [] pc = "diagnosis"  -> Document(mode = "json", "doctor", IF doctorReady THEN 0 ELSE 3)
    [] pc = "inspection" -> Document(mode = "json", "dry_run", IF AllReady THEN 0 ELSE 3)
    [] pc = "result"     -> Document(mode = "json", "completed", IF accepted THEN 0 ELSE 4)

\* output.write, which may fail; main still has to return.
Write ==
  /\ pc \in {"help", "diagnosis", "inspection", "result"}
  /\ code' = Outcome.code
  /\ \/ /\ stdout' = Append(stdout, Outcome)
        /\ pc' = "return" /\ UNCHANGED raised
     \/ Throw("internal") /\ UNCHANGED stdout
  /\ UNCHANGED <<scanState, options, configuration, mode, profile, dependencies,
                 preset, doctorReady, stderr>>

-----------------------------------------------------------------------------
(* The handlers *)

ExitCode == [usage |-> 2, configuration |-> 2, scan_configuration |-> 2,
             preflight |-> 3, build |-> 3, interrupt |-> 130, internal |-> 5]


\* A usage error knows the output option of argv itself.
JsonSelected ==
  IF raised = "usage" THEN options.kind = "incomplete" /\ options.output = "json"
  ELSE mode = "json"

\* The handler writes one document or one message and then has to return.
Handle ==
  /\ pc = "handle"
  /\ code' = ExitCode[raised]
  /\ \/ /\ IF JsonSelected
           THEN stdout' = Append(stdout, Document(TRUE, raised, ExitCode[raised]))
                /\ UNCHANGED stderr
           ELSE stderr' = Append(stderr, ExitCode[raised]) /\ UNCHANGED stdout
        /\ pc' = "handled"
     \/ pc' = "escaped" /\ UNCHANGED <<stdout, stderr>>
  /\ UNCHANGED <<scanState, options, configuration, mode, profile, dependencies,
                 preset, raised, doctorReady>>

Return ==
  /\ pc \in {"return", "handled"}
  /\ pc' = "returned"
  /\ UNCHANGED <<scanState, cliVars>>

\* KeyboardInterrupt: handled inside the try, not inside a handler.
InterruptMain ==
  /\ pc \notin {"returned", "escaped"}
  /\ IF pc \in {"handle", "handled"} THEN pc' = "escaped" /\ UNCHANGED raised
     ELSE Throw("interrupt")
  /\ UNCHANGED <<scanState, options, configuration, mode, profile, dependencies,
                 preset, doctorReady, stdout, stderr, code>>

CliNext == \/ Parse \/ Load \/ Resolve \/ Compose
           \/ ScanStep \/ Diagnose \/ Caught
           \/ Write \/ Handle \/ Return \/ InterruptMain

CliSpec == CliInit /\ [][CliNext]_vars

-----------------------------------------------------------------------------
(* Properties *)

MainPhases == {"parse", "help", "doctor", "diagnosis", "load", "resolve", "compose",
               "return", "handle", "handled", "returned", "escaped"}
Exceptions == {"usage", "configuration", "scan_configuration", "preflight", "build",
               "interrupt", "internal"}
ExitCodes  == {0, 2, 3, 4, 5, 130}

(* The values main's local variables and streams take.                          *)
CliTypeOK ==
  /\ composition \in CompositionType /\ request \in RequestType
  /\ pc \in MainPhases \cup Phases \cup Ended
  /\ options \in CommandLineType /\ configuration \in FileType
  /\ mode \in Formats \cup {None}
  /\ profile \in Profiles \cup {None} /\ dependencies \subseteq Ports
  /\ preset \in Presets \cup {None}
  /\ raised \in Exceptions \cup {None} /\ doctorReady \in BOOLEAN
  /\ stdout \in Seq([json : BOOLEAN, code : ExitCodes,
                     outcome : {"help", "doctor", "dry_run", "completed"} \cup Exceptions])
  /\ stderr \in Seq(ExitCodes) /\ code \in ExitCodes

Returned == pc = "returned"

\* The operator allowed partial results, on the command line or in the file.
Consent == options.partial \/ (options.file /\ configuration.partial)

\* Every planned capability was attempted and usable, partial ones with consent.
Complete ==
  /\ Len(log) = Len(plan) /\ log # <<>>
  /\ \A i \in 1..Len(log) : log[i] = "SUCCESS" \/ (log[i] = "PARTIAL" /\ Consent)

(* The exit code can be trusted by a script: 0 from a scan means that every      *)
(* planned capability ran and was usable, partial ones only with the operator's  *)
(* consent, 4 that capabilities ran and that this is not so, 2 and 3 that none   *)
(* did; a dry run and the doctor never construct a capability, whatever their    *)
(* code (main, ExitCode, is_scan_result_accepted).                               *)
ExitTellsScan ==
  /\ Returned /\ options.kind = "scan" /\ ~options.dry =>
       /\ code = 0 => Complete
       /\ code = 4 => log # <<>> /\ ~Complete
       /\ code \in {2, 3} => log = <<>>
  /\ options.kind # "scan" \/ options.dry => built = <<>> /\ log = <<>> /\ events = <<>>

\* The output mode that argv and the file ask for, and when main must know it:
\* from argv for usage errors and the doctor, from either after loading.
Requested == Or(options.output, IF options.file /\ preset # None
                                THEN configuration.output ELSE "human")
Known == \/ options.kind = "incomplete" /\ raised = "usage"
         \/ options.kind = "doctor" /\ code # 130
         \/ options.kind = "scan" /\ (preset # None \/ raised = "configuration")
         \/ mode # None

(* In JSON mode every return of main leaves stderr without a message and stdout   *)
(* with a last document that states the exit code, whichever handler was reached *)
(* and however early the mode was known. It is the only document unless an        *)
(* interrupt came after one was written, and then there are two (effective_output *)
(* and the handlers of main).                                                    *)
JsonOutcomeStated ==
  Returned /\ Known /\ Requested = "json" =>
    /\ stderr = <<>>
    /\ Len(stdout) = 1 \/ (Len(stdout) = 2 /\ raised = "interrupt")
    /\ stdout[Len(stdout)].json /\ stdout[Len(stdout)].code = code

(* What the documents say of a scan: "JSON mode writes exactly one compact,       *)
(* newline-terminated JSON document to stdout for every handled outcome", "The    *)
(* final machine outcome remains exactly one document on stdout"                  *)
(* (docs/json-output.md:9 and 16), "stdout still contains exactly one final       *)
(* machine-outcome document" (docs/cli.md:83). The code does not keep it: an      *)
(* interrupt between the write of main and its return leads to the handler, which *)
(* writes another document.                                                      *)
JsonIsOneDocument ==
  options.kind = "scan" /\ Returned /\ Known /\ Requested = "json" =>
    Len(stdout) = 1 /\ stdout[1].json

\* Requirement r was looked at by preflight, with the answer that it is there.
FoundReady(r) == \E i \in 1..Len(checks) :
                   /\ checks[i].kind \in {"executable", "configuration", "provider"}
                   /\ checks[i].of = r /\ checks[i].ready

\* A check that may fail in a sound composition: a probe says no, or nobody
\* supplies the provider that the full profile leaves to its host.
Excusable(check) ==
  \/ check.kind \in {"executable", "provider"} /\ composition.probe[check.of] # "READY"
  \/ check.of = Vulnerability /\ Vulnerability \notin dependencies

(* What configuration and composition let through is sound, whoever the host is: *)
(* composing fails only for what local smoke refuses, the preset can be planned  *)
(* from the profile's registry, preflight fails only for a probe's answer or the *)
(* vulnerability provider nobody supplied (docs/application-composition.md,      *)
(* "Composition still succeeds"), and a capability is constructed only around    *)
(* ports and tools that preflight has found, so that no default, such as the NVD *)
(* client, steps in unnoticed (resolve_configuration, ApplicationComposition,    *)
(* create_default_factory_registry, whose factories decide what to use on their  *)
(* own).                                                                         *)
ComposedIsSound ==
  /\ raised = "internal" /\ profile # None /\ composition.ids = {} =>
       profile = "local_smoke"
  /\ composition.ids # {} => pc # "configuration_error"
  /\ \A i \in 1..Len(checks) : checks[i].ready \/ Excusable(checks[i])
  /\ \A i \in 1..Len(built) : \A r \in Wired(built[i], dependencies) \ {Resolver} :
       FoundReady(r)

==============================================================================
