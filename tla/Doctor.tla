------------------------------- MODULE Doctor -------------------------------
(***************************************************************************)
(* RedForgeDoctor.inspect (application/doctor.py) as create_doctor          *)
(* (composition/application.py) constructs it, and then a scan of the same  *)
(* composition by module Scan: what the doctor says is a forecast of what   *)
(* preflight and the builder will say, made from the same metadata by other *)
(* code. Between the two the composition and the answers of its probes stay *)
(* as they are. The version of a tool is asked by the doctor only, and the  *)
(* operator need not ask the doctor at all.                                 *)
(***************************************************************************)
EXTENDS Scan

CONSTANT Hosts \* [support, python, valid]: the platform, whether the Python
               \* version is supported, and configuration_valid

Supports == {"PRIMARY", "BEST_EFFORT", "DEVELOPMENT", "LIBRARY_ONLY", "UNSUPPORTED"}

ASSUME DoctorAssumption ==
  Hosts \subseteq [support : Supports, python : BOOLEAN, valid : BOOLEAN]

VARIABLES
  host,      \* what the platform and Python probes report
  toolsLeft, \* definitions of the ToolRegistry still to look at
  diagnosis, \* checks of the DoctorResult: [kind, of, status]
  forecast   \* DoctorResult.ready; "NONE" without a result

doctorVars == <<host, toolsLeft, diagnosis, forecast>>
forecastVars == <<scanVars, doctorVars>>

DoctorCheck(kind, of, s) == [kind |-> kind, of |-> of, status |-> s]

DoctorInit ==
  /\ composition \in Compositions
  /\ request \in Requests
  /\ host \in Hosts
  /\ pc = "consult"
  /\ ScanInit
  /\ toolsLeft = {} /\ diagnosis = <<>> /\ forecast = "NONE"

-----------------------------------------------------------------------------
(* RedForgeDoctor.inspect *)

\* _platform_status
PlatformStatus(support) ==
  CASE support = "PRIMARY"     -> "READY"
    [] support = "UNSUPPORTED" -> "INCOMPATIBLE"
    [] OTHER                   -> "WARNING"

RegistryStatus == IF composition.ids = {} THEN "MISCONFIGURED" ELSE "READY"

\* validate_against raises for a factory without a definition.
FactoryStatus ==
  CASE ~(composition.have \subseteq composition.ids) -> "ERROR"
    [] composition.have = composition.ids            -> "READY"
    [] OTHER                                         -> "MISCONFIGURED"

\* The operator asks for a scan right away, or the composition has no tool
\* probe, without which create_doctor raises.
SkipDoctor ==
  /\ pc = "consult"
  /\ pc' = "prepare"
  /\ UNCHANGED <<scanState, doctorVars>>

\* The platform, the interpreter and the registries
InspectHost ==
  /\ pc = "consult"
  /\ Tools \cap composition.probed # {}
  /\ diagnosis' =
       <<DoctorCheck("platform", 0, PlatformStatus(host.support)),
         DoctorCheck("python", 0, IF host.python THEN "READY" ELSE "INCOMPATIBLE"),
         DoctorCheck("capability_registry", 0, RegistryStatus),
         DoctorCheck("factory_registry", 0, FactoryStatus)>>
  /\ toolsLeft' = Tools \cap composition.present
  /\ pc' = "tools"
  /\ UNCHANGED <<scanState, host, forecast>>

\* ToolRunnerVersionProbe; ABSENT when the composition has none.
VersionAnswers == {"ABSENT", "DETECTED", "UNAVAILABLE", "MALFORMED", "INCOMPATIBLE",
                   "ERROR", "RAISES"}

\* The status of a tool that is available
VersionStatus(answer) ==
  CASE answer \in {"ABSENT", "DETECTED", "UNAVAILABLE"} -> "READY"
    [] answer = "MALFORMED"                             -> "WARNING"
    [] answer = "INCOMPATIBLE"                          -> "INCOMPATIBLE"
    [] answer \in {"ERROR", "RAISES"}                   -> "ERROR"

\* availability.check; here every exception is caught.
AvailabilityStatus(t) ==
  CASE composition.probe[t] = "READY"                     -> "READY"
    [] composition.probe[t] = "NOT_READY"                 -> "UNAVAILABLE"
    [] composition.probe[t] \in {"PROBE_ERROR", "RAISES"} -> "ERROR"

\* One turn of the loop over the ToolRegistry
InspectTool ==
  /\ pc = "tools" /\ toolsLeft # {}
  /\ LET t == Least(toolsLeft)
     IN /\ toolsLeft' = toolsLeft \ {t}
        /\ \E answer \in VersionAnswers :
             diagnosis' = Append(diagnosis, DoctorCheck("tool_executable", t,
               IF AvailabilityStatus(t) = "READY" THEN VersionStatus(answer)
               ELSE AvailabilityStatus(t)))
  /\ UNCHANGED <<scanState, pc, host, forecast>>

\* Requirements of the registered factories, planned or not
Declared == UNION {composition.needs[c] : c \in composition.have}

UndefinedTools == (Declared \cap Tools) \ composition.present

\* Mutant: the doctor looks at tools only.
ProvidersTakenAsPresent == {}

UnconfiguredProviders == (Declared \cap Providers) \ composition.present

MetadataStatus == IF UndefinedTools = {} THEN "READY" ELSE "MISCONFIGURED"

CompositionStatus ==
  IF {RegistryStatus, FactoryStatus, MetadataStatus} = {"READY"} THEN "READY"
  ELSE "MISCONFIGURED"

\* The configuration, the readiness metadata, and the DoctorResult
Conclude ==
  /\ pc = "tools" /\ toolsLeft = {}
  /\ diagnosis' = diagnosis
       \o <<DoctorCheck("configuration", 0, IF host.valid THEN "READY" ELSE "MISCONFIGURED"),
            DoctorCheck("readiness_metadata", 0, MetadataStatus),
            DoctorCheck("composition", 0, CompositionStatus)>>
       \o (IF UnconfiguredProviders = {} THEN <<>>
           ELSE <<DoctorCheck("provider", 0, "MISCONFIGURED")>>)
  /\ forecast' = IF \A i \in 1..Len(diagnosis') : diagnosis'[i].status \in {"READY", "WARNING"}
                 THEN "READY" ELSE "NOT_READY"
  /\ pc' = "prepare"
  /\ UNCHANGED <<scanState, host, toolsLeft>>

DoctorStep == InspectHost \/ InspectTool \/ Conclude

DoctorNext == SkipDoctor \/ DoctorStep \/ (Next /\ UNCHANGED doctorVars)

DoctorSpec == DoctorInit /\ [][DoctorNext]_forecastVars

-----------------------------------------------------------------------------
(* Properties *)

DoctorKinds == {"platform", "python", "capability_registry", "factory_registry",
                "tool_executable", "configuration", "readiness_metadata",
                "composition", "provider"}

(* The values of the doctor's local variables and of its result.                *)
DoctorTypeOK ==
  /\ host \in Hosts /\ toolsLeft \subseteq Tools
  /\ forecast \in {"NONE", "READY", "NOT_READY"}
  /\ diagnosis \in Seq([kind : DoctorKinds, of : Tools \cup {0},
                        status : {"READY", "WARNING", "UNAVAILABLE", "INCOMPATIBLE",
                                  "MISCONFIGURED", "ERROR"}])

\* What the doctor does not look at: the declared identity of a factory, the
\* probes of providers, and what a factory does when it is called.
Unforeseen(check) ==
  \/ check.kind = "factory" /\ check.of \in composition.misbound
  \/ check.kind = "provider"

(* A ready doctor is a promise about every later scan of the composition,        *)
(* whatever its goals: preflight finds nothing wrong that the doctor could have  *)
(* seen, a probe that raises belongs to a provider, and the builder fails only   *)
(* in a factory (RedForgeDoctor.inspect against ScanPreflight.run and            *)
(* PipelineBuilder, which derive readiness independently).                       *)
ForecastHolds ==
  forecast = "READY" =>
    /\ \A i \in 1..Len(checks) : checks[i].ready \/ Unforeseen(checks[i])
    /\ pc = "internal_error" /\ built = <<>> =>
         \E r \in Providers : composition.probe[r] = "RAISES"
    /\ pc = "build_error" => \E i \in 1..Len(plan) : plan[i] \in composition.broken
=============================================================================
