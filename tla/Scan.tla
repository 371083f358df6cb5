-------------------------------- MODULE Scan --------------------------------
(***************************************************************************)
(* One application scan: ScanOrchestrator.run (application/orchestration.py)*)
(* and ScanInspector.inspect (application/inspection.py), with prepare_scan *)
(* (application/scan_config.py), ScanPreflight.run                          *)
(* (application/preflight.py) and the part of PipelineBuilder.build that     *)
(* calls factories (planning/builder.py, planning/factories.py).            *)
(*                                                                          *)
(* The planner and the runtime are used by what they promise. A plan is     *)
(* what module Planner shows ExecutionPlanner to return; a run of the       *)
(* pipeline is a behaviour of PipelineContract, which module Pipeline       *)
(* implements. The contents of the Context play no part here.               *)
(*                                                                          *)
(* Capability IDs, state keys and requirements are numbers in the order of  *)
(* their serialized names. KeyboardInterrupt may arrive between two steps.  *)
(***************************************************************************)
EXTENDS Naturals, Sequences, FiniteSets

CONSTANTS
  Ids,          \* capability identities
  Keys,         \* canonical state keys
  Tools,        \* tool requirements
  Providers,    \* provider requirements
  Compositions, \* what the service may be constructed with
  Requests      \* what callers ask of it

Requirements == Tools \cup Providers

\* A probe answers, raises ReadinessProbeError, or raises something else.
ProbeOutcomes == {"READY", "NOT_READY", "PROBE_ERROR", "RAISES"}

\* CapabilityRegistry (ids, requires, provides), CapabilityFactoryRegistry
\* (have, misbound, broken, needs) and ReadinessRegistry (the rest).
CompositionType ==
  [ids : SUBSET Ids, requires : [Ids -> SUBSET Keys],
   provides : [Ids -> SUBSET Keys],
   have     : SUBSET Ids,  \* identities with a factory
   misbound : SUBSET Ids,  \* factories declared for another identity
   broken   : SUBSET Ids,  \* factories that raise or build something else
   needs    : [Ids -> SUBSET Requirements],
   present  : SUBSET Requirements, \* tool defined, or provider configured
   probed   : SUBSET Requirements, \* there is a probe
   probe    : [Requirements -> ProbeOutcomes]]

\* The ScanConfig, and the service that receives it.
RequestType == [service : {"run", "inspect"}, goals : (SUBSET Keys) \ {{}},
                disabled : SUBSET Ids, partial : BOOLEAN]

ASSUME ScanAssumption ==
  /\ Ids \subseteq Nat /\ IsFiniteSet(Ids)
  /\ Requirements \subseteq Nat /\ Tools \cap Providers = {}
  /\ Compositions \subseteq CompositionType
  /\ \A c \in Compositions : \* one probe serves every tool
       Tools \cap c.probed \in {{}, Tools}
  /\ Requests \subseteq RequestType

VARIABLES
  composition, request,
  pc,       \* where the call is, then the way it ended
  plan,     \* prepared.plan: capability IDs in order
  manifest, \* ToolchainManifest: the requirements an inspection lists
  step,     \* preflight: position of the next step in the plan
  wanted,   \* preflight: requirements of the current step still to look at
  seen,     \* seen_requirements
  checks,   \* checks: [kind, of, ready]
  built,    \* capabilities constructed by PipelineBuilder.build
  log,      \* statuses of the capabilities the pipeline has attempted
  status,   \* pipeline_result.status, "NONE" before
  accepted, \* ScanResult.accepted
  events    \* lifecycle events the orchestrator has emitted

scanVars == <<composition, request, pc, plan, manifest, step, wanted, seen,
              checks, built, log, status, accepted, events>>

inputs        == <<composition, request>>
preflightVars == <<step, wanted, seen, checks>>
runVars       == <<built, log, status, accepted>>

\* What only a step of the scan changes.
scanState == <<inputs, plan, manifest, preflightVars, runVars, events>>

\* ScanConfigurationError, ScanPreflightError and PipelineBuildError are
\* expected; any other exception is an internal error.
Raised == {"configuration_error", "preflight_error", "build_error",
           "internal_error", "interrupted"}
Ended  == Raised \cup {"result", "inspection"}

Least(S) == CHOOSE x \in S : \A y \in S : x <= y

\* _emit: only the orchestrator has a sink.
Emit(list) == events' = IF request.service = "run" THEN events \o list ELSE events

-----------------------------------------------------------------------------
(* What ExecutionPlanner.plan returns for a registry *)

Producers(reg, k) == {c \in reg.ids : k \in reg.provides[c]}

\* The goals and, transitively, what their producers require.
Demanded(reg, goals) ==
  LET grow[n \in 0..Cardinality(Ids)] ==
        IF n = 0 THEN goals
        ELSE LET K == grow[n - 1]
             IN K \cup UNION {reg.requires[c] : c \in UNION {Producers(reg, k) : k \in K}}
  IN grow[Cardinality(Ids)]

Needed(reg, goals) == UNION {Producers(reg, k) : k \in Demanded(reg, goals)}

\* The canonical topological order, cut short where there is a cycle.
Order(reg, S) ==
  LET sort[T \in SUBSET S] ==
        LET free == {c \in T : \A p \in T : reg.requires[c] \cap reg.provides[p] = {}}
        IN IF free = {} THEN <<>>
           ELSE <<Least(free)>> \o sort[T \ {Least(free)}]
  IN sort[S]

Plannable(reg, goals) ==
  /\ \A k \in Demanded(reg, goals) : Cardinality(Producers(reg, k)) = 1
  /\ LET S == Needed(reg, goals) IN Len(Order(reg, S)) = Cardinality(S)

Plan(reg, goals) == Order(reg, Needed(reg, goals))

-----------------------------------------------------------------------------
(* prepare_scan *)

ScanInit ==
  /\ plan = <<>> /\ manifest = {}
  /\ step = 1 /\ wanted = {} /\ seen = {} /\ checks = <<>>
  /\ built = <<>> /\ log = <<>> /\ status = "NONE" /\ accepted = FALSE
  /\ events = <<>>

Init ==
  /\ composition \in Compositions
  /\ request \in Requests
  /\ pc = "prepare"
  /\ ScanInit

\* Unknown disabled capabilities, goals that cannot be planned and disabled
\* capabilities the plan needs are refused.
PlanComplete ==
  /\ pc = "prepare"
  /\ Emit(<<"PREPARATION_STARTED">>)
  /\ pc' = IF /\ request.disabled \subseteq composition.ids
              /\ Plannable(composition, request.goals)
              /\ Needed(composition, request.goals) \cap request.disabled = {}
           THEN "filter" ELSE "configuration_error"
  /\ UNCHANGED <<inputs, plan, manifest, preflightVars, runVars>>

\* filtered_registry
Allowed == [composition EXCEPT !.ids = @ \ request.disabled]

\* _manifest_for_plan
ManifestOf(steps) ==
  UNION {composition.needs[steps[i]] : i \in {j \in 1..Len(steps) :
                                                 steps[j] \in composition.have}}

PlanAllowed ==
  /\ pc = "filter"
  /\ IF Plannable(Allowed, request.goals)
     THEN /\ plan' = Plan(Allowed, request.goals)
          /\ manifest' = IF request.service = "inspect" THEN ManifestOf(plan') ELSE {}
          /\ pc' = "check"
          /\ Emit(<<"PREPARATION_COMPLETED", "PREFLIGHT_STARTED">>)
     ELSE pc' = "configuration_error" /\ UNCHANGED <<plan, manifest, events>>
  /\ UNCHANGED <<inputs, preflightVars, runVars>>

-----------------------------------------------------------------------------
(* ScanPreflight.run *)

Check(kind, of, ready) == [kind |-> kind, of |-> of, ready |-> ready]

\* The factory check of one planned step; its requirements come next.
CheckFactory ==
  /\ pc = "check" /\ wanted = {} /\ step <= Len(plan)
  /\ LET c == plan[step]
         bound == c \in composition.have \ composition.misbound
     IN /\ checks' = Append(checks, Check("factory", c, bound))
        /\ wanted' = IF bound THEN composition.needs[c] ELSE {}
  /\ step' = step + 1
  /\ UNCHANGED <<inputs, pc, plan, manifest, seen, runVars, events>>

\* The answer of a probe; only ReadinessProbeError is caught.
Ask(r, kind, before) ==
  LET outcome == composition.probe[r]
  IN IF outcome = "RAISES"
     THEN pc' = "internal_error" /\ UNCHANGED checks
     ELSE checks' = Append(before, Check(kind, r, outcome = "READY")) /\ UNCHANGED pc

\* _check_tool
CheckTool(r) ==
  LET defined == Append(checks, Check("definition", r, TRUE))
  IN CASE r \notin composition.present ->
            checks' = Append(checks, Check("definition", r, FALSE)) /\ UNCHANGED pc
       [] r \in composition.present \ composition.probed ->
            checks' = Append(defined, Check("executable", r, FALSE)) /\ UNCHANGED pc
       [] OTHER -> Ask(r, "executable", defined)

\* Mutant: a provider that is not configured is asked all the same.
CheckProviderUnconfigured(r) ==
  IF r \notin composition.probed
  THEN checks' = Append(checks, Check("configuration", r, TRUE)) /\ UNCHANGED pc
  ELSE Ask(r, "provider", checks)

\* _check_provider
CheckProvider(r) ==
  CASE r \notin composition.present ->
         checks' = Append(checks, Check("configuration", r, FALSE)) /\ UNCHANGED pc
    [] r \in composition.present \ composition.probed ->
         checks' = Append(checks, Check("configuration", r, TRUE)) /\ UNCHANGED pc
    [] OTHER -> Ask(r, "provider", checks)

CheckRequirement ==
  /\ pc = "check" /\ wanted # {}
  /\ LET r == Least(wanted)
     IN /\ wanted' = wanted \ {r}
        /\ seen' = seen \cup {r}
        /\ CASE r \in seen -> UNCHANGED <<pc, checks>>
             [] r \in Tools \ seen -> CheckTool(r)
             [] OTHER -> CheckProvider(r)
  /\ UNCHANGED <<inputs, plan, manifest, step, runVars, events>>

AllReady == \A i \in 1..Len(checks) : checks[i].ready

\* Mutant: the completion event is emitted before the verdict is looked at.
DecideEarly ==
  /\ pc = "check" /\ wanted = {} /\ step > Len(plan)
  /\ Emit(<<"PREFLIGHT_COMPLETED">>)
  /\ pc' = IF request.service = "inspect" THEN "inspection"
           ELSE IF AllReady THEN "build" ELSE "preflight_error"
  /\ UNCHANGED <<inputs, plan, manifest, preflightVars, runVars>>

\* PreflightResult: an inspection returns it, a scan goes on or raises.
Decide ==
  /\ pc = "check" /\ wanted = {} /\ step > Len(plan)
  /\ \/ /\ request.service = "inspect"
        /\ pc' = "inspection"
        /\ UNCHANGED events
     \/ /\ request.service = "run" /\ AllReady
        /\ pc' = "build"
        /\ Emit(<<"PREFLIGHT_COMPLETED">>)
     \/ /\ request.service = "run" /\ ~AllReady
        /\ pc' = "preflight_error"
        /\ Emit(<<"PREFLIGHT_FAILED">>)
  /\ UNCHANGED <<inputs, plan, manifest, preflightVars, runVars>>

-----------------------------------------------------------------------------
(* Construction and execution *)

\* PipelineBuilder's constructor refuses factories without a definition; build
\* looks for the planned ones before it calls any.
StartBuild ==
  /\ pc = "build"
  /\ \/ /\ composition.have \subseteq composition.ids
        /\ Emit(<<"BUILD_STARTED">>)
        /\ pc' = IF \A i \in 1..Len(plan) : plan[i] \in composition.have
                 THEN "construct" ELSE "build_error"
     \/ /\ ~(composition.have \subseteq composition.ids)
        /\ pc' = "build_error"
        /\ UNCHANGED events
  /\ UNCHANGED <<inputs, plan, manifest, preflightVars, runVars>>

\* factories.create of the next step
Construct ==
  /\ pc = "construct" /\ Len(built) < Len(plan)
  /\ LET c == plan[Len(built) + 1]
     IN IF c \in composition.broken
        THEN pc' = "build_error" /\ UNCHANGED built
        ELSE built' = Append(built, c) /\ UNCHANGED pc
  /\ UNCHANGED <<inputs, plan, manifest, preflightVars, log, status, accepted,
                 events>>

\* The policy reads the clock for its deadline, which may fail.
StartRun ==
  /\ pc = "construct" /\ Len(built) = Len(plan)
  /\ \/ /\ pc' = "execute"
        /\ Emit(<<"BUILD_COMPLETED", "EXECUTION_STARTED">>)
     \/ /\ pc' = "internal_error"
        /\ Emit(<<"BUILD_COMPLETED">>)
  /\ UNCHANGED <<inputs, plan, manifest, preflightVars, runVars>>

\* Pipeline.run, as PipelineContract promises it; the Context is left out.
Runtime == INSTANCE PipelineContract
             WITH StateNames <- {}, Items <- {}, Missing <- "missing",
                  open <- (pc = "execute"), store <- <<>>, verdict <- status

Statuses == {"SUCCESS", "PARTIAL", "FAILURE", "ERROR"}

\* One capability is attempted; the run ends with the plan or at a failure.
Attempt ==
  /\ pc = "execute"
  /\ pc' \in {"execute", "accept"}
  /\ status' \in Statuses \cup {"NONE"}
  /\ \/ Runtime!Keep /\ (pc' = "accept" <=> Len(log') = Len(plan))
     \/ Runtime!Stop
  /\ Emit(IF pc' = "accept" THEN <<"EXECUTION_COMPLETED">> ELSE <<>>)
  /\ UNCHANGED <<inputs, plan, manifest, preflightVars, built, accepted>>

\* The runtime raises (its clock returned an invalid reading).
Crash ==
  /\ pc = "execute"
  /\ pc' = "internal_error"
  /\ status' = "NONE"
  /\ Runtime!Abandon
  /\ UNCHANGED <<inputs, plan, manifest, preflightVars, built, accepted, events>>

\* Mutant: the operator's policy on partial results is not asked.
AcceptPartial ==
  /\ pc = "accept"
  /\ accepted' = (status \in {"SUCCESS", "PARTIAL"})
  /\ pc' = "result"
  /\ Emit(<<"RESULT_CREATED">>)
  /\ UNCHANGED <<inputs, plan, manifest, preflightVars, built, log, status>>

\* is_scan_result_accepted, and the ScanResult
Accept ==
  /\ pc = "accept"
  /\ accepted' = (status = "SUCCESS" \/ (status = "PARTIAL" /\ request.partial))
  /\ pc' = "result"
  /\ Emit(<<"RESULT_CREATED">>)
  /\ UNCHANGED <<inputs, plan, manifest, preflightVars, built, log, status>>

\* KeyboardInterrupt: nothing of the application catches it.
Interrupt ==
  /\ pc \notin Ended
  /\ pc' = "interrupted"
  /\ UNCHANGED <<inputs, plan, manifest, preflightVars, runVars, events>>

Steps == \/ PlanComplete \/ PlanAllowed
         \/ CheckFactory \/ CheckRequirement \/ Decide
         \/ StartBuild \/ Construct \/ StartRun
         \/ Attempt \/ Crash \/ Accept

Next == Steps \/ Interrupt

Spec == Init /\ [][Next]_scanVars

-----------------------------------------------------------------------------
(* Properties *)

Phases == {"prepare", "filter", "check", "build", "construct", "execute", "accept"}
Lifecycle == <<"PREPARATION_STARTED", "PREPARATION_COMPLETED", "PREFLIGHT_STARTED",
               "PREFLIGHT_COMPLETED", "BUILD_STARTED", "BUILD_COMPLETED",
               "EXECUTION_STARTED", "EXECUTION_COMPLETED", "RESULT_CREATED">>
EventNames == {Lifecycle[i] : i \in 1..Len(Lifecycle)} \cup {"PREFLIGHT_FAILED"}
Kinds == {"factory", "definition", "executable", "configuration", "provider"}

(* The values the application's local variables and results take.               *)
TypeOK ==
  /\ composition \in CompositionType /\ request \in RequestType
  /\ pc \in Phases \cup Ended
  /\ plan \in Seq(Ids) /\ manifest \subseteq Requirements
  /\ step \in 1..Len(plan) + 1
  /\ wanted \subseteq Requirements /\ seen \subseteq Requirements
  /\ checks \in Seq([kind : Kinds, of : Ids \cup Requirements, ready : BOOLEAN])
  /\ built \in Seq(Ids)
  /\ log \in Seq(Statuses) /\ status \in Statuses \cup {"NONE"}
  /\ accepted \in BOOLEAN
  /\ events \in Seq(EventNames)

\* Requirement r is satisfied by the composition and its environment.
Met(r) == /\ r \in composition.present
          /\ IF r \in Tools THEN r \in composition.probed /\ composition.probe[r] = "READY"
             ELSE r \in composition.probed => composition.probe[r] = "READY"

CanStart == \A i \in 1..Len(plan) :
              /\ plan[i] \in composition.have \ composition.misbound
              /\ \A r \in composition.needs[plan[i]] : Met(r)

(* The verdict of preflight is the readiness of the plan, whatever the order in  *)
(* which steps share requirements: a capability is constructed, and a dry run    *)
(* says ready, only when every planned factory is bound and every requirement of *)
(* it is met, and a scan is refused only when one is not (ScanPreflight.run).    *)
VerdictIsReadiness ==
  /\ built # <<>> \/ pc \in {"build", "build_error", "result"} => CanStart
  /\ pc = "preflight_error" => ~CanStart
  /\ pc = "inspection" => (AllReady <=> CanStart)

\* The events of a scan that gets as far as lifecycle event e.
Through(e) == SubSeq(Lifecycle, 1, CHOOSE i \in 1..Len(Lifecycle) : Lifecycle[i] = e)

(* The events tell how a scan ended: the phase that failed is the one announced  *)
(* and not completed, a refused scan announces no build or execution, and an     *)
(* inspection announces nothing (docs/preflight-readiness.md, "one preflight     *)
(* start event followed by one completed or failed summary").                    *)
EventsTellOutcome ==
  /\ request.service = "inspect" => events = <<>>
  /\ request.service = "run" =>
       /\ pc = "result" => events = Lifecycle
       /\ pc = "preflight_error" =>
            events = Append(Through("PREFLIGHT_STARTED"), "PREFLIGHT_FAILED")
       /\ pc = "configuration_error" => events = Through("PREPARATION_STARTED")
       /\ pc = "build_error" =>
            events \in {Through("PREFLIGHT_COMPLETED"), Through("BUILD_STARTED")}
       /\ log # <<>> => Len(events) >= Len(Through("EXECUTION_STARTED"))
=============================================================================
