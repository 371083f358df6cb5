------------------------------- MODULE Planner -------------------------------
(***************************************************************************)
(* Dependency expansion, topological ordering and pipeline construction:    *)
(* ExecutionPlanner.plan (planning/planner.py), the validation of           *)
(* ExecutionPlan (planning/models.py), PipelineBuilder.build                *)
(* (planning/builder.py), and PlannedExecution (planning/execution.py),     *)
(* which plans for one Context and may execute with another.                *)
(*                                                                          *)
(* Capability IDs and state keys are numbers: only their order (that of the *)
(* serialized names, which decides ties) and identity matter here.          *)
(***************************************************************************)
EXTENDS Naturals, Sequences, FiniteSets

CONSTANTS
  Ids,        \* capability identities, in the order of their names
  Keys,       \* canonical state keys, in the order of their names
  Registries, \* the registries considered: [requires, provides], where an
              \* identity that provides nothing has no definition
  GoalSets,   \* goals callers ask for
  Contexts,   \* names present in a caller's Context, canonical or not
  FactorySets, \* factory registries: [have, broken, misnamed]
  Definitions  \* registries a builder may be given instead of the planner's

ASSUME PlannerAssumption ==
  /\ Ids \subseteq Nat /\ Keys \subseteq Nat
  /\ IsFiniteSet(Ids) /\ IsFiniteSet(Keys)
  /\ Registries \subseteq [requires : [Ids -> SUBSET Keys],
                           provides : [Ids -> SUBSET Keys]]
  /\ GoalSets \subseteq SUBSET Keys
  /\ Contexts \subseteq SUBSET Nat
  /\ FactorySets \subseteq
       [have : SUBSET Ids, broken : SUBSET Ids, misnamed : SUBSET Ids]
  /\ Definitions \subseteq [requires : [Ids -> SUBSET Keys],
                            provides : [Ids -> SUBSET Keys]]

VARIABLES
  registry,  \* the CapabilityRegistry
  goals,     \* normalized_goals
  available, \* normalized_available
  pc,        \* phase of the planner, then the way it ended
  goalsLeft, \* goals the loop has not looked at
  visiting,  \* recursion stack of visit: [id, left], left = requirements to do
  completed, \* identities visit has finished
  selected,  \* identities in the plan
  waiting,   \* dependencies[name] of _topological_order
  ordered,   \* the ordered steps
  given,     \* the names in the Context that the plan is executed with
  pipeline   \* what the builder returns: [id, contract] in order

vars == <<registry, goals, available, pc, goalsLeft, visiting, completed,
          selected, waiting, ordered, given, pipeline>>

input == <<registry, goals, available>>

Errors == {"invalid_input", "missing", "ambiguous", "cycle", "invalid_plan"}
BuildErrors == {"mismatch", "missing_factory", "invalid_factory"}
Finished == Errors \cup BuildErrors \cup {"built"}

Requires(c) == registry.requires[c]
Provides(c) == registry.provides[c]

\* producers_for(state_key)
Producers(k) == {c \in Ids : k \in Provides(c)}

Least(S) == CHOOSE x \in S : \A y \in S : x <= y

\* PlannedExecution.plan: only the canonical names of the Context count.
Canonical(context) == context \cap Keys

\* plan(goals, available_state), after _normalize_state_input
Init ==
  /\ registry \in Registries
  /\ goals \in GoalSets
  /\ given \in Contexts
  /\ available = Canonical(given)
  /\ pc = IF goals = {} THEN "invalid_input" ELSE "expand"
  /\ goalsLeft = goals
  /\ visiting = <<>>
  /\ completed = {}
  /\ selected = {}
  /\ waiting = [c \in Ids |-> {}]
  /\ ordered = <<>>
  /\ pipeline = <<>>

-----------------------------------------------------------------------------
(* Expansion: visit, unfolded into one step per goal, requirement or return *)

OnStack(c) == \E i \in 1..Len(visiting) : visiting[i].id = c

\* visit(c), called with the stack `frames`
Visit(c, frames) ==
  \/ /\ c \in completed
     /\ visiting' = frames
     /\ UNCHANGED <<pc, selected>>
  \/ /\ c \notin completed /\ OnStack(c)
     /\ pc' = "cycle"
     /\ UNCHANGED <<visiting, selected>>
  \/ /\ c \notin completed /\ ~OnStack(c)
     /\ visiting' = Append(frames, [id |-> c, left |-> Requires(c)])
     /\ selected' = selected \cup {c}
     /\ UNCHANGED pc

\* Mutant: the first of several producers is taken.
DemandFirst(k, frames) ==
  \/ /\ Producers(k) = {}
     /\ pc' = "missing"
     /\ UNCHANGED <<visiting, selected>>
  \/ \E c \in Producers(k) : c = Least(Producers(k)) /\ Visit(c, frames)

\* visit(producer_for(k))
Demand(k, frames) ==
  \/ /\ Producers(k) = {}
     /\ pc' = "missing"
     /\ UNCHANGED <<visiting, selected>>
  \/ /\ Cardinality(Producers(k)) > 1
     /\ pc' = "ambiguous"
     /\ UNCHANGED <<visiting, selected>>
  \/ \E c \in Producers(k) : Producers(k) = {c} /\ Visit(c, frames)

\* Mutant: the goal is not taken off the list.
NextGoalAgain ==
  /\ pc = "expand" /\ visiting = <<>> /\ goalsLeft # {}
  /\ LET g == Least(goalsLeft)
     IN IF g \in available THEN UNCHANGED <<pc, visiting, selected>>
        ELSE Demand(g, visiting)
  /\ UNCHANGED <<input, goalsLeft, completed, waiting, ordered, given, pipeline>>

NextGoal ==
  /\ pc = "expand" /\ visiting = <<>> /\ goalsLeft # {}
  /\ LET g == Least(goalsLeft)
     IN /\ goalsLeft' = goalsLeft \ {g}
        /\ IF g \in available THEN UNCHANGED <<pc, visiting, selected>>
           ELSE Demand(g, visiting)
  /\ UNCHANGED <<input, completed, waiting, ordered, given, pipeline>>

Top == visiting[Len(visiting)]

NextRequirement ==
  /\ pc = "expand" /\ visiting # <<>>
  /\ Top.left # {}
  /\ LET r == Least(Top.left)
         frames == [visiting EXCEPT ![Len(visiting)].left = @ \ {r}]
     IN IF r \in available
        THEN visiting' = frames /\ UNCHANGED <<pc, selected>>
        ELSE Demand(r, frames)
  /\ UNCHANGED <<input, goalsLeft, completed, waiting, ordered, given, pipeline>>

Return ==
  /\ pc = "expand" /\ visiting # <<>>
  /\ Top.left = {}
  /\ completed' = completed \cup {Top.id}
  /\ visiting' = SubSeq(visiting, 1, Len(visiting) - 1)
  /\ UNCHANGED <<input, pc, goalsLeft, selected, waiting, ordered, given, pipeline>>

-----------------------------------------------------------------------------
(* Ordering: _topological_order *)

\* _single_selected_producer
SelectedProducers(k) == Producers(k) \cap selected

StartOrdering ==
  /\ pc = "expand" /\ visiting = <<>> /\ goalsLeft = {}
  /\ LET open == (UNION {Requires(c) : c \in selected}) \ available
     IN pc' = IF \E k \in open : SelectedProducers(k) = {} THEN "missing"
              ELSE IF \E k \in open : Cardinality(SelectedProducers(k)) > 1
              THEN "ambiguous" ELSE "order"
  /\ waiting' = [c \in Ids |->
       IF c \in selected
       THEN UNION {SelectedProducers(k) : k \in Requires(c) \ available}
       ELSE {}]
  /\ UNCHANGED <<input, goalsLeft, visiting, completed, selected, ordered,
                 given, pipeline>>

Placed == {ordered[i] : i \in 1..Len(ordered)}

\* the heap `ready`
Ready == {c \in selected \ Placed : waiting[c] = {}}

\* Mutant: ties go to the greatest name.
PickGreatest ==
  /\ pc = "order"
  /\ Ready # {}
  /\ LET c == CHOOSE x \in Ready : \A y \in Ready : x >= y
     IN /\ ordered' = Append(ordered, c)
        /\ waiting' = [d \in Ids |-> waiting[d] \ {c}]
  /\ UNCHANGED <<input, pc, goalsLeft, visiting, completed, selected, given,
                 pipeline>>

PickNext ==
  /\ pc = "order"
  /\ Ready # {}
  /\ LET c == Least(Ready)
     IN /\ ordered' = Append(ordered, c)
        /\ waiting' = [d \in Ids |-> waiting[d] \ {c}]
  /\ UNCHANGED <<input, pc, goalsLeft, visiting, completed, selected, given,
                 pipeline>>

\* available state and what the first n steps of a plan provide
Accumulated(steps, n) ==
  available \cup UNION {Provides(steps[i]) : i \in 1..n}

\* ExecutionPlan.__post_init__
ValidPlan(steps) ==
  /\ goals # {}
  /\ \A i, j \in 1..Len(steps) : steps[i] = steps[j] => i = j
  /\ \A i \in 1..Len(steps) : Requires(steps[i]) \subseteq Accumulated(steps, i - 1)
  /\ goals \subseteq Accumulated(steps, Len(steps))

FinishOrdering ==
  /\ pc = "order"
  /\ Ready = {}
  /\ pc' = IF Len(ordered) # Cardinality(selected) THEN "cycle"
           ELSE IF ValidPlan(ordered) THEN "planned" ELSE "invalid_plan"
  /\ UNCHANGED <<input, goalsLeft, visiting, completed, selected, waiting,
                 ordered, given, pipeline>>

-----------------------------------------------------------------------------
(* Building: PipelineBuilder, with definitions of its own *)

\* Each step is what the builder's registry d defines.
SameDefinitions(d) ==
  \A c \in Placed : d.requires[c] = Requires(c) /\ d.provides[c] = Provides(c)

\* The error of the first factory of f that fails: it raises or returns no
\* capability (broken), or returns one of another name (misnamed).
FactoryFailure(f) ==
  LET bad == {i \in 1..Len(ordered) : ordered[i] \in f.broken \cup f.misnamed}
  IN IF ordered[Least(bad)] \in f.broken THEN "invalid_factory" ELSE "mismatch"

\* The checks of the constructor are taken with those of build.
Build(f, d) ==
  /\ pc' = IF \/ \E c \in f.have : d.provides[c] = {}
              \/ ~SameDefinitions(d)
           THEN "mismatch"
           ELSE IF ~ValidPlan(ordered) THEN "invalid_plan"
           ELSE IF ~(Placed \subseteq f.have) THEN "missing_factory"
           ELSE IF Placed \cap (f.broken \cup f.misnamed) # {} THEN FactoryFailure(f)
           ELSE "built"
  /\ pipeline' = IF pc' = "built"
                 THEN [i \in 1..Len(ordered) |->
                         [id |-> ordered[i], contract |-> d.provides[ordered[i]]]]
                 ELSE <<>>

\* Mutant: a Context that lacks state the plan relies on is accepted.
ExecuteAnyway(context, f, d) ==
  /\ pc = "planned"
  /\ given' = context
  /\ Build(f, d)
  /\ UNCHANGED <<input, goalsLeft, visiting, completed, selected, waiting,
                 ordered>>

\* PlannedExecution.execute, up to pipeline.run(context): the Context need not
\* be the one that was planned for.
Execute(context, f, d) ==
  /\ pc = "planned"
  /\ given' = context
  /\ \/ /\ available \subseteq context
        /\ Build(f, d)
     \/ /\ ~(available \subseteq context)
        /\ pc' = "invalid_input"
        /\ UNCHANGED pipeline
  /\ UNCHANGED <<input, goalsLeft, visiting, completed, selected, waiting,
                 ordered>>

BuildPipeline ==
  \E context \in Contexts, f \in FactorySets, d \in {registry} \cup Definitions :
    Execute(context, f, d)

Expand == NextGoal \/ NextRequirement \/ Return

Order == StartOrdering \/ PickNext \/ FinishOrdering

Next == Expand \/ Order \/ BuildPipeline

Spec == Init /\ [][Next]_vars

\* Planning is one synchronous call: it keeps running until it is over.
FairSpec == Spec /\ WF_vars(Expand \/ Order)

-----------------------------------------------------------------------------
(* Type *)

\* The registry, the goals, the selection, the plan and the build that
\* ExecutionPlanner.plan and PipelineBuilder.build leave keep their types.
TypeOK ==
  /\ registry \in Registries
  /\ goals \subseteq Keys /\ available \subseteq Keys /\ goalsLeft \subseteq goals
  /\ pc \in {"expand", "order", "planned"} \cup Finished
  /\ visiting \in Seq([id : Ids, left : SUBSET Keys])
  /\ completed \subseteq selected /\ selected \subseteq Ids
  /\ waiting \in [Ids -> SUBSET Ids]
  /\ ordered \in Seq(Ids) /\ given \subseteq Nat
  /\ pipeline \in Seq([id : Ids, contract : SUBSET Keys])

-----------------------------------------------------------------------------
(* Reference: what a plan should be, as a closure of the dependency graph *)

\* keys needed to reach the goals, through n requirements
NeededWithin[n \in Nat] ==
  IF n = 0 THEN goals \ available
  ELSE LET needed == NeededWithin[n - 1]
           unique == {k \in needed : Cardinality(Producers(k)) = 1}
       IN needed \cup
          ((UNION {Requires(c) : c \in UNION {Producers(k) : k \in unique}})
             \ available)

NeededKeys == NeededWithin[Cardinality(Keys)]
NeededIds  == UNION {Producers(k) : k \in NeededKeys}

DependsOn(c) == UNION {Producers(k) : k \in Requires(c) \ available}

\* A cycle is a set of capabilities each waiting for another one of it.
Cyclic == \E S \in SUBSET NeededIds : S # {} /\ \A c \in S : DependsOn(c) \cap S # {}

Satisfiable ==
  /\ \A k \in NeededKeys : Cardinality(Producers(k)) = 1
  /\ ~Cyclic

\* The planner succeeds exactly when the goals can be reached through unique
\* producers without a cycle, in whatever order it explores the graph, and an
\* error names a defect that the needed part of the graph really has.
PlanIffSatisfiable ==
  /\ pc \in {"planned", "missing", "ambiguous", "cycle", "invalid_plan"}
       => (pc = "planned" <=> Satisfiable)
  /\ pc = "missing"   => \E k \in NeededKeys : Producers(k) = {}
  /\ pc = "ambiguous" => \E k \in NeededKeys : Cardinality(Producers(k)) > 1
  /\ pc = "cycle"     => Cyclic

\* Two plans of the same input are equal: a plan has every capability the goals
\* need and no other, and of all topological orders it is the one that takes the
\* smallest name whenever there is a choice.
PlanIsCanonical ==
  pc = "planned" =>
    /\ Placed = NeededIds
    /\ \A i, j \in 1..Len(ordered) :
         (i < j /\ ordered[j] < ordered[i]) =>
           ~(DependsOn(ordered[j]) \subseteq {ordered[m] : m \in 1..(i - 1)})

\* The contracts of a built pipeline, taken from the builder's registry, declare
\* every state that a later step requires and every goal, unless it is in the
\* Context the pipeline is run with, be it another than the plan was made for
\* (PlannedExecution.execute).
BuiltIsExecutable ==
  pc = "built" =>
    LET declared(n) == given \cup UNION {pipeline[i].contract : i \in 1..n}
    IN /\ \A i \in 1..Len(pipeline) : Requires(pipeline[i].id) \subseteq declared(i - 1)
       /\ goals \subseteq declared(Len(pipeline))

\* Planning ends, even on cyclic graphs.
PlanningEnds == <>(pc \in Finished \cup {"planned"})
==============================================================================
