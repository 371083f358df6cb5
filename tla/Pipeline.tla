------------------------------ MODULE Pipeline ------------------------------
(***************************************************************************)
(* The sequential capability pipeline: Pipeline.add and Pipeline.run of     *)
(* runtime/pipeline.py, with the state-limit and deadline policy of         *)
(* runtime/execution_policy.py, the Context of sdk/context.py and the       *)
(* diagnostic events the runtime emits.                                     *)
(*                                                                          *)
(* A run is broken at the points where control leaves the runtime (a clock  *)
(* reading, the capability's own code, the publication of state, the sink), *)
(* so that a KeyboardInterrupt may arrive between any two of them.          *)
(*                                                                          *)
(* Values are abstracted to what the runtime tells apart: whether the type  *)
(* validator of their key accepts them and how many elements are counted    *)
(* against a limit. A capability name that is a valid identifier is its own *)
(* capability ID (CapabilityId accepts only names it leaves unchanged).     *)
(***************************************************************************)
EXTENDS Naturals, Sequences

CONSTANTS
  Names,           \* capability names a caller may register
  ValidIds,        \* the names normalize_capability_id accepts
  Keys,            \* PipelineStateKey: the canonical state keys
  BoundedKeys,     \* the canonical keys a StateLimit may name
  Values,          \* the values capabilities produce
  Absent,          \* Python's None, or a key missing from a mapping
  DefaultContracts,\* CAPABILITY_OUTPUT_CONTRACTS, {} where there is none
  Declarations,    \* the `provides` arguments callers pass to add
  Seeds,           \* the states of the Contexts callers pass to run
  Policies,        \* the execution policies callers pass to run
  MaxEntries,      \* bound: capabilities registered in one pipeline
  MaxRuns,         \* bound: calls of run on one pipeline
  MaxTime,         \* bound: largest clock reading
  ClockFaults      \* may the injected clock return an invalid value?

\* Context.state is keyed by strings: canonical keys and legacy names.
StateNames == Keys \cup Names

\* A mapping from S to values, Absent where it has no entry.
Partial(S) == [S -> Values \cup {Absent}]

Nothing == [s \in StateNames |-> Absent]

ASSUME ValuesAssumption ==
  /\ Values \subseteq [valid : BOOLEAN, size : Nat]
  /\ Absent \notin Values
  /\ Absent \notin Nat

ASSUME ShapeAssumption ==
  /\ ValidIds \subseteq Names
  /\ BoundedKeys \subseteq Keys
  /\ DefaultContracts \in [Names -> SUBSET Keys]
  /\ \A n \in Names \ ValidIds : DefaultContracts[n] = {}
  /\ Declarations \subseteq SUBSET Keys
  /\ Seeds \subseteq Partial(StateNames)
  /\ Policies \subseteq [limits  : [BoundedKeys -> Nat \cup {Absent}],
                         expires : Nat \cup {Absent}]
  /\ ClockFaults \in BOOLEAN
  /\ MaxEntries \in Nat /\ MaxRuns \in Nat /\ MaxTime \in Nat

-----------------------------------------------------------------------------
(* Statuses, results and history *)

Usable   == {"SUCCESS", "PARTIAL"}
Stopping == {"FAILURE", "ERROR"}
Status   == Usable \cup Stopping

\* _STATUS_PRECEDENCE
Severity == [SUCCESS |-> 0, PARTIAL |-> 1, FAILURE |-> 2, ERROR |-> 3]

combine_status(current, observed) ==
  IF Severity[current] >= Severity[observed] THEN current ELSE observed

\* What execute() may give back: a Result, an exception, or something else.
Unanswered(kind) == [kind |-> kind, status |-> "ERROR", data |-> Absent,
                     pubs |-> [k \in Keys |-> Absent]]

Answers ==
  {Unanswered("raised"), Unanswered("malformed")} \cup
  [kind : {"result"}, status : Status, data : Values \cup {Absent},
   pubs : Partial(Keys)]

Violations == {"none", "before", "after", "limit"}

\* CapabilityExecution, with the state its result publishes.
Executions == [name : Names, status : Status, executed : BOOLEAN,
               violation : Violations, out : Partial(StateNames)]

\* _PipelineEntry: `typed` entries were added with an explicit capability_id.
Entries == [name : Names, typed : BOOLEAN]

EventTypes == {"STARTED", "DEADLINE", "LIMIT"} \cup Status
Events == [type : EventTypes, name : Names]

VARIABLES
  entries,    \* Pipeline._entries
  contracts,  \* Pipeline._output_contracts, {} where an ID has none
  pc,         \* where the run is
  index,      \* the loop's position in entries
  policy,     \* the policy of this run
  now,        \* last clock reading
  base,       \* ghost: Context.state when this run started
  ctx,        \* Context.state
  answer,     \* what the current capability returned
  executions, \* the local list of CapabilityExecution
  last,       \* last_result, as the entry it belongs to
  aggregate,  \* aggregate_status
  events,     \* what the sink received in this run
  runs        \* number of runs started

vars == <<entries, contracts, pc, index, policy, now, base, ctx, answer,
          executions, last, aggregate, events, runs>>

pipelineVars == <<entries, contracts>>
runVars      == <<index, policy, base, runs>>
resultVars   == <<executions, last, aggregate>>

Quiet == {"idle", "returned", "raised", "interrupted"}
Busy  == {"begin", "execute", "settle", "publish"}

NoPolicy == [limits |-> [k \in BoundedKeys |-> Absent], expires |-> Absent]

Init ==
  /\ entries = <<>>
  /\ contracts = DefaultContracts
  /\ pc = "idle"
  /\ index = 1
  /\ policy = NoPolicy
  /\ now = 0
  /\ base = Nothing
  /\ ctx = Nothing
  /\ answer = Unanswered("raised")
  /\ executions = <<>>
  /\ last = Absent
  /\ aggregate = "SUCCESS"
  /\ events = <<>>
  /\ runs = 0

-----------------------------------------------------------------------------
(* Building the pipeline *)

Registered(n) == \E i \in 1..Len(entries) : entries[i].name = n

\* add(capability, capability_id, provides): `provides` is {} when it is not
\* passed. Calls that raise before anything is assigned change nothing and are
\* left out; the call that raises on a duplicate name has by then recorded
\* the contract.
Add(n, typed, provides) ==
  /\ pc \in Quiet
  /\ typed => n \in ValidIds
  /\ provides # {} => typed /\ contracts[n] \in {{}, provides}
  /\ Registered(n) \/ Len(entries) < MaxEntries
  /\ contracts' = IF provides = {} THEN contracts
                  ELSE [contracts EXCEPT ![n] = provides]
  /\ entries' = IF Registered(n) THEN entries
                ELSE Append(entries, [name |-> n, typed |-> typed])
  /\ pc' = "idle"
  /\ UNCHANGED <<now, ctx, answer, events, runVars, resultVars>>

-----------------------------------------------------------------------------
(* Running it *)

\* run(target, policy): the target is a name (a new Context) or a Context the
\* caller already holds, the one of the previous run included.
Run(seed, pol) ==
  /\ pc \in Quiet
  /\ runs < MaxRuns
  /\ runs' = runs + 1
  /\ pc' = IF entries = <<>> THEN "returned" ELSE "begin"
  /\ index' = 1
  /\ policy' = pol
  /\ base' = seed
  /\ ctx' = seed
  /\ executions' = <<>>
  /\ last' = Absent
  /\ aggregate' = "SUCCESS"
  /\ events' = <<>>
  /\ UNCHANGED <<now, answer, pipelineVars>>

Entry == entries[index]

Emit(types) ==
  events' = events \o [i \in 1..Len(types) |->
                         [type |-> types[i], name |-> Entry.name]]

\* history, last_result and aggregate_status of one attempt
Record(status, executed, violation, out) ==
  LET e == [name |-> Entry.name, status |-> status, executed |-> executed,
            violation |-> violation, out |-> out]
  IN /\ executions' = Append(executions, e)
     /\ last' = e
     /\ aggregate' = combine_status(aggregate, status)

\* Mutant: reaching the deadline exactly is still in time.
InTimeInclusive ==
  IF policy.expires = Absent
  THEN UNCHANGED now
  ELSE \E t \in now..MaxTime : t <= policy.expires /\ now' = t

\* policy.check_deadline(): the clock is read only when there is a deadline.
InTime ==
  IF policy.expires = Absent
  THEN UNCHANGED now
  ELSE \E t \in now..MaxTime : t < policy.expires /\ now' = t

Late ==
  /\ policy.expires # Absent
  /\ \E t \in now..MaxTime : t >= policy.expires /\ now' = t

ClockInvalid ==
  /\ ClockFaults
  /\ policy.expires # Absent
  /\ UNCHANGED now

\* CAPABILITY_STARTED, then the deadline check allows the capability to run.
BeginInTime ==
  /\ pc = "begin"
  /\ Emit(<<"STARTED">>)
  /\ InTime
  /\ pc' = "execute"
  /\ UNCHANGED <<pipelineVars, runVars, ctx, answer, resultVars>>

\* Mutant: the terminal event precedes the policy event.
BeginLateSwapped ==
  /\ pc = "begin"
  /\ Late
  /\ Record("FAILURE", FALSE, "before", Nothing)
  /\ Emit(<<"STARTED", "FAILURE", "DEADLINE">>)
  /\ pc' = "returned"
  /\ UNCHANGED <<pipelineVars, runVars, ctx, answer>>

\* The deadline has passed: an unexecuted FAILURE is recorded, the run stops.
BeginLate ==
  /\ pc = "begin"
  /\ Late
  /\ Record("FAILURE", FALSE, "before", Nothing)
  /\ Emit(<<"STARTED", "DEADLINE", "FAILURE">>)
  /\ pc' = "returned"
  /\ UNCHANGED <<pipelineVars, runVars, ctx, answer>>

\* ExecutionDeadline.check raises ValueError, which leaves run.
BeginClockInvalid ==
  /\ pc = "begin"
  /\ ClockInvalid
  /\ Emit(<<"STARTED">>)
  /\ pc' = "raised"
  /\ UNCHANGED <<pipelineVars, runVars, ctx, answer, resultVars>>

\* Mutant: a capability that gives no Result is called again.
ExecuteRetry(a) ==
  /\ pc = "execute"
  /\ answer' = a
  /\ pc' = IF a.kind = "result" THEN "settle" ELSE "execute"
  /\ UNCHANGED <<pipelineVars, runVars, now, ctx, resultVars, events>>

\* capability.execute(context)
Execute(a) ==
  /\ pc = "execute"
  /\ answer' = a
  /\ pc' = "settle"
  /\ UNCHANGED <<pipelineVars, runVars, now, ctx, resultVars, events>>

-----------------------------------------------------------------------------
(* Judging what came back *)

\* declared_outputs of an entry, {} for None
Declared(e) ==
  IF e.typed \/ e.name \in ValidIds THEN contracts[e.name] ELSE {}

Published(a) == {k \in Keys : a.pubs[k] # Absent}

\* _is_valid_result and _normalize_capability_result raise
Invalid(e, a) ==
  \/ a.kind = "malformed"
  \/ a.status \in Stopping /\ Published(a) # {}
  \/ /\ a.status \in Usable
     /\ Published(a) # {}
     /\ \/ a.data # Absent
        \/ ~(Published(a) \subseteq Declared(e))
  \/ /\ a.status \in Usable
     /\ Published(a) = {} /\ a.data # Absent
     /\ Declared(e) # {} /\ \A k \in Keys : Declared(e) # {k}

\* _NormalizedPublications.explicit
Explicit(e, a) ==
  [k \in Keys |-> IF Published(a) # {} THEN a.pubs[k]
                  ELSE IF Declared(e) = {k} THEN a.data ELSE Absent]

\* explicit and legacy publications, as the update they make to Context.state
Output(e, a) ==
  [s \in StateNames |->
     IF s \in Keys /\ Explicit(e, a)[s] # Absent THEN Explicit(e, a)[s]
     ELSE IF s = e.name /\ Published(a) = {} /\ Declared(e) = {} THEN a.data
     ELSE Absent]

\* validate_pipeline_state_value accepts every explicit publication
Typed(e, a) ==
  \A k \in Keys : Explicit(e, a)[k] # Absent => Explicit(e, a)[k].valid

\* Mutant: one element over the limit is accepted.
OversizedByTwo(e, a) ==
  {k \in BoundedKeys :
     /\ Explicit(e, a)[k] # Absent
     /\ policy.limits[k] # Absent
     /\ Explicit(e, a)[k].size > policy.limits[k] + 1}

\* validate_publications: the keys over their limit; equality is allowed
Oversized(e, a) ==
  {k \in BoundedKeys :
     /\ Explicit(e, a)[k] # Absent
     /\ policy.limits[k] # Absent
     /\ Explicit(e, a)[k].size > policy.limits[k]}

Settle(status, violation, out) ==
  /\ pc = "settle"
  /\ Record(status, TRUE, violation, out)
  /\ pc' = "publish"
  /\ UNCHANGED <<pipelineVars, runVars, ctx, answer, events>>

\* an exception, an invalid result, or a FAILURE or ERROR the capability chose
SettleStopping ==
  /\ Invalid(Entry, answer) \/ answer.status \in Stopping
  /\ Settle(IF Invalid(Entry, answer) THEN "ERROR" ELSE answer.status,
            "none", Nothing)
  /\ UNCHANGED now

Plausible == ~Invalid(Entry, answer) /\ answer.status \in Usable

\* a value of the wrong type
SettleMistyped ==
  /\ Plausible
  /\ ~Typed(Entry, answer)
  /\ Settle("ERROR", "none", Nothing)
  /\ UNCHANGED now

\* the post-step deadline check fails; a broken clock is caught as an ERROR
SettleLate ==
  /\ Plausible
  /\ Typed(Entry, answer)
  /\ \/ Late /\ Settle("FAILURE", "after", Nothing)
     \/ ClockInvalid /\ Settle("ERROR", "none", Nothing)

SettleOversized ==
  /\ Plausible
  /\ Typed(Entry, answer)
  /\ InTime
  /\ Oversized(Entry, answer) # {}
  /\ Settle("FAILURE", "limit", Nothing)

SettleUsable ==
  /\ Plausible
  /\ Typed(Entry, answer)
  /\ InTime
  /\ Oversized(Entry, answer) = {}
  /\ Settle(answer.status, "none", Output(Entry, answer))

-----------------------------------------------------------------------------
(* Publishing it *)

\* Mutant: the batch replaces the state instead of updating it.
OverlayReplace(state, out) == [s \in StateNames |-> out[s]]

Overlay(state, out) ==
  [s \in StateNames |-> IF out[s] # Absent THEN out[s] ELSE state[s]]

PolicyEvent == [none |-> <<>>, before |-> <<"DEADLINE">>,
                after |-> <<"DEADLINE">>, limit |-> <<"LIMIT">>]

\* Mutant: what the capability called usable is published, whatever the verdict.
PublishRegardless ==
  /\ pc = "publish"
  /\ ctx' = IF answer.status \in Usable THEN Overlay(ctx, Output(Entry, answer))
            ELSE ctx
  /\ Emit(PolicyEvent[last.violation] \o <<last.status>>)
  /\ IF last.status \in Usable /\ index < Len(entries)
     THEN pc' = "begin" /\ index' = index + 1
     ELSE pc' = "returned" /\ UNCHANGED index
  /\ UNCHANGED <<pipelineVars, policy, base, runs, now, answer, resultVars>>

\* publish_many and the legacy write, the policy event, the terminal event,
\* then break or go on. publish_many repeats the validation Settle has done
\* on the same immutable values, so the branch for its failure has no action
\* here.
Publish ==
  /\ pc = "publish"
  /\ ctx' = IF last.status \in Usable THEN Overlay(ctx, last.out) ELSE ctx
  /\ Emit(PolicyEvent[last.violation] \o <<last.status>>)
  /\ IF last.status \in Usable /\ index < Len(entries)
     THEN pc' = "begin" /\ index' = index + 1
     ELSE pc' = "returned" /\ UNCHANGED index
  /\ UNCHANGED <<pipelineVars, policy, base, runs, now, answer, resultVars>>

\* KeyboardInterrupt is a BaseException: no handler of run catches it.
Interrupt ==
  /\ pc \in Busy
  /\ pc' = "interrupted"
  /\ UNCHANGED <<pipelineVars, runVars, now, ctx, answer, resultVars, events>>

-----------------------------------------------------------------------------

Build == \E n \in Names, typed \in BOOLEAN, provides \in Declarations \cup {{}} :
           Add(n, typed, provides)

Start == \E seed \in Seeds \cup {ctx, Nothing}, pol \in Policies \cup {NoPolicy} :
           Run(seed, pol)

Begin == BeginInTime \/ BeginLate \/ BeginClockInvalid

Call == \E a \in Answers : Execute(a)

Judge == SettleStopping \/ SettleMistyped \/ SettleLate \/ SettleOversized
           \/ SettleUsable

\* one pass of the loop body, without interruption
Advance == Begin \/ Call \/ Judge \/ Publish

Next == Build \/ Start \/ Advance \/ Interrupt

Spec == Init /\ [][Next]_vars

\* The thread that called run keeps executing it, and every capability's
\* execute() ends (external work is bounded by the tool runner's timeouts).
Fairness == WF_vars(Advance)

FairSpec == Spec /\ Fairness

-----------------------------------------------------------------------------
(* Type *)

\* Every piece of Pipeline.run's state keeps its type: the entries, the run
\* context, the events, the executions and the answer of the current plugin.
TypeOK ==
  /\ entries \in Seq(Entries)
  /\ contracts \in [Names -> SUBSET Keys]
  /\ pc \in Quiet \cup Busy
  /\ index \in Nat \ {0}
  /\ policy \in [limits  : [BoundedKeys -> Nat \cup {Absent}],
                 expires : Nat \cup {Absent}]
  /\ now \in 0..MaxTime
  /\ base \in Partial(StateNames)
  /\ ctx \in Partial(StateNames)
  /\ answer \in Answers
  /\ executions \in Seq(Executions)
  /\ last \in Executions \cup {Absent}
  /\ aggregate \in Status
  /\ events \in Seq(Events)
  /\ runs \in 0..MaxRuns

-----------------------------------------------------------------------------
(* Safety. The local variables of run mean nothing once an exception has     *)
(* left it, so statements about them are limited to Live.                    *)

Live == pc \in Busy \cup {"returned"}

\* The aggregate status is the most severe status in the history: no later
\* success hides an earlier PARTIAL, and nothing is worse than what happened.
WorstStatus ==
  Live =>
    /\ \A i \in 1..Len(executions) :
         Severity[executions[i].status] <= Severity[aggregate]
    /\ \/ aggregate = "SUCCESS"
       \/ \E i \in 1..Len(executions) : executions[i].status = aggregate

\* The history is the prefix of the registered order that was attempted, and
\* a stopping entry, an unexecuted one or one with a policy violation can only
\* be its last.
StopsAtFirstFailure ==
  Live =>
    /\ Len(executions) <= Len(entries)
    /\ \A i \in 1..Len(executions) :
         /\ executions[i].name = entries[i].name
         /\ \/ executions[i].status \in Stopping
            \/ executions[i].executed /\ executions[i].violation = "none"
         /\ i < Len(executions) => executions[i].status \in Usable

\* run returns SUCCESS or PARTIAL exactly when every registered capability was
\* executed and gave a usable result.
UsableMeansComplete ==
  pc = "returned" =>
    (aggregate \in Usable <=>
       /\ Len(executions) = Len(entries)
       /\ \A i \in 1..Len(executions) :
            executions[i].executed /\ executions[i].status \in Usable)

\* How many entries of the history have reached their terminal event.
Settled == IF pc = "publish" THEN Len(executions) - 1 ELSE Len(executions)

\* The Context holds what the caller passed, overwritten by the complete
\* output of the usable entries in order, and by nothing else: a rejected,
\* failed or late capability leaves no trace, a multi-output one all of it.
ContextIsHistory ==
  Live =>
    \A s \in StateNames :
      LET writers == {i \in 1..Settled : executions[i].out[s] # Absent}
      IN IF writers = {} THEN ctx[s] = base[s]
         ELSE \E i \in writers : /\ \A j \in writers : j <= i
                                 /\ ctx[s] = executions[i].out[s]

\* Names that write Context.state without a contract.
LegacyNames ==
  {entries[i].name : i \in {j \in 1..Len(entries) : Declared(entries[j]) = {}}}

\* Whatever a run put under a canonical key passed the key's validator and
\* stays within the run's limit. (A capability without a contract that is
\* named like a canonical key bypasses both.)
CanonicalWithinPolicy ==
  Live =>
    \A k \in Keys \ LegacyNames :
      ctx[k] # base[k] =>
        /\ ctx[k].valid
        /\ (k \in BoundedKeys /\ policy.limits[k] # Absent)
             => ctx[k].size <= policy.limits[k]

Block(e) == <<"STARTED">> \o PolicyEvent[e.violation] \o <<e.status>>

\* the events the first n history entries account for
Transcript[n \in Nat] ==
  IF n = 0 THEN <<>>
  ELSE Transcript[n - 1] \o
         [j \in 1..Len(Block(executions[n])) |->
            [type |-> Block(executions[n])[j], name |-> executions[n].name]]

\* The sink sees, for each attempt in order, one start event, the policy event
\* if there is one, and one terminal event with the recorded status; while a
\* capability runs, its start event is the only one outstanding.
EventsTellHistory ==
  Live => events = Transcript[Settled] \o
                     (IF pc \in {"execute", "settle", "publish"}
                      THEN <<[type |-> "STARTED", name |-> Entry.name]>>
                      ELSE <<>>)

\* Once a reading has reached the deadline, no capability is started and
\* nothing is published.
NothingAfterDeadline ==
  [][\/ pc' = "execute" /\ pc = "begin"
     \/ pc = "publish" /\ ctx' # ctx
     => policy.expires = Absent \/ now' < policy.expires]_vars

-----------------------------------------------------------------------------
(* The contract the pipeline implements: an attempt takes effect when its     *)
(* output is published and its terminal event is emitted.                     *)

\* attempts that have taken effect; index is left behind when an exception
\* leaves the run in the middle of one
Completed == CASE pc = "idle"     -> 0
               [] pc = "returned" -> Len(executions)
               [] OTHER           -> index - 1

Contract == INSTANCE PipelineContract WITH
  Items   <- Values \cup {Absent},
  Missing <- Absent,
  open    <- pc \in Busy,
  log     <- [i \in 1..Completed |-> executions[i].status],
  store   <- ctx,
  verdict <- IF pc = "returned" THEN aggregate ELSE "NONE"

\* Every run, with its interrupts, clock faults and policy rejections, is a run
\* of atomic attempts.
ImplementsContract == Contract!CSpec

-----------------------------------------------------------------------------
(* Liveness *)

\* A run always comes to an end.
RunEnds == pc \in Busy ~> pc \in Quiet
=============================================================================
