-------------------------- MODULE PipelineContract --------------------------
(***************************************************************************)
(* What a pipeline run promises its caller (docs/execution-contract.md and  *)
(* docs/state-publication.md), with no trace of how it is done: attempts    *)
(* are atomic. An attempt is either usable, and then its record and its     *)
(* whole output appear together, or it is not, and then the state is as     *)
(* before and the run is over. A run that ends normally announces the worst *)
(* status of its record; an abandoned one announces nothing and leaves the  *)
(* state as the completed attempts made it.                                 *)
(***************************************************************************)
EXTENDS Naturals, Sequences

CONSTANTS
  StateNames, \* keys of the shared state
  Items,      \* what a key may hold, Missing included
  Missing     \* the key is absent

VARIABLES
  open,    \* is a run in progress?
  log,     \* statuses of the run's completed attempts, in order
  store,   \* the shared state
  verdict  \* status announced by the last run, "NONE" before that

cvars == <<open, log, store, verdict>>

Good == {"SUCCESS", "PARTIAL"}
Bad  == {"FAILURE", "ERROR"}
Rank == [SUCCESS |-> 0, PARTIAL |-> 1, FAILURE |-> 2, ERROR |-> 3]

\* v is the most severe status of a log, SUCCESS when it is empty.
IsWorst(v, l) ==
  /\ v \in Good \cup Bad
  /\ \A i \in 1..Len(l) : Rank[l[i]] <= Rank[v]
  /\ v = "SUCCESS" \/ \E i \in 1..Len(l) : l[i] = v

CInit ==
  /\ open = FALSE
  /\ log = <<>>
  /\ store = [s \in StateNames |-> Missing]
  /\ verdict = "NONE"

\* The run ends, or goes on to its next attempt.
Conclude == open' = FALSE /\ IsWorst(verdict', log')
Continue == open' = TRUE /\ verdict' = "NONE"

\* A caller starts a run on some state; an empty pipeline ends it at once.
Open ==
  /\ ~open
  /\ log' = <<>>
  /\ store' \in [StateNames -> Items]
  /\ Conclude \/ Continue

\* One attempt succeeds, at least partly: all of its output is stored.
Keep ==
  /\ open
  /\ \E status \in Good : log' = Append(log, status)
  /\ \E out \in [StateNames -> Items] :
       store' = [s \in StateNames |->
                   IF out[s] # Missing THEN out[s] ELSE store[s]]
  /\ Conclude \/ Continue

\* One attempt fails, whatever the reason: nothing is stored, the run is over.
Stop ==
  /\ open
  /\ \E status \in Bad : log' = Append(log, status)
  /\ UNCHANGED store
  /\ Conclude

\* An exception leaves the run.
Abandon ==
  /\ open
  /\ open' = FALSE
  /\ verdict' = "NONE"
  /\ UNCHANGED <<log, store>>

\* The caller discards the result and changes the pipeline.
Forget ==
  /\ ~open
  /\ log' = <<>>
  /\ verdict' = "NONE"
  /\ UNCHANGED <<open, store>>

CNext == Open \/ Keep \/ Stop \/ Abandon \/ Forget

CSpec == CInit /\ [][CNext]_cvars
=============================================================================
