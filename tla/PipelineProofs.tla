--------------------------- MODULE PipelineProofs ---------------------------
(* Proofs about Pipeline, for every value of its constants. *)
EXTENDS Pipeline, SequenceTheorems, WellFoundedInduction, TLAPS

-----------------------------------------------------------------------------
(* Facts about the operators of the model *)

\* combine_status gives one of its arguments, and one at least as severe as
\* both.
LEMMA CombineStatus ==
  ASSUME NEW a \in Status, NEW b \in Status
  PROVE  /\ combine_status(a, b) \in {a, b}
         /\ Severity[a] <= Severity[combine_status(a, b)]
         /\ Severity[b] <= Severity[combine_status(a, b)]
  BY DEF combine_status, Severity, Status, Usable, Stopping

LEMMA NothingType == Nothing \in Partial(StateNames)
  BY DEF Nothing, Partial

LEMMA UnansweredType ==
  ASSUME NEW kind \in {"raised", "malformed"}
  PROVE  Unanswered(kind) \in Answers
  BY DEF Answers

\* The parts of an answer the runtime looks at.
LEMMA AnswerType ==
  ASSUME NEW a \in Answers
  PROVE  /\ a.status \in Status
         /\ a.data \in Values \cup {Absent}
         /\ a.pubs \in Partial(Keys)
  BY DEF Answers, Unanswered, Partial, Status, Usable, Stopping

\* Normalising an answer yields an update of Context.state.
LEMMA OutputType ==
  ASSUME NEW a \in Answers, NEW e
  PROVE  Output(e, a) \in Partial(StateNames)
<1>1. a.data \in Values \cup {Absent} /\ a.pubs \in Partial(Keys)
  BY AnswerType
<1>2. Explicit(e, a) \in Partial(Keys)
  BY <1>1 DEF Explicit, Partial
<1> QED
  BY <1>1, <1>2 DEF Output, Partial, StateNames

LEMMA OverlayType ==
  ASSUME NEW s \in Partial(StateNames), NEW out \in Partial(StateNames)
  PROVE  Overlay(s, out) \in Partial(StateNames)
  BY DEF Overlay, Partial

\* Emitting appends well-formed events.
LEMMA EmitType ==
  ASSUME events \in Seq(Events), Entry \in Entries,
         NEW types \in Seq(EventTypes), Emit(types)
  PROVE  events' \in Seq(Events)
<1> DEFINE new == [i \in 1..Len(types) |->
                     [type |-> types[i], name |-> Entry.name]]
<1>1. new \in Seq(Events)
  <2>1. \A i \in 1..Len(types) : [type |-> types[i], name |-> Entry.name] \in Events
    BY DEF Events, Entries
  <2> QED
    BY <2>1, IsASeq, LenProperties
<1>2. events' = events \o new
  BY DEF Emit
<1> QED
  BY <1>1, <1>2, ConcatProperties

\* Recording an attempt appends one entry to the history.
LEMMA RecordType ==
  ASSUME TypeOK, Entry \in Entries,
         NEW status \in Status, NEW executed \in BOOLEAN,
         NEW violation \in Violations, NEW out \in Partial(StateNames),
         Record(status, executed, violation, out)
  PROVE  /\ executions' \in Seq(Executions)
         /\ last' \in Executions
         /\ aggregate' \in Status
<1> DEFINE e == [name |-> Entry.name, status |-> status, executed |-> executed,
                 violation |-> violation, out |-> out]
<1>1. e \in Executions
  BY DEF Executions, Entries
<1>2. executions' = Append(executions, e) /\ last' = e
  BY DEF Record
<1>3. aggregate' \in Status
  BY CombineStatus DEF Record, TypeOK
<1> QED
  BY <1>1, <1>2, <1>3, AppendProperties DEF TypeOK

-----------------------------------------------------------------------------
(* Type correctness. TypeOK alone is not inductive: that the loop position is  *)
(* a position of entries, and that an attempt has been recorded when its       *)
(* output is published, is needed to type the events and the publication.      *)

Shape ==
  /\ pc \in Busy => index \in 1..Len(entries)
  /\ pc = "publish" => last \in Executions

TypeInv == TypeOK /\ Shape

LEMMA EntryType ==
  ASSUME TypeInv, pc \in Busy
  PROVE  Entry \in Entries
  BY ElementOfSeq DEF TypeInv, TypeOK, Shape, Entry

LEMMA PolicyEventType ==
  ASSUME NEW v \in Violations, NEW status \in Status
  PROVE  PolicyEvent[v] \o <<status>> \in Seq(EventTypes)
<1>1. PolicyEvent[v] \in Seq(EventTypes)
  <2>1. /\ <<>> \in Seq(EventTypes)
        /\ <<"DEADLINE">> \in Seq(EventTypes)
        /\ <<"LIMIT">> \in Seq(EventTypes)
    BY DEF EventTypes
  <2>2. PolicyEvent[v] \in {<<>>, <<"DEADLINE">>, <<"LIMIT">>}
    BY DEF PolicyEvent, Violations
  <2> QED
    BY <2>1, <2>2
<1>2. <<status>> \in Seq(EventTypes)
  BY DEF EventTypes
<1> QED
  BY <1>1, <1>2, ConcatProperties

LEMMA TypeInit == Init => TypeInv
<1> SUFFICES ASSUME Init PROVE TypeInv
  OBVIOUS
<1> USE ShapeAssumption
<1>1. NoPolicy \in [limits  : [BoundedKeys -> Nat \cup {Absent}],
                    expires : Nat \cup {Absent}]
  BY DEF NoPolicy
<1>2. answer \in Answers
  BY UnansweredType DEF Init
<1>3. entries \in Seq(Entries) /\ executions \in Seq(Executions) /\ events \in Seq(Events)
  BY DEF Init
<1> QED
  BY <1>1, <1>2, <1>3, NothingType
  DEF Init, TypeInv, TypeOK, Shape, Quiet, Busy, Status, Usable

LEMMA ClockType ==
  ASSUME TypeOK, InTime \/ Late \/ ClockInvalid
  PROVE  now' \in 0..MaxTime
  BY ShapeAssumption DEF TypeOK, InTime, Late, ClockInvalid

\* Every way an attempt is judged keeps the types.
LEMMA SettleType ==
  ASSUME TypeInv, now' \in 0..MaxTime,
         NEW status \in Status, NEW violation \in Violations,
         NEW out \in Partial(StateNames),
         Settle(status, violation, out)
  PROVE  TypeInv'
<1>1. Entry \in Entries
  BY EntryType DEF Settle, Busy
<1>2. /\ executions' \in Seq(Executions)
      /\ last' \in Executions
      /\ aggregate' \in Status
  BY <1>1, RecordType DEF Settle, TypeInv
<1> QED
  BY <1>2 DEF TypeInv, TypeOK, Shape, Settle, pipelineVars, runVars, Quiet, Busy

LEMMA TypeStep == TypeInv /\ [Next]_vars => TypeInv'
<1> SUFFICES ASSUME TypeInv, [Next]_vars PROVE TypeInv'
  OBVIOUS
<1> USE ShapeAssumption
<1>1. CASE UNCHANGED vars
  BY <1>1 DEF vars, TypeInv, TypeOK, Shape
<1>2. CASE Build
  <2>1. PICK n \in Names, typed \in BOOLEAN, provides \in Declarations \cup {{}} :
          Add(n, typed, provides)
    BY <1>2 DEF Build
  <2>2. contracts' \in [Names -> SUBSET Keys]
    BY <2>1 DEF Add, TypeInv, TypeOK
  <2>3. entries' \in Seq(Entries)
    <3> DEFINE e == [name |-> n, typed |-> typed]
    <3>1. e \in Entries /\ entries \in Seq(Entries)
      BY DEF TypeInv, TypeOK, Entries
    <3>2. entries' = entries \/ entries' = Append(entries, e)
      BY <2>1 DEF Add
    <3> HIDE DEF e
    <3> QED
      BY <3>1, <3>2, AppendProperties
  <2> QED
    BY <2>1, <2>2, <2>3
    DEF Add, TypeInv, TypeOK, Shape, Quiet, Busy, runVars, resultVars
<1>3. CASE Start
  <2>1. PICK seed \in Seeds \cup {ctx, Nothing}, pol \in Policies \cup {NoPolicy} :
          Run(seed, pol)
    BY <1>3 DEF Start
  <2>2. seed \in Partial(StateNames)
    BY NothingType DEF TypeInv, TypeOK
  <2>3. pol \in [limits  : [BoundedKeys -> Nat \cup {Absent}],
                 expires : Nat \cup {Absent}]
    BY DEF NoPolicy
  <2>4. executions' \in Seq(Executions) /\ events' \in Seq(Events)
    BY <2>1 DEF Run
  <2>5. pc' \in Busy => index' \in 1..Len(entries')
    BY <2>1 DEF Run, Busy, pipelineVars, TypeInv, TypeOK
  <2> QED
    BY <2>1, <2>2, <2>3, <2>4, <2>5
    DEF Run, TypeInv, TypeOK, Shape, Quiet, Busy, pipelineVars, Status, Usable
<1>4. CASE Begin
  <2>1. Entry \in Entries /\ pc = "begin"
    BY <1>4, EntryType DEF Begin, BeginInTime, BeginLate, BeginClockInvalid, Busy
  <2>2. now' \in 0..MaxTime
    BY <1>4, ClockType DEF Begin, BeginInTime, BeginLate, BeginClockInvalid, TypeInv
  <2>3. <<"STARTED">> \in Seq(EventTypes)
        /\ <<"STARTED", "DEADLINE", "FAILURE">> \in Seq(EventTypes)
    BY DEF EventTypes, Status, Stopping
  <2>4. events' \in Seq(Events)
    BY <1>4, <2>1, <2>3, EmitType
    DEF Begin, BeginInTime, BeginLate, BeginClockInvalid, TypeInv, TypeOK
  <2>5. CASE BeginLate
    <3>1. /\ executions' \in Seq(Executions)
          /\ last' \in Executions
          /\ aggregate' \in Status
      BY <2>1, <2>5, RecordType, NothingType
      DEF BeginLate, TypeInv, Status, Stopping, Violations
    <3> QED
      BY <2>2, <2>4, <2>5, <3>1
      DEF BeginLate, TypeInv, TypeOK, Shape, pipelineVars, runVars, Quiet, Busy
  <2>6. CASE BeginInTime \/ BeginClockInvalid
    BY <2>1, <2>2, <2>4, <2>6
    DEF BeginInTime, BeginClockInvalid, TypeInv, TypeOK, Shape, pipelineVars,
        runVars, resultVars, Quiet, Busy
  <2> QED
    BY <1>4, <2>5, <2>6 DEF Begin
<1>5. CASE Call
  BY <1>5
  DEF Call, Execute, TypeInv, TypeOK, Shape, pipelineVars, runVars, resultVars,
      Quiet, Busy
<1>6. CASE Judge
  <2>1. now' \in 0..MaxTime
    BY <1>6, ClockType
    DEF Judge, SettleStopping, SettleMistyped, SettleLate, SettleOversized,
        SettleUsable, TypeInv, TypeOK
  <2>2. /\ answer.status \in Status
        /\ Output(Entry, answer) \in Partial(StateNames)
        /\ Nothing \in Partial(StateNames)
    BY AnswerType, OutputType, NothingType DEF TypeInv, TypeOK
  <2>3. PICK status \in Status, violation \in Violations, out \in Partial(StateNames) :
          Settle(status, violation, out)
    BY <1>6, <2>2
    DEF Judge, SettleStopping, SettleMistyped, SettleLate, SettleOversized,
        SettleUsable, Status, Stopping, Usable, Violations
  <2> QED
    BY <2>1, <2>3, SettleType
<1>7. CASE Publish
  <2>1. Entry \in Entries /\ last \in Executions
    BY <1>7, EntryType DEF Publish, Busy, TypeInv, Shape
  <2>2. ctx' \in Partial(StateNames)
    BY <1>7, <2>1, OverlayType DEF Publish, TypeInv, TypeOK, Executions
  <2>3. PolicyEvent[last.violation] \o <<last.status>> \in Seq(EventTypes)
    BY <2>1, PolicyEventType DEF Executions
  <2>4. events' \in Seq(Events)
    BY <1>7, <2>1, <2>3, EmitType DEF Publish, TypeInv, TypeOK
  <2> QED
    BY <1>7, <2>2, <2>4
    DEF Publish, TypeInv, TypeOK, Shape, pipelineVars, resultVars, Quiet, Busy
<1>8. CASE Interrupt
  BY <1>8
  DEF Interrupt, TypeInv, TypeOK, Shape, pipelineVars, runVars, resultVars,
      Quiet, Busy
<1> QED
  BY <1>1, <1>2, <1>3, <1>4, <1>5, <1>6, <1>7, <1>8 DEF Next, Advance

\* Every reachable state of a pipeline is well typed, for any capabilities,
\* contracts, values, policies and bounds.
THEOREM TypeCorrect == Spec => []TypeOK
<1>1. TypeInv => TypeOK
  BY DEF TypeInv
<1> QED
  BY <1>1, TypeInit, TypeStep, PTL DEF Spec

-----------------------------------------------------------------------------
(* The history. WorstStatus, StopsAtFirstFailure and UsableMeansComplete are   *)
(* inductive together with the loop invariant of run: how far the history has  *)
(* got at each point of the loop body, and that everything before the current  *)
(* attempt was usable.                                                         *)

Progress ==
  /\ pc \in {"begin", "execute", "settle"} =>
       /\ Len(executions) = index - 1
       /\ \A i \in 1..Len(executions) : executions[i].status \in Usable
  /\ pc = "publish" =>
       /\ Len(executions) = index
       /\ last = executions[index]
  /\ pc = "returned" =>
       \/ Len(executions) = Len(entries)
       \/ /\ Len(executions) > 0
          /\ executions[Len(executions)].status \in Stopping

HistoryInv == Progress /\ WorstStatus /\ StopsAtFirstFailure

\* A new attempt, whatever its outcome, extends a good history.
LEMMA RecordHistory ==
  ASSUME TypeInv, HistoryInv, pc \in {"begin", "settle"},
         NEW status \in Status, NEW executed \in BOOLEAN,
         NEW violation \in Violations, NEW out \in Partial(StateNames),
         status \in Stopping \/ (executed /\ violation = "none"),
         Record(status, executed, violation, out),
         pc' \in {"publish", "returned"}, UNCHANGED <<entries, index>>,
         pc' = "returned" => status \in Stopping
  PROVE  HistoryInv'
<1> DEFINE e == [name |-> Entry.name, status |-> status, executed |-> executed,
                 violation |-> violation, out |-> out]
<1>1. Entry \in Entries /\ pc \in Busy
  BY EntryType DEF Busy
<1>2. /\ executions' = Append(executions, e)
      /\ last' = e
      /\ aggregate' = combine_status(aggregate, status)
  BY DEF Record
<1>3. /\ executions \in Seq(Executions)
      /\ e \in Executions
      /\ Len(executions) = index - 1
      /\ index \in 1..Len(entries)
      /\ entries \in Seq(Entries)
  BY <1>1 DEF TypeInv, TypeOK, Shape, Executions, Entries, HistoryInv, Progress
<1>4. /\ Len(executions') = index
      /\ executions'[index] = e
      /\ \A i \in 1..index - 1 : executions'[i] = executions[i]
  BY <1>2, <1>3, AppendProperties
<1> HIDE DEF e
<1>5. e.status = status /\ e.name = entries[index].name
      /\ e.executed = executed /\ e.violation = violation
  BY DEF e, Entry
<1>6. \A i \in 1..index - 1 : executions[i].status \in Usable
  BY <1>3 DEF HistoryInv, Progress
<1>7. Progress'
  BY <1>2, <1>3, <1>4, <1>5 DEF Progress
<1>8. WorstStatus'
  <2>1. /\ \A i \in 1..index - 1 : Severity[executions[i].status] <= Severity[aggregate]
        /\ aggregate = "SUCCESS" \/ \E i \in 1..index - 1 : executions[i].status = aggregate
    BY <1>1, <1>3 DEF HistoryInv, WorstStatus, Live
  <2>2. /\ aggregate' \in {aggregate, status}
        /\ Severity[aggregate] <= Severity[aggregate']
        /\ Severity[status] <= Severity[aggregate']
    BY <1>2, CombineStatus DEF TypeInv, TypeOK
  <2>3. \A s \in Status : Severity[s] \in Nat
    BY DEF Severity, Status, Usable, Stopping
  <2>4. \A i \in 1..index - 1 : executions[i].status \in Status
    BY <1>6 DEF Status
  <2>5. \A i \in 1..index - 1 : Severity[executions'[i].status] <= Severity[aggregate']
    BY <1>2, <1>4, <2>1, <2>2, <2>3, <2>4 DEF TypeInv, TypeOK
  <2>6. \A i \in 1..Len(executions') : Severity[executions'[i].status] <= Severity[aggregate']
    BY <1>3, <1>4, <1>5, <2>2, <2>5
  <2>7. aggregate' = "SUCCESS" \/ \E i \in 1..Len(executions') : executions'[i].status = aggregate'
    BY <1>3, <1>4, <1>5, <2>1, <2>2
  <2> QED
    BY <2>6, <2>7 DEF WorstStatus
<1>9. StopsAtFirstFailure'
  <2>1. \A i \in 1..index - 1 :
          /\ executions[i].name = entries[i].name
          /\ \/ executions[i].status \in Stopping
             \/ executions[i].executed /\ executions[i].violation = "none"
    BY <1>1, <1>3 DEF HistoryInv, StopsAtFirstFailure, Live
  <2> QED
    BY <1>3, <1>4, <1>5, <1>6, <2>1 DEF StopsAtFirstFailure
<1> QED
  BY <1>7, <1>8, <1>9 DEF HistoryInv

LEMMA HistoryInit == Init => HistoryInv
  BY DEF Init, HistoryInv, Progress, WorstStatus, StopsAtFirstFailure, Live, Busy

LEMMA HistoryStep == TypeInv /\ HistoryInv /\ [Next]_vars => HistoryInv'
<1> SUFFICES ASSUME TypeInv, HistoryInv, [Next]_vars PROVE HistoryInv'
  OBVIOUS
<1>1. CASE UNCHANGED vars
  BY <1>1 DEF vars, HistoryInv, Progress, WorstStatus, StopsAtFirstFailure, Live
<1>2. CASE Build
  BY <1>2
  DEF Build, Add, HistoryInv, Progress, WorstStatus, StopsAtFirstFailure, Live,
      Busy, runVars, resultVars
<1>3. CASE Start
  <2>1. PICK seed, pol : Run(seed, pol)
    BY <1>3 DEF Start
  <2>2. executions' = <<>> /\ aggregate' = "SUCCESS" /\ index' = 1
        /\ entries' = entries
        /\ pc' = IF entries = <<>> THEN "returned" ELSE "begin"
    BY <2>1 DEF Run, pipelineVars
  <2>3. Len(executions') = 0
    BY <2>2
  <2>4. Len(entries) \in Nat /\ (entries = <<>> => Len(entries) = 0)
    BY DEF TypeInv, TypeOK
  <2>5. Progress'
    BY <2>2, <2>3, <2>4 DEF Progress
  <2>6. WorstStatus' /\ StopsAtFirstFailure'
    BY <2>2, <2>3, <2>4 DEF WorstStatus, StopsAtFirstFailure
  <2> QED
    BY <2>5, <2>6 DEF HistoryInv
<1>4. CASE BeginInTime \/ BeginClockInvalid
  BY <1>4
  DEF BeginInTime, BeginClockInvalid, HistoryInv, Progress, WorstStatus,
      StopsAtFirstFailure, Live, Busy, pipelineVars, runVars, resultVars
<1>5. CASE BeginLate
  <2>1. /\ pc = "begin" /\ pc' = "returned"
        /\ Record("FAILURE", FALSE, "before", Nothing)
        /\ UNCHANGED <<entries, index>>
    BY <1>5 DEF BeginLate, pipelineVars, runVars
  <2> QED
    BY <2>1, RecordHistory, NothingType DEF Status, Stopping, Violations
<1>6. CASE Call
  BY <1>6
  DEF Call, Execute, HistoryInv, Progress, WorstStatus, StopsAtFirstFailure,
      Live, Busy, pipelineVars, runVars, resultVars
<1>7. CASE Judge
  <2>1. /\ answer.status \in Status
        /\ Output(Entry, answer) \in Partial(StateNames)
        /\ Nothing \in Partial(StateNames)
    BY AnswerType, OutputType, NothingType DEF TypeInv, TypeOK
  <2>2. PICK status \in Status, violation \in Violations, out \in Partial(StateNames) :
          /\ Settle(status, violation, out)
          /\ status \in Stopping \/ violation = "none"
    BY <1>7, <2>1
    DEF Judge, SettleStopping, SettleMistyped, SettleLate, SettleOversized,
        SettleUsable, Status, Stopping, Usable, Violations
  <2>3. /\ pc = "settle" /\ pc' = "publish"
        /\ Record(status, TRUE, violation, out)
        /\ UNCHANGED <<entries, index>>
    BY <2>2 DEF Settle, pipelineVars, runVars
  <2> QED
    BY <2>2, <2>3, RecordHistory
<1>8. CASE Publish
  <2>1. /\ Len(executions) = index
        /\ last = executions[index]
        /\ index \in 1..Len(entries)
        /\ executions \in Seq(Executions)
        /\ Len(entries) \in Nat
    BY <1>8 DEF Publish, HistoryInv, Progress, TypeInv, TypeOK, Shape, Busy
  <2>2. last.status \in Usable \/ last.status \in Stopping
    BY <1>8 DEF Publish, TypeInv, Shape, Executions, Status
  <2>3. \A i \in 1..index : i < index => executions[i].status \in Usable
    BY <1>8, <2>1 DEF Publish, HistoryInv, StopsAtFirstFailure, Live, Busy
  <2>4. UNCHANGED <<entries, executions, last, aggregate>>
    BY <1>8 DEF Publish, pipelineVars, resultVars
  <2>5. Progress'
    BY <1>8, <2>1, <2>2, <2>3, <2>4 DEF Publish, Progress
  <2>6. WorstStatus' /\ StopsAtFirstFailure'
    BY <1>8, <2>4
    DEF Publish, HistoryInv, WorstStatus, StopsAtFirstFailure, Live, Busy
  <2> QED
    BY <2>5, <2>6 DEF HistoryInv
<1>9. CASE Interrupt
  BY <1>9
  DEF Interrupt, HistoryInv, Progress, WorstStatus, StopsAtFirstFailure, Live,
      Busy
<1> QED
  BY <1>1, <1>2, <1>3, <1>4, <1>5, <1>6, <1>7, <1>8, <1>9
  DEF Next, Advance, Begin

LEMMA HistoryHolds == Spec => [](TypeInv /\ HistoryInv)
  BY TypeInit, TypeStep, HistoryInit, HistoryStep, PTL DEF Spec

\* The aggregate status a run carries is always the most severe status of the
\* capabilities attempted so far.
THEOREM WorstStatusHolds == Spec => []WorstStatus
<1>1. HistoryInv => WorstStatus
  BY DEF HistoryInv
<1> QED
  BY <1>1, HistoryHolds, PTL

\* The history follows the registered order and stops at the first attempt
\* that is not usable.
THEOREM StopsAtFirstFailureHolds == Spec => []StopsAtFirstFailure
<1>1. HistoryInv => StopsAtFirstFailure
  BY DEF HistoryInv
<1> QED
  BY <1>1, HistoryHolds, PTL

\* A run that returns SUCCESS or PARTIAL executed every registered capability,
\* and one that did not do so never returns one of them.
THEOREM UsableMeansCompleteHolds == Spec => []UsableMeansComplete
<1>1. TypeInv /\ HistoryInv => UsableMeansComplete
  <2> SUFFICES ASSUME TypeInv, HistoryInv, pc = "returned"
               PROVE  aggregate \in Usable <=>
                        /\ Len(executions) = Len(entries)
                        /\ \A i \in 1..Len(executions) :
                             executions[i].executed /\ executions[i].status \in Usable
    BY DEF UsableMeansComplete
  <2>1. \A i \in 1..Len(executions) : executions[i] \in Executions
    BY ElementOfSeq DEF TypeInv, TypeOK
  <2>2. \A s, t \in Status : Severity[s] <= Severity[t] /\ t \in Usable => s \in Usable
    BY DEF Severity, Status, Usable, Stopping
  <2>3. \A s \in Stopping : s \notin Usable
    BY DEF Stopping, Usable
  <2>4. /\ \A i \in 1..Len(executions) :
             Severity[executions[i].status] <= Severity[aggregate]
        /\ aggregate = "SUCCESS"
             \/ \E i \in 1..Len(executions) : executions[i].status = aggregate
    BY DEF HistoryInv, WorstStatus, Live
  <2>5. \A i \in 1..Len(executions) :
          executions[i].status \in Stopping \/ executions[i].executed
    BY DEF HistoryInv, StopsAtFirstFailure, Live
  <2>6. ASSUME aggregate \in Usable
        PROVE  \A i \in 1..Len(executions) : executions[i].status \in Usable
    BY <2>1, <2>2, <2>4, <2>6 DEF TypeInv, TypeOK, Executions
  <2>7. ASSUME aggregate \in Usable PROVE Len(executions) = Len(entries)
    <3>1. Len(executions) \in Nat
      BY DEF TypeInv, TypeOK
    <3> QED
      BY <2>3, <2>6, <2>7, <3>1 DEF HistoryInv, Progress
  <2>8. "SUCCESS" \in Usable
    BY DEF Usable
  <2> QED
    BY <2>3, <2>4, <2>5, <2>6, <2>7, <2>8
<1> QED
  BY <1>1, HistoryHolds, PTL

-----------------------------------------------------------------------------
(* The Context. That the Context is the history applied to the initial state   *)
(* needs that attempts which stop carry no output; that canonical keys hold    *)
(* only vetted values follows from it once every output in the history is      *)
(* known to be vetted.                                                         *)

\* Context.state as the first n entries of a history leave it.
Applied(n, h, state, start) ==
  \A s \in StateNames :
    LET writers == {i \in 1..n : h[i].out[s] # Absent}
    IN IF writers = {} THEN state[s] = start[s]
       ELSE \E i \in writers : /\ \A j \in writers : j <= i
                               /\ state[s] = h[i].out[s]

Vetted(v, k) ==
  /\ v.valid
  /\ (k \in BoundedKeys /\ policy.limits[k] # Absent) => v.size <= policy.limits[k]

StoppingIsSilent ==
  Live => \A i \in 1..Len(executions) :
            executions[i].status \in Stopping => executions[i].out = Nothing

OutputsVetted ==
  Live => \A i \in 1..Len(executions) : \A k \in Keys \ LegacyNames :
            executions[i].out[k] # Absent => Vetted(executions[i].out[k], k)

ContextInv == ContextIsHistory /\ StoppingIsSilent /\ OutputsVetted

\* What a usable answer publishes under a canonical key that is not the name of
\* a capability without a contract has been validated and measured.
LEMMA OutputVetted ==
  ASSUME TypeInv, pc \in Busy, Typed(Entry, answer),
         Oversized(Entry, answer) = {},
         NEW k \in Keys \ LegacyNames, Output(Entry, answer)[k] # Absent
  PROVE  Vetted(Output(Entry, answer)[k], k)
<1>1. k \in StateNames
  BY DEF StateNames
<1>2. Explicit(Entry, answer)[k] # Absent
  <2>1. ASSUME k = Entry.name, Declared(Entry) = {} PROVE FALSE
    <3>1. index \in 1..Len(entries)
      BY DEF TypeInv, Shape
    <3> QED
      BY <2>1, <3>1 DEF LegacyNames, Entry
  <2> QED
    BY <1>1, <2>1 DEF Output
<1>3. Output(Entry, answer)[k] = Explicit(Entry, answer)[k]
  BY <1>1, <1>2 DEF Output
<1>4. Explicit(Entry, answer)[k].valid
  BY <1>2 DEF Typed
<1>5. ASSUME k \in BoundedKeys, policy.limits[k] # Absent
      PROVE  Explicit(Entry, answer)[k].size <= policy.limits[k]
  <2>1. Explicit(Entry, answer)[k] \in Values
    BY <1>2, AnswerType DEF Explicit, Partial, TypeInv, TypeOK
  <2>2. Explicit(Entry, answer)[k].size \in Nat /\ policy.limits[k] \in Nat
    BY <1>5, <2>1, ValuesAssumption DEF TypeInv, TypeOK
  <2>3. ~(Explicit(Entry, answer)[k].size > policy.limits[k])
    BY <1>2, <1>5 DEF Oversized
  <2> QED
    BY <2>2, <2>3
<1> QED
  BY <1>3, <1>4, <1>5 DEF Vetted

\* Appending an entry does not change what the earlier ones did.
LEMMA AppliedAppend ==
  ASSUME NEW h \in Seq(Executions), NEW e \in Executions, NEW state, NEW start,
         Applied(Len(h), h, state, start)
  PROVE  Applied(Len(h), Append(h, e), state, start)
<1>1. \A i \in 1..Len(h) : Append(h, e)[i] = h[i]
  BY AppendProperties
<1> SUFFICES ASSUME NEW s \in StateNames
             PROVE  LET writers == {i \in 1..Len(h) : Append(h, e)[i].out[s] # Absent}
                    IN IF writers = {} THEN state[s] = start[s]
                       ELSE \E i \in writers : /\ \A j \in writers : j <= i
                                               /\ state[s] = Append(h, e)[i].out[s]
  BY DEF Applied
<1>2. {i \in 1..Len(h) : Append(h, e)[i].out[s] # Absent}
        = {i \in 1..Len(h) : h[i].out[s] # Absent}
  BY <1>1
<1> QED
  BY <1>1, <1>2 DEF Applied

\* The next entry of a history takes effect by overwriting what it outputs.
LEMMA AppliedNext ==
  ASSUME NEW h \in Seq(Executions), NEW n \in Nat, n + 1 \in 1..Len(h),
         NEW state \in Partial(StateNames), NEW start,
         Applied(n, h, state, start)
  PROVE  Applied(n + 1, h, Overlay(state, h[n + 1].out), start)
<1> DEFINE W(m, s) == {i \in 1..m : h[i].out[s] # Absent}
           new == Overlay(state, h[n + 1].out)
<1> SUFFICES ASSUME NEW s \in StateNames
             PROVE  IF W(n + 1, s) = {} THEN new[s] = start[s]
                    ELSE \E i \in W(n + 1, s) : /\ \A j \in W(n + 1, s) : j <= i
                                                /\ new[s] = h[i].out[s]
  BY DEF Applied
<1>1. new[s] = IF h[n + 1].out[s] # Absent THEN h[n + 1].out[s] ELSE state[s]
  BY DEF Overlay
<1>2. IF W(n, s) = {} THEN state[s] = start[s]
      ELSE \E i \in W(n, s) : /\ \A j \in W(n, s) : j <= i
                              /\ state[s] = h[i].out[s]
  BY DEF Applied
<1>3. CASE h[n + 1].out[s] # Absent
  <2>1. n + 1 \in W(n + 1, s) /\ \A j \in W(n + 1, s) : j <= n + 1
    BY <1>3
  <2> QED
    BY <1>1, <1>3, <2>1
<1>4. CASE h[n + 1].out[s] = Absent
  <2>1. W(n + 1, s) = W(n, s)
    BY <1>4
  <2> QED
    BY <1>1, <1>2, <1>4, <2>1
<1> QED
  BY <1>3, <1>4

LEMMA OverlayNothing ==
  ASSUME NEW state \in Partial(StateNames)
  PROVE  Overlay(state, Nothing) = state
  BY DEF Overlay, Nothing, Partial

LEMMA ContextAsApplied ==
  ContextIsHistory <=> (Live => Applied(Settled, executions, ctx, base))
  BY DEF ContextIsHistory, Applied

\* Recording an attempt without publishing it keeps the Context invariant.
LEMMA RecordContext ==
  ASSUME TypeInv, HistoryInv, ContextInv, pc \in {"begin", "settle"},
         NEW status \in Status, NEW executed \in BOOLEAN,
         NEW violation \in Violations, NEW out \in Partial(StateNames),
         Record(status, executed, violation, out),
         status \in Stopping => out = Nothing,
         \A k \in Keys \ LegacyNames : out[k] # Absent => Vetted(out[k], k),
         pc' \in {"publish", "returned"},
         pc' = "returned" => out = Nothing,
         UNCHANGED <<entries, contracts, policy, base, ctx>>
  PROVE  ContextInv'
<1> DEFINE e == [name |-> Entry.name, status |-> status, executed |-> executed,
                 violation |-> violation, out |-> out]
           n == Len(executions)
<1>1. Live /\ Entry \in Entries /\ Settled = n
  BY EntryType DEF Live, Busy, Settled
<1>2. /\ executions' = Append(executions, e)
      /\ executions \in Seq(Executions)
      /\ e \in Executions
      /\ ctx \in Partial(StateNames)
  BY <1>1 DEF Record, TypeInv, TypeOK, Executions, Entries
<1>3. /\ executions' \in Seq(Executions)
      /\ n \in Nat
      /\ Len(executions') = n + 1
      /\ executions'[n + 1] = e
      /\ \A i \in 1..n : executions'[i] = executions[i]
  BY <1>2, AppendProperties
<1>4. e.out = out /\ e.status = status
  OBVIOUS
<1>5. Applied(n, executions, ctx, base)
  BY <1>1, ContextAsApplied DEF ContextInv
<1>6. Applied(n, executions', ctx, base)
  BY <1>2, <1>5, AppliedAppend
<1> HIDE DEF e
<1>7. Applied(Settled', executions', ctx, base)
  <2>1. CASE pc' = "publish"
    BY <1>3, <1>6, <2>1 DEF Settled
  <2>2. CASE pc' = "returned"
    <3>1. Settled' = n + 1 /\ n + 1 \in 1..Len(executions')
      BY <1>3, <2>2 DEF Settled
    <3>2. Applied(n + 1, executions', Overlay(ctx, executions'[n + 1].out), base)
      BY <1>2, <1>3, <1>6, <3>1, AppliedNext
    <3>3. Overlay(ctx, executions'[n + 1].out) = ctx
      BY <1>2, <1>3, <1>4, <2>2, OverlayNothing
    <3> QED
      BY <3>1, <3>2, <3>3
  <2> QED
    BY <2>1, <2>2
<1>8. ContextIsHistory'
  BY <1>7 DEF ContextIsHistory, Applied
<1>9. StoppingIsSilent'
  <2>1. \A i \in 1..n : executions[i].status \in Stopping => executions[i].out = Nothing
    BY <1>1 DEF ContextInv, StoppingIsSilent
  <2> QED
    BY <1>3, <1>4, <2>1 DEF StoppingIsSilent
<1>10. OutputsVetted'
  <2>1. LegacyNames' = LegacyNames
    BY DEF LegacyNames, Declared
  <2>2. \A i \in 1..n : \A k \in Keys \ LegacyNames :
          executions[i].out[k] # Absent => Vetted(executions[i].out[k], k)
    BY <1>1 DEF ContextInv, OutputsVetted
  <2>3. \A v, k : Vetted(v, k) => Vetted(v, k)'
    BY DEF Vetted
  <2>4. \A i \in 1..(n + 1) : \A k \in Keys \ LegacyNames :
          executions'[i].out[k] # Absent => Vetted(executions'[i].out[k], k)
    BY <1>3, <1>4, <2>2
  <2> QED
    BY <1>3, <2>1, <2>4 DEF OutputsVetted, Vetted
<1> QED
  BY <1>8, <1>9, <1>10 DEF ContextInv

LEMMA ContextInit == Init => ContextInv
  BY DEF Init, ContextInv, ContextIsHistory, StoppingIsSilent, OutputsVetted, Live, Busy

LEMMA ContextStep ==
  TypeInv /\ HistoryInv /\ ContextInv /\ [Next]_vars => ContextInv'
<1> SUFFICES ASSUME TypeInv, HistoryInv, ContextInv, [Next]_vars
             PROVE  ContextInv'
  OBVIOUS
<1> USE DEF ContextInv
<1>1. CASE /\ UNCHANGED <<entries, contracts, policy, base, ctx, executions>>
           /\ \/ pc' = pc
              \/ pc \in Busy \ {"publish"} /\ pc' \in Busy \ {"publish"}
  <2>1. Live' = Live /\ Settled' = Settled /\ LegacyNames' = LegacyNames
    BY <1>1 DEF Live, Settled, LegacyNames, Declared
  <2>2. ContextIsHistory'
    BY <1>1, <2>1 DEF ContextIsHistory
  <2>3. StoppingIsSilent' /\ OutputsVetted'
    BY <1>1, <2>1 DEF StoppingIsSilent, OutputsVetted, Vetted
  <2> QED
    BY <2>2, <2>3
<1>2. CASE pc' \in Quiet \ {"returned"}
  BY <1>2
  DEF ContextIsHistory, StoppingIsSilent, OutputsVetted, Live, Quiet, Busy
<1>3. CASE Start
  <2>1. executions' = <<>> /\ ctx' = base' /\ pc' # "publish"
    BY <1>3 DEF Start, Run
  <2>2. Len(executions') = 0 /\ Settled' = 0
    BY <2>1 DEF Settled
  <2> QED
    BY <2>1, <2>2
    DEF ContextIsHistory, StoppingIsSilent, OutputsVetted
<1>4. CASE BeginLate
  <2>1. /\ pc = "begin" /\ pc' = "returned"
        /\ Record("FAILURE", FALSE, "before", Nothing)
        /\ UNCHANGED <<entries, contracts, policy, base, ctx>>
    BY <1>4 DEF BeginLate, pipelineVars, runVars
  <2>2. \A k \in Keys : Nothing[k] = Absent
    BY DEF Nothing, StateNames
  <2> QED
    BY <2>1, <2>2, RecordContext, NothingType DEF Status, Stopping, Violations
<1>5. CASE Judge
  <2>1. /\ answer.status \in Status
        /\ Output(Entry, answer) \in Partial(StateNames)
        /\ Nothing \in Partial(StateNames)
    BY AnswerType, OutputType, NothingType DEF TypeInv, TypeOK
  <2>2. \A k \in Keys : Nothing[k] = Absent
    BY DEF Nothing, StateNames
  <2>3. pc = "settle"
    BY <1>5
    DEF Judge, SettleStopping, SettleMistyped, SettleLate, SettleOversized,
        SettleUsable, Settle
  <2>4. PICK status \in Status, violation \in Violations, out \in Partial(StateNames) :
          /\ Settle(status, violation, out)
          /\ status \in Stopping => out = Nothing
          /\ \/ out = Nothing
             \/ /\ out = Output(Entry, answer)
                /\ Typed(Entry, answer)
                /\ Oversized(Entry, answer) = {}
    BY <1>5, <2>1
    DEF Judge, SettleStopping, SettleMistyped, SettleLate, SettleOversized,
        SettleUsable, Plausible, Status, Stopping, Usable, Violations
  <2>5. \A k \in Keys \ LegacyNames : out[k] # Absent => Vetted(out[k], k)
    BY <2>2, <2>3, <2>4, OutputVetted DEF Busy
  <2>6. /\ pc' = "publish"
        /\ Record(status, TRUE, violation, out)
        /\ UNCHANGED <<entries, contracts, policy, base, ctx>>
    BY <2>4 DEF Settle, pipelineVars, runVars
  <2> QED
    BY <2>3, <2>4, <2>5, <2>6, RecordContext
<1>6. CASE Publish
  <2> DEFINE n == index - 1
  <2>1. /\ Len(executions) = n + 1
        /\ last = executions[n + 1]
        /\ n \in Nat
        /\ n + 1 \in 1..Len(executions)
        /\ executions \in Seq(Executions)
        /\ last \in Executions
        /\ ctx \in Partial(StateNames)
    BY <1>6 DEF Publish, HistoryInv, Progress, TypeInv, TypeOK, Shape, Busy
  <2>2. Live /\ Settled = n /\ pc' \in {"begin", "returned"}
    BY <1>6, <2>1 DEF Publish, Live, Busy, Settled
  <2>3. UNCHANGED <<entries, contracts, policy, base, executions>>
    BY <1>6 DEF Publish, pipelineVars, resultVars
  <2>4. ctx' = Overlay(ctx, executions[n + 1].out)
    <3>1. CASE last.status \in Usable
      BY <1>6, <2>1, <3>1 DEF Publish
    <3>2. CASE last.status \notin Usable
      <4>1. last.status \in Stopping
        BY <2>1, <3>2 DEF Executions, Status
      <4>2. executions[n + 1].out = Nothing
        BY <2>1, <2>2, <4>1 DEF StoppingIsSilent
      <4> QED
        BY <1>6, <2>1, <3>2, <4>2, OverlayNothing DEF Publish
    <3> QED
      BY <3>1, <3>2
  <2>5. Applied(n, executions, ctx, base)
    BY <2>2, ContextAsApplied
  <2>6. Applied(n + 1, executions, ctx', base)
    BY <2>1, <2>4, <2>5, AppliedNext
  <2>7. Settled' = n + 1
    BY <2>1, <2>2, <2>3 DEF Settled
  <2>8. ContextIsHistory'
    BY <2>3, <2>6, <2>7 DEF ContextIsHistory, Applied
  <2>9. StoppingIsSilent' /\ OutputsVetted'
    BY <2>2, <2>3
    DEF StoppingIsSilent, OutputsVetted, Vetted, LegacyNames, Declared
  <2> QED
    BY <2>8, <2>9
<1>7. CASE Build \/ Interrupt \/ BeginClockInvalid
  <2>1. pc' \in Quiet \ {"returned"}
    BY <1>7 DEF Build, Add, Interrupt, BeginClockInvalid, Quiet
  <2> QED
    BY <1>2, <2>1
<1>8. CASE BeginInTime \/ Call
  <2>1. /\ UNCHANGED <<entries, contracts, policy, base, ctx, executions>>
        /\ pc \in Busy \ {"publish"} /\ pc' \in Busy \ {"publish"}
    BY <1>8
    DEF BeginInTime, Call, Execute, pipelineVars, runVars, resultVars, Busy
  <2> QED
    BY <1>1, <2>1
<1>9. CASE UNCHANGED vars
  BY <1>1, <1>9 DEF vars
<1> QED
  BY <1>3, <1>4, <1>5, <1>6, <1>7, <1>8, <1>9 DEF Next, Advance, Begin

LEMMA ContextHolds == Spec => [](TypeInv /\ HistoryInv /\ ContextInv)
  BY TypeInit, TypeStep, HistoryInit, HistoryStep, ContextInit, ContextStep, PTL
  DEF Spec

\* The Context a run leaves is the one it was given, overwritten by the complete
\* outputs of its usable attempts in order.
THEOREM ContextIsHistoryHolds == Spec => []ContextIsHistory
<1>1. ContextInv => ContextIsHistory
  BY DEF ContextInv
<1> QED
  BY <1>1, ContextHolds, PTL

\* Whatever a run changes under a canonical key has passed the validator and
\* the limit of the run's policy, unless a capability without a contract
\* carries the key's name.
THEOREM CanonicalWithinPolicyHolds == Spec => []CanonicalWithinPolicy
<1>1. TypeInv /\ HistoryInv /\ ContextInv => CanonicalWithinPolicy
  <2> SUFFICES ASSUME TypeInv, HistoryInv, ContextInv, Live,
                      NEW k \in Keys \ LegacyNames, ctx[k] # base[k]
               PROVE  Vetted(ctx[k], k)
    BY DEF CanonicalWithinPolicy, Vetted
  <2>1. Applied(Settled, executions, ctx, base) /\ k \in StateNames
    BY ContextAsApplied DEF ContextInv, StateNames
  <2>2. PICK i \in 1..Settled : executions[i].out[k] # Absent
                              /\ ctx[k] = executions[i].out[k]
    BY <2>1 DEF Applied
  <2>3. i \in 1..Len(executions)
    <3>1. Len(executions) \in Nat
      BY DEF TypeInv, TypeOK
    <3> QED
      BY <3>1 DEF Settled
  <2> QED
    BY <2>2, <2>3 DEF ContextInv, OutputsVetted
<1> QED
  BY <1>1, ContextHolds, PTL

-----------------------------------------------------------------------------
(* The pipeline implements its contract. The log of the contract is the        *)
(* statuses of the attempts that have taken effect.                            *)

Statuses(n, h) == [i \in 1..n |-> h[i].status]

Verdict == IF pc = "returned" THEN aggregate ELSE "NONE"

LEMMA NoStatuses == \A h : Statuses(0, h) = <<>>
  BY DEF Statuses

\* One more attempt takes effect.
LEMMA OneMoreStatus ==
  ASSUME NEW h, NEW n \in Nat
  PROVE  Statuses(n + 1, h) = Append(Statuses(n, h), h[n + 1].status)
<1> DEFINE l == Statuses(n, h)
           m == Append(l, h[n + 1].status)
           S == {h[i].status : i \in 1..(n + 1)}
<1>1. l \in Seq(S) /\ Len(l) = n
  <2>1. \A i \in 1..n : h[i].status \in S
    OBVIOUS
  <2> QED
    BY <2>1, IsASeq DEF Statuses
<1>2. Statuses(n + 1, h) \in Seq(S) /\ Len(Statuses(n + 1, h)) = n + 1
  <2>1. \A i \in 1..(n + 1) : h[i].status \in S
    OBVIOUS
  <2> QED
    BY <2>1, IsASeq DEF Statuses
<1>3. h[n + 1].status \in S
  OBVIOUS
<1> HIDE DEF S
<1>4. /\ m \in Seq(S)
      /\ Len(m) = n + 1
      /\ m[n + 1] = h[n + 1].status
      /\ \A i \in 1..n : m[i] = l[i]
  BY <1>1, <1>3, AppendProperties
<1>5. \A i \in 1..(n + 1) : Statuses(n + 1, h)[i] = m[i]
  <2> SUFFICES ASSUME NEW i \in 1..(n + 1) PROVE Statuses(n + 1, h)[i] = m[i]
    OBVIOUS
  <2>1. Statuses(n + 1, h)[i] = h[i].status
    BY DEF Statuses
  <2>2. CASE i \in 1..n
    <3>1. l[i] = h[i].status
      BY <2>2 DEF Statuses
    <3> QED
      BY <1>4, <2>1, <2>2, <3>1
  <2>3. CASE i = n + 1
    BY <1>4, <2>1, <2>3
  <2>4. i \in 1..n \/ i = n + 1
    OBVIOUS
  <2> QED
    BY <2>2, <2>3, <2>4
<1> QED
  BY <1>2, <1>4, <1>5, SeqEqual

\* A status that is the worst of a history is the contract's verdict on it.
LEMMA WorstIsVerdict ==
  ASSUME NEW h \in Seq(Executions), NEW v \in Status,
         \A i \in 1..Len(h) : Severity[h[i].status] <= Severity[v],
         v = "SUCCESS" \/ \E i \in 1..Len(h) : h[i].status = v
  PROVE  Contract!IsWorst(v, Statuses(Len(h), h))
<1> DEFINE l == Statuses(Len(h), h)
<1>1. Len(l) = Len(h) /\ \A i \in 1..Len(h) : l[i] = h[i].status
  <2>1. \A i \in 1..Len(h) : h[i] \in Executions
    BY ElementOfSeq
  <2>2. \A i \in 1..Len(h) : h[i].status \in Status
    BY <2>1 DEF Executions
  <2> QED
    BY <2>2, IsASeq DEF Statuses
<1>2. Contract!Rank = Severity
  BY DEF Contract!Rank, Severity
<1>3. v \in Contract!Good \cup Contract!Bad
  BY DEF Contract!Good, Contract!Bad, Status, Usable, Stopping
<1> HIDE DEF l
<1>4. Contract!IsWorst(v, l)
  BY <1>1, <1>2, <1>3 DEF Contract!IsWorst
<1> QED
  BY <1>4 DEF l

\* Every step of a run is a step of the contract, or changes nothing it sees.
LEMMA ContractStep ==
  ASSUME TypeInv, HistoryInv, TypeInv', HistoryInv', ContextInv, [Next]_vars
  PROVE  [Contract!CNext]_(Contract!cvars)
<1> DEFINE log    == Statuses(Completed, executions)
           open   == pc \in Busy
<1>0. ASSUME pc' = "returned"
      PROVE  Contract!IsWorst(aggregate', Statuses(Len(executions'), executions'))
  <2>1. /\ executions' \in Seq(Executions) /\ aggregate' \in Status
        /\ \A i \in 1..Len(executions') :
             Severity[executions'[i].status] <= Severity[aggregate']
        /\ aggregate' = "SUCCESS"
             \/ \E i \in 1..Len(executions') : executions'[i].status = aggregate'
    BY <1>0 DEF TypeInv, TypeOK, HistoryInv, WorstStatus, Live
  <2> QED
    BY <2>1, WorstIsVerdict
<1>1. ASSUME UNCHANGED ctx, open' = open, log' = log, Verdict' = Verdict
      PROVE  UNCHANGED Contract!cvars
  BY <1>1 DEF Contract!cvars, Statuses, Verdict
<1>2. CASE UNCHANGED vars
  BY <1>1, <1>2 DEF vars, Completed, Statuses, Verdict
<1>3. CASE Build
  <2>1. pc \in Quiet /\ pc' = "idle" /\ ctx' = ctx
    BY <1>3 DEF Build, Add
  <2>2. Completed' = 0 /\ Verdict' = "NONE"
    BY <2>1 DEF Completed, Verdict
  <2>3. log' = <<>>
    BY <2>2, NoStatuses
  <2>4. ~open /\ ~open'
    BY <2>1 DEF Quiet, Busy
  <2>5. Contract!Forget
    BY <2>1, <2>2, <2>3, <2>4 DEF Contract!Forget, Statuses, Verdict
  <2> QED
    BY <2>5 DEF Contract!CNext
<1>4. CASE Start
  <2>1. PICK seed \in Seeds \cup {ctx, Nothing}, pol \in Policies \cup {NoPolicy} : Run(seed, pol)
    BY <1>4 DEF Start
  <2>2. /\ pc \in Quiet
        /\ executions' = <<>> /\ index' = 1
        /\ pc' \in {"returned", "begin"}
        /\ ctx' = seed
    BY <2>1 DEF Run
  <2>3. Completed' = 0 /\ Len(executions') = 0
    BY <2>2 DEF Completed
  <2>4. log' = <<>>
    BY <2>3, NoStatuses
  <2>5. ctx' \in [StateNames -> Values \cup {Absent}]
    BY DEF TypeInv, TypeOK, Partial
  <2>6. ~open
    BY <2>2 DEF Quiet, Busy
  <2>7. CASE pc' = "returned"
    <3>1. Contract!IsWorst(aggregate', Statuses(Len(executions'), executions'))
      BY <1>0, <2>7
    <3>2. ~open' /\ Verdict' = aggregate'
      BY <2>7 DEF Busy, Verdict
    <3> QED
      BY <2>3, <2>4, <2>5, <2>6, <3>1, <3>2
      DEF Contract!CNext, Contract!Open, Contract!Conclude, Verdict, Statuses
  <2>8. CASE pc' = "begin"
    <3>1. open' /\ Verdict' = "NONE"
      BY <2>8 DEF Busy, Verdict
    <3> QED
      BY <2>4, <2>5, <2>6, <3>1
      DEF Contract!CNext, Contract!Open, Contract!Continue, Verdict, Statuses
  <2> QED
    BY <2>2, <2>7, <2>8
<1>5. CASE BeginInTime \/ Call
  <2>1. /\ pc \in {"begin", "execute"} /\ pc' \in {"execute", "settle"}
        /\ UNCHANGED <<ctx, executions, index>>
    BY <1>5 DEF BeginInTime, Call, Execute, runVars, resultVars
  <2>2. open /\ open' /\ Completed' = Completed /\ Verdict' = Verdict
    BY <2>1 DEF Busy, Completed, Verdict
  <2> QED
    BY <1>1, <2>1, <2>2
<1>6. CASE Judge
  <2>1. PICK status, violation, out : Settle(status, violation, out)
    BY <1>6
    DEF Judge, SettleStopping, SettleMistyped, SettleLate, SettleOversized,
        SettleUsable
  <2>2. /\ pc = "settle" /\ pc' = "publish"
        /\ UNCHANGED <<ctx, index>>
        /\ \E e : executions' = Append(executions, e)
    BY <2>1 DEF Settle, Record, runVars
  <2>3. open /\ open' /\ Completed = index - 1 /\ Completed' = index - 1
        /\ Verdict' = Verdict
    BY <2>2 DEF Busy, Completed, Verdict
  <2>4. Len(executions) = index - 1 /\ index - 1 \in Nat
        /\ executions \in Seq(Executions)
    BY <2>2 DEF HistoryInv, Progress, TypeInv, TypeOK
  <2>5. \A i \in 1..(index - 1) : executions'[i] = executions[i]
    BY <2>2, <2>4
  <2>6. log' = log
    BY <2>3, <2>5 DEF Statuses
  <2> QED
    BY <1>1, <2>2, <2>3, <2>6
<1>7. CASE BeginClockInvalid \/ Interrupt
  <2>1. /\ pc \in Busy /\ pc' \in {"raised", "interrupted"}
        /\ UNCHANGED <<ctx, executions, index>>
    BY <1>7 DEF BeginClockInvalid, Interrupt, runVars, resultVars, Busy
  <2>2. open /\ ~open' /\ Completed' = Completed /\ Verdict' = "NONE"
    BY <2>1 DEF Busy, Completed, Verdict
  <2>3. log' = log
    BY <2>1, <2>2
  <2>4. Contract!Abandon
    BY <2>1, <2>2, <2>3 DEF Contract!Abandon, Statuses, Verdict
  <2> QED
    BY <2>4 DEF Contract!CNext
<1>8. CASE BeginLate
  <2>1. /\ pc = "begin" /\ pc' = "returned" /\ ctx' = ctx
        /\ Record("FAILURE", FALSE, "before", Nothing)
    BY <1>8 DEF BeginLate
  <2> DEFINE n == index - 1
             e == [name |-> Entry.name, status |-> "FAILURE", executed |-> FALSE,
                   violation |-> "before", out |-> Nothing]
  <2>2. /\ n \in Nat /\ Len(executions) = n
        /\ executions \in Seq(Executions)
        /\ executions' = Append(executions, e)
    BY <2>1 DEF HistoryInv, Progress, TypeInv, TypeOK, Record
  <2>3. Len(executions') = n + 1 /\ executions'[n + 1].status = "FAILURE"
        /\ \A i \in 1..n : executions'[i] = executions[i]
    BY <2>2
  <2>4. Completed = n /\ Completed' = n + 1
    BY <2>1, <2>3 DEF Completed
  <2>5. Statuses(n, executions') = Statuses(n, executions)
    BY <2>3 DEF Statuses
  <2>6. log' = Append(log, "FAILURE")
    BY <2>2, <2>3, <2>4, <2>5, OneMoreStatus
  <2>7. open /\ ~open' /\ Verdict' = aggregate'
    BY <2>1 DEF Busy, Verdict
  <2>8. Contract!IsWorst(aggregate', log')
    BY <1>0, <2>1, <2>3, <2>4
  <2>9. Contract!Conclude
    BY <2>7, <2>8 DEF Contract!Conclude, Verdict, Statuses
  <2>10. Contract!Stop
    BY <2>1, <2>6, <2>7, <2>9 DEF Contract!Stop, Contract!Bad, Statuses
  <2> QED
    BY <2>10 DEF Contract!CNext
<1>9. CASE Publish
  <2> DEFINE n == index - 1
  <2>1. /\ pc = "publish" /\ pc' \in {"begin", "returned"}
        /\ executions' = executions
        /\ n \in Nat /\ Len(executions) = n + 1
        /\ last = executions[n + 1]
        /\ last \in Executions
        /\ pc' = "begin" => index' = n + 2 /\ last.status \in Usable
    BY <1>9
    DEF Publish, resultVars, HistoryInv, Progress, TypeInv, TypeOK, Shape
  <2>2. Completed = n /\ Completed' = n + 1
    BY <2>1 DEF Completed
  <2>3. log' = Append(log, last.status)
    BY <2>1, <2>2, OneMoreStatus
  <2>4. open
    BY <2>1 DEF Busy
  <2>5. CASE pc' = "returned"
    <3>1. Contract!IsWorst(aggregate', log')
      BY <1>0, <2>1, <2>2, <2>5
    <3>2. ~open' /\ Verdict' = aggregate'
      BY <2>5 DEF Busy, Verdict
    <3>3. Contract!Conclude
      BY <3>1, <3>2 DEF Contract!Conclude, Verdict, Statuses
    <3>4. CASE last.status \in Usable
      <4>1. last.out \in [StateNames -> Values \cup {Absent}]
        BY <2>1 DEF Executions, Partial
      <4>2. ctx' = [s \in StateNames |->
                     IF last.out[s] # Absent THEN last.out[s] ELSE ctx[s]]
        BY <1>9, <3>4 DEF Publish, Overlay
      <4>3. Contract!Keep
        BY <2>3, <2>4, <3>3, <3>4, <4>1, <4>2
        DEF Contract!Keep, Contract!Good, Usable, Statuses
      <4> QED
        BY <4>3 DEF Contract!CNext
    <3>5. CASE last.status \notin Usable
      <4>1. last.status \in Stopping /\ ctx' = ctx
        BY <1>9, <2>1, <3>5 DEF Publish, Executions, Status
      <4>2. Contract!Stop
        BY <2>3, <2>4, <3>3, <4>1
        DEF Contract!Stop, Contract!Bad, Stopping, Statuses
      <4> QED
        BY <4>2 DEF Contract!CNext
    <3> QED
      BY <3>4, <3>5
  <2>6. CASE pc' = "begin"
    <3>1. open' /\ Verdict' = "NONE"
      BY <2>6 DEF Busy, Verdict
    <3>2. Contract!Continue
      BY <3>1 DEF Contract!Continue, Verdict
    <3>3. last.out \in [StateNames -> Values \cup {Absent}]
      BY <2>1 DEF Executions, Partial
    <3>4. ctx' = [s \in StateNames |->
                   IF last.out[s] # Absent THEN last.out[s] ELSE ctx[s]]
      BY <1>9, <2>1, <2>6 DEF Publish, Overlay
    <3>5. Contract!Keep
      BY <2>1, <2>3, <2>4, <2>6, <3>2, <3>3, <3>4
      DEF Contract!Keep, Contract!Good, Usable, Statuses
    <3> QED
      BY <3>5 DEF Contract!CNext
  <2> QED
    BY <2>1, <2>5, <2>6
<1> QED
  BY <1>2, <1>3, <1>4, <1>5, <1>6, <1>7, <1>8, <1>9 DEF Next, Advance, Begin

LEMMA ContractInit == Init => Contract!CInit
<1> SUFFICES ASSUME Init PROVE Contract!CInit
  OBVIOUS
<1>1. pc = "idle" /\ ctx = Nothing
  BY DEF Init
<1>2. Completed = 0
  BY <1>1 DEF Completed
<1>3. Statuses(Completed, executions) = <<>>
  BY <1>2, NoStatuses
<1> QED
  BY <1>1, <1>3 DEF Contract!CInit, Statuses, Busy, Nothing

\* Broken into steps, interrupted anywhere, with a clock that may fail, the
\* pipeline implements the contract of atomic attempts.
THEOREM ImplementsContractHolds == Spec => ImplementsContract
<1>1. /\ TypeInv /\ HistoryInv /\ ContextInv
      /\ (TypeInv /\ HistoryInv)'
      /\ [Next]_vars
      => [Contract!CNext]_(Contract!cvars)
  BY ContractStep
<1> QED
  BY <1>1, ContractInit, ContextHolds, PTL DEF Spec, ImplementsContract, Contract!CSpec

-----------------------------------------------------------------------------
(* The deadline. An attempt judged usable was judged in time, and the clock is *)
(* not read again before its output is published.                              *)

InTimeInv ==
  pc = "publish" /\ last.status \in Usable =>
    policy.expires = Absent \/ now < policy.expires

LEMMA InTimeStep == TypeInv /\ InTimeInv /\ [Next]_vars => InTimeInv'
<1> SUFFICES ASSUME TypeInv, InTimeInv, [Next]_vars PROVE InTimeInv'
  OBVIOUS
<1> USE DEF InTimeInv
<1>1. CASE UNCHANGED vars
  BY <1>1 DEF vars
<1>2. CASE Build \/ Start \/ Begin \/ Call \/ Publish \/ Interrupt
  <2>1. pc' # "publish"
    BY <1>2
    DEF Build, Add, Start, Run, Begin, BeginInTime, BeginLate, BeginClockInvalid,
        Call, Execute, Publish, Interrupt
  <2> QED
    BY <2>1
<1>3. CASE SettleStopping
  <2>1. last'.status \in Stopping
    BY <1>3 DEF SettleStopping, Settle, Record, Stopping
  <2> QED
    BY <2>1 DEF Usable, Stopping
<1>4. CASE SettleMistyped \/ SettleLate \/ SettleOversized
  <2>1. last'.status \in Stopping
    BY <1>4
    DEF SettleMistyped, SettleLate, SettleOversized, Settle, Record, Stopping
  <2> QED
    BY <2>1 DEF Usable, Stopping
<1>5. CASE SettleUsable
  <2>1. InTime /\ policy' = policy
    BY <1>5 DEF SettleUsable, Settle, runVars
  <2> QED
    BY <2>1 DEF InTime
<1> QED
  BY <1>1, <1>2, <1>3, <1>4, <1>5 DEF Next, Advance, Judge

\* Once a reading has reached the deadline, no capability starts and nothing is
\* published: neither the interrupt nor a broken clock opens a way around it.
THEOREM NothingAfterDeadlineHolds == Spec => NothingAfterDeadline
<1> DEFINE InTimeStepped ==
             \/ pc' = "execute" /\ pc = "begin"
             \/ pc = "publish" /\ ctx' # ctx
             => policy.expires = Absent \/ now' < policy.expires
<1>1. Init => InTimeInv
  BY DEF Init, InTimeInv
<1>2. TypeInv /\ InTimeInv /\ [Next]_vars => [InTimeStepped]_vars
  <2> SUFFICES ASSUME TypeInv, InTimeInv, Next PROVE InTimeStepped
    OBVIOUS
  <2>1. CASE pc' = "execute" /\ pc = "begin"
    <3>1. BeginInTime
      BY <2>1
      DEF Next, Advance, Build, Add, Start, Run, Begin, BeginLate,
          BeginClockInvalid, Call, Execute, Judge, SettleStopping,
          SettleMistyped, SettleLate, SettleOversized, SettleUsable, Settle,
          Publish, Interrupt, Quiet
    <3> QED
      BY <3>1 DEF BeginInTime, InTime
  <2>2. CASE pc = "publish" /\ ctx' # ctx
    <3>1. Publish
      BY <2>2
      DEF Next, Advance, Build, Add, Start, Run, Begin, BeginInTime, BeginLate,
          BeginClockInvalid, Call, Execute, Judge, SettleStopping,
          SettleMistyped, SettleLate, SettleOversized, SettleUsable, Settle,
          Interrupt, Quiet
    <3> QED
      BY <2>2, <3>1 DEF Publish, InTimeInv
  <2> QED
    BY <2>1, <2>2
<1> QED
  BY <1>1, <1>2, TypeInit, TypeStep, InTimeStep, PTL DEF Spec, NothingAfterDeadline

-----------------------------------------------------------------------------
(* The events. Transcript is a recursive function; that it exists, and what it *)
(* is, is shown for any sequence of blocks.                                    *)

\* Induction over the natural numbers, as a statement about a set.
LEMMA NatSetInduction ==
  ASSUME NEW S, 0 \in S, \A n \in Nat : n \in S => n + 1 \in S
  PROVE  Nat \subseteq S
<1> SUFFICES ASSUME Nat \ S # {} PROVE FALSE
  OBVIOUS
<1>1. \A x, y \in Nat : y < x => <<y, x>> \in OpToRel(<, Nat)
  BY DEF OpToRel
<1>2. \E R : /\ IsWellFoundedOn(R, Nat)
             /\ \A x, y \in Nat : y < x => <<y, x>> \in R
  BY <1>1, NatLessThanWellFounded, Zenon
<1>3. PICK R : /\ IsWellFoundedOn(R, Nat)
               /\ \A x, y \in Nat : y < x => <<y, x>> \in R
  BY <1>2
<1>4. PICK x \in Nat \ S : \A y \in Nat \ S : ~(<<y, x>> \in R)
  BY <1>3, WFMin
<1>5. x # 0 /\ x - 1 \in Nat /\ x - 1 < x
  BY <1>4
<1>6. x - 1 \in S
  BY <1>3, <1>4, <1>5
<1> QED
  BY <1>4, <1>5, <1>6

\* g is the concatenation of the first m blocks, for every m up to n.
Prefixes(g, n, B) ==
  /\ g[0] = <<>>
  /\ \A m \in 1..n : g[m] = g[m - 1] \o B[m]

LEMMA PrefixesShorter ==
  ASSUME NEW B, NEW g, NEW n \in Nat, n - 1 \in Nat, Prefixes(g, n, B)
  PROVE  Prefixes(g, n - 1, B)
<1>1. \A m \in 1..(n - 1) : m \in 1..n
  OBVIOUS
<1> QED
  BY <1>1 DEF Prefixes

LEMMA PrefixesAgree ==
  ASSUME NEW B, NEW g, NEW h, NEW n \in Nat, Prefixes(g, n, B), Prefixes(h, n, B)
  PROVE  \A m \in 0..n : g[m] = h[m]
<1> DEFINE S == {m \in Nat : m <= n => g[m] = h[m]}
<1>1. 0 \in S
  BY DEF Prefixes
<1>2. ASSUME NEW m \in Nat, m \in S PROVE m + 1 \in S
  <2>1. SUFFICES ASSUME m + 1 <= n PROVE g[m + 1] = h[m + 1]
    OBVIOUS
  <2>2. m + 1 \in 1..n /\ (m + 1) - 1 = m /\ m <= n
    BY <2>1
  <2>3. g[m + 1] = g[m] \o B[m + 1] /\ h[m + 1] = h[m] \o B[m + 1]
    BY <2>2 DEF Prefixes
  <2> QED
    BY <1>2, <2>2, <2>3
<1> HIDE DEF S
<1>3. \A m \in Nat : m \in S => m + 1 \in S
  BY <1>2
<1>4. Nat \subseteq S
  BY <1>1, <1>3, NatSetInduction, Zenon
<1> QED
  BY <1>4 DEF S

LEMMA PrefixesExist ==
  ASSUME NEW B
  PROVE  \A n \in Nat : \E g : Prefixes(g, n, B)
<1> DEFINE S == {n \in Nat : \E g : Prefixes(g, n, B)}
<1>1. 0 \in S
  <2>1. Prefixes([m \in {0} |-> <<>>], 0, B)
    BY DEF Prefixes
  <2> QED
    BY <2>1
<1>2. ASSUME NEW n \in Nat, n \in S PROVE n + 1 \in S
  <2>1. PICK g : Prefixes(g, n, B)
    BY <1>2
  <2> DEFINE h == [m \in 0..(n + 1) |-> IF m = n + 1 THEN g[n] \o B[n + 1] ELSE g[m]]
  <2>2. h[0] = <<>>
    BY <2>1 DEF Prefixes
  <2>3. ASSUME NEW m \in 1..(n + 1) PROVE h[m] = h[m - 1] \o B[m]
    <3>1. CASE m = n + 1
      <4>1. h[m - 1] = g[n] /\ h[m] = g[n] \o B[n + 1]
        BY <3>1
      <4> QED
        BY <3>1, <4>1
    <3>2. CASE m # n + 1
      <4>1. m \in 1..n /\ h[m] = g[m] /\ h[m - 1] = g[m - 1]
        BY <3>2
      <4> QED
        BY <2>1, <4>1 DEF Prefixes
    <3> QED
      BY <3>1, <3>2
  <2>4. Prefixes(h, n + 1, B)
    <3> HIDE DEF h
    <3> QED
      BY <2>2, <2>3 DEF Prefixes
  <2> QED
    BY <2>4
<1> HIDE DEF S
<1>3. \A m \in Nat : m \in S => m + 1 \in S
  BY <1>2
<1>4. Nat \subseteq S
  BY <1>1, <1>3, NatSetInduction, Zenon
<1> QED
  BY <1>4 DEF S

LEMMA ConcatenationExists ==
  ASSUME NEW B
  PROVE  \E f : f = [n \in Nat |-> IF n = 0 THEN <<>> ELSE f[n - 1] \o B[n]]
<1> DEFINE G(n) == CHOOSE g : Prefixes(g, n, B)
           f    == [n \in Nat |-> G(n)[n]]
<1>1. ASSUME NEW n \in Nat PROVE Prefixes(G(n), n, B)
  <2>1. \E g : Prefixes(g, n, B)
    BY PrefixesExist
  <2> QED
    BY <2>1, Zenon
<1> HIDE DEF G
<1>2. ASSUME NEW n \in Nat PROVE f[n] = IF n = 0 THEN <<>> ELSE f[n - 1] \o B[n]
  <2>1. CASE n = 0
    BY <1>1, <2>1 DEF Prefixes
  <2>2. CASE n # 0
    <3>1. n - 1 \in Nat /\ n \in 1..n /\ n - 1 \in 0..(n - 1)
      BY <2>2
    <3>2. Prefixes(G(n), n - 1, B)
      BY <1>1, <3>1, PrefixesShorter
    <3>3. Prefixes(G(n - 1), n - 1, B)
      BY <1>1, <3>1
    <3>4. G(n)[n - 1] = G(n - 1)[n - 1]
      BY <3>1, <3>2, <3>3, PrefixesAgree
    <3>5. G(n)[n] = G(n)[n - 1] \o B[n]
      BY <1>1, <3>1 DEF Prefixes
    <3>6. f[n] = G(n)[n] /\ f[n - 1] = G(n - 1)[n - 1]
      BY <3>1
    <3> HIDE DEF f
    <3> QED
      BY <2>2, <3>4, <3>5, <3>6
  <2> QED
    BY <2>1, <2>2
<1>3. f = [n \in Nat |-> IF n = 0 THEN <<>> ELSE f[n - 1] \o B[n]]
  <2>1. f = [n \in Nat |-> f[n]]
    OBVIOUS
  <2> HIDE DEF f
  <2> QED
    BY <1>2, <2>1
<1> QED
  BY <1>3

\* What the sink receives of one attempt, and of a history h.
Told(e) == [j \in 1..Len(Block(e)) |-> [type |-> Block(e)[j], name |-> e.name]]

Tale(h) == CHOOSE f : f = [n \in Nat |-> IF n = 0 THEN <<>> ELSE f[n - 1] \o Told(h[n])]

LEMMA TaleUnfolds ==
  ASSUME NEW h
  PROVE  /\ Tale(h)[0] = <<>>
         /\ \A n \in Nat : Tale(h)[n + 1] = Tale(h)[n] \o Told(h[n + 1])
<1> DEFINE B == [n \in Nat |-> Told(h[n])]
           P(f) == f = [n \in Nat |-> IF n = 0 THEN <<>> ELSE f[n - 1] \o Told(h[n])]
<1>1. \E f : P(f)
  <2>1. PICK f : f = [n \in Nat |-> IF n = 0 THEN <<>> ELSE f[n - 1] \o B[n]]
    BY ConcatenationExists
  <2>2. \A n \in Nat : B[n] = Told(h[n])
    OBVIOUS
  <2> HIDE DEF B
  <2>3. P(f)
    BY <2>1, <2>2
  <2> QED
    BY <2>3
<1>2. P(Tale(h))
  BY <1>1, Zenon DEF Tale
<1> DEFINE t == Tale(h)
<1>3. t = [n \in Nat |-> IF n = 0 THEN <<>> ELSE t[n - 1] \o Told(h[n])]
  BY <1>2
<1> HIDE DEF t
<1>4. t[0] = <<>>
  BY <1>3
<1>5. ASSUME NEW n \in Nat PROVE t[n + 1] = t[n] \o Told(h[n + 1])
  <2>1. n + 1 \in Nat /\ n + 1 # 0 /\ (n + 1) - 1 = n
    OBVIOUS
  <2>2. t[n + 1] = IF n + 1 = 0 THEN <<>> ELSE t[(n + 1) - 1] \o Told(h[n + 1])
    BY <1>3, <2>1
  <2> QED
    BY <2>1, <2>2
<1> QED
  BY <1>4, <1>5 DEF t

LEMMA TranscriptIsTale == Transcript = Tale(executions) /\ Transcript' = Tale(executions')
  BY DEF Transcript, Tale, Told

\* A history tells the same of an attempt however it goes on.
LEMMA TaleOfPrefix ==
  ASSUME NEW h, NEW g, NEW n \in Nat, \A i \in 1..n : h[i] = g[i]
  PROVE  Tale(h)[n] = Tale(g)[n]
<1> DEFINE S == {m \in Nat : m <= n => Tale(h)[m] = Tale(g)[m]}
<1>1. 0 \in S
  BY TaleUnfolds
<1>2. ASSUME NEW m \in Nat, m \in S PROVE m + 1 \in S
  <2>1. SUFFICES ASSUME m + 1 <= n PROVE Tale(h)[m + 1] = Tale(g)[m + 1]
    OBVIOUS
  <2>2. m + 1 \in 1..n /\ m <= n
    BY <2>1
  <2>3. /\ Tale(h)[m + 1] = Tale(h)[m] \o Told(h[m + 1])
        /\ Tale(g)[m + 1] = Tale(g)[m] \o Told(g[m + 1])
    BY TaleUnfolds
  <2> QED
    BY <1>2, <2>2, <2>3
<1>3. \A m \in Nat : m \in S => m + 1 \in S
  BY <1>2
<1> HIDE DEF S
<1>4. Nat \subseteq S
  BY <1>1, <1>3, NatSetInduction, Zenon
<1> QED
  BY <1>4 DEF S

LEMMA ToldType ==
  ASSUME NEW e \in Executions
  PROVE  /\ Told(e) \in Seq(Events)
         /\ PolicyEvent[e.violation] \o <<e.status>> \in Seq(EventTypes)
         /\ Block(e) = <<"STARTED">> \o (PolicyEvent[e.violation] \o <<e.status>>)
<1> DEFINE rest == PolicyEvent[e.violation] \o <<e.status>>
<1>1. rest \in Seq(EventTypes)
  BY PolicyEventType DEF Executions
<1>2. Block(e) = <<"STARTED">> \o rest
  <2> DEFINE s == <<"STARTED">>
             p == PolicyEvent[e.violation]
             u == <<e.status>>
  <2>1. s \in Seq(EventTypes) /\ u \in Seq(EventTypes)
    BY DEF EventTypes, Executions
  <2>2. p \in Seq(EventTypes)
    <3>1. p \in {<<>>, <<"DEADLINE">>, <<"LIMIT">>}
      BY DEF PolicyEvent, Violations, Executions
    <3>2. /\ <<>> \in Seq(EventTypes)
          /\ <<"DEADLINE">> \in Seq(EventTypes)
          /\ <<"LIMIT">> \in Seq(EventTypes)
      BY DEF EventTypes
    <3> QED
      BY <3>1, <3>2
  <2>3. Block(e) = (s \o p) \o u /\ rest = p \o u
    BY Zenon DEF Block
  <2> HIDE DEF s, p, u, rest
  <2>4. Block(e) = s \o rest
    BY <2>1, <2>2, <2>3, ConcatAssociative
  <2> QED
    BY <2>4 DEF s
<1> HIDE DEF rest
<1>3. Block(e) \in Seq(EventTypes)
  <2>1. <<"STARTED">> \in Seq(EventTypes)
    BY DEF EventTypes
  <2> QED
    BY <1>1, <1>2, <2>1, ConcatProperties
<1>4. Told(e) \in Seq(Events)
  <2>1. \A j \in 1..Len(Block(e)) : [type |-> Block(e)[j], name |-> e.name] \in Events
    BY <1>3, ElementOfSeq DEF Events, Executions
  <2>2. Len(Block(e)) \in Nat
    BY <1>3
  <2> QED
    BY <2>1, <2>2, IsASeq DEF Told
<1> QED
  BY <1>1, <1>2, <1>4 DEF rest

LEMMA TaleType ==
  ASSUME NEW h \in Seq(Executions), NEW n \in 0..Len(h)
  PROVE  Tale(h)[n] \in Seq(Events)
<1> DEFINE S == {m \in Nat : m <= Len(h) => Tale(h)[m] \in Seq(Events)}
<1>1. 0 \in S
  <2>1. Tale(h)[0] \in Seq(Events)
    BY TaleUnfolds, EmptySeq
  <2> QED
    BY <2>1
<1>2. ASSUME NEW m \in Nat, m \in S PROVE m + 1 \in S
  <2>1. SUFFICES ASSUME m + 1 <= Len(h) PROVE Tale(h)[m + 1] \in Seq(Events)
    OBVIOUS
  <2>2. m + 1 \in 1..Len(h) /\ m <= Len(h)
    BY <2>1
  <2>3. Told(h[m + 1]) \in Seq(Events)
    BY <2>2, ToldType, ElementOfSeq
  <2>4. Tale(h)[m + 1] = Tale(h)[m] \o Told(h[m + 1])
    BY TaleUnfolds
  <2> QED
    BY <1>2, <2>2, <2>3, <2>4, ConcatProperties
<1>3. \A m \in Nat : m \in S => m + 1 \in S
  BY <1>2
<1> HIDE DEF S
<1>4. Nat \subseteq S
  BY <1>1, <1>3, NatSetInduction, Zenon
<1> QED
  BY <1>4 DEF S

LEMMA LateBlock ==
  <<"STARTED">> \o <<"DEADLINE">> \o <<"FAILURE">> = <<"STARTED", "DEADLINE", "FAILURE">>
<1> DEFINE s == <<"STARTED">>
           d == <<"DEADLINE">>
           f == <<"FAILURE">>
           t == <<"STARTED", "DEADLINE", "FAILURE">>
<1>1. /\ s \in Seq(EventTypes) /\ Len(s) = 1 /\ s[1] = "STARTED"
      /\ d \in Seq(EventTypes) /\ Len(d) = 1 /\ d[1] = "DEADLINE"
      /\ f \in Seq(EventTypes) /\ Len(f) = 1 /\ f[1] = "FAILURE"
  BY DEF EventTypes, Status, Stopping
<1>2. /\ t \in Seq(EventTypes) /\ Len(t) = 3
      /\ t[1] = "STARTED" /\ t[2] = "DEADLINE" /\ t[3] = "FAILURE"
  BY DEF EventTypes, Status, Stopping
<1> HIDE DEF s, d, f, t
<1>3. /\ s \o d \in Seq(EventTypes) /\ Len(s \o d) = 2
      /\ (s \o d)[1] = "STARTED" /\ (s \o d)[2] = "DEADLINE"
  BY <1>1, ConcatProperties
<1>4. /\ (s \o d) \o f \in Seq(EventTypes) /\ Len((s \o d) \o f) = 3
      /\ ((s \o d) \o f)[1] = "STARTED" /\ ((s \o d) \o f)[2] = "DEADLINE"
      /\ ((s \o d) \o f)[3] = "FAILURE"
  BY <1>1, <1>3, ConcatProperties
<1>5. \A i \in 1..3 : ((s \o d) \o f)[i] = t[i]
  BY <1>2, <1>4
<1>6. (s \o d) \o f = t
  BY <1>2, <1>4, <1>5, SeqEqual
<1> QED
  BY <1>6 DEF s, d, f, t

\* The events of a list of types, as Emit makes them.
Named(types, name) == [i \in 1..Len(types) |-> [type |-> types[i], name |-> name]]

LEMMA NamedType ==
  ASSUME NEW types \in Seq(EventTypes), NEW name \in Names
  PROVE  Named(types, name) \in Seq(Events) /\ Len(Named(types, name)) = Len(types)
<1>1. \A i \in 1..Len(types) : [type |-> types[i], name |-> name] \in Events
  BY ElementOfSeq DEF Events
<1>2. Len(types) \in Nat
  OBVIOUS
<1> QED
  BY <1>1, <1>2, IsASeq DEF Named

LEMMA NamedConcat ==
  ASSUME NEW s \in Seq(EventTypes), NEW t \in Seq(EventTypes), NEW name \in Names
  PROVE  Named(s \o t, name) = Named(s, name) \o Named(t, name)
<1> DEFINE l == Named(s \o t, name)
           a == Named(s, name)
           b == Named(t, name)
           r == a \o b
<1>1. /\ s \o t \in Seq(EventTypes)
      /\ Len(s \o t) = Len(s) + Len(t)
      /\ \A i \in 1..(Len(s) + Len(t)) :
           (s \o t)[i] = IF i <= Len(s) THEN s[i] ELSE t[i - Len(s)]
      /\ Len(s) \in Nat /\ Len(t) \in Nat
  BY ConcatProperties
<1>2. l \in Seq(Events) /\ Len(l) = Len(s) + Len(t)
  BY <1>1, NamedType
<1>3. /\ a \in Seq(Events) /\ Len(a) = Len(s)
      /\ b \in Seq(Events) /\ Len(b) = Len(t)
  BY NamedType
<1>4. /\ r \in Seq(Events) /\ Len(r) = Len(s) + Len(t)
      /\ \A i \in 1..(Len(s) + Len(t)) :
           r[i] = IF i <= Len(s) THEN a[i] ELSE b[i - Len(s)]
  <2> HIDE DEF a, b
  <2>1. /\ a \o b \in Seq(Events)
        /\ Len(a \o b) = Len(a) + Len(b)
        /\ \A i \in 1..(Len(a) + Len(b)) :
             (a \o b)[i] = IF i <= Len(a) THEN a[i] ELSE b[i - Len(a)]
    BY <1>3, ConcatProperties
  <2> QED
    BY <1>3, <2>1
<1>5. ASSUME NEW i \in 1..(Len(s) + Len(t)) PROVE l[i] = r[i]
  <2>1. l[i] = [type |-> (s \o t)[i], name |-> name]
    BY <1>1 DEF Named
  <2>2. CASE i <= Len(s)
    <3>1. i \in 1..Len(s)
      BY <1>1, <2>2
    <3>2. a[i] = [type |-> s[i], name |-> name]
      BY <3>1 DEF Named
    <3> HIDE DEF a, b, l, r
    <3> QED
      BY <1>1, <1>4, <2>1, <2>2, <3>2
  <2>3. CASE ~(i <= Len(s))
    <3>1. i - Len(s) \in 1..Len(t)
      BY <1>1, <2>3
    <3>2. b[i - Len(s)] = [type |-> t[i - Len(s)], name |-> name]
      BY <3>1 DEF Named
    <3> HIDE DEF a, b, l, r
    <3> QED
      BY <1>1, <1>4, <2>1, <2>3, <3>2
  <2> QED
    BY <2>2, <2>3
<1> HIDE DEF l, r
<1>6. l = r
  BY <1>2, <1>4, <1>5, SeqEqual
<1> QED
  BY <1>6 DEF l, r

StartedEvent(name) == <<[type |-> "STARTED", name |-> name]>>

LEMMA ToldInTwo ==
  ASSUME NEW e \in Executions
  PROVE  Told(e) = StartedEvent(e.name) \o
                     Named(PolicyEvent[e.violation] \o <<e.status>>, e.name)
<1> DEFINE rest == PolicyEvent[e.violation] \o <<e.status>>
           s == <<"STARTED">>
<1>1. rest \in Seq(EventTypes) /\ Block(e) = s \o rest /\ e.name \in Names
  BY ToldType DEF Executions
<1>2. s \in Seq(EventTypes)
  BY DEF EventTypes
<1>3. Told(e) = Named(Block(e), e.name)
  BY DEF Told, Named
<1>4. Named(s, e.name) = StartedEvent(e.name)
  BY DEF Named, StartedEvent
<1> HIDE DEF rest, s
<1>5. Told(e) = Named(s, e.name) \o Named(rest, e.name)
  BY <1>1, <1>2, <1>3, NamedConcat
<1> QED
  BY <1>4, <1>5 DEF rest

LEMMA EventsStep ==
  TypeInv /\ TypeInv' /\ HistoryInv /\ HistoryInv' /\ EventsTellHistory /\ [Next]_vars
    => EventsTellHistory'
<1> SUFFICES ASSUME TypeInv, TypeInv', HistoryInv, HistoryInv', EventsTellHistory,
                    [Next]_vars, Live'
             PROVE  EventsTellHistory'
  BY DEF EventsTellHistory
<1> DEFINE told == Tale(executions)
           told2 == Tale(executions')
           n == Len(executions)
<1>1. Transcript = told /\ Transcript' = told2
  BY TranscriptIsTale
<1>2. /\ executions \in Seq(Executions) /\ executions' \in Seq(Executions)
      /\ n \in Nat /\ events \in Seq(Events)
  BY DEF TypeInv, TypeOK
<1>3. \A i \in 0..n : told[i] \in Seq(Events)
  BY <1>2, TaleType
<1> HIDE DEF told, told2, n
<1>13. ASSUME pc = "begin" PROVE events = told[n]
  <2>1. Live /\ Settled = n
    BY <1>13 DEF Live, Busy, Settled, n
  <2>2. events = told[n] \o <<>>
    BY <1>1, <1>13, <2>1 DEF EventsTellHistory
  <2>3. told[n] \in Seq(Events)
    BY <1>2, <1>3
  <2> QED
    BY <2>2, <2>3, ConcatEmptySeq
<1>4. CASE UNCHANGED vars
  BY <1>1, <1>4 DEF vars, EventsTellHistory, Live, Settled, Entry, told, told2
<1>5. CASE Start
  <2>1. executions' = <<>> /\ events' = <<>> /\ pc' \in {"returned", "begin"}
    BY <1>5 DEF Start, Run
  <2>2. Settled' = 0
    BY <2>1 DEF Settled
  <2>3. told2[0] = <<>>
    BY TaleUnfolds DEF told2
  <2>4. <<>> \o <<>> = <<>>
    OBVIOUS
  <2> QED
    BY <1>1, <2>1, <2>2, <2>3, <2>4 DEF EventsTellHistory
<1>6. CASE BeginInTime
  <2>1. /\ pc = "begin" /\ pc' = "execute" /\ UNCHANGED <<entries, index, executions>>
        /\ events' = events \o StartedEvent(Entry.name)
    <3>1. Emit(<<"STARTED">>)
      BY <1>6 DEF BeginInTime
    <3>2. [i \in 1..Len(<<"STARTED">>) |-> [type |-> <<"STARTED">>[i], name |-> Entry.name]]
            = StartedEvent(Entry.name)
      BY DEF StartedEvent
    <3> QED
      BY <1>6, <3>1, <3>2 DEF BeginInTime, Emit, pipelineVars, runVars, resultVars
  <2>2. events = told[n]
    BY <1>13, <2>1
  <2>3. Settled' = n /\ told2 = told /\ Entry' = Entry
    BY <2>1 DEF Settled, Entry, told, told2, n
  <2> QED
    BY <1>1, <2>1, <2>2, <2>3 DEF EventsTellHistory, StartedEvent
<1>7. CASE BeginLate
  <2> DEFINE e == executions'[n + 1]
             types == <<"STARTED", "DEADLINE", "FAILURE">>
  <2>1. /\ pc = "begin" /\ pc' = "returned"
        /\ Record("FAILURE", FALSE, "before", Nothing)
        /\ Emit(types)
    BY <1>7 DEF BeginLate
  <2>2. /\ Len(executions') = n + 1
        /\ \A i \in 1..n : executions'[i] = executions[i]
        /\ e = [name |-> Entry.name, status |-> "FAILURE", executed |-> FALSE,
                violation |-> "before", out |-> Nothing]
    BY <1>2, <2>1 DEF Record, n
  <2> HIDE DEF e
  <2>3. e \in Executions
    BY <1>2, <2>2, ElementOfSeq DEF e
  <2>5. events = told[n]
    BY <1>13, <2>1
  <2>6. events' = told[n] \o Told(e)
    <3>1. Block(e) = types
      <4>1. e.violation = "before" /\ e.status = "FAILURE"
        BY <2>2
      <4>2. Block(e) = <<"STARTED">> \o <<"DEADLINE">> \o <<"FAILURE">>
        BY <4>1 DEF Block, PolicyEvent
      <4> QED
        BY <4>2, LateBlock
    <3>2. e.name = Entry.name
      BY <2>2
    <3>3. Told(e) = [j \in 1..Len(types) |-> [type |-> types[j], name |-> Entry.name]]
      BY <3>1, <3>2, Zenon DEF Told
    <3> QED
      BY <2>1, <2>5, <3>3, Zenon DEF Emit
  <2>7. told2[n] = told[n] /\ told2[n + 1] = told2[n] \o Told(e)
    BY <1>2, <2>2, TaleOfPrefix, TaleUnfolds DEF told, told2, e
  <2>8. Settled' = n + 1
    BY <2>1, <2>2 DEF Settled
  <2>9. told2[n + 1] \in Seq(Events)
    BY <1>2, <2>2, TaleType DEF told2
  <2>10. events' = told2[n + 1] \o <<>>
    BY <2>6, <2>7, <2>9, ConcatEmptySeq
  <2> QED
    BY <1>1, <2>1, <2>8, <2>10 DEF EventsTellHistory
<1>8. CASE Call
  <2>1. /\ pc = "execute" /\ pc' = "settle"
        /\ UNCHANGED <<entries, index, executions, events>>
    BY <1>8 DEF Call, Execute, pipelineVars, runVars, resultVars
  <2> QED
    BY <1>1, <2>1 DEF EventsTellHistory, Live, Busy, Settled, Entry, told, told2
<1>9. CASE Judge
  <2>1. PICK status, violation, out : Settle(status, violation, out)
    BY <1>9
    DEF Judge, SettleStopping, SettleMistyped, SettleLate, SettleOversized,
        SettleUsable
  <2>2. /\ pc = "settle" /\ pc' = "publish"
        /\ UNCHANGED <<entries, index, events>>
        /\ \E e : executions' = Append(executions, e)
    BY <2>1 DEF Settle, Record, pipelineVars, runVars
  <2>3. Len(executions') = n + 1 /\ \A i \in 1..n : executions'[i] = executions[i]
    BY <1>2, <2>2 DEF n
  <2>4. told2[n] = told[n]
    BY <1>2, <2>3, TaleOfPrefix DEF told, told2
  <2>5. Settled = n /\ Settled' = n /\ Entry' = Entry
    BY <1>2, <2>2, <2>3 DEF Settled, Entry, n
  <2> QED
    BY <1>1, <2>2, <2>4, <2>5 DEF EventsTellHistory, Live, Busy
<1>10. CASE Publish
  <2> DEFINE m == index - 1
             rest == PolicyEvent[last.violation] \o <<last.status>>
             name == last.name
  <2>1. /\ pc = "publish" /\ pc' \in {"begin", "returned"}
        /\ executions' = executions
        /\ m \in Nat /\ n = m + 1
        /\ last = executions[m + 1] /\ last \in Executions
    BY <1>10
    DEF Publish, resultVars, HistoryInv, Progress, TypeInv, TypeOK, Shape, Busy, n
  <2>2. Entry.name = name /\ name \in Names
    <3>1. index \in 1..n /\ last = executions[index] /\ Live
      BY <1>2, <2>1 DEF Live, Busy, TypeInv, TypeOK
    <3>2. executions[index].name = entries[index].name
      BY <3>1 DEF HistoryInv, StopsAtFirstFailure, n
    <3> QED
      BY <2>1, <3>1, <3>2 DEF Entry, Executions
  <2>3. events = told[m] \o StartedEvent(name)
    BY <1>1, <2>1, <2>2 DEF EventsTellHistory, Live, Busy, Settled, StartedEvent, n
  <2>4. events' = events \o Named(rest, name)
    BY <1>10, <2>2 DEF Publish, Emit, Named
  <2>5. told[m + 1] = told[m] \o Told(last)
    BY <2>1, TaleUnfolds DEF told
  <2>6. Told(last) = StartedEvent(name) \o Named(rest, name)
    BY <2>1, ToldInTwo
  <2>7. /\ told[m] \in Seq(Events)
        /\ StartedEvent(name) \in Seq(Events)
        /\ Named(rest, name) \in Seq(Events)
    <3>1. rest \in Seq(EventTypes)
      BY <2>1, ToldType
    <3>2. [type |-> "STARTED", name |-> name] \in Events
      BY <2>2 DEF Events, EventTypes
    <3>3. told[m] \in Seq(Events)
      BY <1>3, <2>1
    <3>4. StartedEvent(name) \in Seq(Events)
      BY <3>2 DEF StartedEvent
    <3> HIDE DEF rest, name
    <3>5. Named(rest, name) \in Seq(Events)
      BY <2>2, <3>1, NamedType
    <3> QED
      BY <3>3, <3>4, <3>5
  <2> HIDE DEF rest, name
  <2>8. events' = told[m + 1]
    <3> DEFINE a == told[m]
               b == StartedEvent(name)
               c == Named(rest, name)
    <3>1. events' = (a \o b) \o c /\ told[m + 1] = a \o (b \o c)
      BY <2>1, <2>3, <2>4, <2>5, <2>6
    <3>2. a \in Seq(Events) /\ b \in Seq(Events) /\ c \in Seq(Events)
      BY <2>7
    <3> HIDE DEF a, b, c
    <3> QED
      BY <3>1, <3>2, ConcatAssociative
  <2>9. told[m + 1] \in Seq(Events)
    BY <1>3, <2>1
  <2>10. events' = told[m + 1] \o <<>>
    BY <2>8, <2>9, ConcatEmptySeq
  <2>11. Settled' = m + 1 /\ told2 = told
    BY <2>1 DEF Settled, told, told2, n
  <2> QED
    BY <1>1, <2>1, <2>10, <2>11 DEF EventsTellHistory
<1>11. CASE Build \/ BeginClockInvalid \/ Interrupt
  BY <1>11 DEF Build, Add, BeginClockInvalid, Interrupt, Live, Busy
<1> QED
  BY <1>4, <1>5, <1>6, <1>7, <1>8, <1>9, <1>10, <1>11 DEF Next, Advance, Begin

\* The diagnostic sink is told exactly the history: each attempt's start, policy
\* and terminal events in order, with one start outstanding while it runs.
THEOREM EventsTellHistoryHolds == Spec => []EventsTellHistory
<1>1. Init => EventsTellHistory
  BY DEF Init, EventsTellHistory, Live, Busy
<1> QED
  BY <1>1, HistoryHolds, EventsStep, PTL DEF Spec
=============================================================================
