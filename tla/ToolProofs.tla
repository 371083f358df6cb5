----------------------------- MODULE ToolProofs -----------------------------
(***************************************************************************)
(* What TLAPS proves of the tool runner and the five adapters: a readiness  *)
(* check keeps its word, a report tells what happened, a cut falls exactly  *)
(* where the output was cut, and the least of the Nuclei records with one   *)
(* fingerprint survives, for any tools, lines, limits and candidates.       *)
(*                                                                          *)
(* The runner's invariant is inductive by itself. What an adapter answers   *)
(* is a function of the run that has ended: the loop of the parsers is      *)
(* shown to be well defined and, line by line, to make nothing up and to    *)
(* lose nothing; what is lost before the loop is followed by the lemmas on  *)
(* the lines of an output that was cut; and the answer, once given, stays.  *)
(***************************************************************************)
EXTENDS ToolAdapters, FiniteSetTheorems, WellFoundedInduction, TLAPS

-----------------------------------------------------------------------------
(* The invariant of the runner *)

\* Selection passes over candidate c as it is on disk.
Rejects(c) ==
  disk[c] \in {"unreadable", "absent"} \cup (IF tool \in Probed THEN {"other", "broken"} ELSE {})

Statuses == {"NONE", "SUCCESS", "FAILURE", "TIMEOUT", "NOT_FOUND", "ERROR", "RAISED"}

ResultType == [status : Statuses, exit : {-1, 0, 1}, units : Nat,
               truncated : BOOLEAN, timed_out : BOOLEAN]

\* Where the runner is says what there is: a program once it was started, a
\* result at the end, and output only from a program.
PlaceInv ==
  /\ result \in ResultType
  /\ pc \in {"idle", "locate", "probe", "start"} => program = "none" /\ result = NoResult
  /\ pc = "running" => program # "none" /\ result = NoResult
  /\ pc = "ended" => result.status # "NONE"
  /\ pc = "idle" => op = "none" /\ selected = 0
  /\ pc \in {"locate", "probe"} => candidate \in Names /\ op \in {"resolve", "run"} /\ selected = 0
  /\ pc = "probe" => tool \in Probed
  /\ pc = "start" => selected \in Names
  /\ program = "none" => written = 0 /\ out = <<>> /\ sink = "stdout"
  /\ tool # "whatweb" => sink = "stdout"
  /\ out # <<>> => written > Width * (Len(out) - 1)
  /\ result.units <= written /\ (sink = "file" => result.units = 0)

\* As long as nothing has changed, a candidate that was passed over would be
\* passed over again, and the one that was chosen would be chosen again.
SelectInv ==
  steady =>
    /\ pc \in {"locate", "probe"} => \A c \in 1..(candidate - 1) : Rejects(c)
    /\ resolution = "RESOLVED" => \E c \in Names : ~Rejects(c)
    /\ selected # 0 => ~Rejects(selected) /\ \A c \in 1..(selected - 1) : Rejects(c)
    /\ pc = "ended" /\ request = "valid" /\ result.status \in {"NOT_FOUND", "ERROR"} =>
         \/ \A c \in Names : Rejects(c)
         \/ result.status = "ERROR" /\ disk[selected] = "broken" /\ tool \notin Probed
    /\ program = "other" => tool \notin Probed

RunnerInv == RunnerTypeOK /\ PlaceInv /\ SelectInv /\ ResultIsHonest

\* The invariant keeps what the two properties of the runner say.
LEMMA RunnerInvImplies == RunnerInv => ReadyMeansRunnable /\ ResultIsHonest
<1> SUFFICES ASSUME RunnerInv, resolution = "RESOLVED", steady PROVE ReadyMeansRunnable
  BY DEF RunnerInv, ReadyMeansRunnable
<1>1. RunnerTypeOK /\ PlaceInv /\ SelectInv  BY DEF RunnerInv
<1>2. ~(\A c \in Names : Rejects(c))  BY <1>1 DEF SelectInv
<1>3. pc = "ended" /\ request = "valid" /\ result.status = "NOT_FOUND" => FALSE
  BY <1>1, <1>2 DEF SelectInv
<1>4. pc = "ended" /\ request = "valid" /\ result.status = "ERROR" =>
        disk[selected] = "broken" /\ tool \notin Probed
  BY <1>1, <1>2 DEF SelectInv
<1>5. program = "other" => tool \notin Probed  BY <1>1 DEF SelectInv
<1>6. selected # 0 => \A c \in 1..(selected - 1) :
        disk[c] \in {"unreadable", "absent"} \cup (IF tool \in Probed
                                                  THEN {"other", "broken"} ELSE {})
  BY <1>1 DEF SelectInv, Rejects
<1> QED  BY <1>3, <1>4, <1>5, <1>6 DEF ReadyMeansRunnable

LEMMA InitRunner == RunnerInit => RunnerInv
<1> SUFFICES ASSUME RunnerInit PROVE RunnerInv  OBVIOUS
<1> USE DEF RunnerInit, NoResult
<1>1. Candidates[tool] \in Nat \ {0}  BY ToolRunnerAssumption
<1>2. limits.changes \in Nat /\ limits.lines \in Nat  BY ToolRunnerAssumption
<1>3. RunnerTypeOK
  <2>1. out \in Seq(Lines[tool]) /\ Len(out) = 0 /\ written \in 0..Width * Len(out)
    BY DEF Width
  <2>2. /\ tool \in Tools /\ limits \in Limits /\ disk \in [Names -> Executables]
        /\ changes \in 0..limits.changes
    BY <1>2
  <2>3. candidate \in 0..Candidates[tool] /\ selected \in 0..Candidates[tool]  BY <1>1
  <2>4. /\ result.status = "NONE" /\ result.exit = -1 /\ result.units = 0
        /\ result.truncated = FALSE /\ result.timed_out = FALSE
    OBVIOUS
  <2>5. /\ op = "none" /\ pc = "idle" /\ request \in Requests /\ program = "none"
        /\ incompatible = FALSE /\ probeError = FALSE /\ steady = TRUE
        /\ resolution = "NONE" /\ sink = "stdout"
    BY DEF Requests
  <2> HIDE DEF RunnerInit, NoResult
  <2>6. Len(out) <= limits.lines  BY <1>2, <2>1
  <2>7. /\ op \in {"none", "resolve", "run"}
        /\ pc \in {"idle", "locate", "probe", "start", "running", "ended"}
        /\ incompatible \in BOOLEAN /\ probeError \in BOOLEAN /\ steady \in BOOLEAN
        /\ resolution \in {"NONE", "RESOLVED", "UNAVAILABLE", "INCOMPATIBLE", "ERROR"}
        /\ program \in {"none", "tool", "other"} /\ sink \in {"stdout", "file"}
    BY <2>5
  <2>8. /\ result.status \in {"NONE", "SUCCESS", "FAILURE", "TIMEOUT", "NOT_FOUND",
                              "ERROR", "RAISED"}
        /\ result.exit \in {-1, 0, 1} /\ result.units \in Nat
    BY <2>4
  <2>9. result.truncated \in BOOLEAN /\ result.timed_out \in BOOLEAN  BY <2>4, Zenon
  <2> QED  BY <2>1, <2>2, <2>3, <2>5, <2>6, <2>7, <2>8, <2>9, Zenon DEF RunnerTypeOK
<1>4. PlaceInv  BY DEF PlaceInv, ResultType, Statuses
<1>5. SelectInv  BY DEF SelectInv
<1>6. ResultIsHonest  BY DEF ResultIsHonest
<1> QED  BY <1>3, <1>4, <1>5, <1>6 DEF RunnerInv

-----------------------------------------------------------------------------
(* The selection *)

\* The results of an operation that started nothing.
LEMMA OperationalIs ==
  ASSUME NEW st \in {"NOT_FOUND", "ERROR", "RAISED"}
  PROVE  /\ Operational(st) \in ResultType
         /\ Operational(st).status = st /\ Operational(st).exit = -1
         /\ Operational(st).units = 0 /\ Operational(st).truncated = FALSE
         /\ Operational(st).timed_out = FALSE
BY DEF Operational, NoResult, ResultType, Statuses

\* What the variables are that no step of the selection touches.
Fixed == /\ UNCHANGED <<tool, limits, disk, changes, request>>
         /\ UNCHANGED procVars

\* The end of a selection keeps the invariant, if the verdict is right.
LEMMA SelectedKeeps ==
  ASSUME RunnerInv, pc \in {"locate", "probe"}, Fixed,
         NEW st \in {"RESOLVED", "UNAVAILABLE", "INCOMPATIBLE", "ERROR"},
         NEW c \in 0..Candidates[tool], Selected(st, c),
         steady' \in BOOLEAN, steady' => steady,
         st = "RESOLVED" => c \in Names,
         st = "RESOLVED" /\ steady' =>
           c # 0 /\ ~Rejects(c) /\ \A d \in 1..(c - 1) : Rejects(d),
         st # "RESOLVED" => c = 0,
         st # "RESOLVED" /\ steady' => \A d \in Names : Rejects(d)
  PROVE  RunnerInv'
<1>1. RunnerTypeOK /\ PlaceInv /\ SelectInv /\ ResultIsHonest  BY DEF RunnerInv
<1>2. /\ tool' = tool /\ limits' = limits /\ disk' = disk /\ changes' = changes
      /\ request' = request /\ program' = program /\ sink' = sink /\ out' = out
      /\ written' = written /\ Names' = Names /\ \A d : Rejects(d)' <=> Rejects(d)
  BY DEF Fixed, procVars, Names, Rejects
<1>3. program = "none" /\ result = NoResult /\ selected = 0 /\ op \in {"resolve", "run"}
  BY <1>1 DEF PlaceInv
<1>4. Candidates[tool] \in Nat \ {0}  BY <1>1, ToolRunnerAssumption DEF RunnerTypeOK
<1>5. candidate' = 0 /\ incompatible' = FALSE /\ probeError' = FALSE  BY DEF Selected
<1>6. CASE op = "resolve"
  <2>1. resolution' = st /\ pc' = "idle" /\ op' = "none" /\ selected' = 0 /\ result' = NoResult
    BY <1>3, <1>6 DEF Selected
  <2>2. RunnerTypeOK'  BY <1>1, <1>2, <1>3, <1>4, <1>5, <2>1 DEF RunnerTypeOK
  <2>3. PlaceInv'  BY <1>1, <1>2, <1>3, <2>1 DEF PlaceInv, NoResult
  <2>4. SelectInv'  BY <1>2, <1>3, <2>1 DEF SelectInv, NoResult
  <2>5. ResultIsHonest'  BY <2>1 DEF ResultIsHonest
  <2> QED  BY <2>2, <2>3, <2>4, <2>5 DEF RunnerInv
<1>7. CASE op = "run"
  <2>1. /\ selected' = c /\ op' = op /\ resolution' = resolution
        /\ pc' = IF st = "RESOLVED" THEN "start" ELSE "ended"
        /\ result' = CASE st = "RESOLVED"    -> result
                       [] st = "UNAVAILABLE" -> Operational("NOT_FOUND")
                       [] OTHER              -> Operational("ERROR")
    BY <1>7, Zenon DEF Selected
  <2>2. CASE st = "RESOLVED"
    <3>1. pc' = "start" /\ result' = NoResult  BY <1>3, <2>1, <2>2
    <3>2. RunnerTypeOK'  BY <1>1, <1>2, <1>3, <1>4, <1>5, <2>1, <3>1 DEF RunnerTypeOK
    <3>3. PlaceInv'  BY <1>1, <1>2, <1>3, <2>1, <2>2, <3>1 DEF PlaceInv, NoResult
    <3>4. SelectInv'  BY <1>1, <1>2, <1>3, <2>1, <2>2, <3>1 DEF SelectInv, NoResult
    <3>5. ResultIsHonest'  BY <3>1 DEF ResultIsHonest
    <3> QED  BY <3>2, <3>3, <3>4, <3>5 DEF RunnerInv
  <2>3. CASE st # "RESOLVED"
    <3>1. pc' = "ended" /\ \E s \in {"NOT_FOUND", "ERROR"} : result' = Operational(s)
      BY <2>1, <2>3
    <3>2. /\ result' \in ResultType /\ result'.status \in {"NOT_FOUND", "ERROR"}
          /\ result'.exit = -1 /\ result'.units = 0 /\ result'.truncated = FALSE
          /\ result'.timed_out = FALSE
      BY <3>1, OperationalIs
    <3>3. RunnerTypeOK'
      BY <1>1, <1>2, <1>3, <1>4, <1>5, <2>1, <3>1, <3>2
      DEF RunnerTypeOK, ResultType, Statuses
    <3>4. PlaceInv'  BY <1>1, <1>2, <1>3, <2>1, <3>1, <3>2 DEF PlaceInv
    <3>5. SelectInv'  BY <1>1, <1>2, <1>3, <2>1, <2>3, <3>1, <3>2 DEF SelectInv
    <3>6. ResultIsHonest'
      BY <1>2, <1>3, <3>1, <3>2 DEF ResultIsHonest, ResultIsValid
    <3> QED  BY <3>3, <3>4, <3>5, <3>6 DEF RunnerInv
  <2> QED  BY <2>2, <2>3
<1> QED  BY <1>3, <1>6, <1>7

\* So does going on to the next candidate, if this one was passed over.
LEMMA NextCandidateKeeps ==
  ASSUME RunnerInv, pc \in {"locate", "probe"}, Fixed,
         NEW inc \in BOOLEAN, NEW err \in BOOLEAN, NextCandidate(inc, err),
         steady' \in BOOLEAN, steady' => steady,
         steady' => Rejects(candidate)
  PROVE  RunnerInv'
<1>1. RunnerTypeOK /\ PlaceInv /\ SelectInv /\ ResultIsHonest  BY DEF RunnerInv
<1>2. /\ tool' = tool /\ limits' = limits /\ disk' = disk /\ changes' = changes
      /\ request' = request /\ program' = program /\ sink' = sink /\ out' = out
      /\ written' = written /\ Names' = Names /\ \A d : Rejects(d)' <=> Rejects(d)
  BY DEF Fixed, procVars, Names, Rejects
<1>3. /\ program = "none" /\ result = NoResult /\ selected = 0 /\ op \in {"resolve", "run"}
      /\ candidate \in Names /\ candidate \in Nat
  BY <1>1 DEF PlaceInv, RunnerTypeOK, Names
<1>4. Candidates[tool] \in Nat \ {0} /\ Names = 1..Candidates[tool]
  BY <1>1, ToolRunnerAssumption DEF RunnerTypeOK, Names
<1>5. steady' => \A d \in 1..candidate : Rejects(d)
  BY <1>1, <1>3 DEF SelectInv
<1>6. CASE candidate < Candidates[tool]
  <2>1. /\ candidate' = candidate + 1 /\ pc' = "locate" /\ op' = op /\ selected' = selected
        /\ resolution' = resolution /\ result' = result
        /\ incompatible' \in BOOLEAN /\ probeError' \in BOOLEAN
    BY <1>1, <1>6, Zenon DEF NextCandidate, RunnerTypeOK
  <2>2. RunnerTypeOK'  BY <1>1, <1>2, <1>3, <1>4, <1>6, <2>1 DEF RunnerTypeOK
  <2>3. PlaceInv'  BY <1>1, <1>2, <1>3, <1>4, <1>6, <2>1 DEF PlaceInv
  <2>4. SelectInv'  BY <1>1, <1>2, <1>3, <1>5, <2>1 DEF SelectInv
  <2>5. ResultIsHonest'  BY <2>1 DEF ResultIsHonest
  <2> QED  BY <2>2, <2>3, <2>4, <2>5 DEF RunnerInv
<1>7. CASE ~(candidate < Candidates[tool])
  <2> DEFINE st == CASE probeError \/ err -> "ERROR"
                     [] ~(probeError \/ err) /\ (incompatible \/ inc) -> "INCOMPATIBLE"
                     [] OTHER -> "UNAVAILABLE"
  <2>1. Selected(st, 0)  BY <1>7, Zenon DEF NextCandidate
  <2>2. st \in {"UNAVAILABLE", "INCOMPATIBLE", "ERROR"}  OBVIOUS
  <2>3. \A d \in Names : d \in 1..candidate  BY <1>3, <1>4, <1>7
  <2>4. steady' => \A d \in Names : Rejects(d)  BY <1>5, <2>3
  <2> HIDE DEF st
  <2>5. 0 \in 0..Candidates[tool]  BY <1>4
  <2> QED  BY <2>1, <2>2, <2>4, <2>5, SelectedKeeps
<1> QED  BY <1>6, <1>7

-----------------------------------------------------------------------------
(* The steps of the runner *)

\* The locals of this place in the code, as the type invariant gives them.
LEMMA RunnerFacts ==
  ASSUME RunnerInv
  PROVE  /\ RunnerTypeOK /\ PlaceInv /\ SelectInv /\ ResultIsHonest
         /\ Candidates[tool] \in Nat \ {0} /\ Names = 1..Candidates[tool]
         /\ limits.lines \in Nat /\ limits.changes \in Nat /\ limits.stdout \in Nat \ {0}
BY ToolRunnerAssumption DEF RunnerInv, RunnerTypeOK, Names

\* The types of all but the result, which is typed as a record.
RestType ==
  /\ tool \in Tools /\ limits \in Limits
  /\ disk \in [Names -> Executables] /\ changes \in 0..limits.changes
  /\ op \in {"none", "resolve", "run"}
  /\ pc \in {"idle", "locate", "probe", "start", "running", "ended"}
  /\ request \in Requests
  /\ candidate \in 0..Candidates[tool] /\ selected \in 0..Candidates[tool]
  /\ incompatible \in BOOLEAN /\ probeError \in BOOLEAN /\ steady \in BOOLEAN
  /\ resolution \in {"NONE", "RESOLVED", "UNAVAILABLE", "INCOMPATIBLE", "ERROR"}
  /\ program \in {"none", "tool", "other"} /\ sink \in {"stdout", "file"}
  /\ out \in Seq(Lines[tool]) /\ Len(out) <= limits.lines
  /\ written \in 0..Width * Len(out)

LEMMA TypeParts == RunnerTypeOK => RestType
BY Zenon DEF RunnerTypeOK, RestType

LEMMA TypeFromParts == ASSUME RestType', result' \in ResultType  PROVE RunnerTypeOK'
<1>1. /\ result'.status \in Statuses /\ result'.exit \in {-1, 0, 1} /\ result'.units \in Nat
  BY DEF ResultType
<1>2. result'.truncated \in BOOLEAN /\ result'.timed_out \in BOOLEAN  BY Zenon DEF ResultType
<1> QED  BY <1>1, <1>2, Zenon DEF RestType, RunnerTypeOK, Statuses

LEMMA ReplaceKeeps ==
  ASSUME RunnerInv, NEW c \in Names, Replace(c)  PROVE RunnerInv'
<1>1. /\ RunnerTypeOK /\ PlaceInv /\ SelectInv /\ ResultIsHonest
      /\ limits.changes \in Nat
  BY RunnerFacts
<1>2. PICK x \in Executables : disk' = [disk EXCEPT ![c] = x]  BY DEF Replace
<1>3. /\ tool' = tool /\ limits' = limits /\ pc' = pc /\ request' = request
      /\ result' = result /\ program' = program /\ sink' = sink /\ out' = out
      /\ written' = written /\ candidate' = candidate /\ selected' = selected
      /\ incompatible' = incompatible /\ probeError' = probeError
      /\ resolution' = resolution /\ op' = op /\ Names' = Names
      /\ steady' = FALSE /\ changes < limits.changes /\ changes' = changes + 1
  BY DEF Replace, selectVars, procVars, Names
<1>4. RunnerTypeOK'
  <2>1. disk' \in [Names' -> Executables']  BY <1>1, <1>2, <1>3 DEF RunnerTypeOK, Executables
  <2>2. changes' \in 0..limits'.changes  BY <1>1, <1>3 DEF RunnerTypeOK
  <2>3. RestType  BY <1>1, TypeParts
  <2>4. RestType'
    <3>1. /\ tool' \in Tools /\ limits' \in Limits /\ op' \in {"none", "resolve", "run"}
          /\ pc' \in {"idle", "locate", "probe", "start", "running", "ended"}
          /\ request' \in Requests
          /\ candidate' \in 0..Candidates[tool'] /\ selected' \in 0..Candidates[tool']
      BY <1>3, <2>3 DEF RestType
    <3>2. /\ incompatible' \in BOOLEAN /\ probeError' \in BOOLEAN /\ steady' \in BOOLEAN
      BY <1>3, <2>3, Zenon DEF RestType
    <3>3. /\ resolution' \in {"NONE", "RESOLVED", "UNAVAILABLE", "INCOMPATIBLE", "ERROR"}
          /\ program' \in {"none", "tool", "other"} /\ sink' \in {"stdout", "file"}
          /\ out' \in Seq(Lines[tool']) /\ Len(out') <= limits'.lines
          /\ written' \in 0..Width * Len(out')
      BY <1>3, <2>3, Zenon DEF RestType
    <3> QED  BY <2>1, <2>2, <3>1, <3>2, <3>3, Zenon DEF RestType
  <2>5. result' \in ResultType'  BY <1>1, <1>3 DEF PlaceInv, ResultType, Statuses
  <2> QED  BY <2>4, <2>5, TypeFromParts DEF ResultType, Statuses
<1>5. PlaceInv'  BY <1>1, <1>3 DEF PlaceInv
<1>6. SelectInv'  BY <1>3 DEF SelectInv
<1>7. ResultIsHonest'  BY <1>1, <1>3 DEF ResultIsHonest
<1> QED  BY <1>4, <1>5, <1>6, <1>7 DEF RunnerInv

LEMMA ResolveKeeps ==
  ASSUME RunnerInv, Resolve  PROVE RunnerInv'
<1>1. /\ RunnerTypeOK /\ PlaceInv /\ SelectInv /\ ResultIsHonest
      /\ Candidates[tool] \in Nat \ {0} /\ Names = 1..Candidates[tool]
  BY RunnerFacts
<1>2. /\ tool' = tool /\ limits' = limits /\ disk' = disk /\ changes' = changes
      /\ request' = request /\ result' = result /\ program' = program /\ sink' = sink
      /\ out' = out /\ written' = written /\ resolution' = resolution /\ Names' = Names
      /\ \A d : Rejects(d)' <=> Rejects(d)
      /\ op' = "resolve" /\ pc' = "locate" /\ candidate' = 1 /\ selected' = 0
      /\ incompatible' = FALSE /\ probeError' = FALSE /\ steady' = TRUE
      /\ pc = "idle" /\ resolution = "NONE"
  BY DEF Resolve, Select, procVars, Names, Rejects
<1>3. RunnerTypeOK'
  <2>1. RestType  BY <1>1, TypeParts
  <2>2. 0 \in 0..Candidates[tool] /\ 1 \in 0..Candidates[tool]  BY <1>1
  <2>4. RestType'  BY <1>2, <2>1, <2>2 DEF RestType
  <2>3. result' \in ResultType  BY <1>1, <1>2 DEF PlaceInv
  <2> QED  BY <2>4, <2>3, TypeFromParts
<1>4. PlaceInv'  BY <1>1, <1>2 DEF PlaceInv
<1>5. SelectInv'  BY <1>1, <1>2 DEF SelectInv, PlaceInv, NoResult
<1>6. ResultIsHonest'  BY <1>2 DEF ResultIsHonest
<1> QED  BY <1>3, <1>4, <1>5, <1>6 DEF RunnerInv

LEMMA RunKeeps ==
  ASSUME RunnerInv, Run  PROVE RunnerInv'
<1>1. /\ RunnerTypeOK /\ PlaceInv /\ SelectInv /\ ResultIsHonest
      /\ Candidates[tool] \in Nat \ {0} /\ Names = 1..Candidates[tool]
  BY RunnerFacts
<1>2. /\ tool' = tool /\ limits' = limits /\ disk' = disk /\ changes' = changes
      /\ program' = program /\ sink' = sink /\ out' = out /\ written' = written
      /\ Names' = Names /\ \A d : Rejects(d)' <=> Rejects(d)
      /\ pc = "idle" /\ steady' = steady /\ request' \in Requests
  BY DEF Run, procVars, Names, Rejects
<1>3. program = "none" /\ result = NoResult /\ selected = 0 /\ op = "none"
  BY <1>1, <1>2 DEF PlaceInv
<1>4. CASE request' = "invalid_cwd"
  <2>1. /\ pc' = "ended" /\ result' = Operational("ERROR") /\ op' = op
        /\ candidate' = candidate /\ incompatible' = incompatible
        /\ probeError' = probeError /\ selected' = selected /\ resolution' = resolution
    BY <1>4 DEF Run, selectVars
  <2>2. /\ result' \in ResultType /\ result'.status = "ERROR"
        /\ result'.exit = -1 /\ result'.units = 0 /\ result'.truncated = FALSE
        /\ result'.timed_out = FALSE
    BY <2>1, OperationalIs
  <2>3. RunnerTypeOK'  BY <1>1, <1>2, <2>1, <2>2 DEF RunnerTypeOK, ResultType, Statuses
  <2>4. PlaceInv'  BY <1>1, <1>2, <1>3, <2>1, <2>2 DEF PlaceInv
  <2>5. SelectInv'  BY <1>1, <1>2, <1>3, <1>4, <2>1 DEF SelectInv
  <2>6. ResultIsHonest'  BY <1>2, <1>3, <2>1, <2>2 DEF ResultIsHonest, ResultIsValid
  <2> QED  BY <2>3, <2>4, <2>5, <2>6 DEF RunnerInv
<1>5. CASE request' # "invalid_cwd"
  <2>1. /\ pc' = "locate" /\ op' = "run" /\ candidate' = 1 /\ selected' = 0
        /\ incompatible' = FALSE /\ probeError' = FALSE
        /\ resolution' = resolution /\ result' = result
    BY <1>5 DEF Run, Select
  <2>2. RunnerTypeOK'
    <3>1. RestType  BY <1>1, TypeParts
    <3>2. 0 \in 0..Candidates[tool] /\ 1 \in 0..Candidates[tool]  BY <1>1
    <3>4. RestType'  BY <1>2, <2>1, <3>1, <3>2 DEF RestType
    <3>3. result' \in ResultType  BY <1>1, <2>1 DEF PlaceInv
    <3> QED  BY <3>4, <3>3, TypeFromParts
  <2>3. PlaceInv'  BY <1>1, <1>2, <1>3, <2>1 DEF PlaceInv
  <2>4. SelectInv'  BY <1>1, <1>2, <1>3, <2>1 DEF SelectInv
  <2>5. ResultIsHonest'  BY <2>1 DEF ResultIsHonest
  <2> QED  BY <2>2, <2>3, <2>4, <2>5 DEF RunnerInv
<1> QED  BY <1>4, <1>5

LEMMA LocateKeeps ==
  ASSUME RunnerInv, Locate  PROVE RunnerInv'
<1>1. /\ RunnerTypeOK /\ PlaceInv /\ SelectInv /\ ResultIsHonest
      /\ Candidates[tool] \in Nat \ {0} /\ Names = 1..Candidates[tool]
  BY RunnerFacts
<1>2. Fixed /\ steady' = steady /\ pc = "locate" /\ steady' \in BOOLEAN
  BY <1>1, Zenon DEF Locate, Fixed, RunnerTypeOK
<1>3. candidate \in Names /\ candidate \in 1..Candidates[tool] /\ candidate \in 0..Candidates[tool]
  BY <1>1, <1>2 DEF PlaceInv
<1>4. disk[candidate] \in Executables  BY <1>1, <1>3 DEF RunnerTypeOK
<1>5. CASE disk[candidate] = "unreadable"
  <2>1. NextCandidate(FALSE, TRUE)
    <3>1. disk[candidate] # "absent" /\ disk[candidate] \in {"unreadable", "absent"}  BY <1>5
    <3> QED  BY <1>5, <3>1, Zenon DEF Locate
  <2>2. Rejects(candidate)  BY <1>5 DEF Rejects
  <2> QED  BY <1>2, <2>1, <2>2, NextCandidateKeeps
<1>6. CASE disk[candidate] = "absent"
  <2>1. NextCandidate(FALSE, FALSE)
    <3>1. disk[candidate] # "unreadable" /\ disk[candidate] \in {"unreadable", "absent"}  BY <1>6
    <3> QED  BY <1>6, <3>1, Zenon DEF Locate
  <2>2. Rejects(candidate)  BY <1>6 DEF Rejects
  <2> QED  BY <1>2, <2>1, <2>2, NextCandidateKeeps
<1>7. CASE disk[candidate] \notin {"unreadable", "absent"} /\ tool \notin Probed
  <2>1. disk[candidate] # "unreadable" /\ disk[candidate] # "absent"  BY <1>7
  <2>2. Selected("RESOLVED", candidate)  BY <1>7, <2>1, Zenon DEF Locate, Accept
  <2>3. ~Rejects(candidate)  BY <1>7 DEF Rejects
  <2>4. steady' => candidate # 0 /\ ~Rejects(candidate) /\ \A d \in 1..(candidate - 1) : Rejects(d)
    BY <1>1, <1>2, <1>3, <2>3 DEF SelectInv
  <2> QED  BY <1>2, <1>3, <2>2, <2>4, SelectedKeeps
<1>8. CASE disk[candidate] \notin {"unreadable", "absent"} /\ tool \in Probed
  <2>1. disk[candidate] # "unreadable" /\ disk[candidate] # "absent"  BY <1>8
  <2>2. pc' = "probe" /\ UNCHANGED <<selectVars, result>>
    BY <1>8, <2>1, Zenon DEF Locate
  <2>3. /\ tool' = tool /\ limits' = limits /\ disk' = disk /\ changes' = changes
        /\ request' = request /\ result' = result /\ program' = program /\ sink' = sink
        /\ out' = out /\ written' = written /\ resolution' = resolution /\ Names' = Names
        /\ \A d : Rejects(d)' <=> Rejects(d)
        /\ op' = op /\ candidate' = candidate /\ selected' = selected
        /\ incompatible' = incompatible /\ probeError' = probeError
    BY <1>2, <2>2 DEF Fixed, procVars, selectVars, Names, Rejects
  <2>4. RunnerTypeOK'  BY <1>1, <1>2, <2>2, <2>3 DEF RunnerTypeOK
  <2>5. PlaceInv'  BY <1>1, <1>2, <1>8, <2>2, <2>3 DEF PlaceInv
  <2>6. SelectInv'  BY <1>1, <1>2, <2>2, <2>3 DEF SelectInv, PlaceInv
  <2>7. ResultIsHonest'  BY <2>2 DEF ResultIsHonest
  <2> QED  BY <2>4, <2>5, <2>6, <2>7 DEF RunnerInv
<1> QED  BY <1>5, <1>6, <1>7, <1>8

LEMMA ProbeAnswersKeeps ==
  ASSUME RunnerInv, ProbeAnswers  PROVE RunnerInv'
<1>1. /\ RunnerTypeOK /\ PlaceInv /\ SelectInv /\ ResultIsHonest
      /\ Candidates[tool] \in Nat \ {0} /\ Names = 1..Candidates[tool]
  BY RunnerFacts
<1>2. Fixed /\ steady' = steady /\ pc = "probe" /\ steady' \in BOOLEAN
  BY <1>1, Zenon DEF ProbeAnswers, Fixed, RunnerTypeOK
<1>3. candidate \in Names /\ candidate \in 1..Candidates[tool] /\ candidate \in 0..Candidates[tool]
      /\ tool \in Probed
  BY <1>1, <1>2 DEF PlaceInv
<1>4. disk[candidate] \in Executables  BY <1>1, <1>3 DEF RunnerTypeOK
<1>5. CASE disk[candidate] = "tool"
  <2>1. Selected("RESOLVED", candidate)  BY <1>5, Zenon DEF ProbeAnswers, Accept
  <2>2. ~Rejects(candidate)  BY <1>5 DEF Rejects
  <2>3. steady' => candidate # 0 /\ ~Rejects(candidate) /\ \A d \in 1..(candidate - 1) : Rejects(d)
    BY <1>1, <1>2, <1>3, <2>2 DEF SelectInv
  <2> QED  BY <1>2, <1>3, <2>1, <2>3, SelectedKeeps
<1>6. CASE disk[candidate] = "other"
  <2>1. NextCandidate(TRUE, FALSE)
    <3>1. disk[candidate] # "tool"  BY <1>6
    <3> QED  BY <1>6, <3>1, Zenon DEF ProbeAnswers
  <2>2. Rejects(candidate)  BY <1>3, <1>6 DEF Rejects
  <2> QED  BY <1>2, <2>1, <2>2, NextCandidateKeeps
<1>7. CASE disk[candidate] \notin {"tool", "other"}
  <2>1. disk[candidate] # "tool" /\ disk[candidate] # "other"  BY <1>7
  <2>2. NextCandidate(FALSE, TRUE)  BY <2>1, Zenon DEF ProbeAnswers
  <2>3. Rejects(candidate)  BY <1>3, <1>4, <1>7 DEF Rejects, Executables
  <2> QED  BY <1>2, <2>2, <2>3, NextCandidateKeeps
<1> QED  BY <1>5, <1>6, <1>7

LEMMA ProbeTimesOutKeeps ==
  ASSUME RunnerInv, ProbeTimesOut  PROVE RunnerInv'
<1>1. Fixed /\ steady' = FALSE /\ pc = "probe" /\ NextCandidate(FALSE, TRUE)
  BY Zenon DEF ProbeTimesOut, Fixed
<1>2. FALSE \in BOOLEAN /\ TRUE \in BOOLEAN  OBVIOUS
<1> QED  BY <1>1, <1>2, NextCandidateKeeps

LEMMA StartKeeps ==
  ASSUME RunnerInv, Start  PROVE RunnerInv'
<1>1. /\ RunnerTypeOK /\ PlaceInv /\ SelectInv /\ ResultIsHonest
      /\ Candidates[tool] \in Nat \ {0} /\ Names = 1..Candidates[tool]
  BY RunnerFacts
<1>2. /\ tool' = tool /\ limits' = limits /\ disk' = disk /\ changes' = changes
      /\ request' = request /\ out' = out /\ written' = written
      /\ Names' = Names /\ \A d : Rejects(d)' <=> Rejects(d)
      /\ resolution' = resolution /\ op' = op /\ candidate' = candidate
      /\ selected' = selected /\ incompatible' = incompatible
      /\ probeError' = probeError /\ steady' = steady /\ pc = "start"
  BY DEF Start, selectVars, Names, Rejects
<1>3. /\ program = "none" /\ result = NoResult /\ selected \in Names
      /\ written = 0 /\ out = <<>> /\ sink = "stdout" /\ disk[selected] \in Executables
  BY <1>1, <1>2 DEF PlaceInv, RunnerTypeOK
<1>4. steady => ~Rejects(selected) /\ \A c \in 1..(selected - 1) : Rejects(c)
  BY <1>1, <1>2, <1>3 DEF SelectInv
<1>5. CASE request = "valid" /\ disk[selected] \in {"tool", "other"}
  <2>1. /\ program' = disk[selected] /\ pc' = "running" /\ result' = result
        /\ sink' \in {"file", "stdout"} /\ (tool # "whatweb" => sink' = "stdout")
    BY <1>5 DEF Start
  <2>2. RunnerTypeOK'  BY <1>1, <1>2, <1>5, <2>1 DEF RunnerTypeOK
  <2>3. PlaceInv'  BY <1>1, <1>2, <1>3, <1>5, <2>1 DEF PlaceInv, NoResult
  <2>4. SelectInv'
    <3>1. steady' /\ program' = "other" => tool \notin Probed
      BY <1>2, <1>4, <2>1 DEF Rejects
    <3> QED  BY <1>1, <1>2, <1>4, <2>1, <3>1 DEF SelectInv
  <2>5. ResultIsHonest'  BY <2>1 DEF ResultIsHonest
  <2> QED  BY <2>2, <2>3, <2>4, <2>5 DEF RunnerInv
<1>6. CASE ~(request = "valid" /\ disk[selected] \in {"tool", "other"})
  <2>1. /\ pc' = "ended" /\ program' = program /\ sink' = sink
        /\ result' = CASE request = "invalid_stdin" -> Operational("ERROR")
                       [] request = "raises"        -> Operational("RAISED")
                       [] request = "valid" /\ disk[selected] = "absent" ->
                            Operational("NOT_FOUND")
                       [] OTHER                     -> Operational("ERROR")
    BY <1>6, Zenon DEF Start
  <2>2. \E s \in {"NOT_FOUND", "ERROR", "RAISED"} : result' = Operational(s)  BY <2>1
  <2>3. /\ result' \in ResultType /\ result'.status \in {"NOT_FOUND", "ERROR", "RAISED"}
        /\ result'.exit = -1 /\ result'.units = 0 /\ result'.truncated = FALSE
        /\ result'.timed_out = FALSE
    BY <2>2, OperationalIs
  <2>4. RunnerTypeOK'  BY <1>1, <1>2, <2>1, <2>3 DEF RunnerTypeOK, ResultType, Statuses
  <2>5. PlaceInv'  BY <1>1, <1>2, <1>3, <2>1, <2>3 DEF PlaceInv
  <2>6. SelectInv'
    <3>1. steady' /\ request' = "valid" /\ result'.status \in {"NOT_FOUND", "ERROR"} =>
            result'.status = "ERROR" /\ disk'[selected'] = "broken" /\ tool' \notin Probed
      <4> SUFFICES ASSUME steady', request' = "valid"
                   PROVE  result'.status = "ERROR" /\ disk'[selected'] = "broken" /\ tool' \notin Probed
        OBVIOUS
      <4>1. disk[selected] = "broken" /\ tool \notin Probed
        BY <1>2, <1>3, <1>4, <1>6 DEF Rejects, Executables
      <4>2. result' = Operational("ERROR")  BY <1>2, <2>1, <4>1
      <4> QED  BY <1>2, <4>1, <4>2, OperationalIs
    <3> QED  BY <1>1, <1>2, <1>3, <1>4, <2>1, <3>1 DEF SelectInv
  <2>7. ResultIsHonest'  BY <1>2, <1>3, <2>1, <2>3 DEF ResultIsHonest, ResultIsValid
  <2> QED  BY <2>4, <2>5, <2>6, <2>7 DEF RunnerInv
<1> QED  BY <1>5, <1>6

LEMMA WriteLineKeeps ==
  ASSUME RunnerInv, WriteLine  PROVE RunnerInv'
<1>1. /\ RunnerTypeOK /\ PlaceInv /\ SelectInv /\ ResultIsHonest /\ limits.lines \in Nat
      /\ RestType
  BY RunnerFacts, TypeParts
<1>2. /\ tool' = tool /\ limits' = limits /\ disk' = disk /\ changes' = changes
      /\ request' = request /\ pc' = pc /\ result' = result /\ program' = program
      /\ sink' = sink /\ Names' = Names /\ (\A d : Rejects(d)' <=> Rejects(d))
      /\ resolution' = resolution /\ op' = op /\ candidate' = candidate
      /\ selected' = selected /\ incompatible' = incompatible
      /\ probeError' = probeError /\ steady' = steady
      /\ pc = "running" /\ Len(out) < limits.lines /\ written = Width * Len(out)
      /\ written' = written + 1
  BY DEF WriteLine, selectVars, Names, Rejects
<1>3. PICK l \in Lines[tool] : out' = Append(out, l)  BY DEF WriteLine
<1>4. out \in Seq(Lines[tool]) /\ Len(out) \in Nat  BY <1>1 DEF RestType
<1>5. out' \in Seq(Lines[tool]) /\ Len(out') = Len(out) + 1 /\ out' # <<>>
  BY <1>3, <1>4
<1>6. written' \in 0..Width * Len(out') /\ Len(out') <= limits.lines
  BY <1>1, <1>2, <1>4, <1>5 DEF Width
<1>7. RestType'  BY <1>1, <1>2, <1>5, <1>6 DEF RestType
<1>8. RunnerTypeOK'
  <2>1. result' \in ResultType  BY <1>1, <1>2 DEF PlaceInv
  <2> QED  BY <1>7, <2>1, TypeFromParts
<1>9. PlaceInv'
  <2>1. program # "none" /\ result = NoResult /\ result \in ResultType  BY <1>1, <1>2 DEF PlaceInv
  <2>2. written' > Width * (Len(out') - 1)  BY <1>2, <1>4, <1>5 DEF Width
  <2>3. result'.units <= written' /\ (sink' = "file" => result'.units = 0)
    BY <1>2, <1>4, <2>1 DEF NoResult, Width
  <2> QED  BY <1>1, <1>2, <2>1, <2>2, <2>3 DEF PlaceInv
<1>10. SelectInv'  BY <1>1, <1>2 DEF SelectInv
<1>11. ResultIsHonest'  BY <1>2 DEF ResultIsHonest
<1> QED  BY <1>8, <1>9, <1>10, <1>11 DEF RunnerInv

LEMMA WriteOnKeeps ==
  ASSUME RunnerInv, WriteOn  PROVE RunnerInv'
<1>1. /\ RunnerTypeOK /\ PlaceInv /\ SelectInv /\ ResultIsHonest
      /\ RestType
  BY RunnerFacts, TypeParts
<1>2. /\ tool' = tool /\ limits' = limits /\ disk' = disk /\ changes' = changes
      /\ request' = request /\ pc' = pc /\ result' = result /\ program' = program
      /\ sink' = sink /\ Names' = Names /\ (\A d : Rejects(d)' <=> Rejects(d))
      /\ resolution' = resolution /\ op' = op /\ candidate' = candidate
      /\ selected' = selected /\ incompatible' = incompatible
      /\ probeError' = probeError /\ steady' = steady /\ out' = out
      /\ pc = "running" /\ written < Width * Len(out) /\ written' = written + 1
  BY DEF WriteOn, selectVars, Names, Rejects
<1>3. Len(out) \in Nat /\ written \in Nat  BY <1>1 DEF RestType
<1>4. written' \in 0..Width * Len(out)  BY <1>2, <1>3 DEF Width
<1>5. RestType'  BY <1>1, <1>2, <1>4 DEF RestType
<1>6. RunnerTypeOK'
  <2>1. result' \in ResultType  BY <1>1, <1>2 DEF PlaceInv
  <2> QED  BY <1>5, <2>1, TypeFromParts
<1>7. PlaceInv'
  <2>1. program # "none" /\ result = NoResult /\ result \in ResultType  BY <1>1, <1>2 DEF PlaceInv
  <2>2. out' # <<>> => written' > Width * (Len(out') - 1)  BY <1>1, <1>2, <1>3 DEF Width, PlaceInv
  <2>3. result'.units <= written' /\ (sink' = "file" => result'.units = 0)
    BY <1>2, <1>3, <2>1 DEF NoResult
  <2> QED  BY <1>1, <1>2, <2>1, <2>2, <2>3 DEF PlaceInv
<1>8. SelectInv'  BY <1>1, <1>2 DEF SelectInv
<1>9. ResultIsHonest'  BY <1>2 DEF ResultIsHonest
<1> QED  BY <1>6, <1>7, <1>8, <1>9 DEF RunnerInv

\* What run makes of a program that has ended: the leading units of what went
\* to its standard output, and a word about those that are missing.
LEMMA CompletedIs ==
  ASSUME RunnerInv, NEW st \in {"SUCCESS", "FAILURE", "TIMEOUT"}, NEW code \in {-1, 0, 1},
         NEW noisy \in BOOLEAN, NEW r, r = Completed(st, code, noisy)
  PROVE  /\ r \in ResultType /\ r.status = st /\ r.exit = code
         /\ r.timed_out <=> st = "TIMEOUT"
         /\ sink = "file" => r.units = 0
         /\ sink = "stdout" => r.units = written \/ (r.truncated /\ r.units < written)
         /\ r.units <= written
<1> DEFINE n == IF sink = "stdout" THEN written ELSE 0
           units == IF n > limits.stdout THEN limits.stdout ELSE n
           cut == n > limits.stdout
<1>1. limits.stdout \in Nat \ {0} /\ written \in Nat /\ sink \in {"stdout", "file"}
      /\ Len(out) \in Nat
  <2>1. RunnerTypeOK /\ limits.stdout \in Nat \ {0}  BY RunnerFacts
  <2> QED  BY <2>1 DEF RunnerTypeOK
<1>2. units \in Nat /\ units <= n /\ n <= written /\ (cut <=> units < n) /\ (~cut <=> units = n)
  BY <1>1
<1>3. r =
        [status |-> st, exit |-> code, units |-> units, truncated |-> cut \/ noisy,
         timed_out |-> st = "TIMEOUT"]
  BY DEF Completed, BoundedDecode
<1>4. /\ r.status = st /\ r.exit = code /\ r.units = units
      /\ r.truncated = (cut \/ noisy) /\ r.timed_out = (st = "TIMEOUT")
  BY <1>3
<1>5. r \in ResultType
  <2>1. (cut \/ noisy) \in BOOLEAN /\ (st = "TIMEOUT") \in BOOLEAN  BY Zenon
  <2>2. st \in Statuses  BY DEF Statuses
  <2>3. ASSUME NEW b \in BOOLEAN, NEW d \in BOOLEAN, NEW k \in Nat
        PROVE  [status |-> st, exit |-> code, units |-> k, truncated |-> b, timed_out |-> d]
                 \in ResultType
    BY <2>2 DEF ResultType
  <2> HIDE DEF cut, units, n
  <2>4. r = [status |-> st, exit |-> code, units |-> units, truncated |-> cut \/ noisy,
             timed_out |-> st = "TIMEOUT"]
    BY <1>3
  <2>5. units \in Nat  BY <1>2
  <2> QED  BY <2>1, <2>3, <2>4, <2>5, Zenon
<1>6. sink = "file" => n = 0  BY <1>1
<1>7. sink = "stdout" => n = written  BY <1>1
<1>8. cut => r.truncated  BY <1>4, Zenon
<1> HIDE DEF cut, units, n
<1>9. sink = "file" => r.units = 0  BY <1>1, <1>2, <1>4, <1>6
<1>10. sink = "stdout" => r.units = written \/ (r.truncated /\ r.units < written)
  BY <1>1, <1>2, <1>4, <1>7, <1>8
<1>11. r.units <= written  BY <1>1, <1>2, <1>4, <1>6, <1>7
<1>12. r.timed_out <=> st = "TIMEOUT"  BY <1>4, Zenon
<1> QED  BY <1>4, <1>5, <1>9, <1>10, <1>11, <1>12, Zenon

\* The end of a program, however it comes.
LEMMA CompletedKeeps ==
  ASSUME RunnerInv, pc = "running", Fixed, UNCHANGED selectVars, steady' = steady, pc' = "ended",
         NEW st \in {"SUCCESS", "FAILURE", "TIMEOUT"}, NEW code \in {-1, 0, 1},
         NEW noisy \in BOOLEAN, result' = Completed(st, code, noisy),
         st = "SUCCESS" => code = 0, st = "FAILURE" => code = 1, st = "TIMEOUT" => code = -1
  PROVE  RunnerInv'
<1>1. /\ RunnerTypeOK /\ PlaceInv /\ SelectInv /\ ResultIsHonest /\ RestType
  BY RunnerFacts, TypeParts
<1>2. /\ tool' = tool /\ limits' = limits /\ disk' = disk /\ changes' = changes
      /\ request' = request /\ program' = program /\ out' = out /\ written' = written
      /\ sink' = sink /\ Names' = Names /\ (\A d : Rejects(d)' <=> Rejects(d))
      /\ resolution' = resolution /\ op' = op /\ candidate' = candidate
      /\ selected' = selected /\ incompatible' = incompatible
      /\ probeError' = probeError
  BY DEF Fixed, procVars, selectVars, Names, Rejects
<1> DEFINE r == result'
<1>12. /\ r \in ResultType /\ r.status = st /\ r.exit = code
       /\ r.timed_out <=> st = "TIMEOUT"
       /\ sink = "file" => r.units = 0
       /\ sink = "stdout" => r.units = written \/ (r.truncated /\ r.units < written)
       /\ r.units <= written
  <2>1. r = Completed(st, code, noisy)  OBVIOUS
  <2> HIDE DEF r
  <2> QED  BY <2>1, CompletedIs
<1>3. /\ result' \in ResultType /\ result'.status = st /\ result'.exit = code
      /\ sink = "file" => result'.units = 0
      /\ sink = "stdout" => result'.units = written \/ (result'.truncated /\ result'.units < written)
      /\ result'.units <= written
  BY <1>12
<1>4. result'.timed_out <=> st = "TIMEOUT"  BY <1>12, Zenon
<1>5. program # "none"  BY <1>1 DEF PlaceInv
<1>6. RunnerTypeOK'
  <2>1. RestType'  BY <1>1, <1>2 DEF RestType
  <2> QED  BY <1>3, <2>1, TypeFromParts
<1>7. PlaceInv'  BY <1>1, <1>2, <1>3, <1>5 DEF PlaceInv
<1>8. SelectInv'  BY <1>1, <1>2, <1>3 DEF SelectInv
<1>9. ResultIsHonest'
  <2>1. /\ result'.status = "SUCCESS" => result'.exit = 0
        /\ result'.status = "FAILURE" => result'.exit \notin {-1, 0}
        /\ result'.status \in {"TIMEOUT", "NOT_FOUND"} => result'.exit = -1
    BY <1>3
  <2>3. result'.timed_out <=> result'.status = "TIMEOUT"  BY <1>3, <1>4, Zenon
  <2>4. ResultIsValid(result')  BY <2>1, <2>3, Zenon DEF ResultIsValid
  <2> QED  BY <1>2, <1>3, <1>5, <2>4 DEF ResultIsHonest
<1> QED  BY <1>6, <1>7, <1>8, <1>9 DEF RunnerInv

LEMMA ExitKeeps ==
  ASSUME RunnerInv, Exit  PROVE RunnerInv'
<1>1. PICK code \in {0, 1}, noisy \in BOOLEAN :
        result' = Completed(IF code = 0 THEN "SUCCESS" ELSE "FAILURE", code, noisy)
  BY Zenon DEF Exit
<1>2. pc = "running" /\ Fixed /\ UNCHANGED selectVars /\ steady' = steady /\ pc' = "ended"
  BY Zenon DEF Exit, Fixed
<1>3. CASE code = 0
  <2>1. result' = Completed("SUCCESS", 0, noisy)  BY <1>1, <1>3
  <2> QED  BY <1>2, <2>1, CompletedKeeps
<1>4. CASE code = 1
  <2>1. result' = Completed("FAILURE", 1, noisy)  BY <1>1, <1>4
  <2> QED  BY <1>2, <2>1, CompletedKeeps
<1> QED  BY <1>3, <1>4

LEMMA TimeoutKeeps ==
  ASSUME RunnerInv, Timeout  PROVE RunnerInv'
<1>1. PICK noisy \in BOOLEAN : result' = Completed("TIMEOUT", -1, noisy)  BY Zenon DEF Timeout
<1>2. pc = "running" /\ Fixed /\ UNCHANGED selectVars /\ steady' = steady /\ pc' = "ended"
  BY Zenon DEF Timeout, Fixed
<1> QED  BY <1>1, <1>2, CompletedKeeps

LEMMA RunnerStutters == ASSUME RunnerInv, UNCHANGED runnerVars  PROVE RunnerInv'
<1>1. /\ RunnerTypeOK /\ PlaceInv /\ SelectInv /\ ResultIsHonest /\ RestType
  BY RunnerFacts, TypeParts
<1>2. /\ tool' = tool /\ limits' = limits /\ disk' = disk /\ changes' = changes
      /\ request' = request /\ program' = program /\ out' = out /\ written' = written
      /\ sink' = sink /\ Names' = Names /\ (\A d : Rejects(d)' <=> Rejects(d))
      /\ resolution' = resolution /\ op' = op /\ candidate' = candidate
      /\ selected' = selected /\ incompatible' = incompatible
      /\ probeError' = probeError /\ result' = result /\ pc' = pc /\ steady' = steady
  BY DEF runnerVars, procVars, selectVars, Names, Rejects
<1>3. RunnerTypeOK'
  <2>1. RestType'  BY <1>1, <1>2 DEF RestType
  <2>2. result' \in ResultType  BY <1>1, <1>2 DEF PlaceInv
  <2> QED  BY <2>1, <2>2, TypeFromParts
<1>4. PlaceInv'  BY <1>1, <1>2 DEF PlaceInv
<1>5. SelectInv'  BY <1>1, <1>2 DEF SelectInv
<1>6. ResultIsHonest'  BY <1>1, <1>2 DEF ResultIsHonest
<1> QED  BY <1>3, <1>4, <1>5, <1>6 DEF RunnerInv

LEMMA CallKeepsRunner ==
  ASSUME RunnerInv, targets \in {"some", "none", "invalid"}, Call  PROVE RunnerInv'
<1>1. Run \/ UNCHANGED runnerVars
  <2>1. CASE targets = "invalid"  BY <2>1 DEF Call
  <2>2. CASE targets = "none"  BY <2>2 DEF Call
  <2>3. CASE targets = "some"  BY <2>3 DEF Call
  <2> QED  BY <2>1, <2>2, <2>3
<1> QED  BY <1>1, RunKeeps, RunnerStutters

LEMMA RunnerKeeps ==
  ASSUME RunnerInv, targets \in {"some", "none", "invalid"}, [Next]_vars  PROVE RunnerInv'
<1>1. CASE Call  BY <1>1, CallKeepsRunner
<1>2. CASE MapResult  BY <1>2, RunnerStutters DEF MapResult, Answer
<1>3. CASE Resolve  BY <1>3, ResolveKeeps
<1>4. CASE RunnerStep
  BY <1>4, LocateKeeps, ProbeAnswersKeeps, ProbeTimesOutKeeps, StartKeeps DEF RunnerStep
<1>5. CASE ProgramStep  BY <1>5, WriteLineKeeps, WriteOnKeeps, ExitKeeps DEF ProgramStep
<1>6. CASE Timeout  BY <1>6, TimeoutKeeps
<1>7. CASE Environment  BY <1>7, ReplaceKeeps DEF Environment
<1>8. CASE UNCHANGED vars  BY <1>8, RunnerStutters DEF vars
<1> QED  BY <1>1, <1>2, <1>3, <1>4, <1>5, <1>6, <1>7, <1>8 DEF Next

-----------------------------------------------------------------------------
(* The loop of the parsers *)

\* A set of numbers that holds zero, and with each number below N the next,
\* holds the numbers up to N.
LEMMA Climb ==
  ASSUME NEW N \in Nat, NEW T, 0 \in T, \A n \in 0..N : n \in T /\ n < N => n + 1 \in T
  PROVE  \A n \in 0..N : n \in T
<1> DEFINE B == {n \in 0..N : n \notin T}
<1> SUFFICES ASSUME B # {} PROVE FALSE  OBVIOUS
<1>1. \A x, y \in Nat : y < x => <<y, x>> \in OpToRel(<, Nat)  BY DEF OpToRel
<1>2. \E R : /\ IsWellFoundedOn(R, Nat)
             /\ \A x, y \in Nat : y < x => <<y, x>> \in R
  BY <1>1, NatLessThanWellFounded, Zenon
<1>3. PICK R : /\ IsWellFoundedOn(R, Nat)
               /\ \A x, y \in Nat : y < x => <<y, x>> \in R
  BY <1>2
<1>4. B \subseteq Nat  OBVIOUS
<1>5. PICK x \in B : \A y \in B : ~(<<y, x>> \in R)
  <2> HIDE DEF B
  <2> QED  BY <1>3, <1>4, WFMin
<1>6. x \in 0..N /\ x \notin T /\ x # 0  OBVIOUS
<1>7. x - 1 \in 0..N /\ x - 1 < x /\ x - 1 < N /\ (x - 1) + 1 = x  BY <1>6
<1>8. x - 1 \notin T  BY <1>6, <1>7
<1>9. x - 1 \in B  BY <1>7, <1>8
<1>10. x \in Nat /\ x - 1 \in Nat  BY <1>6, <1>7
<1>11. <<x - 1, x>> \in R  BY <1>3, <1>7, <1>10
<1> QED  BY <1>5, <1>9, <1>11

\* What the parsers have counted and stored after so many lines.
Start0(d) == [Empty("NONE") EXCEPT !.malformed = d]

IsReading(f, lines, d, n) ==
  /\ f[0] = Start0(d)
  /\ \A k \in 1..n : f[k] = Sift(f[k - 1], lines[k])

\* A parser is a loop over the lines: its recursion is well defined.
LEMMA ReadingExists ==
  ASSUME NEW lines, NEW d, NEW N \in Nat
  PROVE  \E f : f = [k \in 0..N |-> f[k]] /\ IsReading(f, lines, d, N)
<1> DEFINE T == {n \in 0..N : \E f : f = [k \in 0..n |-> f[k]] /\ IsReading(f, lines, d, n)}
<1>1. 0 \in T
  <2> DEFINE f == [k \in 0..0 |-> Start0(d)]
  <2>1. f = [k \in 0..0 |-> f[k]] /\ IsReading(f, lines, d, 0)  BY DEF IsReading
  <2> HIDE DEF f
  <2> QED  BY <2>1
<1>2. ASSUME NEW n \in 0..N, n \in T, n < N  PROVE n + 1 \in T
  <2>1. PICK f : f = [k \in 0..n |-> f[k]] /\ IsReading(f, lines, d, n)  BY <1>2
  <2> DEFINE g == [k \in 0..(n + 1) |-> IF k <= n THEN f[k] ELSE Sift(f[n], lines[n + 1])]
  <2>2. g = [k \in 0..(n + 1) |-> g[k]] /\ g[n + 1] = Sift(f[n], lines[n + 1])
        /\ \A k \in 0..n : g[k] = f[k]
    OBVIOUS
  <2> HIDE DEF g
  <2>3. g[0] = Start0(d)
    <3>1. 0 \in 0..n  OBVIOUS
    <3> QED  BY <2>1, <2>2, <3>1 DEF IsReading
  <2>4. ASSUME NEW k \in 1..(n + 1)  PROVE g[k] = Sift(g[k - 1], lines[k])
    <3>1. CASE k = n + 1
      <4>1. k - 1 = n /\ n \in 0..n  BY <3>1
      <4> QED  BY <2>2, <3>1, <4>1
    <3>2. CASE k # n + 1
      <4>1. k \in 1..n /\ k \in 0..n /\ k - 1 \in 0..n  BY <3>2
      <4>2. f[k] = Sift(f[k - 1], lines[k])  BY <2>1, <4>1 DEF IsReading
      <4> QED  BY <2>2, <4>1, <4>2
    <3> QED  BY <3>1, <3>2
  <2>5. IsReading(g, lines, d, n + 1)  BY <2>3, <2>4 DEF IsReading
  <2> QED  BY <1>2, <2>2, <2>5
<1> HIDE DEF T
<1>3. N \in T  BY <1>1, <1>2, Climb
<1> QED  BY <1>3 DEF T

LEMMA ParseIsReading ==
  ASSUME NEW lines, NEW d, Len(lines) \in Nat
  PROVE  \E f : IsReading(f, lines, d, Len(lines)) /\ Parse(lines, d) = f[Len(lines)]
<1> DEFINE F(f) == [n \in 0..Len(lines) |->
                     IF n = 0 THEN [Empty("NONE") EXCEPT !.malformed = d]
                     ELSE Sift(f[n - 1], lines[n])]
           upTo == CHOOSE f : f = F(f)
<1>1. \E f : f = F(f)
  <2>1. PICK f : f = [k \in 0..Len(lines) |-> f[k]] /\ IsReading(f, lines, d, Len(lines))
    BY ReadingExists
  <2>2. \A n \in 0..Len(lines) : f[n] = F(f)[n]
    <3> SUFFICES ASSUME NEW n \in 0..Len(lines)
                 PROVE  f[n] = IF n = 0 THEN [Empty("NONE") EXCEPT !.malformed = d]
                               ELSE Sift(f[n - 1], lines[n])
      OBVIOUS
    <3>1. CASE n = 0  BY <2>1, <3>1 DEF IsReading, Start0
    <3>2. CASE n # 0
      <4>1. n \in 1..Len(lines)  BY <3>2
      <4> QED  BY <2>1, <3>2, <4>1 DEF IsReading
    <3> QED  BY <3>1, <3>2
  <2>3. F(f) = [n \in 0..Len(lines) |-> F(f)[n]]  OBVIOUS
  <2> HIDE DEF F
  <2> QED  BY <2>1, <2>2, <2>3
<1>2. upTo = F(upTo)  BY <1>1, Zenon
<1>3. Parse(lines, d) = upTo[Len(lines)]  BY DEF Parse
<1>4. upTo[0] = Start0(d)
  <2>1. 0 \in 0..Len(lines)  OBVIOUS
  <2> HIDE DEF upTo
  <2>2. F(upTo)[0] = Start0(d)  BY <2>1 DEF Start0
  <2> HIDE DEF F
  <2> QED  BY <1>2, <2>2
<1>5. \A k \in 1..Len(lines) : upTo[k] = Sift(upTo[k - 1], lines[k])
  <2> SUFFICES ASSUME NEW k \in 1..Len(lines) PROVE upTo[k] = Sift(upTo[k - 1], lines[k])
    OBVIOUS
  <2>1. k \in 0..Len(lines) /\ k # 0  OBVIOUS
  <2>2. upTo[k] = F(upTo)[k]  BY <1>2
  <2> HIDE DEF upTo
  <2>3. F(upTo)[k] = Sift(upTo[k - 1], lines[k])  BY <2>1
  <2> QED  BY <2>2, <2>3
<1> HIDE DEF upTo
<1> QED  BY <1>3, <1>4, <1>5 DEF IsReading

-----------------------------------------------------------------------------
(* One line *)

ToolNames == {"subfinder", "httpx", "katana", "nuclei", "whatweb"}

ItemType == [id : Nat, val : Nat]

\* What a parser has counted and stored is typed; it has no status yet.
AccType == [status : {"NONE"}, items : SUBSET ItemType, malformed : Nat, outside : Nat,
            duplicates : Nat, records : Nat, truncated : {FALSE}]

\* The lines a program started for this tool may have written.
AreLines(lines) ==
  /\ Len(lines) \in Nat
  /\ \A i \in 1..Len(lines) :
       lines[i] \in LineType /\ (lines[i].fault = "evidence" => tool = "whatweb")

\* The parser has no objection to the line: it is blank, or a clean record.
Fine(l) == l.form = "blank" \/ (Clean(l) /\ l.fault = "none")

\* The record of a clean line is among the items, under its identity.
Has(items, l) ==
  IF tool \in {"katana", "whatweb"} THEN Item(l) \in items
  ELSE \E x \in items : x.id = l.id

LEMMA AccIs ==
  ASSUME NEW acc \in AccType
  PROVE  /\ acc.items \subseteq ItemType /\ acc.malformed \in Nat /\ acc.outside \in Nat
         /\ Malformed(acc) \in AccType /\ OutOfScope(acc) \in AccType
         /\ Duplicate(acc) \in AccType /\ [acc EXCEPT !.records = @ + 1] \in AccType
         /\ \A x \in ItemType : Keep(acc, x) \in AccType
         /\ \A T \in SUBSET acc.items : [acc EXCEPT !.items = @ \ T] \in AccType
<1>1. /\ acc.items \subseteq ItemType /\ acc.malformed \in Nat /\ acc.outside \in Nat
      /\ acc.duplicates \in Nat /\ acc.records \in Nat
  BY DEF AccType
<1>8. /\ acc.malformed + 1 \in Nat /\ acc.outside + 1 \in Nat
      /\ acc.duplicates + 1 \in Nat /\ acc.records + 1 \in Nat
  BY <1>1
<1>2. Malformed(acc) \in AccType  BY <1>8, Zenon DEF AccType, Malformed
<1>3. OutOfScope(acc) \in AccType  BY <1>8, Zenon DEF AccType, OutOfScope
<1>4. Duplicate(acc) \in AccType  BY <1>8, Zenon DEF AccType, Duplicate
<1>5. [acc EXCEPT !.records = @ + 1] \in AccType  BY <1>8, Zenon DEF AccType
<1>6. \A x \in ItemType : Keep(acc, x) \in AccType  BY DEF AccType, Keep
<1>7. \A T \in SUBSET acc.items : [acc EXCEPT !.items = @ \ T] \in AccType  BY DEF AccType
<1> QED  BY <1>1, <1>2, <1>3, <1>4, <1>5, <1>6, <1>7

LEMMA AccParts ==
  ASSUME NEW acc \in AccType
  PROVE  /\ Malformed(acc).items = acc.items /\ Malformed(acc).outside = acc.outside
         /\ Malformed(acc).malformed = acc.malformed + 1
         /\ OutOfScope(acc).items = acc.items /\ OutOfScope(acc).outside = acc.outside + 1
         /\ OutOfScope(acc).malformed = acc.malformed
         /\ Duplicate(acc).items = acc.items /\ Duplicate(acc).outside = acc.outside
         /\ Duplicate(acc).malformed = acc.malformed
         /\ \A x : /\ Keep(acc, x).items = acc.items \cup {x}
                   /\ Keep(acc, x).outside = acc.outside
                   /\ Keep(acc, x).malformed = acc.malformed
BY DEF AccType, Malformed, OutOfScope, Duplicate, Keep

\* A line whose record is not stored as it stands, and one whose record is.
LEMMA ConvertIs ==
  ASSUME NEW l \in LineType, tool \in ToolNames, l.fault = "evidence" => tool = "whatweb"
  PROVE  /\ Convert(l) \in {"malformed", "out_of_scope", "record"}
         /\ l.form = "object" /\ Clean(l) => Convert(l) = "record"
         /\ l.form = "object" /\ Convert(l) = "record" =>
              \/ Clean(l)
              \/ tool = "whatweb" /\ l.fault \in {"certainty", "version"}
<1>1. l.approved \in BOOLEAN  BY Zenon DEF LineType
<1> DEFINE before == CASE tool = "subfinder" -> {"host"}
                       [] tool = "httpx"     -> {"failed", "url"}
                       [] tool = "katana"    -> {"request", "method", "url"}
                       [] tool = "nuclei"    -> {"template-id", "info", "type", "host"}
                       [] tool = "whatweb"   -> {"target"}
<1>2. ASSUME NEW B \in SUBSET (Faults \ {"none", "evidence"})
      PROVE  /\ Verdict(l, B) \in {"malformed", "out_of_scope", "record"}
             /\ Verdict(l, B) = "record" <=> l.fault = "none" /\ l.approved
  <2>1. CASE l.fault \in B
    <3>1. Verdict(l, B) = "malformed"  BY <2>1 DEF Verdict
    <3> QED  BY <2>1, <3>1 DEF Faults
  <2>2. CASE l.fault \notin B /\ ~l.approved
    <3>1. Verdict(l, B) = "out_of_scope"  BY <2>2 DEF Verdict
    <3> QED  BY <2>2, <3>1
  <2>3. CASE l.fault \notin B /\ l.approved /\ l.fault = "none"
    <3>1. Verdict(l, B) = "record"  BY <2>3 DEF Verdict
    <3> QED  BY <2>3, <3>1
  <2>4. CASE l.fault \notin B /\ l.approved /\ l.fault # "none"
    <3>1. Verdict(l, B) = "malformed"  BY <2>4 DEF Verdict
    <3> QED  BY <2>4, <3>1
  <2> QED  BY <2>1, <2>2, <2>3, <2>4
<1>3. before \in SUBSET (Faults \ {"none", "evidence"})  BY DEF Faults, ToolNames
<1>4. CASE tool # "whatweb"
  <2>1. Convert(l) = Verdict(l, before)
    BY <1>4 DEF ToolNames, Convert, SubfinderRecord, HttpxRecord, KatanaRecord, NucleiRecord
  <2>2. Clean(l) <=> l.form = "object" /\ l.fault = "none" /\ l.approved
    BY <1>4 DEF Clean
  <2> HIDE DEF before
  <2> QED  BY <1>2, <1>3, <1>4, <2>1, <2>2
<1>5. CASE tool = "whatweb"
  <2>1. Convert(l) = WhatWebRecord(l)  BY <1>5 DEF Convert
  <2>2. CASE l.fault \in {"certainty", "version", "evidence"} /\ l.approved
    <3>1. Convert(l) = "record"  BY <2>1, <2>2 DEF WhatWebRecord
    <3> QED  BY <1>5, <2>2, <3>1 DEF Clean
  <2>3. CASE ~(l.fault \in {"certainty", "version", "evidence"} /\ l.approved)
    <3>1. Convert(l) = Verdict(l, before)  BY <1>5, <2>1, <2>3 DEF WhatWebRecord
    <3>2. Clean(l) <=> l.form = "object" /\ l.fault = "none" /\ l.approved
      BY <2>3 DEF Clean
    <3> HIDE DEF before
    <3> QED  BY <1>2, <1>3, <3>1, <3>2
  <2> QED  BY <2>2, <2>3
<1> QED  BY <1>4, <1>5

\* Storing the record of a clean line l. The adapters but Nuclei keep what they
\* have; Nuclei keeps the lesser of two records with one fingerprint. A record
\* of WhatWeb whose evidence is invalid is stored and counted.
Stores(acc, l, r) ==
  /\ r \in AccType /\ r.outside = acc.outside
  /\ Has(acc.items, l) => tool = "nuclei" \/ r.items = acc.items
  /\ ~Has(acc.items, l) => r.items = acc.items \cup {Item(l)}
  /\ ~(tool = "nuclei" /\ Has(acc.items, l)) =>
       r.malformed = acc.malformed + (IF l.fault = "none" THEN 0 ELSE 1)
  /\ tool = "nuclei" /\ Has(acc.items, l) =>
       \E old \in acc.items :
         /\ old.id = l.id
         /\ \/ Stored(acc, l) = {Item(l)} /\ r.items = acc.items /\ r.malformed = acc.malformed
            \/ /\ Stored(acc, l) # {Item(l)} /\ r.malformed = acc.malformed + 1
               /\ r.items = (acc.items \ {old}) \cup {IF l.val < old.val THEN Item(l) ELSE old}

LEMMA StoreIs ==
  ASSUME NEW acc \in AccType, NEW l \in LineType, tool \in ToolNames, Clean(l),
         l.fault = "evidence" => tool = "whatweb"
  PROVE  Stores(acc, l, Store(acc, l))
<1>1. Item(l) \in ItemType /\ Item(l).id = l.id /\ Item(l).val = l.val
  BY DEF LineType, Item, ItemType
<1>2. acc.malformed \in Nat /\ acc.outside \in Nat  BY AccIs
<1>3. /\ Duplicate(acc) \in AccType /\ Keep(acc, Item(l)) \in AccType
      /\ Duplicate(acc).items = acc.items /\ Duplicate(acc).outside = acc.outside
      /\ Duplicate(acc).malformed = acc.malformed
      /\ Keep(acc, Item(l)).items = acc.items \cup {Item(l)}
      /\ Keep(acc, Item(l)).outside = acc.outside
      /\ Keep(acc, Item(l)).malformed = acc.malformed
  BY <1>1, AccIs, AccParts
<1>4. Stored(acc, l) = {} <=> ~\E x \in acc.items : x.id = l.id  BY DEF Stored
<1>5. tool # "whatweb" => l.fault = "none"  BY DEF Clean
<1>6. CASE tool \in {"subfinder", "httpx"}
  <2>1. Store(acc, l) = IF Stored(acc, l) # {} THEN Duplicate(acc) ELSE Keep(acc, Item(l))
    BY <1>6 DEF Store, SubfinderStore, HttpxStore
  <2>2. Has(acc.items, l) <=> Stored(acc, l) # {}  BY <1>4, <1>6 DEF Has
  <2>3. CASE Stored(acc, l) # {}
    <3>1. Store(acc, l) = Duplicate(acc)  BY <2>1, <2>3
    <3> QED  BY <1>2, <1>3, <1>5, <1>6, <2>2, <2>3, <3>1 DEF Stores
  <2>4. CASE Stored(acc, l) = {}
    <3>1. Store(acc, l) = Keep(acc, Item(l))  BY <2>1, <2>4
    <3> QED  BY <1>2, <1>3, <1>5, <1>6, <2>2, <2>4, <3>1 DEF Stores
  <2> QED  BY <2>3, <2>4
<1>7. CASE tool = "katana"
  <2>1. Store(acc, l) = IF Item(l) \in acc.items THEN Duplicate(acc) ELSE Keep(acc, Item(l))
    BY <1>7 DEF Store, KatanaStore
  <2>2. Has(acc.items, l) <=> Item(l) \in acc.items  BY <1>7 DEF Has
  <2>3. CASE Item(l) \in acc.items
    <3>1. Store(acc, l) = Duplicate(acc)  BY <2>1, <2>3
    <3> QED  BY <1>2, <1>3, <1>5, <1>7, <2>2, <2>3, <3>1 DEF Stores
  <2>4. CASE Item(l) \notin acc.items
    <3>1. Store(acc, l) = Keep(acc, Item(l))  BY <2>1, <2>4
    <3> QED  BY <1>2, <1>3, <1>5, <1>7, <2>2, <2>4, <3>1 DEF Stores
  <2> QED  BY <2>3, <2>4
<1>8. CASE tool = "whatweb"
  <2> DEFINE counted == IF l.fault # "none" THEN Malformed(acc) ELSE acc
  <2>1. l.fault \notin {"certainty", "version"}  BY DEF Clean
  <2>2. /\ counted \in AccType /\ counted.items = acc.items /\ counted.outside = acc.outside
        /\ counted.malformed = acc.malformed + (IF l.fault = "none" THEN 0 ELSE 1)
    <3>1. CASE l.fault = "none"
      <4>1. counted = acc  BY <3>1
      <4> QED  BY <1>2, <3>1, <4>1
    <3>2. CASE l.fault # "none"
      <4>1. counted = Malformed(acc)  BY <3>2
      <4> QED  BY <3>2, <4>1, AccIs, AccParts
    <3> QED  BY <3>1, <3>2
  <2>3. Store(acc, l) = IF Item(l) \in acc.items THEN Duplicate(counted)
                        ELSE Keep(counted, Item(l))
    <3>1. Store(acc, l) = WhatWebStore(acc, l)  BY <1>8 DEF Store
    <3> QED  BY <2>1, <2>2, <3>1 DEF WhatWebStore
  <2> HIDE DEF counted
  <2>4. Has(acc.items, l) <=> Item(l) \in acc.items  BY <1>8 DEF Has
  <2>5. /\ Duplicate(counted) \in AccType /\ Keep(counted, Item(l)) \in AccType
        /\ Duplicate(counted).items = acc.items /\ Duplicate(counted).outside = acc.outside
        /\ Duplicate(counted).malformed = counted.malformed
        /\ Keep(counted, Item(l)).items = acc.items \cup {Item(l)}
        /\ Keep(counted, Item(l)).outside = acc.outside
        /\ Keep(counted, Item(l)).malformed = counted.malformed
    <3>1. Item(l) \in ItemType  BY <1>1
    <3>2. counted \in AccType /\ counted.items = acc.items /\ counted.outside = acc.outside
      BY <2>2
    <3>3. /\ Duplicate(counted) \in AccType
          /\ \A x \in ItemType : Keep(counted, x) \in AccType
      BY <3>2, AccIs
    <3>4. /\ Duplicate(counted).items = acc.items /\ Duplicate(counted).outside = acc.outside
          /\ Duplicate(counted).malformed = counted.malformed
          /\ \A x : /\ Keep(counted, x).items = acc.items \cup {x}
                    /\ Keep(counted, x).outside = acc.outside
                    /\ Keep(counted, x).malformed = counted.malformed
      BY <3>2, AccParts
    <3> QED  BY <3>1, <3>3, <3>4, Zenon
  <2>6. CASE Item(l) \in acc.items
    <3>1. Store(acc, l) = Duplicate(counted)  BY <2>3, <2>6
    <3> QED  BY <1>8, <2>2, <2>4, <2>5, <2>6, <3>1 DEF Stores
  <2>7. CASE Item(l) \notin acc.items
    <3>1. Store(acc, l) = Keep(counted, Item(l))  BY <2>3, <2>7
    <3> QED  BY <1>8, <2>2, <2>4, <2>5, <2>7, <3>1 DEF Stores
  <2> QED  BY <2>6, <2>7
<1>9. CASE tool = "nuclei"
  <2> DEFINE old == CHOOSE i \in Stored(acc, l) : TRUE
             others == [acc EXCEPT !.items = @ \ {old}]
             least == IF l.val < old.val THEN Item(l) ELSE old
  <2>1. Store(acc, l) = NucleiStore(acc, l)  BY <1>9 DEF Store
  <2>2. Has(acc.items, l) <=> Stored(acc, l) # {}  BY <1>4, <1>9 DEF Has
  <2>3. CASE Stored(acc, l) = {}
    <3>1. Store(acc, l) = Keep(acc, Item(l))  BY <2>1, <2>3 DEF NucleiStore
    <3> QED  BY <1>2, <1>3, <1>5, <1>9, <2>2, <2>3, <3>1 DEF Stores
  <2>4. CASE Stored(acc, l) # {}
    <3>1. old \in Stored(acc, l)  BY <2>4
    <3>2. old \in acc.items /\ old.id = l.id  BY <3>1 DEF Stored
    <3>3. CASE Stored(acc, l) = {Item(l)}
      <4>1. Store(acc, l) = Duplicate(acc)  BY <2>1, <3>3 DEF NucleiStore
      <4> HIDE DEF old
      <4> QED  BY <1>2, <1>3, <1>5, <1>9, <2>2, <2>4, <3>2, <3>3, <4>1 DEF Stores
    <3>4. CASE Stored(acc, l) # {Item(l)}
      <4>1. Store(acc, l) = Malformed(Duplicate(Keep(others, least)))
        BY <2>1, <2>4, <3>4, Zenon DEF NucleiStore
      <4>2. least \in ItemType
        <5>1. old \in ItemType  BY <3>2, AccIs
        <5> HIDE DEF old
        <5> QED  BY <1>1, <5>1
      <4>3. /\ others \in AccType /\ others.items = acc.items \ {old}
            /\ others.outside = acc.outside /\ others.malformed = acc.malformed
        BY <3>2, AccIs DEF AccType
      <4> HIDE DEF old, others, least
      <4>8. Keep(others, least) \in AccType  BY <4>2, <4>3, AccIs
      <4>9. /\ Keep(others, least).items = (acc.items \ {old}) \cup {least}
            /\ Keep(others, least).outside = acc.outside
            /\ Keep(others, least).malformed = acc.malformed
        BY <4>3, AccParts
      <4>4. LET k == Keep(others, least)
            IN  /\ k \in AccType /\ k.items = (acc.items \ {old}) \cup {least}
                /\ k.outside = acc.outside /\ k.malformed = acc.malformed
        BY <4>8, <4>9
      <4>5. LET k == Duplicate(Keep(others, least))
            IN  /\ k \in AccType /\ k.items = (acc.items \ {old}) \cup {least}
                /\ k.outside = acc.outside /\ k.malformed = acc.malformed
        BY <4>4, AccIs, AccParts
      <4>6. LET k == Malformed(Duplicate(Keep(others, least)))
            IN  /\ k \in AccType /\ k.items = (acc.items \ {old}) \cup {least}
                /\ k.outside = acc.outside /\ k.malformed = acc.malformed + 1
        BY <4>5, AccIs, AccParts
      <4>7. Has(acc.items, l)  BY <2>2, <2>4
      <4> QED  BY <1>9, <3>2, <3>4, <4>1, <4>6, <4>7 DEF Stores, least
    <3> QED  BY <3>3, <3>4
  <2> QED  BY <2>3, <2>4
<1> QED  BY <1>6, <1>7, <1>8, <1>9 DEF ToolNames

\* One turn of the loop passes over a blank line, counts a line it objects to
\* and stores the record of a clean one.
LEMMA SiftIs ==
  ASSUME NEW acc \in AccType, NEW l \in LineType, tool \in ToolNames,
         l.fault = "evidence" => tool = "whatweb"
  PROVE  /\ l.form = "blank" => Sift(acc, l) = acc
         /\ Clean(l) => Stores(acc, l, Sift(acc, l))
         /\ l.form # "blank" /\ ~Clean(l) =>
              /\ Sift(acc, l) \in AccType /\ Sift(acc, l).items = acc.items
              /\ HasIssues(Sift(acc, l))
<1> DEFINE counted == [acc EXCEPT !.records = @ + 1]
<1>1. l.form \in {"blank", "text", "object"}  BY DEF LineType
<1>2. /\ counted \in AccType /\ counted.items = acc.items
      /\ counted.malformed = acc.malformed /\ counted.outside = acc.outside
  <2>1. counted \in AccType  BY AccIs
  <2> QED  BY <2>1 DEF AccType
<1>3. acc.malformed \in Nat /\ acc.outside \in Nat  BY AccIs
<1>4. l.form = "blank" => Sift(acc, l) = acc  BY DEF Sift
<1>5. l.form = "text" => Sift(acc, l) = Malformed(counted)  BY DEF Sift
<1>6. l.form = "object" /\ Convert(l) = "malformed" => Sift(acc, l) = Malformed(counted)
  BY DEF Sift
<1>7. l.form = "object" /\ Convert(l) = "out_of_scope" => Sift(acc, l) = OutOfScope(counted)
  BY DEF Sift
<1>8. l.form = "object" /\ Convert(l) = "record" => Sift(acc, l) = Store(counted, l)
  BY DEF Sift
<1> HIDE DEF counted
<1>9. /\ Malformed(counted) \in AccType /\ Malformed(counted).items = acc.items
      /\ HasIssues(Malformed(counted))
      /\ OutOfScope(counted) \in AccType /\ OutOfScope(counted).items = acc.items
      /\ HasIssues(OutOfScope(counted))
  <2>1. Malformed(counted) \in AccType /\ OutOfScope(counted) \in AccType  BY <1>2, AccIs
  <2>2. /\ Malformed(counted).items = acc.items /\ OutOfScope(counted).items = acc.items
        /\ Malformed(counted).malformed = acc.malformed + 1
        /\ OutOfScope(counted).outside = acc.outside + 1
    BY <1>2, AccParts
  <2>3. HasIssues(Malformed(counted)) /\ HasIssues(OutOfScope(counted))
    BY <1>3, <2>2 DEF HasIssues
  <2> QED  BY <2>1, <2>2, <2>3
<1>10. Clean(l) => Stores(acc, l, Sift(acc, l))
  <2> SUFFICES ASSUME Clean(l) PROVE Stores(acc, l, Sift(acc, l))  OBVIOUS
  <2>1. Sift(acc, l) = Store(counted, l)  BY <1>8, ConvertIs DEF Clean
  <2>2. Stores(counted, l, Store(counted, l))  BY <1>2, StoreIs
  <2>3. Stored(counted, l) = Stored(acc, l)  BY <1>2 DEF Stored
  <2> QED  BY <1>2, <2>1, <2>2, <2>3 DEF Stores
<1>11. l.form # "blank" /\ ~Clean(l) =>
         /\ Sift(acc, l) \in AccType /\ Sift(acc, l).items = acc.items
         /\ HasIssues(Sift(acc, l))
  <2> SUFFICES ASSUME l.form # "blank", ~Clean(l)
               PROVE  /\ Sift(acc, l) \in AccType /\ Sift(acc, l).items = acc.items
                      /\ HasIssues(Sift(acc, l))
    OBVIOUS
  <2>1. CASE l.form = "text"  BY <1>5, <1>9, <2>1
  <2>2. CASE l.form = "object" /\ Convert(l) = "malformed"  BY <1>6, <1>9, <2>2
  <2>3. CASE l.form = "object" /\ Convert(l) = "out_of_scope"  BY <1>7, <1>9, <2>3
  <2>4. CASE l.form = "object" /\ Convert(l) = "record"
    <3>1. tool = "whatweb" /\ l.fault \in {"certainty", "version"}  BY <2>4, ConvertIs
    <3>2. Store(counted, l) = WhatWebStore(counted, l)  BY <3>1 DEF Store
    <3>3. WhatWebStore(counted, l) = Malformed(counted)  BY <3>1 DEF WhatWebStore
    <3> QED  BY <1>8, <1>9, <2>4, <3>2, <3>3
  <2> QED  BY <1>1, <2>1, <2>2, <2>3, <2>4, ConvertIs
<1> QED  BY <1>4, <1>10, <1>11

-----------------------------------------------------------------------------
(* All the lines *)

\* Two clean records of one fingerprint that differ.
Conflict(lines, n) ==
  \E i, j \in 1..n : /\ Clean(lines[i]) /\ Clean(lines[j])
                     /\ lines[i].id = lines[j].id /\ lines[i].val # lines[j].val

\* What a parser has made of the first n lines: every item is a clean line,
\* every clean line is represented, an objection shows, what shows has a
\* cause, and of the records of one Nuclei fingerprint the least is kept.
NothingMadeUp(lines, n, acc) ==
  \A x \in acc.items : \E i \in 1..n : Clean(lines[i]) /\ Item(lines[i]) = x

NothingLost(lines, n, acc) == \A i \in 1..n : Clean(lines[i]) => Has(acc.items, lines[i])

IssuesShow(lines, d, n, acc) == ~HasIssues(acc) => d = 0 /\ \A i \in 1..n : Fine(lines[i])

IssuesHaveCause(lines, d, n, acc) ==
  HasIssues(acc) => \/ d > 0 \/ \E i \in 1..n : ~Fine(lines[i])
                    \/ tool = "nuclei" /\ Conflict(lines, n)

LeastIsKept(lines, n, acc) ==
  tool = "nuclei" =>
    \A x \in acc.items : \A i \in 1..n :
      Clean(lines[i]) /\ lines[i].id = x.id => x.val <= lines[i].val

Reads(lines, d, n, acc) ==
  /\ acc \in AccType
  /\ NothingMadeUp(lines, n, acc) /\ NothingLost(lines, n, acc)
  /\ IssuesShow(lines, d, n, acc) /\ IssuesHaveCause(lines, d, n, acc)
  /\ LeastIsKept(lines, n, acc)

LEMMA ReadsNone == ASSUME NEW lines, NEW d \in Nat  PROVE Reads(lines, d, 0, Start0(d))
<1>1. /\ Start0(d).items = {} /\ Start0(d).malformed = d /\ Start0(d).outside = 0
      /\ Start0(d) \in AccType
  BY DEF Start0, Empty, AccType
<1>2. HasIssues(Start0(d)) <=> d > 0  BY <1>1 DEF HasIssues
<1> QED
  BY <1>1, <1>2 DEF Reads, NothingMadeUp, NothingLost, IssuesShow, IssuesHaveCause, LeastIsKept

\* A clean line that is stored leaves the items right.
LEMMA ReadsClean ==
  ASSUME NEW lines, NEW d \in Nat, NEW n \in Nat, NEW acc, Reads(lines, d, n, acc),
         tool \in ToolNames, \A i \in 1..(n + 1) : lines[i] \in LineType, Clean(lines[n + 1]),
         lines[n + 1].fault = "evidence" => tool = "whatweb",
         NEW r, Stores(acc, lines[n + 1], r)
  PROVE  Reads(lines, d, n + 1, r)
<1> DEFINE l == lines[n + 1]
<1>1. /\ acc \in AccType /\ NothingMadeUp(lines, n, acc) /\ NothingLost(lines, n, acc)
      /\ IssuesShow(lines, d, n, acc) /\ IssuesHaveCause(lines, d, n, acc)
      /\ LeastIsKept(lines, n, acc)
  BY DEF Reads
<1>2. /\ Item(l) \in ItemType /\ Item(l).id = l.id /\ Item(l).val = l.val
      /\ l.id \in Nat /\ l.val \in Nat
  <2>1. l \in LineType  OBVIOUS
  <2> QED  BY <2>1 DEF LineType, Item, ItemType
<1>3. /\ acc.items \subseteq ItemType /\ acc.malformed \in Nat /\ acc.outside \in Nat
  BY <1>1, AccIs
<1>4. \A i : i \in 1..(n + 1) <=> i \in 1..n \/ i = n + 1  OBVIOUS
<1>5. r \in AccType /\ r.outside = acc.outside  BY DEF Stores
<1>6. \A x \in acc.items : \E i \in 1..n : Clean(lines[i]) /\ Item(lines[i]) = x
  BY <1>1 DEF NothingMadeUp
<1>7. \A i \in 1..n : Clean(lines[i]) => Has(acc.items, lines[i])  BY <1>1 DEF NothingLost
<1>8. CASE ~Has(acc.items, l)
  <2>1. /\ r.items = acc.items \cup {Item(l)}
        /\ r.malformed = acc.malformed + (IF l.fault = "none" THEN 0 ELSE 1)
    BY <1>8 DEF Stores
  <2>2. NothingMadeUp(lines, n + 1, r)  BY <1>4, <1>6, <2>1 DEF NothingMadeUp
  <2>3. NothingLost(lines, n + 1, r)
    <3>1. Has(r.items, l)  BY <1>2, <2>1 DEF Has
    <3>2. \A i \in 1..n : Has(acc.items, lines[i]) => Has(r.items, lines[i])
      BY <2>1 DEF Has
    <3> QED  BY <1>4, <1>7, <3>1, <3>2 DEF NothingLost
  <2>4. HasIssues(r) <=> HasIssues(acc) \/ l.fault # "none"
    BY <1>3, <1>5, <2>1 DEF HasIssues
  <2>5. Fine(l) <=> l.fault = "none"  BY DEF Fine, Clean
  <2>6. IssuesShow(lines, d, n + 1, r)  BY <1>1, <1>4, <2>4, <2>5 DEF IssuesShow
  <2>7. IssuesHaveCause(lines, d, n + 1, r)
    BY <1>1, <1>4, <2>4, <2>5 DEF IssuesHaveCause, Conflict
  <2>8. LeastIsKept(lines, n + 1, r)
    <3> SUFFICES ASSUME tool = "nuclei", NEW x \in r.items, NEW i \in 1..(n + 1),
                        Clean(lines[i]), lines[i].id = x.id
                 PROVE  x.val <= lines[i].val
      BY DEF LeastIsKept
    <3>1. \A y \in acc.items : y.id # l.id  BY <1>8 DEF Has
    <3>2. CASE i = n + 1
      <4>1. x = Item(l)  BY <2>1, <3>1, <3>2
      <4> QED  BY <1>2, <3>2, <4>1
    <3>3. CASE i \in 1..n
      <4>1. PICK y \in acc.items : y.id = lines[i].id  BY <1>7, <3>3 DEF Has
      <4>2. x # Item(l)  BY <1>2, <3>1, <4>1
      <4> QED  BY <1>1, <2>1, <3>3, <4>2 DEF LeastIsKept
    <3> QED  BY <1>4, <3>2, <3>3
  <2> QED  BY <1>5, <2>2, <2>3, <2>6, <2>7, <2>8 DEF Reads
<1>9. CASE Has(acc.items, l) /\ tool # "nuclei"
  <2>1. /\ r.items = acc.items
        /\ r.malformed = acc.malformed + (IF l.fault = "none" THEN 0 ELSE 1)
    BY <1>9 DEF Stores
  <2>2. NothingMadeUp(lines, n + 1, r)  BY <1>4, <1>6, <2>1 DEF NothingMadeUp
  <2>3. NothingLost(lines, n + 1, r)  BY <1>4, <1>7, <1>9, <2>1 DEF NothingLost
  <2>4. HasIssues(r) <=> HasIssues(acc) \/ l.fault # "none"
    BY <1>3, <1>5, <2>1 DEF HasIssues
  <2>5. Fine(l) <=> l.fault = "none"  BY DEF Fine, Clean
  <2>6. IssuesShow(lines, d, n + 1, r)  BY <1>1, <1>4, <2>4, <2>5 DEF IssuesShow
  <2>7. IssuesHaveCause(lines, d, n + 1, r)
    BY <1>1, <1>4, <2>4, <2>5 DEF IssuesHaveCause, Conflict
  <2>8. LeastIsKept(lines, n + 1, r)  BY <1>9 DEF LeastIsKept
  <2> QED  BY <1>5, <2>2, <2>3, <2>6, <2>7, <2>8 DEF Reads
<1>10. CASE Has(acc.items, l) /\ tool = "nuclei"
  <2>1. PICK old \in acc.items :
          /\ old.id = l.id
          /\ \/ Stored(acc, l) = {Item(l)} /\ r.items = acc.items /\ r.malformed = acc.malformed
             \/ /\ Stored(acc, l) # {Item(l)} /\ r.malformed = acc.malformed + 1
                /\ r.items = (acc.items \ {old}) \cup {IF l.val < old.val THEN Item(l) ELSE old}
    BY <1>10 DEF Stores
  <2>2. old \in ItemType /\ old.id \in Nat /\ old.val \in Nat  BY <1>3, <2>1 DEF ItemType
  <2>3. \A x, y \in acc.items : x.id = y.id => x = y
    <3> SUFFICES ASSUME NEW x \in acc.items, NEW y \in acc.items, x.id = y.id  PROVE x = y
      OBVIOUS
    <3>1. x \in ItemType /\ y \in ItemType  BY <1>3
    <3>2. PICK i \in 1..n : Clean(lines[i]) /\ Item(lines[i]) = x  BY <1>6
    <3>3. PICK j \in 1..n : Clean(lines[j]) /\ Item(lines[j]) = y  BY <1>6
    <3>4. /\ lines[i].id = x.id /\ lines[i].val = x.val
          /\ lines[j].id = y.id /\ lines[j].val = y.val
      BY <3>2, <3>3 DEF Item
    <3>5. x.val <= y.val /\ y.val <= x.val  BY <1>1, <1>10, <3>2, <3>3, <3>4 DEF LeastIsKept
    <3>6. x.val = y.val  BY <3>1, <3>5 DEF ItemType
    <3> QED  BY <3>1, <3>6 DEF ItemType
  <2>4. Stored(acc, l) = {old}  BY <2>1, <2>3 DEF Stored
  <2>5. l.fault = "none" /\ Fine(l)  BY <1>10 DEF Fine, Clean
  <2>6. \A i \in 1..n : Clean(lines[i]) /\ lines[i].id = old.id => old.val <= lines[i].val
    BY <1>1, <1>10 DEF LeastIsKept
  <2>7. CASE Stored(acc, l) = {Item(l)}
    <3>1. r.items = acc.items /\ r.malformed = acc.malformed /\ old = Item(l)
      BY <2>1, <2>4, <2>7
    <3>2. NothingMadeUp(lines, n + 1, r)  BY <1>4, <1>6, <3>1 DEF NothingMadeUp
    <3>3. NothingLost(lines, n + 1, r)  BY <1>4, <1>7, <1>10, <3>1 DEF NothingLost
    <3>4. HasIssues(r) <=> HasIssues(acc)  BY <1>5, <3>1 DEF HasIssues
    <3>5. IssuesShow(lines, d, n + 1, r)  BY <1>1, <1>4, <2>5, <3>4 DEF IssuesShow
    <3>6. IssuesHaveCause(lines, d, n + 1, r)
      BY <1>1, <1>4, <3>4 DEF IssuesHaveCause, Conflict
    <3>7. LeastIsKept(lines, n + 1, r)
      <4> SUFFICES ASSUME NEW x \in r.items, NEW i \in 1..(n + 1),
                          Clean(lines[i]), lines[i].id = x.id
                   PROVE  x.val <= lines[i].val
        BY DEF LeastIsKept
      <4>1. CASE i = n + 1
        <5>1. x = old  BY <2>1, <2>3, <3>1, <4>1
        <5> QED  BY <1>2, <3>1, <4>1, <5>1
      <4>2. CASE i \in 1..n  BY <1>1, <1>10, <3>1, <4>2 DEF LeastIsKept
      <4> QED  BY <1>4, <4>1, <4>2
    <3> QED  BY <1>5, <3>2, <3>3, <3>5, <3>6, <3>7 DEF Reads
  <2>8. CASE Stored(acc, l) # {Item(l)}
    <3> DEFINE least == IF l.val < old.val THEN Item(l) ELSE old
    <3>1. r.items = (acc.items \ {old}) \cup {least} /\ r.malformed = acc.malformed + 1
      BY <2>1, <2>8
    <3>2. /\ least.id = l.id /\ least.val <= l.val /\ least.val <= old.val
          /\ least = Item(l) \/ least = old
      BY <1>2, <2>1, <2>2
    <3> HIDE DEF least
    <3>3. NothingMadeUp(lines, n + 1, r)
      BY <1>4, <1>6, <3>1, <3>2 DEF NothingMadeUp
    <3>4. NothingLost(lines, n + 1, r)
      <4> SUFFICES ASSUME NEW i \in 1..(n + 1), Clean(lines[i])  PROVE Has(r.items, lines[i])
        BY DEF NothingLost
      <4>1. CASE lines[i].id = l.id  BY <1>10, <3>1, <3>2, <4>1 DEF Has
      <4>2. CASE lines[i].id # l.id
        <5>1. i \in 1..n  BY <1>4, <4>2
        <5>2. PICK y \in acc.items : y.id = lines[i].id  BY <1>7, <1>10, <5>1 DEF Has
        <5>3. y # old  BY <2>1, <4>2, <5>2
        <5> QED  BY <1>10, <3>1, <5>2, <5>3 DEF Has
      <4> QED  BY <4>1, <4>2
    <3>5. HasIssues(r)  BY <1>3, <3>1 DEF HasIssues
    <3>6. IssuesShow(lines, d, n + 1, r)  BY <3>5 DEF IssuesShow
    <3>7. IssuesHaveCause(lines, d, n + 1, r)
      <4>1. PICK j \in 1..n : Clean(lines[j]) /\ Item(lines[j]) = old  BY <1>6, <2>1
      <4>2. lines[j].id = old.id /\ lines[j].val = old.val  BY <4>1 DEF Item
      <4>3. old.val # l.val
        <5>1. old # Item(l)  BY <2>4, <2>8
        <5> QED  BY <1>2, <2>1, <2>2, <5>1 DEF ItemType
      <4>4. Conflict(lines, n + 1)
        <5>1. j \in 1..(n + 1) /\ n + 1 \in 1..(n + 1)  BY <1>4
        <5> QED  BY <2>1, <4>1, <4>2, <4>3, <5>1 DEF Conflict
      <4> QED  BY <1>10, <4>4 DEF IssuesHaveCause
    <3>8. LeastIsKept(lines, n + 1, r)
      <4> SUFFICES ASSUME NEW x \in r.items, NEW i \in 1..(n + 1),
                          Clean(lines[i]), lines[i].id = x.id
                   PROVE  x.val <= lines[i].val
        BY DEF LeastIsKept
      <4>1. CASE x.id = l.id
        <5>1. x = least  BY <2>1, <2>3, <3>1, <3>2, <4>1
        <5>2. CASE i = n + 1  BY <3>2, <5>1, <5>2
        <5>3. CASE i \in 1..n
          <6>1. old.val <= lines[i].val  BY <2>1, <2>6, <4>1, <5>3
          <6>2. PICK y \in acc.items : y.id = lines[i].id  BY <1>7, <1>10, <5>3 DEF Has
          <6>3. CASE least = old  BY <5>1, <6>1, <6>3
          <6>4. CASE least = Item(l)
            <7>1. lines[i].val \in Nat  BY <1>4 DEF LineType
            <7> QED  BY <1>2, <2>2, <3>2, <5>1, <6>1, <6>4, <7>1
          <6> QED  BY <3>2, <6>3, <6>4
        <5> QED  BY <1>4, <5>2, <5>3
      <4>2. CASE x.id # l.id
        <5>1. x \in acc.items /\ i \in 1..n  BY <1>4, <3>1, <3>2, <4>2
        <5> QED  BY <1>1, <1>10, <5>1 DEF LeastIsKept
      <4> QED  BY <4>1, <4>2
    <3> QED  BY <1>5, <3>3, <3>4, <3>6, <3>7, <3>8 DEF Reads
  <2> QED  BY <2>7, <2>8
<1> QED  BY <1>8, <1>9, <1>10

\* One turn of the loop keeps what the parser has read right.
LEMMA ReadsOne ==
  ASSUME NEW lines, AreLines(lines), NEW d \in Nat, NEW n \in Nat, n < Len(lines),
         NEW acc, Reads(lines, d, n, acc), tool \in ToolNames
  PROVE  Reads(lines, d, n + 1, Sift(acc, lines[n + 1]))
<1> DEFINE l == lines[n + 1]
           r == Sift(acc, l)
<1>1. /\ acc \in AccType /\ NothingMadeUp(lines, n, acc) /\ NothingLost(lines, n, acc)
      /\ IssuesShow(lines, d, n, acc) /\ IssuesHaveCause(lines, d, n, acc)
      /\ LeastIsKept(lines, n, acc)
  BY DEF Reads
<1>2. /\ \A i \in 1..(n + 1) : lines[i] \in LineType
      /\ l.fault = "evidence" => tool = "whatweb"
  BY DEF AreLines
<1>3. /\ l.form = "blank" => r = acc
      /\ Clean(l) => Stores(acc, l, r)
      /\ l.form # "blank" /\ ~Clean(l) => r \in AccType /\ r.items = acc.items /\ HasIssues(r)
  <2>1. l \in LineType  BY <1>2
  <2> QED  BY <1>1, <1>2, <2>1, SiftIs
<1>4. \A i : i \in 1..(n + 1) <=> i \in 1..n \/ i = n + 1  OBVIOUS
<1> HIDE DEF r
<1>5. CASE Clean(l)
  <2>1. Stores(acc, l, r)  BY <1>3, <1>5
  <2>2. Reads(lines, d, n + 1, r)  BY <1>2, <1>5, <2>1, ReadsClean
  <2> QED  BY <2>2 DEF r
<1>6. CASE ~Clean(l)
  <2>1. r \in AccType /\ r.items = acc.items  BY <1>1, <1>3, <1>6
  <2>2. NothingMadeUp(lines, n + 1, r)  BY <1>1, <1>4, <2>1 DEF NothingMadeUp
  <2>3. NothingLost(lines, n + 1, r)  BY <1>1, <1>4, <1>6, <2>1 DEF NothingLost
  <2>4. LeastIsKept(lines, n + 1, r)  BY <1>1, <1>4, <1>6, <2>1 DEF LeastIsKept
  <2>5. IssuesShow(lines, d, n + 1, r)
    <3>1. CASE l.form = "blank"  BY <1>1, <1>3, <1>4, <3>1 DEF IssuesShow, Fine
    <3>2. CASE l.form # "blank"  BY <1>3, <1>6, <3>2 DEF IssuesShow
    <3> QED  BY <3>1, <3>2
  <2>6. IssuesHaveCause(lines, d, n + 1, r)
    <3>1. CASE l.form = "blank"
      BY <1>1, <1>3, <1>4, <3>1 DEF IssuesHaveCause, Conflict
    <3>2. CASE l.form # "blank"
      BY <1>4, <1>6, <3>2 DEF IssuesHaveCause, Fine
    <3> QED  BY <3>1, <3>2
  <2>7. Reads(lines, d, n + 1, r)  BY <2>1, <2>2, <2>3, <2>4, <2>5, <2>6 DEF Reads
  <2> QED  BY <2>7 DEF r
<1> QED  BY <1>5, <1>6

\* What a parser returns has read all the lines.
LEMMA ParseReads ==
  ASSUME NEW lines, AreLines(lines), NEW d \in Nat, tool \in ToolNames
  PROVE  Reads(lines, d, Len(lines), Parse(lines, d))
<1> DEFINE N == Len(lines)
<1>1. N \in Nat  BY DEF AreLines
<1>2. PICK f : IsReading(f, lines, d, N) /\ Parse(lines, d) = f[N]  BY <1>1, ParseIsReading
<1> DEFINE T == {n \in 0..N : Reads(lines, d, n, f[n])}
<1>3. 0 \in T
  <2>1. 0 \in 0..N  BY <1>1
  <2> QED  BY <1>2, <2>1, ReadsNone DEF IsReading
<1>4. ASSUME NEW n \in 0..N, n \in T, n < N  PROVE n + 1 \in T
  <2>1. n \in Nat /\ n + 1 \in 1..N /\ n + 1 \in 0..N /\ (n + 1) - 1 = n  BY <1>1, <1>4
  <2>2. f[n + 1] = Sift(f[n], lines[n + 1])  BY <1>2, <2>1 DEF IsReading
  <2>3. Reads(lines, d, n + 1, f[n + 1])  BY <1>4, <2>1, <2>2, ReadsOne
  <2> QED  BY <2>1, <2>3
<1> HIDE DEF T
<1>5. \A n \in 0..N : n \in T  BY <1>1, <1>3, <1>4, Climb
<1>6. N \in T  BY <1>1, <1>5
<1> QED  BY <1>2, <1>6 DEF T

-----------------------------------------------------------------------------
(* The lines of an output that was cut *)

LEMMA Units ==
  ASSUME NEW n \in Nat
  PROVE  /\ n \div Width \in Nat /\ n % Width \in 0..2
         /\ n = 3 * (n \div Width) + (n % Width)
BY DEF Width

LEMMA OutIs ==
  ASSUME RunnerInv
  PROVE  /\ tool \in ToolNames /\ out \in Seq(Lines[tool]) /\ Len(out) \in Nat
         /\ \A i \in 1..Len(out) :
              /\ out[i] \in LineType /\ Beginning(out[i]) \in LineType
              /\ out[i].fault = "evidence" \/ Beginning(out[i]).fault = "evidence" =>
                   tool = "whatweb"
<1>1. tool \in Tools /\ out \in Seq(Lines[tool])  BY RunnerFacts DEF RunnerTypeOK
<1>2. tool \in ToolNames  BY <1>1, ToolAdaptersAssumption DEF ToolNames
<1>3. \A i \in 1..Len(out) : out[i] \in Lines[tool]  BY <1>1
<1>4. \A i \in 1..Len(out) : /\ out[i] \in LineType
                             /\ out[i].fault = "evidence" => tool = "whatweb"
  BY <1>1, <1>3, ToolAdaptersAssumption
<1>5. ASSUME NEW l \in LineType
      PROVE  Beginning(l) \in LineType /\ Beginning(l).fault = l.fault
  <2>1. CASE l.form = "blank"
    <3>1. Beginning(l) = l  BY <2>1 DEF Beginning
    <3> QED  BY <3>1
  <2>2. CASE l.form # "blank"
    <3>1. Beginning(l) = [l EXCEPT !.form = "text"]  BY <2>2 DEF Beginning
    <3>2. "text" \in {"blank", "text", "object"}  OBVIOUS
    <3>3. [l EXCEPT !.form = "text"] \in LineType  BY <3>2, Zenon DEF LineType
    <3>4. [l EXCEPT !.form = "text"].fault = l.fault  BY DEF LineType
    <3> QED  BY <3>1, <3>3, <3>4
  <2> QED  BY <2>1, <2>2
<1> QED  BY <1>1, <1>2, <1>4, <1>5

\* The lines left of n units: whole lines of the output, and when the output
\* was not cut, what there is of the last one.
LEMMA KeptIs ==
  ASSUME RunnerInv, NEW n \in Nat, n <= 3 * Len(out), NEW cut \in BOOLEAN,
         NEW L, L = Kept(n, cut)
  PROVE  /\ AreLines(L) /\ Len(L) <= Len(out)
         /\ \A i \in 1..Len(L) :
              \/ L[i] = out[i] /\ n >= (IF cut THEN 3 * i ELSE 3 * i - 1)
              \/ ~cut /\ n % Width # 0 /\ L[i] = Beginning(out[i])
         /\ \A i \in 1..(n \div Width) : i \in 1..Len(L) /\ L[i] = out[i]
         /\ ~cut => 3 * Len(L) >= n
         /\ n % Width = 0 => 3 * Len(L) = n
<1> DEFINE q == n \div Width
           m == n % Width
           whole == SubSeq(out, 1, q)
<1>1. q \in Nat /\ m \in 0..2 /\ n = 3 * q + m  BY Units
<1>2. /\ out \in Seq(LineType) /\ Len(out) \in Nat
      /\ \A i \in 1..Len(out) :
           /\ out[i] \in LineType /\ Beginning(out[i]) \in LineType
           /\ out[i].fault = "evidence" \/ Beginning(out[i]).fault = "evidence" =>
                tool = "whatweb"
  <2>1. out \in Seq(Lines[tool]) /\ tool \in Tools  BY RunnerFacts DEF RunnerTypeOK
  <2>2. Lines[tool] \subseteq LineType  BY <2>1, ToolAdaptersAssumption
  <2>3. out \in Seq(LineType)  BY <2>1, <2>2
  <2> QED  BY <2>3, OutIs
<1> HIDE DEF q, m
<1>3. q <= Len(out) /\ (m # 0 => q + 1 \in 1..Len(out))  BY <1>1, <1>2
<1>4. whole \in Seq(LineType) /\ Len(whole) = q /\ \A i \in 1..q : whole[i] = out[i]
  BY <1>1, <1>2, <1>3
<1> HIDE DEF whole
<1>5. CASE cut \/ m = 0
  <2>1. L = whole  BY <1>1, <1>5 DEF Kept, SplitLines, whole, q, m
  <2>2. AreLines(L) /\ Len(L) = q  BY <1>1, <1>2, <1>3, <1>4, <2>1 DEF AreLines
  <2>3. \A i \in 1..Len(L) : L[i] = out[i] /\ n >= 3 * i  BY <1>1, <1>4, <2>1
  <2>4. \A i \in 1..Len(L) : n >= (IF cut THEN 3 * i ELSE 3 * i - 1)  BY <1>1, <2>2, <2>3
  <2>5. ~cut => 3 * Len(L) >= n  BY <1>1, <1>5, <2>2
  <2>6. m = 0 => 3 * Len(L) = n  BY <1>1, <2>2
  <2>7. \A i \in 1..q : i \in 1..Len(L) /\ L[i] = out[i]  BY <1>4, <2>1
  <2> QED  BY <1>1, <1>3, <2>2, <2>3, <2>4, <2>5, <2>6, <2>7 DEF q, m
<1>6. CASE ~cut /\ m # 0
  <2> DEFINE last == IF m = 1 THEN Beginning(out[q + 1]) ELSE out[q + 1]
  <2>1. L = Append(whole, last)
    <3>1. CASE m = 1  BY <1>1, <1>6, <3>1 DEF Kept, SplitLines, whole, q, m
    <3>2. CASE m = 2  BY <1>1, <1>6, <3>2 DEF Kept, SplitLines, whole, q, m
    <3> QED  BY <1>1, <1>6, <3>1, <3>2
  <2>2. last \in LineType /\ (last.fault = "evidence" => tool = "whatweb")
    BY <1>2, <1>3, <1>6
  <2>3. m = 2 => last = out[q + 1]  OBVIOUS
  <2>4. m = 1 => last = Beginning(out[q + 1])  OBVIOUS
  <2> HIDE DEF last
  <2>5. Len(L) = q + 1 /\ L[q + 1] = last /\ \A i \in 1..q : L[i] = out[i]
    BY <1>1, <1>4, <2>1, <2>2
  <2>6. \A i \in 1..Len(L) : i \in 1..q \/ i = q + 1  BY <1>1, <2>5
  <2>7. AreLines(L)
    <3>1. Len(L) \in Nat  BY <1>1, <2>5
    <3>2. ASSUME NEW i \in 1..Len(L)
          PROVE  L[i] \in LineType /\ (L[i].fault = "evidence" => tool = "whatweb")
      <4>1. CASE i = q + 1  BY <2>2, <2>5, <4>1
      <4>2. CASE i \in 1..q
        <5>1. i \in 1..Len(out) /\ L[i] = out[i]  BY <1>1, <1>2, <1>3, <2>5, <4>2
        <5> QED  BY <1>2, <5>1
      <4> QED  BY <2>6, <4>1, <4>2
    <3> QED  BY <3>1, <3>2 DEF AreLines
  <2>8. ASSUME NEW i \in 1..Len(L)
        PROVE  \/ L[i] = out[i] /\ n >= (IF cut THEN 3 * i ELSE 3 * i - 1)
               \/ ~cut /\ m # 0 /\ L[i] = Beginning(out[i])
    <3>1. CASE i = q + 1 /\ m = 2
      <4>1. n >= 3 * i - 1  BY <1>1, <3>1
      <4> QED  BY <1>6, <2>3, <2>5, <3>1, <4>1
    <3>2. CASE i = q + 1 /\ m = 1  BY <1>6, <2>4, <2>5, <3>2
    <3>3. CASE i \in 1..q
      <4>1. n >= 3 * i - 1  BY <1>1, <3>3
      <4> QED  BY <1>6, <2>5, <3>3, <4>1
    <3> QED  BY <1>1, <1>6, <2>6, <3>1, <3>2, <3>3
  <2>9. 3 * Len(L) >= n /\ Len(L) <= Len(out)  BY <1>1, <1>3, <1>6, <2>5
  <2>10. \A i \in 1..q : i \in 1..Len(L) /\ L[i] = out[i]  BY <1>1, <2>5
  <2> QED  BY <1>6, <2>7, <2>8, <2>9, <2>10 DEF q, m
<1> QED  BY <1>5, <1>6

LEMMA DiscardedIs ==
  ASSUME NEW n \in Nat, NEW cut \in BOOLEAN
  PROVE  /\ Discarded(n, cut) \in Nat
         /\ Discarded(n, cut) > 0 <=> cut /\ n % Width # 0
BY DEF Discarded

-----------------------------------------------------------------------------
(* The answer *)

LEMMA JudgeIs ==
  ASSUME NEW p \in AccType, NEW t \in BOOLEAN, NEW counting \in BOOLEAN,
         NEW a, a = Judge(p, t, counting)
  PROVE  /\ a.items = p.items /\ a.truncated = t
         /\ a.status \in {"SUCCESS", "PARTIAL", "FAILURE"}
         /\ a.status = "SUCCESS" => result.status # "TIMEOUT" /\ ~HasIssues(p) /\ ~t
         /\ a.status = "PARTIAL" =>
              p.items # {} /\ (result.status = "TIMEOUT" \/ HasIssues(p) \/ t)
<1> DEFINE st == CASE result.status = "TIMEOUT" ->
                        IF p.items # {} THEN "PARTIAL" ELSE "FAILURE"
                   [] result.status # "TIMEOUT" /\ p.items # {} ->
                        IF HasIssues(p) \/ t THEN "PARTIAL" ELSE "SUCCESS"
                   [] OTHER ->
                        IF HasIssues(p) \/ t \/ (counting /\ p.records > 0)
                        THEN "FAILURE" ELSE "SUCCESS"
<1>1. a = [p EXCEPT !.truncated = t, !.status = st]  BY Zenon DEF Judge
<1>2. st \in {"SUCCESS", "PARTIAL", "FAILURE"}  OBVIOUS
<1>3. st = "SUCCESS" => result.status # "TIMEOUT" /\ ~HasIssues(p) /\ ~t  OBVIOUS
<1>4. st = "PARTIAL" => p.items # {} /\ (result.status = "TIMEOUT" \/ HasIssues(p) \/ t)
  OBVIOUS
<1> HIDE DEF st
<1>5. a.items = p.items /\ a.status = st  BY <1>1 DEF AccType
<1>6. a.truncated = t  BY <1>1, Zenon DEF AccType
<1> QED  BY <1>2, <1>3, <1>4, <1>5, <1>6

\* How much of the output an adapter has looked at.
UnitsRead == CASE tool = "nuclei"  -> BoundedDecode(result.units, limits.output).units
               [] tool = "whatweb" -> WhatWebOutput.units
               [] OTHER            -> result.units

NucleiLines ==
  LET output == BoundedDecode(result.units, limits.output)
  IN Kept(output.units, result.truncated \/ output.truncated)

\* What the properties say of an answer a.
CompleteIf(a) ==
  a.status = "SUCCESS" =>
    /\ result.status = "SUCCESS" /\ result.exit = 0
    /\ ~a.truncated
    /\ sink = "stdout" => result.units = written /\ ~result.truncated
    /\ \A i \in 1..Len(out) :
         out[i].form = "blank" \/ (Clean(out[i]) /\ out[i].fault = "none" /\ Has(a.items, out[i]))

PartialIf(a) ==
  a.status = "PARTIAL" =>
    /\ a.items # {}
    /\ \/ result.status = "TIMEOUT" \/ a.truncated \/ result.truncated
       \/ written % Width # 0
       \/ \E i \in 1..Len(out) : ~Fine(out[i])
       \/ tool = "nuclei" /\ Conflict(out, Len(out))

WrittenOut(a) ==
  \A item \in a.items : \E i \in 1..Len(out) :
    /\ Clean(out[i]) /\ Item(out[i]) = item
    /\ written >= (IF Cut /\ sink = "stdout" THEN 3 * i ELSE 3 * i - 1)
    /\ sink = "stdout" => result.units >= (IF Cut THEN 3 * i ELSE 3 * i - 1)
    /\ tool = "whatweb" => written = 3 * Len(out)

LinesKept(a) ==
  a.status \in {"SUCCESS", "PARTIAL"} =>
    \A i \in 1..(UnitsRead \div Width) : Clean(out[i]) => Has(a.items, out[i])

LeastOnly(a) ==
  tool = "nuclei" /\ a.status \in {"SUCCESS", "PARTIAL"} =>
    LET clean == {Item(NucleiLines[i]) : i \in {j \in 1..Len(NucleiLines) : Clean(NucleiLines[j])}}
    IN a.items = {x \in clean : \A y \in clean : y.id = x.id => x.val <= y.val}

Right(a) == /\ CompleteIf(a) /\ PartialIf(a) /\ WrittenOut(a) /\ LinesKept(a) /\ LeastOnly(a)

\* An answer of which nothing can be used is right.
LEMMA BareIsRight ==
  ASSUME NEW a, a.items = {}, a.status \notin {"SUCCESS", "PARTIAL"}
  PROVE  Right(a)
BY DEF Right, CompleteIf, PartialIf, WrittenOut, LinesKept, LeastOnly

\* What is left of a line cut in its text is no record: it is blank, or the
\* parser objects to it.
LEMMA BeginningIs ==
  ASSUME NEW l \in LineType
  PROVE  ~Clean(Beginning(l)) /\ (Fine(Beginning(l)) => l.form = "blank")
<1>1. CASE l.form = "blank"
  <2>1. Beginning(l) = l  BY <1>1 DEF Beginning
  <2> QED  BY <1>1, <2>1 DEF Clean
<1>2. CASE l.form # "blank"
  <2>1. Beginning(l) = [l EXCEPT !.form = "text"]  BY <1>2 DEF Beginning
  <2>2. Beginning(l).form = "text"  BY <2>1 DEF LineType
  <2> QED  BY <2>2 DEF Clean, Fine
<1> QED  BY <1>1, <1>2

\* An answer made of what was read of the lines captured is right, if what was
\* lost of the output shows.
LEMMA CaptureIsRight ==
  ASSUME RunnerInv, pc = "ended", result.status \in {"SUCCESS", "TIMEOUT"},
         NEW n \in Nat, NEW cut \in BOOLEAN, NEW t \in BOOLEAN, NEW counting \in BOOLEAN,
         NEW L, L = Kept(n, cut), NEW p, Reads(L, Discarded(n, cut), Len(L), p),
         NEW a, a = Judge(p, t, counting), n <= written,
         Cut => cut,
         n = written \/ t \/ result.status = "TIMEOUT",
         n % Width # 0 /\ cut => t \/ result.status = "TIMEOUT",
         sink = "stdout" => (result.truncated => t) /\ result.units >= n,
         p.items # {} /\ tool = "whatweb" => written = 3 * Len(out),
         n = UnitsRead,
         tool = "nuclei" => L = NucleiLines
  PROVE  Right(a)
<1>1. /\ RunnerTypeOK /\ PlaceInv /\ ResultIsHonest
  BY RunnerFacts
<1>2. Len(out) \in Nat /\ written \in Nat /\ written <= 3 * Len(out) /\ sink \in {"stdout", "file"}
      /\ result.units \in Nat
  <2>1. Len(out) \in Nat  BY OutIs
  <2> QED  BY <1>1, <2>1 DEF RunnerTypeOK, Width
<1>3. /\ AreLines(L) /\ Len(L) <= Len(out) /\ Len(L) \in Nat
      /\ \A i \in 1..Len(L) :
           \/ L[i] = out[i] /\ n >= (IF cut THEN 3 * i ELSE 3 * i - 1)
           \/ ~cut /\ n % Width # 0 /\ L[i] = Beginning(out[i])
      /\ \A i \in 1..(n \div Width) : i \in 1..Len(L) /\ L[i] = out[i]
      /\ ~cut => 3 * Len(L) >= n
      /\ n % Width = 0 => 3 * Len(L) = n
  <2>1. n <= 3 * Len(out)  BY <1>2
  <2> QED  BY <2>1, KeptIs DEF AreLines
<1>4. \A i \in 1..Len(L) : i \in 1..Len(out) /\ out[i] \in LineType  BY <1>2, <1>3, OutIs
<1>5. \A i \in 1..Len(L) :
        Clean(L[i]) => L[i] = out[i] /\ n >= (IF cut THEN 3 * i ELSE 3 * i - 1)
  BY <1>3, <1>4, BeginningIs
<1>6. /\ p \in AccType /\ NothingMadeUp(L, Len(L), p) /\ NothingLost(L, Len(L), p)
      /\ IssuesShow(L, Discarded(n, cut), Len(L), p)
      /\ IssuesHaveCause(L, Discarded(n, cut), Len(L), p)
      /\ LeastIsKept(L, Len(L), p)
  BY DEF Reads
<1>7. /\ a.items = p.items /\ a.truncated = t
      /\ a.status = "SUCCESS" => result.status # "TIMEOUT" /\ ~HasIssues(p) /\ ~t
      /\ a.status = "PARTIAL" =>
           p.items # {} /\ (result.status = "TIMEOUT" \/ HasIssues(p) \/ t)
  BY <1>6, JudgeIs
<1>8. CompleteIf(a)
  <2> SUFFICES ASSUME a.status = "SUCCESS"
               PROVE  /\ result.status = "SUCCESS" /\ result.exit = 0
                      /\ ~a.truncated
                      /\ sink = "stdout" => result.units = written /\ ~result.truncated
                      /\ \A i \in 1..Len(out) :
                           \/ out[i].form = "blank"
                           \/ Clean(out[i]) /\ out[i].fault = "none" /\ Has(a.items, out[i])
    BY DEF CompleteIf
  <2>1. result.status = "SUCCESS" /\ ~HasIssues(p) /\ ~t /\ ~a.truncated  BY <1>7
  <2>2. result.exit = 0 /\ program # "none"  BY <1>1, <2>1 DEF ResultIsHonest, ResultIsValid
  <2>3. sink = "stdout" => result.units = written /\ ~result.truncated
    BY <1>1, <2>1, <2>2 DEF ResultIsHonest
  <2>4. n = written /\ (cut => n % Width = 0)  BY <2>1
  <2>5. 3 * Len(L) >= written  BY <1>2, <1>3, <2>4
  <2>6. Len(L) = Len(out)
    <3>1. CASE out = <<>>
      <4>1. Len(out) = 0  BY <3>1
      <4> QED  BY <1>3, <4>1
    <3>2. CASE out # <<>>
      <4>1. written > 3 * (Len(out) - 1)  BY <1>1, <3>2 DEF PlaceInv, Width
      <4> QED  BY <1>2, <1>3, <2>5, <4>1
    <3> QED  BY <3>1, <3>2
  <2>7. \A i \in 1..Len(out) : Fine(L[i])  BY <1>6, <2>1, <2>6 DEF IssuesShow
  <2>8. \A i \in 1..Len(out) :
          \/ out[i].form = "blank"
          \/ Clean(out[i]) /\ out[i].fault = "none" /\ Has(a.items, out[i])
    <3> SUFFICES ASSUME NEW i \in 1..Len(out)
                 PROVE  \/ out[i].form = "blank"
                        \/ Clean(out[i]) /\ out[i].fault = "none" /\ Has(a.items, out[i])
      OBVIOUS
    <3>1. CASE L[i] = out[i]  BY <1>6, <1>7, <2>6, <2>7, <3>1 DEF NothingLost, Fine
    <3>2. CASE L[i] = Beginning(out[i])  BY <1>4, <2>6, <2>7, <3>2, BeginningIs
    <3> QED  BY <1>3, <2>6, <3>1, <3>2
  <2> QED  BY <2>1, <2>2, <2>3, <2>8
<1>9. PartialIf(a)
  <2> SUFFICES ASSUME a.status = "PARTIAL", ~(result.status = "TIMEOUT" \/ t)
               PROVE  \/ written % Width # 0
                      \/ \E i \in 1..Len(out) : ~Fine(out[i])
                      \/ tool = "nuclei" /\ Conflict(out, Len(out))
    BY <1>7, Zenon DEF PartialIf
  <2>1. HasIssues(p) /\ n = written  BY <1>7
  <2>2. ~(Discarded(n, cut) > 0)  BY DiscardedIs
  <2>3. CASE \E i \in 1..Len(L) : ~Fine(L[i])
    <3>1. PICK i \in 1..Len(L) : ~Fine(L[i])  BY <2>3
    <3> QED  BY <1>3, <1>4, <2>1, <3>1
  <2>4. CASE tool = "nuclei" /\ Conflict(L, Len(L))
    <3>1. Conflict(out, Len(out))  BY <1>4, <1>5, <2>4 DEF Conflict
    <3> QED  BY <2>4, <3>1
  <2> QED  BY <1>6, <2>1, <2>2, <2>3, <2>4 DEF IssuesHaveCause
<1>10. WrittenOut(a)
  <2> SUFFICES ASSUME NEW item \in p.items
               PROVE  \E i \in 1..Len(out) :
                        /\ Clean(out[i]) /\ Item(out[i]) = item
                        /\ written >= (IF Cut /\ sink = "stdout" THEN 3 * i ELSE 3 * i - 1)
                        /\ sink = "stdout" => result.units >= (IF Cut THEN 3 * i ELSE 3 * i - 1)
                        /\ tool = "whatweb" => written = 3 * Len(out)
    BY <1>7 DEF WrittenOut
  <2>1. PICK i \in 1..Len(L) : Clean(L[i]) /\ Item(L[i]) = item
    BY <1>6 DEF NothingMadeUp
  <2>2. /\ i \in 1..Len(out) /\ i \in Nat /\ Clean(out[i]) /\ Item(out[i]) = item
        /\ n >= (IF cut THEN 3 * i ELSE 3 * i - 1)
    BY <1>3, <1>4, <1>5, <2>1
  <2>3. n >= 3 * i - 1 /\ (Cut => n >= 3 * i)  BY <2>2
  <2>4. written >= (IF Cut /\ sink = "stdout" THEN 3 * i ELSE 3 * i - 1)  BY <1>2, <2>2, <2>3
  <2>5. sink = "stdout" => result.units >= (IF Cut THEN 3 * i ELSE 3 * i - 1)
    BY <1>2, <2>2, <2>3
  <2> QED  BY <2>2, <2>4, <2>5
<1>11. LinesKept(a)
  <2> SUFFICES ASSUME NEW i \in 1..(n \div Width), Clean(out[i])  PROVE Has(a.items, out[i])
    BY DEF LinesKept
  <2> QED  BY <1>3, <1>6, <1>7 DEF NothingLost
<1>12. LeastOnly(a)
  <2> SUFFICES ASSUME tool = "nuclei"
               PROVE  LET clean == {Item(L[i]) : i \in {j \in 1..Len(L) : Clean(L[j])}}
                      IN  p.items = {x \in clean : \A y \in clean : y.id = x.id => x.val <= y.val}
    BY <1>7 DEF LeastOnly
  <2> DEFINE clean == {Item(L[i]) : i \in {j \in 1..Len(L) : Clean(L[j])}}
  <2>1. \A i \in 1..Len(L) : /\ Item(L[i]) \in ItemType /\ Item(L[i]).id = L[i].id
                             /\ Item(L[i]).val = L[i].val
    <3>1. \A i \in 1..Len(L) : L[i] \in LineType  BY <1>3 DEF AreLines
    <3> QED  BY <3>1 DEF Item, ItemType, LineType
  <2>2. \A x : x \in clean <=> \E i \in 1..Len(L) : Clean(L[i]) /\ Item(L[i]) = x  OBVIOUS
  <2> HIDE DEF clean
  <2>3. ASSUME NEW x \in p.items
        PROVE  x \in clean /\ \A y \in clean : y.id = x.id => x.val <= y.val
    <3>1. x \in clean  BY <1>6, <2>2 DEF NothingMadeUp
    <3>2. ASSUME NEW y \in clean, y.id = x.id  PROVE x.val <= y.val
      <4>1. PICK i \in 1..Len(L) : Clean(L[i]) /\ Item(L[i]) = y  BY <2>2
      <4>2. L[i].id = x.id /\ L[i].val = y.val  BY <2>1, <3>2, <4>1
      <4> QED  BY <1>6, <4>1, <4>2 DEF LeastIsKept
    <3> QED  BY <3>1, <3>2
  <2>4. ASSUME NEW x \in clean, \A y \in clean : y.id = x.id => x.val <= y.val
        PROVE  x \in p.items
    <3>1. PICK i \in 1..Len(L) : Clean(L[i]) /\ Item(L[i]) = x  BY <2>2
    <3>2. PICK z \in p.items : z.id = L[i].id  BY <1>6, <3>1 DEF NothingLost, Has
    <3>3. z \in clean /\ z.val <= L[i].val  BY <1>6, <2>3, <3>1, <3>2 DEF LeastIsKept
    <3>4. z.id = x.id /\ z.val <= x.val /\ x \in ItemType  BY <2>1, <3>1, <3>2, <3>3
    <3>5. x.val <= z.val  BY <2>4, <3>3, <3>4
    <3>6. z \in ItemType  BY <1>6, AccIs
    <3>7. z.val = x.val  BY <3>4, <3>5, <3>6 DEF ItemType
    <3> QED  BY <3>4, <3>6, <3>7 DEF ItemType
  <2>5. p.items = {x \in clean : \A y \in clean : y.id = x.id => x.val <= y.val}
    BY <2>3, <2>4
  <2> QED  BY <2>5 DEF clean
<1> QED  BY <1>8, <1>9, <1>10, <1>11, <1>12 DEF Right

LEMMA ToolFailedIs ==
  ASSUME NEW t, NEW a, a = ToolFailed(t)
  PROVE  a.items = {} /\ a.status \notin {"SUCCESS", "PARTIAL"}
<1>1. \/ a = Empty("UNAVAILABLE") \/ a = Empty("ERROR")
      \/ a = [Empty("FAILURE") EXCEPT !.truncated = t]
  BY DEF ToolFailed
<1> QED  BY <1>1 DEF Empty

\* Nothing is parsed, and something was lost: the answer is a failure.
LEMMA LostIsRight ==
  ASSUME NEW p \in AccType, p.items = {}, p.malformed > 0, NEW t \in BOOLEAN,
         NEW a, a = Judge(p, t, TRUE)
  PROVE  Right(a)
<1>1. /\ a.items = p.items
      /\ a.status \in {"SUCCESS", "PARTIAL", "FAILURE"}
      /\ a.status = "SUCCESS" => ~HasIssues(p)
      /\ a.status = "PARTIAL" => p.items # {}
  BY JudgeIs
<1>2. HasIssues(p)  BY DEF HasIssues
<1> QED  BY <1>1, <1>2, BareIsRight

LEMMA CountedIs ==
  ASSUME NEW k \in Nat, NEW count \in Nat, NEW bare,
         bare = [Empty("NONE") EXCEPT !.malformed = k, !.records = count]
  PROVE  bare \in AccType /\ bare.items = {} /\ bare.malformed = k
<1>1. bare \in AccType  BY DEF AccType, Empty
<1>2. bare.items = {} /\ bare.malformed = k  BY DEF Empty
<1> QED  BY <1>1, <1>2

\* What the end of a run gives an adapter to read.
LEMMA EndFacts ==
  ASSUME RunnerInv, pc = "ended"
  PROVE  /\ result.units \in Nat /\ written \in Nat /\ result.units <= written
         /\ result.truncated \in BOOLEAN /\ Cut \in BOOLEAN
         /\ limits.output \in Nat \ {0} /\ Len(out) \in Nat /\ written <= 3 * Len(out)
         /\ sink \in {"stdout", "file"} /\ (tool # "whatweb" => sink = "stdout")
         /\ sink = "stdout" => result.units = written \/ result.truncated
         /\ sink = "file" => result.units = 0
         /\ written = 0 => Len(out) = 0
<1>1. RunnerTypeOK /\ PlaceInv /\ ResultIsHonest /\ Len(out) \in Nat  BY RunnerFacts, OutIs
<1>2. result.units \in Nat /\ written \in Nat /\ written <= 3 * Len(out)
      /\ sink \in {"stdout", "file"}
  BY <1>1 DEF RunnerTypeOK, Width
<1>3. result.truncated \in BOOLEAN  BY <1>1, Zenon DEF RunnerTypeOK
<1>4. Cut \in BOOLEAN  BY <1>3, Zenon DEF Cut
<1>5. limits.output \in Nat \ {0}  BY <1>1, ToolRunnerAssumption DEF RunnerTypeOK
<1>6. result.units <= written /\ (tool # "whatweb" => sink = "stdout")
      /\ (sink = "file" => result.units = 0)
  BY <1>1 DEF PlaceInv
<1>7. sink = "stdout" => result.units = written \/ result.truncated
  <2>1. CASE program = "none"
    <3>1. written = 0  BY <1>1, <2>1 DEF PlaceInv
    <3> QED  BY <1>2, <1>6, <3>1
  <2>2. CASE program # "none"  BY <1>1, <2>2 DEF ResultIsHonest
  <2> QED  BY <2>1, <2>2
<1>8. written = 0 => Len(out) = 0
  <2> SUFFICES ASSUME written = 0, out # <<>> PROVE FALSE  BY <1>1
  <2>1. written > 3 * (Len(out) - 1)  BY <1>1 DEF PlaceInv, Width
  <2>2. Len(out) # 0  BY <1>1 DEF RunnerTypeOK
  <2> QED  BY <1>1, <2>1, <2>2
<1> QED  BY <1>1, <1>2, <1>3, <1>4, <1>5, <1>6, <1>7, <1>8, Zenon

\* Subfinder, HTTPX and Katana read what the runner returns.
LEMMA LinesMapIsRight ==
  ASSUME RunnerInv, pc = "ended", result.status \in {"SUCCESS", "TIMEOUT"},
         tool \in {"subfinder", "httpx", "katana"}, NEW counting \in BOOLEAN, NEW a,
         a = Judge(Parse(Kept(result.units, Cut), Discarded(result.units, Cut)),
                   result.truncated, counting)
  PROVE  Right(a)
<1> DEFINE n == result.units
           L == Kept(n, Cut)
           p == Parse(L, Discarded(n, Cut))
<1>1. /\ n \in Nat /\ written \in Nat /\ n <= written
      /\ result.truncated \in BOOLEAN /\ Cut \in BOOLEAN
      /\ Len(out) \in Nat /\ written <= 3 * Len(out) /\ sink = "stdout"
      /\ n = written \/ result.truncated
  BY EndFacts
<1>2. tool \in ToolNames /\ tool \notin {"nuclei", "whatweb"}  BY DEF ToolNames
<1>3. UnitsRead = n  BY <1>2 DEF UnitsRead
<1>4. n % Width # 0 /\ Cut => result.truncated \/ result.status = "TIMEOUT"  BY DEF Cut
<1> HIDE DEF n, L
<1>5. AreLines(L)
  <2>1. n <= 3 * Len(out)  BY <1>1
  <2> QED  BY <1>1, <2>1, KeptIs DEF L
<1>6. Reads(L, Discarded(n, Cut), Len(L), p)  BY <1>1, <1>2, <1>5, DiscardedIs, ParseReads
<1>7. a = Judge(p, result.truncated, counting)  BY DEF n, L
<1>8. result.units >= n  BY <1>1 DEF n
<1> HIDE DEF p
<1> QED  BY <1>1, <1>2, <1>3, <1>4, <1>6, <1>7, <1>8, CaptureIsRight DEF L

LEMMA DecodeIs ==
  ASSUME NEW n \in Nat, NEW limit \in Nat, NEW d, d = BoundedDecode(n, limit)
  PROVE  /\ d.units \in Nat /\ d.units <= n /\ d.units <= limit
         /\ d.truncated \in BOOLEAN /\ (d.truncated \/ d.units = n)
<1>1. d.units = (IF n > limit THEN limit ELSE n)  BY DEF BoundedDecode
<1>2. d.truncated = (n > limit)  BY DEF BoundedDecode
<1>3. d.truncated \in BOOLEAN
  <2>1. (n > limit) \in BOOLEAN  OBVIOUS
  <2> QED  BY <1>2, <2>1, Zenon
<1>4. ~(n > limit) => d.units = n  BY <1>1
<1>5. d.truncated \/ d.units = n  BY <1>2, <1>4, Zenon
<1>6. d.units \in Nat /\ d.units <= n /\ d.units <= limit  BY <1>1
<1> QED  BY <1>3, <1>5, <1>6

\* Nuclei reads the leading units of it, and nothing after a timeout.
LEMMA NucleiMapIsRight ==
  ASSUME RunnerInv, pc = "ended", tool = "nuclei", NEW a, a = NucleiMap
  PROVE  Right(a)
<1> DEFINE output == BoundedDecode(result.units, limits.output)
           n      == output.units
           cut    == result.truncated \/ output.truncated
           L      == Kept(n, cut)
           count  == Cardinality({i \in 1..Len(L) : L[i].form # "blank"})
           lost   == Discarded(n, cut)
           p      == Parse(L, lost)
<1>1. /\ result.units \in Nat /\ written \in Nat /\ result.units <= written
      /\ result.truncated \in BOOLEAN /\ limits.output \in Nat
      /\ Len(out) \in Nat /\ written <= 3 * Len(out) /\ sink = "stdout"
      /\ result.units = written \/ result.truncated
  BY EndFacts
<1>2. CASE result.status = "TIMEOUT"
  <2>1. a = [Empty("FAILURE") EXCEPT !.truncated = result.truncated]
    BY <1>2 DEF NucleiMap
  <2> QED  BY <2>1, BareIsRight DEF Empty
<1>3. CASE result.status \notin {"TIMEOUT", "SUCCESS"}
  <2>1. a = ToolFailed(result.truncated)  BY <1>3 DEF NucleiMap
  <2> QED  BY <2>1, ToolFailedIs, BareIsRight
<1>4. CASE result.status = "SUCCESS"
  <2>1. /\ n \in Nat /\ n <= result.units /\ output.truncated \in BOOLEAN
        /\ output.truncated \/ n = result.units
    <3> HIDE DEF output
    <3>1. output = BoundedDecode(result.units, limits.output)  BY DEF output
    <3> QED  BY <1>1, <3>1, DecodeIs DEF n
  <2>2. cut \in BOOLEAN  BY <1>1, <2>1, Zenon
  <2>3. UnitsRead = n /\ NucleiLines = L  BY DEF UnitsRead, NucleiLines
  <2>4. tool \in ToolNames /\ tool # "whatweb"  BY DEF ToolNames
  <2>5. Cut => cut  BY <1>4 DEF Cut
  <2>6. a = CASE count > limits.records ->
                   Judge([Empty("NONE") EXCEPT !.malformed = lost + 1, !.records = count], cut, TRUE)
              [] count <= limits.records -> Judge(p, cut, TRUE)
              [] OTHER -> ToolFailed(result.truncated)
    <3>1. a = CASE result.status = "TIMEOUT" ->
                     [Empty("FAILURE") EXCEPT !.truncated = result.truncated]
                [] result.status = "SUCCESS" /\ count > limits.records ->
                     Judge([Empty("NONE") EXCEPT !.malformed = lost + 1, !.records = count], cut, TRUE)
                [] result.status = "SUCCESS" /\ count <= limits.records -> Judge(p, cut, TRUE)
                [] OTHER -> ToolFailed(result.truncated)
      BY Zenon DEF NucleiMap
    <3> HIDE DEF p, count, lost, cut
    <3> QED  BY <1>4, <3>1
  <2>7. n = written \/ cut  BY <1>1, <2>1
  <2>8. result.truncated => cut  OBVIOUS
  <2>9. AreLines(L)
    <3>1. n <= 3 * Len(out)  BY <1>1, <2>1
    <3> HIDE DEF n, cut
    <3> QED  BY <2>1, <2>2, <3>1, KeptIs
  <2>10. lost \in Nat
    <3> HIDE DEF n, cut
    <3> QED  BY <2>1, <2>2, DiscardedIs
  <2>11. count \in Nat
    <3>1. Len(L) \in Nat  BY <2>9 DEF AreLines
    <3> HIDE DEF L
    <3>2. IsFiniteSet(1..Len(L))  BY <3>1, FS_Interval
    <3>3. IsFiniteSet({i \in 1..Len(L) : L[i].form # "blank"})  BY <3>2, FS_Subset
    <3> QED  BY <3>3, FS_CardinalityType
  <2> HIDE DEF n, cut, L, lost, output, count
  <2>12. Reads(L, lost, Len(L), p)  BY <2>4, <2>9, <2>10, ParseReads
  <2> HIDE DEF p
  <2>13. CASE a = Judge(p, cut, TRUE)
    <3>1. n <= written /\ result.units >= n  BY <1>1, <2>1
    <3> QED
      BY <1>1, <1>4, <2>1, <2>2, <2>3, <2>4, <2>5, <2>7, <2>8, <2>12, <2>13, <3>1,
         CaptureIsRight DEF L, lost
  <2>14. CASE a = Judge([Empty("NONE") EXCEPT !.malformed = lost + 1, !.records = count], cut, TRUE)
    <3> DEFINE k == lost + 1
               bare == [Empty("NONE") EXCEPT !.malformed = k, !.records = count]
    <3>2. a = Judge(bare, cut, TRUE)  BY <2>14
    <3>3. k \in Nat /\ k > 0  BY <2>10
    <3> HIDE DEF k
    <3>1. bare \in AccType /\ bare.items = {} /\ bare.malformed = k
      BY <2>11, <3>3, CountedIs
    <3> HIDE DEF bare
    <3> QED  BY <2>2, <3>1, <3>2, <3>3, LostIsRight
  <2>15. CASE a = ToolFailed(result.truncated)  BY <2>15, ToolFailedIs, BareIsRight
  <2> QED  BY <2>6, <2>13, <2>14, <2>15
<1> QED  BY <1>2, <1>3, <1>4

\* What WhatWeb looks at is all there is, or says that it is not.
LEMMA WhatWebOutputIs ==
  ASSUME RunnerInv, pc = "ended", NEW o, o = WhatWebOutput
  PROVE  /\ o.units \in Nat /\ o.units <= written /\ o.truncated \in BOOLEAN
         /\ o.units = written \/ o.truncated
         /\ sink = "stdout" => (result.truncated => o.truncated) /\ result.units >= o.units
<1>1. /\ result.units \in Nat /\ written \in Nat /\ result.units <= written
      /\ result.truncated \in BOOLEAN /\ limits.output \in Nat
      /\ sink \in {"stdout", "file"}
      /\ sink = "stdout" => result.units = written \/ result.truncated
      /\ sink = "file" => result.units = 0
  BY EndFacts
<1> DEFINE d == BoundedDecode(result.units, limits.output)
<1>2. /\ d.units \in Nat /\ d.units <= result.units
      /\ d.truncated \in BOOLEAN /\ (d.truncated \/ d.units = result.units)
  <2> HIDE DEF d
  <2>1. d = BoundedDecode(result.units, limits.output)  BY DEF d
  <2> QED  BY <1>1, <2>1, DecodeIs
<1>3. CASE sink = "file" /\ written > limits.output
  <2>2. written \notin 1..limits.output  BY <1>1, <1>3
  <2>1. o = [units |-> 0, truncated |-> TRUE]  BY <1>3, <2>2 DEF WhatWebOutput
  <2> QED  BY <1>1, <1>3, <2>1
<1>4. CASE sink = "file" /\ written \in 1..limits.output
  <2>1. o = [units |-> written, truncated |-> FALSE]
    BY <1>1, <1>4 DEF WhatWebOutput
  <2> QED  BY <1>1, <1>4, <2>1
<1>5. CASE ~(sink = "file" /\ written > limits.output)
           /\ ~(sink = "file" /\ written \in 1..limits.output)
  <2>1. o = [units |-> d.units, truncated |-> d.truncated \/ result.truncated]
    BY <1>5 DEF WhatWebOutput
  <2>2. o.units = d.units /\ o.truncated = (d.truncated \/ result.truncated)
    BY <2>1
  <2>3. (d.truncated \/ result.truncated) \in BOOLEAN  BY Zenon
  <2>4. o.truncated \in BOOLEAN  BY <2>2, <2>3, Zenon
  <2>5. o.truncated <=> d.truncated \/ result.truncated  BY <2>2, Zenon
  <2> HIDE DEF d
  <2>6. CASE sink = "file"
    <3>1. written = 0  BY <1>1, <1>5, <2>6
    <3> QED  BY <1>1, <1>2, <2>2, <2>4, <2>6, <3>1
  <2>7. CASE sink = "stdout"
    <3>1. o.units = written \/ o.truncated  BY <1>1, <1>2, <2>2, <2>5, <2>7
    <3>2. result.truncated => o.truncated  BY <2>5
    <3> QED  BY <1>1, <1>2, <2>2, <2>4, <2>7, <3>1, <3>2
  <2> QED  BY <1>1, <2>6, <2>7
<1> QED  BY <1>3, <1>4, <1>5

LEMMA WhatWebMapIsRight ==
  ASSUME RunnerInv, pc = "ended", tool = "whatweb", NEW a, a = WhatWebMap
  PROVE  Right(a)
<1> DEFINE o == WhatWebOutput
           n == o.units
           t == o.truncated
<1>1. /\ n \in Nat /\ n <= written /\ t \in BOOLEAN /\ (n = written \/ t)
      /\ sink = "stdout" => (result.truncated => t) /\ result.units >= n
  <2> HIDE DEF o
  <2>1. o = WhatWebOutput  BY DEF o
  <2> QED  BY <2>1, WhatWebOutputIs
<1>2. /\ written \in Nat /\ Len(out) \in Nat /\ written <= 3 * Len(out) /\ Cut \in BOOLEAN
      /\ out \in Seq(Lines[tool])
  BY EndFacts, OutIs
<1>3. UnitsRead = n /\ tool \in ToolNames /\ tool # "nuclei"  BY DEF UnitsRead, ToolNames
<1>4. CASE result.status \notin {"SUCCESS", "TIMEOUT"}
  <2>1. a = ToolFailed(t)  BY <1>4 DEF WhatWebMap
  <2> QED  BY <2>1, ToolFailedIs, BareIsRight
<1>5. CASE result.status \in {"SUCCESS", "TIMEOUT"}
  <2>1. a = Judge(WhatWebParse(n), t, TRUE)  BY <1>5 DEF WhatWebMap
  <2> HIDE DEF o, n, t
  <2>2. ASSUME n % Width = 0, NEW L, L = SubSeq(out, 1, n \div Width),
               NEW p, Reads(L, 0, Len(L), p), a = Judge(p, t, TRUE),
               p.items # {} => written = 3 * Len(out)
        PROVE  Right(a)
    <3>1. L = Kept(n, TRUE) /\ Discarded(n, TRUE) = 0 /\ TRUE \in BOOLEAN
      BY <2>2 DEF Kept, Discarded
    <3>2. Reads(L, Discarded(n, TRUE), Len(L), p)  BY <2>2, <3>1
    <3> QED  BY <1>1, <1>2, <1>3, <1>5, <2>2, <3>1, <3>2, CaptureIsRight
  <2>3. CASE n = 0
    <3>1. WhatWebParse(n) = Start0(0)
      <4>1. WhatWebParse(n) = Empty("NONE")
        <5>1. ~IsDocument(n)  BY <2>3 DEF IsDocument
        <5> QED  BY <2>3, <5>1 DEF WhatWebParse
      <4>2. Start0(0) = Empty("NONE")  BY DEF Start0, Empty
      <4> QED  BY <4>1, <4>2
    <3> DEFINE L == SubSeq(out, 1, n \div Width)
    <3>2. n % Width = 0 /\ n \div Width = 0  BY <2>3 DEF Width
    <3>3. Len(L) = 0  BY <1>2, <3>2
    <3> HIDE DEF L
    <3>4. Reads(L, 0, Len(L), Start0(0))  BY <3>3, ReadsNone
    <3>5. Start0(0).items = {}  BY DEF Start0, Empty
    <3> QED  BY <2>1, <2>2, <3>1, <3>2, <3>4, <3>5 DEF L
  <2>4. CASE n > 0 /\ ~IsDocument(n)
    <3> DEFINE one == 1
               bare == [Empty("NONE") EXCEPT !.malformed = one, !.records = one]
    <3>1. WhatWebParse(n) = bare  BY <1>1, <2>4 DEF WhatWebParse
    <3>3. one \in Nat /\ one > 0  OBVIOUS
    <3> HIDE DEF one
    <3>2. bare \in AccType /\ bare.items = {} /\ bare.malformed = one  BY <3>3, CountedIs
    <3> HIDE DEF bare
    <3> QED  BY <1>1, <2>1, <3>1, <3>2, <3>3, LostIsRight
  <2>5. CASE n > 0 /\ IsDocument(n) /\ Len(out) - 1 > limits.records
    <3> DEFINE one == 1
               count == Len(out) - 1
               bare == [Empty("NONE") EXCEPT !.malformed = one, !.records = count]
    <3>4. one \in Nat /\ one > 0  OBVIOUS
    <3>1. WhatWebParse(n) = bare  BY <1>1, <2>5 DEF WhatWebParse
    <3>2. count \in Nat
      <4>1. Len(out) > 0  BY <1>2, <2>5 DEF IsDocument, Width
      <4> QED  BY <1>2, <4>1
    <3> HIDE DEF one, count
    <3>3. bare \in AccType /\ bare.items = {} /\ bare.malformed = one
      BY <3>2, <3>4, CountedIs
    <3> HIDE DEF bare
    <3> QED  BY <1>1, <2>1, <3>1, <3>3, <3>4, LostIsRight
  <2>6. CASE n > 0 /\ IsDocument(n) /\ ~(Len(out) - 1 > limits.records)
    <3>1. WhatWebParse(n) = Parse(out, 0)  BY <1>1, <2>6 DEF WhatWebParse
    <3>2. n = 3 * Len(out)  BY <2>6 DEF IsDocument, Width
    <3>3. n % Width = 0 /\ n \div Width = Len(out)
      <4> DEFINE q == n \div Width
                 m == n % Width
      <4>1. q \in Nat /\ m \in 0..2 /\ n = 3 * q + m  BY <1>1, Units
      <4> HIDE DEF q, m
      <4>2. q = Len(out) /\ m = 0  BY <1>2, <3>2, <4>1
      <4> QED  BY <4>2 DEF q, m
    <3>4. SubSeq(out, 1, n \div Width) = out  BY <1>2, <3>3
    <3>5. AreLines(out)  BY <1>2, OutIs DEF AreLines
    <3>6. Reads(out, 0, Len(out), Parse(out, 0))  BY <1>3, <3>5, ParseReads
    <3>7. written = 3 * Len(out)  BY <1>1, <1>2, <3>2
    <3> DEFINE p == Parse(out, 0)
    <3>8. a = Judge(p, t, TRUE) /\ Reads(out, 0, Len(out), p)  BY <2>1, <3>1, <3>6
    <3> HIDE DEF p
    <3> QED  BY <2>2, <3>3, <3>4, <3>7, <3>8
  <2> QED  BY <1>1, <2>3, <2>4, <2>5, <2>6
<1> QED  BY <1>4, <1>5

\* Whatever the tool, the answer is right.
LEMMA MapIsRight ==
  ASSUME RunnerInv, pc = "ended", NEW a,
         a = CASE result.status = "RAISED" -> Empty("ERROR")
               [] result.status # "RAISED" /\ tool = "subfinder" -> SubfinderMap
               [] result.status # "RAISED" /\ tool = "httpx"     -> HttpxMap
               [] result.status # "RAISED" /\ tool = "katana"    -> KatanaMap
               [] result.status # "RAISED" /\ tool = "nuclei"    -> NucleiMap
               [] OTHER                                          -> WhatWebMap
  PROVE  Right(a)
<1>1. tool \in ToolNames  BY OutIs
<1>2. CASE result.status = "RAISED"
  <2>1. a = Empty("ERROR")  BY <1>2
  <2> QED  BY <2>1, BareIsRight DEF Empty
<1>3. CASE result.status # "RAISED" /\ tool \in {"subfinder", "httpx", "katana"}
  <2>1. a = SubfinderMap \/ a = HttpxMap \/ a = KatanaMap  BY <1>3
  <2>2. CASE result.status \notin {"SUCCESS", "TIMEOUT"}
    <3>1. a = ToolFailed(result.truncated)
      BY <2>1, <2>2 DEF SubfinderMap, HttpxMap, KatanaMap
    <3> QED  BY <3>1, ToolFailedIs, BareIsRight
  <2>3. CASE result.status \in {"SUCCESS", "TIMEOUT"}
    <3>1. \E counting \in BOOLEAN :
            a = Judge(Parse(Kept(result.units, Cut), Discarded(result.units, Cut)),
                      result.truncated, counting)
      BY <2>1, <2>3, Zenon DEF SubfinderMap, HttpxMap, KatanaMap
    <3> QED  BY <1>3, <2>3, <3>1, LinesMapIsRight
  <2> QED  BY <2>2, <2>3
<1>4. CASE result.status # "RAISED" /\ tool = "nuclei"
  <2>1. a = NucleiMap  BY <1>4
  <2> QED  BY <1>4, <2>1, NucleiMapIsRight
<1>5. CASE result.status # "RAISED" /\ tool = "whatweb"
  <2>1. a = WhatWebMap  BY <1>5
  <2> QED  BY <1>5, <2>1, WhatWebMapIsRight
<1> QED  BY <1>1, <1>2, <1>3, <1>4, <1>5 DEF ToolNames

-----------------------------------------------------------------------------
(* The call *)

\* An adapter that was given targets answers once its run has ended, and
\* rightly; one that was given none has answered at once.
CallInv ==
  /\ targets \in {"some", "none", "invalid"}
  /\ answer.status # "NONE" =>
       /\ called
       /\ targets = "some" => pc = "ended" /\ Right(answer)
       /\ targets # "some" => answer \in {Empty("ERROR"), Empty("SUCCESS")}
  /\ called /\ targets # "some" => answer.status # "NONE"

ToolsInv == RunnerInv /\ CallInv

\* While the runner and the items stand still, an answer stays right.
LEMMA RightStays ==
  ASSUME UNCHANGED runnerVars, NEW a, Right(a), answer' = a
  PROVE  Right(answer)'
<1>1. /\ tool' = tool /\ limits' = limits /\ out' = out /\ written' = written
      /\ sink' = sink /\ result' = result
  BY DEF runnerVars, procVars
<1>2. /\ \A l : Clean(l)' <=> Clean(l)
      /\ \A l : Fine(l)' <=> Fine(l)
      /\ \A l : Item(l)' = Item(l)
      /\ \A l : Has(answer.items, l)' <=> Has(a.items, l)
  BY <1>1 DEF Clean, Fine, Item, Has
<1>3. (Cut' <=> Cut) /\ Width' = Width  BY <1>1 DEF Cut, Width
<1>4. Conflict(out, Len(out))' <=> Conflict(out, Len(out))  BY <1>1, <1>2 DEF Conflict
<1>5. UnitsRead' = UnitsRead
  BY <1>1 DEF UnitsRead, BoundedDecode, WhatWebOutput
<1>6. NucleiLines' = NucleiLines
  BY <1>1 DEF NucleiLines, Kept, SplitLines, BoundedDecode, Beginning, Width
<1>7. CompleteIf(answer)'  BY <1>1, <1>2 DEF Right, CompleteIf
<1>8. PartialIf(answer)'  BY <1>1, <1>2, <1>3, <1>4 DEF Right, PartialIf
<1>9. WrittenOut(answer)'  BY <1>1, <1>2, <1>3 DEF Right, WrittenOut
<1>10. LinesKept(answer)'  BY <1>1, <1>2, <1>3, <1>5 DEF Right, LinesKept
<1>11. LeastOnly(answer)'  BY <1>1, <1>2, <1>6 DEF Right, LeastOnly
<1> QED  BY <1>7, <1>8, <1>9, <1>10, <1>11 DEF Right

LEMMA InitTools == Init => ToolsInv
<1> SUFFICES ASSUME Init PROVE ToolsInv  OBVIOUS
<1>1. RunnerInv  BY InitRunner DEF Init
<1>2. answer.status = "NONE"  BY DEF Init, Empty
<1> QED  BY <1>1, <1>2 DEF Init, ToolsInv, CallInv

\* Once the run of a call has ended nothing moves but the answer.
LEMMA EndedIsEnded ==
  ASSUME RunnerInv, pc = "ended", [Next]_vars  PROVE UNCHANGED runnerVars
<1>1. result # NoResult  BY RunnerFacts DEF PlaceInv, NoResult
<1>2. CASE Call  BY <1>2 DEF Call
<1>3. CASE MapResult  BY <1>3 DEF MapResult, Answer
<1>4. CASE Resolve  BY <1>4 DEF Resolve
<1>5. CASE RunnerStep
  BY <1>5 DEF RunnerStep, Locate, ProbeAnswers, ProbeTimesOut, Start
<1>6. CASE ProgramStep  BY <1>6 DEF ProgramStep, WriteLine, WriteOn, Exit
<1>7. CASE Timeout  BY <1>7 DEF Timeout
<1>8. CASE Environment  BY <1>1, <1>8 DEF Environment, Replace
<1>9. CASE UNCHANGED vars  BY <1>9 DEF vars
<1> QED  BY <1>2, <1>3, <1>4, <1>5, <1>6, <1>7, <1>8, <1>9 DEF Next

LEMMA CallKeeps == ASSUME ToolsInv, [Next]_vars  PROVE CallInv'
<1>1. RunnerInv /\ CallInv  BY DEF ToolsInv
<1>2. targets \in {"some", "none", "invalid"}  BY <1>1 DEF CallInv
<1>3. CASE Call
  <2>1. ~called /\ called' /\ targets' = targets /\ answer.status = "NONE"
    BY <1>1, <1>3 DEF Call, CallInv
  <2>2. CASE targets = "some"
    <3>1. answer' = answer  BY <1>3, <2>2 DEF Call
    <3> QED  BY <1>2, <2>1, <2>2, <3>1 DEF CallInv
  <2>3. CASE targets # "some"
    <3>1. answer' \in {Empty("ERROR"), Empty("SUCCESS")}
      <4>1. CASE targets = "none"  BY <1>3, <4>1 DEF Call
      <4>2. CASE targets = "invalid"  BY <1>3, <4>2 DEF Call
      <4> QED  BY <1>2, <2>3, <4>1, <4>2
    <3>2. answer'.status # "NONE"  BY <3>1 DEF Empty
    <3> QED  BY <1>2, <2>1, <2>3, <3>1, <3>2 DEF CallInv, Empty
  <2> QED  BY <2>2, <2>3
<1>4. CASE MapResult
  <2>1. called /\ pc = "ended" /\ answer.status = "NONE"  BY <1>4 DEF MapResult
  <2>2. targets = "some"  BY <1>1, <2>1 DEF CallInv
  <2>3. UNCHANGED runnerVars /\ targets' = targets /\ called' = called
    BY <1>4 DEF MapResult, Answer
  <2>4. PICK a : a = answer'  OBVIOUS
  <2>5. Right(a)
    <3>1. a = CASE result.status = "RAISED" -> Empty("ERROR")
                [] result.status # "RAISED" /\ tool = "subfinder" -> SubfinderMap
                [] result.status # "RAISED" /\ tool = "httpx"     -> HttpxMap
                [] result.status # "RAISED" /\ tool = "katana"    -> KatanaMap
                [] result.status # "RAISED" /\ tool = "nuclei"    -> NucleiMap
                [] OTHER                                          -> WhatWebMap
      BY <1>4, <2>4, Zenon DEF MapResult, Answer
    <3> QED  BY <1>1, <2>1, <3>1, MapIsRight
  <2>6. Right(answer)'  BY <2>3, <2>4, <2>5, RightStays
  <2>7. pc' = pc  BY <2>3 DEF runnerVars
  <2> QED  BY <1>2, <2>1, <2>2, <2>3, <2>6, <2>7 DEF CallInv
<1>5. CASE UNCHANGED <<targets, called, answer>>
  <2>1. targets' = targets /\ called' = called /\ answer' = answer  BY <1>5
  <2>2. answer.status # "NONE" /\ targets = "some" => pc' = "ended" /\ Right(answer)'
    <3> SUFFICES ASSUME answer.status # "NONE", targets = "some"
                 PROVE  pc' = "ended" /\ Right(answer)'
      OBVIOUS
    <3>1. pc = "ended" /\ Right(answer)  BY <1>1 DEF CallInv
    <3>2. UNCHANGED runnerVars  BY <1>1, <3>1, EndedIsEnded
    <3>3. pc' = pc  BY <3>2 DEF runnerVars
    <3> QED  BY <2>1, <3>1, <3>2, <3>3, RightStays
  <2> QED  BY <1>1, <2>1, <2>2 DEF CallInv, Empty
<1> QED  BY <1>3, <1>4, <1>5 DEF Next, vars

\* The invariant of a call of an adapter.
THEOREM ToolsInvariant == Spec => []ToolsInv
<1>1. Init => ToolsInv  BY InitTools
<1>2. ToolsInv /\ [Next]_vars => ToolsInv'
  <2> SUFFICES ASSUME ToolsInv, [Next]_vars PROVE ToolsInv'  OBVIOUS
  <2>1. RunnerInv /\ targets \in {"some", "none", "invalid"}  BY DEF ToolsInv, CallInv
  <2>2. RunnerInv'  BY <2>1, RunnerKeeps
  <2>3. CallInv'  BY CallKeeps
  <2> QED  BY <2>2, <2>3 DEF ToolsInv
<1> QED  BY <1>1, <1>2, PTL DEF Spec

-----------------------------------------------------------------------------
(* The properties *)

\* The runner's state has its types in every reachable state, whatever the
\* tools, candidates, lines and limits (tool_runner.py).
THEOREM RunnerTypeCorrect == Spec => []RunnerTypeOK
<1>1. ToolsInv => RunnerTypeOK  BY DEF ToolsInv, RunnerInv
<1> QED  BY <1>1, ToolsInvariant, PTL

\* A readiness check keeps its word (the selection that resolve and run share,
\* _select): while no executable has changed and no probe has timed out, a run
\* reaches the start of the executable that resolve found, and starts the tool
\* that its definition identifies.
THEOREM ReadyMeansRunnableHolds == Spec => []ReadyMeansRunnable
<1>1. ToolsInv => ReadyMeansRunnable  BY RunnerInvImplies DEF ToolsInv
<1> QED  BY <1>1, ToolsInvariant, PTL

\* What the properties say, in the words of the properties.
LEMMA RepresentedIsHas == \A l : Represented(l) <=> Has(answer.items, l)
BY DEF Represented, Has

LEMMA AnswerIs ==
  ASSUME ToolsInv
  PROVE  \/ answer.status = "NONE"
         \/ answer.status # "NONE" /\ targets = "some" /\ Right(answer)
         \/ answer = Empty("ERROR")
         \/ answer = Empty("SUCCESS") /\ targets # "some"
BY DEF ToolsInv, CallInv

\* A report tells what happened (tool_runner.py run and the _map_result of the
\* five adapters): the runner's result is what the program did, SUCCESS means
\* that nothing is missing, and PARTIAL that something is and something is not.
THEOREM ReportIsHonestHolds == Spec => []ReportIsHonest
<1>1. ToolsInv => ReportIsHonest
  <2> SUFFICES ASSUME ToolsInv PROVE ReportIsHonest  OBVIOUS
  <2>1. ResultIsHonest  BY DEF ToolsInv, RunnerInv
  <2>2. SuccessIsComplete
    <3>1. CASE Right(answer) /\ targets = "some"
      BY <3>1, RepresentedIsHas DEF Right, CompleteIf, SuccessIsComplete
    <3>2. CASE answer.status # "SUCCESS" \/ targets # "some"
      BY <3>2 DEF SuccessIsComplete
    <3> QED  BY <3>1, <3>2, AnswerIs DEF Empty
  <2>3. PartialIsHonest
    <3>1. CASE Right(answer)
      BY <3>1 DEF Right, PartialIf, PartialIsHonest, Fine, Conflict
    <3>2. CASE answer.status # "PARTIAL"  BY <3>2 DEF PartialIsHonest
    <3> QED  BY <3>1, <3>2, AnswerIs DEF Empty
  <2> QED  BY <2>1, <2>2, <2>3 DEF ReportIsHonest
<1> QED  BY <1>1, ToolsInvariant, PTL

\* A cut falls exactly where the output was cut (discard_unterminated_final_line
\* of _parse_jsonl, _parse_json): nothing is made of a fragment, and no complete
\* line before it is lost.
THEOREM CaptureIsExactHolds == Spec => []CaptureIsExact
<1>1. ToolsInv => CaptureIsExact
  <2> SUFFICES ASSUME ToolsInv PROVE CaptureIsExact  OBVIOUS
  <2>1. NothingFromFragments
    <3>1. CASE Right(answer)
      BY <3>1 DEF Right, WrittenOut, NothingFromFragments, Width
    <3>2. CASE answer.status = "NONE" \/ answer.items = {}
      BY <3>2 DEF NothingFromFragments, Answered
    <3> QED  BY <3>1, <3>2, AnswerIs DEF Empty
  <2>2. CompleteLinesAreKept
    <3>1. CASE Right(answer)
      BY <3>1, RepresentedIsHas DEF Right, LinesKept, CompleteLinesAreKept, UnitsRead
    <3>2. CASE answer.status \notin {"SUCCESS", "PARTIAL"} \/ targets # "some"
      BY <3>2 DEF CompleteLinesAreKept
    <3> QED  BY <3>1, <3>2, AnswerIs DEF Empty
  <2> QED  BY <2>1, <2>2 DEF CaptureIsExact
<1> QED  BY <1>1, ToolsInvariant, PTL

\* Which of several Nuclei records with one fingerprint is reported does not
\* depend on their order (nuclei/provider.py _parse_jsonl, _finding_value_key).
THEOREM SurvivorIsLeastHolds == Spec => []SurvivorIsLeast
<1>1. ToolsInv => SurvivorIsLeast
  <2> SUFFICES ASSUME ToolsInv PROVE SurvivorIsLeast  OBVIOUS
  <2>1. CASE Right(answer)
    BY <2>1 DEF Right, LeastOnly, SurvivorIsLeast, NucleiLines
  <2>2. CASE answer.status \notin {"SUCCESS", "PARTIAL"} \/ targets # "some"
    BY <2>2 DEF SurvivorIsLeast
  <2> QED  BY <2>1, <2>2, AnswerIs DEF Empty
<1> QED  BY <1>1, ToolsInvariant, PTL
=============================================================================
