----------------------------- MODULE ToolRunner -----------------------------
(***************************************************************************)
(* LocalSubprocessToolRunner (adapters/tool_runner.py): the selection of an *)
(* executable among the candidates of a tool definition, the identity       *)
(* probe, and the run of one external program under a timeout and an output *)
(* limit.                                                                   *)
(*                                                                          *)
(* The file system and the program are the environment. An executable may   *)
(* be replaced or removed between the moment it is located, the moment it   *)
(* is probed and the moment it is started. A program writes as it pleases,  *)
(* exits with any code, or never exits.                                     *)
(*                                                                          *)
(* Output is counted in units, three to a line: its beginning, the rest of  *)
(* its text, its newline. A prefix of the output is a number of units.      *)
(***************************************************************************)
EXTENDS Integers, Sequences

CONSTANTS
  Tools,      \* tool identities
  Candidates, \* number of executable_candidates of each tool
  Probed,     \* tools whose definition has an identity_output_pattern
  Lines,      \* the lines a program started for a tool may write
  Limits      \* configured limits, in units and records, with two bounds of
              \* the instance: lines one program writes, replacements of an
              \* executable

ASSUME ToolRunnerAssumption ==
  /\ Candidates \in [Tools -> Nat \ {0}]
  /\ Probed \subseteq Tools
  /\ Limits \subseteq [stdout : Nat \ {0}, output : Nat \ {0}, records : Nat \ {0},
                      lines : Nat, changes : Nat]

VARIABLES
  tool, limits, \* the definition and the configuration of this call
  disk,       \* what each candidate's name leads to
  changes,    \* replacements so far
  op,         \* "resolve" or "run", whichever selects
  pc,         \* where the runner is
  request,    \* what ToolInvocation asks for
  candidate,  \* the candidate being looked at
  incompatible, probeError, \* the locals of _select
  selected,   \* the candidate chosen, 0 for none
  resolution, \* what resolve returned, "NONE" before
  steady,     \* no replacement and no probe timeout since resolve began
  program,    \* what was started, "none" before
  sink, out, written, \* where the program writes, its lines, the units written
  result      \* what run returned

selectVars == <<op, candidate, incompatible, probeError, selected, resolution>>
procVars   == <<program, sink, out, written>>
runnerVars == <<tool, limits, disk, changes, pc, request, steady, result,
                selectVars, procVars>>

\* "tool" is the program the definition means, "other" another program of
\* that name; a "broken" one is found and cannot be started; looking for an
\* "unreadable" one raises OSError.
Executables == {"tool", "other", "broken", "unreadable", "absent"}

Requests == {"valid", "invalid_cwd", "invalid_stdin", "raises"}

Names == 1..Candidates[tool]

Width == 3

NoResult == [status |-> "NONE", exit |-> -1, units |-> 0, truncated |-> FALSE,
             timed_out |-> FALSE]

\* ToolExecutionResult.__post_init__: the combinations it accepts; -1 is None.
ResultIsValid(r) ==
  /\ r.status = "SUCCESS" => r.exit = 0
  /\ r.status = "FAILURE" => r.exit \notin {-1, 0}
  /\ r.status \in {"TIMEOUT", "NOT_FOUND"} => r.exit = -1
  /\ r.timed_out <=> r.status = "TIMEOUT"

RunnerInit ==
  /\ tool \in Tools
  /\ limits \in Limits
  /\ disk \in [Names -> Executables]
  /\ changes = 0
  /\ op = "none" /\ pc = "idle" /\ request = "valid"
  /\ candidate = 0 /\ incompatible = FALSE /\ probeError = FALSE
  /\ selected = 0 /\ resolution = "NONE" /\ steady = TRUE
  /\ program = "none" /\ sink = "stdout" /\ out = <<>> /\ written = 0
  /\ result = NoResult

-----------------------------------------------------------------------------
(* The environment replaces an executable, at most limits.changes times. *)

Replace(c) ==
  /\ changes < limits.changes
  /\ program = "none" /\ result = NoResult
  /\ \E x \in Executables \ {disk[c]} : disk' = [disk EXCEPT ![c] = x]
  /\ changes' = changes + 1
  /\ steady' = FALSE
  /\ UNCHANGED <<tool, limits, pc, request, result, selectVars, procVars>>

-----------------------------------------------------------------------------
(* resolve, run and the selection they share *)

Select(operation) ==
  /\ op' = operation
  /\ pc' = "locate" /\ candidate' = 1
  /\ incompatible' = FALSE /\ probeError' = FALSE /\ selected' = 0

\* resolve: the readiness check of a tool, before any run.
Resolve ==
  /\ pc = "idle" /\ resolution = "NONE"
  /\ Select("resolve")
  /\ steady' = TRUE
  /\ UNCHANGED <<tool, limits, disk, changes, request, resolution, result, procVars>>

\* _operational_result
Operational(status) == [NoResult EXCEPT !.status = status]

\* run, up to _select.
Run ==
  /\ pc = "idle"
  /\ request' \in Requests
  /\ IF request' = "invalid_cwd"
     THEN /\ pc' = "ended" /\ result' = Operational("ERROR")
          /\ UNCHANGED selectVars
     ELSE Select("run") /\ UNCHANGED <<resolution, result>>
  /\ UNCHANGED <<tool, limits, disk, changes, steady, procVars>>

\* What resolve returns, and run does, once _select has answered.
Selected(status, c) ==
  /\ candidate' = 0 /\ incompatible' = FALSE /\ probeError' = FALSE
  /\ IF op = "resolve"
     THEN /\ resolution' = status /\ pc' = "idle" /\ op' = "none"
          /\ UNCHANGED <<selected, result>>
     ELSE /\ selected' = c
          /\ UNCHANGED <<op, resolution>>
          /\ pc' = IF status = "RESOLVED" THEN "start" ELSE "ended"
          /\ result' = CASE status = "RESOLVED"    -> result
                         [] status = "UNAVAILABLE" -> Operational("NOT_FOUND")
                         [] OTHER                  -> Operational("ERROR")

\* The loop of _select goes on to the next candidate, or ends: an error
\* outweighs an incompatible program, which outweighs absence.
NextCandidate(isIncompatible, isError) ==
  IF candidate < Candidates[tool]
  THEN /\ candidate' = candidate + 1 /\ pc' = "locate"
       /\ incompatible' = (incompatible \/ isIncompatible)
       /\ probeError' = (probeError \/ isError)
       /\ UNCHANGED <<op, selected, resolution, result>>
  ELSE Selected(CASE probeError \/ isError -> "ERROR"
                  [] ~(probeError \/ isError) /\ (incompatible \/ isIncompatible) -> "INCOMPATIBLE"
                  [] OTHER -> "UNAVAILABLE", 0)

Accept == Selected("RESOLVED", candidate)

\* _locate, and what _select does with it.
Locate ==
  /\ pc = "locate"
  /\ CASE disk[candidate] = "unreadable" -> NextCandidate(FALSE, TRUE)
       [] disk[candidate] = "absent"     -> NextCandidate(FALSE, FALSE)
       [] disk[candidate] \notin {"unreadable", "absent"} /\ tool \notin Probed -> Accept
       [] OTHER -> /\ pc' = "probe"
                   /\ UNCHANGED <<selectVars, result>>
  /\ UNCHANGED <<tool, limits, disk, changes, request, steady, procVars>>

\* Mutant: the exit code and the output of the probe are not looked at.
ProbeAnswersBlindly ==
  /\ pc = "probe"
  /\ IF disk[candidate] \in {"tool", "other"} THEN Accept ELSE NextCandidate(FALSE, TRUE)
  /\ UNCHANGED <<tool, limits, disk, changes, request, steady, procVars>>

\* _probe_identity: the executable runs with its version argument, and may
\* have changed since it was located.
ProbeAnswers ==
  /\ pc = "probe"
  /\ CASE disk[candidate] = "tool"  -> Accept
       [] disk[candidate] = "other" -> NextCandidate(TRUE, FALSE)
       [] OTHER                     -> NextCandidate(FALSE, TRUE)
  /\ UNCHANGED <<tool, limits, disk, changes, request, steady, procVars>>

ProbeTimesOut ==
  /\ pc = "probe" /\ disk[candidate] \in {"tool", "other"}
  /\ NextCandidate(FALSE, TRUE)
  /\ steady' = FALSE
  /\ UNCHANGED <<tool, limits, disk, changes, request, procVars>>

-----------------------------------------------------------------------------
(* run, from the standard input check to the end of subprocess.run *)

\* The executable is started by the path that was selected. subprocess.run
\* raises something other than OSError for arguments it cannot pass.
Start ==
  /\ pc = "start"
  /\ IF request = "valid" /\ disk[selected] \in {"tool", "other"}
     THEN /\ program' = disk[selected]
          /\ sink' \in IF tool = "whatweb" THEN {"file", "stdout"} ELSE {"stdout"}
          /\ pc' = "running"
          /\ UNCHANGED result
     ELSE /\ pc' = "ended"
          /\ result' =
               CASE request = "invalid_stdin" -> Operational("ERROR")
                 [] request = "raises"        -> Operational("RAISED")
                 [] request = "valid" /\ disk[selected] = "absent" -> Operational("NOT_FOUND")
                 [] OTHER                     -> Operational("ERROR")
          /\ UNCHANGED <<program, sink>>
  /\ UNCHANGED <<tool, limits, disk, changes, request, steady, selectVars, out, written>>

WriteLine ==
  /\ pc = "running"
  /\ Len(out) < limits.lines /\ written = Width * Len(out)
  /\ \E l \in Lines[tool] : out' = Append(out, l)
  /\ written' = written + 1
  /\ UNCHANGED <<tool, limits, disk, changes, pc, request, steady, result,
                 selectVars, program, sink>>

WriteOn ==
  /\ pc = "running" /\ written < Width * Len(out)
  /\ written' = written + 1
  /\ UNCHANGED <<tool, limits, disk, changes, pc, request, steady, result,
                 selectVars, program, sink, out>>

\* _bounded_decode: the leading units of a stream, and whether there was more.
BoundedDecode(n, limit) ==
  [units |-> IF n > limit THEN limit ELSE n, truncated |-> n > limit]

\* What run returns after the program; noisy: stderr was over its limit.
Completed(status, exit, noisy) ==
  LET stdout == BoundedDecode(IF sink = "stdout" THEN written ELSE 0, limits.stdout)
  IN [status |-> status, exit |-> exit, units |-> stdout.units,
      truncated |-> stdout.truncated \/ noisy, timed_out |-> status = "TIMEOUT"]

Exit ==
  /\ pc = "running"
  /\ \E code \in {0, 1}, noisy \in BOOLEAN :
       result' = Completed(IF code = 0 THEN "SUCCESS" ELSE "FAILURE", code, noisy)
  /\ pc' = "ended"
  /\ UNCHANGED <<tool, limits, disk, changes, request, steady, selectVars, procVars>>

\* Mutant: the call of subprocess.run that passes input has no timeout.
TimeoutWithoutInput ==
  /\ pc = "running" /\ tool \in {"subfinder", "whatweb"}
  /\ \E noisy \in BOOLEAN : result' = Completed("TIMEOUT", -1, noisy)
  /\ pc' = "ended"
  /\ UNCHANGED <<tool, limits, disk, changes, request, steady, selectVars, procVars>>

\* TimeoutExpired: the program is killed; what it has written is returned.
Timeout ==
  /\ pc = "running"
  /\ \E noisy \in BOOLEAN : result' = Completed("TIMEOUT", -1, noisy)
  /\ pc' = "ended"
  /\ UNCHANGED <<tool, limits, disk, changes, request, steady, selectVars, procVars>>

RunnerStep == Locate \/ ProbeAnswers \/ ProbeTimesOut \/ Start
ProgramStep == WriteLine \/ WriteOn \/ Exit
Environment == \E c \in Names : Replace(c)

-----------------------------------------------------------------------------
(* Properties of the runner *)

RunnerTypeOK ==
  /\ tool \in Tools /\ limits \in Limits
  /\ disk \in [Names -> Executables] /\ changes \in 0..limits.changes
  /\ op \in {"none", "resolve", "run"}
  /\ pc \in {"idle", "locate", "probe", "start", "running", "ended"}
  /\ request \in Requests
  /\ candidate \in 0..Candidates[tool] /\ selected \in 0..Candidates[tool]
  /\ incompatible \in BOOLEAN /\ probeError \in BOOLEAN /\ steady \in BOOLEAN
  /\ resolution \in {"NONE", "RESOLVED", "UNAVAILABLE", "INCOMPATIBLE", "ERROR"}
  /\ program \in {"none", "tool", "other"} /\ sink \in {"stdout", "file"}
  /\ out \in Seq(Lines[tool]) /\ Len(out) <= limits.lines
  /\ written \in 0..Width * Len(out)
  /\ result.status \in {"NONE", "SUCCESS", "FAILURE", "TIMEOUT", "NOT_FOUND",
                        "ERROR", "RAISED"}
  /\ result.exit \in {-1, 0, 1} /\ result.units \in Nat
  /\ result.truncated \in BOOLEAN /\ result.timed_out \in BOOLEAN

\* A readiness check keeps its word: as long as no executable has changed
\* and no probe has timed out since resolve said RESOLVED, a run of the same
\* tool reaches the start of that executable, and for a tool whose identity
\* is declared the program started is the tool and no other (tool_runner.py,
\* _select is shared by resolve and run).
ReadyMeansRunnable ==
  resolution = "RESOLVED" /\ steady =>
    /\ pc = "ended" /\ request = "valid" /\ result.status = "NOT_FOUND" => FALSE
    /\ pc = "ended" /\ request = "valid" /\ result.status = "ERROR" =>
         disk[selected] = "broken" /\ tool \notin Probed
    /\ program = "other" => tool \notin Probed
    /\ op = "run" /\ selected # 0 =>
         \A c \in 1..(selected - 1) :
            disk[c] \in {"unreadable", "absent"} \cup (IF tool \in Probed
                                                      THEN {"other", "broken"} ELSE {})

\* What run reports is what happened: a program ran to its end exactly when
\* the result has an exit code, output is only ever returned from a program
\* that was started, a result says truncated whenever stdout was cut, and
\* ToolExecutionResult accepts the combination, so that no call ends in the
\* constructor's ValueError.
ResultIsHonest ==
  pc = "ended" =>
    /\ ResultIsValid(result)
    /\ result.exit # -1 => program # "none"
    /\ result.status \in {"NOT_FOUND", "ERROR", "RAISED"} => program = "none"
    /\ program = "none" => result.units = 0
    /\ sink = "stdout" /\ program # "none" =>
         result.units = written \/ (result.truncated /\ result.units < written)
=============================================================================
