---------------------------- MODULE ToolAdapters ----------------------------
(***************************************************************************)
(* The five tool adapters over ToolRunner: SubfinderSubdomainProvider,      *)
(* HttpxProbeProvider, KatanaWebCrawlProvider,                              *)
(* NucleiVulnerabilityDetectionProvider and                                 *)
(* WhatWebTechnologyDetectionProvider. Each prepares its targets, runs its  *)
(* tool once, parses the bounded output and maps the outcome to the status  *)
(* of a provider result.                                                    *)
(*                                                                          *)
(* A line is what the parsers can tell apart: [form, fault, approved, id,   *)
(* val]. form is blank, text (no JSON object) or object; fault names the    *)
(* field of the record that is invalid; id is the identity under which the  *)
(* adapter stores the record, val the rest of it, in the order of           *)
(* _finding_value_key. WhatWeb writes one JSON array: its lines are the     *)
(* items, and the blank line stands for the closing bracket. Exact-target   *)
(* mode is one way of being approved.                                       *)
(***************************************************************************)
EXTENDS ToolRunner, FiniteSets

Faults == {"none", "host", "failed", "url", "status_code", "port", "host_ip",
           "location", "request", "method", "query", "template-id", "info",
           "type", "matcher-name", "target", "plugins", "certainty", "version",
           "evidence"}

LineType == [form : {"blank", "text", "object"}, fault : Faults,
             approved : BOOLEAN, id : Nat, val : Nat]

ASSUME ToolAdaptersAssumption ==
  /\ Tools \subseteq {"subfinder", "httpx", "katana", "nuclei", "whatweb"}
  /\ \A t \in Tools : Lines[t] \subseteq LineType
  /\ \A t \in Tools : \A l \in Lines[t] : l.fault = "evidence" => t = "whatweb"

VARIABLES
  targets, \* what the adapter is given: "some", "none" or "invalid"
  called,  \* the adapter was called
  answer   \* the provider result, status "NONE" before

vars == <<runnerVars, targets, called, answer>>

Empty(status) == [status |-> status, items |-> {}, malformed |-> 0, outside |-> 0,
                  duplicates |-> 0, records |-> 0, truncated |-> FALSE]

Init ==
  /\ RunnerInit
  /\ targets \in {"some", "none", "invalid"}
  /\ called = FALSE
  /\ answer = Empty("NONE")

-----------------------------------------------------------------------------
(* Splitting the output *)

\* The lines of the first n units: a line cut in its text is no JSON, one cut
\* before its newline is whole. Only the last one is unterminated.
Beginning(l) == IF l.form = "blank" THEN l ELSE [l EXCEPT !.form = "text"]

SplitLines(n) ==
  LET whole == SubSeq(out, 1, n \div Width)
  IN CASE n % Width = 0 -> whole
       [] n % Width = 1 -> Append(whole, Beginning(out[n \div Width + 1]))
       [] OTHER         -> Append(whole, out[n \div Width + 1])

\* discard_unterminated_final_line
Kept(n, cut)      == IF cut THEN SubSeq(out, 1, n \div Width) ELSE SplitLines(n)
Discarded(n, cut) == IF cut /\ n % Width # 0 THEN 1 ELSE 0

Malformed(acc)  == [acc EXCEPT !.malformed = @ + 1]
OutOfScope(acc) == [acc EXCEPT !.outside = @ + 1]
Duplicate(acc)  == [acc EXCEPT !.duplicates = @ + 1]
Keep(acc, item) == [acc EXCEPT !.items = @ \cup {item}]

Item(l)          == [id |-> l.id, val |-> l.val]
Stored(acc, l)   == {i \in acc.items : i.id = l.id}

\* A record is checked field by field: an invalid field that is met before the
\* record is looked up among the approved targets makes it malformed, one that
\* is met after only if the record is approved.
Verdict(l, before) ==
  CASE l.fault \in before                      -> "malformed"
    [] l.fault \notin before /\ ~l.approved    -> "out_of_scope"
    [] l.fault = "none" /\ l.approved          -> "record"
    [] OTHER                                   -> "malformed"

SubfinderRecord(l) == Verdict(l, {"host"})

HttpxRecord(l) == Verdict(l, {"failed", "url"})

KatanaRecord(l) == Verdict(l, {"request", "method", "url"})

NucleiRecord(l) == Verdict(l, {"template-id", "info", "type", "host"})

\* An invalid plugin is counted where its record is stored.
WhatWebRecord(l) ==
  IF l.fault \in {"certainty", "version", "evidence"} /\ l.approved THEN "record"
  ELSE Verdict(l, {"target"})

-----------------------------------------------------------------------------
(* Storing a record, per adapter *)

\* A hostname is its own identity.
SubfinderStore(acc, l) ==
  IF Stored(acc, l) # {} THEN Duplicate(acc) ELSE Keep(acc, Item(l))

\* (scheme, hostname, port): the first record wins.
HttpxStore(acc, l) ==
  IF Stored(acc, l) # {} THEN Duplicate(acc) ELSE Keep(acc, Item(l))

\* The whole endpoint is the identity.
KatanaStore(acc, l) ==
  IF Item(l) \in acc.items THEN Duplicate(acc) ELSE Keep(acc, Item(l))

\* Mutant: of two records with one fingerprint the later one survives.
NucleiStoreLast(acc, l) ==
  LET others == [acc EXCEPT !.items = @ \ Stored(acc, l)]
  IN CASE Stored(acc, l) = {}         -> Keep(acc, Item(l))
       [] Stored(acc, l) = {Item(l)}  -> Duplicate(acc)
       [] OTHER -> Malformed(Duplicate(Keep(others, Item(l))))

\* The fingerprint: of two different records the least survives, and the
\* conflict counts as malformed.
NucleiStore(acc, l) ==
  LET old == CHOOSE i \in Stored(acc, l) : TRUE
      others == [acc EXCEPT !.items = @ \ {old}]
      least  == IF l.val < old.val THEN Item(l) ELSE old
  IN CASE Stored(acc, l) = {}        -> Keep(acc, Item(l))
       [] Stored(acc, l) = {Item(l)} -> Duplicate(acc)
       [] OTHER -> Malformed(Duplicate(Keep(others, least)))

\* The Technology itself; an invalid certainty or version loses it, invalid
\* evidence is only counted.
WhatWebStore(acc, l) ==
  LET counted == IF l.fault # "none" THEN Malformed(acc) ELSE acc
  IN CASE l.fault \in {"certainty", "version"} -> counted
       [] l.fault \notin {"certainty", "version"} /\ Item(l) \in acc.items -> Duplicate(counted)
       [] OTHER -> Keep(counted, Item(l))

\* The record of a JSON object: a finding, or why it is none.
Convert(l) ==
  CASE tool = "subfinder" -> SubfinderRecord(l)
    [] tool = "httpx"     -> HttpxRecord(l)
    [] tool = "katana"    -> KatanaRecord(l)
    [] tool = "nuclei"    -> NucleiRecord(l)
    [] tool = "whatweb"   -> WhatWebRecord(l)

\* The record takes its place among those before it.
Store(acc, l) ==
  CASE tool = "subfinder" -> SubfinderStore(acc, l)
    [] tool = "httpx"     -> HttpxStore(acc, l)
    [] tool = "katana"    -> KatanaStore(acc, l)
    [] tool = "nuclei"    -> NucleiStore(acc, l)
    [] tool = "whatweb"   -> WhatWebStore(acc, l)

\* One turn of the loop of every parser: blank lines, lines that are no record,
\* records out of scope, and at last the record to store.
Sift(acc, l) ==
  LET counted == [acc EXCEPT !.records = @ + 1]
  IN CASE l.form = "blank"                                  -> acc
       [] l.form = "text"                                   -> Malformed(counted)
       [] l.form = "object" /\ Convert(l) = "malformed"     -> Malformed(counted)
       [] l.form = "object" /\ Convert(l) = "out_of_scope"  -> OutOfScope(counted)
       [] OTHER                                             -> Store(counted, l)

Parse(lines, discarded) ==
  LET upTo[n \in 0..Len(lines)] ==
        IF n = 0 THEN [Empty("NONE") EXCEPT !.malformed = discarded]
        ELSE Sift(upTo[n - 1], lines[n])
  IN upTo[Len(lines)]

-----------------------------------------------------------------------------
(* From the result of the tool to the provider's *)

\* The first branches of every _map_result: nothing is parsed.
ToolFailed(truncated) ==
  CASE result.status = "NOT_FOUND" -> Empty("UNAVAILABLE")
    [] result.status = "FAILURE"   -> [Empty("FAILURE") EXCEPT !.truncated = truncated]
    [] OTHER                       -> Empty("ERROR")

HasIssues(parsed) == parsed.malformed > 0 \/ parsed.outside > 0

\* The last branches; counting: records alone make an empty answer a failure.
Judge(parsed, truncated, counting) ==
  [parsed EXCEPT
     !.truncated = truncated,
     !.status =
       CASE result.status = "TIMEOUT" ->
              IF parsed.items # {} THEN "PARTIAL" ELSE "FAILURE"
         [] result.status # "TIMEOUT" /\ parsed.items # {} ->
              IF HasIssues(parsed) \/ truncated THEN "PARTIAL" ELSE "SUCCESS"
         [] OTHER ->
              IF HasIssues(parsed) \/ truncated \/ (counting /\ parsed.records > 0)
              THEN "FAILURE" ELSE "SUCCESS"]

Cut == result.status = "TIMEOUT" \/ result.truncated

\* Mutant: an unterminated last line is parsed though the output was cut.
SubfinderMapKeepingLast ==
  IF result.status \notin {"SUCCESS", "TIMEOUT"} THEN ToolFailed(result.truncated)
  ELSE Judge(Parse(Kept(result.units, FALSE), 0), result.truncated, FALSE)

SubfinderMap ==
  IF result.status \notin {"SUCCESS", "TIMEOUT"} THEN ToolFailed(result.truncated)
  ELSE Judge(Parse(Kept(result.units, Cut), Discarded(result.units, Cut)),
             result.truncated, FALSE)

\* Mutant: rejected records and cut output go unnoticed when there are items.
HttpxMapUnaware ==
  IF result.status \notin {"SUCCESS", "TIMEOUT"} THEN ToolFailed(result.truncated)
  ELSE LET parsed == Parse(Kept(result.units, Cut), Discarded(result.units, Cut))
       IN [parsed EXCEPT !.status = IF parsed.items = {} THEN "FAILURE" ELSE "SUCCESS",
                         !.truncated = result.truncated]

HttpxMap ==
  IF result.status \notin {"SUCCESS", "TIMEOUT"} THEN ToolFailed(result.truncated)
  ELSE Judge(Parse(Kept(result.units, Cut), Discarded(result.units, Cut)),
             result.truncated, FALSE)

KatanaMap ==
  IF result.status \notin {"SUCCESS", "TIMEOUT"} THEN ToolFailed(result.truncated)
  ELSE Judge(Parse(Kept(result.units, Cut), Discarded(result.units, Cut)),
             result.truncated, TRUE)

\* Nothing is parsed after a timeout; a second output limit; too many records
\* leave none.
NucleiMap ==
  LET output == BoundedDecode(result.units, limits.output)
      cut    == result.truncated \/ output.truncated
      lines  == Kept(output.units, cut)
      count  == Cardinality({i \in 1..Len(lines) : lines[i].form # "blank"})
      lost   == Discarded(output.units, cut)
  IN CASE result.status = "TIMEOUT" -> [Empty("FAILURE") EXCEPT !.truncated = result.truncated]
       [] result.status = "SUCCESS" /\ count > limits.records ->
            Judge([Empty("NONE") EXCEPT !.malformed = lost + 1, !.records = count], cut, TRUE)
       [] result.status = "SUCCESS" /\ count <= limits.records ->
            Judge(Parse(lines, lost), cut, TRUE)
       [] OTHER -> ToolFailed(result.truncated)

\* _output: the file the tool was told to write, and its standard output if
\* the file is empty. [units, truncated]; a file over the limit is not read.
WhatWebOutput ==
  LET stdout == BoundedDecode(result.units, limits.output)
  IN CASE sink = "file" /\ written > limits.output -> [units |-> 0, truncated |-> TRUE]
       [] sink = "file" /\ written \in 1..limits.output ->
            [units |-> written, truncated |-> FALSE]
       [] OTHER -> [units |-> stdout.units,
                    truncated |-> stdout.truncated \/ result.truncated]

\* The whole output was captured, and ends with the only closing bracket.
IsDocument(n) ==
  /\ n = Width * Len(out) /\ n > 0
  /\ \A i \in 1..Len(out) : out[i].form = "blank" <=> i = Len(out)

\* _parse_json: the document is parsed as a whole or not at all.
WhatWebParse(n) ==
  CASE n = 0 -> Empty("NONE")
    [] n > 0 /\ ~IsDocument(n) -> [Empty("NONE") EXCEPT !.malformed = 1, !.records = 1]
    [] IsDocument(n) /\ Len(out) - 1 > limits.records ->
         [Empty("NONE") EXCEPT !.malformed = 1, !.records = Len(out) - 1]
    [] OTHER -> Parse(out, 0)

WhatWebMap ==
  IF result.status \notin {"SUCCESS", "TIMEOUT"} THEN ToolFailed(WhatWebOutput.truncated)
  ELSE Judge(WhatWebParse(WhatWebOutput.units), WhatWebOutput.truncated, TRUE)

-----------------------------------------------------------------------------
(* One call of an adapter *)

Answer(a) == answer' = a /\ UNCHANGED <<runnerVars, targets, called>>

\* discover, probe, crawl, detect: up to ToolRunner.run.
Call ==
  /\ ~called /\ pc = "idle"
  /\ called' = TRUE
  /\ CASE targets = "invalid" -> answer' = Empty("ERROR") /\ UNCHANGED runnerVars
       [] targets = "none"    -> answer' = Empty("SUCCESS") /\ UNCHANGED runnerVars
       [] targets = "some"    -> Run /\ UNCHANGED answer
  /\ UNCHANGED targets

\* Subfinder and HTTPX let an exception of the runner through to their
\* capability, which reports ERROR as the other three do themselves.
MapResult ==
  /\ called /\ pc = "ended" /\ answer.status = "NONE"
  /\ Answer(CASE result.status = "RAISED" -> Empty("ERROR")
              [] result.status # "RAISED" /\ tool = "subfinder" -> SubfinderMap
              [] result.status # "RAISED" /\ tool = "httpx"     -> HttpxMap
              [] result.status # "RAISED" /\ tool = "katana"    -> KatanaMap
              [] result.status # "RAISED" /\ tool = "nuclei"    -> NucleiMap
              [] OTHER                                          -> WhatWebMap)

Next ==
  \/ Call
  \/ MapResult
  \/ (Resolve \/ RunnerStep \/ ProgramStep \/ Timeout \/ Environment)
     /\ UNCHANGED <<targets, called, answer>>

\* The caller and the runner keep going, and the timeout of subprocess.run
\* fires. Nothing is assumed of the program or of the file system.
Fairness ==
  /\ WF_vars(Call) /\ WF_vars(MapResult)
  /\ WF_vars((RunnerStep \/ Timeout) /\ UNCHANGED <<targets, called, answer>>)

Spec == Init /\ [][Next]_vars /\ Fairness

-----------------------------------------------------------------------------
(* Properties *)

\* The types of the runner's and the adapter's state.
ToolsTypeOK ==
  /\ RunnerTypeOK
  /\ targets \in {"some", "none", "invalid"} /\ called \in BOOLEAN
  /\ answer.status \in {"NONE", "SUCCESS", "PARTIAL", "FAILURE", "ERROR", "UNAVAILABLE"}
  /\ answer.items \subseteq [id : Nat, val : Nat]
  /\ {answer.malformed, answer.outside, answer.duplicates, answer.records} \subseteq Nat
  /\ answer.truncated \in BOOLEAN

Answered == answer.status # "NONE"

\* What a clean line is: the parser has no objection to it.
Clean(l) == l.form = "object" /\ l.fault \in {"none", "evidence"} /\ l.approved

\* Whether the identity under which the adapter stores l is among the items.
Represented(l) ==
  IF tool \in {"katana", "whatweb"} THEN Item(l) \in answer.items
  ELSE \E i \in answer.items : i.id = l.id

\* SUCCESS means nothing is missing: the program exited with 0, no stream was
\* cut, every line it wrote was blank or a clean record, and every record is
\* represented in the answer. A program killed by the timeout, a full pipe or
\* a rejected record always shows (the _map_result of the five adapters).
SuccessIsComplete ==
  answer.status = "SUCCESS" /\ targets = "some" =>
    /\ result.status = "SUCCESS" /\ result.exit = 0
    /\ ~answer.truncated
    /\ sink = "stdout" => result.units = written /\ ~result.truncated
    /\ \A i \in 1..Len(out) : out[i].form = "blank" \/ (Clean(out[i]) /\ out[i].fault = "none" /\ Represented(out[i]))

\* PARTIAL says both what it means: something usable was found, and something
\* was cut, rejected or in conflict, or the tool was killed.
PartialIsHonest ==
  answer.status = "PARTIAL" =>
    /\ answer.items # {}
    /\ \/ result.status = "TIMEOUT" \/ answer.truncated \/ result.truncated
       \/ written % Width # 0
       \/ \E i \in 1..Len(out) : out[i].form # "blank" /\ (~Clean(out[i]) \/ out[i].fault # "none")
       \/ tool = "nuclei" /\ \E i, j \in 1..Len(out) :
            Clean(out[i]) /\ Clean(out[j]) /\ out[i].id = out[j].id /\ out[i].val # out[j].val

\* A report tells what happened, at every level: the runner's result is what
\* the program did and no constructor refuses it, SUCCESS means that nothing is
\* missing, PARTIAL that something is and something is not (tool_runner.py run,
\* the five _map_result).
ReportIsHonest == ResultIsHonest /\ SuccessIsComplete /\ PartialIsHonest

\* Nothing is made of a fragment: every item is a clean line the program had
\* written out to its newline, or, when the output was neither cut nor the
\* program killed, at least to the end of its text (the discarded
\* unterminated line of the JSONL parsers, the whole document of WhatWeb).
NothingFromFragments ==
  Answered =>
    \A item \in answer.items : \E i \in 1..Len(out) :
      /\ Clean(out[i]) /\ Item(out[i]) = item
      /\ written >= (IF Cut /\ sink = "stdout" THEN Width * i ELSE Width * i - 1)
      /\ sink = "stdout" => result.units >= (IF Cut THEN Width * i ELSE Width * i - 1)
      /\ tool = "whatweb" => written = Width * Len(out)

\* A cut takes nothing but what it cuts: whenever an answer is usable, every
\* clean line that was captured up to its newline is represented.
CompleteLinesAreKept ==
  answer.status \in {"SUCCESS", "PARTIAL"} /\ targets = "some" =>
    LET n == CASE tool = "nuclei"  -> BoundedDecode(result.units, limits.output).units
               [] tool = "whatweb" -> WhatWebOutput.units
               [] OTHER            -> result.units
    IN \A i \in 1..(n \div Width) : Clean(out[i]) => Represented(out[i])

\* A cut falls exactly where the output was cut: nothing is made of a fragment
\* and no complete line before it is lost (_parse_jsonl with
\* discard_unterminated_final_line, _parse_json).
CaptureIsExact == NothingFromFragments /\ CompleteLinesAreKept

\* Which of several Nuclei records with one fingerprint is reported does not
\* depend on the order in which the tool wrote them: it is the least of those
\* captured (nuclei/provider.py, _parse_jsonl with _finding_value_key).
SurvivorIsLeast ==
  tool = "nuclei" /\ answer.status \in {"SUCCESS", "PARTIAL"} /\ targets = "some" =>
    LET output == BoundedDecode(result.units, limits.output)
        lines  == Kept(output.units, result.truncated \/ output.truncated)
        clean  == {Item(lines[i]) : i \in {j \in 1..Len(lines) : Clean(lines[j])}}
    IN answer.items = {x \in clean : \A y \in clean : y.id = x.id => x.val <= y.val}

\* A call of an adapter ends, whatever the program does: one that never exits
\* is killed by the timeout (tool_runner.py, subprocess.run with timeout).
CallEnds == called ~> Answered
=============================================================================
