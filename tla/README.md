# RedForge: a TLA+ verification project

RedForge is a Python framework that runs reconnaissance and assessment
*capabilities* in a planned order over a shared Context, and a command line on
top of it. One scan goes through these parts, each calling the next:

    main (cli/main.py)
      -> configuration (configuration/) -> composition (composition/)
      -> ScanOrchestrator or ScanInspector (application/)
           -> prepare_scan -> ExecutionPlanner (planning/)
           -> ScanPreflight -> readiness probes
           -> PipelineBuilder -> capability factories
           -> Pipeline.run (runtime/), with StateLimitPolicy
                -> capabilities (capabilities/), for instance
                   asset_intelligence, and finding_correlation with its
                   correlator (domain/finding_correlation.py)
                     -> providers and tools (adapters/, sdk/)

Everything runs in one thread, next to the external programs it starts. What makes it
hard is not parallelism but what happens between two steps: a deadline that passes, a capability that raises or
answers nonsense, a probe that fails in an unexpected way, a KeyboardInterrupt
anywhere, greedy algorithms whose result depends on an order nobody chose, and
calls that are repeated on state left by an earlier one.

Paths below are relative to `src/src/redforge/`; documents are in `src/docs/`.

## Inventory

| Component | State | Operations | Hard part | Correct when |
|---|---|---|---|---|
| Pipeline runtime (`runtime/pipeline.py`) | entries, contracts, Context, history, aggregate status, last result | `add`, `run` | capability code, clock and sink are foreign; publication must be atomic | only usable, typed, timely, bounded output reaches the Context; the history says so |
| Execution policy (`runtime/execution_policy.py`) | deadline, limits | `check_deadline`, `validate_publications` | the deadline passes during a capability; invalid clock readings | nothing is published after the deadline or beyond a limit |
| Planner and builder (`planning/`) | visiting stack, selected, completed, ready heap | `plan`, `build` | cycles, diamonds, ambiguity, available state | a plan exists exactly when it can, is minimal and canonical |
| Scan preparation, preflight, orchestration (`application/`) | plan, checks, events, result | `prepare_scan`, `ScanPreflight.run`, `ScanOrchestrator.run`, `ScanInspector.inspect` | two plans, shared requirements, probes that raise | verdict is readiness, acceptance is completeness |
| Command line (`cli/main.py`) | options, effective output, streams, exit code | `main` | handlers that learn the mode in three places; interrupts; failing writes | exit code and document can be trusted |
| Configuration models (`configuration/models.py`) | none (values) | `resolve_configuration` | overrides against the file | what is let through can be planned |
| Composition (`composition/application.py`, `planning/factories.py`) | registries, probes | `create_orchestrator`, `create_inspector`, `create_doctor` | requirements are declared in one place and providers chosen in another | refuses only what the configuration should have refused; a capability uses only what preflight has found |
| Finding correlation (`domain/finding_correlation.py`) | groups, decisions | `correlate` | mergeability is not transitive, grouping is greedy | nothing lost, nothing contradictory merged |
| Asset intelligence (`capabilities/asset_intelligence.py`) | identity index, builders | `execute` | merging several builders, `list.remove` by value, set iteration order | assets are the connected components |
| Planned execution (`planning/execution.py`) | none across calls | `plan`, `build`, `execute`, `run` | planned for one Context, executed with another | what is built finds its inputs in the Context it is given |
| Tool runner (`adapters/tool_runner.py`, `sdk/tool.py`) | none across calls | `is_available`, `resolve`, `run` | the executable changes between lookup, probe and start; timeout with partial output | ready means runnable; the result is what the program did |
| Tool adapters (`adapters/{subfinder,httpx,katana,technology_detection}.py`, `adapters/nuclei/`) | none across calls | `discover`, `probe`, `crawl`, `detect` | output cut anywhere, conflicting records | partial output is never taken for complete |
| Reconnaissance and detection capabilities (`capabilities/`) | none across calls | `execute` | scope is inherited from stage to stage; shared addresses | nothing leaves the scope; the status tells whether the output is complete |
| Vulnerability enrichment (`application/vulnerability_enrichment.py`, `capabilities/`) and HTTP sources (`adapters/vulnerability_intelligence_http.py`, `adapters/http_data.py`) | per-call outcomes | `enrich`, `get_cvss`, `get_epss`, `get_kev`, `get` | batch answers for wrong CVEs, failures half way | no CVE gets another's data, one provider's failure stays its own |
| Vulnerability intelligence (`adapters/nvd.py`, `capabilities/vulnerability_intelligence.py`) | page, attempt, pending lookups | `search_cpes`, `get_vulnerabilities`, `execute` | paging, retries, ambiguous product names | every published link is justified by one unambiguous product |
| Knowledge graph, risk intelligence (`capabilities/`) | none across calls | `execute` | joins over data that need not fit | risks are exactly the paths of the observations |
| Doctor (`application/doctor.py`) | none | `inspect` | checks that overlap preflight's | ready doctor means ready preflight |
| Configuration loader, rendering, diagnostics, domain values | none | parse, render, format, validate | — | pure conversions of one value |

`PROJECT.json` lists every component with its status, and under `hazards` each
place of the code where something can go wrong that a test would hardly reach.

## Modules

| Module | Models | Uses |
|---|---|---|
| `PipelineContract` | what a run promises its caller (`docs/execution-contract.md`, `docs/state-publication.md`): atomic attempts | — |
| `Pipeline` | `Pipeline.add`, `Pipeline.run`, `StateLimitPolicy`, `Context.publish_many`, events | refines `PipelineContract` |
| `Planner` | `ExecutionPlanner.plan`, `ExecutionPlan`, `PipelineBuilder.build`, `PlannedExecution` | — |
| `Scan` | `prepare_scan`, `ScanPreflight.run`, `ScanInspector.inspect`, `ScanOrchestrator.run` | instantiates `PipelineContract` |
| `Doctor` | `RedForgeDoctor.inspect`, `create_doctor`, then a scan | extends `Scan` |
| `Composition` | `ApplicationComposition`, the built-in definitions, factories and tools, as operators | extends `Scan` |
| `Cli` | `main`, `parse_cli_args`, `resolve_configuration` | extends `Composition` |
| `FindingCorrelation` | `FindingCorrelator.correlate` | — |
| `AssetIntelligence` | `AssetIntelligenceCapability` and its `_IdentityIndex` | — |
| `ToolRunner` | `LocalSubprocessToolRunner` | — |
| `ToolAdapters` | the five tool adapters | extends `ToolRunner` |
| `Recon` | the six reconnaissance and detection capabilities over one Context | — |
| `Nvd` | `NvdAdapter`: pages, retries | — |
| `RiskIntelligence` | the knowledge graph and the risk assessments, as operators | — |
| `VulnerabilityIntelligence` | `VulnerabilityIntelligenceCapability` and the two capabilities after it | extends `Nvd`, `RiskIntelligence` |
| `Enrichment` | `VulnerabilityEnrichmentCapability`, its service, three providers, the JSON transport | — |
| `PipelineProofs`, `PlannerProofs`, `FindingCorrelationProofs`, `AssetIntelligenceProofs`, `ReconProofs` | theorems | extend their module |
| `ApplicationProofs` | theorems about `Scan`, `Doctor` and `Cli` | extends `Doctor`, `Cli` |
| `VulnerabilityProofs` | theorems about `Enrichment` and `VulnerabilityIntelligence` | extends both |
| `ToolProofs` | theorems about `ToolRunner` and `ToolAdapters` | extends `ToolAdapters` |
| `MC*` | instances for TLC | extend their module |

Definitions carry the names of the code; `map` in `PROJECT.json` gives the lines
of each one. A definition called a mutant in its comment is not used by any
specification: it is a plausible mistake in the definition after it, and shows
that the property it is meant for would notice.

### Pipeline

Variables: `entries` and `contracts` (the registered capabilities), `ctx` (the
Context's state), `index` and `pc` (the position in the loop), the `policy` and the
clock `now`, the `answer` of the capability, `executions`, `aggregate`, `last` and
`events`; `base` remembers the Context at the start of a run. One turn
of the loop is broken where control leaves the runtime: `BeginInTime`,
`BeginLate` and `BeginClockInvalid` (the deadline check before a capability),
`Execute` (the capability answers, raises, or returns something that is not a
Result), `SettleStopping`, `SettleMistyped`, `SettleLate`, `SettleOversized` and
`SettleUsable` (one per outcome of normalisation, deadline and limits, with the
history entry they record), and `Publish` (Context, events, stop or go on).
`Interrupt` is a KeyboardInterrupt between any two of them. Values are reduced
to whether their validator accepts them and to their size.

`ImplementsContract` is the refinement: an attempt is visible in the contract when
it is published; half-done turns of the loop are stuttering.

### Planner

`Visit`, `Demand`, `NextGoal`, `NextRequirement` and `Return` are the recursion of
`visit` with its explicit stack; `StartOrdering`, `PickNext` and `FinishOrdering`
are `_topological_order` with the heap as a minimum; `Build` is the builder with its
factories. `Canonical` and `Execute` are `PlannedExecution`: `given` is the Context that
the plan is executed with, which need not be the one it was made for, and `available`
the canonical part of the first. The reference definition is a least fixed point:
what the goals need, and whether each key has exactly one producer and no cycle.

### Scan and Cli

`PlanComplete` and `PlanAllowed` are the two plans of `prepare_scan`. Planning is
used by its result, which module Planner shows it to have; execution is a
behaviour of `PipelineContract`. `CheckFactory`, `CheckRequirement` and `Decide`
are preflight, one step per factory and per requirement. `Cli` adds the steps of
`main` before and after the service, its handlers, failing writes and
interrupts. The documents promise one JSON document on stdout. An interrupt between writing
it and returning makes `main` write a second one, so the promise, `JsonIsOneDocument`, is
violated in the run `cli_documents`. `JsonOutcomeStated` says what does hold: one document,
or two when an interrupt came in between, of which the last states the exit code. Both
modules leave out the Context, on which neither acceptance nor the exit code depends.

### Composition

Operators from a profile and an application host to a composition of Scan. A host
(`AppHosts`) supplies ports, or a tool runner and probes, and the environment behind it
answers the probes. `FactoryNeeds` are the requirements declared when the factories are
registered, `Wired` what a factory hands to its capability when it is called much later;
`Dependencies` are the ports both start from, `RequiredTools`, `HasToolProbe` and
`LacksRunner` the rest of `_create_application_components`. The runner is chosen by what the
host supplies and needed by what the factories got, so that it is never missing is a fact to
check. All of it goes into one property of the run `cli`, `ComposedIsSound`, which is proved for
every host.

### Doctor

`InspectHost`, `InspectTool` (once per definition of the ToolRegistry) and `Conclude` are
`inspect`, or the operator does without it (`SkipDoctor`). Then a scan or a dry run of the
same composition follows. The doctor goes through all registered factories and preflight
through the plan only, and an exception that preflight lets through is caught here, so that
the two agree is not a matter of shared code: `ForecastHolds`. What the doctor does not
look at is named in `Unforeseen`.

### FindingCorrelation

`Take` is one turn of the grouping loop: the least record in canonical order joins
the only group that accepts it (`Join`) or starts one (`Start`). `Finish` anchors
the groups and validates the collection. Assets, endpoints, references and
classifications are numbers in the order of their serialized forms; hashes are
taken to be injective. Part of the canonical order is an order of hashes, so
where the code compares them the model lets either record come first.

### AssetIntelligence

`Begin` looks up the builders of an observation's aliases, each `Merge` merges one
of them, `Attach` adds the observation, `Finish` derives assets and associations.
The order of inputs and of Python's set iteration is arbitrary. The model keeps
that `list.remove` takes out the first builder that is *equal*.

### ToolRunner and ToolAdapters

`disk` is what the candidates of a tool really are, and `Replace` changes it between any
two steps. `Locate`, `ProbeAnswers` and `ProbeTimesOut` are the selection shared by
`resolve` and `run`; `Start` is the call of `subprocess.run`, `WriteLine`, `WriteOn` and
`Exit` the program, `Timeout` its end by the runner. Output is counted in units, three to a
line, so that a limit or a kill falls inside a line's text, before its newline or after it.
An adapter is `Call` and `MapResult`: `Kept` and `Discarded` are the splitting and the
dropped unterminated line, `Convert`, `Store` and `Sift` one turn of a parser's loop,
`Judge` the branches of `_map_result` from parsed records to a status, and one `...Map` per
adapter what they do differently.

### Recon

One action per capability, except that resolution is one step per hostname (`Resolved`,
`Unresolved`, `ResolverBreaks`). Tools may name anything; what passes is decided by what the
adapter approves (`HttpxApproves`, `KatanaApproves`, `WhatWebTargets`, `NucleiTargets`), which
is always derived from what the stage before published. `Mapped` is the table from a
provider's status to a Result's, `Finish` and `Refuse` the publication. `Pipelines` are the
selections of capabilities: a Context may also be seeded by the caller.

### Nvd, VulnerabilityIntelligence and RiskIntelligence

`Nvd` is one query at a time: `Respond` (a truthful page of any size, or an odd one from a
service that answers anything), `Reject`, `Retry` and `Break` are the ways a request ends,
and `Paginate` decides between a next page, completion and an error. `Group`, `Search`,
`Candidates`, `Vulnerabilities`, `LookupFails`, `LookupBreaks` and `Publish` are the
capability's loop over lookups. `KnowledgeGraph` and `Risk` apply the operators `BuildGraph`
and `AssessRisk`; their input is what was published or, in the other mode, values of a
caller that need not fit together. The reference for risks is `Paths`, a join of the
observations and the links that does not mention the graph.

### Enrichment

`Start` selects the CVEs; each provider is absent, the host's own (`CallCustom`, with
`ExactOutcomes` as the check of its answer) or the built-in one (`CallProduction`), whose
requests end in `Answer`, `AnswerNotFound` or `Fail`; nothing is asked again. `NvdCvss`, `FirstEpss`
and `CisaKev` turn records into outcomes, `Normalize` ends a provider, `Aggregate` makes the
enriched findings and the status.

## Runs

| Run | Instance | Shows |
|---|---|---|
| `pipeline` | one run of up to two of three known capabilities (two outputs, one output, not a valid identity), and two runs of one capability over the same, a new or a seeded Context, with contracts from `provides` and rejected registrations; values mistyped, at and over the limit, deadline 1, clock 0 to 1 and invalid readings, with and without a policy, fair | history, status, Context, events and deadline agree; the contract, across runs too; every run ends |
| `planner` | every registry of three capabilities over three keys in a family with chains, diamonds, cycles, gaps and ambiguity; three goal sets and three Contexts, one with a name that is not canonical; incomplete, failing and misnamed factories; foreign definitions; fair | plans exist exactly when they can, are minimal and canonical, errors are real, what is built can be executed, planning ends |
| `scan` | ambiguous, cyclic and incomplete registries, shared requirements in every readiness, three hosts, with and without a doctor | the verdict is readiness, the events tell the outcome, a ready doctor is right |
| `cli` | the three profiles on seven kinds of host, which supply no port, some or all, with tools and providers that are ready or not, with all options and files | exit code, JSON outcome, sound compositions |
| `cli_documents` | the same | the second finding below |
| `correlation` | one to three records of one asset over two endpoints, a technology, two classes and three references; two assets; up to five records about one CVE | merging is sound and complete |
| `correlation_disagreement` | the same | the first finding below |
| `assets` | up to four of seven hosts and three of eight other observations over five aliases | assets are components |
| `tools` | the five tools with the candidates of their definitions, four or five kinds of line each, limits that cut at every place, one replaced executable, fair | readiness, honest reports, exact cuts, order-independent survivor, every call ends |
| `recon` | two names that may share an address, a foreign one, an invalid one and one that is no DNS name; broad and exact mode; four pipelines | scope, alive hosts, no silent loss, errors have a cause |
| `intelligence` | two products, vendors known and not, one to three items per page, up to three pages and two retries, odd pages, odd graphs, fair | lookups are exact, matches justified, risks are the paths, lookups end |
| `enrichment` | three CVEs and an overlong reference, five collections, truthful and odd services, a host's provider, limits of 3 and 2 CVEs, fair | outcomes are exact, data is its own, failures are isolated, enrichment ends |

Why these bounds are enough: the pipeline handles one capability at a time and what
it carries over (Context, aggregate, position) is already in play with two; two
capabilities may write the same key, and one may write two. The planner's cases
are chains, diamonds and cycles of up to three, and its key sets are large enough
for a producer of two keys. Correlation compares pairs, and a group is ambiguous
for a third record; five records about one CVE reach two groups with two members
and a bridge, and `MaxRecords` = 4 is exceeded. One host of the asset instance
joins three builders. A tool's output of two or three lines has a first, a cut and a
last one, and two records can already be in conflict; more lines repeat a parser's loop.
Reconnaissance needs two names to share an address and one more to be foreign to both. Three
pages have a first, a middle and a last one, and two lookups are needed for one to fail and
another to succeed. Three CVEs are one more than fit into the URL and as many as a call may
have. Every bound that is not one of the code is a CONSTANT
(`MaxEntries`, `MaxRuns`, `MaxTime`, the `lines` and `changes` of `Limits`) or a definition of an MC module.

The run `pipeline` puts two small worlds into one instance, of known and of declared
contracts, by its `Environment`: which registrations, calls and values a caller and a
capability choose. No step of a run is refused by it, so nothing that must eventually happen
is cut off.

All runs say `CHECK_DEADLOCK FALSE`: a call that has returned or raised takes no
further step.

### Fairness

`FairSpec` of Pipeline is weak fairness of `Advance`, the running thread's next
step (not of `Add`, `Start` or `Interrupt`): `run` is a loop in one thread, and nothing
but the capability itself can hold it. That a capability returns is an assumption,
since the runtime does not stop a capability that runs. `FairSpec` of Planner is weak fairness
of the steps of `plan`: it is a synchronous call that waits for nothing. ToolAdapters
assumes the caller's and the runner's steps, among them the timeout of `subprocess.run`, and
nothing of the program, which may write or stay silent forever: `CallEnds` holds by the
timeout alone. In VulnerabilityIntelligence and Enrichment a request ends in an answer or in a
failure, because the transports have a timeout of their own; which one, and how often it
fails, is left open, so that only the bounds on pages and retries can end a lookup.

## Proofs

For every value of the constants that satisfies the named assumptions:

* `PipelineProofs`: type correctness, `WorstStatus`, `StopsAtFirstFailure`,
  `UsableMeansComplete`, `ContextIsHistory`, `CanonicalWithinPolicy`, `EventsTellHistory`,
  `NothingAfterDeadline` and `ImplementsContract`. The invariant has three layers. `TypeInv`
  adds to the types
  that a busy loop has an entry. `HistoryInv` relates the history to the
  position in the loop (`Progress`): without it `StopsAtFirstFailure` does not
  survive the step that records an attempt. `ContextInv` says what the Context is
  while an attempt is recorded and not yet published. Refinement follows from the
  three by cases on the actions. The deadline needs `InTimeInv` on top: an attempt judged
  usable was judged in time, and the clock is not read again before it is published.
* `PlannerProofs`: types, `PlanIffSatisfiable`, `PlanIsCanonical`, `BuiltIsExecutable`. The
  first two compare an exploration with a reference, the recursive `NeededWithin`: its
  recursion is shown to be defined and its value, after as many turns as there are keys, to
  be the least set of keys closed under needs. `PlanInv` follows the planner. While it
  expands, its stack is a path of needs (`PathInv`), what it looked at is served
  (`LookedInv`), and no set of finished capabilities has each waiting for another
  (`ExpandInv`): a requirement found on the stack therefore closes a cycle, and an empty
  stack means a plan can be ordered. While it orders, each step is the least one ready
  (`OrderInv`), and when none is ready those left would be a cycle. `OutcomeInv` keeps what
  each ending says of the input.
* `FindingCorrelationProofs`: types, `MergedAgree`,
  `SubjectRetained`, `EverySourceOnce`, `AgreedFamilyMerges` and
  `ConflictNeedsDisagreement`. `GroupInv` says that groups and the records left
  partition the input and that all pairs in a group may be merged; `FamilyInv`
  that an agreeing family is in one group as far as it has been taken, which is
  what makes greedy grouping complete; `OutcomeInv` relates the result to the
  groups. `MergeMeans` and `MergeSymmetric` say what the comparison guarantees.
* `AssetIntelligenceProofs`: types, `IndexIsPartition`, `AssetsAreComponents`,
  `ObservationsKept`, `OnlyNamelessRaises`. `IndexInv` is true in
  the middle of merges too: the index and the builders are one partition
  (`IndexIsPartition`), every builder's aliases are connected by processed
  observations (`ComponentsInv`), the destination and the rest of a merge are
  distinct builders that share aliases with the observation (`MergeInv`), every
  processed observation is in one builder (`PlacedInv`), and only a host without
  aliases makes a builder without (`NamedInv`). `OutcomeInv` says what assets and
  associations are derived from the builders.
* `ApplicationProofs`, the scan and the doctor: types, `VerdictIsReadiness`,
  `EventsTellOutcome` and, with a doctor before the scan, `ForecastHolds`. The plan is the value of two recursive functions; that they are
  defined, and that a plan is a sequence of registered capabilities, is proved first. Of
  `ScanInv`, `ReadinessInv` says that the requirements seen are those of the bound steps
  behind, and that all checks are ready exactly when those steps are bound and what was seen
  is met; `DecidedInv` what the decision was, `HeardInv` how long the events are at each
  place. `DoctorInv` is what a positive forecast has found, which the composition then keeps.
* `ApplicationProofs`, the command line: `ExitTellsScan` and `JsonOutcomeStated`. `CliInv`
  follows the scan only as far as `main` depends on it (`ServiceInv`, `RunInv`), through its handlers (`MainInv`), and
  relates what was written (`WrittenInv`) to how the output mode became known (`ModeInv`).
* `ApplicationProofs`, composition: `ComposedIsSound`, for every application host, when the
  identities, keys, tools and providers are the built-in ones (`BuiltIn`). The built-in
  definitions are ranked so that a capability is above those whose keys it requires
  (`RanksOfKeys`), which makes the planner's order complete (`OrderComplete`); the keys a
  profile can be asked for are closed under requirements and have one producer each
  (`DemandableClosed`, `ProducersOfKeys`). With `DemandedWithin` every compatible preset can
  be planned. `Sound` says of a composition that all its factories declare is there, the
  vulnerability provider apart, and that a factory whose requirements are there hands over
  nothing else; it holds for whatever a host supplies (`ComponentsSound`). `ComposedInv`
  carries it through `main`; `PreflightInv` says that a requirement seen is there and was
  found, or some check forbids construction.
* `ReconProofs`: types, `WithinScope`, `AliveIsJustified`, `ResolutionTellsLoss`,
  `ErrorsHaveCause`. None of the four is inductive: `AreHosts` says that published hosts
  have names that were discovered, one host a name, `OrderInv` that nothing is found before
  they are there, and `LoopInv` what the loop of host_resolution has counted.
* `VulnerabilityProofs`, enrichment: `OutcomesAreExact`, `DataIsItsOwn`, `FailureIsIsolated`. `AskInv` says
  that what has arrived is what the questions asked so far are due, `SettledInv` that what a
  provider returned stays supported by its records and true to its events while the others
  are asked, `DoneInv` that the aggregate is made of it.
* `VulnerabilityProofs`, vulnerability intelligence and what is behind it: types,
  `LookupsAreExact`, `MatchIsJustified`, `RisksAreThePaths`. Of `ChainInv`, `QueryInv` says
  which lookup the search in progress belongs to, and that a CVE request is about a CPE that
  qualified; `PageInv` that the items received from a truthful service are a beginning of what
  it holds, up to the index asked for next, and an answer all of it, which a page of any size
  and any failed attempt preserves (`PageContinues`, `PaginateKeeps`). `ExactInv` says that the
  links are those owed by the finished lookups, `FoundInv` that each is justified and has its
  vulnerability, `PlaceOK` and `MadeInv` what each result and value was made from. The rest is
  about operators: looking only at the first candidate of a name loses none (`NamedAreAll`),
  a built graph has no loose edge (`BuiltEdgesAreValid`), the assessments of any graph are
  distinct and in range and use the most confident match (`AssessmentsDiffer`,
  `AssessmentsFit`, `PreferredIs`), and those of a built one are the joins
  (`AssessmentsAreJoins`).
* `ToolProofs`: the runner's types, `ReadyMeansRunnable`, `ReportIsHonest`, `CaptureIsExact`,
  `SurvivorIsLeast`. `RunnerInv` says where the runner is (`PlaceInv`) and that a candidate
  passed over would be passed over again while nothing changes (`SelectInv`). What an adapter
  answers is a function of the run that has ended, so most of the proof is about that
  function. The parsers' loop is a recursive function over the lines: it is shown to be well
  defined, and by induction over the lines to make nothing up, to lose nothing without an
  issue, to have an issue only for a cause and to keep the least of conflicting records.
  Before the loop, the lemmas on `Kept` say which lines of an output that was cut are left.
  `CallInv` says that an answer once given stays.

The inductions in `ApplicationProofs`, `PlannerProofs` and `ToolProofs` go by a set of numbers with a least member,
because the library's induction theorems take an operator as a parameter.

Assumptions on constants are stated with `ASSUME` in the module that declares them
and evaluated by TLC on each run. They say that the enumerated inputs have the
types the constructors enforce, for instance one record per fingerprint. Those that say more:

* `BuiltIn`, the numbers of the built-in identities, keys, tools and providers: a hypothesis
  of `ComposedIsSoundHolds` alone, and an `ASSUME` of the run `cli`. The other theorems are not
  restricted to it.
* `ScanAssumption`: one probe serves every tool, as `ApplicationComposition` builds it.
* `TruthAssumption`: a truthful service knows finitely many things, in the documented form.
* `ReconAssumption`: a discovery names finitely many hosts.
* `VulnerabilityIntelligenceAssumption`: CPE names are numbers that determine vendor, product
  and version, as the name is parsed for them; a truthful service does not list one name both
  as deprecated and as not, since only the first candidate of a name is looked at; and the
  values of a caller have the types the domain declares.
* `ToolAdaptersAssumption`: only WhatWeb's lines can have a fault in their evidence.

`WorstStatus`, `StopsAtFirstFailure`, `UsableMeansComplete`, `SubjectRetained`,
`EverySourceOnce`, `OnlyNamelessRaises` and the type invariants of the modules above are
proved and are not repeated in the runs.

Only model-checked:

* Liveness (`RunEnds`, `PlanningEnds`, `CallEnds`, `LookupsEnd`, `EnrichmentEnds`), which the
  proof system does not handle.
* The two violations below.

## Findings

`correlation_disagreement`: two records with the same CVE and different GHSAs stay apart, get
one canonical identity, and `correlate` raises: all findings of the scan are lost, while
`docs/finding-correlation.md` says that disagreements are values and not exceptions.

`cli_documents`: a KeyboardInterrupt after `main` has written its JSON document
(`cli/main.py:673`) and before it returns (`:681`) reaches the handler at `:776`, which writes
a second one with exit code 130. `docs/json-output.md:9` and `:16` and `docs/cli.md:83` say that
stdout holds exactly one document. Each document that is written is well-formed, and the last
one is true: that is `JsonOutcomeStated`, which is proved.

Other places where the code differs from a document or may surprise a reader. The models
follow the code, and none of these has a run of its own:

* `runtime/pipeline.py:341`: after a deadline that passed before a capability, `last_result`
  belongs to a capability that was not executed (`docs/execution-contract.md:38`).
* `runtime/pipeline.py:455`: a capability without a contract whose name is a canonical key
  publishes an unvalidated value under that key.
* `domain/finding_correlation.py:758`: a record without an endpoint joins one of two groups
  with different endpoints when its references sort before theirs
  (`docs/finding-correlation.md:71`).
* `composition/application.py:199`: a target that only the local smoke composition refuses ends
  in exit code 5 and not 2 (`docs/cli.md:92`).
* `application/doctor.py:136`: a version probe that answers UNAVAILABLE leaves the tool ready,
  since the probe answers so both for a tool without a version and for one that is gone.
* `runtime/pipeline.py:265`: `add` records the contract of a call before it refuses the call
  for its duplicate name, so a registration that raised decides what the one before it may
  publish.
* `domain/vulnerability_enrichment.py:428`: one finding whose CVE reference is longer than 32
  characters, which is a valid reference and no `CveId`, ends the whole enrichment in ERROR
  before any provider is called. `docs/vulnerability-enrichment.md:96` can be read to make that
  finding NOT_APPLICABLE ("no single supported CVE identity exists"). `FailureIsIsolated` is
  about findings without such references, and requires the ERROR when there is one.
* KEV gives NOT_FOUND to every CVE that is not in the catalog, so an enrichment is complete,
  and its status SUCCESS, only when every CVE is a known exploited one.
* In risk intelligence an edge with unknown confidence can give a higher confidence than one
  with medium confidence, and a CVSS score from 8.6 on alone gives the level CRITICAL.
* `adapters/nvd.py`: an empty page before the announced total ends the lookup as complete.

## Not modelled, and the plan

Modelled in part, for the outcome that others depend on: the configuration loader (a file
loads or does not; its checks are a fixed
sequence over one parsed value), rendering (outcome, exit code and stream), the diagnostics
sink (which events, in which order), domain values and scope (what is in scope, not how a
host name or URL is parsed).

Left out of modelled parts, in places where no property depends on it:

* A JSON integer of more than 308 digits makes `get_cvss` and `get_epss` raise OverflowError,
  an ERROR for all CVEs; the model takes it for one malformed record.
* A FAILURE of a custom provider with conflicting endpoints is an ERROR of `http_probe` and
  `web_crawl`, and a FAILURE in the model. `ErrorsHaveCause` is about the built-in providers.
* Byte limits on what adapters pass to a tool, and the check of redirects that httpx gets in
  exact mode. The model allows more than the code there.

Not modelled: capability identities, which are the parsing of one string; and the legacy
capability registry of `runtime/`, which only its tests use. Left out for good are wording
and layout of reports, help pages and logs.

Every safety property of a run but the two violations is proved. What is left is in
the two parts that are modelled for their outcome only, the loader and the rendering.
