# A TLA+ model of rewriter-go

rewriter-go turns the SQL of a tenant ("network mode": logical databases and
tables) into the SQL that ClickHouse runs (physical databases shared by several
tenants), and turns ClickHouse's error texts back. It is the isolation boundary
between tenants: what it passes is executed. This directory holds TLA+ modules
of its parts, the TLC runs that check them on small instances, and TLAPS proofs
about the core for every instance.

## 1. Inventory

| Part | Source | State | Operations | Modelled in |
|---|---|---|---|---|
| Rewrite pipeline | `native.go` (`doRewrite`, `rewriteStatement`, `finalize`) | local to one call: text, response, acknowledged SI contract | strip EMPTY/COMMENT, validate, parse, gates, handlers, finalize, restore | `RewritePipeline` |
| Rewriter contract | `rewriter.go` | - | what one call promises | `RewriteContract` |
| NativeRewriter | `native.go` | `last`, the context of the last Rewrite, under a mutex | `Rewrite`, `RewriteErrorMessage`, `Close` | `RewriterSession` |
| Service | `service.go` | none besides the engine | the same, stateless; `RewriteErrorMessage` runs the rewrite again | `RewriterSession` |
| Name resolution | `internal/nameresolve` | none (functions of the options) | selection, resolution, SI lookups, validation, hidden names | `NameResolve`; the text of physical names in `DynamicNames` |
| Preflight | `internal/handlers/preflight.go`, `systemtables.go` | none | T2, T3, T5, T6, R2, R5, system tables | `Preflight` |
| SELECT handler | `internal/handlers/select.go`, `storage_integrity.go`, `lookups.go`, `options.go` | none | injected CTE, SI read surface, string lookups, table decisions | `SelectHandler` |
| Write handler | `internal/handlers/writes.go`, `storage_integrity_policy.go` | none | SI write preflight, one dispatcher per kind, embedded bodies | `WriteHandler` |
| Database-level handler | `internal/handlers/dblevel.go` | none | USE, SHOW, CREATE and DROP DATABASE | `DBLevelHandler` |
| DESCRIBE, EXISTS / SHOW CREATE, GRANT handlers | `internal/handlers/describe.go`, `exists.go`, `grant.go` | none | target of one object; privilege deltas and the marker | `ObjectHandler` |
| Command parsers | `internal/engine/dblevel.go`, `objtarget.go`, `grant.go` | none | read a command from its tokens | `CommandParse` |
| Scans of opaque text | `internal/engine/ungoverned.go`, `dblevel.go` | none | refuse text through which ClickHouse would read or copy a table | `OpaqueText` |
| Other collectors | `internal/engine` (`nodes.go`, `references.go`, `lexical.go`, ...) | none | what a statement names | `Statement`, as data |
| Fidelity gates | `internal/engine/regenerated.go`, `wholestmt.go`, `guard.go` | none | refuse what the parser or generator dropped or regrouped, and what is nested too deep | `RegeneratedGate`, `WholeStatement`, `NestingGuard`; verdicts in `RewritePipeline` |
| Error inversion | `internal/reverse` | none | invert names, remap positions, withhold | `ErrorInversion`, `OffsetMap`; names only in `RewriterSession` |
| Materialize | `materialize.go`, `internal/engine/materialize.go` | the walk's cursor into the inputs | replace volatile calls by literals, record them | `Materialize` |
| Snapshot query | `snapshot_query.go`, `internal/engine/snapshot_query.go`, `snapshot_lexemes.go` | the plan of one call, its deadline | analyse, prepare | `SnapshotQuery`, `SnapshotRPC` |
| Measured engine | `snapshot_query_profiles.go`, `internal/engine/snapshot_measured_linux.go` | memory file, loaded object, calls in flight | load, seal, measure, verify, call, close | `MeasuredEngine` |
| Polyglot parser | FFI, `internal/engine/polyglot.go` | open or closed | parse, generate, tokenize, close | external: succeeds, fails, always fails once closed; stops where it likes |

How the parts interact. A call of `Rewrite` is one goroutine that runs
`doRewrite`: the forms Polyglot cannot parse (`CREATE TABLE ... EMPTY AS
SELECT`, a view's trailing `COMMENT`) are cut out of the text, the options are
validated, the text is parsed, two gates look at the parse, then the preflight
and the handlers are asked in order until one answers. `finalize` stamps the
answer and runs three more gates on a Success. Last, the clause that was cut is
put back. Another goroutine may close the engine between any two of these
steps. `NativeRewriter` stashes the maps of the answer for the error text that
may follow; `Service` computes them again. Materialization and the snapshot
calls share the engine and nothing else with it; the snapshot lane runs on a
library of its own, loaded from a measured memory file.

What is hard here:

* The checks of one statement are spread over stages, and which stage owns a
  check depends on the options: an active storage-integrity (SI) surface moves
  the carrier, settings and system-table checks from the preflight to the
  handlers and to `finalize`. A check that each side believes is the other's is
  a hole no test of one stage sees. The database-level handlers go by the last
  dynamic option (`FindDynamicArgs`), the preflight by the active one
  (`FindActive`).
* The SELECT handler is lenient (a name it cannot resolve stays as written); it
  is safe only because the preflight refused every protected name before.
* A Go error is answered by the caller with forwarding the *original* SQL
  (`Rewriter`: "Fail-open"), so a dynamic request must never produce one,
  whichever engine call fails.
* A refusal is decided on a text that may differ from the caller's, and carries
  whatever maps were built before it. Only the system-table refusal clears
  `table_rewrites`; the drop and identity gates of `finalize` keep those of the
  Success they replace, which are the caller's own names.
* The error text of a statement is inverted with state another call left, one
  map entry after the other.
* Two grammars read each statement: Polyglot's, or the rewriter's own token
  loops where Polyglot keeps text, and then ClickHouse's. What one of them
  drops, regroups or takes for a keyword is executed by the other.
* Materialized inputs are consumed in the order of the walk; a refusal half way
  must leave nothing behind that says otherwise.
* A snapshot call has a deadline, and the engine cannot be interrupted.
* A library file can change between being measured and being loaded.

The properties that make each part correct are listed with the runs (section 5);
`PROJECT.json` lists the hazards with their lines.

## 2. Modules

    NameResolve <- Statement <- Preflight <- SelectHandler <- WriteHandler
      <- DBLevelHandler <- ObjectHandler <- RewritePipeline
      <- RewriteProperties <- MCRewritePipeline
    RewriteContract   (instantiated by RewriteProperties and RewriterSession)
    RewriterSession <- MCRewriterSession
    Tokens <- CommandParse, Tokens <- OpaqueText
    SnapshotRPC, SnapshotQuery <- SnapshotProperties
    ErrorInversion <- DynamicNames
    OffsetMap, Materialize, MeasuredEngine,
    RegeneratedGate, NestingGuard, WholeStatement
    HandlerProofs <- RewritePipelineProofs <- RewritePolicyProofs
    RewriterSessionProofs, ErrorTextProofs (OffsetMap, ErrorInversion, DynamicNames),
    MaterializeProofs, SnapshotLaneProofs (MeasuredEngine, SnapshotRPC),
    EngineTextProofs (NestingGuard, WholeStatement)

The MC modules hold the instances. Three of them compose modules that meet in
the program: `MCErrorText` (`OffsetMap`, `ErrorInversion`, `DynamicNames`: the two
halves of `reverse.Invert` and the physical names it inverts), `MCSnapshotLane` (`SnapshotRPC`, `MeasuredEngine`) and
`MCEngineText` (`CommandParse`, `OpaqueText`, `NestingGuard`, `WholeStatement`,
`RegeneratedGate`: what the engine decides on text). The parts of such a
composition work on different data and share no state, so a behaviour picks one
and the others rest in an initial state: the run is the union of their
behaviours, not a product.

* **NameResolve**: `internal/nameresolve`. A database is a string; a table is the
  sequence of the parts its dots separate, so the quoted name `` `d1.t` `` and the
  qualified `d1.t` are different references with one written text, as in the code.
  A physical name is a sequence of parts too, which takes it for granted that
  joined names come apart again; `DynamicNames` is about that.
* **DynamicNames**: the physical names as the bytes the code joins
  (`buildDynamicTableName`, `BuildDynamicTablePrefix`), and the tables of a
  physical database that tenants create and drop under them and list by prefix
  (`SHOW TABLES`).
* **Statement**: a statement is a record of what the engine's collectors report
  (targets, reads, arguments of table functions, names in opaque text, string
  lookups, the parsed command) and of the features a scan of the text finds
  (`Marks`). How the collectors walk a JSON tree is left out: the handlers see
  only their results. The module also has the response and the helpers that
  fill it.
* **Preflight**, **SelectHandler**, **WriteHandler**, **DBLevelHandler**,
  **ObjectHandler**: the handlers as operators from a statement and options to
  a response, with the code's order of verdicts. The SQL of an answer is the set
  of names in it, each with the name it stands for and who wrote that (the
  caller or an option); the privilege deltas of a GRANT and the database map
  are fields of the response.
* **RewritePipeline**: the state of one call and one action per stage. `pc` is
  the stage; `resp`, `siv`, `ec` are the variables of `rewriteStatement`; `text`
  and `stripErr` say what `doRewrite` hands to it; `closed` is the engine's.
  A handler answers, declines or fails; it can fail only where it asks the engine
  (`WriteAsks`, `IsCommand`; the preflight asks nothing without dynamic policy) or
  must generate the SQL of a Success.
* **RewriteContract**: one call answers once; a refusal gives the caller's SQL
  back; a Go error only without dynamic policy.
* **RewriterSession**: goroutines of a connection that rewrite statements, fail
  and ask for their error texts, over the contract. `last` is
  `NativeRewriter.last`; `Close` is its two steps. An error text is the set of
  the names in it that the rewriting introduced.
* **Tokens**, **CommandParse**: the token stream and the position-by-position
  readers of USE, SHOW, EXISTS, SHOW CREATE, DESCRIBE, GRANT and REVOKE, the
  GRANT marker and the splice that puts a new name into a SHOW. The client
  writes a statement from its parts; the properties compare what is read with
  the parts.
* **OpaqueText**: the scans of ALTER actions, view column lists, INSERT queries
  and SHOW tails. A fragment carries, beside its tokens, whether ClickHouse
  reads a table through it; the scans see only the tokens.
* **NestingGuard**: the loop of `exceedsNestingDepth`, one action per iteration.
  The history variable `parserAt` records beside each byte the state in which the
  parser's tokenizer meets it; the guard never reads it.
* **WholeStatement**: `CheckParsedInFull`, which parses prefixes of the
  statement to find where Polyglot stopped; one action per probe.
* **RegeneratedGate**: the bag comparison of `CheckRegenerated` with its
  precedence rules. A generator prints a tree grouped by its own levels; a
  reader, the reference definition, groups the printed tokens by ClickHouse's.
* **OffsetMap**: Myers' search of `buildOffsetMap`, one action per diagonal,
  then the walk back and `remapErrorPositions`. `Twins` are the pairs of equal bytes
  a diagonal slides over; the reference for the length of the search, a longest
  common subsequence, is the recursive function `Common` of them.
* **ErrorInversion**: `reverse.Invert` on byte sequences, one action per map
  entry, then the hidden-name check as the loop of `ContainsIdentifier`, one action
  per hit (`IdentifierFound`, `SkipHit`, `IdentifierAbsent`); `from` is where the
  search resumes. The entries still to substitute, and then the names still to
  look for, are the set `keys`, and the next one is its first in byte order, as `sortedKeys` has it. A
  pass is stated by positions: the longest match at each, and the pieces of the
  text one comes to from its start (`Pieces`).
* **Materialize**: the walk over the tree, one action per node, with the cursor
  into each list of inputs, the records and the regeneration. The nodes of a
  statement are numbered in the order of the walk, so the part below a node is an
  interval (`NumberedInOrder`).
* **SnapshotRPC**: the two calls as a sequence of checks with a deadline that may
  pass at any moment. What the engine computes is two constant operators,
  `EngineAnalyzes` and `EngineLowers`, so that what is proved of the calls holds
  whatever it computes.
* **SnapshotQuery**: those two operators as the code has them: the analysis
  (scopes, CTEs, types, random calls) and the preparation of a query.
* **MeasuredEngine**: copying, sealing, inspecting, hashing, loading, verifying
  and closing, one action per system call that another party can come between;
  the loader, the disk and other descriptors are the environment.

Definitions that start with a comment "Mutant" are faulty variants of the
definition that follows them; no specification uses them. They show that the
property they are paired with in `PROJECT.json` depends on the code.

## 3. Assumptions

* `RequestAssumption`: the value that stands for "no request" is none.
* `StatementAssumption`: the statements of the requests are ones the collectors
  can report (`WellFormed`): the kinds and marks are known ones, a statement has the
  fields its collector fills, a read and the slot of a table kind name a table,
  the kinds without a SELECT report no reads, and a SHOW target without a name is
  one that the reader found parameterised or of several parts.
* `OptionsAssumption`: a request's options are a list and its arguments have every
  field of the message, an absent one empty (`WellFormedOptions`); which names the
  fields hold is left open.
* `NotSimpleAssumption`: `*` is no simple identifier.
* `SessionAssumption`: dynamic calls are calls, `NoCall` is not, the maps and
  hidden names of a call are sets of names.
* `LooseOperators`: AND and OR bind looser than every operator but the ternary,
  in ClickHouse and in Polyglot.
* `UnitsAssumption`, `TextsAssumption`, `PositionsAssumption`,
  `GuardAssumption`, `TokensAssumption`: the constants are numbers and finite texts.
* `NamesAssumption`: logical databases, table names, delimiters and extra arguments
  are sequences of bytes. The tenants of a physical database share the delimiter
  and the extra arguments, which are options of the deployment.
* `ErrorsAssumption`: an error text, the two statements, and what the two maps hold
  are sequences of ASCII bytes. The two maps, the hidden names and the literals of
  one error need not belong together.
* `RequestsAssumption`: the tree of a statement to materialize is finite and
  numbered in the order of the walk, the parser's nodes are no literals of the
  materializer's, and the lists of inputs are finite. How many inputs there are,
  and whether there is a clock, is left open.
* `EnginesAssumption`, `FdsAssumption`, `ProfilesAssumption`: there are finitely
  many engines, 0 stands for no descriptor, and what a profile file holds has a
  digest.

Four theorems have a hypothesis about the requests, for something the code leaves
to ClickHouse's grammar or to the deployment. `CommandHypotheses` is checked on the
instances of `reads`, `writes` and `lifecycle`.

* `NamesOnlyItsTarget`: a command names objects where ClickHouse's grammar has
  them. The token loops accept `SHOW FUNCTIONS FROM db`, which has no meaning;
  the handler for targetless SHOW forwards it without a look at the name, and
  ClickHouse rejects it.
* `ClausesClear`: no expression in the text of a command (SHOW ... WHERE) spells an
  SI table. The handlers check such a name against the protected databases, not
  against the SI surfaces, since it reads nothing.
* `SystemUnmapped`: the account maps no logical database called `system`. Where one
  does, an unqualified name in a session on it is the account's own table and not
  ClickHouse's, and the property speaks of ClickHouse's.
* `LogicalApart`: no logical database carries the name of a protected one. Where
  one does, the resolver refuses every name of it, and GRANT still records a delta
  for what it cannot reach.

The databases of the pipeline's instances contain no dot (`DynamicNames` has one
that does). At most one CTE is injected per request; its
body's names are the option's, not the caller's. A digest stands for the
contents it is the digest of.

## 4. Fairness

* Pipeline, `WF(Step)`: a call is a goroutine that runs to its end without
  waiting for anything, so its next step is not postponed for ever. Calls,
  `Return` and `Close` have no fairness. No liveness property is checked of it:
  `doRewrite` has neither a loop nor a wait, and `Finalize` and `Restore` follow by
  the order of the stages.
* `MeasuredEngine`: a call in flight returns, and the closer goes on once it is
  allowed to (`WF` of `EndCall`, `CloseClient` and `Dlclose` for each engine).
  Nothing makes a caller call or close.
* The session, the snapshot calls, the parsers, the scans and the loops of one
  call have none: their properties are safety properties.

## 5. Runs

| Run | Checks | Shows |
|---|---|---|
| `reads` | `Isolation` `SystemTablesRefused` `ContractAcknowledged` `AccessedComplete` `SICommandsGuarded` `DatabaseCommandsIsolated` `UseAgreesWithResolution` `GrantConfined` | SELECTs of one and two tables in every name position, and USE, SHOW, CREATE and DROP DATABASE, DESCRIBE, EXISTS, SHOW CREATE and GRANT of every kind of target, under every option shape: what succeeds is isolated, acknowledged and fully reported, and a database set by USE means what a qualified name would. |
| `writes` | `Isolation` `Screened` `SIWritesGuarded` `AccessedComplete` `RefusalRevealsNoMap` `RefusalEchoesCaller` `SuccessKeepsClause` `DynamicNeverGoError` | Every write kind with and without a body, the EMPTY and COMMENT forms included, under every SI contract and with the engine failing at any stage. |
| `lifecycle` | `TypeOK` `CallAfterClose` `ImplementsContract` | Calls of every shape, one after another, with Close between any two stages: the pipeline implements the contract, and a call that follows Close fails. |
| `session` | `TypeOK` `NoHiddenNameTold` `ServiceNeverLeaks` `LastIsCurrent` | A connection with calls of two accounts and one without policy: no error text handed to the client contains a name hidden from its statement. |
| `error_text` | `PositionsFaithful` `NamesComeBack` `NoHiddenNameLeft` `PrefixPositionsKept` `TenantsApart` | Myers' search step by step on every pair of texts: the map from rewritten to written positions is monotone, keeps common bytes and comes from a shortest edit. An error text with quoted, bare and dotted names in every order: the caller's names come back and the search for hidden names, hit by hit, leaves none of them in what is told. Two tenants of one physical database create, drop and list tables: neither reaches a table of the other. |
| `materialization` | `AnswerReplayable` | Trees with clocks, random calls, reserved nodes and pseudo-columns, with too few inputs and with failures: what succeeds has no volatile call left, and its records replay it. |
| `snapshot_lane` | `PreparedMeansTheSame` `ReportExact` `NoLateSuccess` `ServesWhatItMeasured` `HeldWhileNeeded` `CloseEnds` | Queries with CTEs, subqueries, unions and volatile calls, analysed and then prepared under a deadline: the prepared query means the written one, on the tables it reported. The library file is overwritten or replaced at any step of the load, other objects define its symbols, Close meets calls in flight: what runs is what was measured. |
| `engine_text` | `CommandsRead` `OpaqueJudged` `GuardExact` `ParseMeasured` `RespellingJudged` | What the engine decides on text: commands are read as ClickHouse reads them, opaque text that reads is refused and plain text passes, brackets are counted where the parser sees them, what passes was read to its last word, and what is regenerated is read as the input. |
| `twins` | `RewriteMapByIdentity` | Violated. A qualified name and a quoted one-part name with the same written text: table_rewrites keeps one of them. |
| `close_race` | `CloseIsNoGoError` | Violated. Close between the parse of a request without dynamic policy and the Generate of the handler that answers it ends the call in a Go error. |
| `stale_context` | `LastIsMostRecentRewrite` | Violated. A Rewrite that ends in a Go error leaves the context of the call before it. |
| `withheld_text` | `FailedForwardPassesThrough` | Violated. The Service withholds the text when its second run does not succeed. |

Where one question has several parts, the property that a run checks is their
conjunction, and each part is a definition with its own comment. For each
part a mutant in `PROJECT.json` breaks it; two parts may share one.

| Property | Its parts |
|---|---|
| `DatabaseCommandsIsolated` | what USE and SHOW TABLES emit is the account's; `DatabaseMapTrusted`: the reported map is what the resolver would answer |
| `PositionsFaithful` | `OffsetTypeOK`, `ShortestEdit` (the search ends within the bound, with a shortest edit), `OffsetsMonotone`, `CommonBytesKept`, `NameStartsKept` |
| `AnswerReplayable` | `MTypeOK`, `SuccessIsDeterministic`, `ValuesInOrder`, `RecordsDescribeSQL`, `OneInstant`, `ChangedOnlyOnSuccess` |
| `ReportExact` | `SnapshotTypeOK`, `ReadsExact`, `OutputsFit`, `PoolInTextOrder` |
| `ServesWhatItMeasured` | `MeasuredIsRunning`, `ProfileCommitsToImage`, `NothingInterposed` |
| `HeldWhileNeeded` | `MeasuredTypeOK`, `LoadedWhileCalled`, `NothingLeaks` |
| `CommandsRead` | `CommandTypeOK`, `ShowTargetRead`, `NothingDropped`, `CallArgumentsRead`, `SpliceRetargets`, `GrantScopeRead`, `MarkerNamesTarget` |
| `OpaqueJudged` | `OpaqueTypeOK`, `OpaqueReadsRefused`, `PlainTextPasses`, `ActionsJudgedAlone`, `QualifiersReported` |
| `GuardExact` | `GuardTypeOK`, `DeepStatementsStopped`, `LiteralsNotCounted` |
| `ParseMeasured` | `WholeTypeOK`, `AcceptedInFull`, `ReadInFullAccepted`, `NamesFirstIgnored` |
| `RespellingJudged` | `GateTypeOK`, `RespellingFaithful`, `SimpleAccepted` |

Bounds.

* `reads`, `writes`: a call is a function of one request and of the failures on
  its way, and `Return` forgets everything but `closed`; so requests are
  enumerated instead of sequences of them, with all failures. Two reads suffice
  because the handlers' verdicts are "the first bad table" and maps over tables;
  thirteen names cover each class a name can be in: mapped, unqualified, the
  protected physical database itself, protected and unmapped, known, unknown, SI
  logical (qualified or not), SI physical by table and by reservation, allowed
  and refused system tables, and a dotted one.
* `session`: three calls are enough for a context of another account and of a
  call that left none.
* `error_text`: all pairs of texts of up to four bytes over two letters and three
  over three: insertions, deletions, replacements and shared prefixes occur.
  Phrases of three items give a name a neighbour on both sides; the hidden name
  `v-v` overlaps itself, so that a hit inside a rejected hit exists. Four logical
  databases, of which one is the beginning of another's name, one continues
  another's with the default delimiter and one is dotted; a dotted table name; no
  extra argument, one, and two with the delimiter `.` that repeat the separators
  and the other names.
* `materialization`: units are scaled down (a second is 4 ticks) so that every
  rounding and range limit is met; a list of two expressions beside a WHERE
  shows the order in which inputs are consumed.
* `snapshot_lane`: integer widths are 2 to 4 bits, so literals meet the limits of
  their types; families of queries instead of all queries of a size. Two engines
  and two descriptors are needed for one engine to meet the descriptor number
  another has left; two blocks for a torn copy; one write and one fault at any
  step.
* `engine_text`: products of the parts of each command; two actions of an ALTER,
  since each is judged alone (`ActionsJudgedAlone`). Every text of five bytes with
  a limit of one bracket: a literal, its escape and a bracket on each side fit.
  Every sequence of up to five tokens, with every point at which the parser may
  stop: the search has two rounds. Expressions of three operators, the smallest
  number at which an operand has a respelled neighbour on each side.

The violated runs are statements of the repository that the code does not meet;
each is a finding in `PROJECT.json` with the quoted line:

* `twins`: `table_rewrites` is keyed by the written text (`select.go:361`), against
  the comment of `Identity`.
* `close_race`: without dynamic policy the preflight asks the engine nothing; a Close
  after the parse makes the Generate of the handler that rewrote the statement fail
  (`writes.go:355`), and the call ends in a Go error; a call that *follows* Close behaves as documented (`CallAfterClose`).
* `stale_context`: `last` is not that of the most recent Rewrite when that failed.
* `withheld_text`: the Service withholds where its comment says "passes through";
  the code's behaviour is the safer one.

Other places where a comment and the code disagree, met while modelling. Where a
property of a passing run meets one, it excludes that case and no more:

* `handlers/dblevel.go:226-228` calls the check of a protected USE target defensive;
  it is the one that refuses when a static option follows the dynamic one.
* `reverse/reverse.go:318-320` says that the order of substitutions does not change
  the result; it does for a name that is an original and a rewritten one. The keys
  are sorted, so the output is still deterministic.
* `engine/dblevel.go:253-256`: a database clause after a SHOW target that ends in a
  parameter is not seen (`BrokenTarget`, the exception in `ShowTargetRead`): `SHOW
  COLUMNS FROM c.b.{p:Identifier} FROM d` is read as one of database `c`.
  `engine/objtarget.go:65-66`: a quoted target that spells
  TEMPORARY or an object type is read as the keyword. The handlers refuse what
  comes of both, so no statement runs on it.
* `engine/grant.go:68-70`: the marker of a GRANT on a quoted name `cluster` prints
  the name bare, and it is read again as ON CLUSTER (the exception in
  `MarkerNamesTarget`).
* `engine/ungoverned.go:788-790`: a view or a target named WITH ends the scan for an
  inner storage clause before it (the exception in `OpaqueReadsRefused`).
* `engine/guard.go:19-21` says that a miscount can only add to the depth; a quote in a
  comment hides the brackets after it (the exception in `DeepStatementsStopped`).

## 6. Proofs

* **HandlerProofs** - facts of single names for all options:
  `ProtectedNeverResolves` and `ResolvesIntoOwnPrefix` (what lands in a
  protected physical database is mapped for the account and carries its logical
  database's prefix). That the prefixes of two logical databases keep their tables
  apart is `TenantsStayApart` of `ErrorTextProofs`. Then lemmas about
  the handlers: whatever the statement and the options, every
  handler answers a whole response with a known code, and on a refusal its SQL
  is absent or the text it was given. Each operator of the handlers has its
  lemma; `PreflightAnswers`, `SelectAnswers`, `WriteAnswers`, `DBLevelAnswers`,
  `DescribeAnswers`, `ExistsAnswers` and `GrantAnswers` are the results. The
  last part says what a Success means: which checks of the preflight and of a
  handler it passed (`CheckReads`, `InspectTarget`, ...), and of a fold over
  tables, that each of them was resolved or refused.
* **RewritePipelineProofs** - `TypeCorrect`, `FailsClosed`
  (`DynamicNeverGoError`), `RefusalsEcho` (`RefusalEchoesCaller`) and
  `Implements` (the pipeline implements `RewriteContract`), for every set of
  requests. `RefusalEchoesCaller` speaks of the end of a call and is not
  inductive: `Carried` says what the response holds at every stage (the echo
  until a handler answers, new SQL only behind a Success, the echo of the text
  in work until the clause is restored). Every stage but the first ones
  satisfies `Leaves`, which implies the invariant's next state. The refinement
  uses the invariant for the shape of an answer and `req = NoRequest` exactly
  when idle.
  The second half has the invariant `Behind`: at each stage, which stages
  the call has behind it and that they declined, and on a Success, whose answer it
  is (`Origin`). From it `Acknowledges` (`ContractAcknowledged`),
  `SuccessesScreened` (`Screened`) and, with the stages that a closed engine cannot
  leave (`Shut`), `ClosedCallFails` (`CallAfterClose`).
* **RewritePolicyProofs** - what dynamic mode is for. A Success has passed the
  preflight and one handler (`Behind`), so what is true of every Success of each
  handler is true of the pipeline's: `SuccessesIsolated` (`Isolation`),
  `SuccessesReported` (`AccessedComplete`), `DatabaseCommandsStayIsolated`,
  `UseMovesSession`, `WritesGuarded`, `CommandsGuarded` and
  `SystemTablesStayClosed`. `Isolation` rests on two facts the code keeps in two
  files: the preflight refuses every protected name that no logical database maps
  (so the lenient SELECT handler never meets one), and `ResolvesIntoOwnPrefix`.
  `ClausesKept` adds to `Behind` that a cut clause is in the text in work;
  `RefusalsRevealNoMap` needs `Guarded` (no response in work has a message that
  must not come with a map; each handler clears its maps or has none, and the
  gates keep maps only under other messages), `GrantsConfined` needs `Granted` (the
  deltas are those of the answer to the GRANT, or gone).
* **SnapshotLaneProofs** - `EnginesServeWhatTheyMeasured` and
  `EnginesHoldWhatTheyNeed`, for any number of engines, descriptors, faults and
  writes, from `EngineInv`: a memory file is sealed before it is hashed and keeps what
  was hashed, and an engine that passed the check holds its own file, loaded under
  its own descriptor (`EngineOK`); a memory file, and a descriptor in use, belong to
  one engine (`Apart`); what is loaded is sealed and bound to no more than it leaves
  undefined (`Loaded`); and the references to it are those the engines hold, but for
  what failed closes left (`Counted`). For the two calls, `SuccessesAreTimely`
  (`NoLateSuccess`) and `SuccessesAreChecked` (`NoCheckSkipped`: a Success has passed
  every check of its call, and what Prepare returns is the engine's plan lowered onto
  tables that match its reads one for one), for any requests, profiles and engine.
  `RPCInv` says what a call at each step has established: `Admitted` before the
  engine is called, `Planned` behind it, `Answerable` behind the second look at the
  deadline. Prepare itself refuses a materializing
  request or a long descriptor only under a supported profile and contract; the
  invariant shows that the analysis refuses the others before it calls the engine.
* **MaterializeProofs** - `AnswersReplay` (`AnswerReplayable`), for statements of any
  shape and any inputs. The invariant `MInv` has six parts: the state's shape
  (`Shaped`); the parts still to visit follow one another from the walk's position to
  the end of the statement and are as the parser left them (`Ahead`); what the walk
  has been to holds no volatile call, and its literals are the records, in order
  (`Walked`, with the set of visited nodes and the place of each record as
  witnesses); each list of inputs was consumed from its start, one value per record
  that draws on it (`InOrder`); a clock's literal is a reading of the one instant
  (`Readings`); and the answer is a Success with the caller's text until a step
  refuses or generates (`Stage`). `Walked` is needed because the
  cursor alone does not say that no volatile call stands behind it.
* **ErrorTextProofs** - for the names of an error text, `HiddenNamesWithheld`
  (`NoHiddenNameLeft`), whatever the text, the maps and the hidden names. `EInv`
  says of the search that a name it is done with stands nowhere in the text, and
  the name it looks for nowhere before `from`: a hit whose borders were rejected is
  skipped by one byte, so no place at which the name stands is passed over
  (`NameStands`, `FirstHitIs`, `Rejected`). It adds that every pass hands on a text
  (`PiecesText`, `ReplacedText`, `BoundaryText`, `SwappedText`): its pieces lie inside
  the text, and the remainder from each position on exists because a piece is never
  empty.

  For its positions, `PositionsStayFaithful` (`PositionsFaithful`) and `PrefixesStay`
  (`PrefixPositionsKept`), for any two texts: Myers' algorithm. The cost of turning
  one beginning into the other is `i + j` less twice what they share (`Shared`, the
  values of `Common`), the texts continued by bytes without twins so that the search
  may run past an end as the code's does. `Reaches(e, j, a)` says that `a` is the
  furthest offset that `e` edits come to on diagonal `j`. A last edit comes from a
  neighbouring diagonal (`LastEdit`) and equal bytes may always be matched
  (`SharedRun`), so the furthest offset is the further neighbour's entry and its run
  (`FurthestReached`, `FurthestIs`): this is the invariant of the search
  (`Searching`), and the search ends on the diagonal of both ends with `Best`, the
  shortest edit. The walk back (`Walking`) stands where `d` edits reach furthest and
  are needed; from there one step leads to the furthest offset of `d - 1` edits, and
  what the map holds behind the walk (`MappedBehind`) is in order, has kept as many
  bytes as the texts share there, and has mapped what it crossed of a swapped name.
  `NameStartsKept` needs the tie-break of `Down`: where an insertion and a deletion
  reach equally far, the insertion is the last edit. So inside a swapped name the walk
  goes back over the insertions first, and every deleted byte is mapped to the
  name's start.

  For the names it inverts, `TenantsStayApart` (`TenantsApart`), whatever the bytes
  of the names, the delimiter and the extra arguments. All prefixes end in the same
  text after the logical name, and that text ends in a dot. Its first dot is the
  first dot of every name made with it, since logical names have none; so where a
  table's name starts with a prefix, the two logical names have one length and are
  the same (`PrefixOwns`). A table
  listed under a prefix is therefore its owner's, and is stored once
  (`NamesAre`, `ListedOnce`).
* **EngineTextProofs** - `GuardCounts` (`GuardExact`) for texts of any length and
  every limit. The guard keeps one number where the parser has a nesting, so the
  invariant compares that number with the brackets left open in every stretch that
  ends at the scan: it is no smaller than any (`AtMost`), and reached by one
  (`AtLeast`); `Aligned` says that both are inside or outside the same literal.
  `MeasuresTheParse` (`ParseMeasured`) for statements of any length and a parser
  that stops anywhere: cut before token n, a statement parses alike exactly when
  only closing brackets lie between n and the stop (`AlikeMeans`), which makes
  `Bracketing` the invariant of the search; matched brackets balance because the
  bracket a closing one closes is its own alone (`ClosedOnce`).
* **RewriterSessionProofs** - `TypeCorrect`, `DynamicCallIsStashed`
  (`LastIsCurrent`), `ServiceLeaksNothing` for any number of goroutines, and
  `NativeLeaksNothing` (`NoHiddenNameTold`) for one client. The inductive parts
  are `Working` (who has a call and which answer), `ServiceContext` (the second
  run's context is the statement's) and `NativeContext` (from the return of
  Rewrite to the told text, the context is the statement's own, while open).

`MCSnapshotLane`, `MCEngineText` and `MCErrorText` run `EngineNext`, `RPCNext`,
`GuardNext`, `WholeNext`, `OffsetNext`, `InversionNext` and `NamesNext` or leave their variables
alone, so each behaviour of those runs is, on those variables, one of the
specification the theorem is about.

Where a proof needs induction over a length or a cost, it takes the least
counterexample (`Least`, `LeastPair`): the library's induction theorems take an
operator. A recursive function (`Common`, the remainders in `Pieces`) is shown to
exist the same way, as the union of its beginnings.

Only model-checked:

* `NamesComeBack`: what a pass leaves in a text depends on every other entry of the
  maps (a name may hide in another, or be an original and a rewritten one); the
  property speaks of the error texts the instance marks as clean, and what makes one
  clean is not stated for all maps.
* `CommandsRead` and `OpaqueJudged`: each compares a reader of tokens with the
  parts a statement was written from, over the finite list of those parts.
* `PreparedMeansTheSame`, `ReportExact`, `RespellingJudged`: they compare
  definitions that are recursive over trees.
* The liveness property `CloseEnds`.

## 7. Plan

1. `NamesComeBack` from a condition on the maps instead of a mark on the error: that
   no rewritten name stands in another or in an original, at a boundary, and that the
   text names nothing else of theirs.
2. `RespellingJudged` for expressions as flat token sequences: the printed tokens
   with the level of each operator, in place of the trees they are printed from.

## 8. Not modelled

* The collectors that walk Polyglot's JSON tree (`nodes.go`, `references.go`,
  parts of `writes.go`) and the scans of `lexical.go`: their cases are the fields
  of another program's AST and the spellings of literals, so a model of them
  would be a copy. Their results are the `Statement`.
* In the gates: the decoding of literals (`regenerated_lexeme.go`), the order of
  column modifiers, and the refusal of a glued `#`, which look at one token at a
  time.
* In the snapshot profile: the closed list of AST fields and the lexical rules
  on literals; the layout of an ELF file, which is a set of symbols here.
* Query limits and settings options: they change no name.
* The text of SQL and messages, the FFI itself, command-line tools and scripts.
