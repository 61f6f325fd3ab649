# promolog in TLA+

promolog keeps a log buffer per request and stores ("promotes") the buffer as a
trace when the request turns out to matter. This directory holds TLA+ models of
the library, TLC configurations that check them, and proofs checked by TLAPS.
Every definition is translated from the Go code; the file and lines each one
stands for are in `PROJECT.json` under `map`.

## 1. The system

| Component | State | Operations | Called by | Model |
|---|---|---|---|---|
| `Buffer` (promolog.go) | entries, or head + tail ring + counters; tags; two bodies; one mutex | `Append`, `Entries`, `Tag`, `Tags`, body accessors | slog `Handler`, body capture, the application; read by `promoteFromRequest` and `Operation.trace` | `BufferOps`, `LogDigest`, `Buffer` |
| `AutoPromoteMiddleware`, `responseWriter` (autopromote.go) | recorded status and `written` flag | `WriteHeader`, `Write`, `Flush`, policy loop, `promoteFromRequest` | net/http, once per request | `Request`, `Buffer` |
| `BodyCaptureMiddleware`, `captureResponseWriter` (bodycapture.go) | captured bytes, count | read and re-wrap the request body, `Write` | net/http, the handler | `Request` |
| Promotion policies (policy.go) | a random source | `Predicate` | `AutoPromoteMiddleware` | `Request` (status; the others as either outcome) |
| Correlation (correlation.go) | IDs in context and headers | middleware, transport | net/http | `Correlation`, `Operations` |
| slog `Handler` (handler.go) | the request ID it was bound to | `Handle`, `WithAttrs` | slog | `Operations` |
| Operations (operation.go) | ID, origin, buffer | `StartOperation`, `PromoteOperation` | application | `Operations` |
| `Store` (sqlite/store.go) | table `error_traces`, callback `onPromote` | `Promote`, `PromoteAt`, `Get`, `DeleteTrace`, `SetOnPromote` | middleware, application, exporters | `Store` |
| `WireExporter` (promolog.go) | one goroutine per promotion | callback, read back, export | `Store.promoteAt` | `Store` |
| Exporters (export/json, export/webhook) | a mutex and a writer; an HTTP client | `Export` | export goroutine | `Delivery` |
| `RetentionEngine` (rule.go) | enabled rules | `MinTTL`, `Match` | cleanup | `Retention` |
| Cleanup and retention rules (sqlite/store.go) | table `retention_rules`; the locals of each pass | `RunCleanup`, `StartCleanup`, rule CRUD | application, ticker | `Cleanup` |
| Filter rules, `RuleEngine` (sqlite/store.go, rule.go) | table `filter_rules` | CRUD, load, first match | application only | `FilterRules` |
| Queries (sqlite/store.go) | none | `ListTraces`, `AvailableFilters`, `Aggregate` | application | `Queries` |
| Schema (sqlite/store.go) | tables, columns, indexes | `EnsureSchema` | application at start | `Schema` |

How they interact. A request passes `CorrelationMiddleware`, which puts a
request ID and a `Buffer` into the context; then body capture, which reads the
request body and wraps the response writer; then auto promotion, which wraps it
again; then the handler, which logs, calls other services and starts operations
with buffers of their own. When the handler returns, the policies look at the
recorded status, and `promoteFromRequest` assembles a `Trace` out of four
separate reads of the buffer and calls `Store.Promote`. The store inserts the row
if the request ID is new and then calls its callback, which starts a goroutine
that reads the trace back by request ID and exports it. Meanwhile readers page
through the table, cleaners select and delete expired rows, one statement at a
time, and rules are edited.

What makes it hard: goroutines that log while the buffer is being read; two
promotions of one request ID; a callback that is replaced while it is called;
goroutines that act later on an ID whose row may be gone or another one by then;
answers that take several statements over a table that changes; passes made of
many statements that may fail, be cancelled, or be lost in a restart; a
connection pool that a pass may exhaust by itself; TTL arithmetic at zero and at
the int64 limit; times compared as texts; HTTP writers that each have their own
idea of what was sent. `PROJECT.json` lists these hazards at their lines, with the
properties that cover them.

What makes each component correct:

- *Buffer*: a reader is always given the digest of everything logged (all of it,
  or first half, exact number of missing lines, last half), and a promoted trace
  never shows an effect without the lines logged before it.
- *Request*: the recorded status is the one the client gets; a failure is
  promoted with it; the stored response is exactly the redacted prefix; the
  handler reads what the client sent.
- *Correlation, logging, operations*: a trace holds the lines of its own request
  or operation; keys are shared only where a caller asked for it; the links
  between traces are true.
- *Store and exports*: no trace is exported twice or under another promotion; a
  failure costs at most one export; every promotion that finds a callback is
  exported in the end; the callback is nil at the call only if it was taken away
  after the check; lines are whole and the server is called once.
- *Retention and cleanup*: nothing is deleted before it is due; a finished pass
  leaves nothing that was due; every deleted row is counted once; expired traces
  go in the end; cancellation ends the loop.
- *Filter rules and schema*: a process that is up has the whole schema; an id
  stays with its rule; the oldest enabled rule that matches decides.
- *Queries*: an answer is wrong by no more than what changed while it was made, as far
  as its ORDER BY says which order is right.

## 2. Modules

| Module | Extends | What it is |
|---|---|---|
| `BufferOps` | | the methods of `Buffer` as pure operators on a record |
| `LogDigest` | `BufferOps` | abstract specification: a log and what a reader is given |
| `Buffer` | `BufferOps` | a buffer in use: writers and the four-step promoter |
| `Request` | | one request through both middlewares |
| `Correlation` | | the middleware and the transport as pure operators on headers |
| `Operations` | `Correlation` | many requests and operations, their contexts, buffers and traces |
| `Store` | | table, promotions, callback, export goroutines, restarts; also the abstract specification of `Delivery` |
| `Delivery` | `Store` | the same with both exporters step by step |
| `Retention` | | `RetentionEngine` and the age test, as pure operators |
| `Cleanup` | `Store`, `Retention` | composes the store with cleaners and rule edits |
| `Schema` | | processes that run `EnsureSchema` on any database |
| `FilterRules` | `Schema` | those processes, once they are up, use the filter rules |
| `Queries` | | the readers over a changing table |
| `BufferProofs`, `RequestProofs`, `OperationsProofs`, `StoreProofs`, `CleanupProofs`, `FilterRulesProofs`, `QueriesProofs` | the module named | the proofs (those of `Cleanup` and `Delivery` rest on those of `Store`) |
| `DeliveryProofs` | `Delivery` | the proofs about the exporters and about their files |
| `MC...` | one of the above | constants for TLC |

**Buffer.** `Buffer.mu` is held for the whole of every method, so a method is
one operator and a call of it one atomic step. An entry keeps what distinguishes
it: its number, the version of the response body at the time, and, for the
synthetic entry, the number of dropped lines. `Buffer.tla` has an action per
call: `Log`, `SetTag`, `StoreRequestBody`, `StoreResponseBody` by the request's
goroutines; `ReadTags`, `ReadEntries`, `ReadRequestBody`, `ReadResponseBody` in the
order of the composite literal in `promoteFromRequest`, then `Promote`. The
variable `log` is a history of everything logged.

**Request.** One request with a nondeterministic setup: correlated or not,
capture installed or not, flusher or not, a body reader that fails after any number
of bytes, and no redactor or one of three kinds: it returns a copy, overwrites its
argument, or overwrites it and appends to it. The kinds differ because the code hands
out `body[:maxBodySize]`, which shares its array, and its spare capacity, with the body
that the handler reads (`Overwritten`). A byte is its
position; redaction makes it negative, so order, loss, duplication and missing
redaction all show. `wire` is the status net/http committed; `Commit` models
net/http (external): informational codes do not commit, the first final code
does, later ones are superfluous.

**Correlation, Operations.** `Correlate` is the middleware's choice of IDs and
`RoundTrip` the transport's header; generated IDs are 1, 2, 3, ... in the order in
which they are made. A context is a record of what it carries: request ID,
parent, operation, buffer. It is never forgotten, so anybody may log, send, start
or promote in it long after its request. `Receive` takes headers from a client
or anything that was ever sent (retries); `Send` is a service that calls another,
as itself or as a proxy that passes its incoming headers on; `Handle` has both
what `WithAttrs` bound the logger to and the record's own `operation_id`.
`PromoteOperation` is three steps (tags, entries, insert); `PromoteRequest` is one,
since `Buffer` has its steps.

**Store.** One SQL statement is one step. A row is its AUTOINCREMENT key, its
class (what retention rules can tell apart) and its `created_at`. `promoteAt` is
three steps, since `onPromote` is read twice without a lock: `Insert`,
`NotifyCheck`, `NotifyCall`. `SetOnPromote` is `WireExporter`, when that helper calls it,
and `Unwire`, when the application passes nil; if the latter comes between check and
call, the call panics (`NotifyNil`). `unset` remembers the calls this may happen to.
`GetTrace`, `Export` and `ExportFails` are the export goroutine. `Crash` keeps the table and loses the rest. A failing INSERT and a
duplicate change nothing and are not steps. `Repromote` says whether an ID may be
promoted again after its row was deleted; generated IDs never are, client-supplied
ones may be.

**Delivery.** The exporter's part of the goroutine: `Lock`, `WriteSome`, `WriteRest`
(or `WriteFails`) for a JSON exporter, whose writer takes a line in two pieces;
`Post`, `Answered` (or `AnswerFails`) for a webhook, whose server has the trace from
`Post` on. What was written and received survives `Restart`. `WriteRest` and
`Answered` contain Store's `Export`, the failures its `ExportFails`.

**Cleanup.** A cleaner is a goroutine; those in `Background` are loops of
`StartCleanup`, the others call `RunCleanup`. Its pass is `Load` (or `LoadFails`),
`Cutoff` (`time.Now`), then `Sweep` (no rules) or `Query`, `Scan` and a `DeleteOne` per
selected ID, then `Finish`; `StatementFails` can strike at any statement. The open
rows of `Query` hold a connection (`busy`) until `Scan` closes them, and statements
need a free one (`Free`). `Hours` wraps as `time.Duration` does. `Before` compares
times as SQLite does, as texts: a row holds UTC, the cutoff is in the local time
of the process, `Zone` hours ahead. `upTo` remembers the last row there was when
the pass selected: the final DELETE goes by request ID and also takes a row that
was promoted under a selected ID afterwards, fresh as it is. `NoEarlyDeletion` and
`RunCleanupNeverDegrades` speak of the rows a pass could select only; what happens to
the other ones breaks the promise of `RunCleanup` (section 3).

**Schema, FilterRules.** `boot` is the statement a process is at. `SchemaInit` allows
every set of tables, columns and indexes, so that a database of any earlier
version, or one that a crash left, is a start. `InsertRule` and `ReadBack` (or
`ReadBackFails`) are `CreateRule`; `born` names a rule whatever becomes of its
contents; `known` is what clients remember, also over restarts. `Listings` are the
orders that `ORDER BY created_at` allows, as rules of one second tie.

**Queries.** One reader, as readers do not change anything. `CountTraces` and
`PageTraces` are the statements of `ListTraces`, called by somebody who turns pages
until one is empty. The ORDER BY names one column and nothing else, so every page may
have any order of the rows that are equal there (`Firsts`, `Pages`); `AskFacet` is one statement of `AvailableFilters`, and may be cut
short, as `rows.Err()` is not looked at there; `Aggregate` and `TopErrors` are those of
`Aggregate`. Rows are promoted with any `created_at` (`PromoteAt`).

## 3. Runs

All bounds are constants marked "bound" in the modules.

| Run | Result | What it shows |
|---|---|---|
| `MCBuffer` | pass | types, digest, refinement of `LogDigest`, order within a snapshot |
| `MCRequest` | pass | response capture, the request body, recorded status and promotion, over all writer call sequences |
| `MCOperations` | pass | whose lines a trace has, whose keys are equal, whether links are true, which tag is shown |
| `MCDelivery` | pass | nil calls only after `SetOnPromote(nil)`, exported once, everything promoted is exported but for failures, whole lines, one POST per trace, `Delivery` refines `Store`; two promoters, two exporters, one failure, one restart |
| `MCCleanup` | pass | nothing deleted early; `RunCleanup` never degrades; finished passes are complete; rows are counted once; two rules, one ID promoted twice, a failure, a restart |
| `MCCleanupLive` | pass | due traces go, promoted traces are exported and the loop ends; a loop and an exporter on one connection, a rule that is there or not, one edit, one failure |
| `MCFilterRules` | pass | the schema is complete and refuses nobody; ids stay with their rule; the oldest rule decides; two processes, a crash, three edits |
| `MCQueries` | pass | pages in every order that ties allow, totals, options and aggregates over a changing table |

Why the bounds are enough. *Buffer*: limits 1 to 4 with six lines reach every
phase (head filling, tail filling, ring turning twice) for odd and even limits and
for the empty head of limit 1. *Request*: a capture limit of 2 with up to 4 bytes
puts the limit inside a chunk, between chunks, and beyond the end. *Operations*:
three contexts besides the background are a request, one it calls and an
operation, or two nested operations; three events are a line, a tag and a
promotion in any order. *Delivery*: two promoters and two IDs give every race of
the insert; an exporter of each kind, wired, replaced and taken away; one failure and
one restart, each at any step. No module but `Cleanup` holds a connection from one step
to the next, so `MaxConns` has an effect in its runs only: that exports do not hang on the
pool is shown in `MCCleanupLive`, where the open rows of a pass hold its one connection
while the goroutine of a promotion wants to read its trace back. *Cleanup*: a caller and a loop, a clock that strikes once and rows promoted as
up to three hours old give ages below, at and above TTLs of 1, 2 (the default) and
3 hours, and overlapping selections; two rows of one ID are a reuse of it. One ID also
means that a pass deletes at most one row: that rows deleted before a failure are counted
is shown by the proof only (`CountsAddUp`). `MCCleanupLive` has one loop, one exporter, rows
up to two hours old when the clock strikes, and a TTL of 1 hour in a rule next to a default
of 2, so that a trace is due by the rule, by the default, or not yet, and an edit can
make it either. Rules are edited in that run only, and in the proofs without bound. *FilterRules*: one
column of two is new in this version, so an old and a new table differ; three edits
are create, delete, create. *Queries*: three rows, one deletion and pages of one row
make every row move over a page boundary. The proofs of section 4 have none of
these bounds.

Deadlock is not checked where the modelled program may stop: a request ends
(`MCRequest`), and the promotions, events and edits of a bounded run are used up, or
cancelled loops stop, in the others. `MCBuffer` and `MCCleanup` check it.

### Disagreements the code has with its own documentation

Each run below checks one property that a comment or the README states and that
the code violates.

| Run | What happens |
|---|---|
| `MCStoreTwoExporters` | a second `WireExporter` silences the first (promolog.go:351-356) |
| `MCCleanupZeroTTL` | a zero-hour rule defeats the candidate prefilter (store.go:569-574) |
| `MCCleanupZone` | where local time is ahead of UTC, a pass without rules deletes traces before the default TTL is over (store.go:566; `Promote` stores UTC, store.go:133, and the aggregates use UTC too, store.go:823) |
| `MCRequestEarlyHints` | after a 103 the final 500 is not recorded (autopromote.go:21-27) |

The models also show behaviour that a reader of the documentation may not expect,
and that the properties except by name:

- after `Flush`, which sends 200, a late `WriteHeader(500)` is recorded and promoted
  (autopromote.go:56; `StatusIsSentOrFlushed`);
- a redactor that overwrites its argument changes what the handler reads, as the
  array is shared, and one that appends to it also changes the first byte beyond the
  capture limit, although the code says "Re-wrap so downstream handlers can still read
  the body" (bodycapture.go:69-81; `HandlerReadsSentBody`);
- `SetOnPromote(nil)` between the two reads of `onPromote` makes `promoteAt` call nil; the
  row is stored, nobody exports it and the request panics (store.go:197-198;
  `NilOnlyIfUnset`);
- a pass deletes by request ID: a trace promoted under a selected ID after the selection
  goes with it, however young (store.go:620), although "all other traces use defaultTTL"
  (store.go:544; `NoEarlyDeletion` exempts such rows by `Selectable`);
- traces that are equal in the column they are sorted by have no order, so two pages may
  order them differently, and a reader may miss one although nothing was deleted
  (store.go:339-341; `WalkMissesNothing` speaks of traces that stand alone);
- a request ID that is promoted again after its trace was deleted may have the new trace
  exported by both goroutines (`ExportedOnce` is checked with `Repromote = FALSE`);
- with both headers present the incoming request ID is reused, although README
  379-380 speaks of a fresh child ID; a proxy that forwards `X-Parent-Request-ID`
  therefore shares its caller's ID, and one of the two traces is dropped
  (`KeysAreUnique`); without a parent header an incoming ID is never "reused" as
  correlation.go:61-65 says;
- a record goes to the buffer of its context; the `request_id` it carries itself does
  not count, other than `NewHandler`'s comment has it (`TracesAreSeparate`);
- `WithBufferLimit` is stored and never used (handler.go:15-19);
- a torn line of a JSON exporter is followed by the next line without a line break
  (`LinesAreWhole`);
- the total is counted before the page is read, so a reader that stops at the total
  may miss a trace (`TotalFitsPage`); status 0 and the empty method are offered as
  options but filter nothing, and a tag key with a dot selects nothing, as
  `json_extract` takes it for a path (`OfferedOptionsSelect`); the empty error chain of
  successes takes one of the five places of the top errors (`AggregateIsTrue`);
- when `CreateRule` cannot read the rule back the rule exists although the caller got
  an error, and a retry makes a second one;
- a failed load makes the background loop ignore the rules for a pass
  (store.go:532-536), as `StartCleanup` says and the README does not;
- a TTL of 2562048 hours and more wraps to a negative duration (store.go:606):
  `Hours` models it, and runs and proofs keep TTLs below it.

### Fairness

`StoreFairness`: a goroutine that can run does run (the Go scheduler), for the
rest of `promoteAt` and for the export goroutine; its read back is strongly fair, as the
pool is free only from time to time and `database/sql` serves those who wait for a
connection in order. A pool that stays taken for ever still stops it, which is what
`ExportedEventually` would show. `DeliveryFairness` says the same of
the exporters' steps, as a write ends and the webhook's client has a timeout.
Nobody has to promote, wire or delete. `CleanFairness`: a pass goes on; its
statements get strong fairness for the same reason. The ticker keeps firing (`Start`), a `select`
with two ready cases does not pick the same one for ever (`Stop`, strong), and a
statement under a cancelled context returns its error. Other failures are never
forced.

## 4. Proofs

The eight proof modules are checked by TLAPS, for every value of the constants that
meets the named assumptions. Each follows the same line: an inductive invariant,
one lemma per action that it is kept, and a theorem that it implies the property.

**Buffer** (assumptions: limits are integers, bounds are naturals).
`TypeCorrect`, `DigestCorrect`, `Refinement`, `SnapshotCorrect`.
That `Entries` is the digest of the log does not follow from itself after one more
`Append`: the ring must be known to hold exactly the last lines. The invariant
`IInv` is `TypeOK` and `Represents(buf, log)`: the head holds the first lines
(`Begins`), the tail the last ones (`Ends`), `elided` counts the rest, and the sizes of
the three depend on the length of the log only (`Sizes`: head filling, tail
filling, tail turning). `EntriesOfRepresented` then gives the digest, and with it
every step is a step of `LogDigest` or changes nothing it sees. `SnapshotCorrect`
adds to `IInv` what the order of the reads keeps (`SInv`): tags and bodies in the buffer
only count lines and bodies there are, and what the trace has read of one field is
still covered by the fields it reads later. It needs `DigestShape`: a digest past the
limit has one mark, and its marked and plain entries account for the whole log.

**Request** (assumption: `RequestAssumption`; for `FailuresPromoted`, the threshold is
above 200). `TypeCorrect`, `StatusIsSent`, `FailuresPromoted`, `ResponseBodyStored`,
`RequestBodyIntact`. The status property speaks of a finished handler; what is kept
while it runs is `StatusInv`: as long as the recorder has seen nothing, net/http has
committed nothing or a Flush's 200, and from then on the recorder's final code is the
one committed, unless a Flush came first. With `BodyInv` the captured bytes are
the beginning of what was written, and `PrefixGrows` is why one more chunk, cut off at the
room that is left, keeps them so. `SplitInTwo` and `Rewrapped` say of the request body that
what was read and the rest are the whole again, at every limit.

**Operations** (assumptions: the bounds are naturals, client IDs are not numbers).
`TypeCorrect`, `KeysStayUnique`, `LinksStayTrue`, `TagsStayFresh`, `TracesStaySeparate`. Keys: the IDs that
requests may have (`Known`) and those of operations (`OpIds`) are kept apart, and
everything sent carries an ID of the first kind (`IdsInv`). Links: what is sent is the
ID of who sends it (`HeadersInv`), and each ID with its parent belongs to a request not
later than the context that carries it (`Named`), through any nesting of operations
(`LinksInv`). Tags: a tag changes only when it is set, and then to after the last line, so a
tag read when so many lines were logged (`TagRead`) is true for ever. Traces: two contexts
have one buffer just if one acts on behalf of the other's request or operation
(`BuffersInv`), a buffer has all lines logged in its contexts in order and, if it is an
operation's, with its ID (`LinesInv`), and what was read of it is what it held after so
many lines (`ShownInv`). "All of them, in order and nothing else" is stated as a set of line
numbers that the entries enumerate in rising order (`InOrder`), so that an `Append` is one
case and no induction is needed.

**Store** (assumption: `StoreAssumption`; for the last two, IDs are not promoted
again). `TypeCorrect`, `NilCallsFollowUnset`: a call past its check finds a callback, or
`SetOnPromote(nil)` ran since (`CallsOK`); neither another call nor a new exporter changes
that. `ExportsAreUnique`: "no export twice" is inductive once one knows that a row is stood for by one holder at a time, a call, a goroutine or a
finished export (`OneHolder`), that no holder is ahead of the keys given out
(`NoneAhead`), and that whoever goes by an ID finds the row he stands for or nothing
(`SameRow`). `NothingIsLost`: conversely the owed rows without a holder (`Lost`) are no
more than the failures so far (`FewLost`). A holder knows the ID of its row (`KnowsId`), so a
goroutine that finds nothing was not owed anything (`HandedOn`, `SameHolders`), a failure
loses one holder (`OneMoreLost`), and while no exporter is wired nothing is owed (`NoneOwed`),
so what ends at a nil callback or in a restart is not lost.

**Delivery** (the same assumptions). `ExportersImplementStore`: every step of the
exporters is Store's export, Store's failing export, or hidden. It needs only that
who holds the mutex or waits for an answer is an export goroutine that has read its
trace back. With it all of Store's safety theorems hold of `Delivery`, and
`TracesAreReceivedOnce` is proved on top of them: a received row stands for a waiting
goroutine, a finished export or one that failed, a goroutine that has not posted
stands for none of them, and by `OneHolder` nobody else stands for its row.
`DeliveryTypeCorrect` adds the types of the files. `LinesStayWhole` needs four facts of
each file (`Lines`): the half line of whoever holds the mutex is the last piece
(`Last`); a row in the file is past its promotion, and a goroutine that still stands
for it is about to write its second half (`Written`), so that nobody writes a row
again; a second half follows its first (`Whole`); and the torn lines are at most the
failures, the restarts and the one being written (`FewTorn`). Who does not write to a
file changes none of them (`SameLines`), as by `NobodyNew` no new goroutine stands for
a row whose promotion is past.

**Cleanup** (assumption throughout: finitely many IDs, and finitely many cleaners where
rows are counted; each theorem names what else it needs). `CleanTypeCorrect`, `CountsAddUp`:
the invariant `Books` has besides the types the equality of both sides of the ledger.
The rows counted by passes under way are the cardinality of a set of pairs (`InFlight`), so that
one pass going on changes it by what that pass deleted (`CountedBy`); the connections in
use are as many as passes that have rows open (`Scanning`). A final DELETE that finds no
row counts none, which is why overlapping passes never count a row twice.

`DeletionsAreDue` (local time not ahead of UTC, `NotAhead`; TTLs that `time.Duration` can
hold): the invariant `DInv` says of every pass that each row it found is still there or
gone or replaced by a younger one (`FoundOK`), and that what it is about to delete is due if
it is a row it could select (`ToDeleteOK`). Every step of anybody is `Gentle`: time moves on,
rows go, and new rows have keys above all old ones, so both stay true while the others
run. `ExpiredIsDue` relates the engine (shortest TTL of the matching rules, `Hours`) to what
the documentation says rule by rule; the least TTL exists because TTLs are bounded
below (`LeastElement`, by well-foundedness). `RunCleanupIsNeverDegraded` adds that a pass
of `RunCleanup` past its load has the rules of the table until somebody edits them
(`Loaded`). `NotAhead` cannot be dropped: `MCCleanupZone` is the counterexample.

`PassesAreComplete` is the converse and needs the converse (local time not behind UTC,
`NotBehind`; TTLs in the table that are positive, `PositiveRules`): each row that was due
when the pass began and is still there (`Awaited`) is among those it found, and then among
those it will delete (`Selected`, `CInv`). `DueIsCandidate` is the prefilter's half: the least TTL
of all rules selects whatever that of the matching ones does; `DueIsExpired` is the
engine's. `PositiveRules` cannot be dropped either: `MCCleanupZeroTTL` is the
counterexample. With UTC as local time all the theorems hold together.

`ExportsAreUniqueWithCleanup`, `NothingIsLostWithCleanup` (IDs not promoted again):
what Store promises stays true with passes running beside it, since a pass only takes rows away (`OnlyTakes`), which leaves every holder of a row the
row's holder or the holder of nothing.

**FilterRules** (assumption: the migrations add every column that is indexed).
`SchemaEnsured`, `NoRefusal`: the invariant says of a process at statement n that what
the statements before n make is there (`HasTables`, `HasColumns`, `HasIndexes`); nothing is
ever dropped, so what others do keeps it. `RulesTypeCorrect`, `IdsStay`: every id in a
table, a call or a client's memory was given out (`1..lastId`), and an id names one
`born` and one `created_at` in all three places (`CallsMeanTheirRule`). `OldestDecides`:
`NewRuleEngine` keeps the enabled rules in their order (`EngineKeeps`; its loop is a
recursive function, of which `LoopExists` shows that it is one), the listing has every rule once and
by age (`ListingsAreComplete`), and so an engine that is loaded is in order of age with
nothing enabled left out (`EngineInv`).

**Queries** (assumptions: times are natural numbers, the bounds are naturals, the calls
have the parameters that their types have). `QueriesTypeCorrect`: the invariant `TInv` has
the types of the calls and that the rows there are were there when the call began or
came since (`Began`). What others do between two statements is summed up in `Others`: rows come
at the end, rows go, nothing else.

`WalksMissNothing`: a walk has an offset, the number of rows it has passed (`Walked`), and
each selected row a rank, the number of selected rows that must come before it (`Before`).
Rows that are equal in the sort column have one rank and no order; a row that stands
alone there (`Alone`) has its rank for itself (`UnseenRanks`). What the walk has left out so
far (`Skipped`) are rows of this kind that it has not shown and that have a rank below the
offset; the invariant `WInv` is that these are no more than were deleted since. A promotion
only raises ranks (`RankAfterPromote`). A deletion lowers them by one at most
(`RankAfterDelete`), so at most one row slips below the offset. A page shows every row that
stands alone and has a rank from its offset on to its end, whatever order the others are in
(`FirstsAre`, `PageHas`), and an empty one is past the last rank. `TotalsFit`: the total
is that of the rows there are but for what changed since (`FInv`), and `PageHas` also
gives the length of a page, which depends on the number of selected rows only.

`OptionsAgreeWithFilters` (`OInv`): an option chosen in place of the filter's own selects
what has the option among what the rest of the filter selects (`ChosenSelects`), so what a
facet's statement has seen stays true of the rows touched, and what it left out of those that
stayed. `AggregatesAreTrue` (`AInv`): a group's count lies between those of the rows
that stayed and of the rows touched, and the former only shrink, the latter only grow; of
the chains, that a set of the most common ones which is not full has them all
(`MostCommonAre`).

## 5. Only model-checked

- Liveness (`ExportedEventually`, `ExpiredEventuallyGone`, `CancelStops`) needs fairness
  and ENABLED, which the prover does not handle.
- That the export goroutines do not hang on connections others hold is part of
  `ExportedEventually`, hence of the runs only.
- The claims of the documentation that the code violates (`MCStoreTwoExporters`,
  `MCCleanupZeroTTL`, `MCCleanupZone`, `MCRequestEarlyHints`) are refuted by TLC's
  counterexamples.

Every other property of a passing run, each invariant and action property and both
refinements, is also a theorem. What the theorems assume beyond the modules' own ASSUMEs
(finite sets, `NotAhead`, `NotBehind`, `PositiveRules`, `~Repromote`, the threshold above 200) is
met by the constants of the run that checks the same property.

## 6. Not modelled

- Route, sample and latency policies decide by `path.Match`, a random source and the
  clock; in `Request` they are one arbitrary answer. SamplePolicy's `rand.Rand` is used
  without a lock; the outcome is arbitrary anyway.
- Hijack: the connection leaves net/http, and neither wrapper touches its own state.
- The SQL text and SQLite itself (each statement is atomic, as SQLite makes it), LIKE,
  JSON encoding and field filters, formatting, log levels and groups.
- A failing random source (`generateID` returns "").
- `created_at` values that callers of `PromoteAt` give in other zones than UTC.
- A read back of `CreateRetentionRule`, which works as that of `CreateRule` in
  `FilterRules`.
