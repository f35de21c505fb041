# OKF generator: TLA+ models and proofs

The platform converts uploaded documents into OKF bundles. An API accepts the
document and a job, a sweeper publishes the job to RabbitMQ, workers claim it in
PostgreSQL, convert the document and promote the bundle through the object store
(MinIO), and the API serves what was promoted. Two things are hard. Around the
conversion: several workers, redelivered messages, leases that expire, cancellations
that race the publication, processes that die between two calls. And inside it: five
parsers and a pipeline of rules that must not lose what the author wrote, nor refuse it
without a reason.

This directory models both, checks them with TLC and proves with TLAPS what is said of them.
Paths below are relative to the repository root.

## Contents

| Module | What it is |
|---|---|
| `ConversionPromise` | abstract specification: what a user is promised about a job |
| `JobLifecycle` | tables `jobs`, `job_outbox`, `bundles`; one action per statement of `internal/adapters/postgres` |
| `JobLifecycleProofs` | theorems about `JobLifecycle`, for every value of its constants |
| `Delivery`, `DeliveryProofs` | `JobLifecycle` + queues, handler (`convert.go`), sweeper (`sweeper.go`), crashes and failed calls, and theorems about it |
| `Promotion`, `PromotionProofs` | `JobLifecycle` + the object store: how `publish` fills the prefix that users read, and theorems about it |
| `ReadCommitted` | rows, locks and uncommitted versions: what the code relies on of PostgreSQL |
| `WorkerCalls`, `ApiCalls`, `Sessions` | the same functions taken apart into statements that interleave: slots of workers; users; all of them with the sweeper |
| `SessionsProofs` | theorems about `Sessions`, for any number of sessions of each kind |
| `LeaseTiming` | `JOB_TIMEOUT`, `JOB_LEASE` and the goroutine that renews, with time counted |
| `Topology`, `Broker` | RabbitMQ as `DeclareTopology` repairs it; connections, confirms, slots and shutdown of the workers |
| `BrokerProofs` | theorems about `Broker` |
| `Uploads` | from a request to the bytes a parser reads, with the limits on the way |
| `LimitsProofs` | theorems about `LeaseTiming` and `Uploads`, the limits of the configuration |
| `ParserState`, `DocxParser`, `HtmlParser`, `MarkdownParser`, `LineParsers`, `Parsing` | the five parsers, token by token, and what they lose |
| `ParsingInvariants`, `ParsingProofs` | the inductive invariants of the parsers, and the theorems about them, for any source |
| `Document`, `Segmentation`, `Bundle`, `Validation`, `Conversion` | the pipeline: units, assets, rendering, two validations, cancellation |
| `ConversionProofs` | theorems about the pipeline, for any document |
| `MC...` | small instances for TLC |

How they compose:

* `Delivery` and `Promotion` extend `JobLifecycle`: they use its actions as they are and add
  who issues them, in what order, and what else happens between two of them. That
  this is so is checked for `Delivery` (`UsesLifecycle`) and proved for both, so what is proved of
  the tables holds there too.
* `Sessions` extends `ApiCalls`, which extends `WorkerCalls` and `ReadCommitted`: it goes below
  `JobLifecycle` and asks what is left of its atomic functions.
* `Broker` extends `Topology` and goes below the queue of `Delivery`.
* `Parsing` extends the parsers, which share `ParserState`; `Conversion` extends the stages and
  begins where a parser ends, with any document.

Operators marked "seeded fault" are not used by any specification. Each is a plausible bug
(a dropped guard, a missing reset); substituting it for the definition that follows makes
the property it is listed with in `PROJECT.json` fail, which shows that the property depends
on the code.

## Runs

| Run | Instance | States | Shows |
|---|---|---|---|
| `lifecycle` | one document, its retry, two workers, two attempts | 131,321 | the tables stay consistent and implement `ConversionPromise` |
| `delivery` | one job, two workers, two attempts, one fault, fairness | 68,783 | no job is lost without a trace, no message storm, no deadlock; every job settles |
| `promotion` | three runs of a job, two files, two attempts | 1.89 million | what is published is complete and stays as it is |
| `sessions` | five casts of sessions on the rows of one job | 552,127 | deadlocks, published bundles, answers to users |
| `lease_timing` | five configurations and one refused | 50,000 | how long a lease lasts |
| `broker` | two replicas, two messages, two faults, fairness | 220,611 | how a confirmed message is lost, and that the others are settled |
| `parsing` | every source of five formats up to 4-7 tokens | 1.88 million | what a parser loses, reorders or takes for a heading |
| `conversion` | five families of documents of up to 4 blocks | 161,410 | what is cut, linked, refused and scored |
| `delivery_stranded`, `promotion_mixed`, `promotion_slots`, `broker_lost` | | | disagreements between the code and what the repository says of it; see Findings |

## Inventory

| Component | State | Operations | What is hard |
|---|---|---|---|
| Job repository (`postgres/jobs.go`, migrations) | tables `jobs`, `job_outbox`, `job_events` | create, retry, cancel; claim, renew, five ways to leave `running`; the sweeper's queries | any statement may come from a worker whose view is stale; two tables must move together |
| Bundle repository (`postgres/bundles.go`) | `bundles`, `bundle_files`, `download_tickets` | claim for publication, publish, undo; read; tickets | mutual exclusion of promotions; publication and success as one step |
| Worker (`convert/convert.go`) | the delivery it holds, its job in memory, a goroutine that renews the lease | `Handle`, `process`, `publish`, `fail` | every call may fail, or succeed without saying so; the lease may be gone at any step |
| Sweeper (`convert/sweeper.go`) | an advisory lock | close expired cancellations, dispatch the outbox, republish unconfirmed jobs, reclaim leases | dies between publishing and marking; must not flood the queue |
| Queue (`queue/queue.go`) | work queue, dead letter queue, waiting queue (never used: no row has that destination) | publish with confirm, consume with manual ack, nack to the dead letters, declare and repair the topology | lost confirms, redelivery, duplicates; one connection per publisher |
| Object store (`objectstore.go`) | objects by key | put, copy, list and remove a prefix | no transactions, no fencing |
| API services (`app/apiapp`) | none | upload, retry, cancel, replay, bundle, ticket, download | two statements per cancellation; double clicks; streaming |
| Parsers (`okf/parse`, `domain/format.go`) | the stream or tree they walk, the document they build | `DetectFormat`, one parser per format | nested elements read by different loops; what no loop reads is lost |
| Pipeline (`okf`) | the units, the bundle in memory, two reports | segment, extract assets, render, index, log, validate twice | boundaries (levels, slugs, sizes, budgets); what is validated is not yet what is published; checkpoints |
| Auth, HTTP adapter, config, migrations runner, frontend | tokens, none, none, schema version, a polling view | | timeouts that must be ordered: lease > job timeout |

What makes each correct:

* job repository: statuses only move forward to one outcome, a cancellation wins or comes too
  late, attempts are spent by retries only, the outbox never blocks a transition, a document
  has one live job;
* bundle repository: published exactly when succeeded; one writer of what is served;
* worker, sweeper, queue: no accepted job is lost, none is processed forever, a calm backlog
  is left alone, a dead job leaves evidence;
* object store use: a published bundle is complete and does not change;
* API services: a call answers what it did, and the answer stays true; no document is
  without its object;
* parsers: what they lose is known and nothing else is, in the order of the source;
* pipeline: the units are the document, every link leads somewhere, and why a bundle is refused
  or loses points is known.

`PROJECT.json` lists the components with their status, and under `hazards` what is hard to
test, at its line, with the properties that cover it.

## JobLifecycle

*State.* `jobs` maps each identifier to its row; `AbsentRow` is a row not inserted yet.
`outbox` is the set of rows of `job_outbox`, `bundles` the status of the bundle of each job.
A row keeps the columns that some `WHERE` reads. Two are folded together: `document_id` and
`root_job_id` are both `root`, since an upload creates one document with its first job and a
retry copies both. `lease_expires_at` is `"none"`, `"live"`, `"expired"` or `"overdue"`
(expired for longer than the sweeper's grace), `available_at` and `enqueued_confirmed_at` are
Booleans, and `claim_count` saturates one above the only value it is compared with.

*Actions.* One per statement or transaction, with the guard of its `WHERE`, the status checks
and the unique indexes, and the assignments of its `SET`. The environment is the most general
one: any worker may issue any statement about any job at any time. A statement that affects
no row, or is rolled back, changes nothing and is no action. Time is `LeaseExpires`,
`LeaseOverdue` and `BecomesAvailable`.

*Assumption.* A statement, and a transaction, is atomic. PostgreSQL guarantees it for the
single row `UPDATE ... WHERE` statements under READ COMMITTED, because the row is locked and
the condition re-evaluated. For `ReclaimExpiredLeases` and `CancelExpiredLeases`, whose rows
come from a subquery, and for the transactions of several statements, `Sessions` shows how
much of it is true.

*Properties* (run `lifecycle`: one upload, its retry, two workers, two attempts, one claim
before thrashing, batches of one; 131,321 distinct states):
`CancelWins`, `PublishedIffSucceeded`, `OneBundlePerDocument`, `OutboxKeysFree`,
`DeadHasEvidence`, the action properties `AttemptsPaidByRetries` and `LiveLeaseKept`, and
`KeepsPromise`: with `PromisedState` as refinement mapping the tables implement
`ConversionPromise`. The bounds are the smallest in which a lease passes from one worker to
another, a retry spends the last attempt, and a document has a second job. Deadlock is not
checked: when every job is settled and nobody retries, the tables rest. Symmetry of the
workers is sound, since no temporal property here speaks of liveness.

## Delivery

*State.* `queue` counts the copies of each job's message in `okf.jobs.q` (`Handle` reads
nothing of a message but its job), `dlq` records what reached the dead letter queue and why,
`held` and `phase` are the delivery and the program point of each worker, `sweep` is the program
point of the sweeper with its item and what is left of its query.

*Actions.* One step is one call: `ClaimDelivery` is the `Claim` of `Handle`, `Convert` everything
up to the verdict with any outcome, `RegisterInvalid`, `RegisterFailed`, `RegisterTransient`,
`RegisterDead`, `CloseCanceled` and `CheckCanceled` the paths of `process`, `fail` and
`finishCanceledOrNack`, `ClaimBundle`, `Outbid`, `CopyFails`, `PublishBundle` and `UndoClaim`
those of `publish`. `Statement` gives each call its three results: done, refused because no row
was affected, or failed, with or without effect. The sweeper takes its stages in the order of
`sweepOnce`, one query, publication or mark at a time; a publication can lose its confirm after
the broker took the message.

*Faults.* `MaxFaults` bounds the sum of crashes (the broker returns the delivery), failed calls,
replays and leases lost while somebody still works under them. A replayed message gives no state that
a lost confirm does not give, which is what `Replay` (the demonstration of a duplicate) is for. It is a bound on the environment, not
part of the code. A failing conversion is not a fault.

*Assumptions.* One sweeper at a time (the advisory lock). One lease owner per handler slot:
`lease_owner` is drawn per process, so this is `WORKER_CONCURRENCY=1`, the default; `Promotion`
shows what a larger value does. A retry by the user is a job like any other, so one job is
enough here. The age that `StaleQueued` asks for is left to time: it may find a job at once,
which only adds republications.

*Run.* `delivery`: one job, two workers, two attempts, one fault, deadlock and liveness checked,
without symmetry (68,783 states). `NoSilentLoss`: the message of a job that nothing will process
any more is in the dead letter queue, or about to be. `OneMessageWhileCalm`: without faults a
waiting job has one message. `UsesLifecycle`: every step is one of `JobLifecycle` or leaves the
tables alone. `EveryJobSettles`, `CancellationEnds` and `DeadIsArchived` under fairness. One fault
is a crash, a failed call, a lost answer, or a lease lost under a worker that goes on next to the one
that takes the job over, at any point of the way. The invariants and `UsesLifecycle` are proved for
any number of faults (see Proofs); liveness is checked for one.

*Fairness.* Weak fairness of each worker's next step, of the sweeper's next step, and of the
clock for leases nobody renews and for delays. The code justifies it: `Consume` loops over
deliveries, every call returns (contexts with deadlines, or drivers that fail), `RunSweeper`
ticks for as long as the process lives, and Docker restarts a dead process. `Renew` has none:
it only postpones. Crashes, failures and users have none either.

*A finding.* `delivery_stranded`: `EveryJobSettles` excepts jobs that are `Stranded`, and
`NeverStranded` does not hold. A claim that fails for a database error is answered with
`NackDrop`, as if the job did not exist; its row stays queued and confirmed, so that
`StaleQueued` never finds it.

## Promotion

*State.* A run is one execution of `process`; several runs of a job overlap when a lease is
stolen. `tmp` and `served` are the objects below the temporary and the published prefixes, each
with the run that wrote its content; `prefix` is `bundles.prefix`, `manifest` the run whose
files `bundle_files` lists. A run draws one promotion identifier, so that identifier is the run.
Content differs between runs: `log.md` names the worker.

*Actions.* One object per step for `upload`, `Copy` and `RemovePrefix`, one statement per step
for the rest. A run may stop anywhere, which is a crash, an error or a lost delivery.

*Run* `promotion` (one job, two attempts, three runs with an owner each, two files; symmetric in
the runs): `PublishedComplete`, `ManifestOfServedRun` and `PublishedFrozen`. Two runs make a race
and two files a hole or a mixture. It takes a third run to overwrite what is published: one stuck
in its promotion, one that takes the job over and schedules the next attempt, one that publishes
that attempt. Deadlock is not checked: the runs are finite in number.

*Findings.* `promotion_mixed`: the temporary prefix is keyed by the attempt, which a stolen
lease does not raise, so two runs share it and a bundle can mix them. `promotion_slots`: with
two slots in a process, `lease_owner` does not tell them apart, and a run that lost its job can
publish the prefix that the other one has not filled yet.

## ReadCommitted, WorkerCalls, ApiCalls, Sessions

*State.* `db` is the committed version of each row of one job (the job, its bundle, its download
ticket, and the child that each click on Retry would insert), `lock` the session whose transaction
wrote it, `draft` what it wrote. `at` is the statement a session is about to send, `seen` what an
earlier read of the same call gave it, `answer` what a request was told.

*Actions.* One per statement, `COMMIT` included. A write waits for the row; an `UPDATE` whose
`WHERE` is about the row it changes is evaluated again once the row is free, and one that matches
no committed row does not wait. `InsertBundle` and `InsertChild` wait for the insertion they would
conflict with. `DeleteClaim` reads its join in one step and deletes in another, and so do
`CancelExpiredLeases` and `ReclaimExpiredLeases`, whose rows come from a subquery that is not
evaluated again. Any statement may fail and roll its transaction back (`StatementFails` is also
how PostgreSQL ends a deadlock), a commit may succeed without its answer, a process may die.

*Properties* (run `sessions`: two slots of one worker and one of another, a cancellation, a
sweeper, two clicks, three downloads, in the five casts of `MCSessions`):

* `DeadlocksNeedOneIdentity`: `Publish` locks the bundle before the job and `ClaimForPublish` the
  job before the bundle, and yet two slots wait for each other only if they share a `lease_owner`.
  So it takes `WORKER_CONCURRENCY` above one, and then PostgreSQL aborts one of them.
* `PublishedIsSucceeded`: a bundle is published exactly when its job succeeded, whatever breaks in
  between. One thing parts them, and the property excepts it by name (`overtaken`): a sweeper
  selects a running job, waits for the row while a slow worker publishes, and then requeues what
  has just succeeded, for only `id IN (...)` is evaluated again. Such a job is claimed again and
  again, always outbid by its own bundle, until `claim_thrashing` fails it; its bundle stays
  published.
* `AnswersAreTrue`: what a user was told about a cancellation stays true; clicks on Retry have one
  child between them; every download was paid with a use of its ticket. The use is spent before
  the plan is made and the first byte sent: a broken ZIP is not given back.

Casts keep the product small: sessions in different casts touch different rows, or are a subset
of one another. Deadlock is not checked: the sessions are finite in number.

## LeaseTiming

*State.* The claim, `process` and `renewLease` of one run, with ages and countdowns for the
deadline of `jobCtx`, the lease, the ticker and the statement under way. `Pass` lets a unit go by
and is blocked while the goroutine has something to do; nothing bounds a publication.

*Properties* (run `lease_timing`: 120 s and 180 s as 6 and 9; leases just longer and much longer
than the timeout; one so short that its interval is the second; statements of one unit at most;
`MaxAge` is beyond the end of every lease): `LeaseOutlivesTheJob`: what the validation of the
configuration is for, without a single renewal. `PublicationHasAThird`: renewals end with `jobCtx`,
the publication does not; it has a third of the lease left even when of any two renewals one
failed. For any configuration this needs renewals that are answered in time (see Proofs).

## Topology, Broker

*State.* The definitions of one exchange and its queue, the binding, the next request of
`DeclareTopology`; where each message is and who holds it; of each replica its two connections, the
goroutine of each delivery, the publication under way, the shutdown; and which replica has the
advisory lock on an idle connection. The other two exchanges and queues go through the same steps.
A copy stands for one publication: a row published again after a timeout is another copy.

*Actions.* `Topology` has one per request of `DeclareTopology`. `Broker` has publication (`Send`,
`Route`, and the three ways `publishTo` returns), consumption (`Deliver`, `Start`, `PutBack`,
`Finish`, as the loop, the goroutines and the `select` of `Consume` do), the loss of either
connection, SIGTERM, the exit, the kill and the restart. `GetsLock` is the advisory lock, taken
around each publication. A blocked connection refuses at once, which is a failed call of
`Delivery`. Reopening a channel is part of `Send`: nothing reopens a connection.

*Faults.* `MaxFaults` bounds repairs, lost connections, rejected publications, locks left behind
and killed processes together. Two are enough for the pairs that matter: a repair that stops and a
lost connection, a lock left behind and a lost publisher.

*Properties* (run `broker`): `LostOnlyByARepair`: no lost connection, death, shutdown or late
confirm loses a confirmed message; a repair does, in two ways. It was published while no binding
is there (it is not published as mandatory), or it was delivered from a queue that was deleted, for
`ifEmpty` counts only what waits. `HandledXorReturned`: a delivery
waiting for a slot at shutdown is handled or put back, never both. `EverythingIsDispatched`: time
and again every message is settled, but for those nobody can publish: the exchange is gone, or the
replicas that can get the lock have lost the connection of their publisher, which only a restart
brings back.

*Fairness.* Weak for routing, confirms, goroutines, exit and restart: the broker and the runtime
keep going, and Docker restarts (`unless-stopped`). Strong for sending and delivering, which others
interrupt time and again: each sweep takes the oldest rows, each consumer is served. Nothing has to
fail, and nobody has to run `DeclareTopology` again. Deadlock is not checked: with all settled the
system rests.

*A finding.* `broker_lost`: `RepairLosesNothing`, which is what the comments of `DeclareTopology` and
`src/README.md` say of the repair, does not hold. The repair is run by hand next to live workers, as
`src/README.md` tells to do (`docker compose up topology`); what is published while the exchange
has been recreated and not bound is confirmed and dropped, and nothing sends it again.

## Uploads

*State.* `MAX_UPLOAD_BYTES` and `PARSE_MAX_BYTES`, the size and format of each file and what its
archive unpacks to, the next call of each upload, the keys of the bucket, the row of the document,
its job as far as the parser, and a user who opens the original. The other quotas of an archive
(entries, ratio) are among the reasons of `Parse` to refuse it that are not its size.

*Properties.* `NeverMissing`: the object is stored first and its key is drawn, so that neither a lost
answer nor the clean up of a rejected upload leaves a document without its object.
`ConvertedWhole`: the transport, the service and the download compare a positive
`MAX_UPLOAD_BYTES` in three ways, and none accepts what a later one refuses: the parser gets the
whole file. `PARSE_MAX_BYTES`, which may be smaller (and is by default), still refuses an accepted
document: its own size if the format is read at once, twenty times as much for what a DOCX unpacks
to. The property says that these are the only refusals for size, and that nothing is cut to fit.
Both are proved for every value of the constants (`LimitsProofs`), so the module has no run.

## ParserState, the parsers, Parsing

*State.* The source is written by its author while it is read: `read` is the sequence of its tokens
(elements, texts, images, properties), `open` the elements that are open, `local` the local
variables of the parser, `blocks` and `title` the document. A block holds the positions of the
texts that reached it. The tokenizers (`encoding/xml`, `x/net/html`, goldmark, `pdftohtml`) are
external: a source is what they deliver.

*Actions.* One per token and mode of the parser: which loop reads it, what it does to the
paragraph, heading, table or list under construction. `DetectFormat` comes first, with the limits
of the file and its archive.

*Properties* (run `parsing`; `MCVocabularies` has a small vocabulary for each concern, and sources
of 4 to 7 tokens, enough for an element inside, before and after another):

* `NothingElseIsLost` says what is lost, as the author sees it, and that nothing else is. In a DOCX:
  what follows a text box in its paragraph, or a nested table in its table (the first end tag of
  that name ends the outer one), the images of tables, those without a file and those beyond the
  budget, which each image that is shown spends (`Spent`). In HTML: what stands
  in a list and in none of its items, as another list directly in it does with all its items; in a
  block of a list item, or before one; what is outside `<main>`; images inside other blocks. In
  Markdown: what stands between two `---` at the top, code in lists and quotes, the images of
  headings. In a text: the underlines of its titles. In a PDF: what stands in an element of its own
  inside a line (`<b>`, `<i>`), for `chardata` holds the text of the line itself only.
* `InReadingOrder`, `HeadingsAreMarked`: the rest arrives once and in order; only
  what was marked becomes a heading; the title is the first heading of level 1, then the title of
  the page, then any heading.

`MayBe` says what the tokens of a vocabulary are (a heading of HTML has a level from 1 to 6...) and
`StylesAssumption` what `parseStyles` can find in a document. `LevelFor`, which climbs from a style to
the one it is based on, is a recursive function over the number of steps.

`MayContain` says what the tree of a page may be: `x/net/html` moves what does not belong to a table
out of it and puts cells only there, but a list may hold anything. `<li>` outside of a list is read
like any inline element, and a `<main>` inside another element like one at the root.

`dominantSize` of the PDF parser weighs sizes by characters, which a token has no number of: any
size that occurs may be the dominant one. A binary
file with an extension of a textual format is taken for text (`application/octet-stream`). The
faults of the `pdftohtml` process are left out.

## Document, Segmentation, Bundle, Validation, Conversion

*State.* The stage that comes next, the units, the bundle in memory, the report of the first and of
the final validation, what `Convert` returns, and when a cancellation or the end of the context came.
A text is abstracted to what the rules tell apart: the slug it gives, the links it holds, and its
`Marks`: a closing bracket, raw HTML, a line that reads as a heading of level 1, bytes that are not
UTF-8, the comments that open and close the index of `index.md`, and whether a cut at 297
bytes splits a character. The name of the source is such a text.

*Actions.* One per stage, each with its checkpoint first. The stages are pure functions, written as
operators (`SplitLevel`, `Units`, `ExtractOne`, `RewriteLink`, `Errors`...).

*Properties* (run `conversion`; `MCConversion` enumerates the documents of five families: outlines,
links between units, images, texts that hurt the index or the log, and a few under way when the user
cancels; with a limit of three units, a budget of two for assets and eleven blocks for a bundle, each
of which some document passes):

* `UnitsKeepTheProse`: the units are the document, and file names differ. Only a preamble without
  prose is left out.
* `PublishableIsNavigable`, `AnchorsLand`: what the validator lets through can be walked, and an
  anchor leads to its heading however the document was cut.
* `AssetsAccountedFor`: the assets fit the budget and are the files of the images whose bytes were
  taken; every other image stays as it came.
* `InvalidHasACause`: a bundle is refused for these reasons only, and for each of them: a file
  removed on purpose; a title with a link, a closing bracket or the comment that closes the index,
  after which the regular expression of the validator does not find its entry; a link in the title or
  the name of the document behind the comment that opens the index; bytes that are not UTF-8,
  which no parser looks for and only the validator refuses (`testdata/04-invalido.txt`); a title, a name
  or the target of a link that the log cuts at byte 297, in the middle of a character. All but the
  first are what the author's own text does.
* `ScoreExplained`: points are lost exactly for raw HTML in a text, a description, an address, a
  title or the name of the source (`index.md` holds it), for a line of a paragraph, list, code or table that
  reads as a second H1, for an asset under a description that the expression cannot read, and for a missing log.
* `CancelInTime`: a cancellation before the last checkpoint counts; a later one is left to the
  statement that publishes.

What they except is what the author can do to the rules, and each exception is a document that TLC
finds without it. A title with a link to the very name that a unit will get hides that unit's own
title from the regular expression and still counts as its entry (`TitlesLeadOut`). Two headings with
one slug, or a heading with the slug of the anchor of a later unit, make an anchor ambiguous. A
heading without text has the slug `seccion`, and nobody can link to it. The description of an image
may hold a link to an asset.

Left out: a text with an unclosed `](`, which pairs with the first `)` of what comes after it;
a text that holds a whole comment of the index before one of its own links. The notes of the log are
fixed texts, too short to be cut.

Deadlock is not checked in either run: a conversion ends.

## Findings

A run that must find its property violated:

* `delivery_stranded`: a claim that fails for a database error drops the message of a job that the
  sweeper takes for delivered.
* `promotion_mixed`, `promotion_slots`: two runs of an attempt share the temporary prefix; two
  slots of a process share their identity.
* `broker_lost`: a repair of the topology, said to lose no confirmed message, does.

Read in the code, modelled as they are, and not the subject of a run:

* A second click on Retry while the child is active breaks both unique indexes of `jobs`; PostgreSQL
  names the one created first, and the user is told of a conflict (`InsertChild` of `ApiCalls`) where
  `jobs.go:277` expects the child.
* `renewLease` and `process` use a channel without a buffer, both with a default: the signal that the
  lease is lost never arrives (`Receives` of `LeaseTiming`), and the worker goes on to publish. The
  database stops it (`Promotion` and `Sessions` model it so), after the work was done.
* `MAX_UPLOAD_BYTES=0` is no limit to the API and a limit of zero to the worker, which fails every
  job: `ConvertedWhole` of `Uploads` needs a positive limit.
* The line of a PDF is a heading if its size is at least `body*6/5` (`pdf.go:161`), in integers: for a
  body of 1 to 4 points that is the body itself, and every line becomes a heading. `pdf.go:136-137`
  says that only what is notably larger does. `ReadableFonts` of `ParsingInvariants` leaves these sizes out.
* `MAX_BUNDLE_BYTES` is read and never used: the pipeline compares a bundle with eight times
  `PARSE_MAX_BYTES`.

## Proofs

`JobLifecycleProofs` proves, for any sets of jobs and workers and any limits, from the
assumptions named in `JobLifecycle` (`NullAssumption`, `UploadsAssumption`,
`AttemptsAssumption`, `ClaimsAssumption`):

| Theorem | Statement |
|---|---|
| `TypeCorrect` | `Spec => []TypeOK` |
| `Invariant` | `Spec => []IInv` |
| `CancelWinsHolds`, `PublishedHolds`, `OneBundleHolds`, `OutboxKeysHold`, `DeadHasEvidenceHolds` | the safety invariants of run `lifecycle` |
| `AttemptsPaidHolds`, `LiveLeaseHolds` | its action properties |
| `Implements` | `Spec => KeepsPromise`, the refinement of `ConversionPromise` |

The properties are not inductive. `OneBundlePerDocument` needs to know that a document's jobs
form one chain, each retry on a parent that gave no bundle, with a single leaf (`Lineage`);
`OutboxKeysFree` that no outbox row is ahead of its job and only dead jobs have one for the dead
letters (`OutboxBehind`); `LiveLeaseKept` that a row has an owner exactly while it has a lease
(`RowInv`). `IInv` is the conjunction of these with the type invariant. It is kept row by row:
a statement moves rows within what `Moves` allows, inserts one (`NewJobKeeps`), or settles one
as dead or succeeded (`SettledRow`). The refinement proof maps every action to a step of the
promise or to a stutter, from the change of status it makes (`Change`).

`BrokerProofs` proves, for any messages, replicas, credit, slots and faults:

| Theorem | Statement |
|---|---|
| `BrokerInvariant` | `BrokerSpec => []BrokerInv` |
| `LostOnlyByARepairHolds`, `HandledXorReturnedHolds` | the safety invariants of run `broker` |

`BrokerInv` adds to them that what is dropped, or delivered from a deleted queue, was exposed
(`LossesExposed`), and that a process that ended handles nothing (`ExitedIdle`), without which a
restart could bring a connection back to a goroutine of an earlier life. It is kept action by action;
`GiveBack` and the end of a process have lemmas of their own.

`LimitsProofs` proves of `Uploads`, for any documents, sizes, archives, overheads and limits, from `UploadsAssumption` (they
are natural numbers, and no file is empty):

| Theorem | Statement |
|---|---|
| `UploadsInvariant` | `UploadsSpec => []UploadsInv` |
| `NeverMissingHolds`, `ConvertedWholeHolds` | the properties of `Uploads` |

`UploadsInv` says of each document what its request knows before each call (`RequestKnows`) and what
its row stands for (`RowStands`); a step is about one document, and `OneDocument` carries the others
over.

`DeliveryProofs` proves, for any jobs, workers, attempts and faults, from the assumptions of
`JobLifecycle` and `FaultsAssumption`:

| Theorem | Statement |
|---|---|
| `DeliveryTypeCorrect` | `DeliverySpec => []DeliveryTypeOK` |
| `DeliveryUsesLifecycle`, `DeliveryKeepsPromise` | `DeliverySpec => UsesLifecycle`; `DeliverySpec => KeepsPromise` |
| `NoSilentLossHolds` | `DeliverySpec => []NoSilentLoss` |
| `OneMessageHolds` | `DeliverySpec => []OneMessageWhileCalm` |

`NoSilentLoss` speaks of a job that has no message left; the invariant (`LossInv`) has to say where
the message is before that. `Traced` says of each queued job: if it is taken for enqueued, or the
sweeper is about to take it for so, its message is in the queue, with a handler or in the dead
letters, or a row of the outbox is still to be published; and a row that is about to be marked does
not count as that row. `Due` says that the sweeper has no row in hand before its time, without
which the row of a delay could be marked for the attempt before. `OneMessageWhileCalm` needs to
count what will become a message as well (`CalmJob`): a job has a message, a handler about to claim
it or a row to publish, and only one of them; a running job has its owner at work under a live
lease; and no queued job looks stale, or the sweeper would add a message. Both were checked as
invariants by TLC before they were proved.

`PromotionProofs` proves, for any jobs, workers, runs and files, from `RunsAssumption`,
`FilesAssumption` and those of `JobLifecycle`:

| Theorem | Statement |
|---|---|
| `PromotionTypeCorrect` | `PromotionSpec => []PromotionTypeOK` |
| `PromotionUsesLifecycle`, `PromotionKeepsPromise` | `PromotionSpec => Spec`; `PromotionSpec => KeepsPromise` |
| `PromotionInvariant` | `PromotionSpec /\ []OneRunPerOwner => []PromotionInv` |
| `PublishedCompleteHolds`, `ManifestOfServedRunHolds`, `PublishedFrozenHolds` | the properties of run `promotion`, under the same hypothesis |

`OneRunPerOwner` says that a process has one run at a time: `WORKER_CONCURRENCY=1`, the default,
since `lease_owner` is drawn per process. It holds by construction in run `promotion`, where each run
has an owner of its own, and cannot be left out: run `promotion_slots` refutes the property without
it. The invariant says that nobody takes the bundle of a run that promotes and still holds its job
(`HeldBundle`), that a promotion leaves no hole behind it (`Filling`), and that a published bundle
is that of a run which will not write again (`Finished`). `Holds` is the guard of every statement of
a worker, so the run that publishes is the one that claimed.

`LimitsProofs` proves of `LeaseTiming`, for any timings, latency and `MaxAge`, from `TimingAssumption`:

| Theorem | Statement |
|---|---|
| `LeaseOutlivesTheJobHolds` | `TimingSpec => []LeaseOutlivesTheJob` |
| `PublicationHasAThirdHolds` | `PromptRenewals` implies `TimingSpec => []PublicationHasAThird` |

The first needs only that a lease lasts for what it was granted, counted from the claim (`Granted`).
The second bounds the lease by the start of the last renewal that succeeded, which is in no
variable: `Fresh` recovers it from the ticks, of which at most one waits in the channel, and
`Lasts` and `After` are what follows for the lease until `jobCtx` ends and from there.
`PromptRenewals` is about timings whose timeout ends in the last third of the lease: the interval is
a third of it and not the minimum of a second, and a statement takes less than half an interval.
With a lease of 12, a timeout of 11 and statements of 2, where it does not hold, TLC finds the
property violated; 120 s and 180 s satisfy it whatever a statement takes.

`SessionsProofs` proves, for any number of slots, workers, cancellations, sweepers, clicks and
downloads, from `SessionsAssumption` (`Nobody` is no session, and no click is named like one of the rows):

| Theorem | Statement |
|---|---|
| `SessionsInvariant` | `SessionsSpec => []SessionsIInv` |
| `SessionsTypeCorrect` | `SessionsSpec => []SessionsTypeOK` |
| `DeadlocksNeedOneIdentityHolds`, `PublishedIsSucceededHolds`, `AnswersAreTrueHolds` | the properties of run `sessions` |
| `JobMovesForward` | `SessionsSpec => [][JobMoves]_sessionVars`: what one commit may do to the job |

The invariant says which label of a transaction goes with which locks (`Locks`), and what the
session has written to the rows it holds (`Drafts`). A row that is locked is only changed by the
commit of its session, so what a session read of it when it took the lock is still true when it
commits. `DeadlocksNeedOneIdentity` follows from `Locks` and `Drafts` alone: of two slots that wait
for each other one has published and waits for the job, which is running with its own
`lease_owner`, since it does not wait for a row that is not; the other holds the job
and has found its own `lease_owner` there. The other two add what each user was told, and what the
first statement of a cancellation saw (`Reads`).

`ParsingProofs` proves, for any uploads, vocabularies, styles and images, from `DocxAssumption`,
`StylesAssumption`, `RelsAssumption` (a file of an archive has a size, a natural number) and
`VocabulariesAssumption`:

| Theorem | Statement |
|---|---|
| `ParsingInvariant` | `ParsingSpec => []ParsingInv` |
| `Types`, `ReadingOrder` | `ParsingSpec => []ParsingTypeOK`; `ParsingSpec => []InReadingOrder` |
| `HeadingsMarked` | `ReadableFonts` implies `ParsingSpec => []HeadingsAreMarked` |
| `NothingElseIsLostHolds` | `ParsingSpec => []NothingElseIsLost` |

A source has any length, and any nesting that a tree of its format has. The words of a block are positions of the source, so that
what is read now is behind all that was read before; what a parser can do wrong is to write the words
it holds too late, twice, or into the wrong block. `ParsingInv` says that the blocks so far are in
order (`Doc`), and that each sequence of words the parser holds is in order behind them (`Pending`):
the paragraph of a text, the text and the images of a paragraph of Word, the block and the list item
of a page. Of HTML it says which loops may be active inside which (`Nested`, `Later`): while a block
gathers its text no paragraph waits, and what is gathered is inside every element that is read as a
block (`Holds`). That is also why a heading is marked: its words were inside it when they were read,
and the elements around a token do not change (`MarkedGrows`). A style of Word takes effect in the
paragraph it is read in (`InParagraph`). TLC finds no state of run `parsing` without the invariant.

`LevelForRange` is an induction over the steps of `levelFor`: the least number of steps that gives no
level is none (`LeastNumber`, from the well-foundedness of `<`); `Recursion` derives from it that a sum over
the tokens of a source, such as `Spent`, exists at all. The induction theorems of the library
take an operator as a parameter, which these provers cannot instantiate; sets in their place can be.

What is lost depends on what else is read: a list item loses what it gathered when a block comes later,
and an image may find the budget spent by those before it. `NothingElseIsLost` needs an invariant of
its own, `LossInv`: of every token that was read, it is in a block, held by the parser, without words,
or lost for a reason that the tokens so far already show and no later one takes back
(`DocxDropsGrows`, `MarkdownLosesGrows`, `HtmlDropsGrows`).

| Format | What `LossInv` adds |
|---|---|
| text, PDF | `LinesLoss`: the lines looked at so far are seen, but for the inner text of a PDF, and the next one is no underline of theirs, or it would have been looked at with them |
| Markdown | `MarkdownFinds`: the element whose words are held is not empty, only a heading drops images, an item is in a list |
| DOCX | `DocxFinds`: there is a function `g` of what was paid up to each token, the budget is what `g` left; `DocxPlaced`: in which element each loop runs, so that text read by the loop of the body inside a paragraph follows a text box or a nested table |
| HTML | `HtmlPlaced`: how each element that is open came to be read as it is (`ShapeOf`), so that what is dropped is in a skipped element, a caption, a block of a list item or a list outside of its items, or is outside `<main>`; what a list item holds is inside it and before any of its blocks; a table that gathered text has a row |

At the end of the source the parsers hold nothing, and the reasons so far are those of
`NothingElseIsLost` (`MarkdownLosesIs`, `HtmlDropsLoses`...); for a DOCX, `g` is `Spent`.

`ConversionProofs` proves, for any documents, slugs, limits and budgets, from `ConversionAssumption`
(an input is a document as `Document` types it, and the limits are natural numbers):

| Theorem | Statement |
|---|---|
| `ConversionIsAFunction` | `ConversionSpec => []ConversionInvariant` |
| `CancelInTimeHolds`, `UnitsKeepTheProseHolds`, `AssetsAccountedForHolds`, `PublishableIsNavigableHolds`, `AnchorsLandHolds`, `InvalidHasACauseHolds`, `ScoreExplainedHolds` | the properties of run `conversion` |

The stages are functions of a whole document, so the invariant says at every stage which function of
the document each variable is, and when a cancellation or a deadline came. The rest is about those
functions. `CutAt` describes how `Split` cuts: where each unit begins and ends, so that the units are
the document again. The names differ because each begins with the number of its unit. `Keeps`, `Shows`
and `Paid` are kept by each step of `Extract`, image by image: the files written so far are those of
the images taken so far, and what they weigh is what was spent of the budget. `Filed` says what the
rendered bundle holds under each path: from it the validator's checks can be computed, one by one, and
are equivalent to what the properties say of the text.

These functions walk over sequences. An induction over the length is done once per function on a set
of the lengths that fail, as for `LevelFor` above: the least of them is none (`LeastNumber`). The sums
of the assets and of the weights are those of the community modules, by the recursion that defines
them over sets.

Only model-checked: liveness. Liveness under fairness and `ENABLED` are beyond the proof
system. No module uses a `RECURSIVE` operator.

## Not modelled

`job_events` (a trace nobody decides by), owners and their filters, authentication, HTTP but for the
limit of an upload, the wording of reports. `PurgeExpiredTickets`, which nothing calls.
Of the configuration, the environment and its addresses; of the migrations, the runner, a
one-shot under its own lock; of the tokenizers, everything but what they deliver. The frontend is a
polling view of the API.

## Plan

Done: all modules of the plan, and the proofs of every safety and action property of the passing
runs. What is left is liveness, which TLC checks, and one hazard without a property: the object that
an upload leaves behind when its transaction fails, of which the code makes no promise.
