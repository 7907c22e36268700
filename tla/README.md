# A TLA+ model of refinery-gateway

refinery-gateway is the HTTP gateway of a data-labelling platform. It is one
Python process (FastAPI under Starlette) that serves requests, keeps its data in
PostgreSQL, its objects in an s3 store, runs user code in docker containers and
calls sibling services (embedder, neural search, tokenizer, weak supervision,
task master) over HTTP. Nearly everything that is hard about it happens in the
daemon threads that outlive a request: they share rows, objects and module
variables with requests and with one another, and there are few locks.

The database layer (`submodules/model`) and the s3 layer (`submodules/s3`) are git
submodules that are not part of this tree. They are modelled from how `src/`
uses them, and the definitions that stand for them, for docker and for other
services are marked external in `PROJECT.json`.

## 1. Inventory

| component | state it keeps | operations | what is hard | modelled in |
|---|---|---|---|---|
| information source runs (`controller/payload`) | payload rows, result rows, exclusions, s3 objects, `__containers_running` | request, run thread, log reader, cancel, deletion of the source | overlapping runs, a cancel racing the end, raising calls in nested handlers, a container that never ends | `PayloadRun` |
| calculated attributes (`controller/attribute`, `api/transfer.py`) | attribute rows, values in the records | create, calculate, cancel, delete, recalculation after an import | check and mark in two steps, cancel against completion, a polling loop over a list | `AttributeCalculation` |
| file import (`api/transfer.py`, `controller/transfer/record_transfer_manager.py`, `controller/upload_task`) | upload tasks, records | notification of the object store, cognition preparation, continuation by PUT, cancel, clean-up at start | repeated delivery, two continuations, chunks committed one by one, restart | `FileImport` |
| embeddings (`controller/embedding`) | embedding rows, agreements | recreation after an import, cancel, delete | replacement in several commits, overlapping loops, unbounded polling | `EmbeddingRecreation` |
| record editing (`controller/record`) | record data, labels, doc bins, tensors | edit, with its checks and reverts | several commits of which only the first is reverted, everything checked and read once at the start | `RecordEdit` |
| manual labeling (`controller/record_label_association`) | labels, crowd payloads, gold stars | add, delete, gold star, duplicate check | replace in two commits, progress counted and committed apart, debounced statistics | `Labeling` |
| call decorators (`util/decorator.py`) | timers per key, time of the last call | debounce, throttle | a timer that fires against a call that replaces it | `Debounce`, `DebouncedCall` |
| database migrations (`alembic/versions`, `src/db`, `src/start`) | version, schema, the cells some scripts move | upgrade to the newest, one up, one down | a downgrade nobody ever ran, keys and their delete rules spread over 42 scripts, data moved into JSON and back | `Schema`, `Revisions`, `Migrations` |
| project lifecycle, organizations and users, weak supervision | rows and their keys, buckets, objects, status `IN_DELETION` | create, join, leave, work, delete, clean-up at start | what a deletion takes along is decided by the migrations; rows and objects are deleted apart | `Lifecycle` |
| project transfer (`controller/transfer/project_transfer_manager.py`) | every row of a project, id dictionaries of one import | export, import, thread after the import | an export of many queries beside users, an order of 20 dependent sections, rollback, a thread whose calls have no handler | `ProjectTransfer` |
| cognition setup wizard (`controller/transfer/cognition`) | three projects, a queued task list | set up | one failing step of many and what a retry finds of it, records that arrive by another way or not at all, tasks that use each other's results | `Wizard` |
| request log (`middleware/log_storage.py`) | queue, lock file, log file | store, persist | several processes, a lock that is looked for and made in two steps, batches that end early | `RequestLog` |
| service configuration (`controller/misc`) | cached configuration, timers | get, refresh, change | threads that share one variable without a lock, timers that empty it | `ConfigCache` |
| everything else | rows changed in one transaction, caches, SQL text | | | not modelled, reasons in `PROJECT.json` |

How they interact. A request or a notification runs in a coroutine or in the
thread pool and commits on its own session. `daemon.run_with_db_token` and
`daemon.run_without_db_token` start daemon threads nobody joins. Containers and
sibling services are started by a call and observed by polling a row, an object
or a log stream. Importing records (`FileImport`) starts one such thread, which
first recalculates all usable attributes (`AttributeCalculation`) and then
replaces all embeddings (`EmbeddingRecreation`); the tokenization of the import is
queued after that thread was started. An edit of a record (`RecordEdit`) looks whether
a tokenization runs or an embedding is under way and then goes on beside both. The
wizard posts records to the gateway itself: they go through the object store and come
back as a notification (`FileImport`) while the wizard works on the same project. What
a deletion of an organization, user or project removes (`Lifecycle`) follows from the
keys the migrations made (`Migrations`). Cancels of the task monitor only write a
state that the running thread may or may not read again.

What makes the components correct, in short: a final state tells the truth about
the data (results, values, chunks, agreements are there), a cancel that comes in
time counts, what may only happen once happens once unless two requests really
overlap, nothing stays under way without somebody who works on it, and every
thread comes to its end. `PROJECT.json` lists each hazard at its line with the
properties that watch it.

## 2. The modules

Each module models the whole component for one project (or one information
source). A request, a handler or a thread has a place (`pc`); an action is the
code between two points at which another actor can be seen: a commit, a call to
another service, a sleep, the end of the handler. Two bounds occur in most modules:
`MaxFaults`, how many external calls raise, and `MaxCrashes`, how often the
gateway process is restarted (`MaxStops` of `Lifecycle` and `MaxWizardFaults` of
`Wizard` count both), which ends its threads and leaves rows, objects and
the work of other services. Variables marked *history* are not part of the code:
they record that something happened (two actors overlapped, a cancel came in time)
so that a property can say exactly when a guarantee holds.

**PayloadRun** (`payload_scheduler.py`). State of one source: the rows of its
payloads, the containers, the temporary s3 objects, the result rows and
exclusions, and what users were told. `Request` and `Create` are
`create_payload`; the exclusions of an active learner, the input, the container,
its log stream, the checks and the transaction that replaces the results follow
in the order of `execution_pipeline` and `update_records`. `DeleteResults` takes
the snapshot the delete statement sees and `CommitResults` commits, so rows another
run commits in between survive, as in the database. What a run holds of its own payload is
what the session loaded last (`held`): the commit of the progress has it loaded again, and
`CheckResults` compares that, after the deletions in s3, not the row. The inner and the outer
exception handler are two actions because the code commits and notifies in both.
The log reader is a thread of its own that polls, then writes what it read.

**AttributeCalculation** (`attribute/manager.py`, `attribute/util.py`,
`api/transfer.py`). A calculation checks for running attributes and tokenization
(`Accept`, `Refuse`), marks its attribute `RUNNING`, runs a container, writes
values, queues the tokenization of text or the upload of docbins, compares the state
and marks the attribute `USABLE`; for text the state it compares was loaded before the
call that queues the tokenization. A tokenization is queued and then runs, and the two
are asked for apart: a calculation is refused by either, the recalculation waits for a
running one only. The recalculation sets all usable attributes back to `INITIAL` and
calculates them one after the other, driven by the state of the head of its list. Names
matter: values are stored under the name of the attribute, and two attributes may have the
same.

**FileImport** (`api/transfer.py`, `record_transfer_manager.py`,
`import_preparator.py`, `clean_up.py`). Notifications of the object store are
handled one after the other (their handler has no await after the body was read),
continuations (`PUT`) run in the thread pool. A default task is downloaded, parsed
and stored chunk by chunk; a `COGNITION` task is only analysed until a PUT
continues it. Records with a primary key are looked up before they are stored.
`Restart` includes the clean-up that takes the passwords of unfinished tasks.

**EmbeddingRecreation** (`embedding/manager.py`). Ids are `<<embedding, generation>>`:
a loop deletes a row and makes the next generation in one commit (`Create`), moves
the agreement of an external platform in a second (`Agree`), has the old tensors
deleted and starts a thread that requests the new ones (`RequestNew`), and polls
until the embedder has settled the row. The row was read before (`ReadOld`), and
the delete statement does not notice that it has gone, which is how two loops can
make two rows of one embedding.

**DebouncedCall**, **Debounce** (`util/decorator.py`). The first is the promise of the
decorator: calls may be collapsed, but a run of the function follows every call and
serves all calls made before it. The second has the dictionary entry of one key, the
places of the calling threads and the states of their timers: cancel, store and start
are three steps, and a timer takes the entry out before it runs the function, whoever
the entry belongs to. `Debounce` instantiates the promise `WITH` its history variables
`called` and `served` and checks the fair specification of the promise as a property.

**Labeling** (`record_label_association/manager.py`) extends `Debounce`: requests of one
crowd annotator set a label (delete of the old, insert of the new, progress of the
source, threads for statistics and for the search for doubles), or delete one. The
thread of the statistics is the caller of the debounced function. A label is named
after the request that created it.

**RecordEdit** (`record/manager.py`) extends `EmbeddingRecreation`: the steps of both
interleave, and an embedding is made from what the record says when its job begins. An
edit reads the records, then the embeddings, then the tokenization, each with a query
(`ReadRecords`, `ReadEmbeddings`, `ReadTokenization`), writes the whole data it has
read with one attribute changed, deletes the labels if a text was changed as a whole (not a
sub key, not a category or number), and the doc bins, asks for a tokenization, waits, has
the record embedded and, when one of the two try blocks raises, writes the
data back. There is one record: edits of different records meet only in the checks.

**Schema**, **Revisions**, **Migrations** (`alembic/versions`). `Schema` has the operations
of a script (create and drop tables, columns, keys with their delete rule, indexes,
copying cells) with what PostgreSQL demands of them; a script stops at the first that
cannot run. `Revisions` has every script as two sequences of operations,
`Up_<revision>` and `Down_<revision>`. Columns without key or index that only one script
mentions, types and defaults are left out. `Migrations` is the database under
`alembic upgrade` and `downgrade`: a command is one transaction. The rows whose cells the
scripts move (`Variables`, the `Holders` that refer to them, the `Codes` of the routing)
are written, overwritten and deleted between the commands. The last part of the module is
what the theorems take from the scripts, `ScriptsAssumption` (section 4).

**Lifecycle** extends `Migrations`: rows of organizations, users, projects, records, weak
supervision tasks and labels, the links between them, the buckets and objects that the
gateway keeps in step, the threads that do so, stops and restarts. `Delete` follows the
rules of the keys in the newest schema, so that a migration that changes a rule changes
what `delete_user` does.

**ProjectTransfer** (`project_transfer_manager.py`). A project with its 19 kinds of row, or
one without records and tokenizer (`NewProject`). Rows have the columns that hold ids of
other rows, the ones inside text (filters and SQL of a slice, code of a source) included,
and the names by which embeddings are found. Left out are columns with names of other
things, which are copied like any text (section 5). The export reads kind after kind
(`ReadNext`) while a record is added or deleted or an embedding is recreated, and
writes the columns of `written_entities` and `written_joins`. `import_file` is one
section per kind, in the order of the code, with the dictionaries `ids` and `renamed`, and
`Raises` says on what a section fails by itself; `HandleError` rolls back. The thread that
is started by the import waits for the tokenization that is queued after it and asks for
one embedding after the other; a call of it that raises ends it.

**Wizard** (`import_wizard.py`, `constants.py`). `Program` is the sequence of steps of one
setup, made from the constants in the order of `__finalize_setup`; each step makes rows
and adds entries to the list that is queued at the end. An attribute is a row of its own
(`columns`: project, name and the wizard that made it), so that a second setup leaves two of
one name, and an embedding takes any of that name. A labeling task is read, made and given
its labels in three steps. Records that are posted may be refused without anybody noticing,
and are imported later; the import makes attributes and a labeling task itself, or ends in
an error. At the end the wizard asks for the tokenization of one project after the other.
A setup that gave up may be started again.

**RequestLog** (`middleware/log_storage.py`). Requests leave entries in the queue of their
process; a thread takes the queue and goes through its files: directory, lock file, log
file, removal of the lock, each a look and a later change. An exception ends the batch.
Several gateways write the same files; the others are taken to run the same code.

**ConfigCache** (`config_service.py`, `update_config` of `routes/organization.py`). A thread
of the pool looks at the variable, fetches, assigns, starts a timer and reads the
variable again, or goes on to change the configuration and refresh. A timer empties the
variable whenever its hour is over. A configuration is the number of changes made to it.

`MC*.tla` give the constants small sets; every `.cfg` belongs to one run. `MCDatabase`,
`MCSetup` and `MCLabeling` run two or three modules that share no state: a behaviour is one
of them, chosen at the start.

## 3. What the runs show

| run | question | result |
|---|---|---|
| `payload_overlap` | two runs of one active learner, cancels, deletion of the source | results of two runs are mixed only if the runs overlapped; results disappear only because another run replaced them; a cancel that comes before the run loads its payload for the last time keeps it from writing |
| `payload_faults` | one run, two raising calls, one restart, fair threads | nothing is left in s3 or in memory after a success, or if nothing raised; runs settle and readers stop |
| `payload_keeps` | "results of previous run are kept" | violated: an unknown label in the output deletes them |
| `attribute_requests` | two attributes, two requests, cancel, delete, import | two attributes run at once only after two requests stood between check and mark; a cancel counts until the state is loaded for the last time; the recalculation, undisturbed, makes all usable again but one whose name two others of the list carry, or one that follows another whose tokenization was still queued |
| `attribute_recalculation` | a raising call, a restart, fair threads | a usable attribute has its values; no attribute runs forever and the recalculation ends |
| `attribute_twins` | "another attribute with the same name is already usable" is refused | violated: one usable namesake is accepted |
| `import_tasks` | a prepared task with two PUTs beside a protected file with the same keyed records | reported chunks exist, keyed records are there once, only overlapping PUTs both go on, every import settles |
| `import_unanswered` | "we can always append an error" | violated when the download raises |
| `embeddings` | recreation loops, one or two, and edits of a record beside a recreation, an import, a restart or another edit | agreements follow the rows, loops one after the other double nothing, whatever is under way has somebody to settle it and is settled; what an edit answers is true unless edits met, and doc bin, tensors and the labels of texts are those of the record's data, or what a failed edit of that attribute wrote, unless something was made in between |
| `labeling` | what requests share in memory and leave to threads and timers: two that set, replace or delete labels; two gateways that write the request log; two threads that read, refresh and change the cached configuration | one label in the end, gold labels double only by overlap, the progress is that of the labels unless two updates overlapped, statistics follow every call; an entry of the request log reaches its file unless its batch ended for a reason or two threads met at a file; an update of the configuration is seen by later requests unless refreshes crossed, and what they left goes by itself |
| `database` | all migrations in any order up and down with the cells they move; an organization, two users and a project from creation to deletion | a version decides the schema however the database came there, and reaches the newest; which downgrades cannot run; no cell is lost; a deleted user's work stays; objects without rows are those of a lost thread or a deleted organization; a deletion ends |
| `setup` | export beside an edit and import, old and new files, many and few options, raising calls and a stop; a wizard beside the import of its records, and a second after it gave up | references are restored unless their target was not in the file, but for two columns that stay as they are; a section raises by itself on two kinds of file only; an import leaves all or nothing; every embedding is served unless the thread after the import ended early; queued tasks come after what they use, but for embeddings of attributes that came with the records or were left by the first wizard; a finished setup is complete, each label once, on tokenized records unless they were lost or late; a wizard ends or gives up |

The three runs that end with a violation state a sentence the repository says of
itself; the findings in `PROJECT.json` quote it with its line.

Every property of a passing run has a mutant: a changed form of one action, kept
in the module under "Mutant", with which the property fails.

What the runs show of the code beyond that, without a sentence of the repository
against it: an edit whose embedding fails takes its text back and leaves the doc bin
made of it; an embedding that was cancelled counts as failed for an edit, although its
job may still end and store a tensor of the old text; seven downgrades cannot run
(`OneWay` in `Migrations`); an organization that is deleted leaves bucket and objects; a
gateway that stops while it writes the request log leaves a lock that makes every later
batch with this file end after a minute, its other files included; a request that finds the
cache emptied between its two looks fails; a project that is exported before it has a tokenizer
cannot be imported, because the import cuts the tokenizer to its first two characters; an
imported crowd labeler still names the slice of the old project (`source_code`) and a slice
of outliers its embedding as the file does (`info`); the recalculation takes an attribute
off its list while its tokenization is only queued, and the next calculation is refused;
after a retry of the wizard an embedding may be queued for an attribute that nobody
calculates; a cancel between the last load of a payload and its end is overwritten; one
raising call of the thread after an import leaves all later embeddings without tensors.

### Bounds and why they are enough

- *Two of everything that competes.* Races here are between two actors that
  check and then write; a third adds only more of the same pairs. Runs about
  overlap therefore have two payloads, requests, PUTs or loops. Each calculation,
  handler and loop runs once, so all runs are finite without a state constraint.
- *One or two raising calls.* The nested handlers of a run are left by a first
  exception and can be disturbed by a second (`payload_faults` has two); the other
  components have one level of handlers and get one.
- *One restart.* Nothing of a killed thread is resumed, so a second restart finds
  the same kind of state as the first; `FileImport` repeats deliveries besides.
- *Two chunks*: the first that fails and the last that completes a task.
- *Two generations* in `embeddings`: each of the two loops makes at most one
  row of an embedding, so `MaxGeneration = 2` never stops a loop.
- *Five beginnings* in `embeddings` (`MCInit`): two embeddings and one loop; one embedding
  of an external platform and two loops; one embedding with a loop and an edit; an edit
  with an import and a restart; two edits without embeddings, both of a text or one of a
  list with a sub key. Together they have every pair of actors; all at once are too many
  states.
- *Two requests* in `labeling`: each is a call of the debounced function as well. Three
  calls would be needed to see a timer that could not be cancelled run ahead of a later
  call; `OneTimer` is proved for any number of calls instead.
- *Two gateways, three entries, two files* in `labeling` (`MCLogPath`): a batch with two
  files shows what the early end of one does to the other, and two entries of one file that
  a later batch finds it. One write raises, one gateway stops.
- *Two threads* read and change the configuration again and again, with two changes
  (`MaxChanges`), one failing call and up to `MaxTimers` timers when a request begins:
  two refreshes that cross and a third request after them.
- *All 42 revisions* in `database`, so nothing is bounded there but the cells: two
  variables, so that a reference can be overwritten and one of two rows deleted, one
  referring row of a kind and one routing code. The theorems are for any number of them.
  `MaxUserLives` lets a deleted user come back
  once, an organization and a project are made once.
- *One edit* of an exported project and one fault in the transfer part of `setup`: every
  read is one query, so one change between any two of them is every case of one row. `MCOptionSets` has all
  options, all but one, and next to none. Two embeddings, so that the thread after the
  import can end between them.
- *Two wizards* and one fault in its other part. `EmptyGroups` names one group without
  bricks. One wizard runs where the references are still to be tokenized and the projects of
  questions have no attributes yet; where both are prepared a second one starts after the
  first gave up. That two run at once, which nothing in the code forbids, is excluded by
  this bound.
- Requests and loops that only differ in their name are symmetric
  (`Permutations`) in safety runs; runs with liveness use no symmetry.
- `CHECK_DEADLOCK FALSE` is set everywhere because the system really stops: when
  every request, thread and job has ended and the bounds are used up, there is
  nothing left to do.

### Fairness

Weak fairness is assumed of steps of the gateway's own threads: the interpreter
schedules runnable threads, and no thread waits for a lock held by another. It is
assumed of the tokenizer and the embedder for work they have accepted, and of
docker for removing a container that exited. It is *not* assumed that a container
of user code ends for `PayloadRun`: `RunsSettle` says so in its hypothesis, because
the code waits without a timeout. A calculation of an attribute waits for its
container inside one call, so `FairSpec` of `AttributeCalculation` includes its
exit. `LabelingFairness` is fair to handlers, to the search for doubles and to the calls and
timers, which the operating system runs sooner or later. `Fairness` of the recreation and
`EditFairness` are fair to threads, daemon threads, tokenizer and embedder;
`LifecycleFairness` to threads and to the start of a stopped gateway, whose container is
restarted; `TransferFairness` to the request that imports, to the thread after it and to
the tokenizer; `WizardFairness` to the wizard's thread, the tokenizer and the task master;
`LogFairness` to the persist thread of each gateway; `ConfigFairness` to requests under way and to timers. No user action is fair.

Liveness properties end in `\/ faults + crashes > 0` (or `crashes > 0`), a stop or a wizard
that gave up where the code has no recovery: `RunsSettle` and `ImportsSettle` hold through
raising calls and are excused only by a restart, `CalculationsEnd` and `RecreationEnds` by
both. That a raising `request_reupload_docbins` leaves an attribute `RUNNING`, or a
raising delete leaves an embedding `INITIALIZING`, is what the code does.

## 4. What is proved

All theorems hold for every value of the constants that meets the assumption
named in the module (`PayloadAssumption`, `AttributeAssumption`,
`ImportAssumption`, `EmbeddingAssumption`, `RecordEditAssumption`, `DebounceAssumption`,
`LabelingAssumption`, `LogAssumption`, `ConfigAssumption`: bounds are natural numbers,
subsets are subsets, names and jobs are total functions).

Two assumptions are of another kind: they say of the 42 scripts what can be computed from
them. No constant occurs in them, so the run `database`, which evaluates them, settles them
for every instance. `AuthorsAssumption` is all the proofs about `Lifecycle` use: after the
migrations neither a project nor a label goes with its author, because the delete rule of
both keys is `SET NULL`. `ScriptsAssumption` is all that the proofs about `Migrations` use.
It takes each script on its own, on the schema of its version and without a single row:

- an upgrade runs, ends every column that carries moved data in such a column again, and
  adds no key to one of them;
- a downgrade that is not in `OneWay` leads back to the schema of the version before, ends
  the same columns in such columns, and adds a key to some only in `0d587af700ce`, where it
  is one to the environment variables; a downgrade in `OneWay` fails.

What happens to rows, over any number of commands, is what the theorems add.

| module | theorem | argument |
|---|---|---|
| `PayloadRunProofs` | `TypeCorrect` | one step per action |
| | `MixedResults` | `MixedInv`: active runs have met, and whatever a transaction did not see belongs to a run it met. `MixedResultsOverlap` alone is not inductive: the delete and the commit are two steps |
| | `EarlyCancels` | `CancelInv`: before the check there are no rows, and a run that was cancelled before the last load holds `FAILED` at the check, because between the two nothing writes its state but the handlers |
| | `ResultsStay` | `KeptInv`: a transaction deletes what one snapshot saw and writes once, and from its commit on the results of a run are there or another transaction has seen them |
| | `RunsTidyUp` | `ResidueInv`: what a run has in s3 or among the running containers at each of its places; only a call that raises leaves it behind |
| `AttributeCalculationProofs` | `TypeCorrect`, `OneAtATime` | `MarkInv`: without a race whoever stands between check and mark is alone and finds nobody running |
| | `CancelsCount` | `CancelInv`: an attribute that was cancelled in time is `FAILED` or gone, and no calculation of it has loaded a state that lets it pass; nothing else leads to `USABLE` |
| | `ValuesThere` | `ValuesInv`: of an attribute that was never calculated twice at a time and has its name for itself, whoever is past the writing has its values in the records; the handlers take them out before anything can make it usable |
| | `UsableAgain` | `RestoreInv`: while nothing disturbs it, only the head of the list is calculated, what is before it is usable again (or crowded out by two namesakes, or refused after a head that came off with its tokenization queued), what is behind it is `INITIAL`. `UsableHasValues` and the exclusion of a second calculation come out of the list, not of a lock |
| `FileImportProofs` | `TypeCorrect`, `ReportedRows` | `RowInv`: a handler at chunk k has stored all before k, and rows never disappear |
| | `KeyedRows` | `KeyInv`: without overlap one handler imports, and what its lookup did not find is still missing when it stores |
| | `Continuations` | `ContinueInv`: a PUT that went on has set `upload_type` back, and whoever still stands before its commit has raced with it |
| `RecordEditProofs` | `TypeCorrect`, `AgreementsFollow` | `AgreeInv`: a deleted row stays deleted, an agreement leaves only a deleted row, and a row reaches the embedder only after its agreement |
| | `SomebodySettles` | `PendingHasWorker` is inductive: each step that lets go of a row has settled, deleted or handed it on |
| | `RowsStaySingle` | `OneInv`: the only loop under way holds the only row of the embedding it is about to make again |
| | `EditTypes`, `AnswersTrue` | `EditInv`: unless edits met, at most one is between its last check and its end, and what it would write back is the record before it |
| | `DerivedTrue` | `DerivedInv`: unless edits meet, a label of a text, doc bin or tensor that is not of the record's data has an edit that is about to remove or remake it, or is what a failed edit of its attribute wrote, and an edit past its look at the embeddings knows every finished one of its attribute, because nothing is recreated meanwhile |
| `LabelingProofs` | `TypeCorrect` | steps of the labelling are steps of the decorator or leave it alone (`DebounceSteps`), so what is about the decorator is proved from its own steps |
| | `CallsServed` | `CallsHaveTimer` is inductive: each step that takes a timer or an entry away has another timer or call in its place |
| | `OneTimer` | `OneTimerInv`: without a race a call between cancel and start has the entry for itself, and nothing waits or fires meanwhile |
| | `DebounceRefines` | each step maps to a call, a run, a restart or a stutter; that the run comes is model-checked |
| | `GoldSingle` | `GoldInv`: between its two commits a request for a gold label finds none |
| | `OneLabel` | `OnceInv`: while there are two labels somebody has yet to look for them, and a labelled record without label is just being replaced |
| | `ProgressTrue` | `ProgressInv`: without overlap one request counts at a time, found the payload if there is one, and until somebody has yet to count, what was counted last is what there is |
| `BackgroundProofs` | `LogTypes`, `NothingLost` | `LockInv`: until two threads meet, whoever is at work on a file is alone, a file about to be made is not there, and every lock has its holder unless a stop left it; so a batch that ends early has a reason |
| | `ConfigTypes`, `StaleEnds` | `CachedHasTimer` is inductive: a timer that runs empties the cache too |
| | `UpdatesSeen` | `SeenInv`: until refreshes cross, responses are stored in the order in which they were fetched |
| `DatabaseProofs` | `VersionDecides`, `DataStays`, `CommandsSucceed` | `MigrationsInv`: the database is its version's schema (`Bare`) with whole cells in columns that are there. A script is followed along two runs, one on the database and one on its schema alone (`Along`): the schemas agree whatever the cells are, the cells are those the paths of their columns lead to, and only a new key asks for something of a cell. So a script on any rows does what `ScriptsAssumption` says it does on none; what the keys of `0d587af700ce` ask is exactly that no reference dangles (`Keys0d587af700ce`) |
| | `ObjectsStay` | `ObjectsKept`: each step that takes a project's row leaves a thread for its objects, or is the end of that thread or of the organization; a deletion is followed through the keys, one level at a time |
| | `WorkStays` | what a deletion reaches by cascading keys from a user's row: no record and no label by hand, unless their project goes |
| `SetupProofs` | `AllOrNothing` | `ImportInv`: before the commit nothing is in the database and the session is a faithful copy of the sections that are done (every row of the file that was not left out, once); after it the rows are the session |
| | `ReferencesKept` | `ExportInv`: a row that others refer to is in the file once its kind was read, or there is one of four reasons why not; with `ImportInv`, a reference that finds its target in the file finds the copy, because the section of the target comes first. `AllOrNothing` takes from it that a raising section has one of two kinds of file |
| | `InputsFirst` | `ListsInv`: of the list a wizard has gathered so far, each entry comes after its inputs, and an entry stands for a step that has passed; no step of a project adds a heuristic after the one for its weak supervision. An embedding uses the calculation of its own attribute row or a row of somebody else, who is nobody or a wizard that gave up (`Alone`, `ColumnsInv`): at most one wizard works at a time. The order of the 23 steps is proved from `constants.py` as modelled (`StepOrder`) |
| | `AllMade` | `RowsInv`: what a step that has passed should have made is there, what was read of a labeling task is still there, and a label made twice was made after somebody else changed the task; records are tokenized or about to be, lost, or late |

`NothingLost`, `UpdatesSeen` and `DebounceRefines` are the safety parts of `EntriesReachLog`,
`ConfigFollows` and `DebounceImplementsPromise`; that something comes in the end is checked
by TLC.

A proof attempt changed one property: `RecalculationRestores` once said that every attribute
becomes usable again. Its invariant failed for three usable attributes of one name. The
check before a calculation refuses when *two* others of the name are usable, so the third
one is set `FAILED`; two namesakes, all that the run had, never show it. The property now
excuses such an attribute (`Crowded`), as the code does.

`VersionDeterminesSchema`, `MigrationsKeepData` and `CommandsRun` became provable when the
cells of the model were given their rows: with one cell per column, what a column holds was
tied to the one variable of a run, and nothing could be said of all rows. They need
induction over the operations of a script and over the scripts of a command. The library's
induction theorems take an operator as parameter, which the provers cannot instantiate;
`DatabaseProofs` therefore proves induction for a *set* of numbers (`Induct`), from the fact
that `<` is well-founded (`Least`), and shows with it that the recursive functions of the
model exist and are what their definitions say (`AfterDef`, `PathsDef`, `UpgradesDef`).

Every safety property of a passing run, invariant or action property, is stated by a theorem.
Only model-checked are the liveness properties, with the fairness they need, which the prover
does not have, and the values of the two assumptions on the scripts, which TLC computes.

What a wizard's theorems say of several wizards is bounded like the model: a second one
starts after the first gave up.

## 5. What is left out, and why

- The content of data: records, labels, code and logs are members of small sets
  or not there at all; a conversion matters only where a property sees it (the
  progress a log reader parses, the name a value is stored under).
- Isolation below a statement: a transaction sees what was committed when its
  statement ran, which is PostgreSQL's default; deadlocks of row locks and unique
  constraints are in the submodule and not modelled.
- Start and end of sessions (`general.get_ctx_token` and its like) and all pure
  reads.
- In `PayloadRun` and `AttributeCalculation` the sample run over ten records, which
  changes no row that anything else reads; in `FileImport` files of projects and
  knowledge bases and records posted as JSON; in `EmbeddingRecreation` creation
  through the task queue, tensor upload and payloads of the neural search
  (`create_embeddings_one_by_one` has no caller).
- In `Labeling` extraction labels, removal of a gold star, the knowledge base terms and
  the relevance flag that the database layer derives from the labels; the update of that
  flag is there only as a call that may raise. Which of several labels the search for
  doubles keeps is left open. `create_gold_star_association` has no caller: the route
  that should set a gold star only sends a notification.
- In `RecordEdit` all records but one, the file with the tensors after a PCA, deletion of
  records and the similarity search.
- In `Migrations` types, defaults and columns that only one script names; in `Lifecycle`
  roles, languages, statistics and routes that only read; a deletion of a project from the
  object store is one call.
- In `ProjectTransfer` columns that hold names of other rows and are copied
  (`selected_information_sources` and `selected_labeling_tasks` of a weak supervision task,
  `filter_attributes` of an embedding), the annotator in the code of a crowd labeler, the
  sample projects (the same import, of a file in the image) and
  the import of label associations (its route answers 404).
- In `Wizard` the rewriting of the code of bricks, active learners and messages; two
  wizards at a time on one project.
- In `RequestLog` which requests are logged and with what columns.
- `throttle` and `param_throttle`, which only thin out notifications.

## 6. Plan

What is modelled above was built in the order of its weight for users: runs, attributes,
imports, embeddings, edits and labels; then projects as a whole (lifecycle, transfer,
wizard) on the schema of the migrations; then what processes share (log, configuration).
What is left, most important first:

1. `ImportChain`: `FileImport`, `AttributeCalculation` and `EmbeddingRecreation` composed
   along the thread that `init_file_import` starts, with one abstract specification of an
   import (stored, tokenized, recalculated, embedded) that the composition implements. The
   three are modelled apart now, each with the others as external steps.
2. Payload updates of the neural search with their handler that catches another exception
   than the one raised (`controller/embedding/connector.py`), and the file upload of
   cognition (`minio_upload.py`), where a state is committed before its task is queued.
3. Theorems: the safety part of the refinement of 1. All safety properties of what is modelled
   now are proved.

Not planned are the components that `PROJECT.json` lists as not modelled: they change rows
in one transaction, build SQL text or pass a request on, and keep nothing between requests.
