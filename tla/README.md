# A verification of sim2l in TLA+

sim2l runs simulations (Python functions or notebooks with a typed schema of
inputs and outputs), keeps their results, and reuses a result when the same
simulation is asked for again with the same inputs. Around the library stand
three HTTP services: a *cache service* (which execution answers a key), a
*results service* (the inputs, outputs and inferred schemas of executions) and a
*catalog service* (which simulations exist, and running them). This directory
models what several threads, processes or installations share, and what the
program makes of the data it is given; it checks the models with TLC and proves
the central facts about them with TLAPS.

All line numbers refer to the files under `src/`. `PROJECT.json` gives, for every
definition that models code, the lines it stands for.

## 1. Inventory

| Component | State | Operations | Who it meets | What is hard |
|---|---|---|---|---|
| **NotebookExecutor** `executor/notebook.py`, capture in `api.py` | the process's `os.environ`, a lock, kernels, rows of outputs and executions | `execute`, `check_cache`, `save_outputs` in the kernel | other threads of the process; kernels it spawned; the two services | one environment for all threads, failing and hanging notebooks, kernels that outlive a crash |
| **Shared cache protocol** `executor/notebook.py:150-700`, `result/result.py:340`, clients | an installation's database, the entry of a key, the row of a result | lookup, load (locally, else from the results service), run, save, store, register | cache service, results service, other installations | lost, late and reordered calls, crashes, invalidation during a run |
| **LocalExecutor**, `SimulationRepository` | tables simulations, executions, cache, tags of one SQLite file | `deploy`, `delete`, `update_status`, `execute`, `save`, lookup | other clients of the file | ids that outlive what they named; transactions left open |
| **IsolatedFunctionExecutor** | a child process and its group, pipes, a temporary directory | start, communicate, timeout, kill, read, save, cache | the user's workflow and whatever it starts | process groups, pipes held by descendants, late outputs |
| **Cache service** `services/cache_service.py` | `cache_entries`, `cache_sessions`, access log, provenance log | get, set, invalidate, delete, clear, list, statistics, login | handler threads; SQLite or PostgreSQL | check and act in different transactions, two-statement get, expiry, pages that shift |
| **Results service** `services/results_service.py` | executions, simulation schemas, errors, the connection of each thread | `/register`, `/register_direct`, delete, search, parameter statistics, provenance | executors; run databases | read-merge-write of schemas, aborted transactions, two keys for a row |
| **Catalog service** `services/catalog_service.py` | simulations, execution registry, sync queue, sessions | register, update, delete, clear, search, run, record, sync, approve, login, refresh | executors, cache and results services | a run takes long and is recorded against what it read at its start; a simulation changed part by part |
| **Sessions** `database/session_manager.py`, `_common.py` | per process: a manager with its sessions and users; a password file; a table in two of the services; attempt buckets | login, get, refresh, expire, sweep | the other services, through the file; the SQL mirrors | an unsynchronised singleton, a file claimed by several, three copies of a session |
| **FileManager** `database/file_manager.py` | folders and files as cache entries that name each other | create, get, update, move, delete, list | cache clients | read-modify-write of a folder's list, partial failures, dicts shared with the local cache |
| **RunDatabase** and mixin `database/run_database.py` | one SQLite file per execution | initialise, status, inputs, outputs, five logs, tags | kernels and parent as two writers; `POST /register` as a reader | SQLite's locks; a failed call keeps its transaction and its locks |
| **Schemas** `schema/*` | the value in each field, shared by all results of a simulation | `validate`, `serialize`, `deserialize`, `set_values` | every executor and result | conversions, half-done assignments, the shared field |
| **Keys** `utils/hash.py`, `utils/squid.py` | none | `compute_cache_key`, `compute_squid_id` | every executor | what is rounded or flattened must not collide |
| **Definitions** `definition/*`, the catalog's bundles | local row, catalog row | parse, deploy, load, sync, register, update | repository and catalog | many spellings of one workflow, defaults, updates of parts |
| **Clients** `cache_client`, `results_client`, `catalog_client` | a URL and a token | one call per method | the services | errors and timeouts become misses and `False` |
| **Web interface** `web-ui` | pages it has read | reads the lists | the services | pages by offset |
| **CLI, MCP gateway, notebook magics, configuration, docker** | tokens, globals | translate calls | the services | none of their own |

### What makes each correct

* *NotebookExecutor*: outputs are filed under the run that produced them; the
  environment is given back; no run waits for it for ever.
* *Shared cache*: an answer carries the outputs of a completed, saved run of the
  key asked for, whatever services and network do.
* *Local store*: a hit belongs to the simulation and inputs asked for, although
  database ids come and go; access counters lose no update.
* *Isolated worker*: completed means succeeded in time; the worker is always
  reaped; `execute` returns.
* *Cache service*: a lookup finds the entry in force; counters are exact.
* *Results service*: outputs never land in the row of other inputs; a schema
  keeps what was registered; a failure leaves an error.
* *Catalog*: an execution is recorded for the version it ran; a version is
  registered once; a refused deletion takes no record.
* *Sessions*: a token that was handed out works until its expiry, and not after;
  all services agree on the administrator's password; the limiter limits.
* *FileManager*: a folder lists its children and nobody else's; a deletion is
  complete and takes nothing else.
* *RunDatabase*: what a call returned from is in the file; one transaction per
  call; nobody is blocked by a writer whose calls succeed.
* *Searches*: an answer below its limit is complete; both backends find the same.
* *Schemas and keys*: a value is read back as what was stored; an assignment is all
  or nothing; requests of one key are requests of equal inputs.
* *Definitions*: a simulation runs what was sent for it last.

`PROJECT.json` lists the hazards behind these, each at its line, and the
properties that would catch it.

## 2. Modules

| Module | Code | Role |
|---|---|---|
| `ExecutionEnv` | `executor/notebook.py` 40-160, 260-406, `api.py` | threads, environment, kernels |
| `RunAttribution` | none | what `ExecutionEnv` promises |
| `SharedCache` | `executor/notebook.py` as a client, services' transactions | installations and services |
| `ResultReuse` | none | what `SharedCache` promises |
| `LocalStore` | `executor/local.py`, `repository/sqlite.py`, `result/result.py` | one database, several clients |
| `CacheService` | `services/cache_service.py`, its SQL | handler threads, two backends |
| `CacheStore` | none | what `CacheService` promises |
| `ResultsService` | `services/results_service.py` | handler threads, two backends |
| `Catalog` | `services/catalog_service.py` | handler threads, two backends, one long operation |
| `IsolatedWorker` | `executor/isolated.py` | parent, worker, descendants |
| `LoginLimiter` | `services/_common.py` | the bucket of a client, as operators |
| `Sessions` | `database/session_manager.py`, logins and checks of the services | services, their threads, one file; extends `LoginLimiter` |
| `FileTree` | `database/file_manager.py`, `database/cache_client.py` | clients of one tree, remote or local |
| `RunRecord` | `database/run_database.py`, its mixin, `/register` | writers of one file and its reader |
| `Queries` | the searches, lists and statistics of the services, `catalog_client.search`, the cache page of the web interface | operators on tables that grow, and a sweep |
| `Schema` | `schema/*`, `result/outputs.py`, `result/result.py` | field types, and the three uses of a schema |
| `Requests` | `utils/hash.py`, `utils/squid.py`, `prepare_inputs` | keys of validated inputs; extends `Schema` |
| `Workflows` | `definition/*`, `repository/sqlite.py`, `database/catalog_client.py`, bundles of the catalog | a workflow from its author to a run |
| `Content` | none | a behaviour about a table, about a schema or about a workflow: composes `Queries`, `Requests` and `Workflows` |
| `NoValue` | none | the constants for what is not there |
| `*Proofs` | none | theorems about the modules they extend: `RunProofs` about `ExecutionEnv` and `RunRecord`, `ExecutorProofs` about `LocalStore` and `IsolatedWorker`, `CacheProofs` about `CacheService` and `FileTree`, the others about the module they are named for |
| `MC*` | none | instances for TLC |

`Queries`, `Requests` (with `Schema`) and `Workflows` are about data rather than
about processes. `Content` composes the three; `subject` chooses which of
them a behaviour is about, and the variables of the others stay idle.
Where two modules share a module of proofs, the definitions of one have names of
their own (`RecordSpec`, `WorkerSpec`, `TreeSpec`).

Operators called "mutant" in comments are plausible mistakes in the definition
that follows them; substituted for it, they make the named property fail. They
are not used by any specification.

How state and steps correspond:

* **`ExecutionEnv`.** `env` is `os.environ["SIM2L_EXECUTION_ID"]` (three keys are
  set and restored together), `lock` is `_EXECUTION_ENV_LOCK`; a thread walks
  through `pc`: create the id, take the lock, save and set, spawn, wait, restore,
  release, read the outputs, save the execution. A kernel carries the value it
  inherited and may call `save_outputs` at any time of its life, also as an
  orphan after `Crash`, which the parent's restart follows.
* **`SharedCache`.** One action per call of `execute`; each service transaction
  is atomic here because the services are modelled on their own. `Send` is a call
  as the client sees it: done, lost, or given up and carried out later
  (`CarryLate`), which includes reordering. Failed loads fall through to a run.
* **`LocalStore`.** `lock` is SQLite's one write lock when a repository
  connection keeps it beyond its call (`delete`, `update_status`: no rollback on
  the error path). `Save` writes the execution and its cache row in a transaction,
  as the code does; the second write of `_store_cache` is `Store`.
* **`CacheService`.** A request is received (session check, where that is a
  transaction of its own) and acted on later; `get` is two statements. `Tick`
  moves the clock that expiry is judged by.
* **`ResultsService`.** A registration is three transactions, any of which may be
  refused: `flaw` says which statements refuse the values of a request (a null
  name, a list where a text belongs, parameters that are no dict), and on SQLite a
  write may meet a lock. `conn` is what a thread's connection is left with: on
  PostgreSQL `aborted` until someone rolls back; on SQLite a transaction that has
  the write lock (`open`), has read nothing (`begun`), holds the latest snapshot
  (`reading`) or an older one (`stale`), in which no write succeeds any more. `load`
  says which executions clients register, with which flaws.
  `refused` is history: whether a request has ended with its last write refused.
* **`Catalog`.** `/run` is load, execute, record, mirror; the others are single
  transactions except `approve_sync`, which is two, and the deletions on
  PostgreSQL, whose statements see what others commit between them
  (`BeginDelete`, then `FinishDelete` or `RefuseDelete`). `conn` is as in
  `ResultsService`. A server with and one without authentication differ in
  `Recover` only, which the former never takes: the model contains both. The
  transaction that a SQLite connection keeps when a PATCH holds a value that
  the driver cannot bind is left out.
* **`IsolatedWorker`.** The parent's steps, the worker's steps, and each
  descendant's; `procs` says who holds the pipes and who is in the group.
* **`Sessions`.** `deployment` says which services there are, which threads each
  has, how many attempts its limiters let through, and how often processes
  crash. `manager[s]` is the module's global `_session_manager`, `memory` the
  `_sessions` of the managers, `row` the tables
  of catalog and cache (the results service has none), `file` the password file:
  absent, created and still empty, or written. A thread that finds no manager
  builds one in the order of the code, `resolve`, `claim`, `write`, `install`, and
  goes on with the one it built, whichever is installed by then. A login is then
  `authenticate` and `mirror`; the mirror may fail. `opened[t]` is when the
  transaction of a PostgreSQL connection began, which is what `CURRENT_TIMESTAMP`
  means to it. A login reads the clock (`ReadClock`) before it has the limiter's
  lock (`LoginAllowed`, `LoginThrottled`), so a bucket need not be sorted. `issued`,
  `tries` (when each attempt read the clock and when it was let through) and
  `overdue` (what was served too late, and when the transaction that did so began)
  are history.
* **`FileTree`.** Nothing here is a transaction: `agenda[c]` are the cache calls
  that client `c` has still to make, `draft[c]` the folder or file it has read and
  changed and is about to set (`DoSave`), and `frames[c]` the calls of `delete_file`
  it is in, each with the loop over its children: a turn of it (`DoTurn`) deletes
  the next child, or, after the last, takes the entry out of its parent's list and
  drops it. In `remote` mode a get returns a copy and any call may fail, which no
  caller notices; in `local` mode there is one client and what is done to a dict is
  done to the cache, the list that a loop walks over included. `clean` is lost when
  a call fails or two overlapping operations touch one entry; `doomed[c]` is what the
  recursive delete of `c` has to take with it: what was below the folder when it
  began, unless another operation has touched some of that meanwhile; `placed` is
  where every entry was ever to be.
* **`RunRecord`.** `conn[w]` is a connection: whether it is in a transaction,
  which of SQLite's locks it has, and the contents as its transaction has changed
  them. `agenda[w]` are the statements and commits its call has still to make.
  A statement may be refused, or time out on another's lock; a commit may time out
  on a reader; a process may end at any point. The results service reads the file
  twice, once for the parameters (`IntrospectRun`), once for the summary.
* **`Queries`.** `rows` is one table in the order of its rowids, growing and
  changing; a search is an operator from the table to the *set* of answers the
  backend may give, since rows of one time have no promised order. The sweep of
  the cache page does have a state: a call is two statements, the total
  (`CountEntries`) and the page (`ReadPage`), and ends when the pages cover the
  total.
* **`Schema`, `Requests`.** A value is a record of one part that says what it is;
  `Validate`, `Serialize`, `Deserialize` are functions of field and value, or
  refuse: an element is reduced to its symbol, which need not be among the choices
  its name was (`ElementOf`), a quantity in an offset unit is not multiplied from a
  number (`OffsetUnits`), an image is written as PNG if its mode allows
  (`PNGImages`).
  `SetField` and `SetValues` assign, `Run` and `ReadOutput` make results and read
  them through the shared fields, `Request` validates inputs and makes both keys.
* **`Workflows`.** `local` is the simulation in the local repository, `record` its
  row in the catalog; `Register` and `Update` take a payload apart as
  `_normalize_workflow_bundle` and the routes do. `sent` is history: what the last
  accepted call asked to run.

## 3. Runs

| Run | Instance | Shows |
|---|---|---|
| `notebook_env` | 2 threads, 3 runs, environment set or not by a caller | attribution, restoration, refinement of `RunAttribution`, no run stuck |
| `shared_cache` | 2 installations (1 registers), 2 keys, 3 executions, 1 late call | what is published is saved; refinement of `ResultReuse` |
| `cache_service` | both backends, 2 threads, 2 keys, 2 executions, 1 session, 3 instants | refinement of `CacheStore`; counters |
| `local_store` | 2 clients, 2 simulations (1 tagged), 2 deployments, 2 executions | hits belong; accesses counted |
| `results` | both backends, both routes, 2 threads, 1 parameter, 2 types; 3 executions on 2 inputs with values nothing refuses, or 1 with every kind of value that a statement refuses | outputs of their inputs, one row per squid id, schemas merged; no result without a schema, errors on file, no transaction left open |
| `catalog` | both backends, 2 threads, 2 versions, 2 executions, 2 requests for one version, 3 ids | rows of their own version; one simulation per version; records kept |
| `worker` | 3 descendants, saves and caches | verdict, reaping, survivors, return |
| `sessions` | 2 services of 1 thread each, with a window of 1 attempt and at most 1 crash, or 1 service of 2 threads with 2 attempts; 2 managers, 2 tokens, 3 instants, sessions and windows of 1 | one password; tokens until their expiry and not after; the limiter |
| `file_tree` | 2 clients of the service or 1 of a local cache, 3 supplied ids and 1 generated, 4 operations, depth 3 | lists and parents agree; what a deletion takes and what it leaves |
| `run_record` | 2 writers, 4 calls, 2 parameter names, 1 tag, all five logs | what returned is saved; one transaction per call; who holds locks |
| `content` | tables: 3 rows of 2 names, limits 0 to 2, pages of 1 or 2; schemas: one field of every type beside a second one, 2 requests; workflows: 4 notebooks, 2 sources, 2 catalog calls | answers complete; sweep; assignments; what is read back; keys; what runs |
| `saved_outputs` | the schema part of `content`, used for outputs only | **violated**: see 6.1 |

### Bounds, and why they are enough

Every property relates at most two actors and the object they contend for, so two
threads, clients or installations let every pair of steps interleave; a third
actor would repeat what one of the two can already do after its first call. Three
runs in `notebook_env` let one thread run twice while the other waits, and a run
follow a crash. Three executions in `shared_cache` are a run, a second run of its
key, and a run of another key. `MaxLate = 1`: one given-up call can be overtaken
by any number of others, which is what reordering is. `MaxDeploys = 2` and
`MaxId = 3` let an id be freed and the same name be registered again, and once
more by an approval. `MaxNow = 3` with a session life of 2 and entries that live 1
puts expiry between any two steps. `MaxHits` and `MaxSets` bound counters whose
properties compare them with each other. Three descendants: one that outlives the
worker's group, one in it, and one forked late.

`results`: `Loads` divides the questions. Three executions on two inputs are what an
upsert can confuse; one is enough for a registration to fail in every way, its own
duplicate included, while the other thread holds a lock or commits. `sessions`: the
`Deployments` are two services of one thread each, and one service of two threads,
of the kinds and backends at which a property could differ; two attempts are what a
late one can follow, so the two threads of one limiter have as many. `Managers`
bounds the managers ever built, and two are what a race or a restart needs. A life
of 1 in 3 instants lets a session be made, expire, and be presented again, and a
window of 1 lets a bucket fill, go stale and fill again. `file_tree`: three usable
ids make a chain of folder, folder, file with the root above them, or two folders
and a file moved between them; four operations build one and change it with two at a
time (`MaxOps`); `MaxDepth` stops the recursion that a cycle would start (section 6,
*FileManager*). `run_record`: two calls per writer let one fail and the next go on
in its transaction; the tables of the log differ only in their statements.
`content`: `MaxScan = 2` with three rows puts a matching row beyond the cap, three
rows with pages of one or two let one shift; floats are counted in sixths (`One =
6`) and keys rounded to thirds (`Grid`), so that two numbers share a key; a field of
each type is given values of every type, among them a fraction below zero, NaN, and
quantities in two units, in an offset unit and in one that cannot be converted,
elements whose choices are names or symbols, and images of modes PNG has and has
not; two calls of the catalog are a registration and a change.

`CHECK_DEADLOCK FALSE` is stated where such a bound, or the end of the one call that
is modelled, ends a behaviour. `catalog`, `run_record`, `sessions` and
`shared_cache` are checked for deadlock. The theorems of section 4 hold without
these bounds.

### Fairness

* `ExecutionEnv`: weak fairness of each thread's `Progress`, that is everything
  but starting a new run. A thread that has started `execute` is scheduled, and a
  notebook ends because both timeouts are set (cell and whole notebook). Nothing
  is assumed of kernels or crashes. The number of runs is finite, so a lock that
  serves its waiters in any order starves none in the end.
* `IsolatedWorker`: weak fairness of the parent's next step, including its timer.
  Nothing is assumed of the workflow, which may hang, fork, or keep the pipes; the
  property says what then happens.
* Everything else is safety and is checked and proved without fairness.

## 4. What is proved

| Theorem | Property | Inductive invariant |
|---|---|---|
| `RunProofs!OutputsWellFiled`, `EnvironmentRestored` | `OutputsFiledUnderOwnRun`, `EnvironmentGivenBack` | who is between acquire and release holds the lock (`LockInv`); the environment is `outer`, or the holder's id with `previous = outer` (`EnvInv`); kernels and rows carry their own id (`FiledInv`) |
| `RunProofs!Refinement` | `ImplementsAttribution` | adds that an execution's row is that of a finished run (`RecordInv`) |
| `RunProofs!WaitersAreServed` | the safety half of `NoRunStuck` | the same; the lock's holder is between acquire and release, where nothing waits |
| `SharedCacheProofs!Published` | `PublishedRunsAreSaved` | what an installation holds between run and register is its own saved run (`HeldInv`); unborn executions appear nowhere (`FreshInv`) |
| `SharedCacheProofs!Refinement` | `ImplementsReuse` | the set of completed and saved runs of a key only grows (`Grow`) |
| `CacheProofs!Refinement` | `ImplementsCacheStore` | only a get is ever between two statements (`RequestInv`); on SQLite there is one such reader, on PostgreSQL one per key, and the entry it has counted cannot go while its row is locked (`ReaderInv`) |
| `CacheProofs!CountsAreExact` | `CountersExact` | the same |
| `ExecutorProofs!HitsAreOwn` | `HitsBelong` | a database id never stands for two names, in tables or in running calls (`OneNamePerId`), and cache rows name saved executions (`CacheInv`) |
| `ExecutorProofs!CountExact` | `AccessesCounted` | the same |
| `ResultsServiceProofs!OutputsOfOwnInputs`, `SquidsUnique`, `SchemasOnFile`, `MergesKeep`, `ErrorsOnFile`, `NothingLeftOpen` | `OutputsMatchInputs`, `OneRowPerSquid`, `RowsHaveSchema`, `UnracedMergeKeeps`, `FailuresRecorded`, `IdleBetweenRequests` | no request and no row holds the squid id of other inputs, which is why a row found by squid id may take the outputs (`SquidOfInputs`); one that is about to write its result has left a schema (`SchemaSeen`); on SQLite, until a request has ended with its last write refused, a connection is in a transaction only while its registration is on its way to recording an error (`Tidy`) |
| `CatalogProofs!RegistryFaithful` | `ExecutionsOfTheirVersion` | ids are below the sequence (`Assigned`), so an id is not reused while a run holds it (`Knows`); cache entries are of their version (`CacheInv`) |
| `CatalogProofs!VersionsUnique` | `OneSimulationPerVersion` | the same |
| `CatalogProofs!RecordsStay` | `RecordsKept` | the rows a deletion has locked stay those of its simulations, and no other deletion's (`Locks`) |
| `ExecutorProofs!Completion`, `NoWorkerLeft`, `Survivors` | `CompletedMeansSucceeded`, `WorkerGone`, `SurvivorsHadOwnExit` | what each parent step knows of the worker (`Lifecycle`) and of the result (`Verdict`) |
| `ExecutorProofs!OnlyPipesHold` | the safety half of `ReturnsUnlessHeld` | `Lifecycle`: the second `communicate` comes after the worker has exited |
| `SessionsProofs!CredentialShared` | `SharedCredential` | the password file has at most one writer, while it is empty, and it is not empty again (`WriterInv`) |
| `SessionsProofs!TokensAccepted` | `IssuedTokensAccepted` | a manager that has been drawn is not drawn again (`ManagerInv`), a token neither (`TokenInv`); a row holds exactly the expiry that was told (`RowInv`), the memory of a manager at least it (`MemoryInv`) |
| `SessionsProofs!ExpiredAreRefused`, `ExpiredStay` | `ExpiredRefused`, `ExpiredStaysExpired` | a transaction began no later than now (`OpenedInv`); what was accepted too late was accepted in one of the catalog on PostgreSQL, begun before the token expired (`OverdueInv`) |
| `SessionsProofs!LimiterWorks` | `LimiterHolds` | the bucket is the end of the sequence of all attempts let through, in the order they took the lock; each it has dropped is stale or was followed by one that is (`LimiterInv`) |
| `CacheProofs!TreeConsistentHolds` | `TreeConsistent` | parent ids agree with the lists as they will be once every draft is set (`ListOf`), but for the entry the next call of a client is to link, reparent or drop (`ListInv`); what is left on an agenda is the rest of one operation (`CallsInv`), on entries no other client at work touches (`DisjointInv`) |
| `CacheProofs!RemoteDeleteLeavesGeneratedHolds` | `RemoteDeleteLeavesGenerated` | until the entry asked for goes, what is doomed is closed under children and below it (`DoomInv`), and a child of an entry with a frame has its turn to come or is being deleted (`FrameInv`); doomed entries with generated ids stay (`KeptInv`), and so does what is below them (`ClosedInv`) |
| `CacheProofs!DeletesOnlySubtreeHolds` | `DeletesOnlySubtree` | while `clean`: each frame is for a child of the next, the outermost for the entry asked for (`FrameInv`); always: every link in an entry, a draft, an agenda or a frame is one that was once placed (`PutInv`) |
| `RunProofs!AckedAreSaved` | `AckedSaved` | a call's statements end in a commit (`Ordered`); the contents a connection has changed differ from the file's only by what it was asked to write, and only the owner of SQLite's write lock changes them (`ImageInv`, `OneWriter`) |
| `RunProofs!OnlyFailuresLock` | `LocksOfFailuresOnly` | a connection between calls is in a transaction only if a call of it failed |
| `RunProofs!EndsStand` | `RegisteredEndStands` | what the reader took for the end of a run was in the file, and no call takes it back |
| `ContentProofs!AnswersAreComplete` | `AnswersComplete` | rows have ids of their own and none is from the future (`TablesInv`); whatever the table, the first rows in an order leave out none that comes before one of them (`TopsComplete`); each search but one beyond the scan cap is made of such a choice and of filters, that by tags coming after the choice |
| `ContentProofs!BackendsAgree` | both backends find the same | each answer is complete for the same rows (`SearchesAreComplete`), so one that is short of the limit is all of them (`ShortAnswersAgree`) |
| `ContentProofs!SweepsFindAll` | `SweepFindsUntouched` | what stands before an entry nobody touched only grows while a client reads, so an entry the pages have reached is one they have shown; once they cover the total, they have reached all but as many as joined the list after it was counted (`SweepInv`) |
| `ContentProofs!SentIsRun` | `RunsWhatWasSent` | the row of the catalog is, in whatever form it was sent, the workflow asked for (`WorkflowInv`) |
| `ContentProofs!FieldsReadBack` | `ReadBack` | a field holds nothing, a value that it takes as it is, or an element that is a choice by its name only (`SchemaInv`): what any of the nine types makes of any other value it leaves alone (`Settles`); what is written is read as itself, or raises, and raises for three causes only (`ReadAsWritten`); the stored form keeps all a type validates with (`LoadedKeeps`) |
| `ContentProofs!SettingIsAllOrNothing` | `SetAllOrNothing` | the same: where choices of elements include their symbols, the second validation of `set_values` refuses nothing that the first let through |
| `ContentProofs!KeysAreSeparate` | `KeysSeparate` | requests hold values of one kind each that JSON can write (`RequestsInv`, `PlainForms`); rounding keeps the kind and moves no float by the width of the grid (`CanonicalClose`); the squid id of inputs without line breaks consists of one line for each (`SquidLines`) |
| `TypesHold` of `RunProofs`, `SharedCacheProofs`, `CacheProofs`, `ExecutorProofs`, `ResultsServiceProofs`, `CatalogProofs`, `SessionsProofs`; `RecordTypesHold`, `WorkerTypesHold`, `TreeTypesHold` | `TypeOK`, `RecordTypeOK`, `WorkerTypeOK`, `TreeTypeOK` | part of each of them |

The invariants are not inductive alone. That outputs are filed under their own run,
for example, says nothing of the kernel that is about to file; one has to know that
it inherited its own id, hence what the environment holds while it is spawned, hence
who holds the lock. That the limiter holds, in windows shorter than the configured
one by what an attempt waited for the lock, says nothing of what pruning or a sweep
may drop from a bucket that is not sorted; one has to know that the bucket still
ends as the history does, and that whatever it has dropped was stale or followed by
an attempt that was. That a field is read back says nothing of a value that is
assigned twice; one has to know that the field would take it again. That lists and
parents agree when a `FileManager` is at rest says nothing of a move half done; one
has to know which entry its next call is about, and that a folder that has been read
and is about to be set is one nobody else writes. That keys separate requests says
nothing of how inputs came to be what they are; one has to know that each was
validated or is a default, and can be written. `TreeInv` (`clean => Good`) was first
checked with TLC, for three ids and six operations, before it was proved.

Assumed are only the ASSUMEs of the modules: that names used for "none" are none of
the names (or records) they stand beside, that numeric bounds are naturals, times to
live naturals or `Never`, that backends, modes and the flaws of values are those the
code knows, and that the maps given as constants are maps. `Queries` assumes that
its parameter values are numbers or one other, `Workflows` that types and entry
points have the spellings the code tests for, `Schema` that what a field is declared
with and given is a value of Python's as it models them, and that `str` writes a
text; `Requests` that the grid of the rounding is positive, that an array without
dimensions is one number, and that `str` writes two plain values that JSON can write
and that are no texts differently (which says nothing of texts: those are the
property's subject). No set of threads, runs, keys, clients, executions, services or
processes is assumed to be finite or non-empty, but the parameter names of a
`RunRecord`, which a call writes one after the other. The bounds in the guards
(`MaxLate`, `MaxDeploys`, `MaxHits`, `MaxId`, `MaxNow`, `MaxExpiry`, `MaxEntries`,
`MaxRuns`, `MaxCalls`, `MaxOps`), and the recursion limit `MaxDepth` of `FileTree`,
are arbitrary naturals.

Only model-checked are both liveness properties (`NoRunStuck`, `ReturnsUnlessHeld`),
which depend on fairness and ENABLED and are out of the prover's reach. What they rest
on beside fairness is proved: runs wait for the lock only and for one that can go on,
never in a circle (`WaitersAreServed`), nothing but pipes held by descendants keeps the
parent (`OnlyPipesHold`), and the steps left to either only decrease. Every other
property of a passing run is a theorem.

## 5. Abstractions

* Keys, squid ids and executions are model values: equal exactly when simulation,
  version and inputs are, and, for executions, never equal (uuid4). `Requests`
  models what keys are really made of, and when two are equal.
* A statement of SQL is atomic; a transaction is where the code makes it one.
* A write that finds SQLite locked by a request under way waits for it: the busy
  timeout of 5 seconds is taken to outlast what a request does between its first
  write and its commit. A lock that is kept between requests outlasts the timeout.
* `ResultsService` has one version of one simulation. Of the provenance table it
  keeps what its statements do to the connection, not its rows.
* Payloads (inputs, outputs, metadata) are abstracted to whose they are.
* Sessions are modelled in `Sessions`, and in `CacheService` where the check and
  the act are apart; elsewhere a request is one that passed its check. In
  `Sessions` the password comes from the file: neither `SIM2L_ADMIN_PASSWORD` nor
  development mode is set. There is one user, the administrator.
* `Requests`: a digest is what it is made of. The text of a squid id is the sequence
  of its lines, each a name and what follows it: a name holds no space (one that
  does can be taken for a shorter name and a value). `LinesOf` gives the lines of a
  text that has line breaks. The name and version of the simulation, two more lines
  that follow, are fixed. Nested lists are `list` with what is left of the
  dimensions (`nesting`), as `tolist` writes them.
* `Schema`: arrays hold floats; `required_if`, labels and other metadata are left
  out; units are of one dimension or none. What papers over types in Python
  (numpy scalars, pandas) is not there.
* `Workflows`: contents of files, schemas and sources are model values; the archive
  of a docker context is its list of files.
* `FileTree`: contents and permissions of files are left out; an id is either one
  that `_validate_id` accepts (`Usable`) or one that `_generate_id` makes.
* `IsolatedWorker` is the POSIX branch.
* The notebook formats, papermill, Flask, requests and the databases are external
  and modelled by what the code relies on.

## 6. Disagreements between the code and its documentation

With a run that shows it:

1. `saved_outputs` (`result/result.py:138`). `save` prefers the value in the output
   field to the value the run returned, and reading an output of an earlier result
   (`result/outputs.py:61`) puts that value into the same field. After
   `first.outputs.y` is read, the next run of the definition is saved with the
   first one's `y`, and a cached request returns it
   (`tests/test_simulation_workflow_end_to_end.py:392`: results should be identical).

Seen while modelling, without a run of their own. The models contain the behaviour;
the properties are stated around it, and where one is about it, it is named.

*Executors and local results*

* After a second registered run of a key the cache service names the new execution
  and the results service still the first (`results_service.py:375`); the hit cannot
  be loaded elsewhere, though `load_result_with_fallback` says that is what it is for.
* `save` caches failed runs (`result/result.py:165`).
* If the worker has exited, the timeout kills nobody, and the second `communicate`
  waits without a limit for the descendant that holds the pipes
  (`executor/isolated.py:386`).
* Two threads that read outputs of two results race on the field they share.
* `docs/sim2l_architecture.md:507` calls `access_count` the number of hits; the
  save counts as one.
* `sim.run(**inputs, executor=...)` cannot pass an input that is named `executor`.

*Results service*

* Concurrent direct registrations lose or retype parameters although "existing
  keys keep their type" (`results_service.py:1350`).
* A PostgreSQL connection whose statement was refused stays aborted: the error of
  that registration is not recorded, and the thread is of no use until a failing
  `DELETE /results` rolls it back. The catalog has the same shape.
* A null `simulation_name` passes the check for missing fields
  (`results_service.py:1311`). `register_schema` is refused in its open write
  transaction, `record_error` inserts the same null and is refused too (line 1412), and
  nothing rolls back: the connection of that thread keeps SQLite's write lock, and the
  writes of the other threads, their error records included, end in "database is
  locked", which connections for each thread are there to avoid (lines 138-140). A
  transaction that has only read keeps its snapshot, and when others have committed
  since, no write of that thread succeeds until something ends it. These are the
  exceptions of `FailuresRecorded` and `IdleBetweenRequests`.
* `POST /register` iterates the dictionary that `RunDatabase.get_inputs` returns as
  if it were a list (`results_service.py:1065-1128`): it fails for every run with
  parameters, contrary to `docs/services/results_service.rst:24`. A run that saves
  them between the two readings is registered as completed and empty.
* A limit of 0 returns a row when filters are given (`results_service.py:519`). An
  absent parameter compared with an unknown operator matches on SQLite and never on
  PostgreSQL; the pattern for numbers there admits texts such as "-" or "1.2.3", on
  which the statistics then fail.
* The results page of the web interface counts an offset (`Results.tsx:131`) that
  the service does not take.

*Cache service*

* A page by page reading misses entries when others are removed, or no longer have
  the status asked for, in between; on SQLite with a status filter, ties in the
  second of `created_at` can do it as well. The total is counted before the page is
  read (`cache_service.py:461`, `841`): entries that join the list between the two
  push as many off the last page, and the page of the web interface, which goes by
  the total, does not ask for them.

*Catalog*

* A run whose simulation is deleted leaves the database's write lock with an idle
  thread (`catalog_service.py:1090`).
* `approve_sync` does not ask whether a request is pending; an approved one can be
  marked `failed` later. A simulation that cannot be loaded is sent to the catalog
  without schemas, and refused.
* `/run` records a cache hit under the original execution with `cache_hit` false;
  keys do not depend on code, so a version that is deleted and registered again, or
  updated, is answered with results of its old code.
* An update of `workflow_entrypoint` alone erases the stored bundle
  (`catalog_service.py:911`), one with files and no type makes it a notebook, and
  `workflow_hash` is not made anew. Registration does not ask whether the entry
  point is among the files. The hash of a bundle joins paths and contents without
  their lengths.
* Tags are filtered after the LIMIT (`catalog_service.py:754`), so a search can
  answer with less than there is.
* `CatalogClient.search(status="all")` sends no status (`catalog_client.py:172`), for
  which the route assumes "active" (`catalog_service.py:2135`), although line 157
  documents "all": an exception of `AnswersComplete`.
* The local client's search for "all" matches nothing, and its `get_simulation` calls
  a method that the repository does not have (`catalog_client.py:725`).

*Sessions*

* A service that reads the password file between its creation and its writing, or
  after a crash in between, keeps a password of its own, although "all services end
  up agreeing on a single credential" (`session_manager.py:58-63`).
* Of two managers built by two first logins one overwrites the other, with the
  session that the other has made.
* `CURRENT_TIMESTAMP` of a PostgreSQL connection that kept its transaction is when
  that began; the catalog accepts, and may revive, a session that has expired since.
* `LoginRateLimiter` says that each call is recorded; refused attempts are not.
* `allow` reads the clock before it waits for the lock (`_common.py:85-88`). A late
  attempt of an earlier time can be the last of its bucket, by which alone
  `_maybe_sweep` (line 117) judges it: the bucket goes, with attempts that are not
  stale, and more than `max_attempts` are let through in a window ("5 attempts / 60s",
  line 46). `LimiterHolds` says how short the window can get.

*FileManager*

* `_VALID_ID_RE` (`file_manager.py:22`, groups of 6, 4 and 6 digits) rejects the ids
  that `_generate_id` makes (6, 4 and 4), contrary to its comment; the folder
  operations of `docs/file_management.rst` work only with ids the caller supplies. A
  recursive delete leaves every child with a generated id, which is the default, and
  removes its folder (`docs/file_management.rst:159`: "and all contents"); that it
  leaves nothing else is `RemoteDeleteLeavesGenerated`.
* With the local client a recursive deletion walks over the list it shortens and
  skips every second child (`docs/file_management.rst:159`: "and all contents"), and
  `list_folder` replaces the stored ids by dicts.
* `move_file` does not ask whether the folder is moved below itself; the recursive
  deletion of such a cycle ends in a RecursionError.
* `get_artifacts` and `get_metrics`, which `docs/database_services.rst:81-84` and
  `FileManager.get_run_files` call, do not exist; the latter always answers with an
  empty list.

*RunDatabase*

* No call rolls back: two writers each of which failed once can keep each other from
  writing until one of them closes.
* `error_count` of `run_summary` counts every error once for each combination of
  input, output and artifact (`run_db_schema.sql:190`).

*Schemas and keys*

* `_FLOAT_PRECISION` is said to be significant digits (`utils/hash.py:14`) and
  rounds decimal places: 1e-10 and 2e-10 share a key.
* Squid ids of different inputs are the same when a text spells a number in a
  number field without units, or as the default of a field of another type, which
  nothing validates, or contains the line break that separates inputs.
* A number field without units returns texts as they are, and compares the
  magnitude of a quantity of whatever unit with its bounds. Inputs of type Element
  or Image make `compute_squid_id` raise.
* `Element` compares what it is given with its choices and keeps the symbol
  (`schema/types.py:388-401`): with `choices=["Silicon"]`, "Silicon" is accepted, and
  then refused when the field validates it again, half-way through `set_values`.
* A quantity in an offset unit such as degC is accepted, and its stored form makes
  `deserialize` raise (`schema/types.py:134-138`); an image of a mode PNG does not
  have is accepted and cannot be written (`schema/types.py:343-344`).
* Defaults are not validated: `set_values` with an invalid one assigns some of the
  fields and then raises; a list as default of an array, or a text as that of an
  element or image, cannot be serialised; the default of an image does not survive
  the stored form of a schema.

## 7. Plan

Done: the processes (`ExecutionEnv`, `SharedCache`, `CacheService`, `LocalStore`,
`ResultsService`, `Catalog`, `IsolatedWorker`, `Sessions`, `FileTree`, `RunRecord`),
the data (`Queries`, `Schema`, `Requests`, `Workflows`), and proofs about all of
them.

Left, in this order:

1. Users other than the administrator, anonymous sessions, and the passwords of
   the environment and of development mode, in `Sessions`.
2. A refinement of the searches: both backends against one specification of an
   answer, which `AnswersComplete` states as a property and `BackendsAgree` as a
   theorem today, for answers short of their limit.

Not modelled, and why: configuration is read once and its values are constants
here; the command line starts and stops services; the MCP gateway translates calls
and keeps only a token; the notebook magics parse cells into globals; the containers
are deployment. Statistics of one simulation, listings of the local store and the
remaining methods of the clients read and display. Rendering of notebooks, papermill
and the digests themselves are libraries.

## 8. Running it

    tlc -workers 2 -config MCExecutionEnv.cfg MCExecutionEnv.tla
    tlapm RunProofs.tla

With two workers `content`, `sessions` and `cache_service` take one and a half to two
and a half minutes, `results` and `run_record` about one, the others up to forty
seconds. From nothing
the proofs take a minute or two a module, `ContentProofs` five to six and
`CacheProofs` about ten.
