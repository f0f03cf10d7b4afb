# DINAS, a TLA+ development

DINAS is a Flask server with a database (SQLite by default) that discovers the
devices of a network, collects telemetry about them, looks for anomalies and draws
a topology, and a small agent program that does the pinging on other machines and
pushes what it finds.  This directory holds TLA+ models of the parts of it that run
concurrently or fail in pieces, the TLC configurations that check them, and proofs
for TLAPS.  `PROJECT.json` is the index: components, runs, the faulty variant that
shows each property can fail, the source lines of every definition, the hazards.

Paths below are relative to `src/backend/app` unless they begin with `src/`.

## 1. The system

| Part | State | Operations | Shares state with |
|---|---|---|---|
| Task registry `tasks/manager.py`, `api/tasks.py` | `_tasks`: id -> dict, guarded by `_lock`; one daemon thread per submission | submit (discovery, telemetry, anomaly), record outcome, cleanup, get, list | scheduler and API handlers submit; every body opens its own database session |
| Scheduler `tasks/scheduler.py` | APScheduler jobs, `_running` | start, shutdown, telemetry every 5 min, anomalies every 10 min, health every minute, cleanup every 30 min | task registry, agents table |
| Agents table `api/agents.py`, `repositories/agent_repo.py` | `agents` rows: name, type, status, last_heartbeat | register, heartbeat, telemetry, list, get; health check | agent programs, telemetry ingest |
| Agent program `src/agent` | `agent_id`, two threads | register, re-register on 404, heartbeat loop, collect loop | the server, over HTTP |
| Discovery jobs `api/discovery.py`, `services/discovery_service.py`, `repositories/scan_job_repo.py` | `scan_jobs` rows | create (async or sync), run, complete, fail | task registry, engine, normalizer |
| Normalizer `services/normalizer.py`, `repositories/observation_repo.py`, `device_repo.py` | `observations`, `devices`, `services`, `interfaces` | store each result of a scan, skip it on an exception | devices are shared with everything below |
| Discovery engine `discovery/` | provider list | discover_host, discover_network | nmap, ping and arp subprocesses |
| Telemetry ingest `services/telemetry_ingest.py` | `metrics`, `devices` | store an agent's results | agents table, devices |
| Telemetry collector `telemetry/collector.py` | `metrics`, `devices.status` | ping one device, ping all | devices; the task registry runs it |
| Detectors `anomaly/detectors.py`, anomaly records `repositories/anomaly_repo.py`, `api/anomalies.py` | `anomalies` | z-score and threshold check, store, change status | metrics |
| Topology `topology/` | `topology_nodes`, `topology_edges` | build, discover, read | devices |
| Classifier `services/classifier.py` | none | classify | the nmap provider calls it |
| Dashboard `src/frontend/static` | none | polls the API | - |

### What is hard

* **Threads over one dictionary.**  A task's dict is replaced, not updated, when its
  id is submitted again, while readers hold the old dict and the thread of the older
  submission still runs; the outcome is three assignments; readers look without the
  lock.
* **Read, then write.**  Every handler reads committed rows, works on objects, and
  its commit writes only the columns it changed.  Between the two anyone may commit:
  another registration of the same agent, the health check, a second discovery job.
  Few tables have a uniqueness constraint, and the one on devices ignores NULLs.
* **A client that gives up.**  The agent's requests time out while the server goes
  on with them; its two threads share `agent_id`; a failed registration ends the
  process or, in the heartbeat thread, only the thread.
* **Partial failure.**  One result of a scan takes six commits or more; each may raise
  and leave the session unusable until a rollback; who catches it decides which of
  the job row, the task record and the HTTP answer tell the truth.  A failed flush
  rolls back and expires what was loaded, a failed COMMIT does neither.
* **What a session remembers.**  An object stays as it was loaded until a commit of the
  same session, through any number of queries that find it again.
* **Crash.**  Task records are in memory and job rows are not.
* **Numbers.**  The window of the z-score is newest first, and a slice is taken from
  one end of it; at the edge of a threshold the last digit of a float decides.

### What makes each part correct

* Task registry: an outcome is reported for the task that had it, is never lost
  while the record is there, never goes back to running; a reader without the lock
  sees no contradiction; cleanup takes only what has finished (it does not).
* Agents: an agent uses only an id given out under its own name; duplicates of a
  name are bounded by overlap; a 404 is told only to the forgotten; a forgotten agent
  comes back; stale rows of living agents recover and rows nobody uses go stale.
* Discovery: the row moves pending, running, final and never back; the counts bound
  the rows stored; task record, answer and row do not contradict each other; no result
  is lost without a fault or a competitor for its device or its service; every accepted
  job ends.
* Detector: what is flagged deserves it; what deserves it is flagged (it is not).
* Collector and ingest: status follows the last report, whoever made it, and the newest
  availability metric and the status tell the same, unless reports overlap or metrics
  are dated by an agent; a pass that ends well has told about every device it set out
  to (it has not when certain COMMITs fail); one device for one address.
* Anomalies: a run stores what the detectors find in the metrics, once, whatever else
  runs; what it tells agrees with what it stored; crossing status updates leave no
  closed anomaly without a time, and answer each client with what stands.
* Topology: concurrent builds and discoveries duplicate no more than a row each, one
  edge per pair, type and direction is kept, nothing found is lost or made less
  certain, and no edge is drawn without evidence for its two devices.

## 2. The modules

| Module | Models |
|---|---|
| `TaskManager` | task registry and its readers |
| `TaskManagerProofs` | its inductive invariant, and the theorems |
| `AgentRegistry` | the agents table, its handlers as read and write steps, the health check, for arbitrary clients |
| `AgentRegistryProofs` | theorems about the table, for arbitrary clients |
| `DinasAgent` | extends `AgentRegistry`: the real client, its processes and threads |
| `DinasAgentProofs` | its inductive invariant; that it implements `AgentRegistry`, and what follows |
| `JobLifecycle` | abstract: the life of one job row, as an API client may rely on it |
| `DiscoveryJob` | request, task or synchronous call, orchestrator, engine, normalizer; each row implements `JobLifecycle` |
| `DiscoveryJobProofs` | its inductive invariant, the theorems, the refinement |
| `Telemetry` | collector passes, single collections and agents' reports writing one devices table |
| `TelemetryProofs` | its inductive invariant and the theorems |
| `Anomaly` | runs of both detectors, as tasks and as requests, and the status updates of what they store |
| `AnomalyProofs` | its inductive invariant and the theorems |
| `TopologyGraph` | abstract: a graph over devices that only grows, in links and in certainty |
| `Topology` | builds and discoveries with their providers and sessions; together they implement `TopologyGraph` |
| `TopologyProofs` | its inductive invariant, the theorems, the refinement |
| `ZScore` | the statistical detector over the recorded values |
| `ZScoreProofs` | its theorems |
| `MC*` | the instances TLC checks |

A definition whose comment begins "Faulty:" is a plausible bug of the code, defined
next to the definition it would replace; it is not part of the model.  Putting it in
that definition's place makes the property it is listed with fail (`PROJECT.json`,
"mutants").

### TaskManager

Submission number r stands for the dict it created, its thread and its start time
(submissions are ordered by the lock).  `tasks` is `_tasks`, `rec[r]` the dict,
`pc[r]` where the thread is, `reader` one API request.  `RecordStart` is
`_record_start` under the lock; `ThreadStart` and `ThreadRefused` are
`thread.start()`, which happens after it; `Body` is `_run` outside the lock;
`RecordStatus`, `RecordTime`, `RecordValue` are the three assignments of
`_record_complete` or `_record_failure`, the lock held throughout, into the dict the
id names *by then*; `Cleanup` is `cleanup_old_tasks`; `GetTask`, `ListTasks`,
`FilterOne`, `Encode`, `Respond` are the handlers of `api/tasks.py`, which filter and
encode the dicts after the lock is released, one dict at a time.

Left out: what a body does (it completes or fails); wording of results.  An
exception thrown by the teardown of the application context after the outcome is
recorded is not modelled: `_record_failure` would then overwrite "completed".

### AgentRegistry and DinasAgent

`rows` and `row` are the table (row keeps what was ever inserted, for the
properties), `sess[c]` the handler that serves one request.  A handler is
`RegisterSelect`, `HeartbeatSelect` or `TelemetrySelect` (the SELECT), `Insert` or
`Update` (the commit) and `Reply` (`to_dict` reads the expired object again).  `seen`
is the status the session loaded: SQLAlchemy's unit of work writes the column only
when the new value differs, so a heartbeat that loaded "active" does not undo a
"stale" that the health check commits in between (`StatusWritten`).  `HealthFind` and
`HealthMark` are the two halves of the health check; `Age` is the passing of the
timeout.  `last_heartbeat` is abstracted to whether it is younger than the timeout.

In `DinasAgent`, a client's slot at the server is one per agent, thread and process.
A slot whose client gave up (`Timeout`) is served to its end and freed by `Drain`; the
thread's next request waits for that.  This leaves out two requests of one thread
being served at once, which needs a request to outlive its 10 s timeout and the
interval of the loop; requests of different threads and of different processes of an
agent do overlap.

### DiscoveryJob

`job` is `scan_jobs`; `stored` and `linked` count the observations of a job and those
with a device; `devices` counts device rows per address and agent, `services` those of
them whose service has a row; `task` and `reply` are what the client can see; `run[j]`
is the place and the local variables of the thread or handler, with `poisoned` for a
session that needs a rollback.  Every statement that can raise has an alternative with
`Raises`, gated by a named FaultPoint, and a poisoned session makes every statement
raise.  `Submit` can raise before the task is recorded (the id of the committed job is
read again) or after it (the thread does not start).

`Results` is what a scan can return.  Of a single host it is what each provider knows
of it; of a range it is the part that nmap scans (`Scanners`) and, whatever the range,
every address of the ARP table (`Tables`).  So a job can make rows for addresses its
target leaves out, and `OneRowPerJob` and `NothingLostAlone` speak of the addresses a
job can report (`Reach`).

Devices and services are both looked up first and inserted later, and the table
decides (`Refused`, and the third alternative of `UpsertService`).  The constraint on
devices ignores a NULL agent_id; the one on services has nothing to ignore.  So two
jobs without an agent_id never lose a result over a device, but they do over a service
of a device that exists.  `Contend` names the pairs of jobs that can lose a result to
each other.

Abstractions: a host has one service that scans list, and only a scanner's result of a
single host lists it; the interfaces, which no constraint protects, are a step with the
link of the observation to its device; results are taken in any order (the code follows
the providers'); an address that a provider reports twice counts as reported by two;
when an address without an agent_id has several rows, which of them a statement is
about is any that fits; the attributes of devices and services are left out.  The query
that finds NULL (`There`) is modelled as the database evaluates it.

### Telemetry

A writer is a run of `collect_all_devices`, a request to collect one device, or a
request that carries an agent's results; each has a session, so `w[x]` holds what a
session remembers next to the handler's local variables.  One step is one statement
or one commit: `Collect` (the ping and the attributes it was given), `Record` (a
metric, committed), `ReadStatus` and `WriteStatus`; for a report also `FindDevice`,
`SelectOwn`, `Insert`, `InsertRefused`, `RefreshOwn`; `Touch` and `Collected` are the
device's id read again to note the result.

`seen` is the status the session has loaded, or "expired" after a commit; a status
equal to it is not written.  A query does not refresh what is loaded: a request's
second result for one address, if it has no metrics to commit, is judged by the status
that the first one's `Touch` loaded (`Loaded`), and if another writer has reported in
between it is not written.  The ghost `stale` marks this case, `shared` that of reports
that overlap; `LastReportStands` says that nothing else is lost.

`session` is what a statement that raised has left (`Broken`).  A failed query leaves
it sound.  A failed flush has rolled back: every statement is refused and everything
loaded is expired.  A failed COMMIT refuses every statement as well, but what is loaded
stays readable.  What catches an exception is `Except` for the pass, an answer 500 for
a request.  The message of the pass's except branch reads `device.ip_address`: after a
failed flush, or if a commit has expired the device, this raises again and ends the
pass; after a failed COMMIT it is read from memory and the pass goes on, until it has to
load an attribute.  `fresh` says that all the listed devices are still loaded, which
holds until the first commit.  So a pass is reported completed in spite of a failed
COMMIT in two cases, and `CompletedPassIsWhole` says that these are all: its very first
COMMIT failed, and it has stored nothing; or that of the status of its last device.
The mutant that keeps the address in a variable breaks it.

A metric says "up", "down" or something "other" than availability, and is `dated` if
it carries a timestamp of the agent.  The newest availability is the one with the
latest timestamp (`get_latest`); one that is recorded later replaces it for certain
only if both carry the clock's time and their writers do not overlap (`StaysNewest`):
the clock of the server is taken to go forward between reports that do not.
`AvailabilityTellsStatus` leaves out the devices whose newest metric is dated.  A
status other than "online" and "offline" updates nothing, also beside availability
metrics, and these then leave the older status behind (`Supersedes`).

Abstractions: the devices a pass may start with are found before any writer starts
(`Discover`; scans are in `DiscoveryJob`), always "online" as discovery creates them;
a pass takes its devices in any order; of a request to collect one device, the
failing first query is left out, since it changes nothing; results and metrics that
are malformed are skipped by the code and left out; the agent's own row and the
heartbeat that ends the request are in `AgentRegistry`.

### Anomaly

A run is a task (`submit_anomaly_detection`) or a request (`detect_anomalies`), over a
device or all that are not offline.  `Start` is the submission and the first query;
`NextDevice` the query for the metric types of the next device; `LookBack` and
`LookLatest` the query and the judgement of one type by the z-score and by the
threshold detector, which do not see the same moment; `Create` commits one anomaly;
`Complete` and `Fail` write the task record of the scope, which two runs may share.
`rows` numbers the anomalies of each run, in place of ids.  A status update is `Load`,
`Write` and `Answer`: the write leaves out a status that is the one loaded, and the
answer reads the row again.

Abstractions: a metric is what its newest value reaches and whether it is far from its
baseline (how that is computed is in `ZScore`, with the severities of the z-score,
here "any"); the device of a request exists, since otherwise nothing is done (404, or
a task that finds nothing); the anomalies of a device are counted as they are stored,
where the code adds their number afterwards.  An unknown anomaly or an update without
a status is refused without effect and left out.

### Topology

A build or a discovery is a request with a session that commits once, at its end.
`nodes` and `edges` are the committed rows, `run[x]` the rows a session has written
and not yet committed and its local variables.  A node is a pair of its device and the
run that made it, so that duplicates are seen.  `Probe` asks the providers, each an
operator over the list of addresses and one view of the network (`ArpNeighbors`,
`SubnetAdjacent`, `Reachable`, `Traceroutes`), and `Deduplicated` is the engine's;
`SkipAddress`, `KeepNode`, `SelectNode`, `WriteNode` are the loop over devices or
addresses; `SelectEdge` and `AddEdge` the build's loop over shared services;
`DrawEdges` the discovery's loop over results.

SQLite is part of the model: the first INSERT or UPDATE of a session takes the write
lock of the database (`lock`) and `Commit` or `Fail` gives it back.  This is what
bounds the duplicates: two sessions can both miss a row only before either writes its
first.  Then `DrawEdges` is one step, since a discovery with something to draw has
written a node and holds the lock.  On a database with row locks
`OneSurplusRowPerRun` would not hold.

Abstractions: the devices, their addresses, services and interfaces stay as they are
while the runs are on, except which are offline; the ARP table has one entry for an
address; `first()` returns any row that matches; `sorted` of two node ids is some
fixed order of them; the rows a request reads after its commit, for its answer, are
left out.  A provider that raises is one that was not asked.  The pattern for the lines
of `arp -a` matches the format of Windows only; elsewhere the table is empty, which is
one of the views checked.

Two things the proof of the refinement showed about the model.  Linux `traceroute`
names its target in its header line, which `_parse_traceroute` takes for the first hop,
so a trace names the target twice and the same pair of addresses can come up in both
orders, or an address with itself: the evidence for a hop is therefore any two
positions of one trace.  And the evidence for an ARP neighbour has to ask for a MAC
address that is there (`(SUBSET Ips) \ {{}}`), as the provider does; without the
parentheses the two parsers read it differently.

### ZScore

The values of one metric, newest first.  The z-score is compared over the integers (no
division, no root), and its square with a relative error of -1, 0 or 1 over `Precision`,
a choice of the model (`Errors`), because the code computes in floats: a value that
differs from n - 1 equal ones has a z-score of exactly the root of n - 1, and
[11, 10 x 9] computes as 3.0000000000000013, above the threshold.  `Precision` is any
number from 100 on that is at least a ninth of the window; floats are better by far as
long as the values do not agree in all but their last digits.  Whether the spread is
zero is decided exactly; in floats equal values may leave a residue instead, with a
z-score near 1, which is not flagged either.  Agents may send
timestamps out of order; `metrics` is the list in timestamp order, and `Record` can
produce every such list.

## 3. The runs

| Run | What it shows | Bounds, and why they are enough |
|---|---|---|
| `task_manager` | attribution of outcomes, exactness for discovery tasks, no lost outcome, no reopening, readers without lock | one discovery id, one shared id, three submissions: an older run, a newer one that overtakes it and a third task to be mixed up with |
| `task_cleanup` | *violated*: cleanup removes the record of a task still at work | same |
| `agent` | table invariants, 404 only after a loss | one process with telemetry, two faults, two losses: both threads re-register over two generations of ids, and one can take over an id that is lost already |
| `agent_pair` | `RegisterOwnName`, `UsesOwnRow` with two names and across kill and restart | the first agent has two processes: requests of the dead one are still served; no faults and no losses, which `agent` has, but a handler nobody waits for may fail |
| `agent_live` | the four liveness properties | one loss, one fault; three ids, since both threads may insert after the loss |
| `agent_readme` | *violated*: the agent does not always re-register on its own | same |
| `discovery` | counts, what task record and answer tell, devices and services, refinement of `JobLifecycle`, every accepted job ends | two jobs, each any of three requests for one target: the background scan of a host for an agent, the synchronous one of a range for the same agent, the synchronous one of a host for none; nmap and the ARP table, which also knows an address outside the range. Two results of one job meet, two jobs meet over a device in the target, one outside it for one of them, a service with an agent and without; one fault anywhere, one crash |
| `telemetry` | status against the last report, availability against status, completed passes, devices per address | one address, known or new, and two ids, so that a second device can appear; any three of a pass, a single request and three reports by two agents, so that each kind of writer meets each other; a report has a result without a status, one with an unknown status and a dated metric, or two without metrics, the second of which is judged by what the session remembers; one statement that fails, at its query, flush or COMMIT |
| `anomaly` | what a run stores and tells, what crossing updates leave | any three of two runs and two updates; two devices, one of them without metrics, two types of which one has limits; one metric recorded meanwhile |
| `topology` | duplicates, direction of edges, results drawn, refinement of `TopologyGraph` | a build and two discoveries; three devices, two of them on one address, and an address nobody has; two views of the network that find the same hop with different confidence |
| `zscore` | samples each severity needs; the baseline only hides | every list of up to 32 values with at most two unusual ones, 11 or 60, among tens; the window is 29 instead of 100, above the 27 samples the highest severity needs, so that its sliding is reached; z^2 off by a hundredth at most, either way |
| `zscore_test` | *violated*: the values of the test-suite are not flagged | window 100 |

Deadlock is checked for the task registry.  The other systems really may stop: an
agent that exited is started again a bounded number of times, a client need not
create another job, each writer of telemetry, run or update ends, the number of values
is bounded.

### Fairness

* Threads of the task registry: once started, a Python thread runs, bodies end since
  subprocesses carry timeouts, and the lock is held for three assignments.  Polling,
  cleanup and new submissions owe nothing.
* Agent: each thread goes on to its next request (its waits are bounded), handlers at
  the server proceed, rows age, and the health check is scheduled every minute.  Weak
  fairness everywhere; nobody owes a start, a kill, a fault or a loss.
* Discovery: a handler or thread that can take a step takes one; nobody owes a fault or
  a crash.  `EveryJobEnds` excludes crashes and failures outside the try blocks, which
  leave a job unfinished in the code (`beyond`).  No strong fairness is used.

### Findings

1. `task_cleanup`: the thread of an older "telemetry-all" writes into the record of
   the newer one, which then reads completed while its thread works, and
   `cleanup_old_tasks` removes it, against `tests/test_tasks.py:91-95`.
2. `agent_readme`: `README.md:63` says that a forgotten agent re-registers on its own;
   one failure of that one attempt ends the heartbeat thread, or the process.  What
   does hold is checked by `agent_live`: without a fault it comes back, and with
   faults it comes back or its process ends (given targets to report on).
3. `zscore_test`: the newest value stays in the baseline it is compared with, since
   `values[:-1]` drops the oldest; the example of `tests/test_anomaly.py:41-45` is not
   flagged: its z-score is 2.9998, clear of any rounding.

## 4. The proofs

Every model has a module of theorems. They hold for every value of the constants that
satisfies the named assumptions, which say no more than what the code gives: ids are
not the value for "none", the kinds of processes are disjoint, bounds of the model are
numbers (`RunsAssumption`, `IdsAssumption`, `NameAssumption`, `IdAssumption`,
`CallersAssumption`, `BoundsAssumption`, `WritersAssumption`, `PayloadsAssumption`,
`RunAssumption`), the relations between tables have the domains they are used on
(`TableAssumption`, `ViewAssumption`, `BeginningsAssumption`), and the sets whose
elements are counted are finite (`ScopeAssumption`: jobs, providers, hosts; it also gives
the form of a request; `ScopesAssumption`: devices), measured values are integers
(`ValuesAssumption`, `SizesAssumption`), and the arithmetic on them is precise enough for
the window (`PrecisionAssumption`). TLC evaluates each of them on the instances.

Each module but the last defines one invariant that every step keeps, a lemma per action
for it, and takes the properties of section 3 from it.

**Task registry** (`TaskManagerProofs`).  `Attribution`, `RunningMeansPending`,
`FinishedEarlyOnlyByOverlap`, `JobRecordExact` and `ResponseSane` are not inductive: a
late thread writes through `tasks[taskOf[r]]`, so one must know that what an id names
was submitted for that id and is the newest of it, that the dict does not change while
the lock is held, and what a half-written dict looks like at each of the three
assignments.  `IInv` says so and `Invariance` proves it; the properties and the action
property follow from it.  `NeverReopens` needs it because a new dict is made for a
submission number that nobody has used.

**Agents table** (`AgentRegistryProofs`).  For *any* clients, not only the agent
program: `RegInv` adds to the type that a handler about to insert has found no row of
its name made by its own caller, which is what bounds the duplicates
(`OneRowPerCaller`), and that a loaded id keeps the name it was selected for
(`RegisterOwnName`).

**Agent program** (`DinasAgentProofs`).  `ImplementsRegistry` proves that every step of
the program and the server together is a step of `AgentRegistry` or leaves its
variables alone, so that `AgentDuplicatesOnlyByOverlap` costs one line.  `AgentInv`
adds what ties the program to the table: the id of a process that is up was given out
under its name (`KnownInv`), a thread is ready only when its process is registered
(`ThreadInv`), and until the table is lost for the first time every row ever inserted
is in it (`LossInv`).  `UsesOwnRow` and `NotFoundOnlyAfterLoss` are conjuncts of it.

**Discovery jobs** (`DiscoveryJobProofs`).  `JobInv` has four layers.  `JobsOK` ties
the place of each worker to its row, its task record and its answer (`ScopeInv`,
`PlaceInv`, `ToldInv`) and accounts for counts that lag behind what is stored by the
result in hand (`CountInv`); it gives `CountsMatchRows` and `ClientTold`.  `AloneAll`
accounts for every result of a run without a fault: stored with its device, skipped
while another job can be blamed for it, or still to do; it gives `NothingLostAlone`.
`RowInv` charges every device row and every insert under way to a job that has stored
an observation of it, one each; it gives `OneRowPerJob`.  `ServiceInv` bounds the
services by the device rows, and by `RowInv` (`FewRows`) what a worker has counted of
them; a worker that is refused a service finds more of them than it had counted, and the
job that inserted the other one is the one to blame (`AloneOther`).
`ImplementsLife` maps each job row to `JobLifecycle`, every step to a step of it or a
stutter.

**Telemetry** (`TelemetryProofs`).  `LastReportStands` fails to be inductive at the
point the code is delicate: a status equal to the loaded one is not written.  The
invariant needs that a writer alone on its device, which has not loaded the status for an
earlier result before another writer reported, has loaded the status there is
(`SharedAll`), and which writers can be on a device at all (`HoldsAll`).  `AvailOK` says
that the newest availability is the one told, or that a writer still has it to record,
which needs the last availability of a list of metrics, shown with well-founded
induction over places in a list (`LeastExists`, in its form without an operator
parameter).  `SessionOK` says where a pass can be with a session that refuses
statements, and that nothing has been stored while all the listed devices are loaded;
`MissedOK` that a sound session has missed no device it could read, and a broken one at
most one, unless all were still loaded.  `CrossedOK` adds to `OneDeviceUnlessCrossed`
what a request that found no device knows of its rivals.

**Anomalies** (`AnomalyProofs`).  `RunTellsMetrics` relates the rows a run has stored to
metrics that may change under it.  `RunOK` follows the run over devices, types and
detectors: what it has found is of the device in hand and in order (`FoundOK`), what it
has stored is numbered without a gap and stored once (`NumberedOK`, `StoredOK`,
`OnceOK`), is there because of the metric (`SoundOK`), and nothing is missing of what it
is done with (`CompleteOK`), for the metrics that did not change.  `TotalOK` and `TaskOK`
give `TotalsTellRows`, also for two runs that share one task record.  `UpdateOK` and
`RowOK` give `UpdateStands`.

**Topology** (`TopologyProofs`).  `TopologyInv` says of the committed rows that they are
of completed runs, in one direction, once, and supported by evidence (`RowsOK`), and of
each run what the write lock buys it (`SessionOK`): rows of its own mean the lock
(`LockOK`), so another run's commit cannot change what it has looked up; it has a node
for every device or address it has passed (`CoverOK`); what it writes once it has the
lock is missing (`FreshOK`), so that only the first row can be one too many
(`SurplusOK`, `BoundOK`).  `OneSurplusRowPerRun` is then arithmetic on cardinalities,
`OneEdgeEachWay` follows from the fixed order of two nodes (`Directed`), `FoundIsDrawn`
from `CoverOK` and from the tables only growing.  `ImplementsTopologyGraph` proves that
a commit is a `Learn` step and that every other step is a stutter; it rests on a lemma
for each provider (`ArpSound`, `SubnetSound`, `ReachableSound`, `HopSound`) that what it
returns has evidence, whatever the network shows.

**Statistical detector** (`ZScoreProofs`).  `SeverityNeedsSamples` and `MaskingOnly` are
facts about any list of integers and any window, so they need no invariant beyond the
type of `metrics`.  The newest value x is one of the n values of its baseline: of the
differences x - v one is 0, and by the inequality of Cauchy and Schwarz (`CauchyStep`,
`Gathered`) the square of the sum of the others is at most n - 1 times the sum of their
squares.  Hence z^2 <= n - 1, and at most (1 + 1 / Precision) (n - 1) as computed
(`InItsBaseline`).  The bound is tight, so rounding counts where n - 1 meets a threshold:
the sample counts 11, 15, 18 and 27 are the first with n - 1 at or above 9, 12.25, 16 and
25, and no `Precision` from 100 on makes them less.  `WithoutFirst` shows that leaving x
out keeps its distance from the sum and does not widen the spread, and `MarginKept` that
the exact z-score is then above 3 although the computed one may have been rounded up:
without x in it the spread shrinks by more than the error, for a window up to nine times
`Precision`.  `Sums` is a recursive function over the places of a list, and what holds of
it is shown for the set of places where it holds (`Upward`), so that no operator parameter
is needed.  Values are integers: those of a fixed unit, up to the scale, on which the rule
does not depend.

Only model-checked:

* the liveness properties of `task_manager`, `agent_live` and `discovery`: the prover
  has no rules for ENABLED;
* the three properties that are violated.

No module with a theorem uses a RECURSIVE operator.

## 5. Not modelled, and the plan

Not modelled for good: parsing the output of nmap, ping, arp and traceroute (text
processing without state), read-only handlers, logging, configuration, the dashboard.

Left, in this order:

1. `Scheduler`: start twice, shutdown, coalesced submissions.  Its periodic submissions
   and its health check are actions of the modules they act on.
2. `Classifier`, as an operator against a reference definition, with the attributes of a
   device that a later scan overwrites.
