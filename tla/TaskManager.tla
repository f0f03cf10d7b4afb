----------------------------- MODULE TaskManager -----------------------------
(***************************************************************************)
(* The in-memory registry of background tasks (app/tasks/manager.py) and   *)
(* the endpoints that read it (app/api/tasks.py).                          *)
(*                                                                         *)
(* A submission creates a fresh dict under the task's id and starts one    *)
(* daemon thread.  The thread works outside the lock and finally writes    *)
(* its outcome into whatever dict the id names by then.  Discovery ids are *)
(* built from a new scan job and are submitted once; the ids of telemetry  *)
(* and anomaly tasks name a device or "all", so the scheduler and the API  *)
(* submit them again and again.                                            *)
(*                                                                         *)
(* Submission number r stands for the dict it created, for the thread it   *)
(* started and, as submissions are ordered by the lock, for started_at.    *)
(***************************************************************************)
EXTENDS Naturals

CONSTANTS
    JobTaskIds,      \* discovery-<scan job>: each submitted at most once
    SharedTaskIds,   \* telemetry-<device or all>, anomaly-<device or all>
    NoTask,          \* no id
    MaxRuns          \* bound on the number of submissions

ASSUME RunsAssumption == MaxRuns \in Nat
ASSUME IdsAssumption ==
    JobTaskIds \cap SharedTaskIds = {} /\ NoTask \notin JobTaskIds \cup SharedTaskIds

NoRun    == 0
Runs     == 1 .. MaxRuns
TaskIds  == JobTaskIds \cup SharedTaskIds
Outcomes == {"completed", "failed"}
Statuses == Outcomes \cup {"running"}

VARIABLES
    tasks,    \* _tasks: the submission whose dict each id names, or NoRun
    rec,      \* the dict of each submission (kept alive by references)
    runs,     \* number of submissions so far
    taskOf,   \* the id captured by each submission's thread
    pc,       \* where each submission's thread is
    outcome,  \* what its body ended with ("none" before)
    lock,     \* holder of _lock between two steps, or NoRun
    reader,   \* one API request that lists or gets tasks
    resp      \* the last task a response carried

registry == <<tasks, runs, taskOf>>
threads  == <<pc, outcome>>
polling  == <<reader, resp>>
vars     == <<tasks, rec, runs, taskOf, pc, outcome, lock, reader, resp>>

\* The dict of a submission.  "by" is a ghost: who wrote status last.
Dict == [status: Statuses, by: Runs \cup {NoRun}, completed_at: Runs \cup {NoRun},
         result: Runs \cup {NoRun}, error: Runs \cup {NoRun}]

\* Faulty: a task starts in a state the registry does not know.
QueuedRecord == [status |-> "pending", by |-> NoRun, completed_at |-> NoRun,
                 result |-> NoRun, error |-> NoRun]

NewRecord == [status |-> "running", by |-> NoRun, completed_at |-> NoRun,
              result |-> NoRun, error |-> NoRun]

Places == {"unused", "submitted", "working", "ended", "stamping", "storing",
           "finished", "unstarted"}

\* The thread has not yet come to the write of its outcome.
Unfinished == {"submitted", "working", "ended"}

Idle == [phase |-> "idle", want |-> "any", refs |-> {}, kept |-> {}]
NoResponse == [run |-> NoRun, want |-> "any", dict |-> NewRecord]

Init ==
    /\ tasks = [id \in TaskIds |-> NoRun]
    /\ rec = [r \in Runs |-> NewRecord]
    /\ runs = 0
    /\ taskOf = [r \in Runs |-> NoTask]
    /\ pc = [r \in Runs |-> "unused"]
    /\ outcome = [r \in Runs |-> "none"]
    /\ lock = NoRun
    /\ reader = Idle
    /\ resp = NoResponse

-----------------------------------------------------------------------------
(* Submission.  The dict is stored under the lock, the thread is started   *)
(* after the lock is released.                                             *)

\* Faulty: a second submission reuses the dict its id already has.
SlotReused(id) == IF tasks[id] # NoRun THEN tasks[id] ELSE runs + 1

SlotFor(id) == runs + 1

RecordStart(id) ==
    /\ lock = NoRun
    /\ runs < MaxRuns
    /\ runs' = runs + 1
    /\ tasks' = [tasks EXCEPT ![id] = SlotFor(id)]
    /\ rec' = [rec EXCEPT ![SlotFor(id)] = NewRecord]
    /\ taskOf' = [taskOf EXCEPT ![runs + 1] = id]
    /\ pc' = [pc EXCEPT ![runs + 1] = "submitted"]
    /\ UNCHANGED <<outcome, lock, reader, resp>>

SubmitDiscovery(id) ==
    /\ \A r \in Runs : taskOf[r] # id
    /\ RecordStart(id)

SubmitShared(id) == RecordStart(id)

ThreadStart(r) ==
    /\ pc[r] = "submitted"
    /\ pc' = [pc EXCEPT ![r] = "working"]
    /\ UNCHANGED <<registry, rec, outcome, lock, polling>>

\* thread.start() raises when the process cannot have another thread: the
\* caller gets the error and the dict stays.
ThreadRefused(r) ==
    /\ pc[r] = "submitted"
    /\ pc' = [pc EXCEPT ![r] = "unstarted"]
    /\ UNCHANGED <<registry, rec, outcome, lock, polling>>

-----------------------------------------------------------------------------
(* The thread's body, then _record_complete or _record_failure.            *)

\* The body returns, raises, or finds no device.
Body(r, o) ==
    /\ pc[r] = "working"
    /\ pc' = [pc EXCEPT ![r] = "ended"]
    /\ outcome' = [outcome EXCEPT ![r] = o]
    /\ UNCHANGED <<registry, rec, lock, polling>>

\* Faulty: the outcome goes to the newest submission, whatever its id.
LookupNewest(r) == runs

\* Faulty: the outcome goes to the oldest dict of the id.
LookupOldest(r) == CHOOSE q \in Runs : /\ taskOf[q] = taskOf[r]
                                       /\ \A p \in Runs : taskOf[p] = taskOf[r] => q <= p

\* self._tasks.get(task_id)
Lookup(r) == tasks[taskOf[r]]

\* Faulty: the completion time is written before the status.
TimeFirst(d, r) == [d EXCEPT !.completed_at = r, !.by = r]

\* Faulty: a failure is stored without its message.
ValueOfSuccess(d, r) ==
    IF outcome[r] = "completed" THEN [d EXCEPT !.result = r] ELSE d

SetStatus(d, r) == [d EXCEPT !.status = outcome[r], !.by = r]
SetTime(d, r)   == [d EXCEPT !.completed_at = r]
SetValue(d, r)  == IF outcome[r] = "completed" THEN [d EXCEPT !.result = r]
                                               ELSE [d EXCEPT !.error = r]

RecordStatus(r) ==
    /\ pc[r] = "ended"
    /\ lock = NoRun
    /\ Lookup(r) # NoRun
    /\ lock' = r
    /\ rec' = [rec EXCEPT ![Lookup(r)] = SetStatus(@, r)]
    /\ pc' = [pc EXCEPT ![r] = "stamping"]
    /\ UNCHANGED <<registry, outcome, polling>>

RecordTime(r) ==
    /\ pc[r] = "stamping"
    /\ rec' = [rec EXCEPT ![Lookup(r)] = SetTime(@, r)]
    /\ pc' = [pc EXCEPT ![r] = "storing"]
    /\ UNCHANGED <<registry, outcome, lock, polling>>

RecordValue(r) ==
    /\ pc[r] = "storing"
    /\ rec' = [rec EXCEPT ![Lookup(r)] = SetValue(@, r)]
    /\ lock' = NoRun
    /\ pc' = [pc EXCEPT ![r] = "finished"]
    /\ UNCHANGED <<registry, outcome, polling>>

\* The id is no longer in the registry: nothing is written.
RecordNothing(r) ==
    /\ pc[r] = "ended"
    /\ lock = NoRun
    /\ Lookup(r) = NoRun
    /\ pc' = [pc EXCEPT ![r] = "finished"]
    /\ UNCHANGED <<registry, rec, outcome, lock, polling>>

-----------------------------------------------------------------------------
(* cleanup_old_tasks, with a cutoff between two submissions (or after all  *)
(* of them: max_age_seconds = 0).                                          *)

Removable(r, cutoff) == rec[r].status \in Outcomes /\ r < cutoff

Cleanup(cutoff) ==
    /\ lock = NoRun
    /\ \E id \in TaskIds : tasks[id] # NoRun /\ Removable(tasks[id], cutoff)
    /\ tasks' = [id \in TaskIds |->
                   IF tasks[id] # NoRun /\ Removable(tasks[id], cutoff)
                     THEN NoRun ELSE tasks[id]]
    /\ UNCHANGED <<rec, runs, taskOf, threads, lock, polling>>

-----------------------------------------------------------------------------
(* get_task and list_tasks hand out the dicts themselves; the filter and   *)
(* the JSON encoder read them after the lock is released.                  *)

GetTask(id) ==
    /\ reader.phase = "idle"
    /\ lock = NoRun
    /\ tasks[id] # NoRun
    /\ reader' = [phase |-> "respond", want |-> "any", refs |-> {}, kept |-> {tasks[id]}]
    /\ UNCHANGED <<registry, rec, threads, lock, resp>>

ListTasks(want) ==
    /\ reader.phase = "idle"
    /\ lock = NoRun
    /\ reader' = [phase |-> "filter", want |-> want, kept |-> {},
                  refs |-> {tasks[id] : id \in TaskIds} \ {NoRun}]
    /\ UNCHANGED <<registry, rec, threads, lock, resp>>

Matches(r) == reader.want \in {"any", rec[r].status}

FilterOne(r) ==
    /\ reader.phase = "filter"
    /\ r \in reader.refs
    /\ reader' = [reader EXCEPT !.refs = @ \ {r},
                                !.kept = IF Matches(r) THEN @ \cup {r} ELSE @]
    /\ UNCHANGED <<registry, rec, threads, lock, resp>>

FilterDone ==
    /\ reader.phase = "filter"
    /\ reader.refs = {}
    /\ reader' = [reader EXCEPT !.phase = "respond"]
    /\ UNCHANGED <<registry, rec, threads, lock, resp>>

\* The encoder copies one dict at a time.
Encode(r) ==
    /\ reader.phase = "respond"
    /\ r \in reader.kept
    /\ resp' = [run |-> r, want |-> reader.want, dict |-> rec[r]]
    /\ reader' = [reader EXCEPT !.kept = @ \ {r}]
    /\ UNCHANGED <<registry, rec, threads, lock>>

Respond ==
    /\ reader.phase = "respond"
    /\ reader.kept = {}
    /\ reader' = Idle
    /\ resp' = NoResponse
    /\ UNCHANGED <<registry, rec, threads, lock>>

Poll ==
    \/ \E id \in TaskIds : GetTask(id)
    \/ \E want \in Statuses \cup {"any"} : ListTasks(want)
    \/ \E r \in Runs : FilterOne(r) \/ Encode(r)
    \/ FilterDone
    \/ Respond

-----------------------------------------------------------------------------
Record(r) == RecordStatus(r) \/ RecordTime(r) \/ RecordValue(r) \/ RecordNothing(r)

Next ==
    \/ \E id \in JobTaskIds : SubmitDiscovery(id)
    \/ \E id \in SharedTaskIds : SubmitShared(id)
    \/ \E r \in Runs : ThreadStart(r) \/ ThreadRefused(r) \/ Record(r)
    \/ \E r \in Runs, o \in Outcomes : Body(r, o)
    \/ \E cutoff \in 2 .. MaxRuns + 1 : Cleanup(cutoff)
    \/ Poll

Spec == Init /\ [][Next]_vars

\* Started threads keep running: every body ends (its subprocesses carry
\* timeouts) and the lock is held for three assignments only.
FairSpec ==
    /\ Spec
    /\ \A r \in Runs :
         /\ WF_vars(ThreadStart(r) \/ ThreadRefused(r))
         /\ WF_vars(\E o \in Outcomes : Body(r, o))
         /\ WF_vars(Record(r))

-----------------------------------------------------------------------------
(* Properties *)

TypeOK ==
    /\ tasks \in [TaskIds -> Runs \cup {NoRun}]
    /\ rec \in [Runs -> Dict]
    /\ runs \in 0 .. MaxRuns
    /\ taskOf \in [Runs -> TaskIds \cup {NoTask}]
    /\ pc \in [Runs -> Places]
    /\ outcome \in [Runs -> Outcomes \cup {"none"}]
    /\ lock \in Runs \cup {NoRun}
    /\ reader \in [phase: {"idle", "filter", "respond"}, want: Statuses \cup {"any"},
                   refs: SUBSET Runs, kept: SUBSET Runs]
    /\ resp \in [run: Runs \cup {NoRun}, want: Statuses \cup {"any"}, dict: Dict]

Writers(r) == {rec[r].by, rec[r].completed_at, rec[r].result, rec[r].error} \ {NoRun}

\* Attribution: whatever a dict says of an outcome was written by a run of the
\* same task that was submitted no later than the dict: a late thread of an
\* earlier submission may write into it, a run of another task never does.
Attribution ==
    \A r \in Runs : \A q \in Writers(r) : q <= r /\ taskOf[q] = taskOf[r]

\* A dict the registry still names is "running" only while its own thread has
\* not recorded (or never started): no task reads "running" after its end.
RunningMeansPending ==
    \A id \in TaskIds :
        LET r == tasks[id] IN
        r # NoRun /\ rec[r].status = "running" => pc[r] \in Unfinished \cup {"unstarted"}

\* A dict that reads finished while its own thread is still at work was
\* finished by an overlapping older run of the same task, and only by that.
FinishedEarlyOnlyByOverlap ==
    \A r \in Runs :
        rec[r].status \in Outcomes /\ pc[r] \in Unfinished \cup {"unstarted"} =>
            /\ rec[r].by \in Runs
            /\ rec[r].by < r
            /\ taskOf[rec[r].by] = taskOf[r]
            /\ pc[rec[r].by] \notin Unfinished

\* Discovery tasks, whose ids are never reused, are reported exactly: the dict
\* is finished when its own run has recorded, with that run's outcome and
\* either a result or an error, never both.
JobRecordExact ==
    \A r \in Runs :
        taskOf[r] \in JobTaskIds =>
            /\ rec[r].status \in Outcomes =>
                 pc[r] \in {"stamping", "storing", "finished"} /\ rec[r].status = outcome[r]
            /\ pc[r] = "finished" =>
                 /\ rec[r].status = outcome[r]
                 /\ rec[r].completed_at = r
                 /\ rec[r].result = IF outcome[r] = "completed" THEN r ELSE NoRun
                 /\ rec[r].error = IF outcome[r] = "failed" THEN r ELSE NoRun

\* A poller that sees a completion time, a result or an error also sees a
\* finished status, although it reads the dict without the lock; and a list
\* asked for finished tasks never shows a running one, although the filter is
\* evaluated before the dict is encoded.
ResponseSane ==
    /\ resp.dict.completed_at # NoRun \/ resp.dict.result # NoRun \/ resp.dict.error # NoRun
         => resp.dict.status \in Outcomes
    /\ resp.want \in Outcomes => resp.dict.status \in Outcomes

\* A dict never goes back: once finished it is never "running" again and its
\* completion time is never cleared.
NeverReopens ==
    [][\A r \in Runs :
          /\ rec[r].status \in Outcomes => rec'[r].status \in Outcomes
          /\ rec[r].completed_at # NoRun => rec'[r].completed_at # NoRun]_vars

\* A task whose thread has started leaves the "running" state for good, with
\* its completion time and a result or an error, unless it is replaced or
\* removed: the lock and the hand-over from older runs lose no outcome.
OutcomeArrives ==
    \A r \in Runs :
        pc[r] = "working" ~>
            \/ \A id \in TaskIds : tasks[id] # r
            \/ /\ rec[r].status \in Outcomes
               /\ rec[r].completed_at # NoRun
               /\ rec[r].result # NoRun \/ rec[r].error # NoRun

-----------------------------------------------------------------------------
(* A statement of the test-suite that the code does not keep.              *)

\* tests/test_tasks.py:91-95, "cleanup preserves running": a task whose thread
\* is at work stays in the registry.
CleanupPreservesRunning ==
    [][\A id \in TaskIds :
          tasks[id] # NoRun /\ tasks'[id] = NoRun => pc[tasks[id]] \notin Unfinished]_vars
=============================================================================
