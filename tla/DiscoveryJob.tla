----------------------------- MODULE DiscoveryJob -----------------------------
(***************************************************************************)
(* Discovery jobs, from POST /api/discovery/jobs to the final status of    *)
(* the scan_jobs row: the request handler, the background task or the      *)
(* synchronous call, the scan engine, the normalizer that stores each      *)
(* result, and the tables of devices and services that all the jobs write. *)
(*                                                                         *)
(* Every call that reaches the database, a provider or the operating       *)
(* system may raise; the fault points are named by FaultPoints.            *)
(***************************************************************************)
EXTENDS Naturals, FiniteSets

CONSTANTS
    Jobs,
    Providers,    \* the discovery providers registered with the engine
    Scanners,     \* those that scan a range, and list a single host's services
    Tables,       \* those that answer any range with all the addresses they know
    Hosts,        \* addresses a scan can find
    AgentIds,     \* the agent_ids a request can carry
    NoAgent,      \* SQL NULL: the request carries none
    Requests,     \* the requests that clients can make: run_async as a mode,
                  \* agent_id, target (for one host, its name and address) and
                  \* scan_type
    FaultPoints,  \* where a call may raise
    Confined,     \* those of them inside one of the two try blocks
    MaxFaults,    \* bound on the calls that raise
    MaxCrashes    \* bound on the ends of the server process

Agents == AgentIds \cup {NoAgent}

ASSUME ScopeAssumption ==
    /\ IsFiniteSet(Jobs) /\ IsFiniteSet(Providers) /\ IsFiniteSet(Hosts)
    /\ Scanners \subseteq Providers /\ Tables \subseteq Providers
    /\ Requests \subseteq [mode : {"async", "sync"}, agent_id : Agents,
                            target : SUBSET Hosts, scan_type : {"host", "network"}]
    /\ Confined \subseteq FaultPoints \ {"reply"}

ASSUME BoundsAssumption == MaxFaults \in Nat /\ MaxCrashes \in Nat

\* What one scan can return: of a single host, what each provider knows; of a
\* range, the scanner's part of it, and the whole ARP table whatever the range
\* is (the ICMP provider has nothing to say of a range).
Results(target, scan) ==
    IF scan = "network"
    THEN (Scanners \X target) \cup (Tables \X Hosts)
    ELSE Providers \X target

NoResult == <<>>

VARIABLES
    job,      \* the scan_jobs rows
    stored,   \* stored[j]: number of observation rows of j
    linked,   \* linked[j]: those that have a device_id
    devices,  \* devices[h, a]: number of device rows with that ip and agent_id
    services, \* services[h, a]: those of them whose service has a services row
    task,     \* status of the task record "discovery-<job id>"
    reply,    \* the HTTP answer to the POST
    run,      \* what executes the job: place, mode and local variables
    faults, crashes,
    beyond    \* ghost: the points outside the two try blocks that have raised

tables   == <<job, stored, linked, devices, services>>
answered == <<task, reply>>
vars     == <<tables, answered, run, faults, crashes, beyond>>

NoRow == [status |-> "none", agent_id |-> NoAgent, target |-> {},
          scan_type |-> "host", observations_count |-> 0, devices_found |-> 0,
          started_at |-> FALSE, completed_at |-> FALSE]

Idle == [pc |-> "idle", mode |-> "async", todo |-> {}, result |-> NoResult,
         total |-> 0, exists |-> FALSE, known |-> 0, processed |-> 0, poisoned |-> FALSE]

Init ==
    /\ job = [j \in Jobs |-> NoRow]
    /\ stored = [j \in Jobs |-> 0]
    /\ linked = [j \in Jobs |-> 0]
    /\ devices = [d \in Hosts \X Agents |-> 0]
    /\ services = [d \in Hosts \X Agents |-> 0]
    /\ task = [j \in Jobs |-> "none"]
    /\ reply = [j \in Jobs |-> "none"]
    /\ run = [j \in Jobs |-> Idle]
    /\ faults = 0
    /\ crashes = 0
    /\ beyond = {}

-----------------------------------------------------------------------------
(* Calls that work and calls that raise.                                   *)

At(j, place) == run[j].pc = place

Goto(j, place) == run' = [run EXCEPT ![j].pc = place]

\* A session whose flush failed refuses every statement until rollback.
Works(j) == ~ run[j].poisoned /\ UNCHANGED <<faults, beyond>>

Raises(j, point) ==
    IF run[j].poisoned
    THEN UNCHANGED <<faults, beyond>>
    ELSE /\ point \in FaultPoints
         /\ faults < MaxFaults
         /\ faults' = faults + 1
         /\ beyond' = beyond \cup ({point} \ Confined)

-----------------------------------------------------------------------------
(* The request.                                                            *)

Create(j, q) ==
    /\ At(j, "idle")
    /\ job' = [job EXCEPT ![j].status = "pending", ![j].agent_id = q.agent_id,
                          ![j].target = q.target, ![j].scan_type = q.scan_type]
    /\ run' = [run EXCEPT ![j].mode = q.mode,
                          ![j].pc = IF q.mode = "async" THEN "submit" ELSE "start"]
    /\ UNCHANGED <<stored, linked, devices, services, answered, faults, crashes, beyond>>

\* The id of the new row is read again, the record made, the thread started;
\* the answer does not wait for it.  A failure leaves no record before the
\* second of these, and a record without a thread after it.
Submit(j) ==
    /\ At(j, "submit")
    /\ \/ /\ task' = [task EXCEPT ![j] = "running"]
          /\ reply' = [reply EXCEPT ![j] = "202"]
          /\ Goto(j, "start")
          /\ Works(j)
       \/ /\ reply' = [reply EXCEPT ![j] = "500"]
          /\ Goto(j, "done")
          /\ \/ UNCHANGED task /\ Raises(j, "submit")
             \/ task' = [task EXCEPT ![j] = "running"] /\ Raises(j, "thread")
    /\ UNCHANGED <<tables, crashes>>

-----------------------------------------------------------------------------
(* run_discovery.                                                          *)

\* Faulty: the first update_status is inside the try.
StartTried == "fail"

StartFailed == "raise"

\* The orchestrator is built and the row becomes running, outside the try.
Begin(j) ==
    /\ At(j, "start")
    /\ \/ /\ job' = [job EXCEPT ![j].status = "running", ![j].started_at = TRUE]
          /\ Goto(j, "scan")
          /\ Works(j)
       \/ /\ Raises(j, "start")
          /\ Goto(j, StartFailed)
          /\ UNCHANGED job
    /\ UNCHANGED <<stored, linked, devices, services, answered, crashes>>

Reported(j) == Results(job[j].target, job[j].scan_type)

\* A provider that raises contributes nothing; is_available is not guarded.
Scan(j) ==
    /\ At(j, "scan")
    /\ \/ /\ \E found \in SUBSET Reported(j) :
                run' = [run EXCEPT ![j].todo = found,
                                   ![j].total = Cardinality(found),
                                   ![j].pc = "next"]
          /\ Works(j)
       \/ /\ Raises(j, "scan")
          /\ Goto(j, "fail")
    /\ UNCHANGED <<tables, answered, crashes>>

\* Faulty: devices_found is the number of results, not of processed ones.
AllFound(j) == run[j].total

Found(j) == run[j].processed

\* Faulty: a scan without results ends with the unused status PARTIAL.
PartialIfEmpty(j) == IF run[j].total = 0 THEN "partial" ELSE "completed"

\* "completed" if results else "completed"
FinalStatus(j) == "completed"

Finish(j) ==
    /\ At(j, "next")
    /\ run[j].todo = {}
    /\ \/ /\ job' = [job EXCEPT ![j].status = FinalStatus(j),
                                ![j].observations_count = run[j].total,
                                ![j].devices_found = Found(j),
                                ![j].completed_at = TRUE]
          /\ Goto(j, "return")
          /\ Works(j)
       \/ /\ \E p \in BOOLEAN :
                run' = [run EXCEPT ![j].pc = "fail",
                                   ![j].poisoned = p \/ run[j].poisoned]
          /\ Raises(j, "finish")
          /\ UNCHANGED job
    /\ UNCHANGED <<stored, linked, devices, services, answered, crashes>>

\* Faulty: the exception is raised again after the row is marked.
FailedAgain == "raise"

Failed == "return"

\* The except branch uses the session that raised, without a rollback.
Fail(j) ==
    /\ At(j, "fail")
    /\ \/ /\ job' = [job EXCEPT ![j].status = "failed", ![j].completed_at = TRUE]
          /\ Goto(j, Failed)
          /\ Works(j)
       \/ /\ Raises(j, "fail")
          /\ Goto(j, "raise")
          /\ UNCHANGED job
    /\ UNCHANGED <<stored, linked, devices, services, answered, crashes>>

-----------------------------------------------------------------------------
(* The normalizer: each result on its own, skipped if any step of it       *)
(* raises.  The loop takes the results in any order.                       *)

Of(j) == <<run[j].result[2], job[j].agent_id>>

\* Faulty: no rollback in the except branch of the loop.
StillPoisoned == TRUE

RolledBack == FALSE

\* The locals of the loop's body are dead; forgotten, they cost no states.
Body(w) == [w EXCEPT !.pc = "next", !.result = NoResult, !.exists = FALSE, !.known = 0]

Skip(j) == run' = [run EXCEPT ![j] = [Body(run[j]) EXCEPT !.poisoned = RolledBack]]

Observe(j) ==
    /\ At(j, "next")
    /\ \E r \in run[j].todo :
         \/ /\ stored' = [stored EXCEPT ![j] = @ + 1]
            /\ run' = [run EXCEPT ![j].todo = @ \ {r}, ![j].result = r,
                                  ![j].pc = "select"]
            /\ Works(j)
         \/ /\ run' = [run EXCEPT ![j].todo = @ \ {r},
                                  ![j].poisoned = RolledBack]
            /\ Raises(j, "observe")
            /\ UNCHANGED stored
    /\ UNCHANGED <<job, linked, devices, services, answered, crashes>>

\* Faulty: the query never matches, as a comparison with NULL would not.
NeverThere(d) == FALSE

\* filter_by(agent_id=None) is IS NULL, so NULL matches NULL.
There(d) == devices[d] > 0

SelectDevice(j) ==
    /\ At(j, "select")
    /\ \/ /\ run' = [run EXCEPT ![j].exists = There(Of(j)), ![j].pc = "upsert"]
          /\ Works(j)
       \/ /\ Skip(j)
          /\ Raises(j, "device")
    /\ UNCHANGED <<tables, answered, crashes>>

\* Faulty: the table has no unique constraint.
Unconstrained(d) == FALSE

\* The unique constraint on (ip_address, agent_id) ignores NULLs.
Refused(d) == d[2] # NoAgent /\ devices[d] > 0

UpsertDevice(j) ==
    /\ At(j, "upsert")
    /\ \/ /\ run[j].exists
          /\ Goto(j, "details")
          /\ Works(j)
          /\ UNCHANGED devices
       \/ /\ ~ run[j].exists
          /\ ~ Refused(Of(j))
          /\ devices' = [devices EXCEPT ![Of(j)] = @ + 1]
          /\ Goto(j, "details")
          /\ Works(j)
       \/ /\ ~ run[j].exists
          /\ Refused(Of(j))
          /\ Skip(j)
          /\ UNCHANGED <<devices, faults, beyond>>
       \/ /\ Skip(j)
          /\ Raises(j, "device")
          /\ UNCHANGED devices
    /\ UNCHANGED <<job, stored, linked, services, answered, crashes>>

\* The scan of a single host can list its services.
HasServices(j) == run[j].result[1] \in Scanners /\ job[j].scan_type # "network"

\* Whether the result's device, one of the devices[d] rows, has the service.
SelectService(j) ==
    /\ At(j, "details")
    /\ LET d == Of(j) IN
       \/ Goto(j, "link") /\ Works(j)
       \/ /\ HasServices(j)
          /\ \E found \in BOOLEAN :
               /\ IF found THEN services[d] > 0 ELSE services[d] < devices[d]
               /\ run' = [run EXCEPT ![j].exists = found, ![j].known = services[d],
                                     ![j].pc = "service"]
          /\ Works(j)
       \/ Skip(j) /\ Raises(j, "details")
    /\ UNCHANGED <<tables, answered, crashes>>

\* The unique constraint on (device_id, port, protocol) has no NULLs to ignore:
\* the insert is refused when the device has got the service since the query.
UpsertService(j) ==
    /\ At(j, "service")
    /\ LET d == Of(j) IN
       \/ /\ run[j].exists
          /\ Goto(j, "link")
          /\ Works(j)
          /\ UNCHANGED services
       \/ /\ ~ run[j].exists
          /\ services[d] < devices[d]
          /\ services' = [services EXCEPT ![d] = @ + 1]
          /\ Goto(j, "link")
          /\ Works(j)
       \/ /\ ~ run[j].exists
          /\ services[d] > run[j].known
          /\ Skip(j)
          /\ UNCHANGED <<services, faults, beyond>>
       \/ /\ Skip(j)
          /\ Raises(j, "details")
          /\ UNCHANGED services
    /\ UNCHANGED <<job, stored, linked, devices, answered, crashes>>

\* The interfaces, which no constraint protects, and the observation's device.
Link(j) ==
    /\ At(j, "link")
    /\ \/ /\ linked' = [linked EXCEPT ![j] = @ + 1]
          /\ Goto(j, "append")
          /\ Works(j)
       \/ /\ Skip(j)
          /\ Raises(j, "link")
          /\ UNCHANGED linked
    /\ UNCHANGED <<job, stored, devices, services, answered, crashes>>

\* The dict appended reads attributes that the commit has expired.
AppendProcessed(j) ==
    /\ At(j, "append")
    /\ \/ /\ run' = [run EXCEPT ![j] = [Body(run[j]) EXCEPT
                                           !.processed = run[j].processed + 1]]
          /\ Works(j)
       \/ /\ Skip(j)
          /\ Raises(j, "append")
    /\ UNCHANGED <<tables, answered, crashes>>

-----------------------------------------------------------------------------
(* Back in the caller: the task's _run, or the request handler.            *)

Return(j) ==
    /\ At(j, "return")
    /\ Goto(j, "done")
    /\ \/ /\ run[j].mode = "async"
          /\ task' = [task EXCEPT ![j] = "completed"]
          /\ UNCHANGED <<reply, faults, beyond>>
       \/ /\ run[j].mode = "sync"
          /\ reply' = [reply EXCEPT ![j] = "200"]
          /\ Works(j)
          /\ UNCHANGED task
       \/ /\ run[j].mode = "sync"
          /\ reply' = [reply EXCEPT ![j] = "500"]
          /\ Raises(j, "reply")
          /\ UNCHANGED task
    /\ UNCHANGED <<tables, crashes>>

Raise(j) ==
    /\ At(j, "raise")
    /\ Goto(j, "done")
    /\ \/ /\ run[j].mode = "async"
          /\ task' = [task EXCEPT ![j] = "failed"]
          /\ UNCHANGED reply
       \/ /\ run[j].mode = "sync"
          /\ reply' = [reply EXCEPT ![j] = "500"]
          /\ UNCHANGED task
    /\ UNCHANGED <<tables, faults, crashes, beyond>>

-----------------------------------------------------------------------------
(* The server process ends: threads and task records are gone, rows stay,  *)
(* and nothing at the next start looks for unfinished jobs.                *)

Halted == [Idle EXCEPT !.pc = "gone"]

Crash ==
    /\ crashes < MaxCrashes
    /\ \E j \in Jobs : run[j].pc \notin {"idle", "done", "gone"}
    /\ crashes' = crashes + 1
    /\ task' = [j \in Jobs |-> "none"]
    /\ run' = [j \in Jobs |->
                 IF run[j].pc \in {"idle", "done", "gone"} THEN run[j] ELSE Halted]
    /\ reply' = [j \in Jobs |->
                   IF run[j].pc # "idle" /\ reply[j] = "none" THEN "lost" ELSE reply[j]]
    /\ UNCHANGED <<tables, faults, beyond>>

Proceed(j) ==
    \/ Submit(j) \/ Begin(j) \/ Scan(j) \/ Finish(j) \/ Fail(j)
    \/ Observe(j) \/ SelectDevice(j) \/ UpsertDevice(j) \/ SelectService(j)
    \/ UpsertService(j) \/ Link(j) \/ AppendProcessed(j) \/ Return(j) \/ Raise(j)

Next ==
    \/ \E j \in Jobs, q \in Requests : Create(j, q)
    \/ \E j \in Jobs : Proceed(j)
    \/ Crash

Spec == Init /\ [][Next]_vars

\* A handler or a thread that can go on does so; no request is owed.
FairSpec == Spec /\ \A j \in Jobs : WF_vars(Proceed(j))

-----------------------------------------------------------------------------
(* Properties.                                                             *)

Places == {"idle", "submit", "start", "scan", "next", "select", "upsert",
           "details", "service", "link", "append", "fail", "return", "raise", "done", "gone"}

Statuses == {"none", "pending", "running", "completed", "failed"}

Terminal == {"completed", "failed"}

MaxResults == Cardinality(Providers \X Hosts)

\* The type invariant of the tables, the answers and the executors.
TypeOK ==
    /\ job \in [Jobs -> [status : Statuses, agent_id : Agents, target : SUBSET Hosts,
                         scan_type : {"host", "network"},
                         observations_count : 0 .. MaxResults,
                         devices_found : 0 .. MaxResults,
                         started_at : BOOLEAN, completed_at : BOOLEAN]]
    /\ stored \in [Jobs -> 0 .. MaxResults]
    /\ linked \in [Jobs -> 0 .. MaxResults]
    /\ devices \in [Hosts \X Agents -> 0 .. Cardinality(Jobs)]
    /\ services \in [Hosts \X Agents -> 0 .. Cardinality(Jobs)]
    /\ \A d \in Hosts \X Agents : services[d] <= devices[d]
    /\ task \in [Jobs -> {"none", "running", "completed", "failed"}]
    /\ reply \in [Jobs -> {"none", "202", "200", "500", "lost"}]
    /\ \A j \in Jobs :
         /\ run[j] \in [pc : Places, mode : {"async", "sync"},
                        todo : SUBSET Reported(j),
                        result : Reported(j) \cup {NoResult}, total : 0 .. MaxResults,
                        exists : BOOLEAN, known : 0 .. Cardinality(Jobs),
                        processed : 0 .. MaxResults, poisoned : BOOLEAN]
         /\ run[j].pc \in {"select", "upsert", "details", "service", "link", "append"}
              => run[j].result # NoResult
    /\ faults \in 0 .. MaxFaults
    /\ crashes \in 0 .. MaxCrashes
    /\ beyond \subseteq FaultPoints

\* The counts of a completed job against the rows it left, whichever results
\* were skipped and wherever: every device counted has a linked observation,
\* every linked observation is stored, every stored one was counted
\* (normalizer.py process_discovery_results, discovery_service.py 56-68).
CountsMatchRows ==
    \A j \in Jobs : job[j].status = "completed" =>
        /\ job[j].devices_found <= linked[j]
        /\ linked[j] <= stored[j]
        /\ stored[j] <= job[j].observations_count
        /\ job[j].started_at /\ job[j].completed_at

\* What the client is told against the job row, although they are written by
\* different code from different exceptions: a completed task, and an answer
\* 200, have a job with a final status (which may be failed); a failed task
\* leaves its job pending or running, and so does an answer 500 unless it was
\* the last read, after the job, that raised.
ClientTold ==
    \A j \in Jobs :
        /\ task[j] = "completed" \/ reply[j] = "200" => job[j].status \in Terminal
        /\ task[j] = "failed" => job[j].status \in {"pending", "running"}
        /\ reply[j] = "500" /\ "reply" \notin beyond => job[j].status \notin Terminal

\* The addresses a job can report.
Reach(j) == {r[2] : r \in Reported(j)}

\* Two jobs of the same agent_id that can insert the same row: a device of the
\* agent (without an agent_id nothing refuses the second), or a service of a
\* device, with an agent_id or without.
Contend(j, k) ==
    /\ j # k
    /\ job[j].agent_id = job[k].agent_id
    /\ \/ job[j].agent_id # NoAgent /\ Reach(j) \cap Reach(k) # {}
       \/ /\ job[j].scan_type # "network" /\ job[k].scan_type # "network"
          /\ job[j].target \cap job[k].target # {}

\* Without a fault a completed job has processed every result, unless another
\* job, of the same agent_id, could insert one of its devices or services
\* between its query and its insert: the providers of one job never make it
\* lose a result to itself (normalizer.py 19-38, device_repo.py 32-61, 87-114).
NothingLostAlone ==
    faults = 0 =>
        \A j \in Jobs :
            job[j].status = "completed"
              /\ job[j].devices_found < job[j].observations_count
            => \E k \in Jobs : Contend(j, k) /\ stored[k] > 0

\* However often a job reports an address, by however many providers, it adds at
\* most one device row for it; with an agent_id there is one row in all.  A job
\* can report addresses that its range leaves out, those of the ARP table
\* (create_or_update and uq_device_ip_agent, device_repo.py 32-61,
\* arp_provider.py 31-41).
OneRowPerJob ==
    \A h \in Hosts : \A a \in Agents :
        /\ devices[<<h, a>>] <= Cardinality({j \in Jobs : /\ job[j].agent_id = a
                                                      /\ h \in Reach(j)
                                                      /\ stored[j] > 0})
        /\ a # NoAgent => devices[<<h, a>>] <= 1

\* Each row lives the abstract life of a job.
Life(j) == INSTANCE JobLifecycle
             WITH status <- job[j].status,
                  observations_count <- job[j].observations_count,
                  devices_found <- job[j].devices_found,
                  MaxObservations <- MaxResults

\* The worker implements the contract of JobLifecycle for every job, whatever
\* raises and wherever the process ends: the conjunction over the jobs of
\* Life(j)!LifeSpec, in the form TLC takes.
ImplementsLifecycle ==
    /\ \A j \in Jobs : Life(j)!LifeInit
    /\ [][\A j \in Jobs : [Life(j)!LifeNext]_(Life(j)!lifeVars)]_vars

\* When only the scan, the handling of single results and the last read raise,
\* and the process does not end, every accepted job gets its final status, the promise
\* of JobLifecycle: the two try blocks confine those failures (normalizer.py
\* 19-38, discovery_service.py 38-86).
EveryJobEnds ==
    [](crashes = 0 /\ beyond \subseteq {"reply"}) => \A j \in Jobs : Life(j)!Settles
===============================================================================
