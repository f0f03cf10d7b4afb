-------------------------- MODULE DiscoveryJobProofs --------------------------
(***************************************************************************)
(* Theorems about discovery jobs, for any number of jobs, providers, hosts *)
(* and agent_ids, any targets, and any pattern of calls that raise and of  *)
(* ends of the process.                                                    *)
(*                                                                         *)
(* The effect lemmas say what each action does to one job (SubmitDoes ..   *)
(* RaiseDoes) and that it leaves the others alone (Local).  On top of them *)
(* stand four invariants: JobsOK relates the place of a worker to its row  *)
(* and its counts; AloneAll accounts for every result of a scan without    *)
(* faults, up to a job that can be blamed; RowInv charges every device row *)
(* and every insert under way to a job that stored an observation of it;   *)
(* ServiceInv bounds the services by the device rows.                      *)
(***************************************************************************)
EXTENDS DiscoveryJob, FiniteSetTheorems, TLAPS

AllResults == Providers \X Hosts

\* The ranges of the rows and of the executors, without the bounds that
\* TypeOK gives to the counts: those follow from CountInv.
JobRow == [status : Statuses, agent_id : Agents, target : SUBSET Hosts,
           scan_type : {"host", "network"}, observations_count : Nat,
           devices_found : Nat, started_at : BOOLEAN, completed_at : BOOLEAN]

Worker == [pc : Places, mode : {"async", "sync"}, todo : SUBSET AllResults,
           result : AllResults \cup {NoResult}, total : Nat, exists : BOOLEAN,
           known : Nat, processed : Nat, poisoned : BOOLEAN]

NatType ==
    /\ job \in [Jobs -> JobRow]
    /\ run \in [Jobs -> Worker]
    /\ stored \in [Jobs -> Nat]
    /\ linked \in [Jobs -> Nat]
    /\ devices \in [Hosts \X Agents -> Nat]
    /\ services \in [Hosts \X Agents -> Nat]
    /\ task \in [Jobs -> {"none", "running", "completed", "failed"}]
    /\ reply \in [Jobs -> {"none", "202", "200", "500", "lost"}]
    /\ faults \in 0 .. MaxFaults
    /\ crashes \in 0 .. MaxCrashes
    /\ beyond \subseteq FaultPoints

LEMMA AllResultsFinite ==
    /\ IsFiniteSet(AllResults) /\ Cardinality(AllResults) = MaxResults
    /\ MaxResults \in Nat
  BY ScopeAssumption, FS_Product, FS_CardinalityType DEF AllResults, MaxResults

LEMMA InitType == Init => NatType
<1> SUFFICES ASSUME Init PROVE NatType
  OBVIOUS
<1>1. NoRow \in JobRow
  BY DEF NoRow, JobRow, Statuses, Agents
<1>2. Idle \in Worker
  BY DEF Idle, Worker, Places
<1> QED BY <1>1, <1>2, BoundsAssumption DEF Init, NatType

LEMMA RaisesType ==
    ASSUME NatType, NEW j \in Jobs, NEW point, Raises(j, point) \/ Works(j)
    PROVE  faults' \in 0 .. MaxFaults /\ beyond' \subseteq FaultPoints
  BY BoundsAssumption DEF NatType, Raises, Works

\* Only the executor of j changes, to w.
Becomes(j, w) == run' = [run EXCEPT ![j] = w]

LEMMA SetWorker ==
    ASSUME NatType, NEW j \in Jobs, NEW w \in Worker, Becomes(j, w)
    PROVE  /\ run' \in [Jobs -> Worker]
           /\ run'[j] = w
           /\ \A k \in Jobs : k # j => run'[k] = run[k]
  BY DEF NatType, Becomes

LEMMA GotoStep ==
    ASSUME NatType, NEW j \in Jobs, NEW p \in Places, Goto(j, p)
    PROVE  /\ run' \in [Jobs -> Worker]
           /\ run'[j] = [run[j] EXCEPT !.pc = p]
           /\ \A k \in Jobs : k # j => run'[k] = run[k]
<1> DEFINE w == [run[j] EXCEPT !.pc = p]
<1>1. run[j] \in Worker /\ run \in [Jobs -> Worker]
  BY DEF NatType
<1>2. w \in Worker
  BY <1>1 DEF Worker
<1>3. Becomes(j, w)
  BY <1>1 DEF Becomes, Goto
<1> HIDE DEF w
<1>4. run' \in [Jobs -> Worker] /\ run'[j] = w /\ \A k \in Jobs : k # j => run'[k] = run[k]
  BY <1>2, <1>3, SetWorker
<1> QED BY <1>4 DEF w

LEMMA SkipStep ==
    ASSUME NatType, NEW j \in Jobs, Skip(j)
    PROVE  /\ run' \in [Jobs -> Worker]
           /\ run'[j] = [Body(run[j]) EXCEPT !.poisoned = FALSE]
           /\ \A k \in Jobs : k # j => run'[k] = run[k]
<1> DEFINE w == [Body(run[j]) EXCEPT !.poisoned = FALSE]
<1>1. run[j] \in Worker /\ run \in [Jobs -> Worker]
  BY DEF NatType
<1>2. w \in Worker
  BY <1>1 DEF Worker, Places, Body
<1>3. Becomes(j, w)
  BY <1>1 DEF Becomes, Skip, RolledBack
<1> HIDE DEF w
<1>4. run' \in [Jobs -> Worker] /\ run'[j] = w /\ \A k \in Jobs : k # j => run'[k] = run[k]
  BY <1>2, <1>3, SetWorker
<1> QED BY <1>4 DEF w

\* A step of j leaves the rows, the answers and the executor of k alone.
Same(k) ==
    /\ run'[k] = run[k] /\ job'[k] = job[k]
    /\ stored'[k] = stored[k] /\ linked'[k] = linked[k]
    /\ task'[k] = task[k] /\ reply'[k] = reply[k]

Local(j) == \A k \in Jobs : k # j => Same(k)

SameRows(j) == job'[j] = job[j] /\ stored'[j] = stored[j] /\ linked'[j] = linked[j]

SameAnswers(j) == task'[j] = task[j] /\ reply'[j] = reply[j]

LEMMA SetRow ==
    ASSUME NatType, NEW j \in Jobs, NEW r \in JobRow, job' = [job EXCEPT ![j] = r]
    PROVE  /\ job' \in [Jobs -> JobRow]
           /\ job'[j] = r
           /\ \A k \in Jobs : k # j => job'[k] = job[k]
  BY DEF NatType

\* The actions seen from the job that takes them.
CreateDoes(j, q) ==
    /\ SameAnswers(j) /\ UNCHANGED <<devices, services, faults, beyond, stored, linked>>
    /\ run[j].pc = "idle"
    /\ \E p \in {"submit", "start"} : run'[j] = [run[j] EXCEPT !.mode = q.mode, !.pc = p]
    /\ job'[j] = [job[j] EXCEPT !.status = "pending", !.agent_id = q.agent_id,
                                !.target = q.target, !.scan_type = q.scan_type]

LEMMA CreateEffect ==
    ASSUME NatType, NEW j \in Jobs, NEW q \in Requests,
           Create(j, q)
    PROVE  NatType' /\ Local(j) /\ CreateDoes(j, q)
<1> USE DEF CreateDoes
<1> DEFINE p == IF q.mode = "async" THEN "submit" ELSE "start"
<1> DEFINE w == [run[j] EXCEPT !.mode = q.mode, !.pc = p]
<1> DEFINE r == [job[j] EXCEPT !.status = "pending", !.agent_id = q.agent_id,
                               !.target = q.target, !.scan_type = q.scan_type]
<1>0. /\ q.mode \in {"async", "sync"} /\ q.agent_id \in Agents
      /\ q.target \subseteq Hosts /\ q.scan_type \in {"host", "network"}
  BY ScopeAssumption
<1>1. /\ run[j] \in Worker /\ run \in [Jobs -> Worker]
      /\ job[j] \in JobRow /\ job \in [Jobs -> JobRow]
  BY DEF NatType
<1>2. w \in Worker /\ p \in {"submit", "start"}
  BY <1>1, <1>0 DEF Worker, Places
<1>3. r \in JobRow
  BY <1>1, <1>0 DEF JobRow, Statuses
<1>4. Becomes(j, w)
  BY <1>1 DEF Becomes, Create
<1>5. job' = [job EXCEPT ![j] = r]
  BY <1>1 DEF Create
<1> HIDE DEF w, r, p
<1>6. /\ run' \in [Jobs -> Worker] /\ run'[j] = w /\ \A k \in Jobs : k # j => run'[k] = run[k]
      /\ job' \in [Jobs -> JobRow] /\ job'[j] = r /\ \A k \in Jobs : k # j => job'[k] = job[k]
  BY <1>2, <1>3, <1>4, <1>5, SetWorker, SetRow
<1>7. UNCHANGED <<stored, linked, devices, services, task, reply, faults, crashes, beyond>>
  BY DEF Create, answered
<1>8. NatType' /\ Local(j) /\ SameAnswers(j)
  BY <1>6, <1>7 DEF NatType, Local, Same, SameAnswers
<1>9. \E x \in {"submit", "start"} : run'[j] = [run[j] EXCEPT !.mode = q.mode, !.pc = x]
  BY <1>6, <1>2 DEF w
<1> QED BY <1>6, <1>7, <1>8, <1>9 DEF r, Create, At

SubmitDoes(j) ==
    /\ SameRows(j) /\ UNCHANGED tables
    /\ run[j].pc = "submit" /\ task'[j] \in {task[j], "running"}
    /\ \/ /\ run'[j] = [run[j] EXCEPT !.pc = "start"]
          /\ reply'[j] = "202" /\ Works(j)
       \/ /\ run'[j] = [run[j] EXCEPT !.pc = "done"]
          /\ reply'[j] = "500"
          /\ Raises(j, "submit") \/ Raises(j, "thread")

LEMMA SubmitEffect ==
    ASSUME NatType, NEW j \in Jobs, Submit(j)
    PROVE  NatType' /\ Local(j) /\ SubmitDoes(j)
<1> USE DEF SubmitDoes
<1>1. PICK p \in {"start", "done"} : Goto(j, p)
  BY DEF Submit
<1>2. run' \in [Jobs -> Worker] /\ \A k \in Jobs : k # j => run'[k] = run[k]
  BY <1>1, GotoStep DEF Places
<1>3. faults' \in 0 .. MaxFaults /\ beyond' \subseteq FaultPoints
  BY RaisesType DEF Submit
<1>4. NatType' /\ Local(j) /\ SameRows(j)
  BY <1>2, <1>3 DEF Submit, NatType, Local, Same, SameRows, tables
<1>5. \A place \in Places : Goto(j, place) => run'[j] = [run[j] EXCEPT !.pc = place]
  BY GotoStep
<1>6. task'[j] \in {task[j], "running"} /\ reply \in [Jobs -> {"none", "202", "200", "500", "lost"}]
  BY DEF Submit, NatType
<1>7. CASE Works(j) /\ Goto(j, "start") /\ reply' = [reply EXCEPT ![j] = "202"]
  BY <1>4, <1>5, <1>6, <1>7 DEF Submit, At, Places
<1>8. CASE /\ Raises(j, "submit") \/ Raises(j, "thread")
           /\ Goto(j, "done") /\ reply' = [reply EXCEPT ![j] = "500"]
  BY <1>4, <1>5, <1>6, <1>8 DEF Submit, At, Places
<1> QED BY <1>7, <1>8 DEF Submit

BeginDoes(j) ==
    /\ SameAnswers(j) /\ UNCHANGED <<stored, linked, devices, services>>
    /\ run[j].pc = "start"
    /\ \/ /\ run'[j] = [run[j] EXCEPT !.pc = "scan"]
          /\ job'[j] = [job[j] EXCEPT !.status = "running", !.started_at = TRUE]
          /\ Works(j)
       \/ /\ run'[j] = [run[j] EXCEPT !.pc = "raise"]
          /\ job'[j] = job[j]
          /\ Raises(j, "start")

LEMMA BeginEffect ==
    ASSUME NatType, NEW j \in Jobs, Begin(j)
    PROVE  NatType' /\ Local(j) /\ BeginDoes(j)
<1> USE DEF BeginDoes
<1> DEFINE r == [job[j] EXCEPT !.status = "running", !.started_at = TRUE]
<1>1. job[j] \in JobRow /\ job \in [Jobs -> JobRow]
  BY DEF NatType
<1>2. r \in JobRow
  BY <1>1 DEF JobRow, Statuses
<1>3. faults' \in 0 .. MaxFaults /\ beyond' \subseteq FaultPoints
  BY RaisesType DEF Begin
<1>4. CASE /\ job' = [job EXCEPT ![j].status = "running", ![j].started_at = TRUE]
           /\ Goto(j, "scan") /\ Works(j)
  <2>1. job' = [job EXCEPT ![j] = r]
    BY <1>1, <1>4
  <2> HIDE DEF r
  <2>2. /\ job' \in [Jobs -> JobRow] /\ job'[j] = r
        /\ \A k \in Jobs : k # j => job'[k] = job[k]
    BY <1>2, <2>1, SetRow
  <2>3. /\ run' \in [Jobs -> Worker] /\ run'[j] = [run[j] EXCEPT !.pc = "scan"]
        /\ \A k \in Jobs : k # j => run'[k] = run[k]
    BY <1>4, GotoStep DEF Places
  <2>4. UNCHANGED <<stored, linked, devices, services, task, reply, crashes>>
    BY DEF Begin, answered
  <2>5. NatType' /\ Local(j)
    BY <1>3, <2>2, <2>3, <2>4 DEF NatType, Local, Same
  <2> QED BY <2>2, <2>3, <2>4, <2>5, <1>4 DEF Begin, At, SameAnswers, r
<1>5. CASE Raises(j, "start") /\ Goto(j, StartFailed) /\ UNCHANGED job
  <2>1. Goto(j, "raise")
    BY <1>5 DEF StartFailed
  <2>2. NatType' /\ Local(j) /\ run'[j] = [run[j] EXCEPT !.pc = "raise"]
    BY <2>1, <1>3, <1>5, GotoStep DEF NatType, Local, Same, Begin, answered, Places
  <2> QED BY <2>2, <1>5 DEF Begin, At, answered, SameAnswers
<1> QED BY <1>4, <1>5 DEF Begin

\* Whatever the kind of scan, it reports what a provider says of a host.
LEMMA ReportedType ==
    ASSUME NatType, NEW j \in Jobs
    PROVE  Reported(j) \subseteq AllResults
<1>1. job[j].target \subseteq Hosts
  BY DEF NatType, JobRow
<1> QED BY <1>1, ScopeAssumption DEF Reported, Results, AllResults

ScanDoes(j) ==
    /\ SameRows(j) /\ SameAnswers(j) /\ UNCHANGED tables
    /\ run[j].pc = "scan"
    /\ \/ /\ \E found \in SUBSET Reported(j) :
               run'[j] = [run[j] EXCEPT !.todo = found, !.total = Cardinality(found),
                                        !.pc = "next"]
          /\ Works(j)
       \/ /\ run'[j] = [run[j] EXCEPT !.pc = "fail"]
          /\ Raises(j, "scan")

LEMMA ScanEffect ==
    ASSUME NatType, NEW j \in Jobs, Scan(j)
    PROVE  NatType' /\ Local(j) /\ ScanDoes(j)
<1> USE DEF ScanDoes
<1>1. run[j] \in Worker /\ run \in [Jobs -> Worker]
  BY DEF NatType
<1>2. faults' \in 0 .. MaxFaults /\ beyond' \subseteq FaultPoints
  BY RaisesType DEF Scan
<1>3. /\ SameRows(j) /\ SameAnswers(j) /\ UNCHANGED tables
      /\ run[j].pc = "scan"
  BY DEF Scan, At, answered, tables, SameRows, SameAnswers
<1>4. ASSUME NEW found \in SUBSET Reported(j), Works(j),
             run' = [run EXCEPT ![j].todo = found, ![j].total = Cardinality(found),
                                ![j].pc = "next"]
      PROVE  /\ NatType' /\ Local(j)
             /\ run'[j] = [run[j] EXCEPT !.todo = found, !.total = Cardinality(found),
                                         !.pc = "next"]
  <2>1. found \subseteq AllResults
    BY ReportedType
  <2>2. Cardinality(found) \in Nat
    BY <2>1, AllResultsFinite, FS_Subset, FS_CardinalityType
  <2> DEFINE n == Cardinality(found)
  <2> DEFINE w == [run[j] EXCEPT !.todo = found, !.total = n, !.pc = "next"]
  <2>3. Becomes(j, w)
    BY <1>1, <1>4 DEF Becomes
  <2> HIDE DEF n
  <2>4. n \in Nat
    BY <2>2 DEF n
  <2>5. w \in Worker
    BY <1>1, <2>1, <2>4 DEF Worker, Places
  <2> HIDE DEF w
  <2>6. run' \in [Jobs -> Worker] /\ run'[j] = w /\ \A k \in Jobs : k # j => run'[k] = run[k]
    BY <2>3, <2>5, SetWorker
  <2>7. NatType' /\ Local(j)
    BY <2>6, <1>2 DEF NatType, Local, Same, Scan, answered, tables
  <2> QED BY <2>6, <2>7 DEF w, n
<1>5. CASE Raises(j, "scan") /\ Goto(j, "fail")
  <2>1. NatType' /\ Local(j) /\ run'[j] = [run[j] EXCEPT !.pc = "fail"]
    BY <1>2, <1>5, GotoStep DEF NatType, Local, Same, Scan, answered, tables, Places
  <2> QED BY <2>1, <1>3, <1>5
<1> QED BY <1>3, <1>4, <1>5 DEF Scan

FinishDoes(j) ==
    /\ SameAnswers(j) /\ UNCHANGED <<stored, linked, devices, services>>
    /\ run[j].pc = "next" /\ run[j].todo = {}
    /\ \/ /\ run'[j] = [run[j] EXCEPT !.pc = "return"]
          /\ job'[j] = [job[j] EXCEPT !.status = "completed",
                                      !.observations_count = run[j].total,
                                      !.devices_found = run[j].processed,
                                      !.completed_at = TRUE]
          /\ Works(j)
       \/ /\ \E p \in BOOLEAN : run'[j] = [run[j] EXCEPT !.pc = "fail", !.poisoned = p]
          /\ job'[j] = job[j]
          /\ Raises(j, "finish")

LEMMA FinishEffect ==
    ASSUME NatType, NEW j \in Jobs, Finish(j)
    PROVE  NatType' /\ Local(j) /\ FinishDoes(j)
<1> USE DEF FinishDoes
<1> DEFINE r == [job[j] EXCEPT !.status = "completed", !.observations_count = run[j].total,
                               !.devices_found = run[j].processed, !.completed_at = TRUE]
<1>1. /\ job[j] \in JobRow /\ job \in [Jobs -> JobRow]
      /\ run[j] \in Worker /\ run \in [Jobs -> Worker]
  BY DEF NatType
<1>2. r \in JobRow
  BY <1>1 DEF JobRow, Worker, Statuses
<1>3. faults' \in 0 .. MaxFaults /\ beyond' \subseteq FaultPoints
  BY RaisesType DEF Finish
<1>4. /\ SameAnswers(j) /\ UNCHANGED <<stored, linked, devices, services>>
      /\ run[j].pc = "next" /\ run[j].todo = {}
  BY DEF Finish, At, answered, SameAnswers
<1>5. CASE /\ job' = [job EXCEPT ![j].status = FinalStatus(j),
                                 ![j].observations_count = run[j].total,
                                 ![j].devices_found = Found(j),
                                 ![j].completed_at = TRUE]
           /\ Goto(j, "return") /\ Works(j)
  <2>1. job' = [job EXCEPT ![j] = r]
    BY <1>1, <1>5 DEF FinalStatus, Found
  <2> HIDE DEF r
  <2>2. /\ job' \in [Jobs -> JobRow] /\ job'[j] = r
        /\ \A k \in Jobs : k # j => job'[k] = job[k]
    BY <1>2, <2>1, SetRow
  <2>3. /\ run' \in [Jobs -> Worker] /\ run'[j] = [run[j] EXCEPT !.pc = "return"]
        /\ \A k \in Jobs : k # j => run'[k] = run[k]
    BY <1>5, GotoStep DEF Places
  <2>4. UNCHANGED <<stored, linked, devices, services, task, reply, crashes>>
    BY DEF Finish, answered
  <2>5. NatType' /\ Local(j)
    BY <1>3, <2>2, <2>3, <2>4 DEF NatType, Local, Same
  <2> QED BY <2>2, <2>3, <2>5, <1>4, <1>5 DEF r
<1>6. ASSUME NEW q \in BOOLEAN, Raises(j, "finish"), UNCHANGED job,
             run' = [run EXCEPT ![j].pc = "fail", ![j].poisoned = q \/ run[j].poisoned]
      PROVE  /\ NatType' /\ Local(j)
             /\ \E p \in BOOLEAN : run'[j] = [run[j] EXCEPT !.pc = "fail", !.poisoned = p]
  <2>1. PICK p \in BOOLEAN : p = (q \/ run[j].poisoned)
    BY <1>1 DEF Worker
  <2> DEFINE w == [run[j] EXCEPT !.pc = "fail", !.poisoned = p]
  <2>2. Becomes(j, w)
    BY <1>1, <1>6, <2>1 DEF Becomes
  <2>3. w \in Worker
    BY <1>1 DEF Worker, Places
  <2> HIDE DEF w
  <2>4. run' \in [Jobs -> Worker] /\ run'[j] = w /\ \A k \in Jobs : k # j => run'[k] = run[k]
    BY <2>2, <2>3, SetWorker
  <2>5. NatType' /\ Local(j)
    BY <2>4, <1>3, <1>6 DEF NatType, Local, Same, Finish, answered
  <2> QED BY <2>4, <2>5 DEF w
<1> QED BY <1>4, <1>5, <1>6 DEF Finish

FailDoes(j) ==
    /\ SameAnswers(j) /\ UNCHANGED <<stored, linked, devices, services>>
    /\ run[j].pc = "fail"
    /\ \/ /\ run'[j] = [run[j] EXCEPT !.pc = "return"]
          /\ job'[j] = [job[j] EXCEPT !.status = "failed", !.completed_at = TRUE]
          /\ Works(j)
       \/ /\ run'[j] = [run[j] EXCEPT !.pc = "raise"]
          /\ job'[j] = job[j]
          /\ Raises(j, "fail")

LEMMA FailEffect ==
    ASSUME NatType, NEW j \in Jobs, Fail(j)
    PROVE  NatType' /\ Local(j) /\ FailDoes(j)
<1> USE DEF FailDoes
<1> DEFINE r == [job[j] EXCEPT !.status = "failed", !.completed_at = TRUE]
<1>1. job[j] \in JobRow /\ job \in [Jobs -> JobRow]
  BY DEF NatType
<1>2. r \in JobRow
  BY <1>1 DEF JobRow, Statuses
<1>3. faults' \in 0 .. MaxFaults /\ beyond' \subseteq FaultPoints
  BY RaisesType DEF Fail
<1>4. UNCHANGED <<stored, linked, devices, services, task, reply, crashes>> /\ run[j].pc = "fail"
  BY DEF Fail, answered, At
<1>5. CASE /\ job' = [job EXCEPT ![j].status = "failed", ![j].completed_at = TRUE]
           /\ Goto(j, Failed) /\ Works(j)
  <2>1. job' = [job EXCEPT ![j] = r]
    BY <1>1, <1>5
  <2> HIDE DEF r
  <2>2. /\ job' \in [Jobs -> JobRow] /\ job'[j] = r
        /\ \A k \in Jobs : k # j => job'[k] = job[k]
    BY <1>2, <2>1, SetRow
  <2>3. /\ run' \in [Jobs -> Worker] /\ run'[j] = [run[j] EXCEPT !.pc = "return"]
        /\ \A k \in Jobs : k # j => run'[k] = run[k]
    BY <1>5, GotoStep DEF Places, Failed
  <2>4. NatType' /\ Local(j)
    BY <1>3, <1>4, <2>2, <2>3 DEF NatType, Local, Same
  <2> QED BY <1>4, <1>5, <2>2, <2>3, <2>4 DEF SameAnswers, r
<1>6. CASE Raises(j, "fail") /\ Goto(j, "raise") /\ UNCHANGED job
  <2>1. NatType' /\ Local(j) /\ run'[j] = [run[j] EXCEPT !.pc = "raise"]
    BY <1>3, <1>4, <1>6, GotoStep DEF NatType, Local, Same, Places
  <2> QED BY <2>1, <1>4, <1>6 DEF SameAnswers
<1> QED BY <1>5, <1>6 DEF Fail

ObserveDoes(j) ==
    /\ SameAnswers(j) /\ UNCHANGED <<job, linked, devices, services>>
    /\ run[j].pc = "next"
    /\ \E r \in run[j].todo :
         \/ /\ run'[j] = [run[j] EXCEPT !.todo = @ \ {r}, !.result = r, !.pc = "select"]
            /\ stored'[j] = stored[j] + 1
            /\ Works(j)
         \/ /\ run'[j] = [run[j] EXCEPT !.todo = @ \ {r}, !.poisoned = FALSE]
            /\ stored'[j] = stored[j]
            /\ Raises(j, "observe")

LEMMA ObserveEffect ==
    ASSUME NatType, NEW j \in Jobs, Observe(j)
    PROVE  NatType' /\ Local(j) /\ ObserveDoes(j)
<1> USE DEF ObserveDoes
<1>1. run[j] \in Worker /\ run \in [Jobs -> Worker] /\ stored \in [Jobs -> Nat]
  BY DEF NatType
<1>2. faults' \in 0 .. MaxFaults /\ beyond' \subseteq FaultPoints
  BY RaisesType DEF Observe
<1>3. UNCHANGED <<job, linked, devices, services, task, reply, crashes>> /\ run[j].pc = "next"
  BY DEF Observe, answered, At
<1>4. ASSUME NEW r \in run[j].todo, Works(j),
             stored' = [stored EXCEPT ![j] = @ + 1],
             run' = [run EXCEPT ![j].todo = @ \ {r}, ![j].result = r, ![j].pc = "select"]
      PROVE  /\ NatType' /\ Local(j) /\ stored'[j] = stored[j] + 1
             /\ run'[j] = [run[j] EXCEPT !.todo = @ \ {r}, !.result = r, !.pc = "select"]
  <2> DEFINE w == [run[j] EXCEPT !.todo = @ \ {r}, !.result = r, !.pc = "select"]
  <2>1. Becomes(j, w)
    BY <1>1, <1>4 DEF Becomes
  <2>2. w \in Worker
    BY <1>1 DEF Worker, Places
  <2> HIDE DEF w
  <2>3. run' \in [Jobs -> Worker] /\ run'[j] = w /\ \A k \in Jobs : k # j => run'[k] = run[k]
    BY <2>1, <2>2, SetWorker
  <2>4. NatType' /\ Local(j)
    BY <2>3, <1>2, <1>3, <1>1, <1>4 DEF NatType, Local, Same
  <2> QED BY <2>3, <2>4, <1>1, <1>4 DEF w
<1>5. ASSUME NEW r \in run[j].todo, Raises(j, "observe"), UNCHANGED stored,
             run' = [run EXCEPT ![j].todo = @ \ {r}, ![j].poisoned = RolledBack]
      PROVE  /\ NatType' /\ Local(j)
             /\ run'[j] = [run[j] EXCEPT !.todo = @ \ {r}, !.poisoned = FALSE]
  <2> DEFINE w == [run[j] EXCEPT !.todo = @ \ {r}, !.poisoned = FALSE]
  <2>1. Becomes(j, w)
    BY <1>1, <1>5 DEF Becomes, RolledBack
  <2>2. w \in Worker
    BY <1>1 DEF Worker
  <2> HIDE DEF w
  <2>3. run' \in [Jobs -> Worker] /\ run'[j] = w /\ \A k \in Jobs : k # j => run'[k] = run[k]
    BY <2>1, <2>2, SetWorker
  <2>4. NatType' /\ Local(j)
    BY <2>3, <1>2, <1>3, <1>5 DEF NatType, Local, Same
  <2> QED BY <2>3, <2>4 DEF w
<1>6. PICK r \in run[j].todo :
        \/ /\ stored' = [stored EXCEPT ![j] = @ + 1]
           /\ run' = [run EXCEPT ![j].todo = @ \ {r}, ![j].result = r, ![j].pc = "select"]
           /\ Works(j)
        \/ /\ run' = [run EXCEPT ![j].todo = @ \ {r}, ![j].poisoned = RolledBack]
           /\ Raises(j, "observe")
           /\ UNCHANGED stored
  BY DEF Observe
<1>7. CASE /\ stored' = [stored EXCEPT ![j] = @ + 1]
           /\ run' = [run EXCEPT ![j].todo = @ \ {r}, ![j].result = r, ![j].pc = "select"]
           /\ Works(j)
  BY <1>3, <1>4, <1>7 DEF SameAnswers
<1>8. CASE /\ run' = [run EXCEPT ![j].todo = @ \ {r}, ![j].poisoned = RolledBack]
           /\ Raises(j, "observe")
           /\ UNCHANGED stored
  BY <1>3, <1>5, <1>8 DEF SameAnswers
<1> QED BY <1>6, <1>7, <1>8

SelectDoes(j) ==
    /\ SameRows(j) /\ SameAnswers(j) /\ UNCHANGED tables
    /\ run[j].pc = "select"
    /\ \/ /\ \E there \in BOOLEAN :
               /\ there <=> There(Of(j))
               /\ run'[j] = [run[j] EXCEPT !.exists = there, !.pc = "upsert"]
          /\ Works(j)
       \/ /\ run'[j] = [Body(run[j]) EXCEPT !.poisoned = FALSE]
          /\ Raises(j, "device")

LEMMA SelectEffect ==
    ASSUME NatType, NEW j \in Jobs, SelectDevice(j)
    PROVE  NatType' /\ Local(j) /\ SelectDoes(j)
<1> USE DEF SelectDoes
<1>1. run[j] \in Worker /\ run \in [Jobs -> Worker]
  BY DEF NatType
<1>2. faults' \in 0 .. MaxFaults /\ beyond' \subseteq FaultPoints
  BY RaisesType DEF SelectDevice
<1>3. /\ UNCHANGED <<job, stored, linked, devices, services, task, reply, crashes>>
      /\ SameRows(j) /\ SameAnswers(j) /\ UNCHANGED tables
      /\ run[j].pc = "select"
  BY DEF SelectDevice, At, answered, tables, SameRows, SameAnswers
<1>4. CASE /\ run' = [run EXCEPT ![j].exists = There(Of(j)), ![j].pc = "upsert"]
           /\ Works(j)
  <2>0. There(Of(j)) \in BOOLEAN
    BY DEF There
  <2>1. PICK there \in BOOLEAN : there = There(Of(j))
    BY <2>0
  <2> DEFINE w == [run[j] EXCEPT !.exists = there, !.pc = "upsert"]
  <2>2. Becomes(j, w)
    BY <1>1, <1>4, <2>1 DEF Becomes
  <2>3. w \in Worker
    BY <1>1 DEF Worker, Places
  <2> HIDE DEF w
  <2>4. run' \in [Jobs -> Worker] /\ run'[j] = w /\ \A k \in Jobs : k # j => run'[k] = run[k]
    BY <2>2, <2>3, SetWorker
  <2>5. NatType' /\ Local(j)
    BY <2>4, <1>2, <1>3 DEF NatType, Local, Same
  <2> QED BY <2>1, <2>4, <2>5, <1>3, <1>4 DEF w
<1>5. CASE Skip(j) /\ Raises(j, "device")
  <2>1. /\ run' \in [Jobs -> Worker]
        /\ run'[j] = [Body(run[j]) EXCEPT !.poisoned = FALSE]
        /\ \A k \in Jobs : k # j => run'[k] = run[k]
    BY <1>5, SkipStep
  <2>2. NatType' /\ Local(j)
    BY <2>1, <1>2, <1>3 DEF NatType, Local, Same
  <2> QED BY <2>1, <2>2, <1>3, <1>5
<1> QED BY <1>4, <1>5 DEF SelectDevice

\* What an insert by j does to the devices table.
Inserted(d) == devices' = [devices EXCEPT ![d] = @ + 1]

UpsertDoes(j) ==
    /\ SameRows(j) /\ SameAnswers(j) /\ UNCHANGED services
    /\ run[j].pc = "upsert"
    /\ \/ /\ run'[j] = [run[j] EXCEPT !.pc = "details"]
          /\ \/ run[j].exists /\ UNCHANGED devices
             \/ ~ run[j].exists /\ ~ Refused(Of(j)) /\ Inserted(Of(j))
          /\ Works(j)
       \/ /\ run'[j] = [Body(run[j]) EXCEPT !.poisoned = FALSE]
          /\ UNCHANGED devices
          /\ \/ ~ run[j].exists /\ Refused(Of(j)) /\ UNCHANGED <<faults, beyond>>
             \/ Raises(j, "device")

LEMMA UpsertEffect ==
    ASSUME NatType, NEW j \in Jobs, Of(j) \in Hosts \X Agents, UpsertDevice(j)
    PROVE  NatType' /\ Local(j) /\ UpsertDoes(j)
<1> USE DEF UpsertDoes
<1>1. devices \in [Hosts \X Agents -> Nat]
  BY DEF NatType
<1>2. faults' \in 0 .. MaxFaults /\ beyond' \subseteq FaultPoints
  BY RaisesType DEF UpsertDevice, NatType
<1>3. /\ UNCHANGED <<job, stored, linked, services, task, reply, crashes>>
      /\ SameRows(j) /\ SameAnswers(j) /\ UNCHANGED services
      /\ run[j].pc = "upsert"
  BY DEF UpsertDevice, At, answered, SameRows, SameAnswers
<1>4. devices' \in [Hosts \X Agents -> Nat]
  BY <1>1 DEF UpsertDevice
<1>5. ASSUME Goto(j, "details")
      PROVE  NatType' /\ Local(j) /\ run'[j] = [run[j] EXCEPT !.pc = "details"]
  BY <1>2, <1>3, <1>4, <1>5, GotoStep DEF NatType, Local, Same, Places
<1>6. ASSUME Skip(j)
      PROVE  /\ NatType' /\ Local(j)
             /\ run'[j] = [Body(run[j]) EXCEPT !.poisoned = FALSE]
  <2>1. /\ run' \in [Jobs -> Worker]
        /\ run'[j] = [Body(run[j]) EXCEPT !.poisoned = FALSE]
        /\ \A k \in Jobs : k # j => run'[k] = run[k]
    BY <1>6, SkipStep
  <2>2. NatType' /\ Local(j)
    BY <2>1, <1>2, <1>3, <1>4 DEF NatType, Local, Same
  <2> QED BY <2>1, <2>2
<1>7. CASE run[j].exists /\ Goto(j, "details") /\ Works(j) /\ UNCHANGED devices
  BY <1>3, <1>5, <1>7
<1>8. CASE /\ ~ run[j].exists /\ ~ Refused(Of(j)) /\ Inserted(Of(j))
           /\ Goto(j, "details") /\ Works(j)
  BY <1>3, <1>5, <1>8
<1>9. CASE ~ run[j].exists /\ Refused(Of(j)) /\ Skip(j) /\ UNCHANGED <<devices, faults, beyond>>
  BY <1>3, <1>6, <1>9
<1>10. CASE Skip(j) /\ Raises(j, "device") /\ UNCHANGED devices
  BY <1>3, <1>6, <1>10
<1> QED BY <1>7, <1>8, <1>9, <1>10 DEF UpsertDevice, Inserted

SelectServiceDoes(j) ==
    /\ SameRows(j) /\ SameAnswers(j) /\ UNCHANGED tables
    /\ run[j].pc = "details"
    /\ \/ run'[j] = [run[j] EXCEPT !.pc = "link"] /\ Works(j)
       \/ /\ HasServices(j)
          /\ \E found \in BOOLEAN :
               run'[j] = [run[j] EXCEPT !.exists = found, !.known = services[Of(j)],
                                        !.pc = "service"]
          /\ Works(j)
       \/ /\ run'[j] = [Body(run[j]) EXCEPT !.poisoned = FALSE]
          /\ Raises(j, "details")

LEMMA SelectServiceEffect ==
    ASSUME NatType, NEW j \in Jobs, Of(j) \in Hosts \X Agents, SelectService(j)
    PROVE  NatType' /\ Local(j) /\ SelectServiceDoes(j)
<1> USE DEF SelectServiceDoes
<1>1. faults' \in 0 .. MaxFaults /\ beyond' \subseteq FaultPoints
  BY RaisesType DEF SelectService
<1>2. /\ UNCHANGED <<job, stored, linked, devices, services, task, reply, crashes>>
      /\ SameRows(j) /\ SameAnswers(j) /\ UNCHANGED tables
      /\ run[j].pc = "details"
  BY DEF SelectService, At, answered, tables, SameRows, SameAnswers
<1>3. CASE Goto(j, "link") /\ Works(j)
  <2>1. NatType' /\ Local(j) /\ run'[j] = [run[j] EXCEPT !.pc = "link"]
    BY <1>1, <1>2, <1>3, GotoStep DEF NatType, Local, Same, Places
  <2> QED BY <2>1, <1>2, <1>3
<1>4. ASSUME HasServices(j), Works(j), NEW found \in BOOLEAN,
             run' = [run EXCEPT ![j].exists = found, ![j].known = services[Of(j)],
                                ![j].pc = "service"]
      PROVE  NatType' /\ Local(j) /\ SelectServiceDoes(j)
  <2> DEFINE n == services[Of(j)]
  <2> DEFINE w == [run[j] EXCEPT !.exists = found, !.known = n, !.pc = "service"]
  <2>1. n \in Nat /\ run[j] \in Worker /\ run \in [Jobs -> Worker]
    BY DEF NatType
  <2>2. Becomes(j, w)
    BY <1>4, <2>1 DEF Becomes
  <2> HIDE DEF n
  <2>3. w \in Worker
    BY <2>1 DEF Worker, Places
  <2> HIDE DEF w
  <2>4. run' \in [Jobs -> Worker] /\ run'[j] = w /\ \A k \in Jobs : k # j => run'[k] = run[k]
    BY <2>2, <2>3, SetWorker
  <2>5. NatType' /\ Local(j)
    BY <2>4, <1>1, <1>2 DEF NatType, Local, Same
  <2> QED BY <2>4, <2>5, <1>2, <1>4 DEF w, n
<1>5. CASE Skip(j) /\ Raises(j, "details")
  <2>1. /\ NatType' /\ Local(j)
        /\ run'[j] = [Body(run[j]) EXCEPT !.poisoned = FALSE]
    BY <1>1, <1>2, <1>5, SkipStep DEF NatType, Local, Same
  <2> QED BY <2>1, <1>2, <1>5
<1> QED BY <1>3, <1>4, <1>5 DEF SelectService

\* What an insert by j does to the services table.
Served(d) == services' = [services EXCEPT ![d] = @ + 1]

UpsertServiceDoes(j) ==
    /\ SameRows(j) /\ SameAnswers(j) /\ UNCHANGED devices
    /\ run[j].pc = "service"
    /\ \/ /\ run'[j] = [run[j] EXCEPT !.pc = "link"]
          /\ \/ UNCHANGED services
             \/ services[Of(j)] < devices[Of(j)] /\ Served(Of(j))
          /\ Works(j)
       \/ /\ run'[j] = [Body(run[j]) EXCEPT !.poisoned = FALSE]
          /\ UNCHANGED services
          /\ \/ ~ run[j].exists /\ services[Of(j)] > run[j].known /\ UNCHANGED <<faults, beyond>>
             \/ Raises(j, "details")

LEMMA UpsertServiceEffect ==
    ASSUME NatType, NEW j \in Jobs, Of(j) \in Hosts \X Agents, UpsertService(j)
    PROVE  NatType' /\ Local(j) /\ UpsertServiceDoes(j)
<1> USE DEF UpsertServiceDoes
<1>1. services \in [Hosts \X Agents -> Nat]
  BY DEF NatType
<1>2. faults' \in 0 .. MaxFaults /\ beyond' \subseteq FaultPoints
  BY RaisesType DEF UpsertService, NatType
<1>3. /\ UNCHANGED <<job, stored, linked, devices, task, reply, crashes>>
      /\ SameRows(j) /\ SameAnswers(j) /\ UNCHANGED devices
      /\ run[j].pc = "service"
  BY DEF UpsertService, At, answered, SameRows, SameAnswers
<1>4. services' \in [Hosts \X Agents -> Nat]
  BY <1>1 DEF UpsertService
<1>5. ASSUME Goto(j, "link")
      PROVE  NatType' /\ Local(j) /\ run'[j] = [run[j] EXCEPT !.pc = "link"]
  BY <1>2, <1>3, <1>4, <1>5, GotoStep DEF NatType, Local, Same, Places
<1>6. ASSUME Skip(j)
      PROVE  /\ NatType' /\ Local(j)
             /\ run'[j] = [Body(run[j]) EXCEPT !.poisoned = FALSE]
  <2>1. /\ run' \in [Jobs -> Worker]
        /\ run'[j] = [Body(run[j]) EXCEPT !.poisoned = FALSE]
        /\ \A k \in Jobs : k # j => run'[k] = run[k]
    BY <1>6, SkipStep
  <2>2. NatType' /\ Local(j)
    BY <2>1, <1>2, <1>3, <1>4 DEF NatType, Local, Same
  <2> QED BY <2>1, <2>2
<1>7. CASE Goto(j, "link") /\ Works(j) /\ UNCHANGED services
  BY <1>3, <1>5, <1>7
<1>8. CASE /\ services[Of(j)] < devices[Of(j)] /\ Served(Of(j))
           /\ Goto(j, "link") /\ Works(j)
  BY <1>3, <1>5, <1>8
<1>9. CASE /\ ~ run[j].exists /\ services[Of(j)] > run[j].known
           /\ Skip(j) /\ UNCHANGED <<services, faults, beyond>>
  BY <1>3, <1>6, <1>9
<1>10. CASE Skip(j) /\ Raises(j, "details") /\ UNCHANGED services
  BY <1>3, <1>6, <1>10
<1> QED BY <1>7, <1>8, <1>9, <1>10 DEF UpsertService, Served

LinkDoes(j) ==
    /\ SameAnswers(j) /\ UNCHANGED <<job, stored, devices, services>>
    /\ run[j].pc = "link"
    /\ \/ /\ run'[j] = [run[j] EXCEPT !.pc = "append"]
          /\ linked'[j] = linked[j] + 1
          /\ Works(j)
       \/ /\ run'[j] = [Body(run[j]) EXCEPT !.poisoned = FALSE]
          /\ linked'[j] = linked[j]
          /\ Raises(j, "link")

LEMMA LinkEffect ==
    ASSUME NatType, NEW j \in Jobs, Link(j)
    PROVE  NatType' /\ Local(j) /\ LinkDoes(j)
<1> USE DEF LinkDoes
<1>1. faults' \in 0 .. MaxFaults /\ beyond' \subseteq FaultPoints
  BY RaisesType DEF Link
<1>2. /\ UNCHANGED <<job, stored, devices, services, task, reply, crashes>>
      /\ SameAnswers(j) /\ run[j].pc = "link" /\ linked \in [Jobs -> Nat]
  BY DEF Link, At, answered, SameAnswers, NatType
<1>3. CASE linked' = [linked EXCEPT ![j] = @ + 1] /\ Goto(j, "append") /\ Works(j)
  <2>1. /\ linked' \in [Jobs -> Nat] /\ linked'[j] = linked[j] + 1
        /\ \A k \in Jobs : k # j => linked'[k] = linked[k]
    BY <1>2, <1>3
  <2>2. /\ run' \in [Jobs -> Worker] /\ run'[j] = [run[j] EXCEPT !.pc = "append"]
        /\ \A k \in Jobs : k # j => run'[k] = run[k]
    BY <1>3, GotoStep DEF Places
  <2>3. NatType' /\ Local(j)
    BY <1>1, <1>2, <2>1, <2>2 DEF NatType, Local, Same
  <2> QED BY <2>1, <2>2, <2>3, <1>2, <1>3
<1>4. CASE Skip(j) /\ Raises(j, "link") /\ UNCHANGED linked
  <2>1. /\ NatType' /\ Local(j)
        /\ run'[j] = [Body(run[j]) EXCEPT !.poisoned = FALSE]
    BY <1>1, <1>2, <1>4, SkipStep DEF NatType, Local, Same
  <2> QED BY <2>1, <1>2, <1>4
<1> QED BY <1>3, <1>4 DEF Link

AppendDoes(j) ==
    /\ SameRows(j) /\ SameAnswers(j) /\ UNCHANGED tables
    /\ run[j].pc = "append"
    /\ \/ /\ run'[j] = [Body(run[j]) EXCEPT !.processed = run[j].processed + 1]
          /\ Works(j)
       \/ /\ run'[j] = [Body(run[j]) EXCEPT !.poisoned = FALSE]
          /\ Raises(j, "append")

LEMMA AppendEffect ==
    ASSUME NatType, NEW j \in Jobs, AppendProcessed(j)
    PROVE  NatType' /\ Local(j) /\ AppendDoes(j)
<1> USE DEF AppendDoes
<1>1. faults' \in 0 .. MaxFaults /\ beyond' \subseteq FaultPoints
  BY RaisesType DEF AppendProcessed
<1>2. /\ UNCHANGED <<job, stored, linked, devices, services, task, reply, crashes>>
      /\ SameRows(j) /\ SameAnswers(j) /\ UNCHANGED tables
      /\ run[j].pc = "append"
  BY DEF AppendProcessed, At, answered, tables, SameRows, SameAnswers
<1>3. run[j] \in Worker /\ run \in [Jobs -> Worker]
  BY DEF NatType
<1>4. CASE /\ run' = [run EXCEPT ![j] = [Body(run[j]) EXCEPT !.processed = run[j].processed + 1]]
           /\ Works(j)
  <2> DEFINE n == run[j].processed + 1
  <2> DEFINE w == [Body(run[j]) EXCEPT !.processed = n]
  <2>1. run' = [run EXCEPT ![j] = w]
    BY <1>3, <1>4 DEF Worker
  <2>2. n \in Nat
    BY <1>3 DEF Worker
  <2> HIDE DEF n
  <2>3. w \in Worker
    BY <1>3, <2>2 DEF Worker, Places, Body
  <2> HIDE DEF w
  <2>4. run' \in [Jobs -> Worker] /\ run'[j] = w /\ \A k \in Jobs : k # j => run'[k] = run[k]
    BY <2>1, <2>3, SetWorker DEF Becomes
  <2>5. NatType' /\ Local(j)
    BY <2>4, <1>1, <1>2 DEF NatType, Local, Same
  <2> QED BY <2>4, <2>5, <1>2, <1>4 DEF w, n
<1>5. CASE Skip(j) /\ Raises(j, "append")
  <2>1. /\ NatType' /\ Local(j)
        /\ run'[j] = [Body(run[j]) EXCEPT !.poisoned = FALSE]
    BY <1>1, <1>2, <1>5, SkipStep DEF NatType, Local, Same
  <2> QED BY <2>1, <1>2, <1>5
<1> QED BY <1>4, <1>5 DEF AppendProcessed

ReturnDoes(j) ==
    /\ SameRows(j) /\ UNCHANGED tables
    /\ run[j].pc = "return" /\ run'[j] = [run[j] EXCEPT !.pc = "done"]
    /\ \/ /\ task'[j] = "completed" /\ reply'[j] = reply[j]
          /\ UNCHANGED <<faults, beyond>>
       \/ /\ task'[j] = task[j] /\ reply'[j] = "200"
          /\ Works(j)
       \/ /\ task'[j] = task[j] /\ reply'[j] = "500"
          /\ Raises(j, "reply")

LEMMA ReturnEffect ==
    ASSUME NatType, NEW j \in Jobs, Return(j)
    PROVE  NatType' /\ Local(j) /\ ReturnDoes(j)
<1> USE DEF ReturnDoes
<1>1. faults' \in 0 .. MaxFaults /\ beyond' \subseteq FaultPoints
  BY RaisesType DEF Return, NatType
<1>2. /\ UNCHANGED <<job, stored, linked, devices, services, crashes>>
      /\ SameRows(j) /\ UNCHANGED tables
      /\ run[j].pc = "return"
  BY DEF Return, At, tables, SameRows
<1>3. /\ run' \in [Jobs -> Worker] /\ run'[j] = [run[j] EXCEPT !.pc = "done"]
      /\ \A k \in Jobs : k # j => run'[k] = run[k]
  BY GotoStep DEF Return, Places
<1>4. /\ task' \in [Jobs -> {"none", "running", "completed", "failed"}]
      /\ reply' \in [Jobs -> {"none", "202", "200", "500", "lost"}]
      /\ \A k \in Jobs : k # j => task'[k] = task[k] /\ reply'[k] = reply[k]
      /\ \/ /\ task'[j] = "completed" /\ reply'[j] = reply[j]
            /\ UNCHANGED <<faults, beyond>>
         \/ /\ task'[j] = task[j] /\ reply'[j] = "200"
            /\ Works(j)
         \/ /\ task'[j] = task[j] /\ reply'[j] = "500"
            /\ Raises(j, "reply")
  BY DEF Return, NatType
<1>5. NatType' /\ Local(j)
  BY <1>1, <1>2, <1>3, <1>4 DEF NatType, Local, Same
<1> QED BY <1>2, <1>3, <1>4, <1>5

RaiseDoes(j) ==
    /\ SameRows(j) /\ UNCHANGED <<tables, faults, beyond>>
    /\ run[j].pc = "raise" /\ run'[j] = [run[j] EXCEPT !.pc = "done"]
    /\ \/ task'[j] = "failed" /\ reply'[j] = reply[j]
       \/ task'[j] = task[j] /\ reply'[j] = "500"

LEMMA RaiseEffect ==
    ASSUME NatType, NEW j \in Jobs, Raise(j)
    PROVE  NatType' /\ Local(j) /\ RaiseDoes(j)
<1> USE DEF RaiseDoes
<1>1. /\ UNCHANGED <<job, stored, linked, devices, services, crashes, faults, beyond>>
      /\ SameRows(j) /\ UNCHANGED tables
      /\ run[j].pc = "raise"
  BY DEF Raise, At, tables, SameRows
<1>2. /\ run' \in [Jobs -> Worker] /\ run'[j] = [run[j] EXCEPT !.pc = "done"]
      /\ \A k \in Jobs : k # j => run'[k] = run[k]
  BY GotoStep DEF Raise, Places
<1>3. /\ task' \in [Jobs -> {"none", "running", "completed", "failed"}]
      /\ reply' \in [Jobs -> {"none", "202", "200", "500", "lost"}]
      /\ \A k \in Jobs : k # j => task'[k] = task[k] /\ reply'[k] = reply[k]
      /\ \/ task'[j] = "failed" /\ reply'[j] = reply[j]
         \/ task'[j] = task[j] /\ reply'[j] = "500"
  BY DEF Raise, NatType
<1>4. NatType' /\ Local(j)
  BY <1>1, <1>2, <1>3 DEF NatType, Local, Same
<1> QED BY <1>1, <1>2, <1>3, <1>4

LEMMA CrashEffect ==
    ASSUME NatType, Crash
    PROVE  /\ NatType' /\ UNCHANGED <<tables, faults, beyond>>
           /\ \A j \in Jobs :
                /\ \/ run'[j] = run[j] /\ run[j].pc \in {"idle", "done", "gone"}
                   \/ /\ run[j].pc \notin {"idle", "done", "gone"}
                      /\ run'[j] = Halted
                /\ task'[j] = "none" /\ reply'[j] \in {reply[j], "lost"}
<1>1. Halted \in Worker
  BY DEF Halted, Idle, Worker, Places
<1>2. crashes' \in 0 .. MaxCrashes
  BY BoundsAssumption DEF Crash, NatType
<1>3. run' \in [Jobs -> Worker]
  BY <1>1 DEF Crash, NatType
<1>4. reply' \in [Jobs -> {"none", "202", "200", "500", "lost"}]
  BY DEF Crash, NatType
<1> QED BY <1>2, <1>3, <1>4 DEF Crash, NatType, tables

InHand == {"select", "upsert", "details", "service", "link", "append"}

Loop == InHand \cup {"next"}

\* What the worker holds are results of its own scan.
ScopeInv(j) ==
    /\ run[j].todo \subseteq Reported(j)
    /\ run[j].result \in Reported(j) \cup {NoResult}
    /\ run[j].pc \in InHand => run[j].result # NoResult
    /\ run[j].pc = "service" => HasServices(j)

\* The row against the place of the worker that writes it.
PlaceInv(j) ==
    /\ run[j].pc = "idle" => job[j] = NoRow /\ run[j] = Idle
    /\ run[j].pc \in {"submit", "start"} => job[j].status = "pending"
    /\ run[j].pc \in Loop \cup {"scan", "fail"} => job[j].status = "running" /\ job[j].started_at
    /\ run[j].pc = "return" => job[j].status \in Terminal
    /\ run[j].pc = "raise" => job[j].status \in {"pending", "running"}
    /\ run[j].poisoned => run[j].pc \in {"fail", "raise", "done"}

\* The counts: a result is stored, then linked, then processed.
CountInv(j) ==
    /\ run[j].total <= MaxResults /\ run[j].processed <= linked[j]
    /\ linked[j] <= stored[j] /\ stored[j] <= MaxResults
    /\ run[j].pc \in {"idle", "submit", "start", "scan"} =>
          stored[j] = 0
    /\ run[j].pc \in Loop =>
          /\ stored[j] + Cardinality(run[j].todo) <= run[j].total
          /\ run[j].pc \in InHand \ {"append"} => linked[j] < stored[j]
          /\ run[j].pc = "append" => run[j].processed < linked[j]
    /\ job[j].status # "completed" => job[j].observations_count = 0 /\ job[j].devices_found = 0
    /\ job[j].status = "completed" =>
          /\ job[j].devices_found <= linked[j]
          /\ stored[j] <= job[j].observations_count
          /\ job[j].observations_count <= MaxResults
          /\ job[j].started_at /\ job[j].completed_at

\* The task record and the answer against the row.
ToldInv(j) ==
    /\ task[j] \in {"completed", "failed"} \/ reply[j] \in {"200", "500"}
          => run[j].pc \in {"done", "gone"}
    /\ task[j] = "completed" \/ reply[j] = "200" => job[j].status \in Terminal
    /\ task[j] = "failed" => job[j].status \in {"pending", "running"}
    /\ reply[j] = "500" /\ "reply" \notin beyond => job[j].status \notin Terminal

\* Another job that may have inserted a device or a service of j first.
Blamed(j) == \E k \in Jobs : Contend(j, k) /\ stored[k] > 0

\* Every result is processed, in hand or still to come.
Accounted(j) ==
    run[j].total = run[j].processed + Cardinality(run[j].todo)
                     + (IF run[j].pc \in InHand THEN 1 ELSE 0)

\* Without a fault only a job that can be blamed keeps j from its results.
AloneInv(j) ==
    /\ run[j].pc = "upsert" /\ ~ run[j].exists /\ Refused(Of(j)) => Blamed(j)
    /\ run[j].pc = "service" /\ ~ run[j].exists /\ services[Of(j)] > run[j].known => Blamed(j)
    /\ faults = 0 =>
         /\ run[j].pc \in Loop => Accounted(j) \/ Blamed(j)
         /\ job[j].status = "completed" =>
              job[j].devices_found = job[j].observations_count \/ Blamed(j)

\* The jobs past a query that did not find the row, and those that found it.
Inserting(h, a) == {j \in Jobs : run[j].pc = "upsert" /\ ~ run[j].exists /\ Of(j) = <<h, a>>}

Finders(h, a) == {j \in Jobs : job[j].agent_id = a /\ h \in Reach(j) /\ stored[j] > 0}

\* Each row, and each insert under way, is owed to a job of its own.
RowInv ==
    \A h \in Hosts, a \in Agents :
        /\ devices[<<h, a>>] + Cardinality(Inserting(h, a)) <= Cardinality(Finders(h, a))
        /\ a # NoAgent => devices[<<h, a>>] <= 1


JobOK(j) == ScopeInv(j) /\ PlaceInv(j) /\ CountInv(j) /\ ToldInv(j)

LEMMA FrameJob ==
    ASSUME NEW k, JobOK(k), Same(k), beyond \subseteq beyond'
    PROVE  JobOK(k)'
  BY DEF JobOK, Same, ScopeInv, PlaceInv, CountInv, ToldInv, Reported, HasServices

LEMMA TodoSize ==
    ASSUME NatType, NEW j \in Jobs
    PROVE  /\ IsFiniteSet(run[j].todo) /\ Cardinality(run[j].todo) \in Nat
           /\ Cardinality(run[j].todo) <= MaxResults
           /\ \A r \in run[j].todo : Cardinality(run[j].todo \ {r}) = Cardinality(run[j].todo) - 1
<1>1. run[j].todo \subseteq AllResults
  BY DEF NatType, Worker
<1> QED BY <1>1, AllResultsFinite, FS_Subset, FS_CardinalityType, FS_RemoveElement

LEMMA FoundSize ==
    ASSUME NatType, NEW j \in Jobs, NEW found \in SUBSET Reported(j)
    PROVE  Cardinality(found) \in Nat /\ Cardinality(found) <= MaxResults
<1>1. found \subseteq AllResults
  BY ReportedType
<1> QED BY <1>1, AllResultsFinite, FS_Subset, FS_CardinalityType

LEMMA NoResultIsNone == NoResult \notin AllResults
<1>1. \A r \in AllResults : DOMAIN r = 1 .. 2
  BY DEF AllResults, Results
<1>2. DOMAIN NoResult = {}
  BY DEF NoResult
<1>3. 1 \in 1 .. 2
  OBVIOUS
<1> QED BY <1>1, <1>2, <1>3

LEMMA BeyondGrows ==
    ASSUME NEW j \in Jobs, NEW point, Works(j) \/ Raises(j, point)
    PROVE  beyond \subseteq beyond'
  BY DEF Works, Raises

\* The ranges of the fields of one job.
LEMMA Fields ==
    ASSUME NatType, NEW j \in Jobs
    PROVE  /\ run[j] \in Worker /\ job[j] \in JobRow
           /\ stored[j] \in Nat /\ linked[j] \in Nat
  BY DEF NatType

LEMMA OfType ==
    ASSUME NatType, NEW j \in Jobs, ScopeInv(j), run[j].pc \in InHand
    PROVE  /\ Of(j) \in Hosts \X Agents /\ Of(j)[1] \in Reach(j)
           /\ HasServices(j) => Of(j)[1] \in job[j].target
<1>1. job[j] \in JobRow
  BY DEF NatType
<1>2. run[j].result \in Reported(j) /\ run[j].result \in AllResults
  BY ReportedType DEF ScopeInv
<1>3. HasServices(j) => run[j].result \in Providers \X job[j].target
  BY <1>2 DEF HasServices, Reported, Results
<1> QED BY <1>1, <1>2, <1>3 DEF Of, JobRow, Reach, AllResults

ProceedDoes(j) ==
    \/ SubmitDoes(j) \/ BeginDoes(j) \/ ScanDoes(j) \/ FinishDoes(j) \/ FailDoes(j)
    \/ ObserveDoes(j) \/ SelectDoes(j) \/ UpsertDoes(j) \/ SelectServiceDoes(j)
    \/ UpsertServiceDoes(j) \/ LinkDoes(j) \/ AppendDoes(j) \/ ReturnDoes(j) \/ RaiseDoes(j)

LEMMA StepDoes ==
    ASSUME NatType, NEW j \in Jobs, ScopeInv(j), Proceed(j)
    PROVE  NatType' /\ Local(j) /\ ProceedDoes(j)
<1>1. CASE Submit(j)
  BY <1>1, SubmitEffect DEF ProceedDoes
<1>2. CASE Begin(j)
  BY <1>2, BeginEffect DEF ProceedDoes
<1>3. CASE Scan(j)
  BY <1>3, ScanEffect DEF ProceedDoes
<1>4. CASE Finish(j)
  BY <1>4, FinishEffect DEF ProceedDoes
<1>5. CASE Fail(j)
  BY <1>5, FailEffect DEF ProceedDoes
<1>6. CASE Observe(j)
  BY <1>6, ObserveEffect DEF ProceedDoes
<1>7. CASE SelectDevice(j)
  BY <1>7, SelectEffect DEF ProceedDoes
<1>8. CASE UpsertDevice(j)
  BY <1>8, UpsertEffect, OfType DEF ProceedDoes, UpsertDevice, At, InHand
<1>9. CASE SelectService(j)
  BY <1>9, SelectServiceEffect, OfType DEF ProceedDoes, SelectService, At, InHand
<1>14. CASE UpsertService(j)
  BY <1>14, UpsertServiceEffect, OfType DEF ProceedDoes, UpsertService, At, InHand
<1>10. CASE Link(j)
  BY <1>10, LinkEffect DEF ProceedDoes
<1>11. CASE AppendProcessed(j)
  BY <1>11, AppendEffect DEF ProceedDoes
<1>12. CASE Return(j)
  BY <1>12, ReturnEffect DEF ProceedDoes
<1>13. CASE Raise(j)
  BY <1>13, RaiseEffect DEF ProceedDoes
<1> QED BY <1>1, <1>2, <1>3, <1>4, <1>5, <1>6, <1>7, <1>8, <1>9, <1>10, <1>11, <1>12, <1>13,
          <1>14
        DEF Proceed

\* Within the loop over the results the row of the job is running and nobody has
\* been told of its end.
LEMMA WithinLoop ==
    ASSUME NEW j \in Jobs, JobOK(j), job'[j] = job[j], SameAnswers(j), beyond \subseteq beyond',
           run[j].pc \in Loop, run'[j].pc \in Loop, ~ run'[j].poisoned
    PROVE  PlaceInv(j)' /\ ToldInv(j)'
<1>1. PlaceInv(j) /\ ToldInv(j)
  BY DEF JobOK
<1>2. run'[j].pc \notin {"idle", "submit", "start", "scan", "fail", "return", "raise", "done", "gone"}
  BY DEF Loop, InHand
<1>3. job[j].status = "running" /\ job[j].started_at /\ run[j].pc \notin {"done", "gone"}
  BY <1>1 DEF PlaceInv, Loop, InHand
<1>4. PlaceInv(j)'
  BY <1>2, <1>3 DEF PlaceInv
<1>5. ToldInv(j)'
  BY <1>1, <1>3 DEF ToldInv, SameAnswers, Terminal
<1> QED BY <1>4, <1>5

\* Between its observation and its link a result changes no count.
LEMMA WithinResult ==
    ASSUME NEW j \in Jobs, JobOK(j), SameRows(j),
           run[j].pc \in InHand \ {"append"},
           run'[j].pc \in InHand \ {"append"} \/ run'[j].pc = "next",
           run'[j].todo = run[j].todo, run'[j].total = run[j].total,
           run'[j].processed = run[j].processed
    PROVE  CountInv(j)'
<1>1. CountInv(j) /\ run[j].pc \in Loop
  BY DEF JobOK, Loop
<1>2. /\ run'[j].pc \notin {"idle", "submit", "start", "scan", "append"}
      /\ run'[j].pc \in InHand \/ run'[j].pc = "next"
  BY DEF InHand
<1>3. linked[j] < stored[j] /\ stored[j] + Cardinality(run[j].todo) <= run[j].total
  BY <1>1 DEF CountInv
<1> QED BY <1>1, <1>2, <1>3 DEF CountInv, SameRows

LEMMA JobStep ==
    ASSUME NatType, NEW j \in Jobs, JobOK(j),
           \/ Proceed(j)
           \/ \E q \in Requests : Create(j, q)
    PROVE  JobOK(j)'
<1>1. /\ run[j] \in Worker /\ job[j] \in JobRow
      /\ stored[j] \in Nat /\ linked[j] \in Nat
  BY Fields
<1>2. MaxResults \in Nat
  BY AllResultsFinite
<1> USE DEF Worker, JobRow, JobOK, Body
<1>3. CASE SubmitDoes(j)
  <2>1. ScopeInv(j)'
    BY <1>1, <1>3 DEF SubmitDoes, SameRows, ScopeInv, InHand, Reported, HasServices
  <2>2. PlaceInv(j)'
    BY <1>1, <1>3 DEF SubmitDoes, SameRows, PlaceInv, Loop, InHand, Terminal, Works, Raises
  <2>3. CountInv(j)'
    BY <1>1, <1>2, <1>3, TodoSize DEF SubmitDoes, SameRows, CountInv, PlaceInv, Loop, InHand
  <2>4. ToldInv(j)'
    BY <1>1, <1>3 DEF SubmitDoes, SameRows, ToldInv, PlaceInv, Loop, InHand, Terminal, Works, Raises
  <2> QED BY <2>1, <2>2, <2>3, <2>4
<1>4. CASE BeginDoes(j)
  <2>1. ScopeInv(j)'
    BY <1>1, <1>4 DEF BeginDoes, SameAnswers, ScopeInv, InHand, Reported, HasServices
  <2>2. PlaceInv(j)'
    BY <1>1, <1>4 DEF BeginDoes, SameAnswers, PlaceInv, Loop, InHand, Terminal, Works, Raises
  <2>3. CountInv(j)'
    BY <1>1, <1>2, <1>4, TodoSize DEF BeginDoes, SameAnswers, CountInv, PlaceInv, Loop, InHand
  <2>4. ToldInv(j)'
    BY <1>1, <1>4 DEF BeginDoes, SameAnswers, ToldInv, PlaceInv, Loop, InHand, Terminal, Works, Raises
  <2> QED BY <2>1, <2>2, <2>3, <2>4
<1>5. CASE ScanDoes(j)
  <2>1. ScopeInv(j)'
    BY <1>1, <1>5 DEF ScanDoes, SameRows, SameAnswers, ScopeInv, InHand, Reported, HasServices
  <2>2. PlaceInv(j)'
    BY <1>1, <1>5 DEF ScanDoes, SameRows, SameAnswers, PlaceInv, Loop, InHand, Terminal, Works, Raises
  <2>3. CountInv(j)'
    <3>1. CASE run'[j] = [run[j] EXCEPT !.pc = "fail"]
      BY <1>1, <1>2, <1>5, <3>1 DEF ScanDoes, SameRows, CountInv, PlaceInv, Loop, InHand
    <3>2. ASSUME NEW found \in SUBSET Reported(j),
                 run'[j] = [run[j] EXCEPT !.todo = found, !.total = Cardinality(found),
                                          !.pc = "next"]
          PROVE  CountInv(j)'
      <4> DEFINE n == Cardinality(found)
      <4>1. run'[j].todo = found /\ run'[j].total = n /\ run'[j].pc = "next"
                /\ run'[j].processed = run[j].processed
        BY <1>1, <3>2
      <4>2. n \in Nat /\ n <= MaxResults
        BY <3>2, FoundSize
      <4> HIDE DEF n
      <4>3. Cardinality(run'[j].todo) = n
        BY <4>1 DEF n
      <4>4. /\ job'[j] = job[j] /\ stored'[j] = stored[j] /\ linked'[j] = linked[j]
            /\ run[j].pc = "scan" /\ job[j].status = "running"
        BY <1>5 DEF ScanDoes, SameRows, PlaceInv
      <4> QED BY <1>1, <1>2, <4>1, <4>2, <4>3, <4>4 DEF CountInv, Loop, InHand
    <3> QED BY <1>5, <3>1, <3>2 DEF ScanDoes
  <2>4. ToldInv(j)'
    BY <1>1, <1>5 DEF ScanDoes, SameRows, SameAnswers, ToldInv, PlaceInv, Loop, InHand, Terminal, Works, Raises
  <2> QED BY <2>1, <2>2, <2>3, <2>4
<1>6. CASE FinishDoes(j)
  <2>1. ScopeInv(j)'
    BY <1>1, <1>6 DEF FinishDoes, SameAnswers, ScopeInv, InHand, Reported, HasServices
  <2>2. PlaceInv(j)'
    BY <1>1, <1>6 DEF FinishDoes, SameAnswers, PlaceInv, Loop, InHand, Terminal, Works, Raises
  <2>3. CountInv(j)'
    <3>1. run[j].todo = {} /\ Cardinality(run[j].todo) = 0 /\ run[j].pc = "next"
      BY <1>6, FS_EmptySet DEF FinishDoes
    <3>2. CASE /\ run'[j] = [run[j] EXCEPT !.pc = "return"]
               /\ job'[j] = [job[j] EXCEPT !.status = "completed",
                                           !.observations_count = run[j].total,
                                           !.devices_found = run[j].processed,
                                           !.completed_at = TRUE]
      <4>1. /\ run'[j].pc = "return" /\ run'[j].total = run[j].total
            /\ run'[j].processed = run[j].processed
        BY <1>1, <3>2
      <4>2. /\ job'[j].status = "completed" /\ job'[j].started_at = job[j].started_at
            /\ job'[j].completed_at
            /\ job'[j].observations_count = run[j].total
            /\ job'[j].devices_found = run[j].processed
        BY <1>1, <3>2
      <4>3. stored'[j] = stored[j] /\ linked'[j] = linked[j] /\ job[j].started_at
        BY <1>6, <3>1 DEF FinishDoes, PlaceInv, Loop
      <4> QED BY <1>1, <1>2, <3>1, <4>1, <4>2, <4>3 DEF CountInv, PlaceInv, Loop, InHand
    <3>3. CASE run'[j].pc = "fail" /\ job'[j] = job[j]
      BY <1>1, <1>2, <1>6, <3>1, <3>3 DEF FinishDoes, CountInv, PlaceInv, Loop, InHand
    <3> QED BY <1>1, <1>6, <3>2, <3>3 DEF FinishDoes
  <2>4. ToldInv(j)'
    BY <1>1, <1>6 DEF FinishDoes, SameAnswers, ToldInv, PlaceInv, Loop, InHand, Terminal, Works, Raises
  <2> QED BY <2>1, <2>2, <2>3, <2>4
<1>7. CASE FailDoes(j)
  <2>1. ScopeInv(j)'
    BY <1>1, <1>7 DEF FailDoes, SameAnswers, ScopeInv, InHand, Reported, HasServices
  <2>2. PlaceInv(j)'
    BY <1>1, <1>7 DEF FailDoes, SameAnswers, PlaceInv, Loop, InHand, Terminal, Works, Raises
  <2>3. CountInv(j)'
    BY <1>1, <1>2, <1>7, TodoSize DEF FailDoes, SameAnswers, CountInv, PlaceInv, Loop, InHand
  <2>4. ToldInv(j)'
    BY <1>1, <1>7 DEF FailDoes, SameAnswers, ToldInv, PlaceInv, Loop, InHand, Terminal, Works, Raises
  <2> QED BY <2>1, <2>2, <2>3, <2>4
<1>8. CASE ObserveDoes(j)
  <2>1. ScopeInv(j)'
    <3>1. \A r \in run[j].todo : r # NoResult
      BY <1>1, NoResultIsNone
    <3>2. PICK r \in run[j].todo :
            /\ run'[j].todo = run[j].todo \ {r}
            /\ \/ run'[j].pc = "select" /\ run'[j].result = r
               \/ run'[j].pc = "next" /\ run'[j].result = run[j].result
      BY <1>1, <1>8 DEF ObserveDoes
    <3>3. job'[j] = job[j]
      BY <1>8 DEF ObserveDoes
    <3> QED BY <3>1, <3>2, <3>3 DEF ScopeInv, InHand, Reported, HasServices
  <2>2. PlaceInv(j)'
    BY <1>1, <1>8 DEF ObserveDoes, SameAnswers, PlaceInv, Loop, InHand, Terminal, Works, Raises
  <2>3. CountInv(j)'
    <3>1. PICK r \in run[j].todo :
            \/ /\ run'[j] = [run[j] EXCEPT !.todo = @ \ {r}, !.result = r, !.pc = "select"]
               /\ stored'[j] = stored[j] + 1
            \/ /\ run'[j] = [run[j] EXCEPT !.todo = @ \ {r}, !.poisoned = FALSE]
               /\ stored'[j] = stored[j]
      BY <1>8 DEF ObserveDoes
    <3>2. run'[j].todo = run[j].todo \ {r} /\ run'[j].total = run[j].total
              /\ run'[j].processed = run[j].processed
      BY <1>1, <3>1
    <3>3. /\ Cardinality(run'[j].todo) = Cardinality(run[j].todo) - 1
          /\ Cardinality(run[j].todo) \in Nat /\ Cardinality(run[j].todo) # 0
      BY <3>2, TodoSize, FS_EmptySet
    <3>4. run[j].pc = "next" /\ job'[j] = job[j] /\ linked'[j] = linked[j]
      BY <1>8 DEF ObserveDoes
    <3>5. \/ run'[j].pc = "select" /\ stored'[j] = stored[j] + 1
          \/ run'[j].pc = "next" /\ stored'[j] = stored[j]
      BY <1>1, <3>1, <3>4
    <3>6. stored'[j] <= MaxResults
      BY <1>1, <1>2, <3>3, <3>4, <3>5, TodoSize DEF CountInv, Loop
    <3>7. CASE run'[j].pc = "select" /\ stored'[j] = stored[j] + 1
      BY <1>1, <1>2, <3>2, <3>3, <3>4, <3>6, <3>7 DEF CountInv, PlaceInv, Loop, InHand
    <3>8. CASE run'[j].pc = "next" /\ stored'[j] = stored[j]
      BY <1>1, <1>2, <3>2, <3>3, <3>4, <3>6, <3>8 DEF CountInv, PlaceInv, Loop, InHand
    <3> QED BY <3>5, <3>7, <3>8
  <2>4. ToldInv(j)'
    BY <1>1, <1>8 DEF ObserveDoes, SameAnswers, ToldInv, PlaceInv, Loop, InHand, Terminal, Works, Raises
  <2> QED BY <2>1, <2>2, <2>3, <2>4
<1>9. CASE SelectDoes(j)
  <2>1. ScopeInv(j)'
    BY <1>1, <1>9 DEF SelectDoes, SameRows, SameAnswers, ScopeInv, InHand, Reported, HasServices
  <2>2. /\ run[j].pc \in InHand \ {"append"} /\ run'[j].pc \in {"upsert", "next"}
        /\ run'[j].todo = run[j].todo /\ run'[j].total = run[j].total
        /\ run'[j].processed = run[j].processed /\ ~ run'[j].poisoned
    BY <1>1, <1>9 DEF SelectDoes, Works, InHand
  <2>3. SameRows(j) /\ SameAnswers(j) /\ beyond \subseteq beyond'
    BY <1>9, BeyondGrows DEF SelectDoes
  <2>4. PlaceInv(j)' /\ ToldInv(j)'
    BY <2>2, <2>3, WithinLoop DEF SameRows, Loop, InHand
  <2>5. CountInv(j)'
    BY <2>2, <2>3, WithinResult DEF InHand
  <2> QED BY <2>1, <2>4, <2>5
<1>10. CASE UpsertDoes(j)
  <2>1. ScopeInv(j)'
    BY <1>1, <1>10 DEF UpsertDoes, SameRows, SameAnswers, ScopeInv, InHand, Reported, HasServices
  <2>2. /\ run[j].pc \in InHand \ {"append"} /\ run'[j].pc \in {"details", "next"}
        /\ run'[j].todo = run[j].todo /\ run'[j].total = run[j].total
        /\ run'[j].processed = run[j].processed /\ ~ run'[j].poisoned
    BY <1>1, <1>10 DEF UpsertDoes, Works, InHand
  <2>3. SameRows(j) /\ SameAnswers(j) /\ beyond \subseteq beyond'
    BY <1>10, BeyondGrows DEF UpsertDoes
  <2>4. PlaceInv(j)' /\ ToldInv(j)'
    BY <2>2, <2>3, WithinLoop DEF SameRows, Loop, InHand
  <2>5. CountInv(j)'
    BY <2>2, <2>3, WithinResult DEF InHand
  <2> QED BY <2>1, <2>4, <2>5
<1>11. CASE SelectServiceDoes(j)
  <2>1. ScopeInv(j)'
    BY <1>1, <1>11 DEF SelectServiceDoes, SameRows, SameAnswers, ScopeInv, InHand, Reported, HasServices
  <2>2. /\ run[j].pc \in InHand \ {"append"} /\ run'[j].pc \in {"link", "service", "next"}
        /\ run'[j].todo = run[j].todo /\ run'[j].total = run[j].total
        /\ run'[j].processed = run[j].processed /\ ~ run'[j].poisoned
    BY <1>1, <1>11 DEF SelectServiceDoes, Works, InHand
  <2>3. SameRows(j) /\ SameAnswers(j) /\ beyond \subseteq beyond'
    BY <1>11, BeyondGrows DEF SelectServiceDoes
  <2>4. PlaceInv(j)' /\ ToldInv(j)'
    BY <2>2, <2>3, WithinLoop DEF SameRows, Loop, InHand
  <2>5. CountInv(j)'
    BY <2>2, <2>3, WithinResult DEF InHand
  <2> QED BY <2>1, <2>4, <2>5
<1>17. CASE UpsertServiceDoes(j)
  <2>1. ScopeInv(j)'
    BY <1>1, <1>17 DEF UpsertServiceDoes, SameRows, SameAnswers, ScopeInv, InHand, Reported, HasServices
  <2>2. /\ run[j].pc \in InHand \ {"append"} /\ run'[j].pc \in {"link", "next"}
        /\ run'[j].todo = run[j].todo /\ run'[j].total = run[j].total
        /\ run'[j].processed = run[j].processed /\ ~ run'[j].poisoned
    BY <1>1, <1>17 DEF UpsertServiceDoes, Works, InHand
  <2>3. SameRows(j) /\ SameAnswers(j) /\ beyond \subseteq beyond'
    BY <1>17, BeyondGrows DEF UpsertServiceDoes
  <2>4. PlaceInv(j)' /\ ToldInv(j)'
    BY <2>2, <2>3, WithinLoop DEF SameRows, Loop, InHand
  <2>5. CountInv(j)'
    BY <2>2, <2>3, WithinResult DEF InHand
  <2> QED BY <2>1, <2>4, <2>5
<1>12. CASE LinkDoes(j)
  <2>1. ScopeInv(j)'
    BY <1>1, <1>12 DEF LinkDoes, SameAnswers, ScopeInv, InHand, Reported, HasServices
  <2>2. PlaceInv(j)' /\ ToldInv(j)'
    <3>1. run[j].pc \in Loop /\ run'[j].pc \in Loop /\ ~ run'[j].poisoned
      BY <1>1, <1>12 DEF LinkDoes, Works, Loop, InHand
    <3>2. job'[j] = job[j] /\ SameAnswers(j) /\ beyond \subseteq beyond'
      BY <1>12, BeyondGrows DEF LinkDoes, SameRows
    <3> QED BY <3>1, <3>2, WithinLoop
  <2>3. CountInv(j)'
    <3>1. Cardinality(run[j].todo) \in Nat /\ run'[j].todo = run[j].todo /\ run'[j].total = run[j].total
      BY <1>1, <1>12, TodoSize DEF LinkDoes
    <3>3. CASE run'[j] = [run[j] EXCEPT !.pc = "append"] /\ linked'[j] = linked[j] + 1
      <4>1. run'[j].pc = "append" /\ run'[j].processed = run[j].processed
        BY <1>1, <3>3
      <4>2. job'[j] = job[j] /\ stored'[j] = stored[j] /\ run[j].pc = "link"
        BY <1>12 DEF LinkDoes
      <4> QED BY <1>1, <1>2, <3>1, <3>3, <4>1, <4>2 DEF CountInv, PlaceInv, Loop, InHand
    <3>4. CASE run'[j].pc = "next"
      BY <1>1, <1>2, <1>12, <3>1, <3>4 DEF LinkDoes, CountInv, PlaceInv, Loop, InHand
    <3> QED BY <1>1, <1>12, <3>3, <3>4 DEF LinkDoes
  <2> QED BY <2>1, <2>2, <2>3
<1>13. CASE AppendDoes(j)
  <2>1. ScopeInv(j)'
    BY <1>1, <1>13 DEF AppendDoes, SameRows, SameAnswers, ScopeInv, InHand, Reported, HasServices
  <2>2. PlaceInv(j)' /\ ToldInv(j)'
    <3>1. run[j].pc \in Loop /\ run'[j].pc \in Loop /\ ~ run'[j].poisoned
      BY <1>1, <1>13 DEF AppendDoes, Works, Loop, InHand
    <3>2. job'[j] = job[j] /\ SameAnswers(j) /\ beyond \subseteq beyond'
      BY <1>13, BeyondGrows DEF AppendDoes, SameRows
    <3> QED BY <3>1, <3>2, WithinLoop
  <2>3. CountInv(j)'
    <3>1. Cardinality(run[j].todo) \in Nat /\ run'[j].todo = run[j].todo /\ run'[j].total = run[j].total
      BY <1>1, <1>13, TodoSize DEF AppendDoes
    <3>2. run'[j].pc = "next" /\ run'[j].processed \in {run[j].processed, run[j].processed + 1}
      BY <1>1, <1>13 DEF AppendDoes
    <3> QED BY <1>1, <1>2, <1>13, <3>1, <3>2 DEF AppendDoes, SameRows, CountInv, PlaceInv, Loop, InHand
  <2> QED BY <2>1, <2>2, <2>3
<1>14. CASE ReturnDoes(j)
  <2>1. ScopeInv(j)'
    BY <1>1, <1>14 DEF ReturnDoes, SameRows, ScopeInv, InHand, Reported, HasServices
  <2>2. PlaceInv(j)'
    BY <1>1, <1>14 DEF ReturnDoes, SameRows, PlaceInv, Loop, InHand, Terminal, Works, Raises
  <2>3. CountInv(j)'
    BY <1>1, <1>2, <1>14, TodoSize DEF ReturnDoes, SameRows, CountInv, PlaceInv, Loop, InHand
  <2>4. ToldInv(j)'
    <3>1. run[j].pc = "return" /\ run'[j].pc = "done" /\ job'[j] = job[j] /\ ~ run[j].poisoned
      BY <1>1, <1>14 DEF ReturnDoes, SameRows, PlaceInv
    <3>2. Raises(j, "reply") => "reply" \in beyond'
      BY <3>1, ScopeAssumption DEF Raises
    <3> QED BY <1>1, <1>14, <3>1, <3>2 DEF ReturnDoes, SameRows, ToldInv, PlaceInv, Terminal, Works
  <2> QED BY <2>1, <2>2, <2>3, <2>4
<1>15. CASE RaiseDoes(j)
  <2>1. ScopeInv(j)'
    BY <1>1, <1>15 DEF RaiseDoes, SameRows, ScopeInv, InHand, Reported, HasServices
  <2>2. PlaceInv(j)'
    BY <1>1, <1>15 DEF RaiseDoes, SameRows, PlaceInv, Loop, InHand, Terminal, Works, Raises
  <2>3. CountInv(j)'
    BY <1>1, <1>2, <1>15, TodoSize DEF RaiseDoes, SameRows, CountInv, PlaceInv, Loop, InHand
  <2>4. ToldInv(j)'
    BY <1>1, <1>15 DEF RaiseDoes, SameRows, ToldInv, PlaceInv, Loop, InHand, Terminal, Works, Raises
  <2> QED BY <2>1, <2>2, <2>3, <2>4
<1>16. ASSUME NEW q \in Requests, Create(j, q)
      PROVE  JobOK(j)'
  <2>0. CreateDoes(j, q) /\ job'[j] \in JobRow
    BY <1>16, CreateEffect, Fields DEF NatType
  <2>1. ScopeInv(j)'
    BY <1>1, <2>0 DEF CreateDoes, ScopeInv, PlaceInv, Idle, InHand, Reported, HasServices
  <2>2. PlaceInv(j)'
    BY <1>1, <2>0 DEF CreateDoes, PlaceInv, Loop, InHand, Terminal, Idle
  <2>3. CountInv(j)'
    BY <1>1, <1>2, <2>0 DEF CreateDoes, CountInv, PlaceInv, Loop, InHand, NoRow, Idle
  <2>4. ToldInv(j)'
    BY <1>1, <2>0 DEF CreateDoes, SameAnswers, ToldInv
  <2> QED BY <2>1, <2>2, <2>3, <2>4
<1> QED BY StepDoes, <1>3, <1>4, <1>5, <1>6, <1>7, <1>8, <1>9, <1>10, <1>11, <1>12, <1>13, <1>14, <1>15, <1>16, <1>17 DEF JobOK, ProceedDoes

LEMMA StepFrame ==
    ASSUME NatType, NEW j \in Jobs, JobOK(j),
           \/ Proceed(j)
           \/ \E q \in Requests : Create(j, q)
    PROVE  NatType' /\ Local(j) /\ beyond \subseteq beyond'
<1>1. CASE Proceed(j)
  <2>1. NatType' /\ Local(j) /\ ProceedDoes(j)
    BY <1>1, StepDoes DEF JobOK
  <2>2. beyond \subseteq beyond'
    BY <2>1, BeyondGrows DEF ProceedDoes, SubmitDoes, BeginDoes, ScanDoes, FinishDoes, FailDoes,
       ObserveDoes, SelectDoes, UpsertDoes, SelectServiceDoes, UpsertServiceDoes, LinkDoes, AppendDoes, ReturnDoes, RaiseDoes
  <2> QED BY <2>1, <2>2
<1>2. CASE \E q \in Requests : Create(j, q)
  BY <1>2, CreateEffect DEF CreateDoes
<1> QED BY <1>1, <1>2

JobsOK == \A j \in Jobs : JobOK(j)

LEMMA InitJobs == Init => JobsOK
<1> SUFFICES ASSUME Init, NEW j \in Jobs PROVE JobOK(j)
  BY DEF JobsOK
<1>1. job[j] = NoRow /\ run[j] = Idle /\ stored[j] = 0 /\ linked[j] = 0
          /\ task[j] = "none" /\ reply[j] = "none"
  BY DEF Init
<1>2. MaxResults \in Nat
  BY AllResultsFinite
<1> QED BY <1>1, <1>2 DEF JobOK, ScopeInv, PlaceInv, CountInv, ToldInv, NoRow, Idle, InHand, Loop

LEMMA CrashJobs ==
    ASSUME NatType, JobsOK, Crash
    PROVE  JobsOK'
<1> SUFFICES ASSUME NEW j \in Jobs PROVE JobOK(j)'
  BY DEF JobsOK
<1>1. /\ UNCHANGED <<job, stored, linked, beyond>>
      /\ \/ run'[j] = run[j] /\ run[j].pc \in {"idle", "done", "gone"}
         \/ run[j].pc \notin {"idle", "done", "gone"} /\ run'[j] = Halted
      /\ task'[j] = "none" /\ reply'[j] \in {reply[j], "lost"}
  BY CrashEffect DEF tables
<1>2. JobOK(j) /\ run[j] \in Worker /\ stored[j] \in Nat /\ linked[j] \in Nat
  BY Fields DEF JobsOK
<1>3. CASE run'[j] = run[j] /\ run[j].pc \in {"idle", "done", "gone"}
  BY <1>1, <1>2, <1>3 DEF JobOK, ScopeInv, PlaceInv, CountInv, ToldInv, InHand, Loop, Reported, HasServices
<1>4. CASE run[j].pc \notin {"idle", "done", "gone"} /\ run'[j] = Halted
  <2>1. /\ run'[j].pc = "gone" /\ run'[j].todo = {} /\ run'[j].result = NoResult
        /\ run'[j].total = 0 /\ run'[j].processed = 0 /\ ~ run'[j].poisoned
    BY <1>4 DEF Halted, Idle
  <2>2. ScopeInv(j)' /\ PlaceInv(j)'
    BY <1>1, <2>1 DEF ScopeInv, PlaceInv, InHand, Loop
  <2>3. CountInv(j)'
    BY <1>1, <1>2, <2>1, AllResultsFinite DEF JobOK, CountInv, InHand, Loop
  <2>4. ToldInv(j)'
    BY <1>1, <1>2, <1>4, <2>1 DEF JobOK, ToldInv
  <2> QED BY <2>2, <2>3, <2>4 DEF JobOK
<1> QED BY <1>1, <1>3, <1>4

LEMMA JobsStep ==
    ASSUME NatType, JobsOK, [Next]_vars
    PROVE  NatType' /\ JobsOK'
<1>1. ASSUME NEW j \in Jobs,
             \/ Proceed(j)
             \/ \E q \in Requests : Create(j, q)
      PROVE  NatType' /\ JobsOK'
  <2>1. JobOK(j)'
    BY <1>1, JobStep DEF JobsOK
  <2>2. NatType' /\ Local(j) /\ beyond \subseteq beyond'
    BY <1>1, StepFrame DEF JobsOK
  <2>3. ASSUME NEW k \in Jobs, k # j PROVE JobOK(k)'
    BY <2>2, <2>3, FrameJob DEF Local, JobsOK
  <2> QED BY <2>1, <2>2, <2>3 DEF JobsOK
<1>2. CASE Crash
  BY <1>2, CrashJobs, CrashEffect
<1>3. CASE UNCHANGED vars
  <2>1. NatType'
    BY <1>3 DEF vars, tables, answered, NatType
  <2>2. \A k \in Jobs : Same(k)
    BY <1>3 DEF vars, tables, answered, Same
  <2>3. beyond \subseteq beyond'
    BY <1>3 DEF vars
  <2> QED BY <2>1, <2>2, <2>3, FrameJob DEF JobsOK
<1> QED BY <1>1, <1>2, <1>3 DEF Next

-----------------------------------------------------------------------------
(* Who can lose a result to whom.                                          *)

\* What the other jobs may rely on: a request never changes, and its rows stay.
Steady(k) ==
    /\ job'[k].agent_id = job[k].agent_id
    /\ job'[k].target = job[k].target /\ job'[k].scan_type = job[k].scan_type
    /\ stored[k] <= stored'[k]

LEMMA OthersSteady ==
    ASSUME NatType, NEW j \in Jobs, Local(j), NEW k \in Jobs, k # j
    PROVE  Steady(k)
  BY DEF NatType, Local, Same, Steady

LEMMA SelfSteady ==
    ASSUME NatType, NEW j \in Jobs, JobOK(j), Proceed(j)
    PROVE  Steady(j)
<1>1. job[j] \in JobRow /\ stored[j] \in Nat
  BY Fields
<1>2. stored'[j] \in {stored[j], stored[j] + 1}
  BY StepDoes DEF JobOK, ProceedDoes, SubmitDoes, BeginDoes, ScanDoes, FinishDoes, FailDoes,
     ObserveDoes, SelectDoes, UpsertDoes, SelectServiceDoes, UpsertServiceDoes, LinkDoes, AppendDoes, ReturnDoes,
     RaiseDoes, SameRows
<1>3. /\ job'[j].agent_id = job[j].agent_id /\ job'[j].target = job[j].target
      /\ job'[j].scan_type = job[j].scan_type
  <2>1. job'[j] = job[j]
          => /\ job'[j].agent_id = job[j].agent_id /\ job'[j].target = job[j].target
             /\ job'[j].scan_type = job[j].scan_type
    OBVIOUS
  <2>2. BeginDoes(j) \/ FinishDoes(j) \/ FailDoes(j) \/ job'[j] = job[j]
    BY StepDoes DEF JobOK, ProceedDoes, SubmitDoes, ScanDoes, ObserveDoes, SelectDoes,
       UpsertDoes, SelectServiceDoes, UpsertServiceDoes, LinkDoes, AppendDoes, ReturnDoes, RaiseDoes, SameRows
  <2>3. CASE BeginDoes(j)
    BY <1>1, <2>1, <2>3 DEF BeginDoes, JobRow
  <2>4. CASE FinishDoes(j)
    BY <1>1, <2>1, <2>4 DEF FinishDoes, JobRow
  <2>5. CASE FailDoes(j)
    BY <1>1, <2>1, <2>5 DEF FailDoes, JobRow
  <2> QED BY <2>1, <2>2, <2>3, <2>4, <2>5
<1> QED BY <1>1, <1>2, <1>3 DEF Steady

LEMMA BlameStays ==
    ASSUME NatType, NatType', NEW j \in Jobs, Blamed(j), Steady(j),
           \A k \in Jobs : Steady(k) \/ stored[k] = 0
    PROVE  Blamed(j)'
<1>1. PICK k \in Jobs : Contend(j, k) /\ stored[k] > 0
  BY DEF Blamed
<1>2. Steady(k) /\ stored[k] \in Nat /\ stored'[k] \in Nat
  BY <1>1 DEF NatType
<1>3. stored'[k] > 0
  BY <1>1, <1>2 DEF Steady
<1>4. Contend(j, k)'
  BY <1>1, <1>2 DEF Contend, Steady, Reach, Reported
<1> QED BY <1>3, <1>4 DEF Blamed

LEMMA FaultsGrow ==
    ASSUME NatType, NEW j \in Jobs, NEW point, Works(j) \/ Raises(j, point)
    PROVE  /\ faults' = 0 => faults = 0
           /\ faults' = 0 /\ ~ run[j].poisoned => ~ Raises(j, point)
  BY BoundsAssumption DEF NatType, Works, Raises

\* A step of j is an insert of its device row, or of its service's, or leaves
\* the tables alone.
LEMMA DevicesStep ==
    ASSUME NatType, NEW j \in Jobs, JobOK(j), Proceed(j)
    PROVE  /\ faults' = 0 => faults = 0
           /\ \/ UNCHANGED devices
              \/ /\ run[j].pc = "upsert" /\ ~ run[j].exists /\ ~ Refused(Of(j)) /\ Inserted(Of(j))
                 /\ run'[j] = [run[j] EXCEPT !.pc = "details"]
           /\ \/ UNCHANGED services
              \/ /\ run[j].pc = "service" /\ services[Of(j)] < devices[Of(j)] /\ Served(Of(j))
                 /\ UNCHANGED devices
<1>2. CASE SubmitDoes(j)
  <2> QED BY <1>2, FaultsGrow DEF SubmitDoes, tables
<1>3. CASE BeginDoes(j)
  <2> QED BY <1>3, FaultsGrow DEF BeginDoes
<1>4. CASE ScanDoes(j)
  <2> QED BY <1>4, FaultsGrow DEF ScanDoes, tables
<1>5. CASE FinishDoes(j)
  <2> QED BY <1>5, FaultsGrow DEF FinishDoes
<1>6. CASE FailDoes(j)
  <2> QED BY <1>6, FaultsGrow DEF FailDoes
<1>7. CASE ObserveDoes(j)
  <2> QED BY <1>7, FaultsGrow DEF ObserveDoes
<1>8. CASE SelectDoes(j)
  <2> QED BY <1>8, FaultsGrow DEF SelectDoes, tables
<1>9. CASE UpsertDoes(j)
  <2> QED BY <1>9, FaultsGrow DEF UpsertDoes
<1>10. CASE SelectServiceDoes(j)
  <2> QED BY <1>10, FaultsGrow DEF SelectServiceDoes, tables
<1>15. CASE UpsertServiceDoes(j)
  <2> QED BY <1>15, FaultsGrow DEF UpsertServiceDoes
<1>11. CASE LinkDoes(j)
  <2> QED BY <1>11, FaultsGrow DEF LinkDoes
<1>12. CASE AppendDoes(j)
  <2> QED BY <1>12, FaultsGrow DEF AppendDoes, tables
<1>13. CASE ReturnDoes(j)
  <2> QED BY <1>13, FaultsGrow DEF ReturnDoes, tables
<1>14. CASE RaiseDoes(j)
  <2> QED BY <1>14 DEF RaiseDoes, tables
<1> QED BY StepDoes, <1>2, <1>3, <1>4, <1>5, <1>6, <1>7, <1>8, <1>9, <1>10, <1>11, <1>12, <1>13, <1>14,
          <1>15
        DEF JobOK, ProceedDoes

\* A step of j can be to blame for a refusal of k, and then it is named.
LEMMA AloneOther ==
    ASSUME NatType, JobsOK, NatType', NEW j \in Jobs, NEW k \in Jobs, k # j, Local(j),
           AloneInv(k), faults' = 0 => faults = 0,
           \A i \in Jobs : Steady(i) \/ stored[i] = 0,
           \/ UNCHANGED devices
           \/ run[j].pc = "upsert" /\ Inserted(Of(j)) /\ Steady(j),
           \/ UNCHANGED services
           \/ run[j].pc = "service" /\ Served(Of(j)) /\ Steady(j)
    PROVE  AloneInv(k)'
<1>1. Same(k) /\ Steady(k)
  BY OthersSteady DEF Local
<1>2. Blamed(k) => Blamed(k)'
  BY <1>1, BlameStays
<1>3. Of(k)' = Of(k)
  BY <1>1 DEF Same, Of
<1>4. ASSUME run[k].pc = "upsert", ~ run[k].exists, Refused(Of(k))'
      PROVE  Blamed(k)'
  <2>1. CASE Refused(Of(k))
    BY <1>2, <1>4, <2>1 DEF AloneInv
  <2>2. CASE ~ Refused(Of(k))
    <3>1. Of(k) \in Hosts \X Agents /\ Of(k)[1] \in Reach(k) /\ Of(k)[2] = job[k].agent_id
      BY <1>4, OfType DEF JobsOK, JobOK, InHand, Of
    <3>2. devices'[Of(k)] # devices[Of(k)] /\ job[k].agent_id # NoAgent
      BY <1>3, <1>4, <2>2, <3>1 DEF Refused
    <3>3. run[j].pc = "upsert" /\ Inserted(Of(j)) /\ Steady(j)
      BY <3>2
    <3>4. Of(j) \in Hosts \X Agents /\ Of(j)[1] \in Reach(j) /\ Of(j)[2] = job[j].agent_id
      BY <3>3, OfType DEF JobsOK, JobOK, InHand, Of
    <3>5. Of(j) = Of(k)
      BY <3>1, <3>2, <3>3, <3>4 DEF Inserted, NatType
    <3>6. Contend(k, j)
      BY <3>1, <3>2, <3>4, <3>5 DEF Contend
    <3>7. stored[j] > 0
      BY <3>3, Fields DEF JobsOK, JobOK, CountInv, Loop, InHand
    <3> QED BY <1>2, <3>6, <3>7 DEF Blamed
  <2> QED BY <2>1, <2>2
<1>5. ASSUME run[k].pc = "service", ~ run[k].exists, services'[Of(k)] > run[k].known
      PROVE  Blamed(k)'
  <2>1. CASE services[Of(k)] > run[k].known
    BY <1>2, <1>5, <2>1 DEF AloneInv
  <2>2. CASE ~ (services[Of(k)] > run[k].known)
    <3>1. /\ Of(k) \in Hosts \X Agents /\ Of(k)[2] = job[k].agent_id
          /\ HasServices(k) /\ Of(k)[1] \in job[k].target
      BY <1>5, OfType DEF JobsOK, JobOK, ScopeInv, InHand, Of
    <3>2. services'[Of(k)] # services[Of(k)]
      BY <1>5, <2>2
    <3>3. run[j].pc = "service" /\ Served(Of(j)) /\ Steady(j)
      BY <3>2
    <3>4. /\ Of(j) \in Hosts \X Agents /\ Of(j)[2] = job[j].agent_id
          /\ HasServices(j) /\ Of(j)[1] \in job[j].target
      BY <3>3, OfType DEF JobsOK, JobOK, ScopeInv, InHand, Of
    <3>5. Of(j) = Of(k)
      BY <3>1, <3>2, <3>3, <3>4 DEF Served, NatType
    <3>6. Contend(k, j)
      BY <3>1, <3>4, <3>5 DEF Contend, HasServices
    <3>7. stored[j] > 0
      BY <3>3, Fields DEF JobsOK, JobOK, CountInv, Loop, InHand
    <3> QED BY <1>2, <3>6, <3>7 DEF Blamed
  <2> QED BY <2>1, <2>2
<1> QED BY <1>1, <1>2, <1>3, <1>4, <1>5 DEF AloneInv, Same, Accounted, Loop, InHand

LEMMA AloneSelf ==
    ASSUME NatType, NatType', NEW j \in Jobs, JobOK(j), JobOK(j)', AloneInv(j), Proceed(j),
           \A i \in Jobs : Steady(i)
    PROVE  AloneInv(j)'
<1>1. /\ run[j] \in Worker /\ job[j] \in JobRow
      /\ stored[j] \in Nat /\ linked[j] \in Nat
  BY Fields
<1>2. Blamed(j) => Blamed(j)'
  BY BlameStays
<1>3. faults' = 0 => faults = 0
  BY DevicesStep
<1>4. /\ Cardinality(run[j].todo) \in Nat
      /\ \A r \in run[j].todo : Cardinality(run[j].todo \ {r}) = Cardinality(run[j].todo) - 1
  BY TodoSize
<1>5. run[j].pc \in Loop \cup {"scan", "submit", "start", "return"} => ~ run[j].poisoned
  BY DEF JobOK, PlaceInv, Loop, InHand
<1>6. ASSUME NEW point, Raises(j, point), run[j].pc \in Loop \cup {"scan", "submit", "start", "return"}
      PROVE  faults' # 0
  BY <1>5, <1>6, FaultsGrow
<1> USE DEF Worker, JobRow, Body
<1> DEFINE Quiet == /\ run'[j].pc \notin Loop
                    /\ job'[j].status = "completed" => job'[j] = job[j]
<1>7. ASSUME Quiet PROVE AloneInv(j)'
  BY <1>2, <1>3, <1>7 DEF AloneInv, Loop, InHand
<1> HIDE DEF Quiet
<1>8. CASE SubmitDoes(j)
  <2>2. Quiet
    BY <1>1, <1>8 DEF Quiet, SubmitDoes, SameRows, Loop, InHand
  <2> QED BY <2>2, <1>7
<1>9. CASE BeginDoes(j)
  <2>2. Quiet
    BY <1>1, <1>9 DEF Quiet, BeginDoes, Loop, InHand
  <2> QED BY <2>2, <1>7
<1>10. CASE FailDoes(j)
  <2>2. Quiet
    BY <1>1, <1>10 DEF Quiet, FailDoes, Loop, InHand
  <2> QED BY <2>2, <1>7
<1>11. CASE ReturnDoes(j)
  <2>2. Quiet
    BY <1>1, <1>11 DEF Quiet, ReturnDoes, SameRows, Loop, InHand
  <2> QED BY <2>2, <1>7
<1>12. CASE RaiseDoes(j)
  <2>2. Quiet
    BY <1>1, <1>12 DEF Quiet, RaiseDoes, SameRows, Loop, InHand
  <2> QED BY <2>2, <1>7
<1>13. CASE ScanDoes(j)
  <2>2. CASE run'[j] = [run[j] EXCEPT !.pc = "fail"]
    <3>1. Quiet
      BY <1>1, <1>13, <2>2 DEF Quiet, ScanDoes, SameRows, Loop, InHand
    <3> QED BY <3>1, <1>7
  <2>3. ASSUME NEW found \in SUBSET Reported(j),
               run'[j] = [run[j] EXCEPT !.todo = found, !.total = Cardinality(found), !.pc = "next"]
        PROVE  AloneInv(j)'
    <3> DEFINE n == Cardinality(found)
    <3>1. /\ run'[j].todo = found /\ run'[j].total = n /\ run'[j].pc = "next"
          /\ run'[j].processed = run[j].processed
      BY <1>1, <2>3
    <3>2. n \in Nat
      BY FoundSize
    <3>3. run[j].processed = 0
      <4>1. run[j].pc = "scan" /\ CountInv(j)
        BY <1>13 DEF ScanDoes, JobOK
      <4> QED BY <1>1, <4>1 DEF CountInv
    <3>4. Accounted(j)'
      BY <3>1, <3>2, <3>3 DEF Accounted, InHand
    <3>5. job'[j] = job[j] /\ run[j].pc = "scan"
      BY <1>13 DEF ScanDoes, SameRows
    <3>6. job'[j].status = "running"
      BY <3>5 DEF JobOK, PlaceInv
    <3> QED BY <3>1, <3>4, <3>6 DEF AloneInv
  <2> QED BY <1>13, <2>2, <2>3 DEF ScanDoes
<1>14. CASE FinishDoes(j)
  <2>2. CASE job'[j] = job[j]
    <3>1. Quiet
      BY <1>1, <1>14, <2>2 DEF Quiet, FinishDoes, Loop, InHand
    <3> QED BY <3>1, <1>7
  <2>3. CASE /\ run'[j] = [run[j] EXCEPT !.pc = "return"]
             /\ job'[j] = [job[j] EXCEPT !.status = "completed",
                                         !.observations_count = run[j].total,
                                         !.devices_found = run[j].processed,
                                         !.completed_at = TRUE]
    <3>1. job'[j].observations_count = run[j].total /\ job'[j].devices_found = run[j].processed
              /\ run'[j].pc = "return"
      BY <1>1, <2>3
    <3>2. run[j].pc = "next" /\ Cardinality(run[j].todo) = 0
      BY <1>14, FS_EmptySet DEF FinishDoes
    <3>3. faults = 0 => run[j].total = run[j].processed \/ Blamed(j)
      BY <1>1, <3>2 DEF AloneInv, Accounted, Loop, InHand
    <3> QED BY <1>2, <1>3, <3>1, <3>3 DEF AloneInv, Loop, InHand
  <2> QED BY <1>14, <2>2, <2>3 DEF FinishDoes
<1>15. ASSUME job'[j].status = "running", run[j].pc \in Loop, run'[j].pc \in Loop,
              run'[j].pc \notin {"upsert", "service"}, faults' = 0 => Accounted(j)' \/ Blamed(j)
       PROVE  AloneInv(j)'
  BY <1>2, <1>15 DEF AloneInv
<1>16. CASE ObserveDoes(j)
  <2>2. PICK r \in run[j].todo :
          \/ /\ run'[j] = [run[j] EXCEPT !.todo = @ \ {r}, !.result = r, !.pc = "select"]
             /\ Works(j)
          \/ /\ run'[j] = [run[j] EXCEPT !.todo = @ \ {r}, !.poisoned = FALSE]
             /\ Raises(j, "observe")
    BY <1>16 DEF ObserveDoes
  <2>3. job'[j].status = "running" /\ run[j].pc = "next"
    BY <1>16 DEF ObserveDoes, JobOK, PlaceInv, Loop
  <2>4. CASE Raises(j, "observe") /\ run'[j] = [run[j] EXCEPT !.todo = @ \ {r}, !.poisoned = FALSE]
    <3>1. run'[j].pc = "next" /\ faults' # 0
      BY <1>1, <1>6, <2>3, <2>4 DEF Loop
    <3> QED BY <1>15, <2>3, <3>1 DEF Loop, InHand
  <2>5. CASE run'[j] = [run[j] EXCEPT !.todo = @ \ {r}, !.result = r, !.pc = "select"]
    <3>1. /\ run'[j].pc = "select" /\ run'[j].todo = run[j].todo \ {r}
          /\ run'[j].total = run[j].total /\ run'[j].processed = run[j].processed
      BY <1>1, <2>5
    <3>2. Accounted(j) => Accounted(j)'
      <4> DEFINE n == Cardinality(run[j].todo)
      <4>1. n \in Nat /\ Cardinality(run'[j].todo) = n - 1
        BY <1>4, <3>1
      <4> HIDE DEF n
      <4>2. Accounted(j) => run[j].total = run[j].processed + n
        BY <1>1, <2>3, <4>1 DEF Accounted, InHand, n
      <4>3. run'[j].total = run[j].processed + n => Accounted(j)'
        BY <1>1, <3>1, <4>1 DEF Accounted, InHand
      <4> QED BY <3>1, <4>2, <4>3
    <3>3. faults' = 0 => Accounted(j)' \/ Blamed(j)
      BY <1>3, <2>3, <3>2 DEF AloneInv, Loop
    <3> QED BY <1>15, <2>3, <3>1, <3>3 DEF Loop, InHand
  <2> QED BY <2>2, <2>4, <2>5
<1>17. CASE SelectDoes(j)
  <2>2. job'[j].status = "running" /\ run[j].pc = "select" /\ job'[j] = job[j]
    BY <1>17 DEF SelectDoes, SameRows, JobOK, PlaceInv, Loop, InHand
  <2>3. CASE Raises(j, "device") /\ run'[j] = [Body(run[j]) EXCEPT !.poisoned = FALSE]
    <3>1. run'[j].pc = "next" /\ faults' # 0
      BY <1>1, <1>6, <2>2, <2>3 DEF Loop, InHand
    <3> QED BY <1>15, <2>2, <3>1 DEF Loop, InHand
  <2>4. ASSUME NEW there \in BOOLEAN, there <=> There(Of(j)),
               run'[j] = [run[j] EXCEPT !.exists = there, !.pc = "upsert"]
        PROVE  AloneInv(j)'
    <3>1. /\ run'[j].pc = "upsert" /\ run'[j].todo = run[j].todo /\ run'[j].exists = there
          /\ run'[j].total = run[j].total /\ run'[j].processed = run[j].processed
          /\ run'[j].result = run[j].result
      BY <1>1, <2>4
    <3>2. Accounted(j) => Accounted(j)'
      BY <2>2, <3>1 DEF Accounted, InHand
    <3>3. Of(j)' = Of(j) /\ devices' = devices
      BY <1>17, <2>2, <3>1 DEF Of, SelectDoes, tables
    <3>4. run'[j].exists \/ ~ Refused(Of(j))'
      BY <2>4, <3>1, <3>3 DEF Refused, There
    <3>5. faults' = 0 => Accounted(j)' \/ Blamed(j)'
      BY <1>2, <1>3, <2>2, <3>2 DEF AloneInv, Loop, InHand
    <3> QED BY <2>2, <3>1, <3>4, <3>5 DEF AloneInv
  <2> QED BY <1>17, <2>3, <2>4 DEF SelectDoes
<1>18. CASE UpsertDoes(j)
  <2>2. job'[j].status = "running" /\ run[j].pc = "upsert"
    BY <1>18 DEF UpsertDoes, SameRows, JobOK, PlaceInv, Loop, InHand
  <2>3. CASE run'[j] = [run[j] EXCEPT !.pc = "details"]
    <3>1. /\ run'[j].pc = "details" /\ run'[j].todo = run[j].todo
          /\ run'[j].total = run[j].total /\ run'[j].processed = run[j].processed
      BY <1>1, <2>3
    <3>2. Accounted(j) => Accounted(j)'
      BY <2>2, <3>1 DEF Accounted, InHand
    <3>3. faults' = 0 => Accounted(j)' \/ Blamed(j)
      BY <1>3, <2>2, <3>2 DEF AloneInv, Loop, InHand
    <3> QED BY <1>15, <2>2, <3>1, <3>3 DEF Loop, InHand
  <2>4. CASE run'[j] = [Body(run[j]) EXCEPT !.poisoned = FALSE]
    <3>1. run'[j].pc = "next"
      BY <1>1, <2>4
    <3>2. faults' = 0 => Blamed(j)
      BY <1>1, <1>6, <1>18, <2>2, <3>1 DEF UpsertDoes, AloneInv, Loop, InHand
    <3> QED BY <1>15, <2>2, <3>1, <3>2 DEF Loop, InHand
  <2> QED BY <1>18, <2>3, <2>4 DEF UpsertDoes
<1>19. CASE SelectServiceDoes(j)
  <2>2. job'[j].status = "running" /\ run[j].pc = "details"
    BY <1>19 DEF SelectServiceDoes, SameRows, JobOK, PlaceInv, Loop, InHand
  <2>3. CASE run'[j] = [run[j] EXCEPT !.pc = "link"]
    <3>1. /\ run'[j].pc = "link" /\ run'[j].todo = run[j].todo
          /\ run'[j].total = run[j].total /\ run'[j].processed = run[j].processed
      BY <1>1, <2>3
    <3>2. Accounted(j) => Accounted(j)'
      BY <2>2, <3>1 DEF Accounted, InHand
    <3>3. faults' = 0 => Accounted(j)' \/ Blamed(j)
      BY <1>3, <2>2, <3>2 DEF AloneInv, Loop, InHand
    <3> QED BY <1>15, <2>2, <3>1, <3>3 DEF Loop, InHand
  <2>4. CASE Raises(j, "details") /\ run'[j] = [Body(run[j]) EXCEPT !.poisoned = FALSE]
    <3>1. run'[j].pc = "next" /\ faults' # 0
      BY <1>1, <1>6, <2>2, <2>4 DEF Loop, InHand
    <3> QED BY <1>15, <2>2, <3>1 DEF Loop, InHand
  <2>5. ASSUME NEW found \in BOOLEAN,
               run'[j] = [run[j] EXCEPT !.exists = found, !.known = services[Of(j)],
                                        !.pc = "service"]
        PROVE  AloneInv(j)'
    <3>1. /\ run'[j].pc = "service" /\ run'[j].todo = run[j].todo
          /\ run'[j].total = run[j].total /\ run'[j].processed = run[j].processed
          /\ run'[j].result = run[j].result /\ run'[j].known = services[Of(j)]
      BY <1>1, <2>5
    <3>2. Accounted(j) => Accounted(j)'
      BY <2>2, <3>1 DEF Accounted, InHand
    <3>3. job'[j] = job[j] /\ services' = services
      BY <1>19 DEF SelectServiceDoes, SameRows, tables
    <3>4. Of(j)' = Of(j)
      BY <3>1, <3>3 DEF Of
    <3>5. services[Of(j)] \in Nat
      BY <1>19, OfType DEF NatType, JobOK, SelectServiceDoes, InHand
    <3>6. ~ (services'[Of(j)'] > run'[j].known)
      BY <3>1, <3>3, <3>4, <3>5
    <3>7. faults' = 0 => Accounted(j)' \/ Blamed(j)'
      BY <1>2, <1>3, <2>2, <3>2 DEF AloneInv, Loop, InHand
    <3> QED BY <2>2, <3>1, <3>6, <3>7 DEF AloneInv
  <2> QED BY <1>19, <2>3, <2>4, <2>5 DEF SelectServiceDoes
<1>20. CASE LinkDoes(j)
  <2>2. job'[j].status = "running" /\ run[j].pc = "link"
    BY <1>20 DEF LinkDoes, JobOK, PlaceInv, Loop, InHand
  <2>3. CASE run'[j] = [run[j] EXCEPT !.pc = "append"]
    <3>1. /\ run'[j].pc = "append" /\ run'[j].todo = run[j].todo
          /\ run'[j].total = run[j].total /\ run'[j].processed = run[j].processed
      BY <1>1, <2>3
    <3>2. Accounted(j) => Accounted(j)'
      BY <2>2, <3>1 DEF Accounted, InHand
    <3>3. faults' = 0 => Accounted(j)' \/ Blamed(j)
      BY <1>3, <2>2, <3>2 DEF AloneInv, Loop, InHand
    <3> QED BY <1>15, <2>2, <3>1, <3>3 DEF Loop, InHand
  <2>4. CASE Raises(j, "link") /\ run'[j] = [Body(run[j]) EXCEPT !.poisoned = FALSE]
    <3>1. run'[j].pc = "next" /\ faults' # 0
      BY <1>1, <1>6, <2>2, <2>4 DEF Loop, InHand
    <3> QED BY <1>15, <2>2, <3>1 DEF Loop, InHand
  <2> QED BY <1>20, <2>3, <2>4 DEF LinkDoes
<1>21. CASE AppendDoes(j)
  <2>2. job'[j].status = "running" /\ run[j].pc = "append"
    BY <1>21 DEF AppendDoes, SameRows, JobOK, PlaceInv, Loop, InHand
  <2>3. CASE run'[j] = [Body(run[j]) EXCEPT !.processed = run[j].processed + 1]
    <3>1. /\ run'[j].pc = "next" /\ run'[j].todo = run[j].todo
          /\ run'[j].total = run[j].total /\ run'[j].processed = run[j].processed + 1
      BY <1>1, <2>3
    <3>2. Accounted(j) => Accounted(j)'
      BY <1>1, <1>4, <2>2, <3>1 DEF Accounted, InHand
    <3>3. faults' = 0 => Accounted(j)' \/ Blamed(j)
      BY <1>3, <2>2, <3>2 DEF AloneInv, Loop, InHand
    <3> QED BY <1>15, <2>2, <3>1, <3>3 DEF Loop, InHand
  <2>4. CASE Raises(j, "append") /\ run'[j] = [Body(run[j]) EXCEPT !.poisoned = FALSE]
    <3>1. run'[j].pc = "next" /\ faults' # 0
      BY <1>1, <1>6, <2>2, <2>4 DEF Loop, InHand
    <3> QED BY <1>15, <2>2, <3>1 DEF Loop, InHand
  <2> QED BY <1>21, <2>3, <2>4 DEF AppendDoes
<1>22. CASE UpsertServiceDoes(j)
  <2>2. job'[j].status = "running" /\ run[j].pc = "service"
    BY <1>22 DEF UpsertServiceDoes, SameRows, JobOK, PlaceInv, Loop, InHand
  <2>3. CASE run'[j] = [run[j] EXCEPT !.pc = "link"]
    <3>1. /\ run'[j].pc = "link" /\ run'[j].todo = run[j].todo
          /\ run'[j].total = run[j].total /\ run'[j].processed = run[j].processed
      BY <1>1, <2>3
    <3>2. Accounted(j) => Accounted(j)'
      BY <2>2, <3>1 DEF Accounted, InHand
    <3>3. faults' = 0 => Accounted(j)' \/ Blamed(j)
      BY <1>3, <2>2, <3>2 DEF AloneInv, Loop, InHand
    <3> QED BY <1>15, <2>2, <3>1, <3>3 DEF Loop, InHand
  <2>4. CASE run'[j] = [Body(run[j]) EXCEPT !.poisoned = FALSE]
    <3>1. run'[j].pc = "next"
      BY <1>1, <2>4
    <3>2. faults' = 0 => Blamed(j)
      BY <1>1, <1>6, <1>22, <2>2, <3>1 DEF UpsertServiceDoes, AloneInv, Loop, InHand
    <3> QED BY <1>15, <2>2, <3>1, <3>2 DEF Loop, InHand
  <2> QED BY <1>22, <2>3, <2>4 DEF UpsertServiceDoes
<1> QED BY StepDoes, <1>8, <1>9, <1>10, <1>11, <1>12, <1>13, <1>14, <1>16, <1>17, <1>18, <1>19, <1>20,
          <1>21, <1>22
        DEF JobOK, ProceedDoes

AloneAll == \A j \in Jobs : AloneInv(j)

LEMMA AloneStep ==
    ASSUME NatType, JobsOK, AloneAll, NatType', JobsOK', [Next]_vars
    PROVE  AloneAll'
<1>1. ASSUME NEW j \in Jobs, Proceed(j) PROVE AloneAll'
  <2>1. Local(j) /\ Steady(j) /\ \A i \in Jobs : Steady(i)
    BY <1>1, StepFrame, SelfSteady, OthersSteady DEF JobsOK
  <2>2. /\ faults' = 0 => faults = 0
        /\ \/ UNCHANGED devices
           \/ run[j].pc = "upsert" /\ Inserted(Of(j))
        /\ \/ UNCHANGED services
           \/ run[j].pc = "service" /\ Served(Of(j))
    BY <1>1, DevicesStep DEF JobsOK
  <2>3. AloneInv(j)'
    BY <1>1, <2>1, AloneSelf DEF JobsOK, AloneAll
  <2>4. ASSUME NEW k \in Jobs, k # j PROVE AloneInv(k)'
    BY <2>1, <2>2, <2>4, AloneOther DEF AloneAll
  <2> QED BY <2>3, <2>4 DEF AloneAll
<1>2. ASSUME NEW j \in Jobs, NEW q \in Requests,
             Create(j, q)
      PROVE  AloneAll'
  <2>1. Local(j) /\ CreateDoes(j, q)
    BY <1>2, CreateEffect
  <2>2. stored[j] = 0
    BY <2>1, Fields DEF CreateDoes, JobsOK, JobOK, CountInv
  <2>3. \A i \in Jobs : Steady(i) \/ stored[i] = 0
    BY <2>1, <2>2, OthersSteady
  <2>4. AloneInv(j)'
    BY <2>1, Fields DEF CreateDoes, AloneInv, Loop, InHand, Worker, JobRow
  <2>5. ASSUME NEW k \in Jobs, k # j PROVE AloneInv(k)'
    BY <2>1, <2>3, <2>5, AloneOther DEF AloneAll, CreateDoes
  <2> QED BY <2>4, <2>5 DEF AloneAll
<1>3. ASSUME Crash \/ UNCHANGED vars, NEW j \in Jobs PROVE AloneInv(j)'
  <2>1. /\ UNCHANGED <<job, stored, devices, services, faults>>
        /\ run'[j] = run[j] \/ run'[j] = Halted
    BY <1>3, CrashEffect DEF tables, vars
  <2>2. Blamed(j) => Blamed(j)'
    BY <2>1 DEF Blamed, Contend, Reach, Reported
  <2>3. CASE run'[j] = run[j]
    <3>1. Of(j)' = Of(j)
      BY <2>1, <2>3 DEF Of
    <3> QED BY <2>1, <2>2, <2>3, <3>1 DEF AloneInv, AloneAll, Accounted, Refused
  <2>4. CASE run'[j] = Halted
    <3>1. run'[j].pc = "gone"
      BY <2>4 DEF Halted, Idle
    <3> QED BY <2>1, <2>2, <3>1 DEF AloneInv, AloneAll, Loop, InHand
  <2> QED BY <2>1, <2>3, <2>4
<1> QED BY <1>1, <1>2, <1>3 DEF Next, AloneAll

-----------------------------------------------------------------------------
(* The rows of one address and one agent.                                  *)

RowOK(h, a) ==
    /\ devices[<<h, a>>] + Cardinality(Inserting(h, a)) <= Cardinality(Finders(h, a))
    /\ a # NoAgent => devices[<<h, a>>] <= 1

LEMMA JobSets ==
    ASSUME NEW h, NEW a
    PROVE  /\ IsFiniteSet(Inserting(h, a)) /\ Cardinality(Inserting(h, a)) \in Nat
           /\ IsFiniteSet(Finders(h, a)) /\ Cardinality(Finders(h, a)) \in Nat
           /\ Cardinality(Finders(h, a)) <= Cardinality(Jobs)
  BY ScopeAssumption, FS_Subset, FS_CardinalityType DEF Inserting, Finders

LEMMA JobSetsNext ==
    ASSUME NEW h, NEW a
    PROVE  /\ IsFiniteSet(Inserting(h, a)') /\ Cardinality(Inserting(h, a)') \in Nat
           /\ IsFiniteSet(Finders(h, a)') /\ Cardinality(Finders(h, a)') \in Nat
  BY ScopeAssumption, FS_Subset, FS_CardinalityType DEF Inserting, Finders

LEMMA RowFrame ==
    ASSUME NatType, NEW h \in Hosts, NEW a \in Agents, RowOK(h, a),
           devices'[<<h, a>>] = devices[<<h, a>>],
           Inserting(h, a)' \subseteq Inserting(h, a),
           Finders(h, a) \subseteq Finders(h, a)'
    PROVE  RowOK(h, a)'
<1>1. devices[<<h, a>>] \in Nat
  BY DEF NatType
<1>2. Cardinality(Inserting(h, a)') <= Cardinality(Inserting(h, a))
  BY JobSets, FS_Subset
<1>3. Cardinality(Finders(h, a)) <= Cardinality(Finders(h, a)')
  BY JobSetsNext, FS_Subset
<1>4. /\ Cardinality(Inserting(h, a)) \in Nat /\ Cardinality(Inserting(h, a)') \in Nat
      /\ Cardinality(Finders(h, a)) \in Nat /\ Cardinality(Finders(h, a)') \in Nat
  BY JobSets, JobSetsNext
<1>5. devices[<<h, a>>] + Cardinality(Inserting(h, a)) <= Cardinality(Finders(h, a))
  BY DEF RowOK
<1>6. devices'[<<h, a>>] + Cardinality(Inserting(h, a)') <= Cardinality(Finders(h, a)')
  BY <1>1, <1>2, <1>3, <1>4, <1>5
<1> QED BY <1>6 DEF RowOK

\* Who is about to insert a row has stored an observation of it.
LEMMA InsertersFind ==
    ASSUME NatType, JobsOK, NEW h \in Hosts, NEW a \in Agents
    PROVE  Inserting(h, a) \subseteq Finders(h, a)
<1> SUFFICES ASSUME NEW j \in Inserting(h, a) PROVE j \in Finders(h, a)
  OBVIOUS
<1>1. j \in Jobs /\ run[j].pc = "upsert" /\ Of(j) = <<h, a>>
  BY DEF Inserting
<1>2. Of(j)[1] \in Reach(j)
  BY <1>1, OfType DEF JobsOK, JobOK, InHand
<1>3. stored[j] > 0
  BY <1>1, Fields DEF JobsOK, JobOK, CountInv, Loop, InHand
<1> QED BY <1>1, <1>2, <1>3 DEF Finders, Of


LEMMA InsertersFindNext ==
    ASSUME NatType', JobsOK', NEW h \in Hosts, NEW a \in Agents
    PROVE  Inserting(h, a)' \subseteq Finders(h, a)'
<1> SUFFICES ASSUME NEW j \in Inserting(h, a)' PROVE j \in Finders(h, a)'
  OBVIOUS
<1>1. j \in Jobs /\ run'[j].pc = "upsert" /\ Of(j)' = <<h, a>>
  BY DEF Inserting
<1>2. job'[j] \in JobRow /\ stored'[j] \in Nat /\ linked'[j] \in Nat /\ JobOK(j)'
  BY <1>1 DEF NatType, JobsOK
<1>3. run'[j].result \in Reported(j)'
  BY <1>1, <1>2 DEF JobOK, ScopeInv, InHand
<1>4. h \in Reach(j)' /\ job'[j].agent_id = a
  BY <1>1, <1>3 DEF Of, Reach
<1>5. stored'[j] > 0
  BY <1>1, <1>2 DEF JobOK, CountInv, Loop, InHand
<1> QED BY <1>1, <1>4, <1>5 DEF Finders

LEMMA RowsOther ==
    ASSUME NatType, NatType', NEW j \in Jobs, Local(j), UNCHANGED devices, RowInv,
           \A i \in Jobs : Steady(i) \/ stored[i] = 0,
           run'[j].pc # "upsert" \/ run'[j].exists
    PROVE  RowInv'
<1> SUFFICES ASSUME NEW h \in Hosts, NEW a \in Agents PROVE RowOK(h, a)'
  BY DEF RowInv, RowOK
<1>1. Inserting(h, a)' \subseteq Inserting(h, a)
  BY DEF Inserting, Local, Same, Of
<1>2. Finders(h, a) \subseteq Finders(h, a)'
  BY DEF Finders, Steady, NatType, Reach, Reported
<1> QED BY <1>1, <1>2, RowFrame DEF RowInv, RowOK

LEMMA RowsSelect ==
    ASSUME NatType, NatType', JobsOK, JobsOK', NEW j \in Jobs, RowInv, SelectDevice(j)
    PROVE  RowInv'
<1>1. SelectDoes(j) /\ Local(j)
  BY SelectEffect
<1>2. run[j] \in Worker /\ run[j].pc = "select"
  BY <1>1, Fields DEF SelectDoes
<1>3. UNCHANGED <<job, stored, devices, services>>
  BY <1>1 DEF SelectDoes, tables
<1>4. \A i \in Jobs : Steady(i)
  BY SelfSteady, OthersSteady, <1>1 DEF JobsOK, Proceed
<1>5. CASE run'[j].pc # "upsert" \/ run'[j].exists
  BY <1>1, <1>3, <1>4, <1>5, RowsOther
<1>6. CASE run'[j].pc = "upsert" /\ ~ run'[j].exists
  <2>1. run'[j].result = run[j].result /\ ~ There(Of(j))
    BY <1>1, <1>2, <1>6 DEF SelectDoes, Worker, Body
  <2>2. Of(j)' = Of(j)
    BY <1>3, <2>1 DEF Of
  <2> SUFFICES ASSUME NEW h \in Hosts, NEW a \in Agents PROVE RowOK(h, a)'
    BY DEF RowInv, RowOK
  <2>3. RowOK(h, a)
    BY DEF RowInv, RowOK
  <2>4. Finders(h, a) = Finders(h, a)'
    BY <1>3 DEF Finders, Reach, Reported
  <2>5. CASE Of(j) = <<h, a>>
    <3>1. devices[<<h, a>>] = 0 /\ devices'[<<h, a>>] = 0
      BY <1>3, <2>1, <2>5 DEF There, NatType
    <3>2. Cardinality(Inserting(h, a)') <= Cardinality(Finders(h, a)')
      <4>1. Inserting(h, a)' \subseteq Finders(h, a)'
        BY InsertersFindNext
      <4> QED BY <4>1, JobSetsNext, FS_Subset
    <3>3. Cardinality(Inserting(h, a)') \in Nat
      BY JobSetsNext
    <3> QED BY <3>1, <3>2, <3>3 DEF RowOK
  <2>6. CASE Of(j) # <<h, a>>
    <3>1. Inserting(h, a)' \subseteq Inserting(h, a)
      BY <1>1, <2>2, <2>6 DEF Inserting, Local, Same, Of
    <3> QED BY <1>3, <2>3, <2>4, <3>1, RowFrame
  <2> QED BY <2>5, <2>6
<1> QED BY <1>5, <1>6

LEMMA RowsInsert ==
    ASSUME NatType, NatType', JobsOK, NEW j \in Jobs, RowInv, Local(j), SameRows(j),
           run[j].pc = "upsert", ~ run[j].exists, ~ Refused(Of(j)), Inserted(Of(j)),
           run'[j].pc = "details"
    PROVE  RowInv'
<1> SUFFICES ASSUME NEW h \in Hosts, NEW a \in Agents PROVE RowOK(h, a)'
  BY DEF RowInv, RowOK
<1>1. RowOK(h, a) /\ devices[<<h, a>>] \in Nat
  BY DEF RowInv, RowOK, NatType
<1>2. Of(j) \in Hosts \X Agents
  BY OfType DEF JobsOK, JobOK, InHand
<1>3. Finders(h, a) = Finders(h, a)'
  BY DEF Finders, SameRows, Local, Same, Reach, Reported
<1>4. CASE Of(j) = <<h, a>>
  <2>1. j \in Inserting(h, a) /\ Inserting(h, a)' = Inserting(h, a) \ {j}
    BY <1>4 DEF Inserting, Local, Same, Of
  <2>2. /\ Cardinality(Inserting(h, a)) \in Nat /\ Cardinality(Finders(h, a)) \in Nat
        /\ Cardinality(Inserting(h, a)') = Cardinality(Inserting(h, a)) - 1
    BY <2>1, JobSets, FS_RemoveElement
  <2>3. devices'[<<h, a>>] = devices[<<h, a>>] + 1
    BY <1>2, <1>4 DEF Inserted, NatType
  <2>4. a # NoAgent => devices[<<h, a>>] = 0
    BY <1>1, <1>4 DEF Refused
  <2>5. devices[<<h, a>>] + Cardinality(Inserting(h, a)) <= Cardinality(Finders(h, a)')
    BY <1>1, <1>3 DEF RowOK
  <2>6. devices'[<<h, a>>] + Cardinality(Inserting(h, a)') <= Cardinality(Finders(h, a)')
    BY <1>1, <1>3, <2>2, <2>3, <2>5
  <2> QED BY <2>3, <2>4, <2>6 DEF RowOK
<1>5. CASE Of(j) # <<h, a>>
  <2>1. devices'[<<h, a>>] = devices[<<h, a>>]
    BY <1>2, <1>5 DEF Inserted, NatType
  <2>2. Inserting(h, a)' \subseteq Inserting(h, a)
    BY DEF Inserting, Local, Same, Of
  <2> QED BY <1>1, <1>3, <2>1, <2>2, RowFrame
<1> QED BY <1>4, <1>5

\* Only the query takes a job to the insert.
LEMMA OnlySelectLeadsToUpsert ==
    ASSUME NatType, NEW j \in Jobs, JobOK(j), Proceed(j), ~ SelectDevice(j)
    PROVE  run'[j].pc # "upsert"
<1>1. run[j] \in Worker
  BY Fields
<1> USE DEF Worker, Body
<1>2. CASE Submit(j)
  <2>1. SubmitDoes(j)
    BY <1>2, SubmitEffect
  <2> QED BY <1>1, <2>1 DEF SubmitDoes
<1>3. CASE Begin(j)
  <2>1. BeginDoes(j)
    BY <1>3, BeginEffect
  <2> QED BY <1>1, <2>1 DEF BeginDoes
<1>4. CASE Scan(j)
  <2>1. ScanDoes(j)
    BY <1>4, ScanEffect
  <2> QED BY <1>1, <2>1 DEF ScanDoes
<1>5. CASE Finish(j)
  <2>1. FinishDoes(j)
    BY <1>5, FinishEffect
  <2> QED BY <1>1, <2>1 DEF FinishDoes
<1>6. CASE Fail(j)
  <2>1. FailDoes(j)
    BY <1>6, FailEffect
  <2> QED BY <1>1, <2>1 DEF FailDoes
<1>7. CASE Observe(j)
  <2>1. ObserveDoes(j)
    BY <1>7, ObserveEffect
  <2> QED BY <1>1, <2>1 DEF ObserveDoes
<1>8. CASE UpsertDevice(j)
  <2>1. UpsertDoes(j)
    BY <1>8, UpsertEffect, OfType DEF UpsertDevice, At, InHand, JobOK
  <2> QED BY <1>1, <2>1 DEF UpsertDoes
<1>9. CASE SelectService(j)
  <2>1. SelectServiceDoes(j)
    BY <1>9, SelectServiceEffect, OfType DEF SelectService, At, InHand, JobOK
  <2> QED BY <1>1, <2>1 DEF SelectServiceDoes
<1>14. CASE UpsertService(j)
  <2>1. UpsertServiceDoes(j)
    BY <1>14, UpsertServiceEffect, OfType DEF UpsertService, At, InHand, JobOK
  <2> QED BY <1>1, <2>1 DEF UpsertServiceDoes
<1>10. CASE Link(j)
  <2>1. LinkDoes(j)
    BY <1>10, LinkEffect
  <2> QED BY <1>1, <2>1 DEF LinkDoes
<1>11. CASE AppendProcessed(j)
  <2>1. AppendDoes(j)
    BY <1>11, AppendEffect
  <2> QED BY <1>1, <2>1 DEF AppendDoes
<1>12. CASE Return(j)
  <2>1. ReturnDoes(j)
    BY <1>12, ReturnEffect
  <2> QED BY <1>1, <2>1 DEF ReturnDoes
<1>13. CASE Raise(j)
  <2>1. RaiseDoes(j)
    BY <1>13, RaiseEffect
  <2> QED BY <1>1, <2>1 DEF RaiseDoes
<1> QED BY <1>2, <1>3, <1>4, <1>5, <1>6, <1>7, <1>8, <1>9, <1>10, <1>11, <1>12, <1>13,
          <1>14 DEF Proceed

LEMMA RowsStep ==
    ASSUME NatType, JobsOK, RowInv, NatType', JobsOK', [Next]_vars
    PROVE  RowInv'
<1>1. ASSUME NEW j \in Jobs, Proceed(j) PROVE RowInv'
  <2>1. Local(j) /\ \A i \in Jobs : Steady(i)
    BY <1>1, StepFrame, SelfSteady, OthersSteady DEF JobsOK
  <2>2. CASE UpsertDevice(j)
    <3>1. UpsertDoes(j) /\ run[j] \in Worker
      BY <2>2, UpsertEffect, Fields, OfType DEF UpsertDevice, At, InHand, JobOK, JobsOK
    <3>2. run'[j].pc # "upsert"
      BY <3>1 DEF UpsertDoes, Worker, Body
    <3>3. CASE UNCHANGED devices
      BY <2>1, <3>2, <3>3, RowsOther
    <3>4. CASE /\ ~ run[j].exists /\ ~ Refused(Of(j)) /\ Inserted(Of(j))
               /\ run'[j] = [run[j] EXCEPT !.pc = "details"]
      <4>1. run'[j].pc = "details"
        BY <3>1, <3>4 DEF Worker
      <4> QED BY <2>1, <3>1, <3>4, <4>1, RowsInsert DEF UpsertDoes
    <3> QED BY <3>1, <3>3, <3>4 DEF UpsertDoes
  <2>3. CASE SelectDevice(j)
    BY <2>3, RowsSelect
  <2>4. CASE ~ UpsertDevice(j) /\ ~ SelectDevice(j)
    <3>1. UNCHANGED devices
      BY <1>1, <2>4 DEF Proceed, Submit, Begin, Scan, Finish, Fail, Observe, SelectService,
                        UpsertService, Link,
                        AppendProcessed, Return, Raise, tables
    <3>2. run'[j].pc # "upsert"
      BY <1>1, <2>4, OnlySelectLeadsToUpsert DEF JobsOK
    <3> QED BY <2>1, <3>1, <3>2, RowsOther
  <2> QED BY <2>2, <2>3, <2>4
<1>2. ASSUME NEW j \in Jobs, NEW q \in Requests,
             Create(j, q)
      PROVE  RowInv'
  <2>1. Local(j) /\ CreateDoes(j, q)
    BY <1>2, CreateEffect
  <2>2. stored[j] = 0 /\ run[j] \in Worker
    BY <2>1, Fields DEF CreateDoes, JobsOK, JobOK, CountInv
  <2>3. \A i \in Jobs : Steady(i) \/ stored[i] = 0
    BY <2>1, <2>2, OthersSteady
  <2>4. run'[j].pc # "upsert" /\ UNCHANGED devices
    BY <2>1, <2>2 DEF CreateDoes, Worker
  <2> QED BY <2>1, <2>3, <2>4, RowsOther
<1>3. CASE Crash \/ UNCHANGED vars
  <2> SUFFICES ASSUME NEW h \in Hosts, NEW a \in Agents PROVE RowOK(h, a)'
    BY DEF RowInv, RowOK
  <2>1. /\ UNCHANGED <<job, stored, devices, services>>
        /\ \A j \in Jobs : run'[j] = run[j] \/ run'[j] = Halted
    BY <1>3, CrashEffect DEF tables, vars
  <2>2. Finders(h, a) \subseteq Finders(h, a)'
    BY <2>1 DEF Finders, Reach, Reported
  <2>3. Inserting(h, a)' \subseteq Inserting(h, a)
    BY <2>1 DEF Inserting, Of, Halted, Idle
  <2> QED BY <2>1, <2>2, <2>3, RowFrame DEF RowInv, RowOK
<1> QED BY <1>1, <1>2, <1>3 DEF Next

-----------------------------------------------------------------------------
(* The theorems.                                                           *)

\* No device row has its service twice, and no worker has counted more of them
\* than there can be device rows.
ServiceInv ==
    /\ \A d \in Hosts \X Agents : services[d] <= devices[d]
    /\ \A j \in Jobs : run[j].known <= Cardinality(Jobs)

\* The number of device rows, and so of those with a service, is at most the
\* number of jobs.
LEMMA FewRows ==
    ASSUME NatType, RowInv, NEW d \in Hosts \X Agents
    PROVE  devices[d] <= Cardinality(Jobs)
<1>1. PICK h \in Hosts, a \in Agents : d = <<h, a>>
  OBVIOUS
<1>2. RowOK(h, a) /\ devices[<<h, a>>] \in Nat
  BY DEF RowInv, RowOK, NatType
<1>3. /\ Cardinality(Inserting(h, a)) \in Nat /\ Cardinality(Finders(h, a)) \in Nat
      /\ Cardinality(Finders(h, a)) <= Cardinality(Jobs) /\ Cardinality(Jobs) \in Nat
  BY JobSets, ScopeAssumption, FS_CardinalityType
<1> QED BY <1>1, <1>2, <1>3 DEF RowOK

LEMMA KnownStep ==
    ASSUME NatType, NEW j \in Jobs, JobOK(j), Proceed(j)
    PROVE  run'[j].known \in
             IF run[j].pc = "details" THEN {run[j].known, 0, services[Of(j)]}
                                      ELSE {run[j].known, 0}
<1>1. run[j] \in Worker
  BY Fields
<1> USE DEF Worker, Body
<1>2. CASE SubmitDoes(j)
  BY <1>1, <1>2 DEF SubmitDoes
<1>3. CASE BeginDoes(j)
  BY <1>1, <1>3 DEF BeginDoes
<1>4. CASE ScanDoes(j)
  BY <1>1, <1>4 DEF ScanDoes
<1>5. CASE FinishDoes(j)
  BY <1>1, <1>5 DEF FinishDoes
<1>6. CASE FailDoes(j)
  BY <1>1, <1>6 DEF FailDoes
<1>7. CASE ObserveDoes(j)
  BY <1>1, <1>7 DEF ObserveDoes
<1>8. CASE SelectDoes(j)
  BY <1>1, <1>8 DEF SelectDoes
<1>9. CASE UpsertDoes(j)
  BY <1>1, <1>9 DEF UpsertDoes
<1>10. CASE SelectServiceDoes(j)
  BY <1>1, <1>10 DEF SelectServiceDoes
<1>11. CASE UpsertServiceDoes(j)
  BY <1>1, <1>11 DEF UpsertServiceDoes
<1>12. CASE LinkDoes(j)
  BY <1>1, <1>12 DEF LinkDoes
<1>13. CASE AppendDoes(j)
  BY <1>1, <1>13 DEF AppendDoes
<1>14. CASE ReturnDoes(j)
  BY <1>1, <1>14 DEF ReturnDoes
<1>15. CASE RaiseDoes(j)
  BY <1>1, <1>15 DEF RaiseDoes
<1> QED BY StepDoes, <1>2, <1>3, <1>4, <1>5, <1>6, <1>7, <1>8, <1>9, <1>10, <1>11, <1>12, <1>13, <1>14,
          <1>15 DEF JobOK, ProceedDoes

\* The services are never counted past the rows, and the workers that are not
\* at their query remember what they did.
LEMMA ServiceStep ==
    ASSUME NatType, JobsOK, RowInv, ServiceInv, NatType', [Next]_vars
    PROVE  ServiceInv'
<1>0. Cardinality(Jobs) \in Nat
  BY ScopeAssumption, FS_CardinalityType
<1>1. ASSUME NEW j \in Jobs, Proceed(j) PROVE ServiceInv'
  <2>1. /\ \/ UNCHANGED devices
           \/ /\ run[j].pc = "upsert" /\ Inserted(Of(j))
        /\ \/ UNCHANGED services
           \/ /\ run[j].pc = "service" /\ services[Of(j)] < devices[Of(j)] /\ Served(Of(j))
              /\ UNCHANGED devices
    BY <1>1, DevicesStep DEF JobsOK
  <2>2. run[j].pc \in InHand => Of(j) \in Hosts \X Agents
    BY OfType DEF JobsOK, JobOK
  <2>3. ASSUME NEW d \in Hosts \X Agents PROVE services'[d] <= devices'[d]
    <3>1. /\ services[d] \in Nat /\ devices[d] \in Nat /\ services[d] <= devices[d]
          /\ services \in [Hosts \X Agents -> Nat] /\ devices \in [Hosts \X Agents -> Nat]
      BY DEF NatType, ServiceInv
    <3>2. CASE UNCHANGED services /\ UNCHANGED devices
      BY <3>1, <3>2
    <3>3. CASE UNCHANGED services /\ run[j].pc = "upsert" /\ Inserted(Of(j))
      <4>1. Of(j) \in Hosts \X Agents
        BY <2>2, <3>3 DEF InHand
      <4> DEFINE e == Of(j)
      <4> HIDE DEF e
      <4>2. devices' = [devices EXCEPT ![e] = devices[e] + 1] /\ devices[e] \in Nat
        BY <3>1, <3>3, <4>1 DEF Inserted, e
      <4>3. devices'[d] \in {devices[d], devices[d] + 1}
        BY <3>1, <4>2
      <4> QED BY <3>1, <3>3, <4>3
    <3>4. CASE /\ run[j].pc = "service" /\ services[Of(j)] < devices[Of(j)] /\ Served(Of(j))
               /\ UNCHANGED devices
      <4>1. Of(j) \in Hosts \X Agents
        BY <2>2, <3>4 DEF InHand
      <4> DEFINE e == Of(j)
      <4>2. services' = [services EXCEPT ![e] = services[e] + 1] /\ services[e] < devices[e]
        BY <3>1, <3>4, <4>1 DEF Served
      <4>3. services[e] \in Nat /\ devices[e] \in Nat
        BY <4>1 DEF NatType
      <4> HIDE DEF e
      <4>4. CASE d = e
        BY <3>1, <3>4, <4>2, <4>3, <4>4
      <4>5. CASE d # e
        BY <3>1, <3>4, <4>2, <4>5
      <4> QED BY <4>4, <4>5
    <3> QED BY <2>1, <3>2, <3>3, <3>4
  <2>4. ASSUME NEW k \in Jobs PROVE run'[k].known <= Cardinality(Jobs)
    <3>1. CASE k # j
      <4>1. run'[k] = run[k]
        BY <1>1, <3>1, StepFrame DEF JobsOK, Local, Same
      <4> QED BY <4>1 DEF ServiceInv
    <3>2. CASE k = j
      <4>1. CASE run[j].pc = "details"
        <5>1. Of(j) \in Hosts \X Agents
          BY <2>2, <4>1 DEF InHand
        <5>2. /\ services[Of(j)] \in Nat /\ devices[Of(j)] \in Nat
              /\ services[Of(j)] <= devices[Of(j)] /\ devices[Of(j)] <= Cardinality(Jobs)
          BY <5>1, FewRows DEF NatType, ServiceInv
        <5>3. services[Of(j)] <= Cardinality(Jobs)
          BY <1>0, <5>2
        <5>4. run'[j].known \in {run[j].known, 0, services[Of(j)]}
          BY <1>1, <4>1, KnownStep DEF JobsOK
        <5>5. run[j].known <= Cardinality(Jobs) /\ 0 <= Cardinality(Jobs)
          BY <1>0 DEF ServiceInv
        <5> QED BY <3>2, <5>3, <5>4, <5>5
      <4>2. CASE run[j].pc # "details"
        <5>1. run'[j].known \in {run[j].known, 0}
          BY <1>1, <4>2, KnownStep DEF JobsOK
        <5>2. run[j].known <= Cardinality(Jobs) /\ 0 <= Cardinality(Jobs)
          BY <1>0 DEF ServiceInv
        <5> QED BY <3>2, <5>1, <5>2
      <4> QED BY <4>1, <4>2
    <3> QED BY <3>1, <3>2
  <2> QED BY <2>3, <2>4 DEF ServiceInv
<1>2. ASSUME NEW j \in Jobs, NEW q \in Requests, Create(j, q) PROVE ServiceInv'
  <2>1. Local(j) /\ CreateDoes(j, q) /\ run[j] \in Worker
    BY <1>2, CreateEffect, Fields
  <2>2. run'[j].known = run[j].known /\ UNCHANGED <<devices, services>>
    BY <2>1 DEF CreateDoes, Worker
  <2> QED BY <2>1, <2>2 DEF ServiceInv, Local, Same
<1>3. CASE Crash \/ UNCHANGED vars
  <2>1. /\ UNCHANGED <<devices, services>>
        /\ \A j \in Jobs : run'[j] = run[j] \/ run'[j] = Halted
    BY <1>3, CrashEffect DEF tables, vars
  <2>2. Halted.known = 0
    BY DEF Halted, Idle
  <2> QED BY <1>0, <2>1, <2>2 DEF ServiceInv
<1> QED BY <1>1, <1>2, <1>3 DEF Next

JobInv == NatType /\ JobsOK /\ AloneAll /\ RowInv /\ ServiceInv

LEMMA JobInitInv == Init => JobInv
<1> SUFFICES ASSUME Init PROVE JobInv
  OBVIOUS
<1>1. NatType /\ JobsOK
  BY InitType, InitJobs
<1>2. AloneAll
  BY DEF Init, AloneAll, AloneInv, Idle, NoRow, Loop, InHand
<1>3. ASSUME NEW h \in Hosts, NEW a \in Agents PROVE RowOK(h, a)
  <2>1. devices[<<h, a>>] = 0
    BY DEF Init
  <2>2. Inserting(h, a) = {}
    BY DEF Init, Inserting, Idle
  <2>3. Cardinality(Inserting(h, a)) = 0 /\ Cardinality(Finders(h, a)) \in Nat
    BY <2>2, JobSets, FS_EmptySet
  <2> QED BY <2>1, <2>3 DEF RowOK
<1>4. ServiceInv
  <2>1. Cardinality(Jobs) \in Nat /\ Cardinality(Jobs) >= 0
    BY ScopeAssumption, FS_CardinalityType
  <2> QED BY <2>1 DEF Init, ServiceInv, Idle
<1> QED BY <1>1, <1>2, <1>3, <1>4 DEF JobInv, RowInv, RowOK

LEMMA JobStepInv == JobInv /\ [Next]_vars => JobInv'
<1> SUFFICES ASSUME JobInv, [Next]_vars PROVE JobInv'
  OBVIOUS
<1>1. NatType' /\ JobsOK'
  BY JobsStep DEF JobInv
<1> QED BY <1>1, AloneStep, RowsStep, ServiceStep DEF JobInv

\* The inductive invariant holds.
THEOREM JobInvariance == Spec => []JobInv
  BY JobInitInv, JobStepInv, PTL DEF Spec

\* The tables, the answers and the workers stay within TypeOK: in particular no
\* count exceeds the results a scan can have (normalizer.py 18-39).
THEOREM JobTypeCorrect == Spec => []TypeOK
<1>1. JobInv => TypeOK
  <2> SUFFICES ASSUME JobInv PROVE TypeOK
    OBVIOUS
  <2>1. NatType /\ MaxResults \in Nat /\ Cardinality(Jobs) \in Nat
    BY AllResultsFinite, ScopeAssumption, FS_CardinalityType DEF JobInv
  <2>2. ASSUME NEW j \in Jobs
        PROVE  /\ stored[j] \in 0 .. MaxResults /\ linked[j] \in 0 .. MaxResults
               /\ run[j].total \in 0 .. MaxResults /\ run[j].processed \in 0 .. MaxResults
               /\ job[j].observations_count \in 0 .. MaxResults
               /\ job[j].devices_found \in 0 .. MaxResults
    <3>1. CountInv(j) /\ run[j] \in Worker /\ job[j] \in JobRow
              /\ stored[j] \in Nat /\ linked[j] \in Nat
      BY <2>1, Fields DEF JobInv, JobsOK, JobOK
    <3> QED BY <2>1, <3>1 DEF CountInv, Worker, JobRow
  <2>3. ASSUME NEW d \in Hosts \X Agents
        PROVE  /\ devices[d] \in 0 .. Cardinality(Jobs)
               /\ services[d] \in 0 .. Cardinality(Jobs) /\ services[d] <= devices[d]
    <3>1. /\ devices[d] \in Nat /\ services[d] \in Nat /\ services[d] <= devices[d]
          /\ devices[d] <= Cardinality(Jobs)
      BY <2>1, FewRows DEF JobInv, NatType, ServiceInv
    <3> QED BY <2>1, <3>1
  <2>4. job \in [Jobs -> [status : Statuses, agent_id : Agents, target : SUBSET Hosts,
                         scan_type : {"host", "network"},
                         observations_count : 0 .. MaxResults,
                         devices_found : 0 .. MaxResults,
                         started_at : BOOLEAN, completed_at : BOOLEAN]]
    BY <2>1, <2>2 DEF NatType, JobRow
  <2>5. stored \in [Jobs -> 0 .. MaxResults] /\ linked \in [Jobs -> 0 .. MaxResults]
    BY <2>1, <2>2 DEF NatType
  <2>6. /\ devices \in [Hosts \X Agents -> 0 .. Cardinality(Jobs)]
        /\ services \in [Hosts \X Agents -> 0 .. Cardinality(Jobs)]
    BY <2>1, <2>3 DEF NatType
  <2>7. ASSUME NEW j \in Jobs
        PROVE  /\ run[j] \in [pc : Places, mode : {"async", "sync"},
                        todo : SUBSET Reported(j),
                        result : Reported(j) \cup {NoResult}, total : 0 .. MaxResults,
                        exists : BOOLEAN, known : 0 .. Cardinality(Jobs),
                        processed : 0 .. MaxResults, poisoned : BOOLEAN]
               /\ run[j].pc \in {"select", "upsert", "details", "service", "link", "append"}
                     => run[j].result # NoResult
    <3>1. ScopeInv(j) /\ run[j] \in Worker /\ run[j].known <= Cardinality(Jobs)
      BY <2>1, Fields DEF JobInv, JobsOK, JobOK, ServiceInv
    <3> QED BY <2>1, <2>2, <3>1 DEF ScopeInv, Worker, InHand
  <2> QED BY <2>1, <2>3, <2>4, <2>5, <2>6, <2>7 DEF TypeOK, NatType
<1> QED BY <1>1, JobInvariance, PTL

\* The counts of a completed job match the rows it left, whichever steps of
\* whichever results raised (CountsMatchRows, discovery_service.py 56-68).
THEOREM CountsMatch == Spec => []CountsMatchRows
<1>1. JobInv => CountsMatchRows
  BY DEF JobInv, JobsOK, JobOK, CountInv, CountsMatchRows
<1> QED BY <1>1, JobInvariance, PTL

\* The task record and the HTTP answer agree with the job row, also after the
\* process has ended (ClientTold, api/discovery.py and tasks/manager.py).
THEOREM ToldTruly == Spec => []ClientTold
<1>1. JobInv => ClientTold
  BY DEF JobInv, JobsOK, JobOK, ToldInv, ClientTold
<1> QED BY <1>1, JobInvariance, PTL

\* A completed job that lost a result without a fault lost it to another job
\* of the same agent_id, which could insert one of its devices or services
\* (NothingLostAlone): several providers that report one host never make a job
\* collide with itself.
THEOREM LostOnlyToAnother == Spec => []NothingLostAlone
<1>1. JobInv => NothingLostAlone
  <2> SUFFICES ASSUME JobInv, faults = 0, NEW j \in Jobs, job[j].status = "completed",
                      job[j].devices_found < job[j].observations_count
               PROVE  Blamed(j)
    BY DEF NothingLostAlone, Blamed
  <2>1. job[j] \in JobRow
    BY Fields DEF JobInv
  <2> QED BY <2>1 DEF JobInv, AloneAll, AloneInv, JobRow
<1> QED BY <1>1, JobInvariance, PTL

\* Each job adds at most one device row for an address it can report, in its
\* range or not, and there is one in all where the agent is not NULL
\* (OneRowPerJob).
THEOREM RowsBounded == Spec => []OneRowPerJob
<1>1. JobInv => OneRowPerJob
  <2> SUFFICES ASSUME JobInv, NEW h \in Hosts, NEW a \in Agents
               PROVE  /\ devices[<<h, a>>] <= Cardinality(Finders(h, a))
                      /\ a # NoAgent => devices[<<h, a>>] <= 1
    BY DEF OneRowPerJob, Finders
  <2>1. RowOK(h, a) /\ devices[<<h, a>>] \in Nat
    BY DEF JobInv, RowInv, RowOK, NatType
  <2>2. Cardinality(Inserting(h, a)) \in Nat /\ Cardinality(Finders(h, a)) \in Nat
    BY JobSets
  <2> QED BY <2>1, <2>2 DEF RowOK
<1> QED BY <1>1, JobInvariance, PTL

\* The step of the life of j that a step of its worker is.
LEMMA LifeStep ==
    ASSUME NatType, NatType', NEW j \in Jobs, JobOK(j), JobOK(j)', Proceed(j)
    PROVE  [Life(j)!LifeNext]_(Life(j)!lifeVars)
<1>1. /\ run[j] \in Worker /\ job[j] \in JobRow /\ stored[j] \in Nat /\ linked[j] \in Nat
      /\ job'[j] \in JobRow /\ stored'[j] \in Nat /\ linked'[j] \in Nat /\ MaxResults \in Nat
  BY Fields, AllResultsFinite DEF NatType
<1>2. ASSUME job'[j] = job[j] PROVE UNCHANGED Life(j)!lifeVars
  BY <1>2 DEF Life!lifeVars
<1>3. CASE Begin(j)
  <2>1. BeginDoes(j) /\ job[j].status = "pending"
    BY <1>3, BeginEffect DEF BeginDoes, JobOK, PlaceInv
  <2>2. CASE job'[j] = [job[j] EXCEPT !.status = "running", !.started_at = TRUE]
    <3>1. Life(j)!Begin
      BY <1>1, <2>1, <2>2 DEF Life!Begin, Life!Move, JobRow
    <3> QED BY <3>1 DEF Life!LifeNext
  <2> QED BY <2>1, <2>2, <1>2 DEF BeginDoes
<1>4. CASE Fail(j)
  <2>1. FailDoes(j) /\ job[j].status = "running"
    BY <1>4, FailEffect DEF FailDoes, JobOK, PlaceInv
  <2>2. CASE job'[j] = [job[j] EXCEPT !.status = "failed", !.completed_at = TRUE]
    <3>1. Life(j)!GiveUp
      BY <1>1, <2>1, <2>2 DEF Life!GiveUp, Life!Move, JobRow
    <3> QED BY <3>1 DEF Life!LifeNext
  <2> QED BY <2>1, <2>2, <1>2 DEF FailDoes
<1>5. CASE Finish(j)
  <2>1. FinishDoes(j) /\ job[j].status = "running"
    BY <1>5, FinishEffect DEF FinishDoes, JobOK, PlaceInv, Loop
  <2>2. CASE job'[j] = [job[j] EXCEPT !.status = "completed",
                                      !.observations_count = run[j].total,
                                      !.devices_found = run[j].processed,
                                      !.completed_at = TRUE]
    <3>1. job'[j].status = "completed"
      BY <1>1, <2>2 DEF JobRow
    <3>2. /\ job'[j].observations_count \in 0 .. MaxResults
          /\ job'[j].devices_found \in 0 .. job'[j].observations_count
      BY <1>1, <3>1 DEF JobOK, CountInv, JobRow
    <3>3. Life(j)!Complete
      BY <2>1, <3>1, <3>2 DEF Life!Complete
    <3> QED BY <3>3 DEF Life!LifeNext
  <2> QED BY <2>1, <2>2, <1>2 DEF FinishDoes
<1>6. CASE ~ Begin(j) /\ ~ Fail(j) /\ ~ Finish(j)
  <2>1. job' = job
    BY <1>6 DEF Proceed, Submit, Scan, Observe, SelectDevice, UpsertDevice, SelectService,
                UpsertService, Link,
                AppendProcessed, Return, Raise, tables
  <2> QED BY <2>1, <1>2
<1> QED BY <1>3, <1>4, <1>5, <1>6

\* Every step of the worker, a skipped result and the end of the process
\* included, is a step of JobLifecycle for each row or leaves the row alone.
THEOREM ImplementsLife == Spec => ImplementsLifecycle
<1>1. Init => \A j \in Jobs : Life(j)!LifeInit
  BY DEF Init, Life!LifeInit, NoRow
<1>2. JobInv /\ JobInv' /\ [Next]_vars => \A j \in Jobs : [Life(j)!LifeNext]_(Life(j)!lifeVars)
  <2> SUFFICES ASSUME JobInv, JobInv', [Next]_vars, NEW j \in Jobs
               PROVE  [Life(j)!LifeNext]_(Life(j)!lifeVars)
    OBVIOUS
  <2>1. ASSUME job'[j] = job[j] PROVE UNCHANGED Life(j)!lifeVars
    BY <2>1 DEF Life!lifeVars
  <2>2. ASSUME NEW k \in Jobs, Proceed(k) PROVE [Life(j)!LifeNext]_(Life(j)!lifeVars)
    <3>1. CASE k = j
      BY <2>2, <3>1, LifeStep DEF JobInv, JobsOK
    <3>2. CASE k # j
      BY <2>1, <2>2, <3>2, StepFrame DEF JobInv, JobsOK, Local, Same
    <3> QED BY <3>1, <3>2
  <2>3. ASSUME NEW k \in Jobs, NEW q \in Requests,
               Create(k, q)
        PROVE  [Life(j)!LifeNext]_(Life(j)!lifeVars)
    <3>1. Local(k) /\ CreateDoes(k, q) /\ job[k] \in JobRow
      BY <2>3, CreateEffect, Fields DEF JobInv
    <3>2. CASE k = j
      <4>1. job[j] = NoRow
        BY <3>1, <3>2 DEF CreateDoes, JobInv, JobsOK, JobOK, PlaceInv
      <4>2. /\ job'[j].status = "pending"
            /\ job'[j].observations_count = job[j].observations_count
            /\ job'[j].devices_found = job[j].devices_found
        BY <3>1, <3>2 DEF CreateDoes, JobRow
      <4>3. Life(j)!Accept
        BY <4>1, <4>2 DEF Life!Accept, Life!Move, NoRow
      <4> QED BY <4>3 DEF Life!LifeNext
    <3>3. CASE k # j
      BY <2>1, <3>1, <3>3 DEF Local, Same
    <3> QED BY <3>2, <3>3
  <2>4. CASE Crash \/ UNCHANGED vars
    BY <2>1, <2>4 DEF Crash, vars, tables
  <2> QED BY <2>2, <2>3, <2>4 DEF Next
<1>3. JobInv /\ JobInv' /\ [Next]_vars
        => [\A j \in Jobs : [Life(j)!LifeNext]_(Life(j)!lifeVars)]_vars
  BY <1>2
<1> QED BY <1>1, <1>3, JobInvariance, PTL DEF Spec, ImplementsLifecycle
===============================================================================
