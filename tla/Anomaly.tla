--------------------------------- MODULE Anomaly ---------------------------------
(***************************************************************************)
(* Anomaly records: the runs of the detectors that store them, submitted   *)
(* as tasks by the scheduler and by requests or made within a request, and *)
(* the requests that update their status.  A run reads the newest metrics  *)
(* of a device, commits each anomaly by itself and goes on to the next     *)
(* device; nothing keeps two runs, a run and new metrics, or two updates   *)
(* apart.  Which values the z-score flags is the subject of ZScore.        *)
(***************************************************************************)
EXTENDS Naturals, FiniteSets, Sequences, TLC

CONSTANTS
    Devices,
    Types,        \* the metric types
    Limited,      \* those the threshold detector has limits for
    Beginnings,   \* the metrics there can be at the start
    Recorded,     \* the samples that can be recorded after it
    Runs,
    Updates,
    All,          \* the scope of a run over the devices that are not offline
    Scopes,       \* the scopes runs are asked for: a device, or All
    Statuses,     \* the statuses requests ask for
    MaxSamples,   \* bound on the metrics recorded after the start
    MaxStarted    \* bound on the runs and the updates that begin

\* A metric as the detectors see it: what its newest value reaches, and whether
\* it is far from its baseline.
Sample == [level : {"normal", "warning", "critical"}, odd : BOOLEAN]

NoSample == [level |-> "none", odd |-> FALSE]

ASSUME ScopesAssumption ==
    /\ IsFiniteSet(Devices) /\ All \notin Devices /\ Scopes \subseteq Devices \cup {All}
    /\ Limited \subseteq Types
    /\ {MaxSamples, MaxStarted} \subseteq Nat

ASSUME BeginningsAssumption ==
    /\ Beginnings \subseteq [Devices -> [Types -> Sample \cup {NoSample}]]
    /\ Recorded \subseteq Sample

VARIABLES
    metrics,   \* of each device and type
    samples,   \* how many were recorded since the start
    rows,      \* the table: the n-th anomaly a run has stored, by [by, n]
    run,       \* where each run is, and its local variables
    task,      \* the task record of each scope
    update     \* where each status update is, and its local variables

vars == <<metrics, samples, rows, run, task, update>>

\* listed are the devices of the run, left those it has not begun, dev the one
\* it is at; todo the types to look at, found the anomalies to store.  changed
\* are the metrics recorded since the start of the run, for the properties.
Idle == [pc |-> "idle", kind |-> "task", scope |-> All, listed |-> {}, left |-> {},
         dev |-> {}, todo |-> {}, found |-> <<>>, total |-> 0, told |-> 0, changed |-> {}]

NoUpdate == [pc |-> "idle", row |-> <<>>, asked |-> "open", loaded |-> "open",
             answer |-> "open", crossed |-> FALSE]

Init ==
    /\ metrics \in Beginnings
    /\ samples = 0
    /\ rows = <<>>
    /\ run = [r \in Runs |-> Idle]
    /\ task = [s \in Scopes |-> [status |-> "none", total |-> 0]]
    /\ update = [u \in Updates |-> NoUpdate]

\* A collection or an agent records a metric.
Record(d, t, sample) ==
    /\ samples < MaxSamples
    /\ samples' = samples + 1
    /\ metrics' = [metrics EXCEPT ![d][t] = sample]
    /\ run' = [r \in Runs |-> IF run[r].pc = "idle" THEN run[r]
                              ELSE [run[r] EXCEPT !.changed = @ \cup {<<d, t>>}]]
    /\ UNCHANGED <<rows, task, update>>

\* Another run or update can begin.
MayStart ==
    Cardinality({r \in Runs : run[r].pc # "idle"})
      + Cardinality({u \in Updates : update[u].pc # "idle"}) < MaxStarted

-----------------------------------------------------------------------------
(* Runs of the detectors.                                                   *)

At(r, place) == run[r].pc = place

RowsBy(r) == {k \in DOMAIN rows : k.by = r}

\* A request for one device has looked it up; the devices of a run over all are
\* those that happen not to be offline.
Start(r, kind, scope) ==
    /\ At(r, "idle") /\ MayStart
    /\ \E listed \in IF scope = All THEN SUBSET Devices ELSE {{scope}} :
         run' = [run EXCEPT ![r] = [@ EXCEPT !.pc = "next", !.kind = kind, !.scope = scope,
                                            !.listed = listed, !.left = listed]]
    /\ task' = IF kind = "task" THEN [task EXCEPT ![scope] = [status |-> "running", total |-> 0]]
                                ELSE task
    /\ UNCHANGED <<metrics, samples, rows, update>>

\* All anomalies found at this place are stored.
Through(r, place) == At(r, place) /\ run[r].todo = {} /\ run[r].found = <<>>

Between(r) == At(r, "next") \/ Through(r, "threshold")

\* The query for the types a device has metrics of.
NextDevice(r) ==
    /\ Between(r)
    /\ \E d \in run[r].left :
         run' = [run EXCEPT ![r].pc = "zscore", ![r].dev = {d}, ![r].left = @ \ {d},
                            ![r].todo = {t \in Types : metrics[d][t] # NoSample}]
    /\ UNCHANGED <<metrics, samples, rows, task, update>>

\* Faulty: the name of the limit is stored as the severity.
LimitName(level) == level

SeverityOf(level) == IF level = "warning" THEN "medium" ELSE level

Statistical(t) == [detector |-> "statistical_zscore", type |-> t, severity |-> "any"]

Threshold(t, level) == [detector |-> "threshold", type |-> t, severity |-> SeverityOf(level)]

Flagged(d, t) == IF metrics[d][t].odd THEN {Statistical(t)} ELSE {}

\* Faulty: what the z-score flags is not looked at again.
ExceededOnly(d, t) ==
    IF t \in Limited /\ metrics[d][t].level \in {"warning", "critical"} /\ ~ metrics[d][t].odd
      THEN {Threshold(t, metrics[d][t].level)} ELSE {}

Exceeded(d, t) ==
    IF t \in Limited /\ metrics[d][t].level \in {"warning", "critical"}
      THEN {Threshold(t, metrics[d][t].level)} ELSE {}

\* One query for the metrics of a type, and what the detector makes of them.
Look(r, t, findings) ==
    /\ run' = [run EXCEPT ![r].todo = @ \ {t},
                          ![r].found = IF findings = {} THEN @
                                       ELSE Append(@, CHOOSE a \in findings : TRUE)]
    /\ UNCHANGED <<metrics, samples, rows, task, update>>

LookBack(r) ==
    /\ At(r, "zscore")
    /\ \E d \in run[r].dev, t \in run[r].todo : Look(r, t, Flagged(d, t))

LookLatest(r) ==
    /\ At(r, "threshold")
    /\ \E d \in run[r].dev, t \in run[r].todo : Look(r, t, Exceeded(d, t))

\* Faulty: each anomaly found replaces the count.
Recounted(r) == 1

\* What a run counts of the anomalies it stores: a task all of them, a request
\* for a device those of the z-score.  (The code adds up the lengths of the
\* lists it has stored; a run that fails tells no count.)
Counted(r) ==
    run[r].total + (IF run[r].kind = "request" /\ At(r, "threshold") THEN 0 ELSE 1)

NewKey(r) == [by |-> r, n |-> Cardinality(RowsBy(r)) + 1]

NewRow(d, a) == [device |-> d, detector |-> a.detector, type |-> a.type,
                 severity |-> a.severity, status |-> "open", resolved |-> FALSE]

\* AnomalyRepository.create, once all types are looked at: a transaction for
\* each anomaly found.
Create(r) ==
    /\ run[r].todo = {}
    /\ run[r].found # <<>>
    /\ \E d \in run[r].dev :
         rows' = [k \in DOMAIN rows \cup {NewKey(r)} |->
                    IF k = NewKey(r) THEN NewRow(d, Head(run[r].found)) ELSE rows[k]]
    /\ run' = [run EXCEPT ![r].found = Tail(@), ![r].total = Counted(r)]
    /\ UNCHANGED <<metrics, samples, task, update>>

\* The threshold detector asks for each type it has limits for.
Turn(r) ==
    /\ Through(r, "zscore")
    /\ run' = [run EXCEPT ![r].pc = "threshold", ![r].todo = Limited]
    /\ UNCHANGED <<metrics, samples, rows, task, update>>

Noted(r, status, total) ==
    IF run[r].kind = "task"
      THEN [task EXCEPT ![run[r].scope] = [status |-> status, total |-> total]]
      ELSE task

\* A request over all devices tells how many it has looked at.
Complete(r) ==
    LET told == IF run[r].kind = "request" /\ run[r].scope = All
                  THEN Cardinality(run[r].listed) ELSE run[r].total IN
    /\ Between(r)
    /\ run[r].left = {}
    /\ run' = [run EXCEPT ![r] = [@ EXCEPT !.pc = "done", !.told = told, !.total = 0, !.dev = {}]]
    /\ task' = Noted(r, "completed", told)
    /\ UNCHANGED <<metrics, samples, rows, update>>

\* A statement raises: what is stored stays, the rest of the devices is not
\* looked at.
Fail(r) ==
    /\ run[r].pc \notin {"idle", "done", "failed"}
    /\ run' = [run EXCEPT ![r] = [Idle EXCEPT !.pc = "failed", !.changed = run[r].changed]]
    /\ task' = Noted(r, "failed", 0)
    /\ UNCHANGED <<metrics, samples, rows, update>>

-----------------------------------------------------------------------------
(* Status updates.                                                          *)

Load(u) ==
    /\ update[u].pc = "idle" /\ MayStart
    /\ \E k \in DOMAIN rows, s \in Statuses :
         update' = [update EXCEPT ![u] = [@ EXCEPT !.pc = "loaded", !.row = k, !.asked = s,
                                                  !.loaded = rows[k].status]]
    /\ UNCHANGED <<metrics, samples, rows, run, task>>

\* Faulty: a false positive is not counted as resolved.
ResolvedOnly == {"resolved"}

Closing == {"resolved", "false_positive"}

\* The UPDATE has the columns whose values are new to the session: a status that
\* is the one loaded is not written, whatever the row has by now.
Write(u) ==
    LET k == update[u].row
        s == update[u].asked IN
    /\ update[u].pc = "loaded"
    /\ rows' = [rows EXCEPT ![k].status = IF s = update[u].loaded THEN @ ELSE s,
                            ![k].resolved = @ \/ s \in Closing]
    /\ update' = [v \in Updates |->
                    CASE v = u -> [update[u] EXCEPT !.pc = "written"]
                      [] v # u /\ update[v].row = k ->
                           [update[v] EXCEPT !.crossed = @ \/ update[v].pc \in {"loaded", "written"}]
                      [] OTHER -> update[v]]
    /\ UNCHANGED <<metrics, samples, run, task>>

\* After the commit the row is read again for the answer.
Answer(u) ==
    /\ update[u].pc = "written"
    /\ update' = [update EXCEPT ![u] = [@ EXCEPT !.pc = "done", !.row = <<>>, !.loaded = "open",
                                                !.answer = rows[update[u].row].status]]
    /\ UNCHANGED <<metrics, samples, rows, run, task>>

Next ==
    \/ \E d \in Devices, t \in Types, s \in Recorded : Record(d, t, s)
    \/ \E r \in Runs :
         \/ \E kind \in {"task", "request"}, scope \in Scopes : Start(r, kind, scope)
         \/ NextDevice(r) \/ LookBack(r) \/ LookLatest(r) \/ Create(r) \/ Turn(r)
         \/ Complete(r) \/ Fail(r)
    \/ \E u \in Updates : Load(u) \/ Write(u) \/ Answer(u)

Spec == Init /\ [][Next]_vars

-----------------------------------------------------------------------------
(* Properties.                                                              *)

Row == [device : Devices, detector : {"statistical_zscore", "threshold"}, type : Types,
        severity : {"any", "medium", "critical"}, status : Statuses \cup {"open"},
        resolved : BOOLEAN]

\* Types; a run numbers its anomalies without a gap, and a threshold has one of
\* the severities of AnomalySeverity.
TypeOK ==
    /\ metrics \in [Devices -> [Types -> Sample \cup {NoSample}]]
    /\ samples \in 0 .. MaxSamples
    /\ \A r \in Runs : RowsBy(r) = {[by |-> r, n |-> i] : i \in 1 .. Cardinality(RowsBy(r))}
    /\ \A k \in DOMAIN rows : /\ k.by \in Runs /\ rows[k] \in Row
                              /\ rows[k].severity = "any" <=> rows[k].detector # "threshold"
    /\ \A r \in Runs :
         /\ run[r].dev \subseteq run[r].listed \ run[r].left
         /\ run[r].left \subseteq run[r].listed
    /\ \A s \in Scopes : task[s].status \in {"none", "running", "completed", "failed"}
    /\ \A u \in Updates : update[u].pc \in {"loaded", "written"} => update[u].row \in DOMAIN rows

Findings(d, t) ==
    {a.detector : a \in Flagged(d, t)}
      \cup (IF t \in Limited
              THEN CASE metrics[d][t].level = "critical" -> {"critical"}
                     [] metrics[d][t].level = "warning"  -> {"medium"}
                     [] OTHER -> {}
              ELSE {})

Finding(row) == IF row.detector = "threshold" THEN row.severity ELSE row.detector

\* For a metric that stays as it is from the start of a run on, the run stores
\* each anomaly the detectors find in it once, and no other; all of them if it
\* completes and the device was one of its own, whatever other runs store, and
\* whichever other metrics change meanwhile (detectors.py 43-158, manager.py
\* 116-155, api/anomalies.py 64-92).
RunTellsMetrics ==
    \A r \in Runs, d \in Devices, t \in Types :
        <<d, t>> \notin run[r].changed =>
            LET stored == {k \in RowsBy(r) : rows[k].device = d /\ rows[k].type = t}
                found  == {Finding(rows[k]) : k \in stored} IN
            /\ found \subseteq Findings(d, t)
            /\ Cardinality(stored) = Cardinality(found)
            /\ At(r, "done") /\ d \in run[r].listed => found = Findings(d, t)

ZScoreRows(r) == {k \in RowsBy(r) : rows[k].detector = "statistical_zscore"}

\* A completed task tells how many anomalies its run has stored, even when another
\* run has stored the same ones; a record shared by two runs tells of one of them.
\* A request for a device tells of less than it stores: not of the thresholds
\* (manager.py 150-154, api/anomalies.py 71-95).
TotalsTellRows ==
    /\ \A r \in Runs : At(r, "done") =>
         run[r].told = CASE run[r].kind = "task" -> Cardinality(RowsBy(r))
                         [] run[r].kind = "request" /\ run[r].scope # All -> Cardinality(ZScoreRows(r))
                         [] OTHER -> Cardinality(run[r].listed)
    /\ \A s \in Scopes : task[s].status = "completed" =>
         \E r \in Runs : /\ At(r, "done") /\ run[r].kind = "task" /\ run[r].scope = s
                         /\ task[s].total = Cardinality(RowsBy(r))

\* A status update is answered with the status it asked for, unless another one
\* wrote the row between its load and its answer; and in whatever order two of
\* them cross, one that is resolved or a false positive has a time of resolution
\* (anomaly_repo.py 52-60).
UpdateStands ==
    /\ \A u \in Updates :
         update[u].pc = "done" /\ ~ update[u].crossed => update[u].answer = update[u].asked
    /\ \A k \in DOMAIN rows : rows[k].status \in {"resolved", "false_positive"} => rows[k].resolved
===============================================================================
