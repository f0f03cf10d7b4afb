----------------------------- MODULE AnomalyProofs -----------------------------
(***************************************************************************)
(* Theorems about the anomaly records, for any number of runs and status   *)
(* updates, devices and metric types, and any metrics that arrive while    *)
(* they are under way.                                                     *)
(*                                                                         *)
(* AnomalyInv says of each run (RunOK) which devices and types it is done  *)
(* with, that what it has found and stored is of these, once each          *)
(* (StoredOK, FoundOK, OnceOK), that it is there because of the metric     *)
(* (SoundOK) and that nothing is missing (CompleteOK).                     *)
(***************************************************************************)
EXTENDS Anomaly, FiniteSetTheorems, FunctionTheorems, SequenceTheorems, TLAPS

Detectors == {"statistical_zscore", "threshold"}

Severities == {"any", "medium", "critical"}

Finds == [detector : Detectors, type : Types, severity : Severities]

Runner == [pc : {"idle", "next", "zscore", "threshold", "done", "failed"},
           kind : {"task", "request"}, scope : Scopes \cup {All},
           listed : SUBSET Devices, left : SUBSET Devices, dev : SUBSET Devices,
           todo : SUBSET Types, found : Seq(Finds), total : Nat, told : Nat,
           changed : SUBSET (Devices \X Types)]

Key == [by : Runs, n : Nat]

Task == [status : {"none", "running", "completed", "failed"}, total : Nat]

StatusUpdate == [pc : {"idle", "loaded", "written", "done"}, row : Key \cup {<<>>},
                 asked : Statuses \cup {"open"}, loaded : Statuses \cup {"open"},
                 answer : Statuses \cup {"open"}, crossed : BOOLEAN]

BaseType ==
    /\ metrics \in [Devices -> [Types -> Sample \cup {NoSample}]]
    /\ samples \in 0 .. MaxSamples
    /\ IsFiniteSet(DOMAIN rows) /\ DOMAIN rows \subseteq Key
    /\ rows \in [DOMAIN rows -> Row]
    /\ run \in [Runs -> Runner]
    /\ task \in [Scopes -> Task]
    /\ update \in [Updates -> StatusUpdate]

Looking == {"zscore", "threshold"}

\* A run has begun with as many of its devices as the place it is at says.
PlaceOK(r) ==
    /\ run[r].pc \in Looking => \E d \in Devices : run[r].dev = {d}
    /\ run[r].pc \notin Looking =>
         run[r].dev = {} /\ run[r].todo = {} /\ run[r].found = <<>>
    /\ run[r].dev \subseteq run[r].listed \ run[r].left
    /\ run[r].left \subseteq run[r].listed
    /\ run[r].pc = "idle" => run[r].listed = {} /\ run[r].total = 0 /\ RowsBy(r) = {}
    /\ run[r].pc = "next" => run[r].left = run[r].listed /\ run[r].total = 0 /\ RowsBy(r) = {}
    /\ run[r].pc = "done" => run[r].left = {}
    /\ run[r].pc \notin {"idle", "failed"} => run[r].scope \in Scopes

NumberedOK(r) == RowsBy(r) = {[by |-> r, n |-> i] : i \in 1 .. Cardinality(RowsBy(r))}

SeverityOK(a) == a.severity = "any" <=> a.detector # "threshold"

\* The detector that is at work.
Phase(r) == IF run[r].pc = "threshold" THEN "threshold" ELSE "statistical_zscore"

\* What is found is of the detector at work, and of a type it has looked at.
FoundOK(r) ==
    \A i \in DOMAIN run[r].found :
        /\ SeverityOK(run[r].found[i]) /\ run[r].found[i].detector = Phase(r)
        /\ run[r].found[i].type \notin run[r].todo
        /\ \A j \in DOMAIN run[r].found :
             run[r].found[i].type = run[r].found[j].type => i = j

\* What is stored is of devices the run has begun, and of types it is done with.
StoredOK(r) ==
    run[r].pc # "failed" =>
      \A k \in RowsBy(r) :
        /\ rows[k].device \in run[r].listed \ run[r].left
        /\ rows[k].device \in run[r].dev =>
             /\ run[r].pc = "zscore" => rows[k].detector = "statistical_zscore"
             /\ rows[k].detector = Phase(r) =>
                  /\ rows[k].type \notin run[r].todo
                  /\ \A i \in DOMAIN run[r].found : run[r].found[i].type # rows[k].type

OnceOK(r) ==
    \A k, l \in RowsBy(r) :
        /\ rows[k].device = rows[l].device /\ rows[k].type = rows[l].type
        /\ rows[k].detector = rows[l].detector
        => k = l

\* The metric of d and t is one the detector flags, with this severity.
Sound(a, d, t) ==
    IF a.detector = "threshold"
      THEN /\ t \in Limited /\ metrics[d][t].level \in {"warning", "critical"}
           /\ a.severity = SeverityOf(metrics[d][t].level)
      ELSE metrics[d][t].odd

SoundOK(r) ==
    /\ \A k \in RowsBy(r) :
         <<rows[k].device, rows[k].type>> \notin run[r].changed =>
            Sound(rows[k], rows[k].device, rows[k].type)
    /\ \A d \in run[r].dev, i \in DOMAIN run[r].found :
         <<d, run[r].found[i].type>> \notin run[r].changed =>
            Sound(run[r].found[i], d, run[r].found[i].type)

Stored(r, d, t, detector) ==
    \E k \in RowsBy(r) : rows[k].device = d /\ rows[k].type = t /\ rows[k].detector = detector

Pending(r, d, t, detector) ==
    /\ d \in run[r].dev
    /\ \/ detector = "threshold" /\ run[r].pc = "zscore"
       \/ /\ detector = Phase(r)
          /\ t \in run[r].todo \/ \E i \in DOMAIN run[r].found : run[r].found[i].type = t

Due(d, t, detector) ==
    IF detector = "threshold"
      THEN t \in Limited /\ metrics[d][t].level \in {"warning", "critical"}
      ELSE metrics[d][t].odd

\* What is to be flagged is stored or will be.
CompleteOK(r) ==
    run[r].pc # "failed" =>
      \A d \in run[r].listed \ run[r].left, t \in Types, detector \in Detectors :
        <<d, t>> \notin run[r].changed /\ Due(d, t, detector) =>
            Stored(r, d, t, detector) \/ Pending(r, d, t, detector)

CountedRows(r) == IF run[r].kind = "task" THEN RowsBy(r) ELSE ZScoreRows(r)

TotalOK(r) ==
    /\ run[r].pc \in {"idle", "next", "zscore", "threshold"} =>
         run[r].total = Cardinality(CountedRows(r))
    /\ At(r, "done") =>
         run[r].told = CASE run[r].kind = "task" -> Cardinality(RowsBy(r))
                         [] run[r].kind = "request" /\ run[r].scope # All -> Cardinality(ZScoreRows(r))
                         [] OTHER -> Cardinality(run[r].listed)

TaskOK(s) ==
    task[s].status = "completed" =>
      \E r \in Runs : /\ At(r, "done") /\ run[r].kind = "task" /\ run[r].scope = s
                      /\ task[s].total = Cardinality(RowsBy(r))

RunOK(r) ==
    /\ PlaceOK(r) /\ NumberedOK(r) /\ FoundOK(r) /\ StoredOK(r) /\ OnceOK(r)
    /\ SoundOK(r) /\ CompleteOK(r) /\ TotalOK(r)

\* An update that nobody has crossed sees what it has loaded, then written.
UpdateOK(u) ==
    /\ update[u].pc \in {"loaded", "written"} => update[u].row \in DOMAIN rows
    /\ ~ update[u].crossed =>
         /\ update[u].pc = "loaded" => rows[update[u].row].status = update[u].loaded
         /\ update[u].pc = "written" => rows[update[u].row].status = update[u].asked
         /\ update[u].pc = "done" => update[u].answer = update[u].asked

RowOK(k) ==
    SeverityOK(rows[k]) /\ (rows[k].status \in {"resolved", "false_positive"} => rows[k].resolved)

AnomalyInv ==
    /\ BaseType
    /\ \A r \in Runs : RunOK(r)
    /\ \A s \in Scopes : TaskOK(s)
    /\ \A u \in Updates : UpdateOK(u)
    /\ \A k \in DOMAIN rows : RowOK(k)

-----------------------------------------------------------------------------
(* Types, and what each action does.                                       *)

LEMMA InitInv == Init => AnomalyInv
<1> SUFFICES ASSUME Init PROVE AnomalyInv
  OBVIOUS
<1>1. Idle \in Runner /\ NoUpdate \in StatusUpdate
  <2>1. <<>> \in Seq(Finds)
    BY EmptySeq
  <2> QED BY <2>1 DEF Idle, Runner, NoUpdate, StatusUpdate
<1>2. MaxSamples \in Nat /\ DOMAIN rows = {} /\ rows = [k \in {} |-> 0]
  BY ScopesAssumption DEF Init
<1>3. BaseType
  <2>1. IsFiniteSet(DOMAIN rows) /\ DOMAIN rows \subseteq Key
    BY <1>2, FS_EmptySet
  <2>2. rows \in [DOMAIN rows -> Row]
    BY <1>2
  <2>3. task \in [Scopes -> Task]
    BY DEF Init, Task
  <2>4. metrics \in [Devices -> [Types -> Sample \cup {NoSample}]]
    BY BeginningsAssumption DEF Init
  <2> QED BY <1>1, <1>2, <2>1, <2>2, <2>3, <2>4 DEF Init, BaseType
<1>4. ASSUME NEW r \in Runs PROVE RunOK(r)
  <2>1. /\ run[r].pc = "idle" /\ run[r].dev = {} /\ run[r].todo = {} /\ run[r].found = <<>>
        /\ run[r].listed = {} /\ run[r].left = {} /\ run[r].total = 0
        /\ run[r].kind = "task"
    BY DEF Init, Idle
  <2>2. RowsBy(r) = {} /\ Cardinality(RowsBy(r)) = 0
    BY <1>2, FS_EmptySet DEF RowsBy
  <2>3. PlaceOK(r)
    BY <2>1, <2>2 DEF PlaceOK, Looking
  <2>4. NumberedOK(r)
    BY <2>2 DEF NumberedOK
  <2>5. FoundOK(r) /\ StoredOK(r) /\ OnceOK(r) /\ SoundOK(r) /\ CompleteOK(r)
    BY <2>1, <2>2 DEF FoundOK, StoredOK, OnceOK, SoundOK, CompleteOK
  <2>6. TotalOK(r)
    BY <2>1, <2>2 DEF TotalOK, CountedRows, At
  <2> QED BY <2>3, <2>4, <2>5, <2>6 DEF RunOK
<1>5. \A s \in Scopes : TaskOK(s)
  BY DEF Init, TaskOK
<1>6. \A u \in Updates : UpdateOK(u)
  BY DEF Init, NoUpdate, UpdateOK
<1>7. \A k \in DOMAIN rows : RowOK(k)
  BY <1>2
<1> QED BY <1>3, <1>4, <1>5, <1>6, <1>7 DEF AnomalyInv

\* The step is one of r: it leaves the other runs alone.
Alone(r) == \A q \in Runs : q # r => run'[q] = run[q]

LEMMA SetRunner ==
    ASSUME BaseType, NEW r \in Runs, NEW v \in Runner, run' = [run EXCEPT ![r] = v]
    PROVE  run' \in [Runs -> Runner] /\ run'[r] = v /\ Alone(r)
  BY DEF BaseType, Alone

\* Neither the devices of r nor what it has stored changes.
SameScope(r) ==
    /\ run'[r].kind = run[r].kind /\ run'[r].scope = run[r].scope
    /\ run'[r].listed = run[r].listed /\ run'[r].changed = run[r].changed

NoRow == UNCHANGED <<metrics, samples, rows, update>>

StartDoes(r) ==
    /\ NoRow /\ Alone(r) /\ run[r].pc = "idle" /\ run'[r].pc = "next"
    /\ run'[r].scope \in Scopes /\ run'[r].left = run'[r].listed
    /\ run'[r].dev = run[r].dev /\ run'[r].todo = run[r].todo /\ run'[r].found = run[r].found
    /\ run'[r].total = run[r].total
    /\ \A s \in Scopes : task'[s] = task[s] \/ task'[s].status = "running"

LEMMA StartEffect ==
    ASSUME BaseType, NEW r \in Runs, NEW kind \in {"task", "request"}, NEW scope \in Scopes,
           Start(r, kind, scope)
    PROVE  BaseType' /\ StartDoes(r)
<1>1. run[r] \in Runner /\ scope \in Devices \cup {All} /\ task \in [Scopes -> Task]
  BY ScopesAssumption DEF BaseType
<1>2. PICK listed \in IF scope = All THEN SUBSET Devices ELSE {{scope}} :
        run' = [run EXCEPT ![r] = [run[r] EXCEPT !.pc = "next", !.kind = kind, !.scope = scope,
                                                 !.listed = listed, !.left = listed]]
  BY DEF Start
<1>3. listed \in SUBSET Devices
  BY <1>1
<1> DEFINE v == [run[r] EXCEPT !.pc = "next", !.kind = kind, !.scope = scope,
                               !.listed = listed, !.left = listed]
<1>4. /\ v \in Runner /\ v.pc = "next" /\ v.scope = scope /\ v.listed = listed /\ v.left = listed
      /\ v.dev = run[r].dev /\ v.todo = run[r].todo /\ v.found = run[r].found
      /\ v.total = run[r].total
  BY <1>1, <1>3 DEF Runner
<1>5. run' = [run EXCEPT ![r] = v]
  BY <1>2
<1> HIDE DEF v
<1>6. run' \in [Runs -> Runner] /\ run'[r] = v /\ Alone(r)
  BY <1>4, <1>5, SetRunner
<1>7. /\ task' \in [Scopes -> Task]
      /\ \A s \in Scopes : task'[s] = task[s] \/ task'[s].status = "running"
  BY <1>1 DEF Start, Task
<1>8. NoRow /\ run[r].pc = "idle"
  BY DEF Start, NoRow, At
<1>9. BaseType'
  BY <1>6, <1>7, <1>8 DEF BaseType, NoRow
<1> QED BY <1>4, <1>6, <1>7, <1>8, <1>9 DEF StartDoes

NextDeviceDoes(r) ==
    /\ NoRow /\ Alone(r) /\ SameScope(r) /\ UNCHANGED task
    /\ Between(r) /\ run'[r].pc = "zscore"
    /\ run'[r].found = run[r].found /\ run'[r].total = run[r].total
    /\ \E d \in run[r].left :
         /\ run'[r].dev = {d} /\ run'[r].left = run[r].left \ {d}
         /\ run'[r].todo = {t \in Types : metrics[d][t] # NoSample}

LEMMA NextDeviceEffect ==
    ASSUME BaseType, NEW r \in Runs, NextDevice(r)
    PROVE  BaseType' /\ NextDeviceDoes(r)
<1>1. run[r] \in Runner /\ run \in [Runs -> Runner]
  BY DEF BaseType
<1>2. PICK d \in run[r].left :
        run' = [run EXCEPT ![r].pc = "zscore", ![r].dev = {d}, ![r].left = @ \ {d},
                           ![r].todo = {t \in Types : metrics[d][t] # NoSample}]
  BY DEF NextDevice
<1> DEFINE todo == {t \in Types : metrics[d][t] # NoSample}
<1> DEFINE v == [run[r] EXCEPT !.pc = "zscore", !.dev = {d}, !.left = run[r].left \ {d},
                               !.todo = todo]
<1>3. todo \subseteq Types /\ d \in Devices
  BY <1>1 DEF Runner
<1>4. run' = [run EXCEPT ![r] = v]
  BY <1>1, <1>2
<1> HIDE DEF todo
<1>5. /\ v \in Runner /\ v.pc = "zscore" /\ v.dev = {d} /\ v.left = run[r].left \ {d}
      /\ v.todo = todo /\ v.kind = run[r].kind /\ v.scope = run[r].scope
      /\ v.listed = run[r].listed /\ v.changed = run[r].changed /\ v.found = run[r].found
      /\ v.total = run[r].total
  BY <1>1, <1>3 DEF Runner
<1> HIDE DEF v
<1>6. run' \in [Runs -> Runner] /\ run'[r] = v /\ Alone(r)
  BY <1>4, <1>5, SetRunner
<1>7. NoRow /\ UNCHANGED task /\ Between(r)
  BY DEF NextDevice, NoRow
<1>8. BaseType'
  BY <1>6, <1>7 DEF BaseType, NoRow
<1> QED BY <1>5, <1>6, <1>7, <1>8 DEF NextDeviceDoes, SameScope, todo

\* Both detectors: a looked-at type is found or not due.
LookDoes(r) ==
    /\ NoRow /\ Alone(r) /\ SameScope(r) /\ UNCHANGED task
    /\ run[r].pc \in Looking /\ run'[r].pc = run[r].pc
    /\ run'[r].left = run[r].left /\ run'[r].dev = run[r].dev /\ run'[r].total = run[r].total
    /\ \E d \in run[r].dev, t \in run[r].todo :
         /\ run'[r].todo = run[r].todo \ {t}
         /\ \/ run'[r].found = run[r].found /\ ~ Due(d, t, Phase(r))
            \/ \E a \in Finds : /\ a.type = t /\ a.detector = Phase(r) /\ SeverityOK(a)
                                /\ Sound(a, d, t)
                                /\ run'[r].found = Append(run[r].found, a)

LEMMA LookEffect ==
    ASSUME BaseType, NEW r \in Runs, NEW t \in run[r].todo, NEW findings,
           NEW a \in Finds, findings = {} \/ findings = {a}, Look(r, t, findings)
    PROVE  /\ BaseType' /\ NoRow /\ Alone(r) /\ SameScope(r) /\ UNCHANGED task
           /\ run'[r].pc = run[r].pc
           /\ run'[r].left = run[r].left /\ run'[r].dev = run[r].dev
           /\ run'[r].total = run[r].total /\ run'[r].todo = run[r].todo \ {t}
           /\ run'[r].found = IF findings = {} THEN run[r].found ELSE Append(run[r].found, a)
<1>1. run[r] \in Runner /\ run \in [Runs -> Runner] /\ run[r].found \in Seq(Finds)
  BY DEF BaseType, Runner
<1> DEFINE f == IF findings = {} THEN run[r].found ELSE Append(run[r].found, a)
<1>2. f \in Seq(Finds)
  BY <1>1, AppendProperties
<1>3. f = IF findings = {} THEN run[r].found
          ELSE Append(run[r].found, CHOOSE b \in findings : TRUE)
  OBVIOUS
<1>4. run' = [run EXCEPT ![r].todo = run[r].todo \ {t}, ![r].found = f]
  BY <1>1, <1>3 DEF Look
<1> DEFINE todo == run[r].todo \ {t}
<1> DEFINE v == [run[r] EXCEPT !.todo = todo, !.found = f]
<1>5. run' = [run EXCEPT ![r] = v]
  BY <1>1, <1>4
<1>6. todo \subseteq Types
  BY <1>1 DEF Runner
<1> HIDE DEF f, todo
<1>7. /\ v \in Runner /\ v.pc = run[r].pc /\ v.dev = run[r].dev /\ v.left = run[r].left
      /\ v.todo = todo /\ v.kind = run[r].kind /\ v.scope = run[r].scope
      /\ v.listed = run[r].listed /\ v.changed = run[r].changed /\ v.found = f
      /\ v.total = run[r].total
  BY <1>1, <1>2, <1>6 DEF Runner
<1> HIDE DEF v
<1>8. run' \in [Runs -> Runner] /\ run'[r] = v /\ Alone(r)
  BY <1>5, <1>7, SetRunner
<1>9. NoRow /\ UNCHANGED task
  BY DEF Look, NoRow
<1>10. BaseType'
  BY <1>8, <1>9 DEF BaseType, NoRow
<1> QED BY <1>7, <1>8, <1>9, <1>10 DEF SameScope, f, todo

LEMMA LookBackEffect ==
    ASSUME BaseType, NEW r \in Runs, LookBack(r)
    PROVE  BaseType' /\ LookDoes(r)
<1>1. PICK d \in run[r].dev, t \in run[r].todo : Look(r, t, Flagged(d, t))
  BY DEF LookBack
<1>2. d \in Devices /\ t \in Types /\ run[r].pc = "zscore"
  BY DEF BaseType, Runner, LookBack, At
<1> DEFINE a == Statistical(t)
<1> DEFINE fs == Flagged(d, t)
<1>3. a \in Finds /\ a.type = t /\ a.detector = "statistical_zscore" /\ SeverityOK(a)
  BY <1>2 DEF Statistical, Finds, Detectors, Severities, SeverityOK
<1>4. fs = IF metrics[d][t].odd THEN {a} ELSE {}
  BY DEF Flagged
<1>5. Look(r, t, fs)
  BY <1>1
<1> HIDE DEF a, fs
<1>6. fs = {} \/ fs = {a}
  BY <1>4
<1>7. /\ BaseType' /\ NoRow /\ Alone(r) /\ SameScope(r) /\ UNCHANGED task
      /\ run'[r].pc = run[r].pc
      /\ run'[r].left = run[r].left /\ run'[r].dev = run[r].dev
      /\ run'[r].total = run[r].total /\ run'[r].todo = run[r].todo \ {t}
      /\ run'[r].found = IF fs = {} THEN run[r].found ELSE Append(run[r].found, a)
  BY <1>3, <1>5, <1>6, LookEffect
<1>8. Phase(r) = "statistical_zscore"
  BY <1>2 DEF Phase
<1>9. CASE metrics[d][t].odd
  <2>1. Sound(a, d, t) /\ run'[r].found = Append(run[r].found, a)
    BY <1>3, <1>4, <1>7, <1>9 DEF Sound
  <2> QED BY <1>2, <1>3, <1>7, <1>8, <2>1 DEF LookDoes, Looking
<1>10. CASE ~ metrics[d][t].odd
  <2>1. ~ Due(d, t, Phase(r)) /\ run'[r].found = run[r].found
    BY <1>4, <1>7, <1>8, <1>10 DEF Due
  <2> QED BY <1>2, <1>7, <2>1 DEF LookDoes, Looking
<1> QED BY <1>9, <1>10

LEMMA LookLatestEffect ==
    ASSUME BaseType, NEW r \in Runs, LookLatest(r)
    PROVE  BaseType' /\ LookDoes(r)
<1>1. PICK d \in run[r].dev, t \in run[r].todo : Look(r, t, Exceeded(d, t))
  BY DEF LookLatest
<1>2. d \in Devices /\ t \in Types /\ run[r].pc = "threshold"
  BY DEF BaseType, Runner, LookLatest, At
<1> DEFINE high == metrics[d][t].level \in {"warning", "critical"}
<1> DEFINE a == Threshold(t, IF high THEN metrics[d][t].level ELSE "critical")
<1> DEFINE fs == Exceeded(d, t)
<1>3. a \in Finds /\ a.type = t /\ a.detector = "threshold" /\ SeverityOK(a)
  BY <1>2 DEF Threshold, SeverityOf, Finds, Detectors, Severities, SeverityOK
<1>4. /\ fs = IF t \in Limited /\ high THEN {a} ELSE {}
      /\ high => a.severity = SeverityOf(metrics[d][t].level)
  BY DEF Exceeded, Threshold
<1>5. Look(r, t, fs)
  BY <1>1
<1> HIDE DEF a, fs
<1>6. fs = {} \/ fs = {a}
  BY <1>4
<1>7. /\ BaseType' /\ NoRow /\ Alone(r) /\ SameScope(r) /\ UNCHANGED task
      /\ run'[r].pc = run[r].pc
      /\ run'[r].left = run[r].left /\ run'[r].dev = run[r].dev
      /\ run'[r].total = run[r].total /\ run'[r].todo = run[r].todo \ {t}
      /\ run'[r].found = IF fs = {} THEN run[r].found ELSE Append(run[r].found, a)
  BY <1>3, <1>5, <1>6, LookEffect
<1>8. Phase(r) = "threshold"
  BY <1>2 DEF Phase
<1>9. CASE t \in Limited /\ high
  <2>1. Sound(a, d, t) /\ run'[r].found = Append(run[r].found, a)
    BY <1>3, <1>4, <1>7, <1>9 DEF Sound
  <2> QED BY <1>2, <1>3, <1>7, <1>8, <2>1 DEF LookDoes, Looking
<1>10. CASE ~ (t \in Limited /\ high)
  <2>1. ~ Due(d, t, Phase(r)) /\ run'[r].found = run[r].found
    BY <1>4, <1>7, <1>8, <1>10 DEF Due
  <2> QED BY <1>2, <1>7, <2>1 DEF LookDoes, Looking
<1> QED BY <1>9, <1>10

TurnDoes(r) ==
    /\ NoRow /\ Alone(r) /\ SameScope(r) /\ UNCHANGED task
    /\ Through(r, "zscore") /\ run'[r].pc = "threshold" /\ run'[r].todo = Limited
    /\ run'[r].left = run[r].left /\ run'[r].dev = run[r].dev
    /\ run'[r].found = run[r].found /\ run'[r].total = run[r].total

LEMMA TurnEffect ==
    ASSUME BaseType, NEW r \in Runs, Turn(r)
    PROVE  BaseType' /\ TurnDoes(r)
<1>1. run[r] \in Runner /\ run \in [Runs -> Runner] /\ Limited \subseteq Types
  BY ScopesAssumption DEF BaseType
<1> DEFINE v == [run[r] EXCEPT !.pc = "threshold", !.todo = Limited]
<1>2. run' = [run EXCEPT ![r] = v]
  BY <1>1 DEF Turn
<1>3. /\ v \in Runner /\ v.pc = "threshold" /\ v.dev = run[r].dev /\ v.left = run[r].left
      /\ v.todo = Limited /\ v.kind = run[r].kind /\ v.scope = run[r].scope
      /\ v.listed = run[r].listed /\ v.changed = run[r].changed /\ v.found = run[r].found
      /\ v.total = run[r].total
  BY <1>1 DEF Runner
<1> HIDE DEF v
<1>4. run' \in [Runs -> Runner] /\ run'[r] = v /\ Alone(r)
  BY <1>2, <1>3, SetRunner
<1>5. NoRow /\ UNCHANGED task /\ Through(r, "zscore")
  BY DEF Turn, NoRow
<1>6. BaseType'
  BY <1>4, <1>5 DEF BaseType, NoRow
<1> QED BY <1>3, <1>4, <1>5, <1>6 DEF TurnDoes, SameScope

\* The total a completed run tells.
Told(r) ==
    IF run[r].kind = "request" /\ run[r].scope = All
      THEN Cardinality(run[r].listed) ELSE run[r].total

CompleteDoes(r) ==
    /\ NoRow /\ Alone(r) /\ SameScope(r)
    /\ Between(r) /\ run[r].left = {}
    /\ run'[r].pc = "done" /\ run'[r].left = run[r].left /\ run'[r].dev = {}
    /\ run'[r].todo = run[r].todo /\ run'[r].found = run[r].found
    /\ run'[r].told = Told(r)
    /\ \A s \in Scopes : IF run[r].kind = "task" /\ run[r].scope = s
                           THEN task'[s] = [status |-> "completed", total |-> Told(r)]
                           ELSE task'[s] = task[s]

LEMMA NotedStep ==
    ASSUME BaseType, NEW r \in Runs, NEW status \in {"completed", "failed"}, NEW total \in Nat,
           task' = Noted(r, status, total)
    PROVE  /\ task' \in [Scopes -> Task]
           /\ \A s \in Scopes : IF run[r].kind = "task" /\ run[r].scope = s
                                  THEN task'[s] = [status |-> status, total |-> total]
                                  ELSE task'[s] = task[s]
<1>1. task \in [Scopes -> Task] /\ [status |-> status, total |-> total] \in Task
  BY DEF BaseType, Task
<1> QED BY <1>1 DEF Noted

LEMMA FinitelyManyDevices ==
    ASSUME BaseType, NEW r \in Runs
    PROVE  Cardinality(run[r].listed) \in Nat
<1>1. run[r].listed \subseteq Devices
  BY DEF BaseType, Runner
<1> QED BY <1>1, ScopesAssumption, FS_Subset, FS_CardinalityType

LEMMA CompleteEffect ==
    ASSUME BaseType, NEW r \in Runs, Complete(r)
    PROVE  BaseType' /\ CompleteDoes(r)
<1>1. run[r] \in Runner /\ run \in [Runs -> Runner]
  BY DEF BaseType
<1> DEFINE told == Told(r)
<1>2. told \in Nat
  BY <1>1, FinitelyManyDevices DEF Told, Runner
<1> DEFINE v == [run[r] EXCEPT !.pc = "done", !.told = told, !.total = 0, !.dev = {}]
<1>3. run' = [run EXCEPT ![r] = v] /\ task' = Noted(r, "completed", told)
  BY <1>1 DEF Complete, Told
<1>4. told = Told(r)
  OBVIOUS
<1> HIDE DEF told
<1>5. /\ v \in Runner /\ v.pc = "done" /\ v.dev = {} /\ v.left = run[r].left
      /\ v.todo = run[r].todo /\ v.kind = run[r].kind /\ v.scope = run[r].scope
      /\ v.listed = run[r].listed /\ v.changed = run[r].changed /\ v.found = run[r].found
      /\ v.told = told
  BY <1>1, <1>2 DEF Runner
<1> HIDE DEF v
<1>6. run' \in [Runs -> Runner] /\ run'[r] = v /\ Alone(r)
  BY <1>3, <1>5, SetRunner
<1>7. NoRow /\ Between(r) /\ run[r].left = {}
  BY DEF Complete, NoRow
<1>8. /\ task' \in [Scopes -> Task]
      /\ \A s \in Scopes : IF run[r].kind = "task" /\ run[r].scope = s
                             THEN task'[s] = [status |-> "completed", total |-> told]
                             ELSE task'[s] = task[s]
  BY <1>2, <1>3, NotedStep
<1>9. BaseType'
  BY <1>6, <1>7, <1>8 DEF BaseType, NoRow
<1> QED BY <1>4, <1>5, <1>6, <1>7, <1>8, <1>9 DEF CompleteDoes, SameScope

FailDoes(r) ==
    /\ NoRow /\ Alone(r)
    /\ run[r].pc \notin {"idle", "done", "failed"} /\ run'[r].pc = "failed"
    /\ run'[r].listed = {} /\ run'[r].left = {} /\ run'[r].dev = {} /\ run'[r].todo = {}
    /\ run'[r].found = <<>> /\ run'[r].changed = run[r].changed
    /\ \A s \in Scopes : task'[s] = task[s] \/ task'[s].status = "failed"

LEMMA FailEffect ==
    ASSUME BaseType, NEW r \in Runs, Fail(r)
    PROVE  BaseType' /\ FailDoes(r)
<1>1. run[r] \in Runner /\ run \in [Runs -> Runner] /\ <<>> \in Seq(Finds)
  BY EmptySeq DEF BaseType
<1> DEFINE v == [Idle EXCEPT !.pc = "failed", !.changed = run[r].changed]
<1>2. run' = [run EXCEPT ![r] = v] /\ task' = Noted(r, "failed", 0)
  BY DEF Fail
<1>3. /\ v \in Runner /\ v.pc = "failed" /\ v.dev = {} /\ v.left = {} /\ v.todo = {}
      /\ v.listed = {} /\ v.changed = run[r].changed /\ v.found = <<>>
  BY <1>1 DEF Runner, Idle
<1> HIDE DEF v
<1>4. run' \in [Runs -> Runner] /\ run'[r] = v /\ Alone(r)
  BY <1>2, <1>3, SetRunner
<1>5. NoRow /\ run[r].pc \notin {"idle", "done", "failed"}
  BY DEF Fail, NoRow
<1>6. /\ task' \in [Scopes -> Task]
      /\ \A s \in Scopes : task'[s] = task[s] \/ task'[s].status = "failed"
  <2> DEFINE status == "failed"
  <2> DEFINE total == 0
  <2>1. /\ status \in {"completed", "failed"} /\ total \in Nat
        /\ task' = Noted(r, status, total) /\ status = "failed"
    BY <1>2
  <2> HIDE DEF status, total
  <2>2. /\ task' \in [Scopes -> Task]
        /\ \A s \in Scopes : IF run[r].kind = "task" /\ run[r].scope = s
                               THEN task'[s] = [status |-> status, total |-> total]
                               ELSE task'[s] = task[s]
    BY <2>1, NotedStep
  <2> QED BY <2>1, <2>2
<1>7. BaseType'
  BY <1>4, <1>5, <1>6 DEF BaseType, NoRow
<1> QED BY <1>3, <1>4, <1>5, <1>6, <1>7 DEF FailDoes

\* The rows keep what the detectors have said of them.
SameRow(k) ==
    /\ rows'[k].device = rows[k].device /\ rows'[k].type = rows[k].type
    /\ rows'[k].detector = rows[k].detector /\ rows'[k].severity = rows[k].severity

LEMMA Numbered ==
    ASSUME BaseType, NEW r \in Runs, NumberedOK(r)
    PROVE  /\ IsFiniteSet(RowsBy(r)) /\ Cardinality(RowsBy(r)) \in Nat
           /\ NewKey(r) \in Key /\ NewKey(r).by = r /\ NewKey(r) \notin DOMAIN rows
<1> DEFINE c == Cardinality(RowsBy(r))
<1>1. IsFiniteSet(RowsBy(r)) /\ c \in Nat
  <2>1. RowsBy(r) \subseteq DOMAIN rows
    BY DEF RowsBy
  <2> QED BY <2>1, FS_Subset, FS_CardinalityType DEF BaseType
<1>2. NewKey(r) \in Key /\ NewKey(r).by = r /\ NewKey(r).n = c + 1
  BY <1>1 DEF NewKey, Key
<1>3. NewKey(r) \notin DOMAIN rows
  <2> SUFFICES ASSUME NewKey(r) \in RowsBy(r) PROVE FALSE
    BY <1>2 DEF RowsBy
  <2>1. PICK i \in 1 .. c : NewKey(r) = [by |-> r, n |-> i]
    BY DEF NumberedOK
  <2> QED BY <1>1, <1>2, <2>1
<1> QED BY <1>1, <1>2, <1>3

CreateDoes(r) ==
    /\ UNCHANGED <<metrics, samples, task, update>> /\ Alone(r) /\ SameScope(r)
    /\ run[r].found # <<>> /\ run[r].todo = {} /\ run'[r].pc = run[r].pc
    /\ run'[r].left = run[r].left /\ run'[r].dev = run[r].dev /\ run'[r].todo = run[r].todo
    /\ run'[r].found = Tail(run[r].found) /\ run'[r].total = Counted(r)
    /\ NewKey(r) \notin DOMAIN rows
    /\ DOMAIN rows' = DOMAIN rows \cup {NewKey(r)}
    /\ RowsBy(r)' = RowsBy(r) \cup {NewKey(r)}
    /\ \A k \in DOMAIN rows : rows'[k] = rows[k]
    /\ \A q \in Runs : q # r => RowsBy(q)' = RowsBy(q)
    /\ \E d \in run[r].dev : rows'[NewKey(r)] = NewRow(d, Head(run[r].found))

LEMMA CreateEffect ==
    ASSUME BaseType, NEW r \in Runs, NumberedOK(r), Create(r)
    PROVE  BaseType' /\ CreateDoes(r)
<1>1. run[r] \in Runner /\ run \in [Runs -> Runner] /\ run[r].found \in Seq(Finds)
      /\ run[r].found # <<>>
  BY DEF BaseType, Runner, Create
<1>2. Head(run[r].found) \in Finds /\ Tail(run[r].found) \in Seq(Finds)
  BY <1>1, HeadTailProperties
<1>3. PICK d \in run[r].dev :
        rows' = [k \in DOMAIN rows \cup {NewKey(r)} |->
                   IF k = NewKey(r) THEN NewRow(d, Head(run[r].found)) ELSE rows[k]]
  BY DEF Create
<1> DEFINE k0 == NewKey(r)
<1> DEFINE row == NewRow(d, Head(run[r].found))
<1>4. k0 \in Key /\ k0.by = r /\ k0 \notin DOMAIN rows
  BY Numbered
<1>5. row \in Row
  <2>1. d \in Devices
    BY <1>1 DEF Runner
  <2> QED BY <1>2, <2>1 DEF NewRow, Row, Finds, Detectors, Severities
<1>6. k0 = NewKey(r) /\ row = NewRow(d, Head(run[r].found))
  OBVIOUS
<1>7. rows' = [k \in DOMAIN rows \cup {k0} |-> IF k = k0 THEN row ELSE rows[k]]
  BY <1>3
<1> HIDE DEF k0, row
<1>8. /\ DOMAIN rows' = DOMAIN rows \cup {k0} /\ rows'[k0] = row
      /\ \A k \in DOMAIN rows : rows'[k] = rows[k]
  BY <1>4, <1>7
<1>9. /\ IsFiniteSet(DOMAIN rows') /\ DOMAIN rows' \subseteq Key
      /\ rows' \in [DOMAIN rows' -> Row]
  BY <1>4, <1>5, <1>7, <1>8, FS_AddElement DEF BaseType
<1>10. /\ RowsBy(r)' = RowsBy(r) \cup {k0}
       /\ \A q \in Runs : q # r => RowsBy(q)' = RowsBy(q)
  BY <1>4, <1>8 DEF RowsBy
<1> DEFINE n == Counted(r)
<1> DEFINE f == Tail(run[r].found)
<1> DEFINE v == [run[r] EXCEPT !.found = f, !.total = n]
<1>11. run' = [run EXCEPT ![r] = v]
  BY <1>1 DEF Create
<1>12. n \in Nat /\ f \in Seq(Finds) /\ n = Counted(r) /\ f = Tail(run[r].found)
  BY <1>1, <1>2 DEF Counted, Runner
<1> HIDE DEF n, f
<1>13. /\ v \in Runner /\ v.pc = run[r].pc /\ v.dev = run[r].dev /\ v.left = run[r].left
       /\ v.todo = run[r].todo /\ v.kind = run[r].kind /\ v.scope = run[r].scope
       /\ v.listed = run[r].listed /\ v.changed = run[r].changed /\ v.found = f
       /\ v.total = n
  BY <1>1, <1>12 DEF Runner
<1> HIDE DEF v
<1>14. run' \in [Runs -> Runner] /\ run'[r] = v /\ Alone(r)
  BY <1>11, <1>13, SetRunner
<1>15. UNCHANGED <<metrics, samples, task, update>> /\ run[r].todo = {}
  BY DEF Create
<1>16. BaseType'
  BY <1>9, <1>14, <1>15 DEF BaseType
<1>17. \E e \in run[r].dev : rows'[k0] = NewRow(e, Head(run[r].found))
  BY <1>6, <1>8
<1> QED BY <1>1, <1>4, <1>6, <1>8, <1>10, <1>12, <1>13, <1>14, <1>15, <1>16, <1>17
        DEF CreateDoes, SameScope

\* The runs that have begun know that the metric has changed.
RecordDoes(d, t) ==
    /\ UNCHANGED <<rows, task, update>>
    /\ \A e \in Devices, s \in Types : e # d \/ s # t => metrics'[e][s] = metrics[e][s]
    /\ \A r \in Runs :
         \/ run'[r] = run[r] /\ run[r].pc = "idle"
         \/ /\ run'[r].pc = run[r].pc /\ run'[r].kind = run[r].kind
            /\ run'[r].scope = run[r].scope /\ run'[r].listed = run[r].listed
            /\ run'[r].left = run[r].left /\ run'[r].dev = run[r].dev
            /\ run'[r].todo = run[r].todo /\ run'[r].found = run[r].found
            /\ run'[r].total = run[r].total /\ run'[r].told = run[r].told
            /\ run'[r].changed = run[r].changed \cup {<<d, t>>}

LEMMA RecordEffect ==
    ASSUME BaseType, NEW d \in Devices, NEW t \in Types, NEW sample \in Recorded,
           Record(d, t, sample)
    PROVE  BaseType' /\ RecordDoes(d, t)
<1>1. /\ run \in [Runs -> Runner] /\ metrics \in [Devices -> [Types -> Sample \cup {NoSample}]]
      /\ samples \in 0 .. MaxSamples /\ MaxSamples \in Nat /\ sample \in Sample
  BY ScopesAssumption, BeginningsAssumption DEF BaseType
<1>2. samples' \in 0 .. MaxSamples /\ UNCHANGED <<rows, task, update>>
  BY <1>1 DEF Record
<1>3. /\ metrics' \in [Devices -> [Types -> Sample \cup {NoSample}]]
      /\ \A e \in Devices, s \in Types : e # d \/ s # t => metrics'[e][s] = metrics[e][s]
  <2> DEFINE known == [metrics[d] EXCEPT ![t] = sample]
  <2>1. known \in [Types -> Sample \cup {NoSample}]
        /\ \A s \in Types : s # t => known[s] = metrics[d][s]
    BY <1>1
  <2>2. metrics' = [metrics EXCEPT ![d] = known]
    BY <1>1 DEF Record
  <2> HIDE DEF known
  <2> QED BY <1>1, <2>1, <2>2
<1>4. ASSUME NEW r \in Runs
      PROVE  /\ run'[r] \in Runner
             /\ \/ run'[r] = run[r] /\ run[r].pc = "idle"
                \/ /\ run'[r].pc = run[r].pc /\ run'[r].kind = run[r].kind
                   /\ run'[r].scope = run[r].scope /\ run'[r].listed = run[r].listed
                   /\ run'[r].left = run[r].left /\ run'[r].dev = run[r].dev
                   /\ run'[r].todo = run[r].todo /\ run'[r].found = run[r].found
                   /\ run'[r].total = run[r].total /\ run'[r].told = run[r].told
                   /\ run'[r].changed = run[r].changed \cup {<<d, t>>}
  <2>1. run[r] \in Runner /\ <<d, t>> \in Devices \X Types
    BY <1>1
  <2>2. run'[r] = IF run[r].pc = "idle" THEN run[r]
                  ELSE [run[r] EXCEPT !.changed = run[r].changed \cup {<<d, t>>}]
    BY DEF Record
  <2>3. CASE run[r].pc = "idle"
    BY <2>1, <2>2, <2>3
  <2>4. CASE run[r].pc # "idle"
    <3> DEFINE c == run[r].changed \cup {<<d, t>>}
    <3>1. c \in SUBSET (Devices \X Types)
      BY <2>1 DEF Runner
    <3>2. run'[r] = [run[r] EXCEPT !.changed = c]
      BY <2>2, <2>4
    <3> HIDE DEF c
    <3>3. run'[r] \in Runner
      BY <2>1, <3>1, <3>2 DEF Runner
    <3>4. /\ run'[r].pc = run[r].pc /\ run'[r].kind = run[r].kind
          /\ run'[r].scope = run[r].scope /\ run'[r].listed = run[r].listed
          /\ run'[r].left = run[r].left /\ run'[r].dev = run[r].dev
          /\ run'[r].todo = run[r].todo /\ run'[r].found = run[r].found
          /\ run'[r].total = run[r].total /\ run'[r].told = run[r].told
          /\ run'[r].changed = c
      BY <2>1, <3>2 DEF Runner
    <3> QED BY <3>3, <3>4 DEF c
  <2> QED BY <2>3, <2>4
<1>5. run' \in [Runs -> Runner]
  <2>1. DOMAIN run' = Runs /\ run' = [r \in Runs |-> run'[r]]
    BY DEF Record
  <2> QED BY <1>4, <2>1
<1>6. BaseType'
  BY <1>2, <1>3, <1>5 DEF BaseType
<1> QED BY <1>2, <1>3, <1>4, <1>6 DEF RecordDoes

-----------------------------------------------------------------------------
(* Status updates.                                                          *)

LoadDoes(u) ==
    /\ UNCHANGED <<metrics, samples, rows, run, task>>
    /\ \A v \in Updates : v # u => update'[v] = update[v]
    /\ update'[u].pc = "loaded" /\ update'[u].row \in DOMAIN rows
    /\ update'[u].loaded = rows[update'[u].row].status

LEMMA LoadEffect ==
    ASSUME BaseType, NEW u \in Updates, Load(u)
    PROVE  BaseType' /\ LoadDoes(u)
<1>1. /\ update \in [Updates -> StatusUpdate] /\ update[u] \in StatusUpdate
      /\ rows \in [DOMAIN rows -> Row] /\ DOMAIN rows \subseteq Key
  BY DEF BaseType
<1>2. PICK k \in DOMAIN rows, s \in Statuses :
        update' = [update EXCEPT ![u] = [update[u] EXCEPT !.pc = "loaded", !.row = k,
                                           !.asked = s, !.loaded = rows[k].status]]
  BY DEF Load
<1> DEFINE loaded == rows[k].status
<1> DEFINE v == [update[u] EXCEPT !.pc = "loaded", !.row = k, !.asked = s, !.loaded = loaded]
<1>3. k \in Key /\ loaded \in Statuses \cup {"open"} /\ update' = [update EXCEPT ![u] = v]
  BY <1>1, <1>2 DEF Row
<1>4. loaded = rows[k].status
  OBVIOUS
<1> HIDE DEF loaded
<1>5. v \in StatusUpdate /\ v.pc = "loaded" /\ v.row = k /\ v.loaded = loaded
  BY <1>1, <1>3 DEF StatusUpdate
<1> HIDE DEF v
<1>6. /\ update' \in [Updates -> StatusUpdate] /\ update'[u] = v
      /\ \A w \in Updates : w # u => update'[w] = update[w]
  BY <1>1, <1>3, <1>5
<1>7. UNCHANGED <<metrics, samples, rows, run, task>>
  BY DEF Load
<1>8. BaseType'
  BY <1>6, <1>7 DEF BaseType
<1> QED BY <1>4, <1>5, <1>6, <1>7, <1>8 DEF LoadDoes

WriteDoes(u) ==
    LET k == update[u].row
        s == update[u].asked IN
    /\ UNCHANGED <<metrics, samples, run, task>>
    /\ update[u].pc = "loaded" /\ DOMAIN rows' = DOMAIN rows
    /\ \A l \in DOMAIN rows : l # k => rows'[l] = rows[l]
    /\ k \in DOMAIN rows =>
         /\ SameRow(k)
         /\ rows'[k].status = IF s = update[u].loaded THEN rows[k].status ELSE s
         /\ rows'[k].resolved = (rows[k].resolved \/ s \in Closing)
    /\ update'[u].pc = "written" /\ update'[u].row = k /\ update'[u].asked = s
    /\ update'[u].crossed = update[u].crossed
    /\ \A v \in Updates : v # u =>
         \/ update'[v] = update[v] /\ update[v].row # k
         \/ /\ update'[v].pc = update[v].pc /\ update'[v].row = update[v].row
            /\ update'[v].asked = update[v].asked /\ update'[v].answer = update[v].answer
            /\ update'[v].loaded = update[v].loaded
            /\ update'[v].crossed = (update[v].crossed \/ update[v].pc \in {"loaded", "written"})

LEMMA WriteEffect ==
    ASSUME BaseType, NEW u \in Updates, Write(u)
    PROVE  BaseType' /\ WriteDoes(u)
<1> DEFINE k == update[u].row
<1> DEFINE s == update[u].asked
<1>1. /\ update \in [Updates -> StatusUpdate] /\ rows \in [DOMAIN rows -> Row]
      /\ \A v \in Updates : update[v] \in StatusUpdate
  BY DEF BaseType
<1>2. UNCHANGED <<metrics, samples, run, task>> /\ update[u].pc = "loaded"
  BY DEF Write
<1>3. /\ rows' \in [DOMAIN rows -> Row]
      /\ \A l \in DOMAIN rows : l # k => rows'[l] = rows[l]
      /\ k \in DOMAIN rows =>
           /\ SameRow(k)
           /\ rows'[k].status = IF s = update[u].loaded THEN rows[k].status ELSE s
           /\ rows'[k].resolved = (rows[k].resolved \/ s \in Closing)
  <2> DEFINE status == IF s = update[u].loaded THEN rows[k].status ELSE s
  <2> DEFINE resolved == rows[k].resolved \/ s \in Closing
  <2> DEFINE row == [rows[k] EXCEPT !.status = status, !.resolved = resolved]
  <2>1. s \in Statuses \cup {"open"}
    BY <1>1 DEF StatusUpdate
  <2>2. rows' = [rows EXCEPT ![k].status = status, ![k].resolved = resolved]
    BY DEF Write
  <2>3. CASE k \in DOMAIN rows
    <3>1. rows' = [rows EXCEPT ![k] = row]
      BY <1>1, <2>2, <2>3
    <3>2. rows[k] \in Row /\ status \in Statuses \cup {"open"} /\ resolved \in BOOLEAN
      BY <1>1, <2>1, <2>3 DEF Row
    <3>3. status = (IF s = update[u].loaded THEN rows[k].status ELSE s)
          /\ resolved = (rows[k].resolved \/ s \in Closing)
      OBVIOUS
    <3> HIDE DEF status, resolved
    <3>4. /\ row \in Row /\ row.status = status /\ row.resolved = resolved
          /\ row.device = rows[k].device /\ row.type = rows[k].type
          /\ row.detector = rows[k].detector /\ row.severity = rows[k].severity
      BY <3>2 DEF Row
    <3> HIDE DEF row
    <3>5. /\ rows' \in [DOMAIN rows -> Row] /\ rows'[k] = row
          /\ \A l \in DOMAIN rows : l # k => rows'[l] = rows[l]
      BY <1>1, <2>3, <3>1, <3>4
    <3> QED BY <3>3, <3>4, <3>5 DEF SameRow
  <2>4. CASE k \notin DOMAIN rows
    <3>1. rows' = rows
      BY <1>1, <2>2, <2>4
    <3> QED BY <1>1, <2>4, <3>1
  <2> QED BY <2>3, <2>4
<1>4. DOMAIN rows' = DOMAIN rows
  BY <1>3
<1>5. /\ DOMAIN update' = Updates /\ update' = [v \in Updates |-> update'[v]]
      /\ \A v \in Updates : update'[v] =
           CASE v = u -> [update[u] EXCEPT !.pc = "written"]
             [] v # u /\ update[v].row = k ->
                  [update[v] EXCEPT !.crossed = update[v].crossed
                                                  \/ update[v].pc \in {"loaded", "written"}]
             [] OTHER -> update[v]
  BY DEF Write
<1> HIDE DEF k, s
<1>6. update'[u] = [update[u] EXCEPT !.pc = "written"]
  BY <1>5
<1>7. /\ update'[u] \in StatusUpdate /\ update'[u].pc = "written"
      /\ update'[u].row = update[u].row /\ update'[u].asked = update[u].asked
      /\ update'[u].crossed = update[u].crossed
  BY <1>1, <1>6 DEF StatusUpdate
<1>8. ASSUME NEW v \in Updates, v # u
      PROVE  /\ update'[v] \in StatusUpdate
             /\ \/ update'[v] = update[v] /\ update[v].row # k
                \/ /\ update'[v].pc = update[v].pc /\ update'[v].row = update[v].row
                   /\ update'[v].asked = update[v].asked /\ update'[v].answer = update[v].answer
                   /\ update'[v].loaded = update[v].loaded
                   /\ update'[v].crossed =
                        (update[v].crossed \/ update[v].pc \in {"loaded", "written"})
  <2>1. update[v] \in StatusUpdate
    BY <1>1
  <2>2. CASE update[v].row # k
    BY <1>5, <1>8, <2>1, <2>2
  <2>3. CASE update[v].row = k
    <3> DEFINE c == update[v].crossed \/ update[v].pc \in {"loaded", "written"}
    <3>1. c \in BOOLEAN /\ update'[v] = [update[v] EXCEPT !.crossed = c]
      BY <1>5, <1>8, <2>3
    <3> HIDE DEF c
    <3>2. /\ update'[v] \in StatusUpdate
          /\ update'[v].pc = update[v].pc /\ update'[v].row = update[v].row
          /\ update'[v].asked = update[v].asked /\ update'[v].answer = update[v].answer
          /\ update'[v].loaded = update[v].loaded /\ update'[v].crossed = c
      BY <2>1, <3>1 DEF StatusUpdate
    <3> QED BY <3>2 DEF c
  <2> QED BY <2>2, <2>3
<1>9. update' \in [Updates -> StatusUpdate]
  BY <1>5, <1>7, <1>8
<1>10. BaseType'
  BY <1>2, <1>3, <1>4, <1>9 DEF BaseType
<1> QED BY <1>2, <1>3, <1>4, <1>7, <1>8, <1>10 DEF WriteDoes, k, s

AnswerDoes(u) ==
    /\ UNCHANGED <<metrics, samples, rows, run, task>>
    /\ \A v \in Updates : v # u => update'[v] = update[v]
    /\ update[u].pc = "written" /\ update'[u].pc = "done"
    /\ update'[u].asked = update[u].asked /\ update'[u].crossed = update[u].crossed
    /\ update'[u].answer = rows[update[u].row].status

LEMMA AnswerEffect ==
    ASSUME BaseType, NEW u \in Updates, UpdateOK(u), Answer(u)
    PROVE  BaseType' /\ AnswerDoes(u)
<1>1. /\ update \in [Updates -> StatusUpdate] /\ update[u] \in StatusUpdate
      /\ rows \in [DOMAIN rows -> Row] /\ update[u].pc = "written"
      /\ update[u].row \in DOMAIN rows
  BY DEF BaseType, Answer, UpdateOK
<1> DEFINE answer == rows[update[u].row].status
<1> DEFINE v == [update[u] EXCEPT !.pc = "done", !.row = <<>>, !.loaded = "open",
                                  !.answer = answer]
<1>2. update' = [update EXCEPT ![u] = v]
  BY DEF Answer
<1>3. answer \in Statuses \cup {"open"} /\ answer = rows[update[u].row].status
  BY <1>1 DEF Row
<1> HIDE DEF answer
<1>4. /\ v \in StatusUpdate /\ v.pc = "done" /\ v.asked = update[u].asked
      /\ v.crossed = update[u].crossed /\ v.answer = answer
  BY <1>1, <1>3 DEF StatusUpdate
<1> HIDE DEF v
<1>5. /\ update' \in [Updates -> StatusUpdate] /\ update'[u] = v
      /\ \A x \in Updates : x # u => update'[x] = update[x]
  BY <1>1, <1>2, <1>4
<1>6. UNCHANGED <<metrics, samples, rows, run, task>>
  BY DEF Answer
<1>7. BaseType'
  BY <1>5, <1>6 DEF BaseType
<1> QED BY <1>1, <1>3, <1>4, <1>5, <1>6, <1>7 DEF AnswerDoes

-----------------------------------------------------------------------------
(* What a step leaves of the runs that do not take it.                     *)

\* All that is said of r is the same if its variables are, and its rows say the
\* same of the same metrics.
LEMMA Untouched ==
    ASSUME BaseType, NEW r \in Runs, RunOK(r), run'[r] = run[r], metrics' = metrics,
           RowsBy(r)' = RowsBy(r), \A k \in RowsBy(r) : SameRow(k)
    PROVE  RunOK(r)'
<1>1. PlaceOK(r)' /\ NumberedOK(r)' /\ FoundOK(r)'
  BY DEF RunOK, PlaceOK, NumberedOK, FoundOK, Phase
<1>2. StoredOK(r)' /\ OnceOK(r)'
  BY DEF RunOK, StoredOK, OnceOK, Phase, SameRow
<1>3. SoundOK(r)'
  BY DEF RunOK, SoundOK, Sound, SameRow
<1>4. CompleteOK(r)'
  <2>1. ASSUME NEW d, NEW t, NEW detector
        PROVE  /\ Stored(r, d, t, detector) => Stored(r, d, t, detector)'
               /\ Pending(r, d, t, detector) => Pending(r, d, t, detector)'
               /\ Due(d, t, detector)' => Due(d, t, detector)
    BY DEF Stored, Pending, Phase, Due, SameRow
  <2> QED BY <2>1 DEF RunOK, CompleteOK
<1>5. TotalOK(r)'
  <2>1. ZScoreRows(r)' = ZScoreRows(r)
    BY DEF ZScoreRows, SameRow
  <2>2. CountedRows(r)' = CountedRows(r)
    BY <2>1 DEF CountedRows
  <2>3. TotalOK(r)
    BY DEF RunOK
  <2> QED BY <2>1, <2>2, <2>3 DEF TotalOK, At
<1> QED BY <1>1, <1>2, <1>3, <1>4, <1>5 DEF RunOK

LEMMA OthersKept ==
    ASSUME BaseType, NEW r \in Runs, \A q \in Runs : RunOK(q), Alone(r), metrics' = metrics,
           UNCHANGED rows, RunOK(r)'
    PROVE  \A q \in Runs : RunOK(q)'
<1>1. ASSUME NEW q \in Runs, q # r PROVE RunOK(q)'
  <2>1. run'[q] = run[q] /\ RowsBy(q)' = RowsBy(q) /\ \A k \in RowsBy(q) : SameRow(k)
    BY <1>1 DEF Alone, RowsBy, SameRow
  <2> QED BY <2>1, Untouched
<1> QED BY <1>1

-----------------------------------------------------------------------------
(* Each step of a run keeps what is said of it.                            *)

\* Between two devices nothing is pending.
LEMMA NonePending ==
    ASSUME NEW r \in Runs, RunOK(r), Between(r)
    PROVE  /\ run[r].todo = {} /\ run[r].found = <<>>
           /\ \A d, t, detector : ~ Pending(r, d, t, detector)
<1>1. run[r].todo = {} /\ run[r].found = <<>> /\ (run[r].pc = "next" => run[r].dev = {})
  BY DEF RunOK, PlaceOK, Between, Through, At, Looking
<1>2. run[r].pc \in {"next", "threshold"}
  BY DEF Between, Through, At
<1> QED BY <1>1, <1>2 DEF Pending

LEMMA StartKeeps ==
    ASSUME BaseType, NEW r \in Runs, RunOK(r), StartDoes(r)
    PROVE  RunOK(r)'
<1> USE DEF StartDoes, NoRow
<1>1. /\ RowsBy(r)' = RowsBy(r) /\ RowsBy(r) = {} /\ run'[r].dev = {} /\ run'[r].todo = {}
      /\ run'[r].found = <<>> /\ run'[r].total = 0
  BY DEF RunOK, PlaceOK, RowsBy, Looking
<1>2. PlaceOK(r)' /\ NumberedOK(r)'
  BY <1>1 DEF RunOK, PlaceOK, NumberedOK, Looking
<1>3. FoundOK(r)' /\ StoredOK(r)' /\ OnceOK(r)' /\ SoundOK(r)' /\ CompleteOK(r)'
  BY <1>1 DEF FoundOK, StoredOK, OnceOK, SoundOK, CompleteOK
<1>4. TotalOK(r)'
  <2>1. CountedRows(r)' = {}
    BY <1>1 DEF CountedRows, ZScoreRows
  <2> QED BY <1>1, <2>1, FS_EmptySet DEF TotalOK, At
<1> QED BY <1>2, <1>3, <1>4 DEF RunOK

LEMMA NextDeviceKeeps ==
    ASSUME BaseType, NEW r \in Runs, RunOK(r), NextDeviceDoes(r)
    PROVE  RunOK(r)'
<1> USE DEF NextDeviceDoes, NoRow, SameScope
<1>1. PICK d \in run[r].left :
        /\ run'[r].dev = {d} /\ run'[r].left = run[r].left \ {d}
        /\ run'[r].todo = {t \in Types : metrics[d][t] # NoSample}
  OBVIOUS
<1>2. /\ RowsBy(r)' = RowsBy(r) /\ d \in Devices /\ d \in run[r].listed
      /\ run'[r].found = <<>> /\ run[r].pc \in {"next", "threshold"}
      /\ run[r].left \subseteq run[r].listed
  BY NonePending DEF BaseType, Runner, RowsBy, RunOK, PlaceOK, Between, Through, At
<1>3. PlaceOK(r)'
  BY <1>1, <1>2 DEF RunOK, PlaceOK, Looking
<1>4. NumberedOK(r)' /\ FoundOK(r)' /\ OnceOK(r)'
  BY <1>2 DEF RunOK, NumberedOK, FoundOK, OnceOK
<1>5. StoredOK(r)'
  BY <1>1, <1>2 DEF RunOK, StoredOK
<1>6. SoundOK(r)'
  BY <1>1, <1>2 DEF RunOK, SoundOK, Sound
<1>7. CompleteOK(r)'
  <2> SUFFICES ASSUME NEW e \in run'[r].listed \ run'[r].left, NEW t \in Types,
                      NEW detector \in Detectors,
                      <<e, t>> \notin run'[r].changed, Due(e, t, detector)'
               PROVE  Stored(r, e, t, detector)' \/ Pending(r, e, t, detector)'
    BY DEF CompleteOK
  <2>1. Due(e, t, detector)
    BY DEF Due
  <2>2. CASE e = d
    <3>1. CASE detector = "threshold"
      BY <1>1, <2>2, <3>1 DEF Pending
    <3>2. CASE detector = "statistical_zscore"
      <4>1. metrics[d][t] # NoSample
        BY <2>1, <2>2, <3>2 DEF Due, NoSample
      <4> QED BY <1>1, <2>2, <3>2, <4>1 DEF Pending, Phase
    <3> QED BY <3>1, <3>2 DEF Detectors
  <2>3. CASE e # d
    <3>1. Stored(r, e, t, detector) \/ Pending(r, e, t, detector)
      BY <1>1, <1>2, <2>1, <2>3 DEF RunOK, CompleteOK
    <3> QED BY <1>2, <3>1, NonePending DEF Stored
  <2> QED BY <2>2, <2>3
<1>8. TotalOK(r)'
  <2>1. CountedRows(r)' = CountedRows(r)
    BY <1>2 DEF CountedRows, ZScoreRows
  <2> QED BY <1>2, <2>1 DEF RunOK, TotalOK, At
<1> QED BY <1>3, <1>4, <1>5, <1>6, <1>7, <1>8 DEF RunOK

LEMMA LookKeeps ==
    ASSUME BaseType, NEW r \in Runs, RunOK(r), LookDoes(r)
    PROVE  RunOK(r)'
<1> USE DEF LookDoes, NoRow, SameScope
<1>1. PICK d \in run[r].dev, t \in run[r].todo :
         /\ run'[r].todo = run[r].todo \ {t}
         /\ \/ run'[r].found = run[r].found /\ ~ Due(d, t, Phase(r))
            \/ \E a \in Finds : /\ a.type = t /\ a.detector = Phase(r) /\ SeverityOK(a)
                                /\ Sound(a, d, t)
                                /\ run'[r].found = Append(run[r].found, a)
  OBVIOUS
<1>2. RowsBy(r)' = RowsBy(r) /\ Phase(r)' = Phase(r) /\ run[r].dev = {d}
      /\ run[r].found \in Seq(Finds)
  BY <1>1 DEF RowsBy, Phase, RunOK, PlaceOK, BaseType, Runner
<1>3. PlaceOK(r)' /\ NumberedOK(r)' /\ OnceOK(r)'
  BY <1>1, <1>2 DEF RunOK, PlaceOK, NumberedOK, OnceOK, Looking
<1>4. TotalOK(r)'
  <2>1. CountedRows(r)' = CountedRows(r)
    BY <1>2 DEF CountedRows, ZScoreRows
  <2> QED BY <2>1 DEF RunOK, TotalOK, At, Looking
\* What may be new in the list.
<1> DEFINE f == run[r].found
<1> DEFINE g == run'[r].found
<1>5. /\ \A i \in DOMAIN f : i \in DOMAIN g /\ g[i] = f[i]
      /\ \A i \in DOMAIN g : i \in DOMAIN f \/ /\ g[i].type = t /\ g[i].detector = Phase(r)
                                               /\ SeverityOK(g[i]) /\ Sound(g[i], d, t)
      /\ \A i, j \in DOMAIN g : i \in DOMAIN f \/ j \in DOMAIN f \/ i = j
      /\ Due(d, t, Phase(r)) => \E i \in DOMAIN g : g[i].type = t
  <2>1. CASE g = f /\ ~ Due(d, t, Phase(r))
    BY <2>1
  <2>2. ASSUME NEW a \in Finds, a.type = t, a.detector = Phase(r), SeverityOK(a),
               Sound(a, d, t), g = Append(f, a)
        PROVE  <1>5!1 /\ <1>5!2 /\ <1>5!3 /\ <1>5!4
    <3>1. /\ DOMAIN f = 1 .. Len(f) /\ Len(f) \in Nat /\ DOMAIN g = 1 .. (Len(f) + 1)
          /\ g[Len(f) + 1] = a /\ \A i \in 1 .. Len(f) : g[i] = f[i]
      BY <1>2, <2>2, AppendProperties, LenProperties
    <3> HIDE DEF f, g
    <3> QED BY <2>2, <3>1
  <2> QED BY <1>1, <2>1, <2>2
<1> HIDE DEF f, g
<1>6. FoundOK(r) /\ StoredOK(r) /\ SoundOK(r) /\ CompleteOK(r)
  BY DEF RunOK
<1>7. FoundOK(r)'
  <2>1. \A i \in DOMAIN f :
          /\ SeverityOK(f[i]) /\ f[i].detector = Phase(r) /\ f[i].type \notin run[r].todo
          /\ \A j \in DOMAIN f : f[i].type = f[j].type => i = j
    BY <1>6 DEF FoundOK, f
  <2>2. \A i \in DOMAIN g :
          /\ SeverityOK(g[i]) /\ g[i].detector = Phase(r) /\ g[i].type \notin run'[r].todo
    BY <1>1, <1>5, <2>1
  <2>3. \A i, j \in DOMAIN g : g[i].type = g[j].type => i = j
    BY <1>1, <1>5, <2>1
  <2> QED BY <1>2, <2>2, <2>3 DEF FoundOK, g, SeverityOK
<1>8. StoredOK(r)'
  <2>1. run[r].pc # "failed"
    BY DEF Looking
  <2> SUFFICES ASSUME NEW k \in RowsBy(r), rows[k].device = d, rows[k].detector = Phase(r)
               PROVE  \A i \in DOMAIN g : g[i].type # rows[k].type
    BY <1>1, <1>2, <1>6, <2>1 DEF StoredOK, g
  <2>2. rows[k].type \notin run[r].todo /\ \A i \in DOMAIN f : f[i].type # rows[k].type
    BY <1>2, <1>6, <2>1 DEF StoredOK, f
  <2> QED BY <1>1, <1>5, <2>2
<1>9. SoundOK(r)'
  <2>1. \A i \in DOMAIN g : <<d, g[i].type>> \notin run[r].changed => Sound(g[i], d, g[i].type)
    BY <1>2, <1>5, <1>6 DEF SoundOK, f
  <2> QED BY <1>2, <1>6, <2>1 DEF SoundOK, Sound, g
<1>10. CompleteOK(r)'
  <2>1. \A s, detector : Due(d, s, detector)' <=> Due(d, s, detector)
    BY DEF Due
  <2> SUFFICES ASSUME NEW e \in run[r].listed \ run[r].left, NEW s \in Types,
                      NEW detector \in Detectors,
                      <<e, s>> \notin run[r].changed, Due(e, s, detector)
               PROVE  Stored(r, e, s, detector)' \/ Pending(r, e, s, detector)'
    BY <2>1 DEF CompleteOK, Due
  <2>2. Stored(r, e, s, detector) \/ Pending(r, e, s, detector)
    BY <1>6 DEF CompleteOK, Looking
  <2>3. CASE Stored(r, e, s, detector)
    BY <1>2, <2>3 DEF Stored
  <2>4. CASE Pending(r, e, s, detector)
    <3>1. e = d
      BY <1>2, <2>4 DEF Pending
    <3>2. CASE detector = "threshold" /\ run[r].pc = "zscore"
      BY <2>4, <3>2 DEF Pending
    <3>3. CASE detector = Phase(r) /\ \E i \in DOMAIN f : f[i].type = s
      <4>1. \E i \in DOMAIN g : g[i].type = s
        BY <1>5, <3>3
      <4> QED BY <1>2, <2>4, <3>3, <4>1 DEF Pending, g
    <3>4. CASE detector = Phase(r) /\ s \in run[r].todo /\ s # t
      BY <1>1, <1>2, <2>4, <3>4 DEF Pending
    <3>5. CASE detector = Phase(r) /\ s = t
      <4>1. \E i \in DOMAIN g : g[i].type = s
        BY <1>5, <3>1, <3>5
      <4> QED BY <1>2, <2>4, <3>5, <4>1 DEF Pending, g
    <3> QED BY <2>4, <3>2, <3>3, <3>4, <3>5 DEF Pending, f
  <2> QED BY <2>2, <2>3, <2>4
<1> QED BY <1>3, <1>4, <1>7, <1>8, <1>9, <1>10 DEF RunOK

LEMMA TurnKeeps ==
    ASSUME BaseType, NEW r \in Runs, RunOK(r), TurnDoes(r)
    PROVE  RunOK(r)'
<1> USE DEF TurnDoes, NoRow, SameScope
<1>1. /\ RowsBy(r)' = RowsBy(r) /\ run[r].todo = {} /\ run[r].found = <<>>
      /\ run[r].pc = "zscore" /\ Phase(r) = "statistical_zscore" /\ Phase(r)' = "threshold"
  BY DEF RowsBy, Through, At, Phase
<1>2. PlaceOK(r)' /\ NumberedOK(r)' /\ OnceOK(r)' /\ FoundOK(r)'
  BY <1>1 DEF RunOK, PlaceOK, NumberedOK, OnceOK, FoundOK, Looking
<1>3. StoredOK(r)' /\ SoundOK(r)'
  BY <1>1 DEF RunOK, StoredOK, SoundOK, Sound
<1>4. TotalOK(r)'
  <2>1. CountedRows(r)' = CountedRows(r)
    BY <1>1 DEF CountedRows, ZScoreRows
  <2> QED BY <1>1, <2>1 DEF RunOK, TotalOK, At
<1>5. CompleteOK(r)'
  <2> SUFFICES ASSUME NEW d \in run[r].listed \ run[r].left, NEW t \in Types,
                      NEW detector \in Detectors,
                      <<d, t>> \notin run[r].changed, Due(d, t, detector)
               PROVE  Stored(r, d, t, detector)' \/ Pending(r, d, t, detector)'
    BY DEF CompleteOK, Due
  <2>1. Stored(r, d, t, detector) \/ Pending(r, d, t, detector)
    BY <1>1 DEF RunOK, CompleteOK
  <2>2. CASE Stored(r, d, t, detector)
    BY <1>1, <2>2 DEF Stored
  <2>3. CASE Pending(r, d, t, detector)
    <3>1. d \in run[r].dev /\ detector = "threshold"
      BY <1>1, <2>3 DEF Pending
    <3>2. t \in Limited
      BY <3>1 DEF Due
    <3> QED BY <1>1, <3>1, <3>2 DEF Pending
  <2> QED BY <2>1, <2>2, <2>3
<1> QED BY <1>2, <1>3, <1>4, <1>5 DEF RunOK

\* The anomaly at the head of the list is stored once, under a number of its own.
LEMMA CreateKeeps ==
    ASSUME BaseType, NEW r \in Runs, RunOK(r), CreateDoes(r)
    PROVE  RunOK(r)'
<1> USE DEF CreateDoes, SameScope
<1> DEFINE f == run[r].found
<1> DEFINE g == run'[r].found
<1> DEFINE k0 == NewKey(r)
<1>1. PICK d \in run[r].dev : rows'[k0] = NewRow(d, Head(f))
  OBVIOUS
<1>2. /\ run[r].pc \in Looking /\ run[r].dev = {d} /\ d \in run[r].listed \ run[r].left
      /\ f \in Seq(Finds) /\ f # <<>> /\ Phase(r)' = Phase(r)
  <2>1. run[r].pc \in Looking
    BY <1>1 DEF RunOK, PlaceOK
  <2> QED BY <1>1, <2>1 DEF RunOK, PlaceOK, BaseType, Runner, Phase
<1>3. /\ 1 \in DOMAIN f /\ Head(f) = f[1]
      /\ \A i \in DOMAIN g : i + 1 \in DOMAIN f /\ i + 1 # 1 /\ g[i] = f[i + 1]
      /\ \A i \in DOMAIN f : i # 1 => \E j \in DOMAIN g : g[j] = f[i]
  <2>1. /\ DOMAIN f = 1 .. Len(f) /\ Len(f) \in Nat \ {0} /\ g = Tail(f)
        /\ Head(f) = f[1]
    BY <1>2, LenProperties, EmptySeq, HeadTailProperties
  <2>2. /\ DOMAIN g = 1 .. (Len(f) - 1) /\ \A i \in 1 .. (Len(f) - 1) : g[i] = f[i + 1]
    BY <1>2, <2>1, HeadTailProperties, LenProperties
  <2> HIDE DEF f, g
  <2>3. \A i \in DOMAIN g : i + 1 \in DOMAIN f /\ i + 1 # 1 /\ g[i] = f[i + 1]
    BY <2>1, <2>2
  <2>4. ASSUME NEW i \in DOMAIN f, i # 1 PROVE \E j \in DOMAIN g : g[j] = f[i]
    <3>1. i - 1 \in DOMAIN g /\ g[i - 1] = f[i]
      BY <2>1, <2>2, <2>4
    <3> QED BY <3>1
  <2> QED BY <2>1, <2>3, <2>4
<1>4. /\ rows'[k0].device = d /\ rows'[k0].type = f[1].type
      /\ rows'[k0].detector = f[1].detector /\ rows'[k0].severity = f[1].severity
  BY <1>1, <1>3 DEF NewRow
<1>5. /\ RowsBy(r)' = RowsBy(r) \cup {k0} /\ k0 \notin RowsBy(r)
      /\ \A k \in RowsBy(r) : rows'[k] = rows[k]
  BY DEF RowsBy
<1>6. /\ \A i \in DOMAIN f :
           /\ SeverityOK(f[i]) /\ f[i].detector = Phase(r) /\ f[i].type \notin run[r].todo
           /\ \A j \in DOMAIN f : f[i].type = f[j].type => i = j
      /\ \A k \in RowsBy(r) :
           /\ rows[k].device \in run[r].listed \ run[r].left
           /\ rows[k].device \in run[r].dev =>
                /\ run[r].pc = "zscore" => rows[k].detector = "statistical_zscore"
                /\ rows[k].detector = Phase(r) => \A i \in DOMAIN f : f[i].type # rows[k].type
  BY <1>2 DEF RunOK, FoundOK, StoredOK, Looking
<1>7. g = run'[r].found
  OBVIOUS
<1>8. /\ run'[r].pc = run[r].pc /\ run[r].todo = {} /\ run'[r].todo = {}
      /\ run'[r].dev = run[r].dev /\ run'[r].listed = run[r].listed
      /\ run'[r].left = run[r].left /\ run'[r].changed = run[r].changed
      /\ run'[r].scope = run[r].scope /\ run'[r].kind = run[r].kind
  OBVIOUS
<1>9. NumberedOK(r)'
  <2> DEFINE c == Cardinality(RowsBy(r))
  <2>1. IsFiniteSet(RowsBy(r)) /\ c \in Nat
    BY Numbered DEF RunOK
  <2>2. Cardinality(RowsBy(r)') = c + 1
    BY <1>5, <2>1, FS_AddElement
  <2>3. RowsBy(r) = {[by |-> r, n |-> i] : i \in 1 .. c} /\ k0 = [by |-> r, n |-> c + 1]
    BY DEF RunOK, NumberedOK, NewKey
  <2> HIDE DEF c
  <2>4. 1 .. (c + 1) = (1 .. c) \cup {c + 1}
    BY <2>1
  <2>5. RowsBy(r)' = {[by |-> r, n |-> i] : i \in 1 .. (c + 1)}
    BY <1>5, <2>3, <2>4
  <2> QED BY <2>2, <2>5 DEF NumberedOK
<1>10. PlaceOK(r)'
  BY <1>2, <1>8 DEF RunOK, PlaceOK, Looking
<1>11. TotalOK(r)'
  <2>1. IsFiniteSet(RowsBy(r)) /\ ZScoreRows(r) \subseteq RowsBy(r)
    BY Numbered DEF RunOK, ZScoreRows
  <2>2. IsFiniteSet(CountedRows(r)) /\ k0 \notin CountedRows(r)
    BY <1>5, <2>1, FS_Subset DEF CountedRows
  <2>3. run[r].total = Cardinality(CountedRows(r)) /\ Cardinality(CountedRows(r)) \in Nat
    BY <1>2, <2>2, FS_CardinalityType DEF RunOK, TotalOK, Looking
  <2>4. f[1].detector = "statistical_zscore" <=> run[r].pc = "zscore"
    BY <1>2, <1>3, <1>6 DEF Phase, Looking
  <2>5. ZScoreRows(r)' = ZScoreRows(r) \cup {k \in {k0} : run[r].pc = "zscore"}
    BY <1>4, <1>5, <2>4 DEF ZScoreRows
  <2>6. CASE run[r].kind = "request" /\ run[r].pc = "threshold"
    <3>1. CountedRows(r)' = CountedRows(r)
      BY <1>8, <2>5, <2>6 DEF CountedRows
    <3>2. run'[r].total = run[r].total
      BY <2>3, <2>6 DEF Counted, At
    <3> QED BY <1>2, <1>8, <2>3, <3>1, <3>2 DEF TotalOK, At, Looking
  <2>7. CASE ~ (run[r].kind = "request" /\ run[r].pc = "threshold")
    <3>1. run[r].kind = "task" \/ run[r].pc = "zscore"
      BY <1>2, <2>7 DEF BaseType, Runner, Looking
    <3>2. CountedRows(r)' = CountedRows(r) \cup {k0}
      BY <1>5, <1>8, <2>5, <3>1 DEF CountedRows
    <3>3. Cardinality(CountedRows(r)') = Cardinality(CountedRows(r)) + 1
      BY <2>2, <3>2, FS_AddElement
    <3>4. run'[r].total = run[r].total + 1
      BY <2>7 DEF Counted, At
    <3> QED BY <1>2, <1>8, <2>3, <3>3, <3>4 DEF TotalOK, At, Looking
  <2> QED BY <2>6, <2>7
<1> HIDE DEF f, g, k0
<1>12. FoundOK(r)'
  <2>1. \A i \in DOMAIN g : SeverityOK(g[i]) /\ g[i].detector = Phase(r)
    BY <1>3, <1>6
  <2>2. \A i, j \in DOMAIN g : g[i].type = g[j].type => i = j
    <3> SUFFICES ASSUME NEW i \in DOMAIN g, NEW j \in DOMAIN g, g[i].type = g[j].type
                 PROVE  i = j
      OBVIOUS
    <3>1. i + 1 = j + 1
      BY <1>3, <1>6
    <3>2. i \in Nat /\ j \in Nat
      <4>1. g \in Seq(Finds)
        BY <1>2, <1>7, HeadTailProperties DEF f
      <4> QED BY <4>1, LenProperties
    <3> QED BY <3>1, <3>2
  <2> QED BY <1>2, <1>7, <1>8, <2>1, <2>2 DEF FoundOK, SeverityOK
<1>13. StoredOK(r)'
  <2>1. ASSUME NEW i \in DOMAIN g PROVE g[i].type # f[1].type
    BY <1>3, <1>6, <2>1
  <2>2. ASSUME NEW k \in RowsBy(r), rows[k].device \in run[r].dev, rows[k].detector = Phase(r),
               NEW i \in DOMAIN g
        PROVE  g[i].type # rows[k].type
    BY <1>3, <1>6, <2>2
  <2>3. run[r].pc = "zscore" => f[1].detector = "statistical_zscore"
    BY <1>3, <1>6 DEF Phase
  <2>4. ASSUME NEW k \in RowsBy(r)'
        PROVE  /\ rows'[k].device \in run[r].listed \ run[r].left
               /\ rows'[k].device \in run[r].dev =>
                    /\ run[r].pc = "zscore" => rows'[k].detector = "statistical_zscore"
                    /\ rows'[k].detector = Phase(r) =>
                         \A i \in DOMAIN g : g[i].type # rows'[k].type
    <3>1. CASE k = k0
      BY <1>2, <1>4, <2>1, <2>3, <3>1
    <3>2. CASE k \in RowsBy(r)
      BY <1>5, <1>6, <2>2, <3>2
    <3> QED BY <1>5, <3>1, <3>2
  <2> QED BY <1>2, <1>7, <1>8, <2>4 DEF StoredOK
<1>14. OnceOK(r)'
  <2>1. OnceOK(r)
    BY DEF RunOK
  <2>2. ASSUME NEW k \in RowsBy(r), rows[k].device = d, rows[k].type = f[1].type,
               rows[k].detector = f[1].detector
        PROVE  FALSE
    BY <1>2, <1>3, <1>6, <2>2
  <2> QED BY <1>4, <1>5, <2>1, <2>2 DEF OnceOK
<1>15. metrics' = metrics
  OBVIOUS
<1>16. SoundOK(r)'
  <2>1. SoundOK(r)
    BY DEF RunOK
  <2>2. ASSUME NEW i \in DOMAIN f, <<d, f[i].type>> \notin run[r].changed
        PROVE  Sound(f[i], d, f[i].type)
    BY <1>2, <2>1, <2>2 DEF SoundOK, f
  <2>3. ASSUME NEW i \in DOMAIN g, <<d, g[i].type>> \notin run[r].changed
        PROVE  Sound(g[i], d, g[i].type)
    BY <1>3, <2>2, <2>3
  <2>4. ASSUME NEW k \in RowsBy(r)', <<rows'[k].device, rows'[k].type>> \notin run[r].changed
        PROVE  Sound(rows'[k], rows'[k].device, rows'[k].type)
    <3>1. CASE k = k0
      <4>1. Sound(f[1], d, f[1].type)
        BY <1>3, <1>4, <2>2, <2>4, <3>1
      <4> QED BY <1>4, <3>1, <4>1 DEF Sound
    <3>2. CASE k \in RowsBy(r)
      BY <1>5, <2>1, <2>4, <3>2 DEF SoundOK
    <3> QED BY <1>5, <3>1, <3>2
  <2> QED BY <1>2, <1>7, <1>8, <1>15, <2>3, <2>4 DEF SoundOK, Sound
<1>17. CompleteOK(r)'
  <2> SUFFICES ASSUME NEW e \in run[r].listed \ run[r].left, NEW t \in Types,
                      NEW detector \in Detectors,
                      <<e, t>> \notin run[r].changed, Due(e, t, detector)
               PROVE  Stored(r, e, t, detector)' \/ Pending(r, e, t, detector)'
    BY <1>8, <1>15 DEF CompleteOK, Due
  <2>1. Stored(r, e, t, detector) \/ Pending(r, e, t, detector)
    BY <1>2 DEF RunOK, CompleteOK, Looking
  <2>2. CASE Stored(r, e, t, detector)
    BY <1>5, <2>2 DEF Stored
  <2>3. CASE Pending(r, e, t, detector)
    <3>1. CASE detector = "threshold" /\ run[r].pc = "zscore"
      BY <1>8, <2>3, <3>1 DEF Pending
    <3>2. ASSUME detector = Phase(r), NEW i \in DOMAIN f, f[i].type = t
          PROVE  Stored(r, e, t, detector)' \/ Pending(r, e, t, detector)'
      <4>1. e = d
        BY <1>2, <2>3 DEF Pending
      <4>2. CASE i = 1
        <5>1. f[1].detector = detector
          BY <1>3, <1>6, <3>2
        <5> QED BY <1>4, <1>5, <3>2, <4>1, <4>2, <5>1 DEF Stored
      <4>3. CASE i # 1
        <5>1. PICK j \in DOMAIN g : g[j] = f[i]
          BY <1>3, <4>3
        <5> QED BY <1>2, <1>7, <1>8, <3>2, <4>1, <5>1 DEF Pending
      <4> QED BY <4>2, <4>3
    <3> QED BY <1>8, <2>3, <3>1, <3>2 DEF Pending, f
  <2> QED BY <2>1, <2>2, <2>3
<1> QED BY <1>9, <1>10, <1>11, <1>12, <1>13, <1>14, <1>16, <1>17 DEF RunOK

LEMMA CompleteKeeps ==
    ASSUME BaseType, NEW r \in Runs, RunOK(r), CompleteDoes(r)
    PROVE  RunOK(r)'
<1> USE DEF CompleteDoes, NoRow, SameScope
<1>1. /\ RowsBy(r)' = RowsBy(r) /\ run[r].todo = {} /\ run[r].found = <<>>
      /\ run[r].pc \in {"next", "threshold"}
  BY NonePending DEF RowsBy, Between, Through, At
<1>2. PlaceOK(r)' /\ NumberedOK(r)' /\ OnceOK(r)' /\ FoundOK(r)'
  BY <1>1 DEF RunOK, PlaceOK, NumberedOK, OnceOK, FoundOK, Looking
<1>3. StoredOK(r)' /\ SoundOK(r)'
  BY <1>1 DEF RunOK, StoredOK, SoundOK, Sound
<1>4. TotalOK(r)'
  <2>1. ZScoreRows(r)' = ZScoreRows(r)
    BY <1>1 DEF ZScoreRows
  <2>2. run[r].total = Cardinality(CountedRows(r)) /\ run[r].kind \in {"task", "request"}
    BY <1>1 DEF RunOK, TotalOK, BaseType, Runner
  <2>3. run'[r].told = Told(r) /\ run'[r].kind = run[r].kind /\ run'[r].scope = run[r].scope
        /\ run'[r].listed = run[r].listed /\ run'[r].pc = "done"
    OBVIOUS
  <2>4. CASE run[r].kind = "task"
    BY <1>1, <2>2, <2>3, <2>4 DEF TotalOK, Told, CountedRows, At
  <2>5. CASE run[r].kind = "request"
    BY <2>1, <2>2, <2>3, <2>5 DEF TotalOK, Told, CountedRows, At
  <2> QED BY <2>2, <2>4, <2>5
<1>5. CompleteOK(r)'
  <2> SUFFICES ASSUME NEW d \in run[r].listed \ run[r].left, NEW t \in Types,
                      NEW detector \in Detectors,
                      <<d, t>> \notin run[r].changed, Due(d, t, detector)
               PROVE  Stored(r, d, t, detector)'
    BY DEF CompleteOK, Due
  <2>1. Stored(r, d, t, detector)
    BY <1>1, NonePending DEF RunOK, CompleteOK
  <2> QED BY <1>1, <2>1 DEF Stored
<1> QED BY <1>2, <1>3, <1>4, <1>5 DEF RunOK

LEMMA FailKeeps ==
    ASSUME BaseType, NEW r \in Runs, RunOK(r), FailDoes(r)
    PROVE  RunOK(r)'
<1> USE DEF FailDoes, NoRow
<1>1. RowsBy(r)' = RowsBy(r)
  BY DEF RowsBy
<1>2. PlaceOK(r)' /\ NumberedOK(r)' /\ OnceOK(r)' /\ FoundOK(r)'
  BY <1>1 DEF RunOK, PlaceOK, NumberedOK, OnceOK, FoundOK, Looking
<1>3. StoredOK(r)' /\ CompleteOK(r)' /\ TotalOK(r)'
  BY DEF StoredOK, CompleteOK, TotalOK, At
<1>4. SoundOK(r)'
  BY <1>1 DEF RunOK, SoundOK, Sound
<1> QED BY <1>2, <1>3, <1>4 DEF RunOK

\* A metric that changes is none of those a run answers for any more.
LEMMA RecordKeeps ==
    ASSUME BaseType, NEW d \in Devices, NEW t \in Types, RecordDoes(d, t), NEW r \in Runs,
           RunOK(r)
    PROVE  RunOK(r)'
<1>1. /\ rows' = rows /\ RowsBy(r)' = RowsBy(r)
      /\ \A e \in Devices, s \in Types : e # d \/ s # t => metrics'[e][s] = metrics[e][s]
      /\ DOMAIN rows \subseteq Key /\ rows \in [DOMAIN rows -> Row]
      /\ run[r] \in Runner
  BY DEF RecordDoes, RowsBy, BaseType
<1>2. CASE run'[r] = run[r] /\ run[r].pc = "idle"
  <2>1. RowsBy(r) = {} /\ run[r].dev = {} /\ run[r].listed = {}
    BY <1>2 DEF RunOK, PlaceOK, Looking
  <2>2. PlaceOK(r)' /\ NumberedOK(r)' /\ FoundOK(r)' /\ OnceOK(r)'
    BY <1>1, <1>2 DEF RunOK, PlaceOK, NumberedOK, FoundOK, Phase, OnceOK
  <2>3. StoredOK(r)' /\ SoundOK(r)' /\ CompleteOK(r)'
    BY <1>1, <1>2, <2>1 DEF StoredOK, SoundOK, CompleteOK
  <2>4. TotalOK(r)'
    BY <1>1, <1>2 DEF RunOK, TotalOK, CountedRows, ZScoreRows, At
  <2> QED BY <2>2, <2>3, <2>4 DEF RunOK
<1>3. CASE /\ run'[r].pc = run[r].pc /\ run'[r].kind = run[r].kind
           /\ run'[r].scope = run[r].scope /\ run'[r].listed = run[r].listed
           /\ run'[r].left = run[r].left /\ run'[r].dev = run[r].dev
           /\ run'[r].todo = run[r].todo /\ run'[r].found = run[r].found
           /\ run'[r].total = run[r].total /\ run'[r].told = run[r].told
           /\ run'[r].changed = run[r].changed \cup {<<d, t>>}
  <2>1. Phase(r)' = Phase(r)
    BY <1>3 DEF Phase
  <2>2. PlaceOK(r)' /\ NumberedOK(r)' /\ FoundOK(r)' /\ OnceOK(r)'
    BY <1>1, <1>3, <2>1 DEF RunOK, PlaceOK, NumberedOK, FoundOK, OnceOK
  <2>3. StoredOK(r)'
    BY <1>1, <1>3, <2>1 DEF RunOK, StoredOK
  <2>4. TotalOK(r)'
    <3>1. CountedRows(r)' = CountedRows(r) /\ ZScoreRows(r)' = ZScoreRows(r)
      BY <1>1, <1>3 DEF CountedRows, ZScoreRows
    <3> QED BY <1>1, <1>3, <3>1 DEF RunOK, TotalOK, At
  <2>5. ASSUME NEW e \in Devices, NEW s \in Types, <<e, s>> \notin run'[r].changed
        PROVE  metrics'[e][s] = metrics[e][s] /\ <<e, s>> \notin run[r].changed
    BY <1>1, <1>3, <2>5
  <2>6. SoundOK(r)'
    <3>1. ASSUME NEW k \in RowsBy(r), <<rows[k].device, rows[k].type>> \notin run'[r].changed
          PROVE  Sound(rows[k], rows[k].device, rows[k].type)'
      <4>1. rows[k].device \in Devices /\ rows[k].type \in Types
        BY <1>1 DEF RowsBy, Row
      <4>2. Sound(rows[k], rows[k].device, rows[k].type)
        BY <2>5, <3>1, <4>1 DEF RunOK, SoundOK
      <4> QED BY <1>1, <2>5, <3>1, <4>1, <4>2 DEF Sound
    <3>2. ASSUME NEW e \in run[r].dev, NEW i \in DOMAIN run[r].found,
                 <<e, run[r].found[i].type>> \notin run'[r].changed
          PROVE  Sound(run[r].found[i], e, run[r].found[i].type)'
      <4>1. run[r].found[i] \in Finds
        BY <1>1, ElementOfSeq, LenProperties DEF Runner
      <4>2. e \in Devices /\ run[r].found[i].type \in Types
        BY <1>1, <4>1 DEF Runner, Finds
      <4>3. Sound(run[r].found[i], e, run[r].found[i].type)
        BY <2>5, <3>2, <4>2 DEF RunOK, SoundOK
      <4> QED BY <1>3, <2>5, <3>2, <4>2, <4>3 DEF Sound
    <3> QED BY <1>1, <1>3, <3>1, <3>2 DEF SoundOK
  <2>7. CompleteOK(r)'
    <3> SUFFICES ASSUME run[r].pc # "failed", NEW e \in run[r].listed \ run[r].left,
                        NEW s \in Types, NEW detector \in Detectors,
                        <<e, s>> \notin run'[r].changed, Due(e, s, detector)'
                 PROVE  Stored(r, e, s, detector)' \/ Pending(r, e, s, detector)'
      BY <1>3 DEF CompleteOK
    <3>1. e \in Devices
      BY <1>1 DEF Runner
    <3>2. Due(e, s, detector) /\ <<e, s>> \notin run[r].changed
      BY <2>5, <3>1 DEF Due
    <3>3. Stored(r, e, s, detector) \/ Pending(r, e, s, detector)
      BY <3>2 DEF RunOK, CompleteOK
    <3> QED BY <1>1, <1>3, <2>1, <3>3 DEF Stored, Pending
  <2> QED BY <2>2, <2>3, <2>4, <2>6, <2>7 DEF RunOK
<1> QED BY <1>2, <1>3 DEF RecordDoes

-----------------------------------------------------------------------------
(* The records of the tasks, the updates and the rows.                     *)

\* A task record that tells of a completed run goes on doing so.
LEMMA TasksKept ==
    ASSUME BaseType, NEW r \in Runs, \A s \in Scopes : TaskOK(s), Alone(r),
           run[r].pc # "done", \A q \in Runs : q # r => RowsBy(q)' = RowsBy(q),
           NEW s \in Scopes, task'[s] = task[s] \/ task'[s].status # "completed"
    PROVE  TaskOK(s)'
<1> SUFFICES ASSUME task'[s].status = "completed", task'[s] = task[s] PROVE TaskOK(s)'
  BY DEF TaskOK
<1>1. PICK q \in Runs : /\ run[q].pc = "done" /\ run[q].kind = "task" /\ run[q].scope = s
                        /\ task[s].total = Cardinality(RowsBy(q))
  BY DEF TaskOK, At
<1>2. q # r
  BY <1>1
<1>3. run'[q] = run[q] /\ RowsBy(q)' = RowsBy(q)
  BY <1>2 DEF Alone
<1> QED BY <1>1, <1>3 DEF TaskOK, At

LEMMA CompleteTells ==
    ASSUME BaseType, NEW r \in Runs, \A q \in Scopes : TaskOK(q), RunOK(r), CompleteDoes(r)
    PROVE  \A s \in Scopes : TaskOK(s)'
<1> USE DEF CompleteDoes, NoRow, SameScope
<1>1. \A q \in Runs : RowsBy(q)' = RowsBy(q)
  BY DEF RowsBy
<1>2. run[r].pc \in {"next", "threshold"} /\ run'[r].pc = "done"
  BY DEF Between, Through, At
<1> SUFFICES ASSUME NEW s \in Scopes PROVE TaskOK(s)'
  OBVIOUS
<1>3. CASE run[r].kind = "task" /\ run[r].scope = s
  <2>1. task'[s].total = Told(r)
    BY <1>3
  <2>2. Told(r) = Cardinality(RowsBy(r))
    BY <1>2, <1>3 DEF Told, RunOK, TotalOK, CountedRows
  <2> QED BY <1>1, <1>2, <1>3, <2>1, <2>2 DEF TaskOK, At
<1>4. CASE ~ (run[r].kind = "task" /\ run[r].scope = s)
  <2>1. task'[s] = task[s]
    BY <1>4
  <2> QED BY <1>1, <1>2, <2>1, TasksKept
<1> QED BY <1>3, <1>4

LEMMA UpdatesKept ==
    ASSUME BaseType, \A u \in Updates : UpdateOK(u), \A k \in DOMAIN rows : RowOK(k),
           update' = update, DOMAIN rows \subseteq DOMAIN rows',
           \A k \in DOMAIN rows : rows'[k] = rows[k]
    PROVE  /\ \A u \in Updates : UpdateOK(u)'
           /\ \A k \in DOMAIN rows : RowOK(k)'
  BY DEF UpdateOK, RowOK, SeverityOK

\* The steps that store no row.
LEMMA RunStep ==
    ASSUME AnomalyInv, BaseType', NEW r \in Runs,
           \/ StartDoes(r) \/ NextDeviceDoes(r) \/ LookDoes(r) \/ TurnDoes(r)
           \/ CompleteDoes(r) \/ FailDoes(r)
    PROVE  AnomalyInv'
<1> USE DEF AnomalyInv
<1>1. Alone(r) /\ NoRow
  BY DEF StartDoes, NextDeviceDoes, LookDoes, TurnDoes, CompleteDoes, FailDoes
<1>2. RunOK(r)'
  BY StartKeeps, NextDeviceKeeps, LookKeeps, TurnKeeps, CompleteKeeps, FailKeeps
<1>3. \A q \in Runs : RunOK(q)'
  BY <1>1, <1>2, OthersKept DEF NoRow
<1>4. \A u \in Updates : UpdateOK(u)'
  BY <1>1 DEF NoRow, UpdateOK
<1>5. \A k \in DOMAIN rows' : RowOK(k)'
  BY <1>1 DEF NoRow, RowOK, SeverityOK
<1>6. \A s \in Scopes : TaskOK(s)'
  <2>1. \A q \in Runs : RowsBy(q)' = RowsBy(q)
    BY <1>1 DEF NoRow, RowsBy
  <2>2. CASE CompleteDoes(r)
    BY <2>2, CompleteTells
  <2>3. CASE ~ CompleteDoes(r)
    <3>1. run[r].pc # "done"
      BY <2>3 DEF StartDoes, NextDeviceDoes, LookDoes, TurnDoes, FailDoes, Between, Through,
                  At, Looking
    <3>2. \A s \in Scopes : task'[s] = task[s] \/ task'[s].status # "completed"
      BY <2>3 DEF StartDoes, NextDeviceDoes, LookDoes, TurnDoes, FailDoes
    <3> QED BY <1>1, <2>1, <3>1, <3>2, TasksKept
  <2> QED BY <2>2, <2>3
<1> QED BY <1>3, <1>4, <1>5, <1>6

LEMMA CreateStep ==
    ASSUME AnomalyInv, BaseType', NEW r \in Runs, CreateDoes(r)
    PROVE  AnomalyInv'
<1> USE DEF AnomalyInv
<1>1. RunOK(r)' /\ Alone(r) /\ metrics' = metrics /\ update' = update /\ task' = task
  BY CreateKeeps DEF CreateDoes
<1>2. ASSUME NEW q \in Runs, q # r PROVE RunOK(q)'
  <2>1. run'[q] = run[q] /\ RowsBy(q)' = RowsBy(q) /\ \A k \in RowsBy(q) : SameRow(k)
    BY <1>2 DEF CreateDoes, Alone, RowsBy, SameRow
  <2> QED BY <1>1, <2>1, Untouched
<1>3. /\ \A u \in Updates : UpdateOK(u)'
      /\ \A k \in DOMAIN rows : RowOK(k)'
  BY <1>1, UpdatesKept DEF CreateDoes
<1>4. PICK d \in run[r].dev : rows'[NewKey(r)] = NewRow(d, Head(run[r].found))
  BY DEF CreateDoes
<1>5. PICK k0 : k0 = NewKey(r)
  OBVIOUS
<1>6. RowOK(k0)'
  <2>1. run[r].found \in Seq(Finds) /\ run[r].found # <<>>
    BY DEF BaseType, Runner, CreateDoes
  <2>2. 1 \in DOMAIN run[r].found /\ Head(run[r].found) = run[r].found[1]
    BY <2>1, LenProperties, EmptySeq, HeadTailProperties
  <2>3. SeverityOK(Head(run[r].found))
    BY <2>2 DEF RunOK, FoundOK
  <2>4. SeverityOK(rows'[k0]) /\ rows'[k0].status = "open"
    BY <1>4, <1>5, <2>3 DEF SeverityOK, NewRow
  <2> QED BY <2>4 DEF RowOK, SeverityOK
<1>8. \A k \in DOMAIN rows' : RowOK(k)'
  BY <1>3, <1>5, <1>6 DEF CreateDoes
<1>7. \A s \in Scopes : TaskOK(s)'
  <2>1. run[r].pc # "done" /\ \A q \in Runs : q # r => RowsBy(q)' = RowsBy(q)
    BY <1>4 DEF CreateDoes, RunOK, PlaceOK, Looking
  <2> QED BY <1>1, <2>1, TasksKept
<1> QED BY <1>1, <1>2, <1>3, <1>7, <1>8

LEMMA RecordStep ==
    ASSUME AnomalyInv, BaseType', NEW d \in Devices, NEW t \in Types, RecordDoes(d, t)
    PROVE  AnomalyInv'
<1> USE DEF AnomalyInv
<1>1. \A r \in Runs : RunOK(r)'
  BY RecordKeeps
<1>2. UNCHANGED <<rows, task, update>>
  BY DEF RecordDoes
<1>3. /\ \A u \in Updates : UpdateOK(u)'
      /\ \A k \in DOMAIN rows' : RowOK(k)'
  BY <1>2 DEF UpdateOK, RowOK, SeverityOK
<1>4. \A s \in Scopes : TaskOK(s)'
  <2>1. \A r \in Runs : RowsBy(r)' = RowsBy(r)
    BY <1>2 DEF RowsBy
  <2>2. \A r \in Runs : run'[r].pc = run[r].pc /\ run'[r].kind = run[r].kind
                        /\ run'[r].scope = run[r].scope
    BY DEF RecordDoes
  <2> QED BY <1>2, <2>1, <2>2 DEF TaskOK, At
<1> QED BY <1>1, <1>3, <1>4

LEMMA LoadStep ==
    ASSUME AnomalyInv, BaseType', NEW u \in Updates, LoadDoes(u)
    PROVE  AnomalyInv'
<1> USE DEF AnomalyInv, LoadDoes
<1>1. \A r \in Runs : RunOK(r)'
  <2>1. \A r \in Runs : run'[r] = run[r] /\ RowsBy(r)' = RowsBy(r)
                        /\ \A k \in RowsBy(r) : SameRow(k)
    BY DEF RowsBy, SameRow
  <2> QED BY <2>1, Untouched
<1>2. /\ \A s \in Scopes : TaskOK(s)'
      /\ \A k \in DOMAIN rows' : RowOK(k)'
  BY DEF TaskOK, At, RowsBy, RowOK, SeverityOK
<1>3. \A v \in Updates : UpdateOK(v)'
  BY DEF UpdateOK
<1> QED BY <1>1, <1>2, <1>3

\* Whatever status is written, a closed anomaly has been resolved; and an update
\* another one overtakes knows it.
LEMMA WriteStep ==
    ASSUME AnomalyInv, BaseType', NEW u \in Updates, WriteDoes(u)
    PROVE  AnomalyInv'
<1> USE DEF AnomalyInv
<1> DEFINE k == update[u].row
<1> DEFINE s == update[u].asked
<1>1. /\ UNCHANGED <<metrics, samples, run, task>>
      /\ update[u].pc = "loaded" /\ DOMAIN rows' = DOMAIN rows
      /\ \A l \in DOMAIN rows : l # k => rows'[l] = rows[l]
      /\ k \in DOMAIN rows
      /\ SameRow(k)
      /\ rows'[k].status = IF s = update[u].loaded THEN rows[k].status ELSE s
      /\ rows'[k].resolved = (rows[k].resolved \/ s \in Closing)
      /\ update'[u].pc = "written" /\ update'[u].row = k /\ update'[u].asked = s
      /\ update'[u].crossed = update[u].crossed
      /\ \A v \in Updates : v # u =>
           \/ update'[v] = update[v] /\ update[v].row # k
           \/ /\ update'[v].pc = update[v].pc /\ update'[v].row = update[v].row
              /\ update'[v].asked = update[v].asked /\ update'[v].answer = update[v].answer
              /\ update'[v].loaded = update[v].loaded
              /\ update'[v].crossed = (update[v].crossed \/ update[v].pc \in {"loaded", "written"})
  BY DEF WriteDoes, UpdateOK
<1> HIDE DEF k, s
<1>2. \A l \in DOMAIN rows : SameRow(l)
  BY <1>1 DEF SameRow
<1>3. \A r \in Runs : RunOK(r)'
  <2>1. \A r \in Runs : run'[r] = run[r] /\ RowsBy(r)' = RowsBy(r)
                        /\ \A l \in RowsBy(r) : SameRow(l)
    BY <1>1, <1>2 DEF RowsBy
  <2> QED BY <1>1, <2>1, Untouched
<1>4. \A q \in Scopes : TaskOK(q)'
  BY <1>1 DEF TaskOK, At, RowsBy
<1>5. ASSUME NEW l \in DOMAIN rows' PROVE RowOK(l)'
  <2>1. l \in DOMAIN rows /\ RowOK(l)
    BY <1>1
  <2>2. CASE l # k
    BY <1>1, <2>1, <2>2 DEF RowOK, SeverityOK
  <2>3. CASE l = k
    <3>2. rows'[k].status \in {"resolved", "false_positive"} => rows'[k].resolved
      <4>1. CASE s = update[u].loaded
        BY <1>1, <2>1, <2>3, <4>1 DEF RowOK
      <4>2. CASE s # update[u].loaded
        BY <1>1, <4>2 DEF Closing
      <4> QED BY <4>1, <4>2
    <3>3. SeverityOK(rows'[l]) /\ (rows'[l].status \in {"resolved", "false_positive"}
                                     => rows'[l].resolved)
      BY <1>1, <2>1, <2>3, <3>2 DEF RowOK, SeverityOK, SameRow
    <3> QED BY <3>3 DEF RowOK, SeverityOK
  <2> QED BY <2>2, <2>3
<1>6. UpdateOK(u)'
  <2>1. UpdateOK(u)
    OBVIOUS
  <2>2. ~ update[u].crossed => rows'[k].status = s
    BY <1>1, <2>1 DEF UpdateOK, k
  <2> QED BY <1>1, <2>2 DEF UpdateOK
<1>7. ASSUME NEW v \in Updates, v # u PROVE UpdateOK(v)'
  <2>1. UpdateOK(v)
    OBVIOUS
  <2>2. CASE update'[v] = update[v] /\ update[v].row # k
    BY <1>1, <2>1, <2>2 DEF UpdateOK
  <2>3. CASE /\ update'[v].pc = update[v].pc /\ update'[v].row = update[v].row
             /\ update'[v].asked = update[v].asked /\ update'[v].answer = update[v].answer
             /\ update'[v].loaded = update[v].loaded
             /\ update'[v].crossed = (update[v].crossed \/ update[v].pc \in {"loaded", "written"})
    <3>1. CASE update[v].pc \in {"loaded", "written"}
      BY <1>1, <2>1, <2>3, <3>1 DEF UpdateOK
    <3>2. CASE update[v].pc \notin {"loaded", "written"}
      <4>1. update[v].crossed \in BOOLEAN
        BY DEF BaseType, StatusUpdate
      <4>2. ~ update'[v].crossed => ~ update[v].crossed
        BY <2>3
      <4> QED BY <1>1, <2>1, <2>3, <3>2, <4>2 DEF UpdateOK
    <3> QED BY <3>1, <3>2
  <2> QED BY <1>1, <1>7, <2>2, <2>3
<1> QED BY <1>3, <1>4, <1>5, <1>6, <1>7

LEMMA AnswerStep ==
    ASSUME AnomalyInv, BaseType', NEW u \in Updates, AnswerDoes(u)
    PROVE  AnomalyInv'
<1> USE DEF AnomalyInv, AnswerDoes
<1>1. \A r \in Runs : RunOK(r)'
  <2>1. \A r \in Runs : run'[r] = run[r] /\ RowsBy(r)' = RowsBy(r)
                        /\ \A k \in RowsBy(r) : SameRow(k)
    BY DEF RowsBy, SameRow
  <2> QED BY <2>1, Untouched
<1>2. /\ \A s \in Scopes : TaskOK(s)'
      /\ \A k \in DOMAIN rows' : RowOK(k)'
  BY DEF TaskOK, At, RowsBy, RowOK, SeverityOK
<1>3. \A v \in Updates : UpdateOK(v)'
  BY DEF UpdateOK
<1> QED BY <1>1, <1>2, <1>3

LEMMA NextKeeps ==
    ASSUME AnomalyInv, Next
    PROVE  AnomalyInv'
<1>1. BaseType
  BY DEF AnomalyInv
<1>2. ASSUME NEW d \in Devices, NEW t \in Types, NEW sample \in Recorded, Record(d, t, sample)
      PROVE  AnomalyInv'
  BY <1>1, <1>2, RecordEffect, RecordStep
<1>3. ASSUME NEW r \in Runs, NEW kind \in {"task", "request"}, NEW scope \in Scopes,
             Start(r, kind, scope)
      PROVE  AnomalyInv'
  <2>1. BaseType' /\ StartDoes(r)
    BY <1>1, <1>3, StartEffect
  <2> QED BY <2>1, RunStep
<1>4. ASSUME NEW r \in Runs,
             \/ NextDevice(r) \/ LookBack(r) \/ LookLatest(r) \/ Turn(r) \/ Complete(r) \/ Fail(r)
      PROVE  AnomalyInv'
  <2>1. /\ BaseType'
        /\ \/ NextDeviceDoes(r) \/ LookDoes(r) \/ TurnDoes(r) \/ CompleteDoes(r) \/ FailDoes(r)
    BY <1>1, <1>4, NextDeviceEffect, LookBackEffect, LookLatestEffect, TurnEffect,
       CompleteEffect, FailEffect
  <2> QED BY <2>1, RunStep
<1>5. ASSUME NEW r \in Runs, Create(r)
      PROVE  AnomalyInv'
  <2>1. NumberedOK(r)
    BY DEF AnomalyInv, RunOK
  <2> QED BY <1>1, <1>5, <2>1, CreateEffect, CreateStep
<1>6. ASSUME NEW u \in Updates, Load(u)
      PROVE  AnomalyInv'
  BY <1>1, <1>6, LoadEffect, LoadStep
<1>7. ASSUME NEW u \in Updates, Write(u)
      PROVE  AnomalyInv'
  BY <1>1, <1>7, WriteEffect, WriteStep
<1>8. ASSUME NEW u \in Updates, Answer(u)
      PROVE  AnomalyInv'
  <2>1. UpdateOK(u)
    BY DEF AnomalyInv
  <2> QED BY <1>1, <1>8, <2>1, AnswerEffect, AnswerStep
<1> QED BY <1>2, <1>3, <1>4, <1>5, <1>6, <1>7, <1>8 DEF Next

LEMMA StutterKeeps ==
    ASSUME AnomalyInv, UNCHANGED vars
    PROVE  AnomalyInv'
<1> USE DEF AnomalyInv, vars
<1>1. BaseType'
  BY DEF BaseType
<1>2. \A r \in Runs : RunOK(r)'
  <2>1. \A r \in Runs : run'[r] = run[r] /\ RowsBy(r)' = RowsBy(r)
                        /\ \A k \in RowsBy(r) : SameRow(k)
    BY DEF RowsBy, SameRow
  <2> QED BY <2>1, Untouched
<1>3. /\ \A s \in Scopes : TaskOK(s)'
      /\ \A k \in DOMAIN rows' : RowOK(k)'
      /\ \A u \in Updates : UpdateOK(u)'
  BY DEF TaskOK, At, RowsBy, RowOK, SeverityOK, UpdateOK
<1> QED BY <1>1, <1>2, <1>3

-----------------------------------------------------------------------------
(* Theorems.                                                                *)

\* The inductive invariant holds of every step of runs, updates and metrics.
THEOREM AnomalyInvariance == Spec => []AnomalyInv
<1>1. AnomalyInv /\ [Next]_vars => AnomalyInv'
  BY NextKeeps, StutterKeeps
<1> QED BY InitInv, <1>1, PTL DEF Spec

\* The tables and the variables of runs and updates are typed, the anomalies of a
\* run are numbered without a gap, and a threshold has one of the severities of
\* the enumeration (TypeOK).
THEOREM AnomalyTypeCorrect == Spec => []TypeOK
<1>1. AnomalyInv => TypeOK
  <2> SUFFICES ASSUME AnomalyInv PROVE TypeOK
    OBVIOUS
  <2>1. \A k \in DOMAIN rows : /\ k.by \in Runs /\ rows[k] \in Row
                               /\ rows[k].severity = "any" <=> rows[k].detector # "threshold"
    BY DEF AnomalyInv, BaseType, Key, RowOK, SeverityOK
  <2>2. /\ \A r \in Runs : RowsBy(r) = {[by |-> r, n |-> i] : i \in 1 .. Cardinality(RowsBy(r))}
        /\ \A r \in Runs :
             /\ run[r].dev \subseteq run[r].listed \ run[r].left
             /\ run[r].left \subseteq run[r].listed
    BY DEF AnomalyInv, RunOK, NumberedOK, PlaceOK
  <2>3. \A s \in Scopes : task[s].status \in {"none", "running", "completed", "failed"}
    BY DEF AnomalyInv, BaseType, Task
  <2>4. \A u \in Updates : update[u].pc \in {"loaded", "written"} => update[u].row \in DOMAIN rows
    BY DEF AnomalyInv, UpdateOK
  <2>5. metrics \in [Devices -> [Types -> Sample \cup {NoSample}]] /\ samples \in 0 .. MaxSamples
    BY DEF AnomalyInv, BaseType
  <2> QED BY <2>1, <2>2, <2>3, <2>4, <2>5 DEF TypeOK
<1> QED BY <1>1, AnomalyInvariance, PTL

\* A status update no other one crosses is answered with what it asked for, and a
\* closed anomaly has a time of resolution in whatever order updates cross
\* (UpdateStands, AnomalyRepository.update_status).
THEOREM UpdatesStand == Spec => []UpdateStands
<1>1. AnomalyInv => UpdateStands
  BY DEF AnomalyInv, UpdateOK, RowOK, UpdateStands
<1> QED BY <1>1, AnomalyInvariance, PTL

\* A completed task tells how many anomalies its run has stored; a request for a
\* device leaves the thresholds out (TotalsTellRows, manager.py and
\* api/anomalies.py).
THEOREM TotalsAreTrue == Spec => []TotalsTellRows
<1>1. AnomalyInv => TotalsTellRows
  BY DEF AnomalyInv, RunOK, TotalOK, TaskOK, TotalsTellRows, At
<1> QED BY <1>1, AnomalyInvariance, PTL

\* For a metric that stays as it is from the start of a run on, the run stores
\* each anomaly the detectors find in it once and no other, all of them if it
\* completes (RunTellsMetrics, detectors.py and manager.py).
THEOREM RunsTellMetrics == Spec => []RunTellsMetrics
<1>1. AnomalyInv => RunTellsMetrics
  <2> SUFFICES ASSUME AnomalyInv, NEW r \in Runs, NEW d \in Devices, NEW t \in Types,
                      <<d, t>> \notin run[r].changed
               PROVE  LET stored == {k \in RowsBy(r) : rows[k].device = d /\ rows[k].type = t}
                          found  == {Finding(rows[k]) : k \in stored} IN
                      /\ found \subseteq Findings(d, t)
                      /\ Cardinality(stored) = Cardinality(found)
                      /\ At(r, "done") /\ d \in run[r].listed => found = Findings(d, t)
    BY DEF RunTellsMetrics
  <2> DEFINE stored == {k \in RowsBy(r) : rows[k].device = d /\ rows[k].type = t}
  <2> DEFINE found == {Finding(rows[k]) : k \in stored}
  <2>1. RunOK(r) /\ BaseType /\ RowsBy(r) \subseteq DOMAIN rows
    BY DEF AnomalyInv, RowsBy
  <2>2. \A k \in stored : /\ Sound(rows[k], d, t) /\ SeverityOK(rows[k])
                          /\ rows[k].detector \in Detectors /\ rows[k].severity \in Severities
    BY <2>1 DEF AnomalyInv, RunOK, SoundOK, RowOK, BaseType, Row, Detectors, Severities
  <2> DEFINE level == metrics[d][t].level
  <2> DEFINE limits == IF t \in Limited
                         THEN CASE level = "critical" -> {"critical"}
                                [] level = "warning"  -> {"medium"}
                                [] OTHER -> {}
                         ELSE {}
  <2>3. Findings(d, t) = (IF metrics[d][t].odd THEN {"statistical_zscore"} ELSE {}) \cup limits
    <3>1. {a.detector : a \in Flagged(d, t)} =
            IF metrics[d][t].odd THEN {"statistical_zscore"} ELSE {}
      <4>1. CASE metrics[d][t].odd
        <5>1. Flagged(d, t) = {Statistical(t)}
          BY <4>1 DEF Flagged
        <5>2. Statistical(t).detector = "statistical_zscore"
          BY DEF Statistical
        <5> QED BY <4>1, <5>1, <5>2
      <4>2. CASE ~ metrics[d][t].odd
        <5>1. Flagged(d, t) = {}
          BY <4>2 DEF Flagged
        <5> QED BY <4>2, <5>1
      <4> QED BY <4>1, <4>2
    <3> QED BY <3>1 DEF Findings
  <2>4. \A k \in stored : Finding(rows[k]) \in Findings(d, t)
    <3> SUFFICES ASSUME NEW k \in stored PROVE Finding(rows[k]) \in Findings(d, t)
      OBVIOUS
    <3>1. CASE rows[k].detector = "threshold"
      BY <2>2, <2>3, <3>1 DEF Sound, SeverityOf, Finding
    <3>2. CASE rows[k].detector = "statistical_zscore"
      BY <2>2, <2>3, <3>2 DEF Sound, Finding
    <3> QED BY <2>2, <3>1, <3>2 DEF Detectors
  <2>5. found \subseteq Findings(d, t)
    BY <2>4
  <2>6. \A k, l \in stored : Finding(rows[k]) = Finding(rows[l]) => k = l
    <3> SUFFICES ASSUME NEW k \in stored, NEW l \in stored, Finding(rows[k]) = Finding(rows[l])
                 PROVE  k = l
      OBVIOUS
    <3>1. rows[k].detector = rows[l].detector
      BY <2>2 DEF Finding, Detectors, Severities
    <3> QED BY <2>1, <3>1 DEF RunOK, OnceOK
  <2>7. Cardinality(stored) = Cardinality(found)
    <3>1. IsFiniteSet(stored)
      BY <2>1, Numbered, FS_Subset DEF RunOK
    <3> DEFINE f == [k \in stored |-> Finding(rows[k])]
    <3>2. /\ \A k \in stored : f[k] = Finding(rows[k])
          /\ DOMAIN f = stored
      OBVIOUS
    <3> HIDE DEF f
    <3>3. f \in Bijection(stored, found)
      <4>1. f \in [stored -> found]
        BY DEF f
      <4>2. \A k, l \in stored : f[k] = f[l] => k = l
        BY <2>6, <3>2
      <4>3. \A y \in found : \E k \in stored : f[k] = y
        BY <3>2
      <4> QED BY <4>1, <4>2, <4>3, Fun_IsBij
    <3> QED BY <3>1, <3>3, FS_Bijection DEF ExistsBijection
  <2>8. ASSUME At(r, "done"), d \in run[r].listed PROVE found = Findings(d, t)
    <3>1. run[r].pc = "done" /\ run[r].left = {} /\ run[r].dev = {}
      BY <2>1, <2>8 DEF RunOK, PlaceOK, At, Looking
    <3>2. ASSUME NEW detector \in Detectors, Due(d, t, detector)
          PROVE  \E k \in stored : rows[k].detector = detector
      <4>1. Stored(r, d, t, detector)
        BY <2>1, <2>8, <3>1, <3>2 DEF RunOK, CompleteOK, Pending
      <4> QED BY <4>1 DEF Stored
    <3>3. ASSUME NEW x \in Findings(d, t) PROVE x \in found
      <4>1. CASE x = "statistical_zscore" /\ metrics[d][t].odd
        <5>1. Due(d, t, "statistical_zscore")
          BY <4>1 DEF Due
        <5>2. PICK k \in stored : rows[k].detector = "statistical_zscore"
          BY <3>2, <5>1 DEF Detectors
        <5> QED BY <4>1, <5>2 DEF Finding
      <4>2. CASE x \in limits
        <5>1. Due(d, t, "threshold") /\ x = SeverityOf(level)
          BY <4>2 DEF Due, SeverityOf
        <5>2. PICK k \in stored : rows[k].detector = "threshold"
          BY <3>2, <5>1 DEF Detectors
        <5>3. Finding(rows[k]) = x
          BY <2>2, <5>1, <5>2 DEF Finding, Sound
        <5> QED BY <5>3
      <4> QED BY <2>3, <3>3, <4>1, <4>2
    <3> QED BY <2>5, <3>3
  <2> QED BY <2>5, <2>7, <2>8
<1> QED BY <1>1, AnomalyInvariance, PTL
===============================================================================
