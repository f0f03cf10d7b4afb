-------------------------- MODULE TaskManagerProofs --------------------------
(***************************************************************************)
(* Theorems about the task registry, for any sets of ids and any number of *)
(* submissions.  IInv is the inductive strengthening of the invariants of  *)
(* TaskManager; TLC checks it too (MCTaskManager.cfg).                     *)
(***************************************************************************)
EXTENDS TaskManager, TLAPS

Recorded == {"stamping", "storing", "finished"}

\* A submission is in use exactly when its number has been given out, and a
\* dict not yet given out is fresh.
UsedInv ==
    \A r \in Runs :
        /\ taskOf[r] \in TaskIds <=> r <= runs
        /\ pc[r] # "unused" <=> r <= runs
        /\ r > runs => rec[r] = NewRecord

\* The registry names, for each id, the newest submission under that id.
RegistryInv ==
    \A id \in TaskIds :
        tasks[id] # NoRun =>
            /\ taskOf[tasks[id]] = id
            /\ \A r \in Runs : taskOf[r] = id => r <= tasks[id]

\* Only the holder of the lock is between the three writes, and the dict it
\* writes stays in the registry meanwhile.
LockInv ==
    \A r \in Runs :
        /\ lock = r <=> pc[r] \in {"stamping", "storing"}
        /\ lock = r => tasks[taskOf[r]] # NoRun /\ rec[tasks[taskOf[r]]].status \in Outcomes

OutcomeInv ==
    \A r \in Runs : pc[r] \in Recorded \cup {"ended"} => outcome[r] \in Outcomes

Blank(d) == d.by = NoRun /\ d.completed_at = NoRun /\ d.result = NoRun /\ d.error = NoRun

\* A running dict is blank, a finished one names the run that finished it.
DictInv ==
    \A r \in Runs :
        /\ rec[r].status = "running" => Blank(rec[r])
        /\ rec[r].status \in Outcomes => rec[r].by \in Runs

\* Who wrote the status has come to its end.
WriterInv ==
    \A r \in Runs :
        rec[r].by \in Runs => pc[rec[r].by] \in Recorded

\* The same of the copy in a response and of the dicts a filter has kept.
PollInv ==
    /\ resp.dict.status = "running" => Blank(resp.dict)
    /\ resp.want \in Outcomes => resp.dict.status \in Outcomes
    /\ reader.want \in Outcomes => \A r \in reader.kept : rec[r].status \in Outcomes

IInv ==
    /\ TypeOK
    /\ UsedInv
    /\ RegistryInv
    /\ LockInv
    /\ OutcomeInv
    /\ DictInv
    /\ WriterInv
    /\ Attribution
    /\ RunningMeansPending
    /\ PollInv

-----------------------------------------------------------------------------
USE RunsAssumption, IdsAssumption DEF NoRun, Runs

\* Initial states satisfy the inductive invariant.
LEMMA InitIInv == Init => IInv
  BY DEF Init, IInv, TypeOK, UsedInv, RegistryInv, LockInv, OutcomeInv, DictInv, WriterInv,
         Attribution, Writers, RunningMeansPending, PollInv, Blank, NewRecord, Dict, Statuses,
         Outcomes, Places, Recorded, Idle, NoResponse, TaskIds

-----------------------------------------------------------------------------
(* One lemma per group of actions. *)

USE DEF Recorded, Outcomes, Statuses, TaskIds

LEMMA RecordStartIInv ==
    ASSUME IInv, NEW id \in TaskIds, RecordStart(id)
    PROVE  IInv'
<1>1. runs + 1 \in Runs /\ runs + 1 > runs /\ lock = NoRun
  BY DEF RecordStart, IInv, TypeOK
<1>2. TypeOK'
  BY <1>1 DEF RecordStart, IInv, TypeOK, SlotFor, NewRecord, Dict, Places
<1>3. UsedInv'
  BY <1>1 DEF RecordStart, IInv, TypeOK, UsedInv, SlotFor
<1>4. RegistryInv'
  BY <1>1 DEF RecordStart, IInv, TypeOK, UsedInv, RegistryInv, SlotFor
<1>5. LockInv'
  BY <1>1 DEF RecordStart, IInv, TypeOK, UsedInv, LockInv, SlotFor
<1>6. OutcomeInv'
  BY <1>1 DEF RecordStart, IInv, TypeOK, OutcomeInv, SlotFor
<1>7. DictInv'
  BY <1>1 DEF RecordStart, IInv, TypeOK, DictInv, SlotFor, NewRecord, Blank
<1>8. WriterInv' /\ Attribution'
  BY <1>1 DEF RecordStart, IInv, TypeOK, UsedInv, WriterInv, Attribution, Writers, SlotFor, NewRecord, Dict
<1>9. RunningMeansPending'
  BY <1>1 DEF RecordStart, IInv, TypeOK, UsedInv, RegistryInv, RunningMeansPending, SlotFor, NewRecord, Unfinished
<1>10. PollInv'
  BY <1>1 DEF RecordStart, IInv, TypeOK, UsedInv, PollInv, SlotFor, NewRecord, Blank
<1> QED BY <1>2, <1>3, <1>4, <1>5, <1>6, <1>7, <1>8, <1>9, <1>10 DEF IInv

\* Starting a thread and running its body.
LEMMA ThreadIInv ==
    ASSUME IInv, NEW r \in Runs, NEW o \in Outcomes,
           ThreadStart(r) \/ ThreadRefused(r) \/ Body(r, o)
    PROVE  IInv'
<1>1. /\ pc[r] \in Unfinished
       /\ pc' = [pc EXCEPT ![r] = pc'[r]]
       /\ pc'[r] \in {"working", "unstarted", "ended"}
  BY DEF IInv, TypeOK, ThreadStart, ThreadRefused, Body, Unfinished, Places
<1>2. outcome' \in [Runs -> Outcomes \cup {"none"}]
  BY DEF IInv, TypeOK, ThreadStart, ThreadRefused, Body
<1>3. UNCHANGED <<tasks, rec, runs, taskOf, lock, reader, resp>>
  BY DEF ThreadStart, ThreadRefused, Body, registry, polling
<1>4. TypeOK'
  BY <1>1, <1>2, <1>3 DEF IInv, TypeOK, Places, ThreadStart, ThreadRefused, Body,
         registry, threads, polling
<1>5. UsedInv'
  BY <1>1, <1>2, <1>3 DEF IInv, TypeOK, UsedInv, ThreadStart, ThreadRefused, Body,
         registry, threads, polling
<1>6. RegistryInv'
  BY <1>1, <1>2, <1>3 DEF IInv, TypeOK, UsedInv, RegistryInv, ThreadStart,
         ThreadRefused, Body, registry, threads, polling
<1>7. LockInv'
  BY <1>1, <1>2, <1>3 DEF IInv, TypeOK, UsedInv, LockInv, ThreadStart, ThreadRefused,
         Body, registry, threads, polling
<1>8. OutcomeInv'
  BY <1>1, <1>2, <1>3 DEF IInv, TypeOK, OutcomeInv, ThreadStart, ThreadRefused, Body,
         registry, threads, polling
<1>9. DictInv'
  BY <1>1, <1>2, <1>3 DEF IInv, TypeOK, DictInv, Blank, ThreadStart, ThreadRefused,
         Body, registry, threads, polling
<1>10. WriterInv'
  <2>1. \A q \in Runs : pc[q] \in Recorded => pc'[q] \in Recorded
    BY <1>1 DEF IInv, TypeOK, Unfinished
  <2> QED BY <1>3, <2>1 DEF IInv, WriterInv
<1>11. Attribution'
  BY <1>3 DEF IInv, Attribution, Writers
<1>12. RunningMeansPending'
  BY <1>1, <1>2, <1>3 DEF IInv, TypeOK, UsedInv, RegistryInv, RunningMeansPending,
         Unfinished, ThreadStart, ThreadRefused, Body, registry, threads, polling
<1>13. PollInv'
  BY <1>1, <1>2, <1>3 DEF IInv, TypeOK, PollInv, Blank, ThreadStart, ThreadRefused,
         Body, registry, threads, polling
<1> QED BY <1>4, <1>5, <1>6, <1>7, <1>8, <1>9, <1>10, <1>11, <1>12, <1>13 DEF IInv

\* The dict a thread finds is at least as new as its own submission.
LEMMA LookupNewer ==
    ASSUME IInv, NEW r \in Runs, pc[r] # "unused", Lookup(r) # NoRun
    PROVE  /\ taskOf[r] \in TaskIds
           /\ Lookup(r) \in Runs
           /\ r <= Lookup(r)
           /\ taskOf[Lookup(r)] = taskOf[r]
  BY DEF IInv, TypeOK, UsedInv, RegistryInv, Lookup

\* The first write, which takes the lock.
LEMMA RecordStatusIInv ==
    ASSUME IInv, NEW r \in Runs, RecordStatus(r)
    PROVE  IInv'
<1>1. /\ Lookup(r) \in Runs /\ r <= Lookup(r) /\ taskOf[Lookup(r)] = taskOf[r]
       /\ taskOf[r] \in TaskIds /\ outcome[r] \in Outcomes
  BY LookupNewer DEF RecordStatus, IInv, OutcomeInv
<1>2. rec[Lookup(r)] \in Dict
  BY <1>1 DEF IInv, TypeOK
<1>3. SetStatus(rec[Lookup(r)], r) \in Dict
  BY <1>1, <1>2 DEF SetStatus, Dict
<1>4. TypeOK'
  BY <1>1, <1>3 DEF RecordStatus, IInv, TypeOK, Places, registry, polling
<1>5. UsedInv'
  BY <1>1, <1>2, <1>3, <1>4 DEF IInv, TypeOK, UsedInv, RecordStatus, SetStatus,
         registry, polling
<1>6. RegistryInv'
  BY <1>1, <1>2, <1>3, <1>4 DEF IInv, TypeOK, UsedInv, RegistryInv, RecordStatus,
         SetStatus, registry, polling
<1>7. LockInv'
  BY <1>1, <1>2, <1>3, <1>4 DEF IInv, TypeOK, Dict, UsedInv, LockInv, Lookup,
         RecordStatus, SetStatus, registry, polling
<1>8. OutcomeInv'
  BY <1>1, <1>2, <1>3, <1>4 DEF IInv, TypeOK, OutcomeInv, RecordStatus, SetStatus,
         registry, polling
<1>9. DictInv'
  <2>1. /\ SetStatus(rec[Lookup(r)], r).status \in Outcomes
        /\ SetStatus(rec[Lookup(r)], r).by \in Runs
    BY <1>1, <1>2 DEF SetStatus, Dict
  <2>2. \A q \in Runs : q # Lookup(r) => rec'[q] = rec[q]
    BY <1>1 DEF RecordStatus, IInv, TypeOK
  <2>3. rec'[Lookup(r)] = SetStatus(rec[Lookup(r)], r)
    BY <1>1 DEF RecordStatus, IInv, TypeOK
  <2> QED BY <1>1, <2>1, <2>2, <2>3 DEF IInv, DictInv, Blank
<1>10. WriterInv'
  BY <1>1, <1>2, <1>3, <1>4 DEF IInv, TypeOK, Dict, WriterInv, RecordStatus, SetStatus,
         registry, polling
<1>11. Attribution'
  BY <1>1, <1>2, <1>3, <1>4 DEF IInv, TypeOK, Dict, UsedInv, Attribution, Writers,
         RecordStatus, SetStatus, registry, polling
<1>12. RunningMeansPending'
  BY <1>1, <1>2, <1>3, <1>4 DEF IInv, TypeOK, Dict, UsedInv, RegistryInv,
         RunningMeansPending, Unfinished, RecordStatus, SetStatus, registry, polling
<1>13. PollInv'
  BY <1>1, <1>2, <1>3, <1>4 DEF IInv, TypeOK, Dict, PollInv, Blank, RecordStatus,
         SetStatus, registry, polling
<1> QED BY <1>4, <1>5, <1>6, <1>7, <1>8, <1>9, <1>10, <1>11, <1>12, <1>13 DEF IInv

\* The second write.
LEMMA RecordTimeIInv ==
    ASSUME IInv, NEW r \in Runs, RecordTime(r)
    PROVE  IInv'
<1>1. /\ Lookup(r) \in Runs /\ r <= Lookup(r) /\ taskOf[Lookup(r)] = taskOf[r]
       /\ taskOf[r] \in TaskIds /\ outcome[r] \in Outcomes /\ lock = r
       /\ rec[Lookup(r)].status \in Outcomes
  <2>1. lock = r /\ Lookup(r) # NoRun /\ rec[Lookup(r)].status \in Outcomes
    BY DEF RecordTime, IInv, LockInv, Lookup
  <2> QED BY <2>1, LookupNewer DEF RecordTime, IInv, OutcomeInv
<1>2. rec[Lookup(r)] \in Dict
  BY <1>1 DEF IInv, TypeOK
<1>3. SetTime(rec[Lookup(r)], r) \in Dict
  BY <1>1, <1>2 DEF SetTime, Dict
<1>4. TypeOK'
  BY <1>1, <1>3 DEF RecordTime, IInv, TypeOK, Places, registry, polling
<1>5. /\ SetTime(rec[Lookup(r)], r).status = rec[Lookup(r)].status
       /\ SetTime(rec[Lookup(r)], r).by = rec[Lookup(r)].by
  BY <1>2 DEF SetTime, Dict
<1>6. \A q \in Runs : rec'[q].status = rec[q].status /\ rec'[q].by = rec[q].by
  BY <1>1, <1>5 DEF RecordTime, IInv, TypeOK
<1>7. UsedInv'
  BY <1>1, <1>2, <1>3, <1>4, <1>5, <1>6 DEF IInv, TypeOK, UsedInv, RecordTime, SetTime,
         registry, polling
<1>8. RegistryInv'
  BY <1>1, <1>2, <1>3, <1>4, <1>5, <1>6 DEF IInv, TypeOK, UsedInv, RegistryInv,
         RecordTime, SetTime, registry, polling
<1>9. LockInv'
  <2>1. tasks' = tasks /\ taskOf' = taskOf /\ lock' = lock
    BY DEF RecordTime, registry
  <2>2. \A q \in Runs : pc'[q] \in {"stamping", "storing"} <=> pc[q] \in {"stamping", "storing"}
    BY DEF RecordTime, IInv, TypeOK
  <2>3. \A q \in Runs : lock = q => tasks[taskOf[q]] \in Runs
    BY <1>1 DEF Lookup
  <2> QED BY <1>6, <2>1, <2>2, <2>3 DEF IInv, LockInv
<1>10. OutcomeInv'
  BY <1>1, <1>2, <1>3, <1>4, <1>5, <1>6 DEF IInv, TypeOK, OutcomeInv, RecordTime,
         SetTime, registry, polling
<1>11. DictInv'
  <2>1. \A q \in Runs : q # Lookup(r) => rec'[q] = rec[q]
    BY <1>1 DEF RecordTime, IInv, TypeOK
  <2> QED BY <1>1, <1>6, <2>1 DEF IInv, DictInv, Blank
<1>12. WriterInv'
  BY <1>1, <1>2, <1>3, <1>4, <1>5, <1>6 DEF IInv, TypeOK, WriterInv, RecordTime,
         SetTime, registry, polling
<1>13. Attribution'
  BY <1>1, <1>2, <1>3, <1>4, <1>5, <1>6 DEF IInv, TypeOK, Dict, UsedInv, Attribution,
         Writers, RecordTime, SetTime, registry, polling
<1>14. RunningMeansPending'
  BY <1>1, <1>2, <1>3, <1>4, <1>5, <1>6 DEF IInv, TypeOK, Dict, UsedInv, RegistryInv,
         RunningMeansPending, Unfinished, RecordTime, SetTime, registry, polling
<1>15. PollInv'
  BY <1>1, <1>2, <1>3, <1>4, <1>5, <1>6 DEF IInv, TypeOK, Dict, PollInv, Blank,
         RecordTime, SetTime, registry, polling
<1> QED BY <1>4, <1>7, <1>8, <1>9, <1>10, <1>11, <1>12, <1>13, <1>14, <1>15 DEF IInv

\* The third write, which releases the lock.
LEMMA RecordValueIInv ==
    ASSUME IInv, NEW r \in Runs, RecordValue(r)
    PROVE  IInv'
<1>1. /\ Lookup(r) \in Runs /\ r <= Lookup(r) /\ taskOf[Lookup(r)] = taskOf[r]
       /\ taskOf[r] \in TaskIds /\ outcome[r] \in Outcomes /\ lock = r
       /\ rec[Lookup(r)].status \in Outcomes
  <2>1. lock = r /\ Lookup(r) # NoRun /\ rec[Lookup(r)].status \in Outcomes
    BY DEF RecordValue, IInv, LockInv, Lookup
  <2> QED BY <2>1, LookupNewer DEF RecordValue, IInv, OutcomeInv
<1>2. rec[Lookup(r)] \in Dict
  BY <1>1 DEF IInv, TypeOK
<1>3. SetValue(rec[Lookup(r)], r) \in Dict
  BY <1>1, <1>2 DEF SetValue, Dict
<1>4. TypeOK'
  BY <1>1, <1>3 DEF RecordValue, IInv, TypeOK, Places, registry, polling
<1>5. /\ SetValue(rec[Lookup(r)], r).status = rec[Lookup(r)].status
       /\ SetValue(rec[Lookup(r)], r).by = rec[Lookup(r)].by
  BY <1>2 DEF SetValue, Dict
<1>6. \A q \in Runs : rec'[q].status = rec[q].status /\ rec'[q].by = rec[q].by
  BY <1>1, <1>5 DEF RecordValue, IInv, TypeOK
<1>7. UsedInv'
  BY <1>1, <1>2, <1>3, <1>4, <1>5, <1>6 DEF IInv, TypeOK, UsedInv, RecordValue,
         SetValue, registry, polling
<1>8. RegistryInv'
  BY <1>1, <1>2, <1>3, <1>4, <1>5, <1>6 DEF IInv, TypeOK, UsedInv, RegistryInv,
         RecordValue, SetValue, registry, polling
<1>9. LockInv'
  BY <1>1, <1>2, <1>3, <1>4, <1>5, <1>6 DEF IInv, TypeOK, Dict, UsedInv, LockInv,
         Lookup, RecordValue, SetValue, registry, polling
<1>10. OutcomeInv'
  BY <1>1, <1>2, <1>3, <1>4, <1>5, <1>6 DEF IInv, TypeOK, OutcomeInv, RecordValue,
         SetValue, registry, polling
<1>11. DictInv'
  BY <1>1, <1>2, <1>3, <1>4, <1>5, <1>6 DEF IInv, TypeOK, Dict, DictInv, Blank,
         RecordValue, SetValue, registry, polling
<1>12. WriterInv'
  BY <1>1, <1>2, <1>3, <1>4, <1>5, <1>6 DEF IInv, TypeOK, WriterInv, RecordValue,
         SetValue, registry, polling
<1>13. Attribution'
  BY <1>1, <1>2, <1>3, <1>4, <1>5, <1>6 DEF IInv, TypeOK, Dict, UsedInv, Attribution,
         Writers, RecordValue, SetValue, registry, polling
<1>14. RunningMeansPending'
  BY <1>1, <1>2, <1>3, <1>4, <1>5, <1>6 DEF IInv, TypeOK, Dict, UsedInv, RegistryInv,
         RunningMeansPending, Unfinished, RecordValue, SetValue, registry, polling
<1>15. PollInv'
  BY <1>1, <1>2, <1>3, <1>4, <1>5, <1>6 DEF IInv, TypeOK, Dict, PollInv, Blank,
         RecordValue, SetValue, registry, polling
<1> QED BY <1>4, <1>7, <1>8, <1>9, <1>10, <1>11, <1>12, <1>13, <1>14, <1>15 DEF IInv

\* Nothing left to write to: the dict of r cannot be the one its id names.
LEMMA RecordNothingIInv ==
    ASSUME IInv, NEW r \in Runs, RecordNothing(r)
    PROVE  IInv'
<1>1. TypeOK'
  BY DEF IInv, TypeOK, Places, RecordNothing, registry, polling
<1>2. UsedInv'
  BY DEF IInv, TypeOK, UsedInv, RecordNothing, registry, polling
<1>3. RegistryInv'
  BY DEF IInv, RegistryInv, RecordNothing, registry, polling
<1>4. LockInv'
  BY DEF IInv, TypeOK, LockInv, RecordNothing, registry, polling
<1>5. OutcomeInv'
  BY DEF IInv, TypeOK, OutcomeInv, RecordNothing, registry, polling
<1>6. DictInv'
  BY DEF IInv, TypeOK, DictInv, Blank, RecordNothing, registry, polling
<1>7. WriterInv'
  BY DEF IInv, TypeOK, Dict, WriterInv, RecordNothing, registry, polling
<1>8. Attribution'
  BY DEF IInv, Attribution, Writers, RecordNothing, registry, polling
<1>9. RunningMeansPending'
  BY DEF IInv, TypeOK, UsedInv, RegistryInv, RunningMeansPending, Lookup,
         RecordNothing, registry, polling
<1>10. PollInv'
  BY DEF IInv, TypeOK, PollInv, Blank, RecordNothing, registry, polling
<1> QED BY <1>1, <1>2, <1>3, <1>4, <1>5, <1>6, <1>7, <1>8, <1>9, <1>10 DEF IInv

\* Cleanup.
LEMMA CleanupIInv ==
    ASSUME IInv, NEW cutoff \in Nat, Cleanup(cutoff)
    PROVE  IInv'
<1>1. TypeOK'
  BY DEF IInv, TypeOK, Cleanup, threads, polling
<1>2. UsedInv'
  BY DEF IInv, UsedInv, Cleanup, threads, polling
<1>3. RegistryInv'
  BY DEF IInv, TypeOK, RegistryInv, Cleanup, threads, polling
<1>4. LockInv'
  BY DEF IInv, TypeOK, LockInv, Cleanup, threads, polling
<1>5. OutcomeInv'
  BY DEF IInv, OutcomeInv, Cleanup, threads, polling
<1>6. DictInv'
  BY DEF IInv, DictInv, Cleanup, threads, polling
<1>7. WriterInv'
  BY DEF IInv, WriterInv, Cleanup, threads, polling
<1>8. Attribution'
  BY DEF IInv, Attribution, Writers, Cleanup, threads, polling
<1>9. RunningMeansPending'
  BY DEF IInv, TypeOK, RunningMeansPending, Cleanup, threads, polling
<1>10. PollInv'
  BY DEF IInv, PollInv, Cleanup, threads, polling
<1> QED BY <1>1, <1>2, <1>3, <1>4, <1>5, <1>6, <1>7, <1>8, <1>9, <1>10 DEF IInv

\* Reading the registry.
LEMMA PollIInv ==
    ASSUME IInv, Poll
    PROVE  IInv'
<1>1. UNCHANGED <<tasks, rec, runs, taskOf, pc, outcome, lock>>
  BY DEF Poll, GetTask, ListTasks, FilterOne, FilterDone, Encode, Respond, registry, threads
<1>2. TypeOK' /\ PollInv'
  <2>1. CASE \E id \in TaskIds : GetTask(id)
    BY <1>1, <2>1 DEF GetTask, IInv, TypeOK, PollInv, Blank
  <2>2. CASE \E want \in Statuses \cup {"any"} : ListTasks(want)
    BY <1>1, <2>2 DEF ListTasks, IInv, TypeOK, PollInv, Blank
  <2>3. CASE \E r \in Runs : FilterOne(r)
    <3>1. PICK r \in Runs : FilterOne(r)
      BY <2>3
    <3>2. /\ reader'.phase = reader.phase /\ reader'.want = reader.want
          /\ reader'.refs \subseteq Runs
          /\ reader'.kept \in SUBSET (reader.kept \cup {r})
          /\ r \in reader'.kept => r \in reader.kept \/ Matches(r)
      BY <3>1 DEF FilterOne, IInv, TypeOK
    <3>3. TypeOK'
      <4>1. reader' \in [phase: {"idle", "filter", "respond"}, want: Statuses \cup {"any"},
                        refs: SUBSET Runs, kept: SUBSET Runs]
        BY <3>1 DEF FilterOne, IInv, TypeOK
      <4> QED BY <1>1, <3>1, <4>1 DEF FilterOne, IInv, TypeOK
    <3>4. PollInv'
      BY <1>1, <3>1, <3>2 DEF FilterOne, Matches, IInv, TypeOK, PollInv, Blank
    <3> QED BY <3>3, <3>4
  <2>4. CASE \E r \in Runs : Encode(r)
    <3>1. PICK r \in Runs : Encode(r)
      BY <2>4
    <3>2. /\ resp' = [run |-> r, want |-> reader.want, dict |-> rec[r]]
          /\ rec[r] \in Dict /\ r \in reader.kept
      BY <3>1 DEF Encode, IInv, TypeOK
    <3>3. TypeOK'
      <4>1. reader' \in [phase: {"idle", "filter", "respond"}, want: Statuses \cup {"any"},
                        refs: SUBSET Runs, kept: SUBSET Runs]
        BY <3>1 DEF Encode, IInv, TypeOK
      <4>2. resp' \in [run: Runs \cup {NoRun}, want: Statuses \cup {"any"}, dict: Dict]
        BY <3>2 DEF IInv, TypeOK
      <4> QED BY <1>1, <4>1, <4>2 DEF IInv, TypeOK
    <3>4. PollInv'
      BY <1>1, <3>1, <3>2 DEF Encode, IInv, TypeOK, Dict, DictInv, PollInv, Blank
    <3> QED BY <3>3, <3>4
  <2>5. CASE FilterDone
    BY <1>1, <2>5 DEF FilterDone, IInv, TypeOK, PollInv, Blank
  <2>6. CASE Respond
    <3>1. NewRecord \in Dict /\ Blank(NewRecord)
      BY DEF NewRecord, Dict, Blank
    <3> QED BY <1>1, <2>6, <3>1 DEF Respond, Idle, NoResponse, IInv, TypeOK, PollInv, Blank
  <2> QED BY <2>1, <2>2, <2>3, <2>4, <2>5, <2>6 DEF Poll
<1>3. /\ UsedInv' /\ RegistryInv' /\ LockInv' /\ OutcomeInv' /\ DictInv' /\ WriterInv'
      /\ Attribution' /\ RunningMeansPending'
  BY <1>1 DEF IInv, UsedInv, RegistryInv, LockInv, OutcomeInv, DictInv, WriterInv, Attribution,
              Writers, RunningMeansPending
<1> QED BY <1>2, <1>3 DEF IInv

-----------------------------------------------------------------------------
(* The invariant, and what follows from it. *)

LEMMA StepIInv == IInv /\ [Next]_vars => IInv'
<1> SUFFICES ASSUME IInv, [Next]_vars PROVE IInv'
  OBVIOUS
<1>1. CASE \E id \in JobTaskIds : SubmitDiscovery(id)
  BY <1>1, RecordStartIInv DEF SubmitDiscovery
<1>2. CASE \E id \in SharedTaskIds : SubmitShared(id)
  BY <1>2, RecordStartIInv DEF SubmitShared
<1>3. CASE \E r \in Runs : ThreadStart(r) \/ ThreadRefused(r)
  BY <1>3, ThreadIInv
<1>4. CASE \E r \in Runs : Record(r)
  BY <1>4, RecordStatusIInv, RecordTimeIInv, RecordValueIInv, RecordNothingIInv DEF Record
<1>5. CASE \E r \in Runs, o \in Outcomes : Body(r, o)
  BY <1>5, ThreadIInv
<1>6. CASE \E cutoff \in 2 .. MaxRuns + 1 : Cleanup(cutoff)
  BY <1>6, CleanupIInv
<1>7. CASE Poll
  BY <1>7, PollIInv
<1>8. CASE UNCHANGED vars
  BY <1>8 DEF vars, IInv, TypeOK, UsedInv, RegistryInv, LockInv, OutcomeInv, DictInv, WriterInv,
              Attribution, Writers, RunningMeansPending, PollInv
<1> QED BY <1>1, <1>2, <1>3, <1>4, <1>5, <1>6, <1>7, <1>8 DEF Next

THEOREM Invariance == Spec => []IInv
  BY InitIInv, StepIInv, PTL DEF Spec

\* Every variable keeps its type.
THEOREM TypeCorrect == Spec => []TypeOK
  BY Invariance, PTL DEF IInv

\* No task's record is ever written by a run of another task, or of a later
\* submission.
THEOREM AttributionHolds == Spec => []Attribution
  BY Invariance, PTL DEF IInv

\* No task of the registry reads "running" after its own thread has recorded.
THEOREM RunningMeansPendingHolds == Spec => []RunningMeansPending
  BY Invariance, PTL DEF IInv

\* A task reads finished before its own run is only because an overlapping
\* older run of the same task finished it.
THEOREM FinishedEarlyOnlyByOverlapHolds == Spec => []FinishedEarlyOnlyByOverlap
<1>1. IInv => FinishedEarlyOnlyByOverlap
  <2> SUFFICES ASSUME IInv, NEW r \in Runs, rec[r].status \in Outcomes,
                      pc[r] \in Unfinished \cup {"unstarted"}
               PROVE  /\ rec[r].by \in Runs
                      /\ rec[r].by < r
                      /\ taskOf[rec[r].by] = taskOf[r]
                      /\ pc[rec[r].by] \notin Unfinished
    BY DEF FinishedEarlyOnlyByOverlap
  <2>1. rec[r].by \in Runs /\ pc[rec[r].by] \in Recorded
    BY DEF IInv, DictInv, WriterInv
  <2>2. rec[r].by <= r /\ taskOf[rec[r].by] = taskOf[r]
    BY <2>1 DEF IInv, Attribution, Writers
  <2>3. rec[r].by # r
    BY <2>1 DEF Unfinished
  <2> QED BY <2>1, <2>2, <2>3 DEF Unfinished
<1> QED BY <1>1, Invariance, PTL

\* A response with an outcome also shows a finished status, and one filtered
\* for finished tasks shows only these.
THEOREM ResponsesConsistent == Spec => []ResponseSane
<1>1. IInv => ResponseSane
  BY DEF IInv, TypeOK, Dict, PollInv, Blank, ResponseSane
<1> QED BY <1>1, Invariance, PTL

\* No step puts a finished dict back to "running" or clears its completion
\* time, whichever run writes it.
THEOREM NothingReopens == Spec => NeverReopens
<1>1. IInv /\ [Next]_vars =>
        [\A r \in Runs :
            /\ rec[r].status \in Outcomes => rec'[r].status \in Outcomes
            /\ rec[r].completed_at # NoRun => rec'[r].completed_at # NoRun]_vars
  <2> SUFFICES ASSUME IInv, [Next]_vars, NEW r \in Runs
               PROVE  /\ rec[r].status \in Outcomes => rec'[r].status \in Outcomes
                      /\ rec[r].completed_at # NoRun => rec'[r].completed_at # NoRun
    OBVIOUS
  <2>1. CASE \E id \in TaskIds : RecordStart(id)
    BY <2>1 DEF RecordStart, SlotFor, IInv, TypeOK, UsedInv, NewRecord
  <2>2. CASE \E q \in Runs : RecordStatus(q)
    <3>1. PICK q \in Runs : RecordStatus(q)
      BY <2>2
    <3>2. outcome[q] \in Outcomes
      BY <3>1 DEF RecordStatus, IInv, OutcomeInv
    <3> QED BY <3>1, <3>2 DEF RecordStatus, SetStatus, IInv, TypeOK, Dict
  <2>3. CASE \E q \in Runs : RecordTime(q)
    BY <2>3 DEF RecordTime, SetTime, IInv, TypeOK, Dict
  <2>4. CASE \E q \in Runs : RecordValue(q)
    BY <2>4 DEF RecordValue, SetValue, IInv, TypeOK, Dict
  <2>5. CASE UNCHANGED rec
    BY <2>5
  <2> QED
    BY <2>1, <2>2, <2>3, <2>4, <2>5
       DEF Next, SubmitDiscovery, SubmitShared, ThreadStart, ThreadRefused, Body, Record,
           RecordNothing, Cleanup, Poll, GetTask, ListTasks, FilterOne, FilterDone, Encode,
           Respond, vars
<1> QED BY <1>1, Invariance, PTL DEF Spec, NeverReopens

-----------------------------------------------------------------------------
(* Discovery tasks.  Their ids are submitted once, so the dict of a        *)
(* discovery run follows its own thread step by step.                      *)

\* What the dict of run r holds when only r writes it.
OwnDict(r) ==
    [status       |-> IF pc[r] \in Recorded THEN outcome[r] ELSE "running",
     by           |-> IF pc[r] \in Recorded THEN r ELSE NoRun,
     completed_at |-> IF pc[r] \in {"storing", "finished"} THEN r ELSE NoRun,
     result       |-> IF pc[r] = "finished" /\ outcome[r] = "completed" THEN r ELSE NoRun,
     error        |-> IF pc[r] = "finished" /\ outcome[r] = "failed" THEN r ELSE NoRun]

JobInv ==
    \A r \in Runs :
        taskOf[r] \in JobTaskIds =>
            /\ \A q \in Runs : taskOf[q] = taskOf[r] => q = r
            /\ pc[r] # "finished" => tasks[taskOf[r]] = r
            /\ rec[r] = OwnDict(r)

LEMMA StepJobInv == IInv /\ IInv' /\ JobInv /\ [Next]_vars => JobInv'
<1> SUFFICES ASSUME IInv, IInv', JobInv, [Next]_vars,
                    NEW r \in Runs, taskOf'[r] \in JobTaskIds
             PROVE  /\ \A q \in Runs : taskOf'[q] = taskOf'[r] => q = r
                    /\ pc'[r] # "finished" => tasks'[taskOf'[r]] = r
                    /\ rec'[r] = OwnDict(r)'
  BY DEF JobInv
<1>1. CASE \E id \in JobTaskIds : SubmitDiscovery(id)
  <2>1. PICK id \in JobTaskIds : SubmitDiscovery(id)
    BY <1>1
  <2>2. runs + 1 \in Runs /\ pc[runs + 1] = "unused"
    BY <2>1 DEF SubmitDiscovery, RecordStart, IInv, TypeOK, UsedInv
  <2>3. CASE r = runs + 1
    BY <2>1, <2>2, <2>3
       DEF SubmitDiscovery, RecordStart, SlotFor, IInv, TypeOK, OwnDict, NewRecord
  <2>4. CASE r # runs + 1
    <3>1. taskOf[r] \in JobTaskIds /\ taskOf[r] # id /\ taskOf'[r] = taskOf[r]
      BY <2>1, <2>2, <2>4 DEF SubmitDiscovery, RecordStart, IInv, TypeOK
    <3> QED BY <2>1, <2>2, <2>4, <3>1
            DEF SubmitDiscovery, RecordStart, SlotFor, IInv, TypeOK, OwnDict, JobInv
  <2> QED BY <2>3, <2>4
<1>2. CASE \E id \in SharedTaskIds : SubmitShared(id)
  <2>1. PICK id \in SharedTaskIds : SubmitShared(id)
    BY <1>2
  <2>2. runs + 1 \in Runs /\ r # runs + 1
    BY <2>1 DEF SubmitShared, RecordStart, IInv, TypeOK
  <2> QED BY <2>1, <2>2
          DEF SubmitShared, RecordStart, SlotFor, IInv, TypeOK, OwnDict, JobInv
<1>3. CASE \E q \in Runs, o \in Outcomes : ThreadStart(q) \/ ThreadRefused(q) \/ Body(q, o)
  BY <1>3 DEF ThreadStart, ThreadRefused, Body, registry, IInv, TypeOK, OwnDict, JobInv
<1>4. CASE \E q \in Runs : RecordStatus(q) \/ RecordTime(q) \/ RecordValue(q)
  <2>1. PICK q \in Runs : RecordStatus(q) \/ RecordTime(q) \/ RecordValue(q)
    BY <1>4
  <2>2. UNCHANGED <<tasks, taskOf, outcome>> /\ taskOf[r] \in JobTaskIds
    BY <2>1 DEF RecordStatus, RecordTime, RecordValue, registry
  <2>3. /\ Lookup(q) \in Runs
        /\ taskOf[Lookup(q)] = taskOf[q]
    <3>1. Lookup(q) # NoRun /\ pc[q] # "unused"
      BY <2>1 DEF RecordStatus, RecordTime, RecordValue, IInv, LockInv, Lookup
    <3> QED BY <3>1, LookupNewer
  <2>4. CASE q # r
    <3>1. Lookup(q) # r
      BY <2>2, <2>3, <2>4 DEF JobInv
    <3>2. rec'[r] = rec[r] /\ pc'[r] = pc[r]
      BY <2>1, <2>3, <2>4, <3>1 DEF RecordStatus, RecordTime, RecordValue, IInv, TypeOK
    <3> QED BY <2>2, <3>2 DEF OwnDict, JobInv
  <2>5. CASE q = r
    <3>1. Lookup(r) = r /\ pc[r] # "finished"
      BY <2>1, <2>2, <2>5 DEF RecordStatus, RecordTime, RecordValue, Lookup, JobInv
    <3>2. rec[r] = OwnDict(r) /\ outcome[r] \in Outcomes
      BY <2>1, <2>2, <2>5 DEF JobInv, RecordStatus, RecordTime, RecordValue, IInv, OutcomeInv
    <3>3. rec'[r] = OwnDict(r)'
      <4>1. CASE RecordStatus(r)
        <5>1. /\ rec'[r] = SetStatus(OwnDict(r), r)
              /\ pc'[r] = "stamping"
              /\ pc[r] = "ended"
          BY <3>1, <3>2, <4>1 DEF RecordStatus, IInv, TypeOK
        <5> QED BY <2>2, <3>2, <5>1 DEF SetStatus, OwnDict
      <4>2. CASE RecordTime(r)
        <5>1. /\ rec'[r] = SetTime(OwnDict(r), r)
              /\ pc'[r] = "storing"
              /\ pc[r] = "stamping"
          BY <3>1, <3>2, <4>2 DEF RecordTime, IInv, TypeOK
        <5> QED BY <2>2, <3>2, <5>1 DEF SetTime, OwnDict
      <4>3. CASE RecordValue(r)
        <5>1. /\ rec'[r] = SetValue(OwnDict(r), r)
              /\ pc'[r] = "finished"
              /\ pc[r] = "storing"
          BY <3>1, <3>2, <4>3 DEF RecordValue, IInv, TypeOK
        <5> QED BY <2>2, <3>2, <5>1 DEF SetValue, OwnDict
      <4> QED BY <2>1, <2>5, <4>1, <4>2, <4>3
    <3> QED BY <2>2, <3>1, <3>3 DEF JobInv
  <2> QED BY <2>4, <2>5
<1>5. CASE \E q \in Runs : RecordNothing(q)
  BY <1>5 DEF RecordNothing, registry, polling, Lookup, IInv, TypeOK, OwnDict, JobInv
<1>6. CASE \E cutoff \in 2 .. MaxRuns + 1 : Cleanup(cutoff)
  <2>1. PICK cutoff \in 2 .. MaxRuns + 1 : Cleanup(cutoff)
    BY <1>6
  <2>2. UNCHANGED <<rec, taskOf, pc, outcome>> /\ taskOf[r] \in JobTaskIds /\ lock = NoRun
    BY <2>1 DEF Cleanup, threads
  <2>3. pc[r] \notin {"stamping", "storing"}
    BY <2>2 DEF IInv, LockInv
  <2>4. pc[r] # "finished" => ~ Removable(r, cutoff)
    <3>1. rec[r] = OwnDict(r)
      BY <2>2 DEF JobInv
    <3>2. rec[r].status = IF pc[r] \in Recorded THEN outcome[r] ELSE "running"
      BY <3>1 DEF OwnDict
    <3> QED BY <2>3, <3>2 DEF Removable
  <2>5. pc[r] # "finished" => tasks'[taskOf[r]] = r
    BY <2>1, <2>2, <2>4 DEF Cleanup, JobInv
  <2> QED BY <2>2, <2>5 DEF JobInv, OwnDict
<1>7. CASE UNCHANGED <<tasks, rec, runs, taskOf, pc, outcome, lock>>
  BY <1>7 DEF OwnDict, JobInv
<1> QED
  BY <1>1, <1>2, <1>3, <1>4, <1>5, <1>6, <1>7
     DEF Next, Record, Poll, GetTask, ListTasks, FilterOne, FilterDone, Encode, Respond,
         registry, threads, vars

\* The record of a discovery task reads finished exactly when its own run has
\* recorded, with that run's outcome and either a result or an error.
THEOREM JobRecordExactHolds == Spec => []JobRecordExact
<1>1. Init => JobInv
  BY DEF Init, JobInv
<1>2. IInv /\ JobInv => JobRecordExact
  <2> SUFFICES ASSUME IInv, JobInv, NEW r \in Runs, taskOf[r] \in JobTaskIds
               PROVE  /\ rec[r].status \in Outcomes =>
                           pc[r] \in Recorded /\ rec[r].status = outcome[r]
                      /\ pc[r] = "finished" =>
                           /\ rec[r].status = outcome[r]
                           /\ rec[r].completed_at = r
                           /\ rec[r].result = IF outcome[r] = "completed" THEN r ELSE NoRun
                           /\ rec[r].error = IF outcome[r] = "failed" THEN r ELSE NoRun
    BY DEF JobRecordExact
  <2>1. rec[r] = OwnDict(r)
    BY DEF JobInv
  <2>2. /\ rec[r].status = IF pc[r] \in Recorded THEN outcome[r] ELSE "running"
        /\ rec[r].completed_at = IF pc[r] \in {"storing", "finished"} THEN r ELSE NoRun
        /\ rec[r].result = IF pc[r] = "finished" /\ outcome[r] = "completed" THEN r ELSE NoRun
        /\ rec[r].error = IF pc[r] = "finished" /\ outcome[r] = "failed" THEN r ELSE NoRun
    BY <2>1 DEF OwnDict
  <2> QED BY <2>2
<1> QED BY <1>1, <1>2, StepJobInv, Invariance, PTL DEF Spec

=============================================================================
