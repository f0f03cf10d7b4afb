------------------------- MODULE AgentRegistryProofs -------------------------
(***************************************************************************)
(* Theorems about the agents table, for any callers, names and ids.  The   *)
(* table has no uniqueness constraint; what bounds the duplicates is that  *)
(* a handler about to INSERT has seen no row of its name, hence none that  *)
(* its own caller inserted (PendingInv), and that a row carries the name   *)
(* of the caller that inserted it (RowNameInv).                            *)
(***************************************************************************)
EXTENDS AgentRegistry, TLAPS

RowNameInv == \A i \in DOMAIN row : row[i].name = NameOf[row[i].by]

PendingInv ==
    \A c \in Callers : sess[c].stage = "insert" =>
        sess[c].op = "register" /\ \A i \in rows : row[i].by # c

FoundInv == \A c \in Callers : sess[c].stage = "found" => sess[c].op = "telemetry"

RegInv == RegTypeOK /\ RowNameInv /\ PendingInv /\ FoundInv /\ OneRowPerCaller /\ RegisterOwnName

USE NameAssumption, IdAssumption DEF Ops, Busy, Ended

-----------------------------------------------------------------------------
(* Three facts about the updates the actions are made of.                  *)

\* A handler that only moves on keeps the type of the sessions.
LEMMA StageType ==
    ASSUME RegTypeOK, NEW c \in Callers, NEW stage \in Busy \cup Ended \cup {"idle"},
           Stage(c, stage)
    PROVE  sess' \in [Callers -> Session]
  BY DEF RegTypeOK, Session, Stage

LEMMA RefreshedType ==
    ASSUME NEW r \in Row, NEW seen
    PROVE  /\ Refreshed(r, seen) \in Row
           /\ Refreshed(r, seen).name = r.name
           /\ Refreshed(r, seen).by = r.by
  BY DEF Refreshed, StatusWritten, Row

LEMMA NewRowType ==
    ASSUME NEW c \in Callers
    PROVE  NewRow(c) \in Row /\ NewRow(c).name = NameOf[c] /\ NewRow(c).by = c
  BY DEF NewRow, Row

-----------------------------------------------------------------------------
(* The invariant, action by action.                                        *)

LEMMA RegInitInv == RegInit => RegInv
  BY DEF RegInit, RegInv, RegTypeOK, RowNameInv, PendingInv, FoundInv, OneRowPerCaller, RegisterOwnName,
         Session, Free

\* Steps that write the table but not the sessions: rows may disappear, age or
\* change status, and keep their name and their caller.
LEMMA TableStep ==
    ASSUME RegInv, rows' \subseteq rows, DOMAIN row' = DOMAIN row, row' \in [DOMAIN row -> Row],
           \A i \in DOMAIN row : row'[i].name = row[i].name /\ row'[i].by = row[i].by,
           scan' \subseteq DOMAIN row, UNCHANGED sess
    PROVE  RegInv'
  BY DEF RegInv, RegTypeOK, RowNameInv, PendingInv, FoundInv, OneRowPerCaller, RegisterOwnName

\* Steps that write only the session of one caller.
LEMMA SessionStep ==
    ASSUME RegInv, NEW c \in Callers, NEW s \in Session, sess' = [sess EXCEPT ![c] = s],
           UNCHANGED <<rows, row, scan>>,
           s.stage = "insert" => s.op = "register" /\ \A i \in rows : row[i].by # c,
           s.stage = "found" => s.op = "telemetry",
           s.op = "register" /\ s.stage \in {"loaded", "committed", "ok"} =>
               s.id \in DOMAIN row /\ row[s.id].name = NameOf[c]
    PROVE  RegInv'
<1>1. RegTypeOK'
  BY DEF RegInv, RegTypeOK
<1>2. \A d \in Callers : sess'[d] = IF d = c THEN s ELSE sess[d]
  BY DEF RegInv, RegTypeOK
<1>3. PendingInv' /\ FoundInv' /\ RegisterOwnName'
  BY <1>2 DEF RegInv, PendingInv, FoundInv, RegisterOwnName
<1>4. RowNameInv' /\ OneRowPerCaller'
  BY DEF RegInv, RowNameInv, OneRowPerCaller
<1> QED BY <1>1, <1>3, <1>4 DEF RegInv

LEMMA RequestInv ==
    ASSUME RegInv, NEW c \in Callers, NEW op \in Ops, NEW i \in Ids \cup {NoId}, Request(c, op, i)
    PROVE  RegInv'
<1> DEFINE s == [Free EXCEPT !.stage = "begin", !.op = op, !.id = i]
<1>1. s \in Session /\ s.stage = "begin"
  BY DEF Session, Free
<1>2. sess' = [sess EXCEPT ![c] = s] /\ UNCHANGED <<rows, row, scan>>
  BY DEF Request, table
<1> HIDE DEF s
<1> QED BY <1>1, <1>2, SessionStep

LEMMA ReleaseInv ==
    ASSUME RegInv, NEW c \in Callers, Release(c)
    PROVE  RegInv'
<1>1. Free \in Session /\ Free.stage = "idle"
  BY DEF Session, Free
<1> QED BY <1>1, SessionStep DEF Release, table

LEMMA HandlerFailsInv ==
    ASSUME RegInv, NEW c \in Callers, HandlerFails(c)
    PROVE  RegInv'
<1> DEFINE s == [sess[c] EXCEPT !.stage = "error"]
<1>1. s \in Session /\ s.stage = "error"
  BY DEF Session, RegInv, RegTypeOK
<1>2. sess' = [sess EXCEPT ![c] = s] /\ UNCHANGED <<rows, row, scan>>
  BY DEF HandlerFails, Stage, table
<1> HIDE DEF s
<1> QED BY <1>1, <1>2, SessionStep

LEMMA RegisterSelectInv ==
    ASSUME RegInv, NEW c \in Callers, RegisterSelect(c)
    PROVE  RegInv'
<1>1. sess[c] \in Session /\ sess[c].op = "register" /\ UNCHANGED <<rows, row, scan>>
  BY DEF RegisterSelect, table, RegInv, RegTypeOK
<1>2. CASE \E i \in Matching(NameOf[c]) :
             sess' = [sess EXCEPT ![c].stage = "loaded", ![c].id = i, ![c].seen = row[i].status]
  <2>1. PICK i \in Matching(NameOf[c]) :
             sess' = [sess EXCEPT ![c].stage = "loaded", ![c].id = i, ![c].seen = row[i].status]
    BY <1>2
  <2> DEFINE s == [sess[c] EXCEPT !.stage = "loaded", !.id = i, !.seen = row[i].status]
  <2>2. i \in DOMAIN row /\ i \in Ids /\ row[i].name = NameOf[c] /\ row[i] \in Row
    BY <2>1 DEF Matching, Named, RegInv, RegTypeOK
  <2>3. s \in Session /\ s.stage = "loaded" /\ s.id = i
    BY <1>1, <2>2 DEF Session, Row
  <2>4. sess' = [sess EXCEPT ![c] = s]
    BY <2>1 DEF RegInv, RegTypeOK
  <2> HIDE DEF s
  <2> QED BY <1>1, <2>2, <2>3, <2>4, SessionStep
<1>3. CASE Matching(NameOf[c]) = {} /\ Stage(c, "insert")
  <2> DEFINE s == [sess[c] EXCEPT !.stage = "insert"]
  <2>1. s \in Session /\ s.stage = "insert" /\ s.op = "register"
    BY <1>1 DEF Session
  <2>2. sess' = [sess EXCEPT ![c] = s]
    BY <1>3 DEF Stage
  <2>3. \A i \in rows : row[i].by # c
    BY <1>3 DEF Matching, Named, RegInv, RegTypeOK, RowNameInv
  <2> HIDE DEF s
  <2> QED BY <1>1, <2>1, <2>2, <2>3, SessionStep
<1> QED BY <1>2, <1>3 DEF RegisterSelect

\* A step of a heartbeat or telemetry handler to a stage without obligations.
LEMMA ByIdStep ==
    ASSUME RegInv, NEW c \in Callers, NEW op \in {"heartbeat", "telemetry"}, sess[c].op = op,
           NEW stage \in {"loaded", "found", "notfound", "ok"},
           NEW seen \in {"active", "stale", "none"}, stage = "found" => op = "telemetry",
           sess' = [sess EXCEPT ![c].stage = stage, ![c].seen = seen],
           UNCHANGED <<rows, row, scan>>
    PROVE  RegInv'
<1> DEFINE s == [sess[c] EXCEPT !.stage = stage, !.seen = seen]
<1>1. s \in Session /\ s.op = op /\ s.stage = stage
  BY DEF Session, RegInv, RegTypeOK
<1>2. sess' = [sess EXCEPT ![c] = s]
  BY DEF RegInv, RegTypeOK
<1> HIDE DEF s
<1> QED BY <1>1, <1>2, SessionStep

\* The same of a step that sets only the stage.
LEMMA ByIdStage ==
    ASSUME RegInv, NEW c \in Callers, NEW op \in {"heartbeat", "telemetry"}, sess[c].op = op,
           NEW stage \in {"loaded", "notfound", "ok"}, Stage(c, stage),
           UNCHANGED <<rows, row, scan>>
    PROVE  RegInv'
<1> DEFINE s == [sess[c] EXCEPT !.stage = stage]
<1>1. s \in Session /\ s.op = op /\ s.stage = stage
  BY DEF Session, RegInv, RegTypeOK
<1>2. sess' = [sess EXCEPT ![c] = s]
  BY DEF Stage, RegInv, RegTypeOK
<1> HIDE DEF s
<1> QED BY <1>1, <1>2, SessionStep

LEMMA RowStatus ==
    ASSUME RegInv, NEW i \in rows
    PROVE  row[i] \in Row /\ row[i].status \in {"active", "stale"}
  BY DEF RegInv, RegTypeOK, Row

LEMMA HeartbeatSelectInv ==
    ASSUME RegInv, NEW c \in Callers, HeartbeatSelect(c)
    PROVE  RegInv'
<1>1. CASE sess[c].id \in rows
  BY <1>1, RowStatus, ByIdStep DEF HeartbeatSelect, table
<1>2. CASE sess[c].id \notin rows
  BY <1>2, ByIdStage DEF HeartbeatSelect, table
<1> QED BY <1>1, <1>2

LEMMA TelemetrySelectInv ==
    ASSUME RegInv, NEW c \in Callers, TelemetrySelect(c)
    PROVE  RegInv'
<1>1. CASE sess[c].id \in rows
  BY <1>1, RowStatus, ByIdStep DEF TelemetrySelect, table
<1>2. CASE sess[c].id \notin rows
  BY <1>2, ByIdStage DEF TelemetrySelect, table
<1> QED BY <1>1, <1>2

LEMMA TelemetryIngestInv ==
    ASSUME RegInv, NEW c \in Callers, TelemetryIngest(c)
    PROVE  RegInv'
<1>1. sess[c].op = "telemetry" /\ UNCHANGED <<rows, row, scan>>
  BY DEF TelemetryIngest, table, RegInv, FoundInv
<1>2. CASE Stage(c, "loaded") \/ Stage(c, "ok")
  BY <1>1, <1>2, ByIdStage
<1>3. CASE /\ sess[c].id \in rows
           /\ sess' = [sess EXCEPT ![c].stage = "loaded", ![c].seen = row[sess[c].id].status]
  BY <1>1, <1>3, RowStatus, ByIdStep
<1> QED BY <1>2, <1>3 DEF TelemetryIngest

LEMMA InsertInv ==
    ASSUME RegInv, NEW c \in Callers, Insert(c)
    PROVE  RegInv'
<1> DEFINE i == NewId
<1>0. i \in Ids \ DOMAIN row
  BY DEF NewId, Insert
<1>1. /\ i \in Ids \ DOMAIN row
      /\ rows' = rows \cup {i}
      /\ row' = [j \in DOMAIN row \cup {i} |-> IF j = i THEN NewRow(c) ELSE row[j]]
      /\ sess' = [sess EXCEPT ![c].stage = "committed", ![c].id = i]
  BY <1>0 DEF Insert
<1> HIDE DEF i
<1>2. /\ sess[c] \in Session /\ sess[c].op = "register" /\ i \notin rows
      /\ \A j \in rows : row[j].by # c
  BY <1>1 DEF Insert, RegInv, RegTypeOK, PendingInv
<1>3. DOMAIN row' = DOMAIN row \cup {i} /\ row'[i] = NewRow(c)
      /\ \A j \in DOMAIN row : row'[j] = row[j]
  BY <1>1
<1> DEFINE s == [sess[c] EXCEPT !.stage = "committed", !.id = i]
<1>4. s \in Session /\ s.stage = "committed" /\ s.id = i
  BY <1>1, <1>2 DEF Session
<1>5. /\ sess' = [sess EXCEPT ![c] = s]
      /\ \A d \in Callers : sess'[d] = IF d = c THEN s ELSE sess[d]
  BY <1>1 DEF RegInv, RegTypeOK
<1> HIDE DEF s
<1>6. RegTypeOK'
  <2>1. \A j \in DOMAIN row' : row'[j] \in Row
    BY <1>3, NewRowType DEF RegInv, RegTypeOK
  <2>2. row' = [j \in DOMAIN row' |-> row'[j]]
    BY <1>1
  <2>3. row' \in [DOMAIN row' -> Row]
    BY <2>1, <2>2
  <2> QED BY <1>1, <1>3, <1>4, <1>5, <2>3 DEF Insert, RegInv, RegTypeOK
<1>7. RowNameInv'
  BY <1>3, NewRowType DEF RegInv, RowNameInv
<1>8. PendingInv' /\ FoundInv'
  BY <1>1, <1>3, <1>4, <1>5, NewRowType DEF RegInv, RegTypeOK, PendingInv, FoundInv
<1>9. OneRowPerCaller'
  BY <1>1, <1>2, <1>3, NewRowType DEF RegInv, RegTypeOK, OneRowPerCaller
<1>10. RegisterOwnName'
  BY <1>1, <1>3, <1>4, <1>5, NewRowType DEF RegInv, RegTypeOK, RegisterOwnName
<1> QED BY <1>6, <1>7, <1>8, <1>9, <1>10 DEF RegInv

\* A handler that keeps its row's id may move to "committed", "ok" or "error",
\* refreshing a row or not.
LEMMA AnswerStep ==
    ASSUME RegInv, NEW c \in Callers, sess[c].stage \in {"loaded", "committed"},
           NEW stage \in {"committed", "ok", "error"}, NEW seen \in {"active", "stale", "none"},
           Answer(c, stage, seen),
           DOMAIN row' = DOMAIN row, row' \in [DOMAIN row -> Row],
           \A i \in DOMAIN row : row'[i].name = row[i].name /\ row'[i].by = row[i].by,
           UNCHANGED <<rows, scan>>
    PROVE  RegInv'
<1> DEFINE s == [sess[c] EXCEPT !.stage = stage, !.seen = seen]
<1>1. s \in Session /\ s.op = sess[c].op /\ s.id = sess[c].id /\ s.stage = stage
  BY DEF Session, RegInv, RegTypeOK
<1>2. /\ sess' = [sess EXCEPT ![c] = s]
      /\ \A d \in Callers : sess'[d] = IF d = c THEN s ELSE sess[d]
  BY DEF Answer, RegInv, RegTypeOK
<1> HIDE DEF s
<1>3. RegTypeOK'
  BY <1>1, <1>2 DEF RegInv, RegTypeOK
<1>4. RowNameInv' /\ PendingInv' /\ FoundInv' /\ OneRowPerCaller' /\ RegisterOwnName'
  BY <1>1, <1>2
     DEF RegInv, RegTypeOK, RowNameInv, PendingInv, FoundInv, OneRowPerCaller, RegisterOwnName
<1> QED BY <1>3, <1>4 DEF RegInv

LEMMA UpdateInv ==
    ASSUME RegInv, NEW c \in Callers, Update(c)
    PROVE  RegInv'
<1>1. sess[c].stage = "loaded" /\ UNCHANGED <<rows, scan>>
  BY DEF Update
<1>2. CASE sess[c].id \in rows
  <2>1. row' = [row EXCEPT ![sess[c].id] = Refreshed(@, sess[c].seen)]
    BY <1>2 DEF Update
  <2>2. row[sess[c].id] \in Row
    BY <1>2, RowStatus
  <2>3. /\ DOMAIN row' = DOMAIN row /\ row' \in [DOMAIN row -> Row]
        /\ \A i \in DOMAIN row : row'[i].name = row[i].name /\ row'[i].by = row[i].by
    BY <1>2, <2>1, <2>2, RefreshedType DEF RegInv, RegTypeOK
  <2>4. \E stage \in {"committed", "ok", "error"} : Answer(c, stage, "none")
    BY <1>2 DEF Update
  <2> QED BY <1>1, <2>3, <2>4, AnswerStep
<1>3. CASE sess[c].id \notin rows
  BY <1>1, <1>3, AnswerStep DEF Update, RegInv, RegTypeOK
<1> QED BY <1>2, <1>3

LEMMA ReplyInv ==
    ASSUME RegInv, NEW c \in Callers, Reply(c)
    PROVE  RegInv'
<1>1. sess[c].stage = "committed" /\ UNCHANGED <<rows, row, scan>>
  BY DEF Reply, table
<1>2. DOMAIN row' = DOMAIN row /\ row' \in [DOMAIN row -> Row]
  BY <1>1 DEF RegInv, RegTypeOK
<1>3. CASE sess[c].id \in rows
  <2>1. row[sess[c].id].status \in {"active", "stale"}
    BY <1>3, RowStatus
  <2> QED BY <1>1, <1>2, <1>3, <2>1, AnswerStep DEF Reply
<1>4. CASE sess[c].id \notin rows
  BY <1>1, <1>2, <1>4, AnswerStep DEF Reply
<1> QED BY <1>3, <1>4

LEMMA EnvironmentInv ==
    ASSUME RegInv, Environment
    PROVE  RegInv'
<1>1. CASE \E i \in Ids : Age(i)
  <2>1. PICK i \in Ids : Age(i)
    BY <1>1
  <2>2. row[i] \in Row /\ i \in DOMAIN row
    BY <2>1 DEF Age, RegInv, RegTypeOK
  <2>3. [row[i] EXCEPT !.fresh = FALSE] \in Row
    BY <2>2 DEF Row
  <2>4. /\ DOMAIN row' = DOMAIN row /\ row' \in [DOMAIN row -> Row]
        /\ \A j \in DOMAIN row : row'[j].name = row[j].name /\ row'[j].by = row[j].by
    BY <2>1, <2>2, <2>3 DEF Age, Row, RegInv, RegTypeOK
  <2> QED BY <2>1, <2>4, TableStep DEF Age, RegInv, RegTypeOK
<1>2. CASE HealthFind
  BY <1>2, TableStep DEF HealthFind, Silent, table, RegInv, RegTypeOK
<1>3. CASE HealthMark
  <2>1. \A i \in DOMAIN row : [row[i] EXCEPT !.status = "stale"] \in Row
    BY DEF Row, RegInv, RegTypeOK
  <2>2. /\ DOMAIN row' = DOMAIN row /\ row' \in [DOMAIN row -> Row]
        /\ \A j \in DOMAIN row : row'[j].name = row[j].name /\ row'[j].by = row[j].by
    BY <1>3, <2>1 DEF HealthMark, Row, RegInv, RegTypeOK
  <2> QED BY <1>3, <2>2, TableStep DEF HealthMark
<1>4. CASE HealthFails
  BY <1>4, TableStep DEF HealthFails, table, RegInv, RegTypeOK
<1>5. CASE Forget
  <2>1. \A i \in DOMAIN row : [row[i] EXCEPT !.status = "stale", !.fresh = FALSE] \in Row
    BY DEF Row, RegInv, RegTypeOK
  <2>2. /\ DOMAIN row' = DOMAIN row /\ row' \in [DOMAIN row -> Row]
        /\ \A j \in DOMAIN row : row'[j].name = row[j].name /\ row'[j].by = row[j].by
    BY <1>5, <2>1 DEF Forget, Row, RegInv, RegTypeOK
  <2> QED BY <1>5, <2>2, TableStep DEF Forget, RegInv, RegTypeOK
<1> QED BY <1>1, <1>2, <1>3, <1>4, <1>5 DEF Environment

LEMMA RegStepInv == RegInv /\ [RegNext]_regVars => RegInv'
<1> SUFFICES ASSUME RegInv, [RegNext]_regVars PROVE RegInv'
  OBVIOUS
<1>1. CASE \E c \in Callers, op \in Ops, i \in Ids \cup {NoId} : Request(c, op, i)
  BY <1>1, RequestInv
<1>2. CASE \E c \in Callers : Handle(c)
  BY <1>2, RegisterSelectInv, InsertInv, HeartbeatSelectInv, TelemetrySelectInv,
     TelemetryIngestInv, UpdateInv, ReplyInv DEF Handle
<1>3. CASE \E c \in Callers : HandlerFails(c) \/ Release(c)
  BY <1>3, HandlerFailsInv, ReleaseInv
<1>4. CASE Environment
  BY <1>4, EnvironmentInv
<1>5. CASE UNCHANGED regVars
  BY <1>5 DEF regVars, RegInv, RegTypeOK, RowNameInv, PendingInv, FoundInv, OneRowPerCaller,
              RegisterOwnName
<1> QED BY <1>1, <1>2, <1>3, <1>4, <1>5 DEF RegNext

THEOREM RegInvariance == RegSpec => []RegInv
  BY RegInitInv, RegStepInv, PTL DEF RegSpec

\* The table and the handlers keep their types.
THEOREM RegTypeCorrect == RegSpec => []RegTypeOK
  BY RegInvariance, PTL DEF RegInv

\* Two rows of one name were inserted by different callers, although nothing
\* in the schema says so: duplicates come only from overlapping requests.
THEOREM DuplicatesOnlyByOverlap == RegSpec => []OneRowPerCaller
  BY RegInvariance, PTL DEF RegInv

\* A registration is answered with a row of the agent's own name.
THEOREM RegistersOwnName == RegSpec => []RegisterOwnName
  BY RegInvariance, PTL DEF RegInv

=============================================================================
