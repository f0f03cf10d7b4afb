---------------------------- MODULE AgentRegistry ----------------------------
(***************************************************************************)
(* The agents table and the handlers that write it: register, heartbeat    *)
(* and telemetry (app/api/agents.py, app/repositories/agent_repo.py) and   *)
(* the scheduler's health check (app/tasks/scheduler.py:119-131).          *)
(*                                                                         *)
(* Every handler runs in a database session of its own: it SELECTs what is *)
(* committed, works on the loaded object, and its commit writes only the   *)
(* columns whose value it changed.  So each handler is a read step and a   *)
(* write step, with everybody else's commits between them.                 *)
(*                                                                         *)
(* last_heartbeat is abstracted to whether it is younger than the timeout; *)
(* rows age at any moment.                                                 *)
(***************************************************************************)
EXTENDS Naturals

CONSTANTS
    Callers,   \* one per request a client can have at the server at a time
    Names,     \* agent names (with their type)
    NameOf,    \* the name in each caller's register requests
    Ids,       \* the uuids the server may give out
    NoId

ASSUME NameAssumption == NameOf \in [Callers -> Names]
ASSUME IdAssumption == NoId \notin Ids

VARIABLES
    rows,      \* ids of the rows in the table
    row,       \* contents of every row ever inserted
    sess,      \* the handler serving each caller
    scan       \* rows the health check has found and not yet marked

table   == <<rows, row>>
regVars == <<rows, row, sess, scan>>

\* by is a ghost: the caller whose INSERT made the row.
Row == [name: Names, status: {"active", "stale"}, fresh: BOOLEAN, by: Callers]

Ops   == {"register", "heartbeat", "telemetry"}
Busy  == {"begin", "found", "loaded", "insert", "committed"}
Ended == {"ok", "notfound", "error"}

\* seen is the status the handler loaded, and in a reply the one it reports.
Session == [stage: Busy \cup Ended \cup {"idle"}, op: Ops, id: Ids \cup {NoId},
            seen: {"active", "stale", "none"}]

Free == [stage |-> "idle", op |-> "register", id |-> NoId, seen |-> "none"]

RegInit ==
    /\ rows = {}
    /\ row = [i \in {} |-> Free]
    /\ sess = [c \in Callers |-> Free]
    /\ scan = {}

Stage(c, stage) == sess' = [sess EXCEPT ![c].stage = stage]

-----------------------------------------------------------------------------
(* A request arrives; a finished handler's slot becomes free.              *)

Request(c, op, i) ==
    /\ sess[c].stage = "idle"
    /\ sess' = [sess EXCEPT ![c] = [Free EXCEPT !.stage = "begin", !.op = op, !.id = i]]
    /\ UNCHANGED <<table, scan>>

Release(c) ==
    /\ sess[c].stage \in Ended
    /\ sess' = [sess EXCEPT ![c] = Free]
    /\ UNCHANGED <<table, scan>>

\* An exception anywhere in the handler (the database, the payload): the
\* session is rolled back and the caller gets an error.
HandlerFails(c) ==
    /\ sess[c].stage \in Busy
    /\ Stage(c, "error")
    /\ UNCHANGED <<table, scan>>

-----------------------------------------------------------------------------
(* register: the first row with the name is refreshed, or one is inserted. *)

Named(n) == {i \in rows : row[i].name = n}

\* Faulty: only an active row counts as the same agent.
NamedActive(n) == {i \in rows : row[i].name = n /\ row[i].status = "active"}

\* Faulty: any row will do.
AnyRow(n) == rows

Matching(n) == Named(n)

RegisterSelect(c) ==
    /\ sess[c].stage = "begin"
    /\ sess[c].op = "register"
    /\ \/ \E i \in Matching(NameOf[c]) :
            sess' = [sess EXCEPT ![c].stage = "loaded", ![c].id = i,
                                 ![c].seen = row[i].status]
       \/ /\ Matching(NameOf[c]) = {}
          /\ Stage(c, "insert")
    /\ UNCHANGED <<table, scan>>

\* Faulty: the status is left to the default of the column.
DefaultRow(c) == [name |-> NameOf[c], status |-> "offline", fresh |-> TRUE, by |-> c]

NewRow(c) == [name |-> NameOf[c], status |-> "active", fresh |-> TRUE, by |-> c]

\* A uuid is never given out twice; which one it is makes no difference.
NewId == CHOOSE i \in Ids : i \notin DOMAIN row

Insert(c) ==
    /\ sess[c].stage = "insert"
    /\ Ids \ DOMAIN row # {}
    /\ rows' = rows \cup {NewId}
    /\ row' = [j \in DOMAIN row \cup {NewId} |-> IF j = NewId THEN NewRow(c) ELSE row[j]]
    /\ sess' = [sess EXCEPT ![c].stage = "committed", ![c].id = NewId]
    /\ UNCHANGED scan

-----------------------------------------------------------------------------
(* heartbeat and telemetry address a row by id.                            *)

HeartbeatSelect(c) ==
    /\ sess[c].stage = "begin"
    /\ sess[c].op = "heartbeat"
    /\ IF sess[c].id \in rows
         THEN sess' = [sess EXCEPT ![c].stage = "loaded", ![c].seen = row[sess[c].id].status]
         ELSE Stage(c, "notfound")
    /\ UNCHANGED <<table, scan>>

TelemetrySelect(c) ==
    /\ sess[c].stage = "begin"
    /\ sess[c].op = "telemetry"
    /\ IF sess[c].id \in rows
         THEN sess' = [sess EXCEPT ![c].stage = "found", ![c].seen = row[sess[c].id].status]
         ELSE Stage(c, "notfound")
    /\ UNCHANGED <<table, scan>>

\* Ingesting commits, which expires the loaded agent: the heartbeat that
\* follows reads it again, and does nothing when it is gone.  A payload of
\* which nothing was stored commits nothing and the first read stands.
TelemetryIngest(c) ==
    /\ sess[c].stage = "found"
    /\ \/ Stage(c, "loaded")
       \/ /\ sess[c].id \in rows
          /\ sess' = [sess EXCEPT ![c].stage = "loaded", ![c].seen = row[sess[c].id].status]
       \/ sess[c].id \notin rows /\ Stage(c, "ok")
    /\ UNCHANGED <<table, scan>>

\* Faulty: the heartbeat time is written, the status is not.
OnlyTime(status, seen) == status

\* The session writes status only when it differs from what it loaded.
StatusWritten(status, seen) == IF seen = "active" THEN status ELSE "active"

\* Faulty: the write does not renew last_heartbeat.
NotRefreshed(r, seen) == [r EXCEPT !.status = StatusWritten(r.status, seen)]

Refreshed(r, seen) == [r EXCEPT !.status = StatusWritten(r.status, seen), !.fresh = TRUE]

\* A commit expires what the session has loaded.
Answer(c, stage, seen) == sess' = [sess EXCEPT ![c].stage = stage, ![c].seen = seen]

\* The commit of register on a known name, of heartbeat, and of telemetry.
\* An UPDATE that matches no row is an error.
Update(c) ==
    /\ sess[c].stage = "loaded"
    /\ IF sess[c].id \in rows
         THEN /\ row' = [row EXCEPT ![sess[c].id] = Refreshed(@, sess[c].seen)]
              /\ Answer(c, IF sess[c].op = "telemetry" THEN "ok" ELSE "committed", "none")
         ELSE row' = row /\ Answer(c, "error", "none")
    /\ UNCHANGED <<rows, scan>>

\* to_dict reads the expired object again.
Reply(c) ==
    /\ sess[c].stage = "committed"
    /\ IF sess[c].id \in rows
         THEN Answer(c, "ok", row[sess[c].id].status)
         ELSE Answer(c, "error", "none")
    /\ UNCHANGED <<table, scan>>

Handle(c) ==
    \/ RegisterSelect(c)
    \/ Insert(c)
    \/ HeartbeatSelect(c)
    \/ TelemetrySelect(c)
    \/ TelemetryIngest(c)
    \/ Update(c)
    \/ Reply(c)

-----------------------------------------------------------------------------
(* Time and the health check (one instance at a time).  mark_stale gets    *)
(* the objects find_stale loaded and writes them without another look.     *)

Age(i) ==
    /\ i \in rows
    /\ row[i].fresh
    /\ row' = [row EXCEPT ![i].fresh = FALSE]
    /\ UNCHANGED <<rows, sess, scan>>

\* Faulty: the cutoff is compared the wrong way round.
Recent == {i \in rows : row[i].status = "active" /\ row[i].fresh}

Silent == {i \in rows : row[i].status = "active" /\ ~ row[i].fresh}

HealthFind ==
    /\ scan = {}
    /\ Silent # {}
    /\ scan' = Silent
    /\ UNCHANGED <<table, sess>>

HealthMark ==
    /\ scan # {}
    /\ row' = IF scan \subseteq rows
                THEN [i \in DOMAIN row |-> IF i \in scan THEN [row[i] EXCEPT !.status = "stale"]
                                                  ELSE row[i]]
                ELSE row
    /\ scan' = {}
    /\ UNCHANGED <<rows, sess>>

HealthFails ==
    /\ scan # {}
    /\ scan' = {}
    /\ UNCHANGED <<table, sess>>

\* The table is lost (a new database, a restored backup).
\* Of a lost row only the owner is remembered, for the properties.
Forget ==
    /\ rows # {}
    /\ rows' = {}
    /\ row' = [i \in DOMAIN row |-> [row[i] EXCEPT !.status = "stale", !.fresh = FALSE]]
    /\ UNCHANGED <<sess, scan>>

-----------------------------------------------------------------------------
Environment == (\E i \in Ids : Age(i)) \/ HealthFind \/ HealthMark \/ HealthFails \/ Forget

RegNext ==
    \/ \E c \in Callers, op \in Ops, i \in Ids \cup {NoId} : Request(c, op, i)
    \/ \E c \in Callers : Handle(c) \/ HandlerFails(c) \/ Release(c)
    \/ Environment

RegSpec == RegInit /\ [][RegNext]_regVars

-----------------------------------------------------------------------------
(* Properties *)

RegTypeOK ==
    /\ rows \subseteq DOMAIN row
    /\ DOMAIN row \subseteq Ids
    /\ row \in [DOMAIN row -> Row]
    /\ sess \in [Callers -> Session]
    /\ scan \subseteq DOMAIN row

\* The table has no uniqueness constraint: two callers may both find no row
\* and both insert.  Still no caller inserts twice while one of its rows is
\* there, so the rows of a name are bounded by the callers that overlapped,
\* however often an agent registers.
OneRowPerCaller ==
    \A i, j \in rows : row[i].name = row[j].name /\ row[i].by = row[j].by => i = j

\* A registration is answered with a row of the agent's own name, whatever
\* happens between the handler's read and its commit.
RegisterOwnName ==
    \A c \in Callers :
        sess[c].op = "register" /\ sess[c].stage \in {"loaded", "committed", "ok"} =>
            sess[c].id \in DOMAIN row /\ row[sess[c].id].name = NameOf[c]
=============================================================================
