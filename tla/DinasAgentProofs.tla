--------------------------- MODULE DinasAgentProofs ---------------------------
(***************************************************************************)
(* Theorems about the agent program and the agents table together, for     *)
(* any number of agents, processes, ids, faults and losses of the table.   *)
(*                                                                         *)
(* Every step of the two together is a step of the table with some client, *)
(* or leaves it alone (ImplementsRegistry), so what AgentRegistryProofs    *)
(* shows for arbitrary clients holds here.  The rest follows the id: what  *)
(* a process that is up holds, hence what a thread that is ready sends, is *)
(* an id given out under its own name (KnownInv, UsesOwnRow), and as long  *)
(* as the table is not lost such an id is in it (LossInv).                 *)
(***************************************************************************)
EXTENDS DinasAgent, AgentRegistryProofs

ClientTypeOK ==
    /\ proc \in [Agents -> {"off", "registering", "up", "exited", "killed"}]
    /\ starts \in [Agents -> Nat]
    /\ \A a \in Agents : starts[a] \in 0 .. MaxStarts[a]
    /\ agentId \in [Agents -> Ids \cup {NoId}]
    /\ thread \in [Agents -> [Threads -> ThreadStates]]
    /\ faults \in 0 .. MaxFaults
    /\ forgets \in 0 .. MaxForgets

\* A thread that runs is one of a process that was started; it is ready only
\* when the process is registered, and until then waits for nothing else.
ThreadInv ==
    \A a \in Agents : \A t \in Threads :
        /\ thread[a][t] # "none" => starts[a] >= 1
        /\ thread[a][t] = "ready" => proc[a] = "up"
        /\ thread[a][t] = "waiting" /\ proc[a] # "up" => sess[Me(a, t)].op = "register"

Owned(a, i) == i \in DOMAIN row /\ row[i].name = a

\* A process that is up holds an id given out under its name.
KnownInv == \A a \in Agents : proc[a] = "up" => Owned(a, agentId[a])

\* Before the first loss every row ever inserted is in the table.
LossInv == forgets = 0 => rows = DOMAIN row

AgentInv ==
    /\ RegInv
    /\ ClientTypeOK
    /\ ThreadInv
    /\ KnownInv
    /\ UsesOwnRow
    /\ LossInv
    /\ NotFoundOnlyAfterLoss

-----------------------------------------------------------------------------
(* What the clients may rely on of the table.                              *)

\* A row keeps its name for as long as its id is remembered.
LEMMA NamesStay ==
    ASSUME RegInv, [RegNext]_regVars
    PROVE  \A i \in DOMAIN row : i \in DOMAIN row' /\ row'[i].name = row[i].name
<1>1. CASE \E c \in Callers, op \in Ops, i \in Ids \cup {NoId} : Request(c, op, i)
  BY <1>1 DEF Request, table
<1>2. CASE \E c \in Callers : HandlerFails(c) \/ Release(c)
  BY <1>2 DEF HandlerFails, Release, table
<1>3. ASSUME NEW c \in Callers, Insert(c)
      PROVE  \A i \in DOMAIN row : i \in DOMAIN row' /\ row'[i].name = row[i].name
  <2>1. NewId \notin DOMAIN row
    BY <1>3 DEF Insert, NewId
  <2> QED BY <1>3, <2>1 DEF Insert
<1>4. ASSUME NEW c \in Callers, Update(c)
      PROVE  \A i \in DOMAIN row : i \in DOMAIN row' /\ row'[i].name = row[i].name
  BY <1>4, RefreshedType DEF Update, RegInv, RegTypeOK
<1>5. ASSUME NEW c \in Callers, RegisterSelect(c) \/ HeartbeatSelect(c) \/ TelemetrySelect(c)
                                  \/ TelemetryIngest(c) \/ Reply(c)
      PROVE  \A i \in DOMAIN row : i \in DOMAIN row' /\ row'[i].name = row[i].name
  BY <1>5 DEF RegisterSelect, HeartbeatSelect, TelemetrySelect, TelemetryIngest, Reply, table
<1>6. CASE Environment
  <2>1. CASE \E i \in Ids : Age(i)
    BY <2>1 DEF Age, RegInv, RegTypeOK, Row
  <2>2. CASE HealthFind \/ HealthFails
    BY <2>2 DEF HealthFind, HealthFails, table
  <2>3. CASE HealthMark
    BY <2>3 DEF HealthMark, RegInv, RegTypeOK, Row
  <2>4. CASE Forget
    BY <2>4 DEF Forget, RegInv, RegTypeOK, Row
  <2> QED BY <1>6, <2>1, <2>2, <2>3, <2>4 DEF Environment
<1>7. CASE UNCHANGED regVars
  BY <1>7 DEF regVars
<1>8. CASE RegNext
  BY <1>1, <1>2, <1>3, <1>4, <1>5, <1>6, <1>8 DEF RegNext, Handle
<1> QED BY <1>7, <1>8

\* A handler keeps the operation and the id of its request; only an id that is
\* not in the table is answered with a 404.
LEMMA HandleSession ==
    ASSUME RegInv, NEW c \in Callers, Handle(c)
    PROVE  \E s \in Session :
             /\ sess' = [sess EXCEPT ![c] = s]
             /\ sess[c].stage # "idle" /\ sess[c].stage # "notfound"
             /\ s.op = sess[c].op
             /\ s.op # "register" => s.id = sess[c].id
             /\ s.stage = "notfound" => s.op # "register" /\ sess[c].id \notin rows
<1>0. sess[c] \in Session /\ sess \in [Callers -> Session]
  BY DEF RegInv, RegTypeOK
<1>1. sess' \in [Callers -> Session]
  BY RegStepInv DEF RegInv, RegTypeOK, RegNext
<1>2. \A d \in Callers \ {c} : sess'[d] = sess[d]
  BY <1>0 DEF Handle, RegisterSelect, Insert, HeartbeatSelect, TelemetrySelect,
              TelemetryIngest, Update, Reply, Stage, Answer
<1>3. /\ sess[c].stage # "idle" /\ sess[c].stage # "notfound"
      /\ sess'[c].op = sess[c].op
      /\ sess'[c].op # "register" => sess'[c].id = sess[c].id
      /\ sess'[c].stage = "notfound" => sess'[c].op # "register" /\ sess[c].id \notin rows
  <2>1. CASE RegisterSelect(c)
    <3>1. CASE Matching(NameOf[c]) = {} /\ Stage(c, "insert")
      BY <1>0, <2>1, <3>1 DEF RegisterSelect, Stage
    <3>2. ASSUME NEW i \in Matching(NameOf[c]),
                 sess' = [sess EXCEPT ![c].stage = "loaded", ![c].id = i, ![c].seen = row[i].status]
          PROVE  sess'[c] = [sess[c] EXCEPT !.stage = "loaded", !.id = i, !.seen = row[i].status]
      BY <1>0, <3>2 DEF Session
    <3> QED BY <1>0, <2>1, <3>1, <3>2 DEF RegisterSelect, Session
  <2>2. CASE Insert(c)
    BY <1>0, <2>2 DEF Insert, Stage, Session, RegInv, PendingInv
  <2>3. CASE HeartbeatSelect(c)
    BY <1>0, <2>3 DEF HeartbeatSelect, Stage, Session
  <2>4. CASE TelemetrySelect(c)
    BY <1>0, <2>4 DEF TelemetrySelect, Stage, Session
  <2>5. CASE TelemetryIngest(c)
    BY <1>0, <2>5 DEF TelemetryIngest, Stage, Session
  <2>6. CASE Update(c)
    BY <1>0, <2>6 DEF Update, Answer, Session
  <2>7. CASE Reply(c)
    BY <1>0, <2>7 DEF Reply, Answer, Session
  <2> QED BY <2>1, <2>2, <2>3, <2>4, <2>5, <2>6, <2>7 DEF Handle
<1>4. sess' = [sess EXCEPT ![c] = sess'[c]]
  BY <1>0, <1>1, <1>2
<1> QED BY <1>1, <1>3, <1>4

-----------------------------------------------------------------------------
(* Every step is a step of the table with some client, or leaves it alone. *)

\* The slots of an agent's threads are callers, one each, with its name.
LEMMA Slots ==
    ASSUME ClientTypeOK, NEW a \in Agents, NEW t \in Threads, starts[a] >= 1
    PROVE  Me(a, t) \in Callers /\ NameOf[Me(a, t)] = a
  BY CallersAssumption DEF ClientTypeOK, Me

LEMMA SlotsDiffer ==
    \A a, b, t, u : Me(a, t) = Me(b, u) => a = b /\ t = u
  BY DEF Me

LEMMA CallerParts ==
    ASSUME NEW c \in Callers
    PROVE  c[1] \in Agents /\ c[2] \in Threads /\ NameOf[c] = c[1]
  BY CallersAssumption

LEMMA SendIsRequest ==
    ASSUME ClientTypeOK, ThreadInv, NEW a \in Agents, NEW t \in Threads,
           SendRegister(a, t) \/ SendHeartbeat(a) \/ SendTelemetry(a)
    PROVE  RegNext
<1>1. PICK u \in Threads, from \in {"ready", "register"}, op \in Ops, i \in Ids \cup {NoId} :
           Send(a, u, from, op, i)
  BY DEF SendRegister, SendHeartbeat, SendTelemetry, ClientTypeOK, Ops, Threads
<1>2. Me(a, u) \in Callers
  BY <1>1, Slots DEF Send, ThreadInv
<1> QED BY <1>1, <1>2 DEF Send, RegNext

LEMMA StepIsRegStep ==
    ASSUME ClientTypeOK, ThreadInv, [Next]_vars
    PROVE  [RegNext]_regVars
<1>1. CASE \E a \in Agents : Start(a) \/ Kill(a)
  BY <1>1 DEF Start, Kill
<1>2. ASSUME NEW a \in Agents, Client(a)
      PROVE  RegNext
  <2>1. CASE \E t \in Threads : SendRegister(a, t)
    BY <2>1, SendIsRequest
  <2>2. CASE SendHeartbeat(a) \/ SendTelemetry(a)
    BY <2>2, SendIsRequest DEF Threads
  <2>3. ASSUME NEW t \in Threads, Receive(a, t)
        PROVE  RegNext
    <3>1. thread[a][t] = "waiting" /\ Release(Me(a, t))
      BY <2>3 DEF Receive
    <3>2. Me(a, t) \in Callers
      BY <3>1, Slots DEF ThreadInv
    <3> QED BY <3>1, <3>2 DEF RegNext
  <2> QED BY <1>2, <2>1, <2>2, <2>3 DEF Client
<1>3. CASE \E a \in Agents, t \in Threads : Timeout(a, t)
  BY <1>3 DEF Timeout
<1>4. CASE \E c \in Callers : Serve(c) \/ Fail(c) \/ Drain(c)
  BY <1>4 DEF Serve, Fail, Drain, RegNext
<1>5. CASE Lose \/ (\E i \in Ids : Grow(i)) \/ Check \/ CheckFails
  BY <1>5 DEF Lose, Grow, Check, CheckFails, RegNext, Environment
<1>6. CASE UNCHANGED vars
  BY <1>6 DEF vars
<1> QED BY <1>1, <1>2, <1>3, <1>4, <1>5, <1>6 DEF Next

-----------------------------------------------------------------------------
(* The invariant, by kinds of steps.                                       *)

LEMMA AgentInitInv == Init => AgentInv
<1> SUFFICES ASSUME Init PROVE AgentInv
  OBVIOUS
<1>1. RegInv
  BY RegInitInv DEF Init
<1>2. ClientTypeOK
  BY CallersAssumption, BoundsAssumption DEF Init, ClientTypeOK, ThreadStates
<1>3. ThreadInv /\ KnownInv /\ LossInv
  BY DEF Init, RegInit, ThreadInv, KnownInv, LossInv
<1>4. UsesOwnRow /\ NotFoundOnlyAfterLoss
  BY DEF Init, RegInit, Free, UsesOwnRow, NotFoundOnlyAfterLoss
<1> QED BY <1>1, <1>2, <1>3, <1>4 DEF AgentInv

\* Ids once owned stay owned.
LEMMA OwnedStays ==
    ASSUME AgentInv, [Next]_vars, NEW a, NEW i, Owned(a, i)
    PROVE  Owned(a, i)'
  BY StepIsRegStep, NamesStay DEF AgentInv, Owned

\* A step that changes at most the session of one caller, and gives it nothing
\* but an id of its own, keeps what the sessions promise.
LEMMA SessionsOwn ==
    ASSUME AgentInv, [Next]_vars, NEW c \in Callers, NEW s \in Session,
           sess' = [sess EXCEPT ![c] = s],
           s.stage # "idle" /\ s.op # "register" => Owned(c[1], s.id),
           s.stage = "notfound" /\ forgets = 0 => sess[c].stage = "notfound",
           forgets' = 0 => forgets = 0
    PROVE  UsesOwnRow' /\ NotFoundOnlyAfterLoss'
<1>1. \A d \in Callers : sess'[d] = IF d = c THEN s ELSE sess[d]
  BY DEF AgentInv, RegInv, RegTypeOK
<1>2. \A d \in Callers : sess'[d].stage # "idle" /\ sess'[d].op # "register"
                           => Owned(d[1], sess'[d].id)
  BY <1>1 DEF AgentInv, UsesOwnRow, Owned
<1>3. UsesOwnRow'
  BY <1>2, OwnedStays DEF UsesOwnRow, Owned
<1>4. NotFoundOnlyAfterLoss'
  BY <1>1 DEF AgentInv, NotFoundOnlyAfterLoss
<1> QED BY <1>3, <1>4

\* Steps that leave the sessions alone.
LEMMA SessionsStay ==
    ASSUME AgentInv, [Next]_vars, UNCHANGED sess, forgets' = 0 => forgets = 0
    PROVE  UsesOwnRow' /\ NotFoundOnlyAfterLoss'
<1>1. \A d \in Callers : sess'[d].stage # "idle" /\ sess'[d].op # "register"
                           => Owned(d[1], sess'[d].id)
  BY DEF AgentInv, UsesOwnRow, Owned
<1>2. UsesOwnRow'
  BY <1>1, OwnedStays DEF UsesOwnRow, Owned
<1> QED BY <1>2 DEF AgentInv, NotFoundOnlyAfterLoss

\* Steps of the server: the clients stay where they are, and no session
\* changes its operation.
LEMMA ClientsStay ==
    ASSUME AgentInv, [Next]_vars, UNCHANGED clientVars,
           \A c \in Callers : sess'[c].op \in {sess[c].op, "register"}
    PROVE  ThreadInv' /\ KnownInv'
<1>1. ThreadInv'
  <2> SUFFICES ASSUME NEW a \in Agents, NEW t \in Threads,
                      thread[a][t] = "waiting", proc[a] # "up"
               PROVE  sess'[Me(a, t)].op = "register"
    BY DEF ThreadInv, clientVars, AgentInv, Me
  <2>1. sess[Me(a, t)].op = "register" /\ Me(a, t) \in Callers
    BY Slots DEF AgentInv, ThreadInv
  <2> QED BY <2>1
<1>2. KnownInv'
  BY OwnedStays DEF AgentInv, KnownInv, Owned, clientVars
<1> QED BY <1>1, <1>2

\* Steps other than a loss keep every row that was inserted.
LEMMA RowsStay ==
    ASSUME AgentInv, [Next]_vars, ~ Forget, forgets' = 0 => forgets = 0
    PROVE  LossInv'
<1> SUFFICES ASSUME rows = DOMAIN row PROVE rows' = DOMAIN row'
  BY DEF AgentInv, LossInv
<1>1. [RegNext]_regVars
  BY StepIsRegStep DEF AgentInv
<1>2. CASE UNCHANGED regVars
  BY <1>2 DEF regVars
<1>3. CASE \E c \in Callers, op \in Ops, i \in Ids \cup {NoId} : Request(c, op, i)
  BY <1>3 DEF Request, table
<1>4. CASE \E c \in Callers : HandlerFails(c) \/ Release(c)
  BY <1>4 DEF HandlerFails, Release, table
<1>5. ASSUME NEW c \in Callers, Handle(c)
      PROVE  rows' = DOMAIN row'
  <2>1. CASE Insert(c)
    BY <2>1 DEF Insert
  <2>2. CASE Update(c)
    BY <2>2 DEF Update
  <2>3. CASE RegisterSelect(c) \/ HeartbeatSelect(c) \/ TelemetrySelect(c)
               \/ TelemetryIngest(c) \/ Reply(c)
    BY <2>3 DEF RegisterSelect, HeartbeatSelect, TelemetrySelect, TelemetryIngest, Reply, table
  <2> QED BY <1>5, <2>1, <2>2, <2>3 DEF Handle
<1>6. CASE Environment
  BY <1>6 DEF Environment, Age, HealthFind, HealthMark, HealthFails, table
<1> QED BY <1>1, <1>2, <1>3, <1>4, <1>5, <1>6 DEF RegNext

LEMMA ServeInv ==
    ASSUME AgentInv, NEW c \in Callers, Serve(c)
    PROVE  AgentInv'
<1>1. [Next]_vars /\ RegInv /\ c[1] \in Agents
  BY CallerParts DEF Next, AgentInv, Serve
<1>2. PICK s \in Session :
        /\ sess' = [sess EXCEPT ![c] = s]
        /\ sess[c].stage # "idle" /\ sess[c].stage # "notfound"
        /\ s.op = sess[c].op
        /\ s.op # "register" => s.id = sess[c].id
        /\ s.stage = "notfound" => s.op # "register" /\ sess[c].id \notin rows
  BY <1>1, HandleSession DEF Serve
<1>3. s.op # "register" => Owned(c[1], s.id)
  BY <1>2 DEF AgentInv, UsesOwnRow, Owned
<1>4. s.stage = "notfound" => forgets # 0
  BY <1>2, <1>3 DEF AgentInv, LossInv, Owned
<1>5. forgets' = forgets /\ UNCHANGED clientVars /\ UNCHANGED faults
  BY DEF Serve
<1>6. UsesOwnRow' /\ NotFoundOnlyAfterLoss'
  BY <1>1, <1>2, <1>3, <1>4, <1>5, SessionsOwn
<1>7. \A d \in Callers : sess'[d].op = sess[d].op
  BY <1>1, <1>2 DEF RegInv, RegTypeOK
<1>8. ThreadInv' /\ KnownInv'
  BY <1>1, <1>5, <1>7, ClientsStay
<1>9. ~ Forget
  BY <1>2 DEF Forget, AgentInv, RegInv, RegTypeOK, Serve, Handle, Insert, RegisterSelect,
              HeartbeatSelect, TelemetrySelect, TelemetryIngest, Update, Reply, table
<1>10. LossInv'
  BY <1>1, <1>5, <1>9, RowsStay
<1>11. RegInv' /\ ClientTypeOK'
  BY <1>1, <1>5, StepIsRegStep, RegStepInv DEF AgentInv, ClientTypeOK, clientVars
<1> QED BY <1>6, <1>8, <1>10, <1>11 DEF AgentInv

\* A handler that fails, and one nobody waits for that ends.
LEMMA FailInv ==
    ASSUME AgentInv, NEW c \in Callers, Fail(c) \/ Drain(c)
    PROVE  AgentInv'
<1>1. [Next]_vars /\ RegInv /\ sess[c] \in Session /\ sess \in [Callers -> Session]
  BY DEF Next, AgentInv, RegInv, RegTypeOK
<1>2. /\ UNCHANGED <<clientVars, forgets, table>>
      /\ faults' \in 0 .. MaxFaults
  BY BoundsAssumption DEF Fail, Drain, HandlerFails, Release, AgentInv, ClientTypeOK
<1>3. \E s \in Session :
        /\ sess' = [sess EXCEPT ![c] = s]
        /\ s.op \in {sess[c].op, "register"}
        /\ \/ s.stage = "error" /\ s.id = sess[c].id /\ sess[c].stage # "idle"
           \/ s.stage = "idle"
  <2>1. CASE Fail(c)
    <3>1. [sess[c] EXCEPT !.stage = "error"] \in Session
      BY <1>1 DEF Session, Ended
    <3>2. sess' = [sess EXCEPT ![c] = [sess[c] EXCEPT !.stage = "error"]] /\ sess[c].stage # "idle"
      BY <2>1 DEF Fail, HandlerFails, Stage, Busy
    <3> QED BY <1>1, <3>1, <3>2 DEF Session
  <2>2. CASE Drain(c)
    <3>1. Free \in Session /\ Free.stage = "idle" /\ Free.op = "register"
      BY DEF Free, Session, Ops
    <3> QED BY <2>2, <3>1 DEF Drain, Release
  <2> QED BY <2>1, <2>2
<1>4. PICK s \in Session :
        /\ sess' = [sess EXCEPT ![c] = s]
        /\ s.op \in {sess[c].op, "register"}
        /\ \/ s.stage = "error" /\ s.id = sess[c].id /\ sess[c].stage # "idle"
           \/ s.stage = "idle"
  BY <1>3
<1>5. s.stage # "idle" /\ s.op # "register" => Owned(c[1], s.id)
  BY <1>4 DEF AgentInv, UsesOwnRow, Owned
<1>6. UsesOwnRow' /\ NotFoundOnlyAfterLoss'
  BY <1>1, <1>2, <1>4, <1>5, SessionsOwn
<1>7. \A d \in Callers : sess'[d].op \in {sess[d].op, "register"}
  BY <1>1, <1>4
<1>8. ThreadInv' /\ KnownInv'
  BY <1>1, <1>2, <1>7, ClientsStay
<1>9. LossInv' /\ ClientTypeOK'
  BY <1>2 DEF AgentInv, LossInv, ClientTypeOK, clientVars, table
<1> QED BY <1>1, <1>6, <1>8, <1>9, StepIsRegStep, RegStepInv DEF AgentInv

\* Steps of the server that leave the sessions alone.
LEMMA TableStepsInv ==
    ASSUME AgentInv, Lose \/ (\E i \in Ids : Grow(i)) \/ Check \/ CheckFails
    PROVE  AgentInv'
<1>1. Next /\ UNCHANGED <<sess, clientVars>>
  BY DEF Next, Lose, Grow, Check, CheckFails, Forget, Age, HealthFind, HealthMark, HealthFails, table
<1>2. faults' \in 0 .. MaxFaults
  BY BoundsAssumption DEF Lose, Grow, Check, CheckFails, AgentInv, ClientTypeOK
<1>3. forgets' \in 0 .. MaxForgets /\ (forgets' = 0 => forgets = 0)
  BY BoundsAssumption DEF Lose, Grow, Check, CheckFails, AgentInv, ClientTypeOK
<1>4. UsesOwnRow' /\ NotFoundOnlyAfterLoss'
  BY <1>1, <1>3, SessionsStay
<1>5. ThreadInv' /\ KnownInv'
  BY <1>1, ClientsStay
<1>6. LossInv'
  <2>1. CASE Lose
    BY <2>1, BoundsAssumption DEF Lose, LossInv, AgentInv, ClientTypeOK
  <2>2. CASE (\E i \in Ids : Grow(i)) \/ Check \/ CheckFails
    BY <2>2 DEF Grow, Check, CheckFails, Age, HealthFind, HealthMark, HealthFails, table,
                AgentInv, LossInv
  <2> QED BY <2>1, <2>2
<1>7. ClientTypeOK'
  BY <1>1, <1>2, <1>3 DEF AgentInv, ClientTypeOK, clientVars
<1> QED BY <1>1, <1>4, <1>5, <1>6, <1>7, StepIsRegStep, RegStepInv DEF AgentInv

LEMMA StartInv ==
    ASSUME AgentInv, NEW a \in Agents, Start(a)
    PROVE  AgentInv'
<1>1. Next /\ UNCHANGED <<regVars, sess, faults, forgets>>
  BY DEF Next, Start, regVars
<1>2. starts[a] \in Nat /\ starts[a] + 1 \in 0 .. MaxStarts[a] /\ starts[a] + 1 >= 1
  <2>1. MaxStarts \in [Agents -> Nat]
    BY CallersAssumption
  <2>2. starts[a] \in Nat /\ MaxStarts[a] \in Nat /\ starts[a] < MaxStarts[a]
    BY <2>1 DEF Start, AgentInv, ClientTypeOK
  <2> QED BY <2>2
<1>3. FirstThreads \in [Threads -> ThreadStates]
      /\ \A t \in Threads : FirstThreads[t] \notin {"ready", "waiting"}
  BY DEF FirstThreads, ThreadStates
<1>4. ClientTypeOK'
  <2>1. \A b \in Agents : starts'[b] = IF b = a THEN starts[a] + 1 ELSE starts[b]
    BY DEF Start, AgentInv, ClientTypeOK
  <2>2. starts' \in [Agents -> Nat]
    BY <1>2 DEF Start, AgentInv, ClientTypeOK
  <2>3. \A b \in Agents : starts'[b] \in 0 .. MaxStarts[b]
    BY <1>2, <2>1 DEF AgentInv, ClientTypeOK
  <2>4. proc' \in [Agents -> {"off", "registering", "up", "exited", "killed"}]
    BY DEF Start, AgentInv, ClientTypeOK
  <2>5. agentId' \in [Agents -> Ids \cup {NoId}]
    BY DEF Start, AgentInv, ClientTypeOK
  <2>6. thread' \in [Agents -> [Threads -> ThreadStates]]
    BY <1>3 DEF Start, AgentInv, ClientTypeOK
  <2> QED BY <1>1, <2>2, <2>3, <2>4, <2>5, <2>6 DEF AgentInv, ClientTypeOK
<1>5. ThreadInv'
  <2> SUFFICES ASSUME NEW b \in Agents, NEW t \in Threads
               PROVE  /\ thread'[b][t] # "none" => starts'[b] >= 1
                      /\ thread'[b][t] = "ready" => proc'[b] = "up"
                      /\ thread'[b][t] = "waiting" /\ proc'[b] # "up"
                           => sess'[Me(b, t)'].op = "register"
    BY DEF ThreadInv
  <2>1. CASE b = a
    BY <1>2, <1>3, <2>1 DEF Start, AgentInv, ClientTypeOK
  <2>2. CASE b # a
    BY <1>1, <2>2 DEF Start, AgentInv, ClientTypeOK, ThreadInv, Me
  <2> QED BY <2>1, <2>2
<1>6. KnownInv'
  BY <1>1 DEF Start, AgentInv, ClientTypeOK, KnownInv, Owned, regVars
<1>7. UsesOwnRow' /\ NotFoundOnlyAfterLoss'
  BY <1>1, SessionsStay
<1>8. RegInv' /\ LossInv'
  BY <1>1, StepIsRegStep, RegStepInv DEF AgentInv, LossInv, regVars
<1> QED BY <1>4, <1>5, <1>6, <1>7, <1>8 DEF AgentInv

\* A process that ends has neither threads nor an id in use.
LEMMA EndInv ==
    ASSUME AgentInv, NEW a \in Agents, NEW how \in {"exited", "killed"}, End(a, how),
           \A b \in Agents \ {a} : \A t \in Threads : sess'[Me(b, t)] = sess[Me(b, t)],
           UNCHANGED table
    PROVE  /\ proc' \in [Agents -> {"off", "registering", "up", "exited", "killed"}]
           /\ thread' \in [Agents -> [Threads -> ThreadStates]]
           /\ ThreadInv' /\ KnownInv'
<1>1. NoThreads \in [Threads -> ThreadStates] /\ \A t \in Threads : NoThreads[t] = "none"
  BY DEF NoThreads, ThreadStates
<1>2. ThreadInv'
  <2> SUFFICES ASSUME NEW b \in Agents, NEW t \in Threads
               PROVE  /\ thread'[b][t] # "none" => starts'[b] >= 1
                      /\ thread'[b][t] = "ready" => proc'[b] = "up"
                      /\ thread'[b][t] = "waiting" /\ proc'[b] # "up"
                           => sess'[Me(b, t)'].op = "register"
    BY DEF ThreadInv
  <2>1. CASE b = a
    BY <1>1, <2>1 DEF End, AgentInv, ClientTypeOK
  <2>2. CASE b # a
    BY <2>2 DEF End, AgentInv, ClientTypeOK, ThreadInv, Me
  <2> QED BY <2>1, <2>2
<1>3. KnownInv'
  BY DEF End, AgentInv, ClientTypeOK, KnownInv, Owned, table
<1> QED BY <1>1, <1>2, <1>3 DEF End, AgentInv, ClientTypeOK

LEMMA KillInv ==
    ASSUME AgentInv, NEW a \in Agents, Kill(a)
    PROVE  AgentInv'
<1>1. Next /\ UNCHANGED <<regVars, sess, table, starts, agentId, faults, forgets>>
  BY DEF Next, Kill, End, regVars, table
<1>2. ThreadInv' /\ KnownInv' /\ ClientTypeOK'
  BY <1>1, EndInv DEF Kill, AgentInv, ClientTypeOK
<1>3. UsesOwnRow' /\ NotFoundOnlyAfterLoss'
  BY <1>1, SessionsStay
<1>4. RegInv' /\ LossInv'
  BY <1>1, StepIsRegStep, RegStepInv DEF AgentInv, LossInv, regVars
<1> QED BY <1>2, <1>3, <1>4 DEF AgentInv

\* One thread moves to a state that promises no more than its process keeps.
LEMMA BecomeInv ==
    ASSUME AgentInv, NEW a \in Agents, NEW t \in Threads,
           NEW state \in {"ready", "register", "waiting", "dead"},
           Become(a, t, state), thread[a][t] # "none",
           state = "ready" => proc[a] = "up",
           state = "waiting" /\ proc[a] # "up" => sess'[Me(a, t)].op = "register",
           \A b \in Agents, u \in Threads :
               <<b, u>> # <<a, t>> => sess'[Me(b, u)] = sess[Me(b, u)],
           UNCHANGED table
    PROVE  /\ proc' \in [Agents -> {"off", "registering", "up", "exited", "killed"}]
           /\ thread' \in [Agents -> [Threads -> ThreadStates]]
           /\ ThreadInv' /\ KnownInv'
<1>1. /\ thread' \in [Agents -> [Threads -> ThreadStates]]
      /\ \A b \in Agents, u \in Threads :
            thread'[b][u] = IF b = a /\ u = t THEN state ELSE thread[b][u]
  BY DEF Become, AgentInv, ClientTypeOK, ThreadStates
<1>2. ThreadInv'
  <2> SUFFICES ASSUME NEW b \in Agents, NEW u \in Threads
               PROVE  /\ thread'[b][u] # "none" => starts'[b] >= 1
                      /\ thread'[b][u] = "ready" => proc'[b] = "up"
                      /\ thread'[b][u] = "waiting" /\ proc'[b] # "up"
                           => sess'[Me(b, u)'].op = "register"
    BY DEF ThreadInv
  <2>1. CASE b = a /\ u = t
    BY <1>1, <2>1 DEF Become, AgentInv, ThreadInv, Me
  <2>2. CASE ~ (b = a /\ u = t)
    BY <1>1, <2>2 DEF Become, AgentInv, ThreadInv, Me
  <2> QED BY <2>1, <2>2
<1>3. KnownInv'
  BY DEF Become, AgentInv, KnownInv, Owned, table
<1> QED BY <1>1, <1>2, <1>3 DEF Become, AgentInv, ClientTypeOK

LEMMA SendInv ==
    ASSUME AgentInv, NEW a \in Agents, Next, NEW t \in Threads,
           NEW from \in {"ready", "register"}, NEW op \in Ops, NEW i \in Ids \cup {NoId},
           Send(a, t, from, op, i),
           op # "register" => from = "ready" /\ i = agentId[a],
           op = "register" => from = "register"
    PROVE  AgentInv'
<1> DEFINE c == Me(a, t)
           s == [Free EXCEPT !.stage = "begin", !.op = op, !.id = i]
<1>1. s \in Session /\ s.stage = "begin" /\ s.op = op /\ s.id = i
  BY DEF Free, Session, Busy
<1>2. c \in Callers /\ c[1] = a
  BY Slots DEF Send, AgentInv, ThreadInv, Me
<1>3. /\ sess' = [sess EXCEPT ![c] = s]
      /\ UNCHANGED <<proc, starts, agentId, faults, forgets, table>>
      /\ Become(a, t, "waiting")
  BY DEF Send, Request, Become
<1> HIDE DEF s
<1>4. op # "register" => Owned(c[1], i)
  BY <1>2 DEF Send, AgentInv, ThreadInv, KnownInv
<1>5. UsesOwnRow' /\ NotFoundOnlyAfterLoss'
  BY <1>1, <1>2, <1>3, <1>4, SessionsOwn
<1>6. \A d \in Callers : sess'[d] = IF d = c THEN s ELSE sess[d]
  BY <1>3 DEF AgentInv, RegInv, RegTypeOK
<1>7. \A b \in Agents, u \in Threads : <<b, u>> # <<a, t>> => sess'[Me(b, u)] = sess[Me(b, u)]
  BY <1>3, SlotsDiffer
<1>8. proc[a] # "up" => sess'[c].op = "register"
  BY <1>1, <1>2, <1>6 DEF Send, AgentInv, ThreadInv
<1>9. ThreadInv' /\ KnownInv' /\ ClientTypeOK'
  BY <1>3, <1>7, <1>8, BecomeInv DEF Send, AgentInv, ClientTypeOK
<1> QED BY <1>3, <1>5, <1>9, StepIsRegStep, RegStepInv DEF AgentInv, LossInv, table

\* What an answer, or the lack of one, does to the client.
LEMMA ReactInv ==
    ASSUME AgentInv, NEW a \in Agents, NEW t \in Threads, thread[a][t] = "waiting",
           NEW id \in Ids \cup {NoId}, NEW outcome,
           React(a, t, sess[Me(a, t)].op, id, outcome),
           sess[Me(a, t)].op = "register" /\ outcome = "ok" => Owned(a, id),
           \A b \in Agents, u \in Threads :
               <<b, u>> # <<a, t>> => sess'[Me(b, u)] = sess[Me(b, u)],
           UNCHANGED <<table, forgets>>, faults' \in 0 .. MaxFaults
    PROVE  ClientTypeOK' /\ ThreadInv' /\ KnownInv'
<1> DEFINE op == sess[Me(a, t)].op
<1>0. ClientTypeOK /\ ThreadInv /\ KnownInv
  BY DEF AgentInv
<1>1. CASE op = "register" /\ outcome = "ok" /\ Registered(a, t, id)
  <2>1. /\ agentId' = [agentId EXCEPT ![a] = id]
        /\ thread' = [thread EXCEPT ![a] = RegisteredThreads(a, t)]
        /\ proc' = [proc EXCEPT ![a] = "up"]
        /\ UNCHANGED starts
    BY <1>1 DEF Registered, IdKept
  <2>2. RegisteredThreads(a, t) \in [Threads -> ThreadStates]
    BY <1>0 DEF RegisteredThreads, ClientTypeOK, ThreadStates
  <2>3. \A u \in Threads : RegisteredThreads(a, t)[u] = "waiting" =>
            proc[a] # "registering" /\ u # t /\ thread[a][u] = "waiting"
    BY <1>0 DEF RegisteredThreads, ClientTypeOK
  <2>4. ClientTypeOK'
    BY <1>0, <2>1, <2>2 DEF ClientTypeOK
  <2>5. ThreadInv'
    <3> SUFFICES ASSUME NEW b \in Agents, NEW u \in Threads
                 PROVE  /\ thread'[b][u] # "none" => starts'[b] >= 1
                        /\ thread'[b][u] = "ready" => proc'[b] = "up"
                        /\ thread'[b][u] = "waiting" /\ proc'[b] # "up"
                             => sess'[Me(b, u)'].op = "register"
      BY DEF ThreadInv
    <3>1. CASE b = a
      BY <1>0, <2>1, <3>1 DEF ClientTypeOK, ThreadInv
    <3>2. CASE b # a
      BY <1>0, <2>1, <3>2 DEF ClientTypeOK, ThreadInv, Me
    <3> QED BY <3>1, <3>2
  <2>6. KnownInv'
    BY <1>0, <1>1, <2>1 DEF ClientTypeOK, KnownInv, Owned, table
  <2> QED BY <2>4, <2>5, <2>6
<1>2. CASE op = "register" /\ RegistrationFailed(a, t)
  <2>1. CASE t = "main"
    <3>1. End(a, "exited")
      BY <1>2, <2>1 DEF RegistrationFailed
    <3>2. \A b \in Agents \ {a} : \A u \in Threads : sess'[Me(b, u)] = sess[Me(b, u)]
      OBVIOUS
    <3>3. UNCHANGED <<starts, agentId>>
      BY <3>1 DEF End
    <3> QED BY <1>0, <3>1, <3>2, <3>3, EndInv DEF ClientTypeOK
  <2>2. CASE t # "main"
    <3>1. Become(a, t, "dead")
      BY <1>2, <2>2 DEF RegistrationFailed
    <3> QED BY <1>0, <3>1, BecomeInv DEF ClientTypeOK, Become
  <2> QED BY <2>1, <2>2
<1>3. CASE op # "register" /\ outcome = "notfound" /\ Become(a, t, AfterNotFound(a, t))
  <2>1. Become(a, t, "register")
    BY <1>3 DEF AfterNotFound
  <2> QED BY <1>0, <2>1, BecomeInv DEF ClientTypeOK, Become
<1>4. CASE op # "register" /\ outcome \in {"ok", "error"} /\ Become(a, t, "ready")
  <2>1. proc[a] = "up"
    BY <1>0, <1>4 DEF ThreadInv
  <2> QED BY <1>0, <1>4, <2>1, BecomeInv DEF ClientTypeOK, Become
<1> QED BY <1>1, <1>2, <1>3, <1>4 DEF React

LEMMA ReceiveInv ==
    ASSUME AgentInv, NEW a \in Agents, NEW t \in Threads, Receive(a, t)
    PROVE  AgentInv'
<1> DEFINE c == Me(a, t)
<1>1. Next /\ thread[a][t] = "waiting" /\ c \in Callers /\ NameOf[c] = a /\ c[1] = a
  BY Slots DEF Next, Client, Receive, AgentInv, ThreadInv, Me
<1>2. /\ sess[c] \in Session /\ sess[c].stage \in Ended
      /\ React(a, t, sess[c].op, sess[c].id, sess[c].stage)
      /\ sess' = [sess EXCEPT ![c] = Free] /\ UNCHANGED <<table, faults, forgets>>
  BY <1>1 DEF Receive, Release, AgentInv, RegInv, RegTypeOK
<1>3. sess[c].id \in Ids \cup {NoId}
  BY <1>2 DEF Session
<1>4. sess[c].op = "register" /\ sess[c].stage = "ok" => Owned(a, sess[c].id)
  BY <1>1 DEF AgentInv, RegInv, RegisterOwnName, Owned
<1>5. \A b \in Agents, u \in Threads : <<b, u>> # <<a, t>> => sess'[Me(b, u)] = sess[Me(b, u)]
  BY <1>2, SlotsDiffer
<1>6. ClientTypeOK' /\ ThreadInv' /\ KnownInv'
  BY <1>1, <1>2, <1>3, <1>4, <1>5, ReactInv DEF AgentInv, ClientTypeOK
<1>7. Free \in Session /\ Free.stage = "idle"
  BY DEF Free, Session, Ops
<1>8. UsesOwnRow' /\ NotFoundOnlyAfterLoss'
  BY <1>1, <1>2, <1>7, SessionsOwn
<1> QED BY <1>1, <1>2, <1>6, <1>8, StepIsRegStep, RegStepInv DEF AgentInv, LossInv, table

LEMMA TimeoutInv ==
    ASSUME AgentInv, NEW a \in Agents, NEW t \in Threads, Timeout(a, t)
    PROVE  AgentInv'
<1>1. Next /\ thread[a][t] = "waiting"
  BY DEF Next, Timeout
<1>2. /\ React(a, t, sess[Me(a, t)].op, NoId, "error")
      /\ UNCHANGED <<regVars, sess, table, forgets>>
      /\ faults' \in 0 .. MaxFaults
  BY BoundsAssumption DEF Timeout, regVars, table, AgentInv, ClientTypeOK
<1>3. ClientTypeOK' /\ ThreadInv' /\ KnownInv'
  BY <1>1, <1>2, ReactInv
<1>4. UsesOwnRow' /\ NotFoundOnlyAfterLoss'
  BY <1>1, <1>2, SessionsStay
<1> QED BY <1>1, <1>2, <1>3, <1>4, StepIsRegStep, RegStepInv DEF AgentInv, LossInv, table

LEMMA ClientInv ==
    ASSUME AgentInv, NEW a \in Agents, Client(a)
    PROVE  AgentInv'
<1>0. Next
  BY DEF Next
<1>1. ASSUME NEW t \in Threads, SendRegister(a, t)
      PROVE  AgentInv'
  BY <1>0, <1>1, SendInv DEF SendRegister, Ops
<1>2. CASE SendHeartbeat(a) \/ SendTelemetry(a)
  <2>1. agentId[a] \in Ids \cup {NoId} /\ {"heartbeat", "telemetry"} \subseteq Ops
        /\ {"main", "heartbeat"} \subseteq Threads
    BY DEF AgentInv, ClientTypeOK, Ops, Threads
  <2> QED BY <1>0, <1>2, <2>1, SendInv DEF SendHeartbeat, SendTelemetry
<1> QED BY <1>1, <1>2, ReceiveInv DEF Client

LEMMA AgentStepInv == AgentInv /\ [Next]_vars => AgentInv'
<1> SUFFICES ASSUME AgentInv, [Next]_vars PROVE AgentInv'
  OBVIOUS
<1>1. CASE \E a \in Agents : Start(a) \/ Kill(a) \/ Client(a)
  BY <1>1, StartInv, KillInv, ClientInv
<1>2. CASE \E a \in Agents, t \in Threads : Timeout(a, t)
  BY <1>2, TimeoutInv
<1>3. CASE \E c \in Callers : Serve(c) \/ Fail(c) \/ Drain(c)
  BY <1>3, ServeInv, FailInv
<1>4. CASE Lose \/ (\E i \in Ids : Grow(i)) \/ Check \/ CheckFails
  BY <1>4, TableStepsInv
<1>5. CASE UNCHANGED vars
  <2>1. RegInv' /\ ClientTypeOK' /\ LossInv'
    BY <1>5, StepIsRegStep, RegStepInv DEF AgentInv, vars, clientVars, regVars, ClientTypeOK, LossInv
  <2>2. UsesOwnRow' /\ NotFoundOnlyAfterLoss'
    BY <1>5, SessionsStay DEF vars, regVars
  <2>3. ThreadInv' /\ KnownInv'
    BY <1>5, ClientsStay DEF vars, regVars
  <2> QED BY <2>1, <2>2, <2>3 DEF AgentInv
<1> QED BY <1>1, <1>2, <1>3, <1>4, <1>5 DEF Next

THEOREM AgentInvariance == Spec => []AgentInv
  BY AgentInitInv, AgentStepInv, PTL DEF Spec

-----------------------------------------------------------------------------
(* The theorems.                                                           *)

\* Every variable of the agents and of the table keeps its type.
THEOREM AgentTypeCorrect == Spec => []TypeOK
<1>1. AgentInv => TypeOK
  BY DEF AgentInv, RegInv, ClientTypeOK, TypeOK
<1> QED BY <1>1, AgentInvariance, PTL

\* No agent sends a heartbeat or telemetry without an id given out under its
\* own name, whichever of its two threads has registered meanwhile, and
\* through time-outs, restarts and losses of the table.
THEOREM IdsAreOwn == Spec => []UsesOwnRow
  BY AgentInvariance, PTL DEF AgentInv

\* Nobody is told that its agent is unknown before the table was lost once.
THEOREM NotFoundMeansLoss == Spec => []NotFoundOnlyAfterLoss
  BY AgentInvariance, PTL DEF AgentInv

\* The agent program is one of the clients the table is specified for: agents
\* and server together implement AgentRegistry.
THEOREM ImplementsRegistry == Spec => RegSpec
<1>1. Init => RegInit
  BY DEF Init
<1>2. AgentInv /\ [Next]_vars => [RegNext]_regVars
  BY StepIsRegStep DEF AgentInv
<1> QED BY <1>1, <1>2, AgentInvariance, PTL DEF Spec, RegSpec

\* Hence duplicates of a name come only from requests that overlapped, with
\* the agent program as the client.
THEOREM AgentDuplicatesOnlyByOverlap == Spec => []OneRowPerCaller
  BY ImplementsRegistry, DuplicatesOnlyByOverlap, PTL

=============================================================================
