------------------------------ MODULE DinasAgent ------------------------------
(***************************************************************************)
(* The agent program (src/agent) and the server's agents table together.   *)
(*                                                                         *)
(* An agent process registers, then runs two threads that share agent_id:  *)
(* the main thread pushes telemetry, the heartbeat thread sends            *)
(* heartbeats.  A 404 makes either of them register again.  Requests time  *)
(* out (the handler goes on without its client), handlers fail, the server *)
(* loses its table, processes are killed and started again.                *)
(***************************************************************************)
EXTENDS AgentRegistry

CONSTANTS
    Agents,       \* one agent program per machine, one name each
    HasTargets,   \* whether network_scope yields targets: else nothing is sent
    MaxStarts,    \* bound on the processes, for each agent
    MaxFaults,    \* bound on time-outs and failing handlers
    MaxForgets    \* bound on losses of the table

Threads == {"main", "heartbeat"}

ASSUME CallersAssumption ==
    /\ MaxStarts \in [Agents -> Nat]
    /\ Callers = UNION {{a} \X Threads \X (1 .. MaxStarts[a]) : a \in Agents}
    /\ Names = Agents
    /\ \A c \in Callers : NameOf[c] = c[1]

ASSUME BoundsAssumption == MaxFaults \in Nat /\ MaxForgets \in Nat

VARIABLES
    proc,      \* "off", "registering" (before the threads), "up", "exited", "killed"
    starts,    \* number of processes started so far
    agentId,   \* self.agent_id of the current process
    thread,    \* where each thread of the current process is
    faults, forgets

clientVars == <<proc, starts, agentId, thread>>
vars       == <<regVars, clientVars, faults, forgets>>

ThreadStates == {"none", "ready", "register", "waiting", "dead"}

Init ==
    /\ RegInit
    /\ proc = [a \in Agents |-> "off"]
    /\ starts = [a \in Agents |-> 0]
    /\ agentId = [a \in Agents |-> NoId]
    /\ thread = [a \in Agents |-> [t \in Threads |-> "none"]]
    /\ faults = 0
    /\ forgets = 0

Me(a, t) == <<a, t, starts[a]>>

Running(a) == proc[a] \in {"registering", "up"}

\* The handler's client still waits for it.
Awaited(c) == starts[c[1]] = c[3] /\ thread[c[1]][c[2]] = "waiting"

-----------------------------------------------------------------------------
(* The process.                                                            *)

NoThreads == [t \in Threads |-> "none"]

\* Faulty: heartbeats start before the registration is answered.
EagerThreads == [t \in Threads |-> IF t = "main" THEN "register" ELSE "ready"]

FirstThreads == [t \in Threads |-> IF t = "main" THEN "register" ELSE "none"]

Start(a) ==
    /\ ~ Running(a)
    /\ starts[a] < MaxStarts[a]
    /\ proc' = [proc EXCEPT ![a] = "registering"]
    /\ starts' = [starts EXCEPT ![a] = @ + 1]
    /\ agentId' = [agentId EXCEPT ![a] = NoId]
    /\ thread' = [thread EXCEPT ![a] = FirstThreads]
    /\ UNCHANGED <<regVars, faults, forgets>>

\* The heartbeat thread is a daemon: it ends with the process.
End(a, how) ==
    /\ proc' = [proc EXCEPT ![a] = how]
    /\ thread' = [thread EXCEPT ![a] = NoThreads]
    /\ UNCHANGED <<starts, agentId>>

Kill(a) ==
    /\ Running(a)
    /\ End(a, "killed")
    /\ UNCHANGED <<regVars, faults, forgets>>

-----------------------------------------------------------------------------
(* Requests.                                                               *)

Send(a, t, from, op, id) ==
    /\ thread[a][t] = from
    /\ Request(Me(a, t), op, id)
    /\ thread' = [thread EXCEPT ![a][t] = "waiting"]
    /\ UNCHANGED <<proc, starts, agentId, faults, forgets>>

SendRegister(a, t) == Send(a, t, "register", "register", NoId)

SendHeartbeat(a) == Send(a, "heartbeat", "ready", "heartbeat", agentId[a])

\* _collect_once returns early when there are no targets.
SendTelemetry(a) ==
    /\ HasTargets
    /\ Send(a, "main", "ready", "telemetry", agentId[a])

-----------------------------------------------------------------------------
(* Answers.                                                                *)

Become(a, t, state) ==
    /\ thread' = [thread EXCEPT ![a][t] = state]
    /\ UNCHANGED <<proc, starts, agentId>>

\* Faulty: a 404 is taken for any other error.
Ignored(a, t) == "ready"

\* Faulty: a 404 leaves the thread in a state of its own.
Lost(a, t) == "unregistered"

\* "Not found" in the error: register again.
AfterNotFound(a, t) == "register"

\* Faulty: the new id is not kept.
OldIdKept(a, id) == IF agentId[a] = NoId THEN id ELSE agentId[a]

IdKept(a, id) == id

\* The first registration starts the heartbeat thread.
RegisteredThreads(a, t) ==
    IF proc[a] = "registering"
      THEN [u \in Threads |-> "ready"]
      ELSE [thread[a] EXCEPT ![t] = "ready"]

Registered(a, t, id) ==
    /\ agentId' = [agentId EXCEPT ![a] = IdKept(a, id)]
    /\ thread' = [thread EXCEPT ![a] = RegisteredThreads(a, t)]
    /\ proc' = [proc EXCEPT ![a] = "up"]
    /\ UNCHANGED starts

\* SystemExit: the main thread's "except Exception" does not stop it, so the
\* process exits; the heartbeat loop catches it and returns.
RegistrationFailed(a, t) ==
    IF t = "main" THEN End(a, "exited") ELSE Become(a, t, "dead")

React(a, t, op, id, outcome) ==
    \/ op = "register" /\ outcome = "ok" /\ Registered(a, t, id)
    \/ op = "register" /\ outcome = "error" /\ RegistrationFailed(a, t)
    \/ op # "register" /\ outcome = "notfound" /\ Become(a, t, AfterNotFound(a, t))
    \/ op # "register" /\ outcome \in {"ok", "error"} /\ Become(a, t, "ready")

Receive(a, t) ==
    LET c == Me(a, t) IN
    /\ thread[a][t] = "waiting"
    /\ sess[c].stage \in Ended
    /\ React(a, t, sess[c].op, sess[c].id, sess[c].stage)
    /\ Release(c)
    /\ UNCHANGED <<faults, forgets>>

\* The request or its answer is lost or late.
Timeout(a, t) ==
    LET c == Me(a, t) IN
    /\ thread[a][t] = "waiting"
    /\ faults < MaxFaults
    /\ faults' = faults + 1
    /\ React(a, t, sess[c].op, NoId, "error")
    /\ UNCHANGED <<regVars, forgets>>

-----------------------------------------------------------------------------
(* The server's own steps.                                                 *)

Serve(c) == Handle(c) /\ UNCHANGED <<clientVars, faults, forgets>>

Fail(c) ==
    /\ HandlerFails(c)
    /\ IF Awaited(c) THEN faults < MaxFaults /\ faults' = faults + 1
                     ELSE faults' = faults
    /\ UNCHANGED <<clientVars, forgets>>

\* A handler nobody waits for ends.
Drain(c) ==
    /\ ~ Awaited(c)
    /\ Release(c)
    /\ UNCHANGED <<clientVars, faults, forgets>>

Lose == Forget /\ forgets < MaxForgets /\ forgets' = forgets + 1 /\ UNCHANGED <<clientVars, faults>>

Grow(i) == Age(i) /\ UNCHANGED <<clientVars, faults, forgets>>

Check == (HealthFind \/ HealthMark) /\ UNCHANGED <<clientVars, faults, forgets>>

CheckFails ==
    /\ HealthFails
    /\ faults < MaxFaults
    /\ faults' = faults + 1
    /\ UNCHANGED <<clientVars, forgets>>

-----------------------------------------------------------------------------
Client(a) ==
    \/ \E t \in Threads : SendRegister(a, t)
    \/ SendHeartbeat(a)
    \/ SendTelemetry(a)
    \/ \E t \in Threads : Receive(a, t)

Next ==
    \/ \E a \in Agents : Start(a) \/ Kill(a) \/ Client(a)
    \/ \E a \in Agents, t \in Threads : Timeout(a, t)
    \/ \E c \in Callers : Serve(c) \/ Fail(c) \/ Drain(c)
    \/ Lose
    \/ \E i \in Ids : Grow(i)
    \/ Check
    \/ CheckFails

Spec == Init /\ [][Next]_vars

\* Threads and handlers run, time passes, the health check is scheduled every
\* minute.  Nothing obliges anybody to start, kill, fail or forget.
Fairness ==
    /\ \A a \in Agents :
         /\ \A t \in Threads : WF_vars(SendRegister(a, t)) /\ WF_vars(Receive(a, t))
         /\ WF_vars(SendHeartbeat(a))
         /\ WF_vars(SendTelemetry(a))
    /\ \A c \in Callers : WF_vars(Serve(c)) /\ WF_vars(Drain(c))
    /\ \A i \in Ids : WF_vars(Grow(i))
    /\ WF_vars(Check)

FairSpec == Spec /\ Fairness

-----------------------------------------------------------------------------
(* Properties *)

TypeOK ==
    /\ RegTypeOK
    /\ proc \in [Agents -> {"off", "registering", "up", "exited", "killed"}]
    /\ \A a \in Agents : starts[a] \in 0 .. MaxStarts[a]
    /\ agentId \in [Agents -> Ids \cup {NoId}]
    /\ thread \in [Agents -> [Threads -> ThreadStates]]
    /\ faults \in 0 .. MaxFaults
    /\ forgets \in 0 .. MaxForgets

\* No agent sends a heartbeat or telemetry without an id, and the id it uses
\* was given out under its own name.
UsesOwnRow ==
    \A c \in Callers :
        sess[c].stage # "idle" /\ sess[c].op # "register" =>
            sess[c].id \in DOMAIN row /\ row[sess[c].id].name = c[1]

\* As long as the table is not lost, nobody is told that its agent is unknown:
\* re-registration happens for no other reason.
NotFoundOnlyAfterLoss ==
    forgets = 0 => \A c \in Callers : sess[c].stage # "notfound"

Known(a) == agentId[a] \in rows

\* An agent the table has lost is known again, or its process ends (and its
\* supervisor notices), or is killed: with targets to report on, time-outs and
\* failing handlers do not leave a process that runs unknown.
KnownAgainOrEnded ==
    \A a \in Agents : (proc[a] = "up" /\ ~ Known(a)) ~> (Known(a) \/ ~ Running(a))

\* With no time-out and no failing handler, the process that was forgotten is
\* itself known again, by its heartbeats or by the results it sends.
ReregistersUnlessFaults ==
    \A a \in Agents :
        (proc[a] = "up" /\ ~ Known(a)) ~> (Known(a) \/ proc[a] = "killed" \/ faults > 0)

\* README.md:63, "If the server restarts and forgets the agent, it
\* re-registers on its own": the same process is known again.
ReregistersOnItsOwn ==
    \A a \in Agents : (proc[a] = "up" /\ ~ Known(a)) ~> (Known(a) \/ proc[a] = "killed")

\* A row marked stale while its agent goes on becomes active again, although
\* a heartbeat that overlaps the check may fail to write the status, and
\* although its heartbeat thread may be gone (telemetry counts as one).
StaleRecovers ==
    \A a \in Agents :
        (proc[a] = "up" /\ Known(a) /\ row[agentId[a]].status = "stale")
            ~> (\/ ~ Running(a)
                \/ ~ Known(a)
                \/ row[agentId[a]].status = "active")

\* A row nobody uses any more (a duplicate, or that of a process that ended)
\* is eventually stale for good.
GhostsGoStale ==
    \A i \in Ids :
        <>[](\A a \in Agents : Running(a) => agentId[a] # i)
            => <>[](i \in rows => row[i].status = "stale")
=============================================================================
