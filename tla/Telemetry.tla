------------------------------- MODULE Telemetry -------------------------------
(***************************************************************************)
(* The two writers of device status and availability: the collector, which *)
(* pings from the server (one device for POST /telemetry/collect, all that *)
(* are not offline for a task), and the ingest of what agents push.  Each  *)
(* writer has a database session of its own; a commit expires everything   *)
(* the session has loaded, what is not expired is not read again, and a    *)
(* status is written only if it differs from what was loaded.              *)
(***************************************************************************)
EXTENDS Naturals, FiniteSets, Sequences

CONSTANTS
    Passes,      \* runs of collect_all_devices
    Singles,     \* requests to collect one device
    Reports,     \* requests that carry an agent's results
    AgentOf,     \* the agent of each of those requests
    Payloads,    \* the lists of results a request can carry
    Ips, Agents, NoAgent,
    Ids, NoId,
    MaxStarted,  \* bound on the writers that begin at all
    MaxFaults    \* bound on the statements that raise

ASSUME WritersAssumption ==
    /\ Passes \cap (Singles \cup Reports) = {} /\ Singles \cap Reports = {}
    /\ AgentOf \in [Reports -> Agents] /\ NoAgent \notin Agents
    /\ NoId \notin Ids /\ Ips # {}
    /\ MaxStarted \in Nat /\ MaxFaults \in Nat

\* A metric: availability "up" or "down", or some "other"; its timestamp is the
\* clock's or, if dated, one that the agent supplied.
Metric == [says : {"up", "down", "other"}, dated : BOOLEAN]

\* One result: its address, its status (none, or "unknown" for any that is not
\* one of the two), its valid metrics.
Result == [ip : Ips, status : {"online", "offline", "unknown", "none"},
           metrics : Seq(Metric)]

\* A request without results is refused; malformed results are skipped.
ASSUME PayloadsAssumption == Payloads \subseteq Seq(Result) \ {<<>>}

Writers == Passes \cup Singles \cup Reports

VARIABLES
    rows,    \* ids of the devices in the table
    dev,     \* every device: its columns, and its newest availability metric
    w,       \* where each writer is, and its local variables
    faults,  \* the number of statements that have raised
    last,    \* ghost: the last report that set a device's status
    crossed  \* ghost: addresses two requests were about to insert at a time

vars == <<rows, dev, w, faults, last, crossed>>

Statuses == {"online", "offline", "unknown"}

NoDevice == [ip |-> CHOOSE ip \in Ips : TRUE, agent |-> NoAgent, status |-> "unknown",
             avail |-> "none", dated |-> FALSE]

\* What each kind of statement leaves of the session when it raises: after a
\* flush or a COMMIT that failed it refuses every statement, but only the flush
\* has rolled back and so expired what was loaded.
Broken == [read |-> "sound", flush |-> "inactive", commit |-> "prepared"]

\* told are the devices a pass has metrics of in its results, unread those it
\* could not read (the others it dropped could not be written).
\* seen is the status loaded for the device; fresh: all the devices of a pass
\* are still loaded, as nothing has been committed since they were listed.
\* Ghosts: shared, another writer reported on the device meanwhile; stale, one
\* did after the status had been loaded for an earlier result.
Idle == [pc |-> "idle", listed |-> {}, todo |-> {}, told |-> {}, unread |-> {},
         results |-> <<>>,
         device |-> NoId, queue |-> <<>>, says |-> "none", avail |-> "none",
         seen |-> "expired", session |-> "sound", fresh |-> FALSE,
         shared |-> FALSE, stale |-> FALSE]

Init ==
    /\ rows = {}
    /\ dev = [i \in Ids |-> NoDevice]
    /\ w = [x \in Writers |-> Idle]
    /\ faults = 0
    /\ last = [i \in Ids |-> [says |-> "unknown", avail |-> "none", shared |-> FALSE]]
    /\ crossed = {}

-----------------------------------------------------------------------------
(* Statements and sessions.                                                *)

At(x, place) == w[x].pc = place

Sound(x) == w[x].session = "sound"

\* A statement raises; on a broken session every one does.
Raises(x) ==
    IF Sound(x) THEN faults < MaxFaults /\ faults' = faults + 1 ELSE UNCHANGED faults

Works(x) == Sound(x) /\ UNCHANGED faults

SessionAfter(x, kind) == IF Sound(x) THEN Broken[kind] ELSE w[x].session

\* The attributes of x's device are in memory still when a statement has raised.
InMemory(x, kind) ==
    SessionAfter(x, kind) # "inactive" /\ (w[x].fresh \/ w[x].seen # "expired")

\* Faulty: a status that is known already is kept.
KeptIfKnown(status, seen, says) == IF seen = "unknown" THEN says ELSE status

\* A column is written only if its value differs from the one loaded.
StatusWritten(status, seen, says) == IF seen = says THEN status ELSE says

Reporting == {"refresh", "record", "status", "write"}

Active(x, i) == w[x].device = i /\ w[x].pc \in Reporting

Others(x, i) == {y \in Writers \ {x} : Active(y, i)}

\* x begins its report on i; who has i loaded, to report on or from a result it
\* has dealt with, is overtaken by it.
Begins(x, i, me) ==
    w' = [y \in Writers |->
            IF y = x THEN [me EXCEPT !.device = i, !.shared = Others(x, i) # {}]
            ELSE IF w[y].device = i THEN [w[y] EXCEPT !.shared = TRUE] ELSE w[y]]

\* Where the availability metrics of a list are, and those of them that carry the
\* clock's time; the first and the last of a set.
AvailAt(metrics) == {k \in DOMAIN metrics : metrics[k].says # "other"}

UndatedAt(metrics) == {k \in AvailAt(metrics) : ~ metrics[k].dated}

Oldest(S) == CHOOSE k \in S : \A l \in S : k <= l

Newest(S) == CHOOSE k \in S : \A l \in S : l <= k

\* The writer lets go of its device.  Who fails answers 500, or the task notes
\* its error: nothing of the writer is left.
Leave(x, place, me) ==
    w' = [w EXCEPT ![x] =
            IF place = "failed" THEN [Idle EXCEPT !.pc = place]
            ELSE [me EXCEPT !.pc = place, !.device = NoId, !.queue = <<>>, !.says = "none",
                            !.avail = "none", !.seen = "expired", !.shared = FALSE,
                            !.stale = FALSE]]

\* An exception inside the work on a device.  The pass catches it, the
\* handlers of single requests answer 500.
Caught(x, kind) ==
    CASE x \notin Passes -> "failed"
      [] x \in Passes /\ InMemory(x, kind)   -> "caught"
      [] x \in Passes /\ ~ InMemory(x, kind) -> "except"

Abandon(x, kind) ==
    LET session == SessionAfter(x, kind)
        unread  == IF kind = "read" THEN {w[x].device} ELSE {} IN
    /\ Raises(x)
    /\ Leave(x, Caught(x, kind),
             [w[x] EXCEPT !.session = session, !.fresh = @ /\ session # "inactive",
                          !.unread = @ \cup unread])
    /\ UNCHANGED <<rows, dev, last, crossed>>

-----------------------------------------------------------------------------
(* Choosing a device.                                                      *)

NewId == CHOOSE i \in Ids \ rows : TRUE

\* A device that discovery found before the writers start (DiscoveryJob has
\* the scans themselves).
Discover(ip) ==
    /\ \A x \in Writers : At(x, "idle")
    /\ \A i \in rows : dev[i].ip # ip
    /\ Ids \ rows # {}
    /\ rows' = rows \cup {NewId}
    /\ dev' = [dev EXCEPT ![NewId] = [ip |-> ip, agent |-> NoAgent, status |-> "online",
                                      avail |-> "none", dated |-> FALSE]]
    /\ last' = [last EXCEPT ![NewId].says = "online"]
    /\ UNCHANGED <<w, faults, crossed>>

\* A writer begins, within the bound.
Starts(x) ==
    /\ At(x, "idle")
    /\ Cardinality({y \in Writers : ~ At(y, "idle")}) < MaxStarted

Listed == {i \in rows : dev[i].status # "offline"}

StartPass(x) ==
    /\ x \in Passes
    /\ Starts(x)
    /\ \/ /\ w' = [w EXCEPT ![x].pc = "next", ![x].listed = Listed, ![x].todo = Listed,
                         ![x].fresh = TRUE]
          /\ Works(x)
       \/ Leave(x, "failed", w[x]) /\ Raises(x)
    /\ UNCHANGED <<rows, dev, last, crossed>>

\* Whether a device answers a ping.  Output that cannot be read, a time-out and
\* a ping program that is missing all count as no answer.
Answering == BOOLEAN

Undated(value) == [says |-> value, dated |-> FALSE]

\* The metrics and the status a ping leads to.
Pinged(up) ==
    IF up THEN [queue |-> <<Undated("other"), Undated("up"), Undated("other")>>,
                says |-> "online", avail |-> "up"]
          ELSE [queue |-> <<Undated("down")>>, says |-> "offline", avail |-> "down"]

Collect(x, i, up) ==
    LET ping == Pinged(up) IN
    /\ Begins(x, i, [w[x] EXCEPT !.pc = "record", !.todo = @ \ {i}, !.queue = ping.queue,
                                 !.says = ping.says, !.avail = ping.avail,
                                 !.seen = dev[i].status])
    /\ UNCHANGED <<rows, dev, last, crossed>>

\* The next device of a pass; its attributes have to be read again if there was
\* a commit since the devices were listed.
CollectNext(x, i, up) ==
    /\ At(x, "next")
    /\ i \in w[x].todo
    /\ IF w[x].fresh THEN UNCHANGED faults ELSE Works(x)
    /\ Collect(x, i, up)

\* Reading them, in the try block, raises.
NextUnreadable(x, i) ==
    /\ At(x, "next")
    /\ i \in w[x].todo
    /\ ~ w[x].fresh
    /\ Raises(x)
    /\ w' = [w EXCEPT ![x].pc = "except", ![x].todo = @ \ {i},
                      ![x].unread = IF Sound(x) THEN @ \cup {i} ELSE @]
    /\ UNCHANGED <<rows, dev, last, crossed>>

CollectOne(x, i, up) ==
    /\ x \in Singles
    /\ Starts(x)
    /\ i \in rows
    /\ UNCHANGED faults
    /\ Collect(x, i, up)

\* Faulty: the address in the message was kept in a variable.
Unread(x) == UNCHANGED faults

\* The except branch reads device.ip_address for its message: attributes that
\* are expired have to be loaded, by a session that may refuse to.
MessageRead(x) == Works(x)

Except(x) ==
    /\ \/ At(x, "caught") /\ UNCHANGED faults /\ Leave(x, "next", w[x])
       \/ At(x, "except") /\ MessageRead(x) /\ Leave(x, "next", w[x])
       \/ At(x, "except") /\ Raises(x) /\ Leave(x, "failed", w[x])
    /\ UNCHANGED <<rows, dev, last, crossed>>

FinishPass(x) ==
    /\ At(x, "next")
    /\ w[x].todo = {}
    /\ w' = [w EXCEPT ![x].pc = "completed"]
    /\ UNCHANGED <<rows, dev, faults, last, crossed>>

-----------------------------------------------------------------------------
(* What an agent pushes, result by result.                                 *)

StartReport(x, payload) ==
    /\ x \in Reports
    /\ Starts(x)
    /\ w' = [w EXCEPT ![x].pc = "result", ![x].results = payload]
    /\ UNCHANGED <<rows, dev, faults, last, crossed>>

\* result["status"] unless it is neither of the two; if there is none, what the
\* first availability metric says.
StatusOf(r) ==
    LET at == AvailAt(r.metrics) IN
    CASE r.status \in {"online", "offline"} -> r.status
      [] r.status = "none" /\ at # {} /\ r.metrics[Oldest(at)].says = "up"   -> "online"
      [] r.status = "none" /\ at # {} /\ r.metrics[Oldest(at)].says = "down" -> "offline"
      [] OTHER -> "none"

NewestAvail(metrics) ==
    LET at == UndatedAt(metrics) IN IF at = {} THEN "none" ELSE metrics[Newest(at)].says

\* Faulty: the status is updated inside the loop over the metrics.
AfterFirst(queue, says) == IF says = "none" THEN "touched" ELSE "status"

\* Where the work on a result goes when so much of it is left.
After(queue, says) ==
    CASE queue # <<>> -> "record"
      [] queue = <<>> /\ says # "none" -> "status"
      [] queue = <<>> /\ says = "none" -> "touched"

\* The status is still loaded from the result before, of the same device.
Holds(x, i) == w[x].device = i /\ w[x].seen # "expired"

\* The query leaves a loaded instance as it is.
Loaded(x, i) == IF Holds(x, i) THEN w[x].seen ELSE dev[i].status

ReportOn(x, i, seen) ==
    LET r == Head(w[x].results) IN
    Begins(x, i, [w[x] EXCEPT !.pc = After(r.metrics, StatusOf(r)), !.queue = r.metrics,
                              !.says = StatusOf(r), !.avail = NewestAvail(r.metrics),
                              !.seen = seen,
                              !.stale = Holds(x, i) /\ (w[x].shared \/ w[x].stale)])

\* Faulty: only a device of the same agent counts.
OwnAt(x, ip) == {i \in rows : dev[i].ip = ip /\ dev[i].agent = AgentOf[x]}

\* find_by_ip is called without an agent.
FoundAt(x, ip) == {i \in rows : dev[i].ip = ip}

Creating == {"create", "insert"}

FindDevice(x) ==
    /\ At(x, "result")
    /\ LET ip == Head(w[x].results).ip IN
         \/ /\ \E i \in FoundAt(x, ip) : ReportOn(x, i, Loaded(x, i))
            /\ UNCHANGED crossed
         \/ /\ FoundAt(x, ip) = {}
            /\ Leave(x, "create", w[x])
            /\ crossed' = IF \E y \in Reports : /\ w[y].pc \in Creating
                                                /\ Head(w[y].results).ip = ip
                            THEN crossed \cup {ip} ELSE crossed
    /\ Works(x)
    /\ UNCHANGED <<rows, dev, last>>

Key(x) == {i \in rows : dev[i].ip = Head(w[x].results).ip /\ dev[i].agent = AgentOf[x]}

\* Faulty: a missing status is stored as it is.
AsGiven(r) == r.status

\* result.get("status", "online")
CreateStatus(r) == IF r.status = "none" THEN "online" ELSE r.status

\* create_or_update looks again, for a device of this agent.
SelectOwn(x) ==
    /\ At(x, "create")
    /\ \/ Key(x) = {} /\ w' = [w EXCEPT ![x].pc = "insert"]
       \/ \E i \in Key(x) :
            Begins(x, i, [w[x] EXCEPT !.pc = "refresh", !.seen = dev[i].status,
                                      !.says = CreateStatus(Head(w[x].results))])
    /\ Works(x)
    /\ UNCHANGED <<rows, dev, last, crossed>>

\* The unique constraint on address and agent.
Refused(x) == Key(x) # {}

Insert(x) ==
    LET r == Head(w[x].results) IN
    /\ At(x, "insert")
    /\ ~ Refused(x)
    /\ Ids \ rows # {}
    /\ rows' = rows \cup {NewId}
    /\ dev' = [dev EXCEPT ![NewId] = [ip |-> r.ip, agent |-> AgentOf[x],
                                      status |-> CreateStatus(r), avail |-> "none",
                                      dated |-> FALSE]]
    /\ last' = [last EXCEPT ![NewId].says = CreateStatus(r)]
    /\ ReportOn(x, NewId, "expired")
    /\ Works(x)
    /\ UNCHANGED crossed

InsertRefused(x) ==
    /\ At(x, "insert")
    /\ Refused(x)
    /\ Leave(x, "failed", w[x])
    /\ UNCHANGED <<rows, dev, faults, last, crossed>>

\* It was there after all: the result goes on with what is left of it.
RefreshOwn(x) ==
    LET i == w[x].device  r == Head(w[x].results) IN
    /\ At(x, "refresh")
    /\ dev' = [dev EXCEPT ![i].status = StatusWritten(@, w[x].seen, w[x].says)]
    /\ last' = [last EXCEPT ![i] = [says |-> w[x].says, avail |-> "none", shared |-> w[x].shared]]
    /\ w' = [w EXCEPT ![x].pc = After(r.metrics, StatusOf(r)), ![x].queue = r.metrics,
                      ![x].says = StatusOf(r), ![x].avail = NewestAvail(r.metrics),
                      ![x].seen = "expired"]
    /\ Works(x)
    /\ UNCHANGED <<rows, crossed>>

-----------------------------------------------------------------------------
(* Reporting on a device: a commit per metric, then the status.            *)

\* The newest availability metric is the one with the latest timestamp: the one
\* recorded last, unless one of the two carries an agent's, or the writer of
\* another took its time at about the same moment.
StaysNewest(x, m) ==
    LET i == w[x].device IN
    m.says = "other" \/ (dev[i].avail # "none" /\ (m.dated \/ dev[i].dated \/ w[x].shared))

\* A metric that carries the clock's time leaves the availability that came with
\* the last status behind (a ghost's concern: the status comes later, if at all).
Supersedes(x, m) ==
    last' = IF m.says = "other" \/ m.dated THEN last
            ELSE [last EXCEPT ![w[x].device].avail = "none"]

Record(x) ==
    LET i == w[x].device  m == Head(w[x].queue) IN
    /\ At(x, "record")
    /\ \/ StaysNewest(x, m) /\ UNCHANGED dev
       \/ /\ m.says # "other"
          /\ dev' = [dev EXCEPT ![i].avail = m.says, ![i].dated = m.dated]
    /\ Supersedes(x, m)
    /\ w' = [w EXCEPT ![x].queue = Tail(@), ![x].seen = "expired", ![x].fresh = FALSE,
                      ![x].stale = FALSE, ![x].pc = After(Tail(w[x].queue), w[x].says)]
    /\ Works(x)
    /\ UNCHANGED <<rows, crossed>>

\* Device.query.get: a SELECT only if the session has nothing to return.
ReadStatus(x) ==
    /\ At(x, "status")
    /\ w' = [w EXCEPT ![x].pc = "write",
                      ![x].seen = IF @ = "expired" THEN dev[w[x].device].status ELSE @]
    /\ Works(x)
    /\ UNCHANGED <<rows, dev, last, crossed>>

WriteStatus(x) ==
    LET i == w[x].device  me == w[x] IN
    /\ At(x, "write")
    /\ dev' = [dev EXCEPT ![i].status = StatusWritten(@, me.seen, me.says)]
    /\ last' = [last EXCEPT ![i] = [says |-> me.says, avail |-> me.avail,
                                    shared |-> me.shared \/ me.stale]]
    /\ IF x \in Singles
         THEN Leave(x, "completed", me)
         ELSE w' = [w EXCEPT ![x].pc = "touched", ![x].seen = "expired",
                             ![x].stale = FALSE]
    /\ Works(x)
    /\ UNCHANGED <<rows, crossed>>

\* results[device.id] = metrics: the id is read again.
Collected(x) ==
    /\ At(x, "touched")
    /\ x \in Passes
    /\ Leave(x, "next", [w[x] EXCEPT !.told = @ \cup {w[x].device}])
    /\ Works(x)
    /\ UNCHANGED <<rows, dev, last, crossed>>

\* devices_touched.add(device.id): the device stays bound, and loaded, until the
\* next result of the request, if there is one.
Touch(x) ==
    LET i == w[x].device  read == w[x].seen = "expired"  left == Tail(w[x].results) IN
    /\ At(x, "touched")
    /\ x \in Reports
    /\ IF left = <<>>
         THEN Leave(x, "completed", [w[x] EXCEPT !.results = <<>>])
         ELSE w' = [w EXCEPT ![x].pc = "result", ![x].results = left, ![x].queue = <<>>,
                             ![x].says = "none", ![x].avail = "none",
                             ![x].seen = IF read THEN dev[i].status ELSE @,
                             ![x].shared = IF read THEN Others(x, i) # {} ELSE @]
    /\ Works(x)
    /\ UNCHANGED <<rows, dev, last, crossed>>

\* The places where a statement is about to be run.
Reading(x) ==
    \/ w[x].pc \in {"result", "create"}
    \/ w[x].pc \in {"status", "touched"} /\ w[x].seen = "expired"

Writing(x) == w[x].pc \in {"insert", "refresh", "record", "write"}

\* A pass has nothing to flush if the status is as it was loaded; an agent's
\* report always writes last_seen.
Flushing(x) ==
    Writing(x) /\ ~ (At(x, "write") /\ x \notin Reports /\ w[x].seen = w[x].says)

Fails(x) ==
    \/ Reading(x)  /\ Abandon(x, "read")
    \/ Flushing(x) /\ Abandon(x, "flush")
    \/ Writing(x)  /\ Abandon(x, "commit")

-----------------------------------------------------------------------------
Step(x) ==
    \/ StartPass(x) \/ FinishPass(x) \/ Except(x)
    \/ \E i \in rows, up \in Answering : CollectNext(x, i, up) \/ CollectOne(x, i, up)
    \/ \E i \in rows : NextUnreadable(x, i)
    \/ \E payload \in Payloads : StartReport(x, payload)
    \/ FindDevice(x) \/ SelectOwn(x) \/ Insert(x) \/ InsertRefused(x) \/ RefreshOwn(x)
    \/ Record(x) \/ ReadStatus(x) \/ WriteStatus(x) \/ Collected(x) \/ Touch(x)
    \/ Fails(x)

Next ==
    \/ \E ip \in Ips : Discover(ip)
    \/ \E x \in Writers : Step(x)

Spec == Init /\ [][Next]_vars

-----------------------------------------------------------------------------
(* Properties.                                                             *)

Values == {"up", "down", "none"}

TypeOK ==
    /\ rows \subseteq Ids
    /\ dev \in [Ids -> [ip : Ips, agent : Agents \cup {NoAgent}, status : Statuses,
                       avail : Values, dated : BOOLEAN]]
    /\ faults \in 0 .. MaxFaults
    /\ last \in [Ids -> [says : Statuses, avail : Values, shared : BOOLEAN]]
    /\ crossed \subseteq Ips
    /\ \A x \in Writers :
         /\ w[x].pc \in {"idle", "next", "caught", "except", "result", "create", "insert",
                         "touched", "completed", "failed"} \cup Reporting
         /\ w[x].listed \cup w[x].todo \cup w[x].told \cup w[x].unread \subseteq rows
         /\ w[x].device \in rows \cup {NoId}
         /\ w[x].says \in Statuses \cup {"none"}
         /\ w[x].avail \in Values
         /\ w[x].seen \in Statuses \cup {"expired"}
         /\ w[x].session \in {"sound", "inactive", "prepared"}
         /\ w[x].fresh \in BOOLEAN /\ w[x].shared \in BOOLEAN /\ w[x].stale \in BOOLEAN

Quiet(i) == \A x \in Writers : ~ Active(x, i)

\* Between reports a device's status is that of the last report that set it,
\* although a status equal to the one loaded is never written: only a report can
\* be lost that overlapped another one of the same device, or that followed a
\* result of the same request and was judged by the status loaded for that one,
\* before another writer's report.
LastReportStands ==
    \A i \in rows : Quiet(i) /\ ~ last[i].shared => dev[i].status = last[i].says

\* Status and availability are written in separate transactions, and reports may
\* be cut short between them; but when the last status came with an availability
\* metric and no availability was recorded after it, that metric is the newest,
\* unless reports overlapped or the newest carries a timestamp of an agent.
AvailabilityTellsStatus ==
    \A i \in rows :
        Quiet(i) /\ ~ last[i].shared /\ ~ dev[i].dated /\ last[i].avail # "none"
        => dev[i].avail = last[i].avail

\* A pass that is reported completed has stored metrics and status of every
\* device it listed but for those it could not read.  It hides no failed flush
\* (its own except branch then raises: collector.py 71-74); it hides a failed
\* COMMIT only if that was its first, and then it has stored nothing, or the one
\* of the status of its last device.
CompletedPassIsWhole ==
    \A x \in Passes :
        LET missed == w[x].listed \ (w[x].told \cup w[x].unread) IN
        At(x, "completed") /\ missed # {} =>
          /\ w[x].session = "prepared"
          /\ w[x].told = {} \/ \E i \in missed : missed = {i}

\* Whoever reports an address, there is one device for it, unless two requests
\* were between finding none and inserting theirs at the same time; then there
\* is one for each agent.
OneDeviceUnlessCrossed ==
    \A i, j \in rows :
        dev[i].ip = dev[j].ip /\ i # j =>
            dev[i].ip \in crossed /\ dev[i].agent # dev[j].agent
===============================================================================
