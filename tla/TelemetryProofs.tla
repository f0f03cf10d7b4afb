---------------------------- MODULE TelemetryProofs ----------------------------
(***************************************************************************)
(* Theorems about the writers of status and availability, for any number   *)
(* of passes and requests, devices and agents, any lists of results, and   *)
(* any statements that raise.                                              *)
(*                                                                         *)
(* The effect lemmas say what each action does to the writer that takes it *)
(* and that it leaves the others alone, but for the ghost that marks a     *)
(* report as shared.  On top of them stand the invariants: HoldsOK (where  *)
(* a writer is and what it holds), SharedOf (who is alone has seen the     *)
(* status there is), StandsOK, CrossedOK, MissedOK and AvailOf.            *)
(***************************************************************************)
EXTENDS Telemetry, SequenceTheorems, WellFoundedInduction, TLAPS

Places == {"idle", "next", "caught", "except", "result", "create", "insert", "refresh",
           "record", "status", "write", "touched", "completed", "failed"}

Writer == [pc : Places, listed : SUBSET Ids, todo : SUBSET Ids, told : SUBSET Ids,
           unread : SUBSET (Ids \cup {NoId}), results : Seq(Result), device : Ids \cup {NoId},
           queue : Seq(Metric), says : Statuses \cup {"none"}, avail : Values,
           seen : Statuses \cup {"expired"}, session : {"sound", "inactive", "prepared"},
           fresh : BOOLEAN, shared : BOOLEAN, stale : BOOLEAN]

Device == [ip : Ips, agent : Agents \cup {NoAgent}, status : Statuses, avail : Values,
           dated : BOOLEAN]

Report == [says : Statuses, avail : Values, shared : BOOLEAN]

BaseType ==
    /\ rows \subseteq Ids
    /\ dev \in [Ids -> Device]
    /\ w \in [Writers -> Writer]
    /\ faults \in 0 .. MaxFaults
    /\ last \in [Ids -> Report]
    /\ crossed \subseteq Ips

\* What a writer holds is in the table.
HoldsRows(x) ==
    /\ w[x].listed \cup w[x].todo \cup w[x].told \cup w[x].unread \subseteq rows
    /\ w[x].device \in rows \cup {NoId}
    /\ w[x].pc \in Reporting \cup {"touched"} => w[x].device # NoId
    /\ w[x].pc \notin Reporting \cup {"touched", "result"} => w[x].device = NoId

\* It is where its kind may be.
KindOK(x) ==
    /\ w[x].pc \in {"result", "refresh"} \cup Creating => x \in Reports
    /\ w[x].pc \in {"next", "caught", "except"} => x \in Passes
    /\ w[x].pc = "touched" => x \notin Singles
    /\ x \in Reports /\ w[x].pc \in {"result", "touched"} \cup Creating \cup Reporting
         => w[x].results # <<>>
    /\ x \in Passes /\ w[x].pc = "completed" => w[x].todo = {}
    /\ w[x].pc = "idle" => w[x].told = {} /\ w[x].unread = {}

\* A session is broken only in a pass: in its except branch, and from there on if
\* what it needs is still loaded.
SessionOK(x) ==
    /\ x \notin Passes => Sound(x)
    /\ ~ Sound(x) => \/ w[x].pc \in {"next", "caught", "except", "completed"}
                     \/ w[x].pc = "record" /\ w[x].fresh
    /\ w[x].session = "inactive" => w[x].pc = "except"
    /\ w[x].fresh => /\ x \in Passes /\ w[x].told = {}
                     /\ w[x].pc \in {"next", "record", "caught", "completed"}

\* What it has left to tell of its device.
ReportOK(x) ==
    /\ w[x].pc = "record" <=> w[x].queue # <<>>
    /\ w[x].pc \in {"refresh", "status", "write"} => w[x].says # "none"
    /\ w[x].pc \in {"refresh", "write"} => w[x].seen # "expired"
    /\ x \notin Reports /\ w[x].device # NoId => w[x].says # "none"
    /\ w[x].pc \in {"create", "refresh"} => ~ w[x].stale

\* The devices a pass has dropped though it could read them: none on a sound
\* session; one, its last, when a COMMIT failed and not all were still loaded.
Missed(x) ==
    w[x].listed \ (w[x].told \cup w[x].todo \cup w[x].unread \cup {w[x].device})

MissedOK(x) ==
    x \in Passes =>
      /\ Sound(x) => Missed(x) = {}
      /\ w[x].pc # "except" /\ ~ w[x].fresh => \E i : Missed(x) \subseteq {i}

HoldsOK(x) == HoldsRows(x) /\ KindOK(x) /\ SessionOK(x) /\ ReportOK(x) /\ MissedOK(x)

FreshOK == \A i \in Ids \ rows : last[i].avail = "none"

HoldsAll == FreshOK /\ \A x \in Writers : HoldsOK(x)

\* Who holds a device while another one reports on it is marked; and who is not,
\* nor was when it loaded the status, has loaded the status there is.
SharedOf(x) ==
    /\ w[x].device # NoId /\ ~ w[x].shared
         => \A y \in Writers : y # x => ~ Active(y, w[x].device)
    /\ w[x].device # NoId /\ ~ w[x].shared /\ ~ w[x].stale /\ w[x].seen # "expired"
         => w[x].seen = dev[w[x].device].status

SharedAll == \A x \in Writers : SharedOf(x)

StandsOK == \A i \in rows : ~ last[i].shared => dev[i].status = last[i].says

\* The address a request is about to insert, and what it knows of its rivals.
Wanted(x) == Head(w[x].results).ip

RivalsOK(x) ==
    w[x].pc \in Creating =>
      /\ \A i \in rows : dev[i].ip = Wanted(x) => Wanted(x) \in crossed
      /\ \A y \in Writers :
           y # x /\ w[y].pc \in Creating /\ Wanted(y) = Wanted(x) => Wanted(x) \in crossed

CrossedOK == OneDeviceUnlessCrossed /\ \A x \in Writers : RivalsOK(x)

\* A writer alone on its device has recorded the availability it will tell, or
\* still has it to record.
Telling(x) == w[x].pc \in {"record", "status", "write"} /\ ~ w[x].shared

Told(i, avail) == avail # "none" /\ ~ dev[i].dated => dev[i].avail = avail

AvailOf(x) ==
    Telling(x) => IF NewestAvail(w[x].queue) = "none" THEN Told(w[x].device, w[x].avail)
                  ELSE NewestAvail(w[x].queue) = w[x].avail

AvailRow(i) == ~ last[i].shared => Told(i, last[i].avail)

AvailOK == (\A x \in Writers : AvailOf(x)) /\ (\A i \in rows : AvailRow(i))

TelInv == BaseType /\ HoldsAll /\ SharedAll /\ StandsOK /\ CrossedOK /\ AvailOK

-----------------------------------------------------------------------------
(* The first and the last availability metric of a list.                   *)

LEMMA LeastExists ==
    ASSUME NEW S \in SUBSET Nat, S # {}
    PROVE  \E k \in S : \A l \in S : k <= l
<1>1. PICK k \in S : \A l \in S : ~ (<<l, k>> \in OpToRel(<, Nat))
  BY WFMin, NatLessThanWellFounded
<1>2. ASSUME NEW l \in S PROVE k <= l
  <2>1. <<l, k>> \in Nat \X Nat /\ <<l, k>>[1] = l /\ <<l, k>>[2] = k
    OBVIOUS
  <2>2. ~ (l < k)
    BY <1>1, <2>1 DEF OpToRel
  <2> QED BY <2>2
<1> QED BY <1>2

LEMMA GreatestExists ==
    ASSUME NEW n \in Nat, NEW S \in SUBSET (1 .. n), S # {}
    PROVE  \E k \in S : \A l \in S : l <= k
<1> DEFINE T == {n - k : k \in S}
<1>1. T \in SUBSET Nat /\ T # {}
  <2>1. \A k \in S : n - k \in Nat
    OBVIOUS
  <2> QED BY <2>1
<1>2. PICK t \in T : \A u \in T : t <= u
  BY <1>1, LeastExists
<1>3. PICK k \in S : t = n - k
  BY <1>2
<1>4. ASSUME NEW l \in S PROVE l <= k
  <2>1. n - l \in T
    OBVIOUS
  <2>2. n - k <= n - l
    BY <1>2, <1>3, <2>1
  <2> QED BY <2>2
<1> QED BY <1>4

LEMMA OldestIsFirst ==
    ASSUME NEW q \in Seq(Metric), AvailAt(q) # {}
    PROVE  q[Oldest(AvailAt(q))].says \in {"up", "down"}
<1>1. AvailAt(q) \in SUBSET Nat
  BY LenProperties DEF AvailAt
<1>2. Oldest(AvailAt(q)) \in AvailAt(q)
  BY <1>1, LeastExists DEF Oldest
<1>3. \A k \in DOMAIN q : q[k] \in Metric
  BY LenProperties, ElementOfSeq
<1> QED BY <1>2, <1>3 DEF AvailAt, Metric

LEMMA NewestIsLast ==
    ASSUME NEW q \in Seq(Metric), UndatedAt(q) # {}
    PROVE  /\ Newest(UndatedAt(q)) \in UndatedAt(q)
           /\ q[Newest(UndatedAt(q))].says \in {"up", "down"}
           /\ \A l \in UndatedAt(q) : l <= Newest(UndatedAt(q))
<1>1. UndatedAt(q) \in SUBSET (1 .. Len(q)) /\ Len(q) \in Nat
  BY LenProperties DEF UndatedAt, AvailAt
<1>2. /\ Newest(UndatedAt(q)) \in UndatedAt(q)
      /\ \A l \in UndatedAt(q) : l <= Newest(UndatedAt(q))
  BY <1>1, GreatestExists DEF Newest
<1>3. \A k \in DOMAIN q : q[k] \in Metric
  BY LenProperties, ElementOfSeq
<1> QED BY <1>2, <1>3 DEF UndatedAt, AvailAt, Metric

LEMMA NewestAvailType ==
    ASSUME NEW q \in Seq(Metric)
    PROVE  /\ NewestAvail(q) \in Values
           /\ NewestAvail(q) = "none" <=> UndatedAt(q) = {}
  BY NewestIsLast DEF NewestAvail, Values

LEMMA StatusOfType ==
    ASSUME NEW r \in Result
    PROVE  StatusOf(r) \in {"online", "offline", "none"}
<1>1. r.metrics \in Seq(Metric) /\ r.status \in {"online", "offline", "unknown", "none"}
  BY DEF Result
<1> QED BY <1>1, OldestIsFirst DEF StatusOf

\* The newest availability metric is that of the rest of the list, or else its head.
Counts(m) == m.says # "other" /\ ~ m.dated

LEMMA NewestOfTail ==
    ASSUME NEW q \in Seq(Metric), q # <<>>
    PROVE  NewestAvail(q) = IF NewestAvail(Tail(q)) # "none" THEN NewestAvail(Tail(q))
                            ELSE IF Counts(Head(q)) THEN Head(q).says ELSE "none"
<1> DEFINE t == Tail(q)
<1>1. /\ t \in Seq(Metric) /\ Len(t) = Len(q) - 1 /\ Len(q) \in Nat /\ Len(t) \in Nat
      /\ \A k \in 1 .. Len(t) : t[k] = q[k + 1]
      /\ DOMAIN t = 1 .. Len(t) /\ DOMAIN q = 1 .. Len(q)
      /\ Head(q) = q[1] /\ Len(q) > 0
  BY HeadTailProperties, LenProperties, EmptySeq
<1> HIDE DEF t
<1>2. \A k \in 1 .. Len(t) : k \in UndatedAt(t) <=> k + 1 \in UndatedAt(q)
  BY <1>1 DEF UndatedAt, AvailAt
<1>3. CASE UndatedAt(t) # {}
  <2> DEFINE m == Newest(UndatedAt(t))
  <2>1. m \in UndatedAt(t) /\ \A l \in UndatedAt(t) : l <= m
    BY <1>1, <1>3, NewestIsLast
  <2> HIDE DEF m
  <2>2. m \in 1 .. Len(t)
    BY <1>1, <2>1 DEF UndatedAt, AvailAt
  <2>3. m + 1 \in UndatedAt(q)
    BY <1>2, <2>1, <2>2
  <2>4. ASSUME NEW l \in UndatedAt(q) PROVE l <= m + 1
    <3>1. l \in 1 .. Len(q)
      BY <1>1 DEF UndatedAt, AvailAt
    <3>2. CASE l = 1
      BY <2>2, <3>2
    <3>3. CASE l # 1
      <4>1. l - 1 \in 1 .. Len(t) /\ (l - 1) + 1 = l
        BY <1>1, <3>1, <3>3
      <4>2. l - 1 \in UndatedAt(t)
        BY <1>2, <4>1
      <4>3. l - 1 <= m
        BY <2>1, <4>2
      <4> QED BY <3>1, <2>2, <4>3
    <3> QED BY <3>2, <3>3
  <2> DEFINE n == Newest(UndatedAt(q))
  <2>5. n \in UndatedAt(q) /\ \A l \in UndatedAt(q) : l <= n
    BY <2>3, NewestIsLast
  <2> HIDE DEF n
  <2>6. n \in Nat /\ m + 1 <= n /\ n <= m + 1
    BY <1>1, <2>3, <2>4, <2>5 DEF UndatedAt, AvailAt
  <2>7. n = m + 1 /\ q[n] = t[m]
    BY <1>1, <2>2, <2>6
  <2>8. NewestAvail(q) = q[n].says /\ NewestAvail(t) = t[m].says
    BY <1>3, <2>3 DEF NewestAvail, n, m
  <2>9. NewestAvail(t) # "none"
    BY <1>1, <1>3, NewestAvailType
  <2> QED BY <2>7, <2>8, <2>9 DEF t
<1>4. CASE UndatedAt(t) = {}
  <2>1. NewestAvail(t) = "none"
    BY <1>4 DEF NewestAvail
  <2>2. ASSUME NEW l \in UndatedAt(q) PROVE l = 1
    <3>1. l \in 1 .. Len(q)
      BY <1>1 DEF UndatedAt, AvailAt
    <3>2. l # 1 => l - 1 \in 1 .. Len(t) /\ (l - 1) + 1 = l
      BY <1>1, <3>1
    <3> QED BY <3>2, <1>2, <1>4
  <2>3. 1 \in UndatedAt(q) <=> Counts(Head(q))
    BY <1>1 DEF UndatedAt, AvailAt, Counts
  <2>4. CASE Counts(Head(q))
    <3>1. UndatedAt(q) = {1}
      BY <2>2, <2>3, <2>4
    <3>2. Newest(UndatedAt(q)) = 1
      BY <3>1, NewestIsLast
    <3> QED BY <1>1, <2>1, <2>4, <3>1, <3>2 DEF NewestAvail, t
  <2>5. CASE ~ Counts(Head(q))
    <3>1. UndatedAt(q) = {}
      BY <2>2, <2>3, <2>5
    <3> QED BY <2>1, <2>5, <3>1 DEF NewestAvail, t
  <2> QED BY <2>4, <2>5
<1> QED BY <1>3, <1>4

LEMMA NoneLeft == NewestAvail(<<>>) = "none"
<1>1. UndatedAt(<<>>) = {}
  BY DEF UndatedAt, AvailAt
<1> QED BY <1>1 DEF NewestAvail

LEMMA PingedType ==
    ASSUME NEW up \in BOOLEAN
    PROVE  /\ Pinged(up).queue \in Seq(Metric) /\ Pinged(up).queue # <<>>
           /\ Pinged(up).says \in {"online", "offline"} /\ Pinged(up).avail \in {"up", "down"}
           /\ NewestAvail(Pinged(up).queue) = Pinged(up).avail
<1>0. \A v \in {"up", "down", "other"} :
        Undated(v) \in Metric /\ Undated(v).says = v /\ Undated(v).dated = FALSE
  BY DEF Undated, Metric
<1> DEFINE o == Undated("other")
<1> DEFINE u == Undated("up")
<1> DEFINE d == Undated("down")
<1>1. CASE up
  <2> DEFINE q == <<o, u, o>>
  <2>1. Pinged(up) = [queue |-> q, says |-> "online", avail |-> "up"]
    BY <1>1 DEF Pinged
  <2>a. /\ o \in Metric /\ o.says = "other" /\ u \in Metric /\ u.says = "up" /\ u.dated = FALSE
    BY <1>0
  <2> HIDE DEF o, u
  <2>2. q \in Seq(Metric) /\ q # <<>>
    BY <2>a
  <2>3. UndatedAt(q) = {2}
    BY <2>a DEF UndatedAt, AvailAt
  <2>4. Newest(UndatedAt(q)) = 2
    BY <2>2, <2>3, NewestIsLast
  <2>5. NewestAvail(q) = "up"
    BY <2>a, <2>3, <2>4 DEF NewestAvail
  <2> HIDE DEF q
  <2> QED BY <2>1, <2>2, <2>5
<1>2. CASE ~ up
  <2> DEFINE q == <<d>>
  <2>1. Pinged(up) = [queue |-> q, says |-> "offline", avail |-> "down"]
    BY <1>2 DEF Pinged
  <2>a. d \in Metric /\ d.says = "down" /\ d.dated = FALSE
    BY <1>0
  <2> HIDE DEF d
  <2>2. q \in Seq(Metric) /\ q # <<>>
    BY <2>a
  <2>3. UndatedAt(q) = {1}
    BY <2>a DEF UndatedAt, AvailAt
  <2>4. Newest(UndatedAt(q)) = 1
    BY <2>2, <2>3, NewestIsLast
  <2>5. NewestAvail(q) = "down"
    BY <2>a, <2>3, <2>4 DEF NewestAvail
  <2> HIDE DEF q
  <2> QED BY <2>1, <2>2, <2>5
<1> QED BY <1>1, <1>2

-----------------------------------------------------------------------------
(* Statements, sessions and the writers' variables.                        *)

LEMMA KindsApart ==
    ASSUME NEW x \in Writers
    PROVE  /\ x \in Passes => x \notin Singles /\ x \notin Reports
           /\ x \in Singles => x \notin Passes /\ x \notin Reports
           /\ x \in Passes \/ x \in Singles \/ x \in Reports
  BY WritersAssumption DEF Writers

LEMMA IdleType == \A p \in Places : [Idle EXCEPT !.pc = p] \in Writer
<1>1. <<>> \in Seq(Result) /\ <<>> \in Seq(Metric)
  BY EmptySeq
<1> QED BY <1>1 DEF Idle, Writer, Places, Values, Statuses

LEMMA InitType == Init => BaseType
<1> SUFFICES ASSUME Init PROVE BaseType
  OBVIOUS
<1>1. NoDevice \in Device
  <2>1. (CHOOSE ip \in Ips : TRUE) \in Ips
    BY WritersAssumption
  <2> QED BY <2>1 DEF NoDevice, Device, Statuses, Values
<1>2. Idle \in Writer
  <2>1. <<>> \in Seq(Result) /\ <<>> \in Seq(Metric)
    BY EmptySeq
  <2> QED BY <2>1 DEF Idle, Writer, Places, Values, Statuses
<1>3. [says |-> "unknown", avail |-> "none", shared |-> FALSE] \in Report
  BY DEF Report, Statuses, Values
<1> QED BY <1>1, <1>2, <1>3, WritersAssumption DEF Init, BaseType

Counted == faults' \in 0 .. MaxFaults

LEMMA FaultsStep ==
    ASSUME BaseType, NEW x, Raises(x) \/ Works(x) \/ UNCHANGED faults
    PROVE  Counted
  BY WritersAssumption DEF BaseType, Raises, Works, Counted

\* The same but for the device and the ghost that marks a report as shared.
Same(a, b) ==
    /\ a.pc = b.pc /\ a.listed = b.listed /\ a.todo = b.todo /\ a.told = b.told
    /\ a.unread = b.unread /\ a.results = b.results /\ a.queue = b.queue
    /\ a.says = b.says /\ a.avail = b.avail /\ a.seen = b.seen
    /\ a.session = b.session /\ a.fresh = b.fresh /\ a.stale = b.stale

Typed == w' \in [Writers -> Writer]

Becomes(x, me) == w' = [w EXCEPT ![x] = me]

LEMMA SetWriter ==
    ASSUME BaseType, NEW x \in Writers, NEW me \in Writer, Becomes(x, me)
    PROVE  /\ Typed /\ w'[x] = me
           /\ \A y \in Writers : y # x => w'[y] = w[y]
  BY DEF BaseType, Becomes, Typed

\* Only x moves, and the tables and the ghosts of the devices stay.
Alone(x) ==
    /\ UNCHANGED <<rows, dev, last>>
    /\ \A y \in Writers : y # x => w'[y] = w[y]

\* What another writer's step never changes.
Kept(y) == Same(w'[y], w[y]) /\ w'[y].device = w[y].device

Joined(y, i) == Kept(y) /\ (w[y].shared \/ w[y].device = i => w'[y].shared)

\* x has taken device i up, and who has it is marked.
Took(x, i) ==
    /\ w'[x].device = i
    /\ Others(x, i) # {} => w'[x].shared
    /\ \A y \in Writers : y # x => Joined(y, i)

LEMMA BeginsStep ==
    ASSUME BaseType, NEW x \in Writers, NEW i \in Ids, NEW me \in Writer, Begins(x, i, me)
    PROVE  Typed /\ Took(x, i) /\ Same(w'[x], me)
<1>1. w \in [Writers -> Writer]
  BY DEF BaseType
<1>2. PICK b \in BOOLEAN : b = (Others(x, i) # {})
  <2>1. (Others(x, i) # {}) \in BOOLEAN
    OBVIOUS
  <2> QED BY <2>1
<1> DEFINE mine == [me EXCEPT !.device = i, !.shared = b]
<1> DEFINE joined(y) == [w[y] EXCEPT !.shared = TRUE]
<1>3. mine \in Writer /\ mine.device = i /\ mine.shared = b
  BY <1>2 DEF Writer
<1>4. Same(mine, me)
  BY <1>2 DEF Writer, Same
<1>5. \A y \in Writers : joined(y) \in Writer
  BY <1>1 DEF Writer
<1>6. \A y \in Writers : /\ joined(y).shared = TRUE /\ joined(y).device = w[y].device
                         /\ Same(joined(y), w[y])
  BY <1>1 DEF Writer, Same
<1>7. w' = [y \in Writers |-> IF y = x THEN mine
                              ELSE IF w[y].device = i THEN joined(y) ELSE w[y]]
  BY <1>2 DEF Begins
<1> HIDE DEF mine, joined
<1>8. Typed
  BY <1>1, <1>3, <1>5, <1>7 DEF Typed
<1>9. w'[x] = mine
  BY <1>7
<1>10. ASSUME NEW y \in Writers, y # x PROVE Joined(y, i)
  <2>1. CASE w[y].device = i
    <3>1. w'[y] = joined(y)
      BY <1>7, <1>10, <2>1
    <3> QED BY <3>1, <1>6 DEF Joined, Kept
  <2>2. CASE w[y].device # i
    <3>1. w'[y] = w[y]
      BY <1>7, <1>10, <2>2
    <3> QED BY <3>1, <2>2 DEF Joined, Kept, Same
  <2> QED BY <2>1, <2>2
<1>11. Others(x, i) # {} => w'[x].shared
  BY <1>9, <1>3, <1>2
<1> QED BY <1>3, <1>4, <1>8, <1>9, <1>10, <1>11 DEF Took

\* x has let go of its device; what is left of it if it has not failed.
Left(x, place) ==
    /\ w'[x].pc = place /\ w'[x].device = NoId /\ w'[x].queue = <<>>
    /\ w'[x].says = "none" /\ w'[x].avail = "none" /\ w'[x].seen = "expired"
    /\ w'[x].stale = FALSE

Keeps(x, me) ==
    /\ w'[x].listed = me.listed /\ w'[x].todo = me.todo /\ w'[x].told = me.told
    /\ w'[x].unread = me.unread /\ w'[x].results = me.results
    /\ w'[x].session = me.session /\ w'[x].fresh = me.fresh

Failed(x) ==
    /\ Left(x, "failed")
    /\ w'[x].listed = {} /\ w'[x].todo = {} /\ w'[x].told = {} /\ w'[x].unread = {}
    /\ w'[x].session = "sound" /\ w'[x].fresh = FALSE

LEMMA LeaveStep ==
    ASSUME BaseType, NEW x \in Writers, NEW place \in Places, NEW me \in Writer,
           Leave(x, place, me)
    PROVE  /\ Typed /\ \A y \in Writers : y # x => w'[y] = w[y]
           /\ IF place = "failed" THEN Failed(x) ELSE Left(x, place) /\ Keeps(x, me)
<1> DEFINE gone == [Idle EXCEPT !.pc = "failed"]
<1> DEFINE mine == [me EXCEPT !.pc = place, !.device = NoId, !.queue = <<>>, !.says = "none",
                              !.avail = "none", !.seen = "expired", !.shared = FALSE,
                              !.stale = FALSE]
<1>1. CASE place = "failed"
  <2>1. gone \in Writer
    BY IdleType DEF Places
  <2>2. /\ gone.pc = "failed" /\ gone.device = NoId /\ gone.queue = <<>>
        /\ gone.says = "none" /\ gone.avail = "none" /\ gone.seen = "expired"
        /\ gone.stale = FALSE /\ gone.listed = {} /\ gone.todo = {} /\ gone.told = {}
        /\ gone.unread = {} /\ gone.session = "sound" /\ gone.fresh = FALSE
    BY DEF Idle
  <2>3. Becomes(x, gone)
    BY <1>1 DEF Becomes, Leave
  <2> HIDE DEF gone
  <2>4. Typed /\ w'[x] = gone /\ \A y \in Writers : y # x => w'[y] = w[y]
    BY <2>1, <2>3, SetWriter
  <2> QED BY <1>1, <2>2, <2>4 DEF Failed, Left
<1>2. CASE place # "failed"
  <2>1. <<>> \in Seq(Metric)
    BY EmptySeq
  <2>2. mine \in Writer
    BY <2>1 DEF Writer, Values
  <2>3. /\ mine.pc = place /\ mine.device = NoId /\ mine.queue = <<>>
        /\ mine.says = "none" /\ mine.avail = "none" /\ mine.seen = "expired"
        /\ mine.stale = FALSE
        /\ mine.listed = me.listed /\ mine.todo = me.todo /\ mine.told = me.told
        /\ mine.unread = me.unread /\ mine.results = me.results
        /\ mine.session = me.session /\ mine.fresh = me.fresh
    BY DEF Writer
  <2>4. Becomes(x, mine)
    BY <1>2 DEF Becomes, Leave
  <2> HIDE DEF mine
  <2>5. Typed /\ w'[x] = mine /\ \A y \in Writers : y # x => w'[y] = w[y]
    BY <2>2, <2>4, SetWriter
  <2> QED BY <1>2, <2>3, <2>5 DEF Left, Keeps
<1> QED BY <1>1, <1>2

LEMMA TypeFrame ==
    ASSUME BaseType, Typed, Counted, UNCHANGED <<rows, dev, last>>, crossed' \subseteq Ips
    PROVE  BaseType'
  BY DEF BaseType, Typed, Counted

-----------------------------------------------------------------------------
(* The actions, seen from the writer that takes them.                      *)

StartPassDoes(x) ==
    /\ x \in Passes /\ w[x].pc = "idle" /\ Alone(x) /\ UNCHANGED crossed
    /\ \/ w'[x] = [w[x] EXCEPT !.pc = "next", !.listed = Listed, !.todo = Listed,
                               !.fresh = TRUE]
       \/ Failed(x)

LEMMA StartPassEffect ==
    ASSUME BaseType, NEW x \in Writers, StartPass(x)
    PROVE  BaseType' /\ StartPassDoes(x)
<1>1. w[x] \in Writer /\ w \in [Writers -> Writer] /\ Listed \in SUBSET Ids
  BY DEF BaseType, Listed
<1>2. Counted
  BY FaultsStep DEF StartPass
<1>3. /\ x \in Passes /\ w[x].pc = "idle" /\ UNCHANGED <<rows, dev, last, crossed>>
  BY DEF StartPass, Starts, At
<1>4. CASE w' = [w EXCEPT ![x].pc = "next", ![x].listed = Listed, ![x].todo = Listed,
                          ![x].fresh = TRUE]
  <2> DEFINE me == [w[x] EXCEPT !.pc = "next", !.listed = Listed, !.todo = Listed,
                                !.fresh = TRUE]
  <2>1. Becomes(x, me)
    BY <1>1, <1>4 DEF Becomes
  <2>2. me \in Writer
    BY <1>1 DEF Writer, Places
  <2> HIDE DEF me
  <2>3. Typed /\ w'[x] = me /\ Alone(x)
    BY <2>1, <2>2, <1>3, SetWriter DEF Alone
  <2> QED BY <2>3, <1>2, <1>3, TypeFrame DEF StartPassDoes, me, BaseType
<1>5. CASE Leave(x, "failed", w[x])
  <2>1. Typed /\ Failed(x) /\ Alone(x)
    BY <1>1, <1>3, <1>5, LeaveStep DEF Places, Alone
  <2> QED BY <2>1, <1>2, <1>3, TypeFrame DEF StartPassDoes, BaseType
<1> QED BY <1>4, <1>5 DEF StartPass

\* What a writer carries along while it reports on a device.
Carried(x) ==
    /\ w'[x].listed = w[x].listed /\ w'[x].told = w[x].told /\ w'[x].unread = w[x].unread
    /\ w'[x].results = w[x].results /\ w'[x].session = w[x].session

CollectDoes(x, i, up) ==
    /\ UNCHANGED <<rows, dev, last, crossed>>
    /\ Took(x, i) /\ Carried(x)
    /\ w'[x].pc = "record" /\ w'[x].todo = w[x].todo \ {i}
    /\ w'[x].queue = Pinged(up).queue /\ w'[x].says = Pinged(up).says
    /\ w'[x].avail = Pinged(up).avail /\ w'[x].seen = dev[i].status
    /\ w'[x].fresh = w[x].fresh
    /\ \/ w[x].pc = "next" /\ i \in w[x].todo /\ (w[x].fresh \/ Sound(x))
       \/ x \in Singles /\ w[x].pc = "idle"

LEMMA CollectEffect ==
    ASSUME BaseType, NEW x \in Writers, NEW i \in rows, NEW up \in Answering,
           CollectNext(x, i, up) \/ CollectOne(x, i, up)
    PROVE  BaseType' /\ CollectDoes(x, i, up)
<1> DEFINE q == Pinged(up).queue
<1> DEFINE s == Pinged(up).says
<1> DEFINE a == Pinged(up).avail
<1> DEFINE d == dev[i].status
<1> DEFINE t == w[x].todo \ {i}
<1> DEFINE me == [w[x] EXCEPT !.pc = "record", !.todo = t, !.queue = q, !.says = s,
                              !.avail = a, !.seen = d]
<1>1. w[x] \in Writer /\ i \in Ids /\ dev[i] \in Device
  BY DEF BaseType
<1>2. Counted
  <2>1. UNCHANGED faults \/ Works(x)
    BY DEF CollectNext, CollectOne
  <2> QED BY <2>1, FaultsStep
<1>3. Begins(x, i, me) /\ UNCHANGED <<rows, dev, last, crossed>>
  BY DEF CollectNext, CollectOne, Collect
<1>4. /\ q \in Seq(Metric) /\ s \in Statuses /\ a \in Values
      /\ d \in Statuses /\ t \in SUBSET Ids
  <2>1. s \in {"online", "offline"} /\ a \in {"up", "down"} /\ q \in Seq(Metric)
    BY PingedType DEF Answering
  <2>2. d \in Statuses /\ t \in SUBSET Ids
    BY <1>1 DEF Device, Writer
  <2> QED BY <2>1, <2>2 DEF Statuses, Values
<1> HIDE DEF q, s, a, d, t
<1>5. me \in Writer
  BY <1>1, <1>4 DEF Writer, Places
<1>6. /\ me.pc = "record" /\ me.todo = t /\ me.queue = q /\ me.says = s /\ me.avail = a
      /\ me.seen = d /\ me.listed = w[x].listed /\ me.told = w[x].told
      /\ me.unread = w[x].unread /\ me.results = w[x].results
      /\ me.session = w[x].session /\ me.fresh = w[x].fresh
  BY <1>1 DEF Writer
<1> HIDE DEF me
<1>7. Typed /\ Took(x, i) /\ Same(w'[x], me)
  BY <1>1, <1>3, <1>5, BeginsStep
<1>8. BaseType'
  BY <1>2, <1>3, <1>7, TypeFrame DEF BaseType
<1>9. \/ w[x].pc = "next" /\ i \in w[x].todo /\ (w[x].fresh \/ Sound(x))
      \/ x \in Singles /\ w[x].pc = "idle"
  BY DEF CollectNext, CollectOne, Starts, At, Works
<1>10. CollectDoes(x, i, up)
  BY <1>3, <1>6, <1>7, <1>9 DEF CollectDoes, Carried, Same, q, s, a, d, t
<1> QED BY <1>8, <1>10

NextUnreadableDoes(x, i) ==
    /\ Alone(x) /\ UNCHANGED crossed
    /\ w[x].pc = "next" /\ i \in w[x].todo /\ ~ w[x].fresh
    /\ w'[x].pc = "except" /\ w'[x].todo = w[x].todo \ {i}
    /\ w'[x].unread = IF Sound(x) THEN w[x].unread \cup {i} ELSE w[x].unread
    /\ w'[x].listed = w[x].listed /\ w'[x].told = w[x].told /\ w'[x].device = w[x].device
    /\ w'[x].queue = w[x].queue /\ w'[x].session = w[x].session /\ w'[x].fresh = w[x].fresh

LEMMA NextUnreadableEffect ==
    ASSUME BaseType, NEW x \in Writers, NEW i \in rows, NextUnreadable(x, i)
    PROVE  BaseType' /\ NextUnreadableDoes(x, i)
<1> DEFINE u == IF Sound(x) THEN w[x].unread \cup {i} ELSE w[x].unread
<1> DEFINE t == w[x].todo \ {i}
<1> DEFINE me == [w[x] EXCEPT !.pc = "except", !.todo = t, !.unread = u]
<1>1. w[x] \in Writer /\ w \in [Writers -> Writer] /\ i \in Ids
  BY DEF BaseType
<1>2. Counted
  BY FaultsStep DEF NextUnreadable
<1>3. /\ w[x].pc = "next" /\ i \in w[x].todo /\ ~ w[x].fresh
      /\ UNCHANGED <<rows, dev, last, crossed>>
  BY DEF NextUnreadable, At
<1>4. Becomes(x, me)
  BY <1>1 DEF Becomes, NextUnreadable
<1>5. u \in SUBSET (Ids \cup {NoId}) /\ t \in SUBSET Ids
  BY <1>1 DEF Writer
<1> HIDE DEF u, t
<1>6. me \in Writer
  BY <1>1, <1>5 DEF Writer, Places
<1>7. /\ me.pc = "except" /\ me.todo = t /\ me.unread = u /\ me.listed = w[x].listed
      /\ me.told = w[x].told /\ me.device = w[x].device /\ me.queue = w[x].queue
      /\ me.session = w[x].session /\ me.fresh = w[x].fresh
  BY <1>1 DEF Writer
<1> HIDE DEF me
<1>8. Typed /\ w'[x] = me /\ Alone(x)
  BY <1>3, <1>4, <1>6, SetWriter DEF Alone
<1> QED BY <1>2, <1>3, <1>7, <1>8, TypeFrame DEF NextUnreadableDoes, BaseType, u, t

\* The writer goes to another place, with nothing but a list of results to deal
\* with.
Moves(x, place, results) ==
    w'[x] = [w[x] EXCEPT !.pc = place, !.results = results]

LEMMA MovesFields ==
    ASSUME BaseType, NEW x \in Writers, NEW place, NEW results, Moves(x, place, results)
    PROVE  /\ w'[x].pc = place /\ w'[x].results = results /\ w'[x].device = w[x].device
           /\ w'[x].listed = w[x].listed /\ w'[x].todo = w[x].todo /\ w'[x].told = w[x].told
           /\ w'[x].unread = w[x].unread /\ w'[x].queue = w[x].queue
           /\ w'[x].says = w[x].says /\ w'[x].stale = w[x].stale
           /\ w'[x].session = w[x].session /\ w'[x].fresh = w[x].fresh
<1>1. w[x] \in Writer
  BY DEF BaseType
<1> QED BY <1>1 DEF Moves, Writer

LEMMA MovesStep ==
    ASSUME BaseType, NEW x \in Writers, NEW place \in Places, NEW results \in Seq(Result),
           \/ w' = [w EXCEPT ![x].pc = place, ![x].results = results]
           \/ w' = [w EXCEPT ![x].pc = place] /\ results = w[x].results
    PROVE  Typed /\ Moves(x, place, results) /\ \A y \in Writers : y # x => w'[y] = w[y]
<1> DEFINE me == [w[x] EXCEPT !.pc = place, !.results = results]
<1>1. w[x] \in Writer /\ w \in [Writers -> Writer]
  BY DEF BaseType
<1>2. Becomes(x, me)
  <2>1. CASE w' = [w EXCEPT ![x].pc = place, ![x].results = results]
    BY <1>1, <2>1 DEF Becomes
  <2>2. CASE w' = [w EXCEPT ![x].pc = place] /\ results = w[x].results
    <3>1. me = [w[x] EXCEPT !.pc = place]
      BY <1>1, <2>2 DEF Writer
    <3> QED BY <1>1, <2>2, <3>1 DEF Becomes
  <2> QED BY <2>1, <2>2
<1>3. me \in Writer
  BY <1>1 DEF Writer
<1> HIDE DEF me
<1>4. Typed /\ w'[x] = me /\ \A y \in Writers : y # x => w'[y] = w[y]
  BY <1>2, <1>3, SetWriter
<1> QED BY <1>4 DEF Moves, me

\* The moves of a writer that has no device.
GoesDoes(x) ==
    /\ Alone(x) /\ UNCHANGED crossed
    /\ \/ /\ x \in Passes /\ w[x].pc = "next" /\ w[x].todo = {}
          /\ Moves(x, "completed", w[x].results)
       \/ /\ x \in Reports /\ w[x].pc = "idle"
          /\ \E p \in Payloads : Moves(x, "result", p)
       \/ x \in Reports /\ w[x].pc = "create" /\ Moves(x, "insert", w[x].results)

LEMMA GoesEffect ==
    ASSUME BaseType, NEW x \in Writers, HoldsOK(x),
           FinishPass(x) \/ \E payload \in Payloads : StartReport(x, payload)
    PROVE  BaseType' /\ GoesDoes(x)
<1>1. w[x] \in Writer /\ w[x].results \in Seq(Result)
  BY DEF BaseType, Writer
<1>2. UNCHANGED <<rows, dev, faults, last, crossed>>
  BY DEF FinishPass, StartReport
<1>3. Counted
  BY <1>2, FaultsStep
<1>4. ASSUME Typed, \A y \in Writers : y # x => w'[y] = w[y]
      PROVE  BaseType' /\ Alone(x)
  BY <1>2, <1>3, <1>4, TypeFrame DEF Alone, BaseType
<1>5. CASE FinishPass(x)
  <2>1. Typed /\ Moves(x, "completed", w[x].results) /\ \A y \in Writers : y # x => w'[y] = w[y]
    BY <1>1, <1>5, MovesStep DEF FinishPass, Places
  <2>2. x \in Passes /\ w[x].pc = "next" /\ w[x].todo = {}
    BY <1>5 DEF FinishPass, At, HoldsOK, KindOK
  <2> QED BY <2>1, <2>2, <1>2, <1>4 DEF GoesDoes
<1>6. ASSUME NEW payload \in Payloads, StartReport(x, payload)
      PROVE  BaseType' /\ GoesDoes(x)
  <2>1. payload \in Seq(Result)
    BY PayloadsAssumption
  <2>2. Typed /\ Moves(x, "result", payload) /\ \A y \in Writers : y # x => w'[y] = w[y]
    BY <1>6, <2>1, MovesStep DEF StartReport, Places
  <2>3. x \in Reports /\ w[x].pc = "idle"
    BY <1>6 DEF StartReport, Starts, At
  <2> QED BY <2>2, <2>3, <1>2, <1>4 DEF GoesDoes
<1> QED BY <1>5, <1>6

LEMMA HeadType ==
    ASSUME BaseType, NEW x \in Writers, w[x].results # <<>>
    PROVE  /\ Head(w[x].results) \in Result /\ Wanted(x) \in Ips
           /\ Head(w[x].results).metrics \in Seq(Metric)
           /\ Head(w[x].results).status \in {"online", "offline", "unknown", "none"}
<1>1. w[x].results \in Seq(Result)
  BY DEF BaseType, Writer
<1>2. Head(w[x].results) \in Result
  BY <1>1, HeadTailProperties
<1> QED BY <1>2 DEF Wanted, Result

\* What a request has to tell of the result it is at.
OnResult(x, seen, stale) ==
    LET r == Head(w[x].results) IN
    /\ w'[x].pc = After(r.metrics, StatusOf(r)) /\ w'[x].queue = r.metrics
    /\ w'[x].says = StatusOf(r) /\ w'[x].avail = NewestAvail(r.metrics)
    /\ w'[x].seen = seen /\ w'[x].stale = stale /\ w'[x].todo = w[x].todo
    /\ w'[x].fresh = w[x].fresh /\ Carried(x)

AtResult(x, seen, stale) ==
    LET r == Head(w[x].results) IN
    [w[x] EXCEPT !.pc = After(r.metrics, StatusOf(r)), !.queue = r.metrics,
                 !.says = StatusOf(r), !.avail = NewestAvail(r.metrics), !.seen = seen,
                 !.stale = stale]

LEMMA ResultStep ==
    ASSUME BaseType, NEW x \in Writers, w[x].results # <<>>,
           NEW seen \in Statuses \cup {"expired"}, NEW stale \in BOOLEAN
    PROVE  /\ AtResult(x, seen, stale) \in Writer
           /\ Same(w'[x], AtResult(x, seen, stale)) => OnResult(x, seen, stale)
           /\ w'[x] = AtResult(x, seen, stale) => OnResult(x, seen, stale)
           /\ AtResult(x, seen, stale).device = w[x].device
           /\ AtResult(x, seen, stale).shared = w[x].shared
<1> DEFINE me == AtResult(x, seen, stale)
<1> DEFINE r == Head(w[x].results)
<1> DEFINE p == After(r.metrics, StatusOf(r))
<1> DEFINE s == StatusOf(r)
<1> DEFINE a == NewestAvail(r.metrics)
<1> DEFINE q == r.metrics
<1>1. w[x] \in Writer
  BY DEF BaseType
<1>2. q \in Seq(Metric) /\ s \in {"online", "offline", "none"} /\ a \in Values
  BY HeadType, StatusOfType, NewestAvailType
<1>3. p \in Places
  BY DEF After, Places
<1>4. me = [w[x] EXCEPT !.pc = p, !.queue = q, !.says = s, !.avail = a, !.seen = seen,
                        !.stale = stale]
  BY DEF AtResult
<1>5. OnResult(x, seen, stale)
        <=> /\ w'[x].pc = p /\ w'[x].queue = q /\ w'[x].says = s /\ w'[x].avail = a
            /\ w'[x].seen = seen /\ w'[x].stale = stale /\ w'[x].todo = w[x].todo
            /\ w'[x].fresh = w[x].fresh /\ Carried(x)
  BY DEF OnResult
<1> HIDE DEF p, s, a, q, me
<1>6. me \in Writer
  BY <1>1, <1>2, <1>3, <1>4 DEF Writer, Statuses
<1>7. /\ me.pc = p /\ me.queue = q /\ me.says = s /\ me.avail = a /\ me.seen = seen
      /\ me.stale = stale
      /\ me.listed = w[x].listed /\ me.todo = w[x].todo /\ me.told = w[x].told
      /\ me.unread = w[x].unread /\ me.results = w[x].results
      /\ me.session = w[x].session /\ me.fresh = w[x].fresh
      /\ me.device = w[x].device /\ me.shared = w[x].shared
  BY <1>1, <1>4 DEF Writer
<1>8. w'[x] = me => Same(w'[x], me)
  BY DEF Same
<1>9. Same(w'[x], me) => OnResult(x, seen, stale)
  BY <1>5, <1>7 DEF Same, Carried
<1> QED BY <1>6, <1>7, <1>8, <1>9 DEF me

\* The ghost: the status loaded may be out of date.
Outdated(x, i) == Holds(x, i) /\ (w[x].shared \/ w[x].stale)

LEMMA ReportOnStep ==
    ASSUME BaseType, NEW x \in Writers, w[x].results # <<>>, NEW i \in Ids,
           NEW seen \in Statuses \cup {"expired"}, ReportOn(x, i, seen)
    PROVE  Typed /\ Took(x, i) /\ OnResult(x, seen, Outdated(x, i))
<1>1. PICK stale \in BOOLEAN : stale = Outdated(x, i)
  BY DEF Outdated, Holds
<1> DEFINE me == AtResult(x, seen, stale)
<1>2. Begins(x, i, me)
  BY <1>1 DEF ReportOn, AtResult, Outdated
<1>3. me \in Writer /\ (Same(w'[x], me) => OnResult(x, seen, stale))
  BY ResultStep
<1> HIDE DEF me
<1> QED BY <1>1, <1>2, <1>3, BeginsStep

FoundDoes(x, i) ==
    /\ UNCHANGED <<rows, dev, last, crossed>> /\ Sound(x)
    /\ x \in Reports /\ w[x].pc = "result" /\ w[x].results # <<>>
    /\ i \in rows /\ Took(x, i) /\ OnResult(x, Loaded(x, i), Outdated(x, i))

\* It found no device and is about to insert one.
EntersDoes(x) ==
    /\ Alone(x) /\ Sound(x)
    /\ x \in Reports /\ w[x].pc = "result" /\ w[x].results # <<>>
    /\ FoundAt(x, Wanted(x)) = {}
    /\ Left(x, "create") /\ Keeps(x, w[x])
    /\ crossed \subseteq crossed'
    /\ \A y \in Reports :
         w[y].pc \in Creating /\ Wanted(y) = Wanted(x) => Wanted(x) \in crossed'

LEMMA FindDeviceEffect ==
    ASSUME BaseType, NEW x \in Writers, HoldsOK(x), FindDevice(x)
    PROVE  BaseType' /\ (EntersDoes(x) \/ \E i \in rows : FoundDoes(x, i))
<1>1. /\ w[x] \in Writer /\ x \in Reports /\ w[x].pc = "result" /\ w[x].results # <<>>
      /\ Works(x) /\ Sound(x) /\ UNCHANGED <<rows, dev, last>> /\ Wanted(x) \in Ips
  BY HeadType DEF FindDevice, At, BaseType, HoldsOK, KindOK, Works
<1>2. Counted
  BY <1>1, FaultsStep
<1>3. ASSUME NEW i \in FoundAt(x, Wanted(x)), ReportOn(x, i, Loaded(x, i)), UNCHANGED crossed
      PROVE  BaseType' /\ FoundDoes(x, i) /\ i \in rows
  <2>1. i \in rows /\ i \in Ids /\ dev[i] \in Device
    BY DEF FoundAt, BaseType
  <2>2. Loaded(x, i) \in Statuses \cup {"expired"}
    BY <1>1, <2>1 DEF Device, Loaded, Writer
  <2>3. Typed /\ Took(x, i) /\ OnResult(x, Loaded(x, i), Outdated(x, i))
    BY <1>1, <1>3, <2>1, <2>2, ReportOnStep
  <2> QED BY <1>1, <1>2, <1>3, <2>1, <2>3, TypeFrame DEF FoundDoes, BaseType
<1>4. CASE /\ FoundAt(x, Wanted(x)) = {}
           /\ Leave(x, "create", w[x])
           /\ crossed' = IF \E y \in Reports : w[y].pc \in Creating /\ Wanted(y) = Wanted(x)
                           THEN crossed \cup {Wanted(x)} ELSE crossed
  <2> DEFINE place == "create"
  <2>1. place \in Places /\ place # "failed" /\ Leave(x, place, w[x])
    BY <1>4 DEF Places
  <2> HIDE DEF place
  <2>2. /\ Typed /\ Left(x, place) /\ Keeps(x, w[x])
        /\ \A y \in Writers : y # x => w'[y] = w[y]
    BY <1>1, <2>1, LeaveStep
  <2>3. /\ crossed \subseteq crossed' /\ crossed' \subseteq Ips
        /\ \A y \in Reports :
             w[y].pc \in Creating /\ Wanted(y) = Wanted(x) => Wanted(x) \in crossed'
    BY <1>1, <1>4 DEF BaseType
  <2> QED BY <1>1, <1>2, <1>4, <2>2, <2>3, TypeFrame DEF EntersDoes, Alone, place
<1> QED BY <1>3, <1>4 DEF FindDevice, Wanted

SelectOwnDoes(x, i) ==
    /\ UNCHANGED <<rows, dev, last, crossed>> /\ Sound(x)
    /\ x \in Reports /\ w[x].pc = "create" /\ w[x].results # <<>>
    /\ i \in rows /\ Took(x, i) /\ Carried(x)
    /\ w'[x].pc = "refresh" /\ w'[x].queue = w[x].queue /\ w'[x].todo = w[x].todo
    /\ w'[x].seen = dev[i].status /\ w'[x].says = CreateStatus(Head(w[x].results))
    /\ w'[x].fresh = w[x].fresh /\ w'[x].stale = w[x].stale

LEMMA CreateStatusType ==
    ASSUME NEW r \in Result
    PROVE  CreateStatus(r) \in Statuses
  BY DEF CreateStatus, Result, Statuses

LEMMA SelectOwnEffect ==
    ASSUME BaseType, NEW x \in Writers, HoldsOK(x), SelectOwn(x)
    PROVE  BaseType' /\ (GoesDoes(x) \/ \E i \in rows : SelectOwnDoes(x, i))
<1>1. /\ w[x] \in Writer /\ x \in Reports /\ w[x].pc = "create" /\ w[x].results # <<>>
      /\ Works(x) /\ Sound(x) /\ UNCHANGED <<rows, dev, last, crossed>>
  BY DEF SelectOwn, At, BaseType, HoldsOK, KindOK, Creating, Works
<1>2. Counted
  BY <1>1, FaultsStep
<1>3. CASE w' = [w EXCEPT ![x].pc = "insert"]
  <2>1. w[x].results \in Seq(Result)
    BY <1>1 DEF Writer
  <2>2. Typed /\ Moves(x, "insert", w[x].results) /\ \A y \in Writers : y # x => w'[y] = w[y]
    BY <2>1, <1>3, MovesStep DEF Places
  <2> QED BY <1>1, <1>2, <2>2, TypeFrame DEF GoesDoes, Alone, BaseType
<1>4. ASSUME NEW i \in Key(x),
             Begins(x, i, [w[x] EXCEPT !.pc = "refresh", !.seen = dev[i].status,
                                       !.says = CreateStatus(Head(w[x].results))])
      PROVE  BaseType' /\ SelectOwnDoes(x, i) /\ i \in rows
  <2> DEFINE d == dev[i].status
  <2> DEFINE s == CreateStatus(Head(w[x].results))
  <2> DEFINE me == [w[x] EXCEPT !.pc = "refresh", !.seen = d, !.says = s]
  <2>1. i \in rows /\ i \in Ids /\ dev[i] \in Device
    BY DEF Key, BaseType
  <2>2. d \in Statuses /\ s \in Statuses
    BY <1>1, <2>1, HeadType, CreateStatusType DEF Device
  <2>3. Begins(x, i, me)
    BY <1>4
  <2> HIDE DEF d, s
  <2>4. me \in Writer
    BY <1>1, <2>2 DEF Writer, Places
  <2>5. /\ me.pc = "refresh" /\ me.seen = d /\ me.says = s /\ me.queue = w[x].queue
        /\ me.listed = w[x].listed /\ me.told = w[x].told /\ me.todo = w[x].todo
        /\ me.unread = w[x].unread /\ me.results = w[x].results
        /\ me.session = w[x].session /\ me.fresh = w[x].fresh /\ me.stale = w[x].stale
    BY <1>1 DEF Writer
  <2> HIDE DEF me
  <2>6. Typed /\ Took(x, i) /\ Same(w'[x], me)
    BY <2>1, <2>3, <2>4, BeginsStep
  <2>7. BaseType'
    BY <1>1, <1>2, <2>6, TypeFrame DEF BaseType
  <2>8. SelectOwnDoes(x, i)
    BY <1>1, <2>1, <2>5, <2>6 DEF SelectOwnDoes, Carried, Same, d, s
  <2> QED BY <2>1, <2>7, <2>8
<1> QED BY <1>2, <1>3, <1>4 DEF SelectOwn

InsertDoes(x, i) ==
    LET r == Head(w[x].results) IN
    /\ i \in Ids \ rows /\ Sound(x) /\ UNCHANGED crossed
    /\ x \in Reports /\ w[x].pc = "insert" /\ w[x].results # <<>> /\ Key(x) = {}
    /\ rows' = rows \cup {i}
    /\ dev' = [dev EXCEPT ![i] = [ip |-> r.ip, agent |-> AgentOf[x],
                                  status |-> CreateStatus(r), avail |-> "none",
                                  dated |-> FALSE]]
    /\ last' = [last EXCEPT ![i].says = CreateStatus(r)]
    /\ Took(x, i) /\ OnResult(x, "expired", Outdated(x, i))

LEMMA NewIdIsNew ==
    ASSUME Ids \ rows # {}
    PROVE  NewId \in Ids \ rows
  BY DEF NewId

LEMMA SaysStep ==
    ASSUME BaseType, NEW i \in Ids, NEW s \in Statuses, last' = [last EXCEPT ![i].says = s]
    PROVE  /\ last' \in [Ids -> Report]
           /\ last'[i].says = s /\ last'[i].avail = last[i].avail
           /\ \A k \in Ids : k # i => last'[k] = last[k]
<1> DEFINE l == [last[i] EXCEPT !.says = s]
<1>1. last \in [Ids -> Report] /\ last[i] \in Report
  BY DEF BaseType
<1>2. last' = [last EXCEPT ![i] = l]
  BY <1>1
<1>3. l \in Report /\ l.says = s /\ l.avail = last[i].avail
  BY <1>1 DEF Report
<1> HIDE DEF l
<1> QED BY <1>1, <1>2, <1>3

LEMMA InsertEffect ==
    ASSUME BaseType, NEW x \in Writers, HoldsOK(x), Insert(x)
    PROVE  BaseType' /\ InsertDoes(x, NewId)
<1> DEFINE r == Head(w[x].results)
<1> DEFINE s == CreateStatus(r)
<1> DEFINE i == NewId
<1> DEFINE d == [ip |-> r.ip, agent |-> AgentOf[x], status |-> s, avail |-> "none",
                 dated |-> FALSE]
<1>1. /\ x \in Reports /\ w[x].pc = "insert" /\ w[x].results # <<>> /\ Key(x) = {}
      /\ Works(x) /\ Sound(x) /\ UNCHANGED crossed
  BY DEF Insert, At, HoldsOK, KindOK, Creating, Refused, Works
<1>2. Counted
  BY <1>1, FaultsStep
<1>3. i \in Ids \ rows
  BY NewIdIsNew DEF Insert
<1>4. r \in Result /\ s \in Statuses
  BY <1>1, HeadType, CreateStatusType
<1>5. AgentOf[x] \in Agents
  BY <1>1, WritersAssumption
<1>6. d \in Device
  BY <1>4, <1>5 DEF Device, Result, Statuses, Values
<1>7. /\ rows' = rows \cup {i} /\ dev' = [dev EXCEPT ![i] = d]
      /\ last' = [last EXCEPT ![i].says = s] /\ ReportOn(x, i, "expired")
  BY DEF Insert
<1>8. Typed /\ Took(x, i) /\ OnResult(x, "expired", Outdated(x, i))
  BY <1>1, <1>3, <1>7, ReportOnStep
<1>9. InsertDoes(x, i)
  BY <1>1, <1>3, <1>7, <1>8 DEF InsertDoes
<1> HIDE DEF d, s, i
<1>10. last' \in [Ids -> Report]
  BY <1>3, <1>4, <1>7, SaysStep
<1>11. rows' \subseteq Ids
  BY <1>3, <1>7 DEF BaseType
<1>12. dev' \in [Ids -> Device]
  BY <1>3, <1>6, <1>7 DEF BaseType
<1>13. BaseType'
  BY <1>1, <1>2, <1>8, <1>10, <1>11, <1>12 DEF BaseType, Typed, Counted
<1> QED BY <1>9, <1>13 DEF i

DiscoverDoes(ip, i) ==
    /\ i \in Ids \ rows
    /\ \A x \in Writers : w[x].pc = "idle"
    /\ \A k \in rows : dev[k].ip # ip
    /\ rows' = rows \cup {i}
    /\ dev' = [dev EXCEPT ![i] = [ip |-> ip, agent |-> NoAgent, status |-> "online",
                                  avail |-> "none", dated |-> FALSE]]
    /\ last' = [last EXCEPT ![i].says = "online"]
    /\ UNCHANGED <<w, faults, crossed>>

LEMMA DiscoverEffect ==
    ASSUME BaseType, NEW ip \in Ips, Discover(ip)
    PROVE  BaseType' /\ DiscoverDoes(ip, NewId)
<1> DEFINE i == NewId
<1> DEFINE d == [ip |-> ip, agent |-> NoAgent, status |-> "online", avail |-> "none",
                 dated |-> FALSE]
<1>1. i \in Ids \ rows
  BY NewIdIsNew DEF Discover
<1>2. d \in Device
  BY DEF Device, Statuses, Values
<1>3. /\ rows' = rows \cup {i} /\ dev' = [dev EXCEPT ![i] = d]
      /\ last' = [last EXCEPT ![i].says = "online"] /\ UNCHANGED <<w, faults, crossed>>
  BY DEF Discover
<1>4. DiscoverDoes(ip, i)
  BY <1>1, <1>3 DEF DiscoverDoes, Discover, At
<1> HIDE DEF d, i
<1>5. last' \in [Ids -> Report]
  BY <1>1, <1>3, SaysStep DEF Statuses
<1>6. rows' \subseteq Ids
  BY <1>1, <1>3 DEF BaseType
<1>7. dev' \in [Ids -> Device]
  BY <1>1, <1>2, <1>3 DEF BaseType
<1> QED BY <1>3, <1>4, <1>5, <1>6, <1>7 DEF BaseType, i

\* A statement of a pass has raised: it goes on to its except branch, or past it.
GaveUpDoes(x, kind) ==
    /\ x \in Passes
    /\ Left(x, IF InMemory(x, kind) THEN "caught" ELSE "except")
    /\ w'[x].listed = w[x].listed /\ w'[x].todo = w[x].todo /\ w'[x].told = w[x].told
    /\ w'[x].unread = IF kind = "read" THEN w[x].unread \cup {w[x].device} ELSE w[x].unread
    /\ w'[x].session = SessionAfter(x, kind)
    /\ w'[x].fresh = (w[x].fresh /\ SessionAfter(x, kind) # "inactive")

\* A step after which the writer has no device and has told nothing.
DropDoes(x) ==
    /\ Alone(x) /\ UNCHANGED crossed
    /\ \/ Failed(x)
       \/ w[x].pc = "caught" /\ Left(x, "next") /\ Keeps(x, w[x])
       \/ w[x].pc = "except" /\ Sound(x) /\ Left(x, "next") /\ Keeps(x, w[x])
       \/ /\ w[x].pc = "touched" /\ x \in Passes /\ Sound(x) /\ Left(x, "next")
          /\ Keeps(x, [w[x] EXCEPT !.told = @ \cup {w[x].device}])
       \/ w[x].pc = "touched" /\ x \in Reports /\ Sound(x) /\ Left(x, "completed")
             /\ Keeps(x, [w[x] EXCEPT !.results = <<>>])
       \/ w[x].pc \in {"status", "touched"} /\ GaveUpDoes(x, "read")
       \/ /\ w[x].pc \in {"record", "write"}
          /\ GaveUpDoes(x, "flush") \/ GaveUpDoes(x, "commit")

LEMMA AbandonStep ==
    ASSUME BaseType, NEW x \in Writers, HoldsOK(x), NEW kind \in {"read", "flush", "commit"},
           w[x].pc \in {"result", "create", "insert", "touched"} \cup Reporting,
           Abandon(x, kind)
    PROVE  BaseType' /\ Alone(x) /\ (Failed(x) \/ GaveUpDoes(x, kind))
<1> DEFINE s == SessionAfter(x, kind)
<1> DEFINE u == IF kind = "read" THEN {w[x].device} ELSE {}
<1> DEFINE t == w[x].unread \cup u
<1> DEFINE f == (w[x].fresh /\ s # "inactive")
<1> DEFINE me == [w[x] EXCEPT !.session = s, !.fresh = f, !.unread = t]
<1>1. w[x] \in Writer /\ UNCHANGED <<rows, dev, last, crossed>>
  BY DEF BaseType, Abandon
<1>2. Counted
  BY FaultsStep DEF Abandon
<1>3. Caught(x, kind) \in Places
  BY DEF Caught, Places
<1>4. Leave(x, Caught(x, kind), me)
  BY DEF Abandon
<1>5. s \in {"sound", "inactive", "prepared"}
  BY <1>1 DEF SessionAfter, Broken, Writer
<1>6. t \in SUBSET (Ids \cup {NoId}) /\ f \in BOOLEAN
  BY <1>1 DEF Writer
<1>7. t = IF kind = "read" THEN w[x].unread \cup {w[x].device} ELSE w[x].unread
  OBVIOUS
<1>8. f = (w[x].fresh /\ SessionAfter(x, kind) # "inactive") /\ s = SessionAfter(x, kind)
  OBVIOUS
<1> HIDE DEF s, u, t, f
<1>9. me \in Writer
  BY <1>1, <1>5, <1>6 DEF Writer
<1>10. /\ me.session = s /\ me.fresh = f /\ me.unread = t /\ me.listed = w[x].listed
       /\ me.todo = w[x].todo /\ me.told = w[x].told
  BY <1>1 DEF Writer
<1> HIDE DEF me
<1>11. /\ Typed /\ \A y \in Writers : y # x => w'[y] = w[y]
       /\ IF Caught(x, kind) = "failed" THEN Failed(x)
          ELSE Left(x, Caught(x, kind)) /\ Keeps(x, me)
  BY <1>3, <1>4, <1>9, LeaveStep
<1>12. BaseType' /\ Alone(x)
  BY <1>1, <1>2, <1>11, TypeFrame DEF Alone, BaseType
<1>13. CASE x \notin Passes
  BY <1>11, <1>12, <1>13 DEF Caught
<1>14. CASE x \in Passes
  <2>1. Caught(x, kind) = IF InMemory(x, kind) THEN "caught" ELSE "except"
    BY <1>14 DEF Caught
  <2> QED BY <1>7, <1>8, <1>10, <1>11, <1>12, <1>14, <2>1 DEF GaveUpDoes, Keeps
<1> QED BY <1>13, <1>14

LEMMA DropEffect ==
    ASSUME BaseType, NEW x \in Writers, HoldsOK(x),
           Except(x) \/ InsertRefused(x) \/ Collected(x) \/ Fails(x)
    PROVE  BaseType' /\ DropDoes(x)
<1>1. w[x] \in Writer
  BY DEF BaseType
<1>2. ASSUME NEW place \in Places, NEW me \in Writer, Leave(x, place, me),
             UNCHANGED <<rows, dev, last, crossed>>, Counted
      PROVE  /\ BaseType' /\ Alone(x)
             /\ IF place = "failed" THEN Failed(x) ELSE Left(x, place) /\ Keeps(x, me)
  <2>1. /\ Typed /\ \A y \in Writers : y # x => w'[y] = w[y]
        /\ IF place = "failed" THEN Failed(x) ELSE Left(x, place) /\ Keeps(x, me)
    BY <1>2, LeaveStep
  <2> QED BY <1>2, <2>1, TypeFrame DEF Alone, BaseType
<1>3. "next" \in Places /\ "failed" \in Places /\ "next" # "failed"
  BY DEF Places
<1>4. CASE Except(x)
  <2>1. Counted /\ UNCHANGED <<rows, dev, last, crossed>>
    BY <1>4, FaultsStep DEF Except, MessageRead
  <2>2. CASE Leave(x, "next", w[x])
    <3>1. BaseType' /\ Alone(x) /\ Left(x, "next") /\ Keeps(x, w[x])
      BY <1>1, <1>2, <1>3, <2>1, <2>2
    <3>2. CASE w[x].pc = "caught"
      BY <2>1, <3>1, <3>2 DEF DropDoes
    <3>3. CASE w[x].pc = "except" /\ Works(x)
      BY <2>1, <3>1, <3>3 DEF DropDoes, Works
    <3>4. CASE Leave(x, "failed", w[x])
      BY <1>1, <1>2, <1>3, <2>1, <3>4 DEF DropDoes
    <3> QED BY <1>4, <3>2, <3>3, <3>4 DEF Except, At, MessageRead
  <2>3. CASE Leave(x, "failed", w[x])
    BY <1>1, <1>2, <1>3, <2>1, <2>3 DEF DropDoes
  <2> QED BY <1>4, <2>2, <2>3 DEF Except
<1>5. CASE InsertRefused(x)
  <2>1. Counted /\ UNCHANGED <<rows, dev, last, crossed>> /\ Leave(x, "failed", w[x])
    BY <1>5, FaultsStep DEF InsertRefused
  <2> QED BY <1>1, <1>2, <1>3, <2>1 DEF DropDoes
<1>6. CASE Collected(x)
  <2> DEFINE t == w[x].told \cup {w[x].device}
  <2> DEFINE me == [w[x] EXCEPT !.told = t]
  <2>1. /\ Counted /\ UNCHANGED <<rows, dev, last, crossed>> /\ w[x].pc = "touched"
        /\ x \in Passes /\ Sound(x) /\ Leave(x, "next", me)
    BY <1>1, <1>6, FaultsStep DEF Collected, At, Works
  <2>2. t \in SUBSET Ids
    BY <1>1, <2>1, WritersAssumption DEF HoldsOK, HoldsRows, Writer, BaseType
  <2> HIDE DEF t
  <2>3. me \in Writer
    BY <1>1, <2>2 DEF Writer
  <2> HIDE DEF me
  <2>4. BaseType' /\ Alone(x) /\ Left(x, "next") /\ Keeps(x, me)
    BY <1>2, <1>3, <2>1, <2>3
  <2> QED BY <2>1, <2>4 DEF DropDoes, me, t
<1>7. CASE Fails(x)
  <2>1. ASSUME NEW kind \in {"read", "flush", "commit"}, Abandon(x, kind),
               w[x].pc \in {"result", "create", "insert", "touched"} \cup Reporting
        PROVE  BaseType' /\ Alone(x) /\ (Failed(x) \/ GaveUpDoes(x, kind)) /\ UNCHANGED crossed
    BY <2>1, AbandonStep DEF Abandon
  <2>2. x \in Passes => w[x].pc \notin {"result", "refresh"} \cup Creating
    BY KindsApart DEF HoldsOK, KindOK
  <2>3. CASE Reading(x) /\ Abandon(x, "read")
    <3>1. w[x].pc \in {"result", "create", "status", "touched"}
      BY <2>3 DEF Reading
    <3>2. BaseType' /\ Alone(x) /\ (Failed(x) \/ GaveUpDoes(x, "read")) /\ UNCHANGED crossed
      BY <2>1, <2>3, <3>1 DEF Reporting
    <3> QED BY <2>2, <3>1, <3>2 DEF DropDoes, GaveUpDoes, Creating
  <2>4. CASE Flushing(x) /\ Abandon(x, "flush")
    <3>1. w[x].pc \in {"insert", "refresh", "record", "write"}
      BY <2>4 DEF Flushing, Writing
    <3>2. BaseType' /\ Alone(x) /\ (Failed(x) \/ GaveUpDoes(x, "flush")) /\ UNCHANGED crossed
      BY <2>1, <2>4, <3>1 DEF Reporting
    <3> QED BY <2>2, <3>1, <3>2 DEF DropDoes, GaveUpDoes, Creating
  <2>5. CASE Writing(x) /\ Abandon(x, "commit")
    <3>1. w[x].pc \in {"insert", "refresh", "record", "write"}
      BY <2>5 DEF Writing
    <3>2. BaseType' /\ Alone(x) /\ (Failed(x) \/ GaveUpDoes(x, "commit")) /\ UNCHANGED crossed
      BY <2>1, <2>5, <3>1 DEF Reporting
    <3> QED BY <2>2, <3>1, <3>2 DEF DropDoes, GaveUpDoes, Creating
  <2> QED BY <1>7, <2>3, <2>4, <2>5 DEF Fails
<1> QED BY <1>4, <1>5, <1>6, <1>7

\* x has set the status of device i, if it saw another one.
StatusSet(x, i, avail, shared) ==
    /\ UNCHANGED <<rows, crossed>> /\ Sound(x)
    /\ \A k \in Ids : /\ dev'[k].ip = dev[k].ip /\ dev'[k].agent = dev[k].agent
                      /\ dev'[k].avail = dev[k].avail /\ dev'[k].dated = dev[k].dated
    /\ \A k \in Ids : k # i => dev'[k].status = dev[k].status /\ last'[k] = last[k]
    /\ dev'[i].status = StatusWritten(dev[i].status, w[x].seen, w[x].says)
    /\ last'[i] = [says |-> w[x].says, avail |-> avail, shared |-> shared]
    /\ \A y \in Writers : y # x => w'[y] = w[y]

LEMMA StatusStep ==
    ASSUME BaseType, NEW x \in Writers, NEW i \in Ids, NEW avail \in Values,
           NEW shared \in BOOLEAN, w[x].says # "none", w[x].seen # "expired",
           dev' = [dev EXCEPT ![i].status = StatusWritten(@, w[x].seen, w[x].says)],
           last' = [last EXCEPT ![i] = [says |-> w[x].says, avail |-> avail,
                                        shared |-> shared]],
           UNCHANGED <<rows, crossed>>, Works(x),
           \A y \in Writers : y # x => w'[y] = w[y], Typed
    PROVE  BaseType' /\ StatusSet(x, i, avail, shared)
<1> DEFINE s == StatusWritten(dev[i].status, w[x].seen, w[x].says)
<1> DEFINE d == [dev[i] EXCEPT !.status = s]
<1> DEFINE l == [says |-> w[x].says, avail |-> avail, shared |-> shared]
<1>1. /\ dev \in [Ids -> Device] /\ dev[i] \in Device /\ w[x] \in Writer
      /\ last \in [Ids -> Report]
  BY DEF BaseType
<1>2. s \in Statuses
  BY <1>1 DEF StatusWritten, Device, Writer, Statuses
<1>3. l \in Report
  BY <1>1 DEF Report, Writer, Statuses
<1>4. dev' = [dev EXCEPT ![i] = d]
  BY <1>1
<1>5. last' = [last EXCEPT ![i] = l]
  OBVIOUS
<1> HIDE DEF s
<1>6. /\ d \in Device /\ d.status = s /\ d.ip = dev[i].ip /\ d.agent = dev[i].agent
      /\ d.avail = dev[i].avail /\ d.dated = dev[i].dated
  BY <1>1, <1>2 DEF Device
<1> HIDE DEF d
<1>7. /\ dev' \in [Ids -> Device] /\ dev'[i] = d
      /\ \A k \in Ids : k # i => dev'[k] = dev[k]
  BY <1>1, <1>4, <1>6
<1>8. last' \in [Ids -> Report] /\ last'[i] = l /\ \A k \in Ids : k # i => last'[k] = last[k]
  BY <1>1, <1>3, <1>5
<1>9. Counted
  BY FaultsStep
<1>10. BaseType'
  BY <1>7, <1>8, <1>9 DEF BaseType, Typed, Counted
<1>11. StatusSet(x, i, avail, shared)
  BY <1>6, <1>7, <1>8 DEF StatusSet, Works, s
<1> QED BY <1>10, <1>11

RefreshDoes(x, i) ==
    /\ w[x].pc = "refresh" /\ x \in Reports /\ w[x].results # <<>> /\ i = w[x].device
    /\ i \in rows
    /\ StatusSet(x, i, "none", w[x].shared) /\ OnResult(x, "expired", w[x].stale)
    /\ w'[x].device = i /\ w'[x].shared = w[x].shared

LEMMA RefreshEffect ==
    ASSUME BaseType, NEW x \in Writers, HoldsOK(x), RefreshOwn(x)
    PROVE  BaseType' /\ RefreshDoes(x, w[x].device)
<1> DEFINE i == w[x].device
<1> DEFINE sh == w[x].shared
<1> DEFINE st == w[x].stale
<1> DEFINE me == AtResult(x, "expired", st)
<1>1. /\ w[x].pc = "refresh" /\ x \in Reports /\ w[x].results # <<>> /\ w[x].says # "none"
      /\ w[x].seen # "expired" /\ w[x].device \in rows /\ w[x].device \in Ids
  BY DEF RefreshOwn, At, HoldsOK, KindOK, HoldsRows, ReportOK, Reporting, BaseType
<1>2. w[x] \in Writer /\ w \in [Writers -> Writer]
  BY DEF BaseType
<1>3. Becomes(x, me)
  <2> DEFINE r == Head(w[x].results)
  <2> DEFINE p == After(r.metrics, StatusOf(r))
  <2> DEFINE s == StatusOf(r)
  <2> DEFINE a == NewestAvail(r.metrics)
  <2> DEFINE q == r.metrics
  <2>1. w' = [w EXCEPT ![x].pc = p, ![x].queue = q, ![x].says = s, ![x].avail = a,
                       ![x].seen = "expired"]
    BY DEF RefreshOwn
  <2>2. me = [w[x] EXCEPT !.pc = p, !.queue = q, !.says = s, !.avail = a, !.seen = "expired",
                          !.stale = st]
    BY DEF AtResult
  <2>3. me = [w[x] EXCEPT !.pc = p, !.queue = q, !.says = s, !.avail = a, !.seen = "expired"]
    <3> HIDE DEF p, q, s, a, me
    <3> QED BY <1>2, <2>2 DEF Writer
  <2> HIDE DEF p, q, s, a, me
  <2> QED BY <1>2, <2>1, <2>3 DEF Becomes
<1>4. sh \in BOOLEAN /\ st \in BOOLEAN /\ "none" \in Values
  BY <1>2 DEF Writer, Values
<1>5. /\ me \in Writer /\ (w'[x] = me => OnResult(x, "expired", st))
      /\ me.device = w[x].device /\ me.shared = w[x].shared
  BY <1>1, <1>4, ResultStep
<1> HIDE DEF me
<1>6. Typed /\ w'[x] = me /\ \A y \in Writers : y # x => w'[y] = w[y]
  BY <1>3, <1>5, SetWriter
<1>7. /\ dev' = [dev EXCEPT ![i].status = StatusWritten(@, w[x].seen, w[x].says)]
      /\ last' = [last EXCEPT ![i] = [says |-> w[x].says, avail |-> "none", shared |-> sh]]
      /\ UNCHANGED <<rows, crossed>> /\ Works(x)
  BY DEF RefreshOwn
<1>8. i \in Ids
  BY <1>1
<1> HIDE DEF i, sh
<1>9. BaseType' /\ StatusSet(x, i, "none", sh)
  BY <1>1, <1>4, <1>6, <1>7, <1>8, StatusStep
<1> QED BY <1>1, <1>5, <1>6, <1>9 DEF RefreshDoes, i, sh

WriteDoes(x, i) ==
    /\ w[x].pc = "write" /\ i = w[x].device /\ i \in rows
    /\ StatusSet(x, i, w[x].avail, w[x].shared \/ w[x].stale)
    /\ \/ x \in Singles /\ Left(x, "completed") /\ Keeps(x, w[x])
       \/ /\ x \notin Singles /\ Carried(x) /\ w'[x].pc = "touched"
          /\ w'[x].device = i /\ w'[x].shared = w[x].shared /\ w'[x].seen = "expired"
          /\ w'[x].todo = w[x].todo /\ w'[x].queue = w[x].queue /\ w'[x].says = w[x].says
          /\ w'[x].fresh = w[x].fresh

LEMMA WriteEffect ==
    ASSUME BaseType, NEW x \in Writers, HoldsOK(x), WriteStatus(x)
    PROVE  BaseType' /\ WriteDoes(x, w[x].device)
<1> DEFINE i == w[x].device
<1> DEFINE sh == (w[x].shared \/ w[x].stale)
<1>1. /\ w[x].pc = "write" /\ w[x].says # "none" /\ w[x].seen # "expired"
      /\ w[x].device \in rows /\ w[x].device \in Ids /\ w[x] \in Writer
      /\ w \in [Writers -> Writer]
  BY DEF WriteStatus, At, HoldsOK, HoldsRows, ReportOK, Reporting, BaseType
<1>2. w[x].avail \in Values /\ sh \in BOOLEAN
  BY <1>1 DEF Writer
<1>3. /\ dev' = [dev EXCEPT ![i].status = StatusWritten(@, w[x].seen, w[x].says)]
      /\ last' = [last EXCEPT ![i] = [says |-> w[x].says, avail |-> w[x].avail,
                                      shared |-> sh]]
      /\ UNCHANGED <<rows, crossed>> /\ Works(x)
  BY DEF WriteStatus
<1>4. i \in Ids
  BY <1>1
<1>5. CASE x \in Singles
  <2> DEFINE place == "completed"
  <2>1. Leave(x, place, w[x]) /\ place \in Places /\ place # "failed"
    BY <1>5 DEF WriteStatus, Places
  <2> HIDE DEF place
  <2>2. /\ Typed /\ Left(x, place) /\ Keeps(x, w[x])
        /\ \A y \in Writers : y # x => w'[y] = w[y]
    BY <1>1, <2>1, LeaveStep
  <2> HIDE DEF i, sh
  <2>3. BaseType' /\ StatusSet(x, i, w[x].avail, sh)
    BY <1>1, <1>2, <1>3, <1>4, <2>2, StatusStep
  <2> QED BY <1>1, <1>5, <2>2, <2>3 DEF WriteDoes, i, sh, place
<1>6. CASE x \notin Singles
  <2> DEFINE me == [w[x] EXCEPT !.pc = "touched", !.seen = "expired", !.stale = FALSE]
  <2>1. Becomes(x, me)
    BY <1>1, <1>6 DEF Becomes, WriteStatus
  <2>2. me \in Writer
    BY <1>1 DEF Writer, Places
  <2>3. /\ me.pc = "touched" /\ me.device = w[x].device /\ me.shared = w[x].shared
        /\ me.seen = "expired" /\ me.todo = w[x].todo /\ me.queue = w[x].queue
        /\ me.says = w[x].says /\ me.fresh = w[x].fresh /\ me.listed = w[x].listed
        /\ me.told = w[x].told /\ me.unread = w[x].unread /\ me.results = w[x].results
        /\ me.session = w[x].session
    BY <1>1 DEF Writer
  <2> HIDE DEF me
  <2>4. Typed /\ w'[x] = me /\ \A y \in Writers : y # x => w'[y] = w[y]
    BY <2>1, <2>2, SetWriter
  <2> HIDE DEF i, sh
  <2>5. BaseType' /\ StatusSet(x, i, w[x].avail, sh)
    BY <1>1, <1>2, <1>3, <1>4, <2>4, StatusStep
  <2> QED BY <1>1, <1>6, <2>3, <2>4, <2>5 DEF WriteDoes, Carried, i, sh
<1> QED BY <1>5, <1>6

RecordDoes(x, i) ==
    LET m == Head(w[x].queue) IN
    /\ UNCHANGED <<rows, crossed>> /\ Sound(x)
    /\ w[x].pc = "record" /\ i = w[x].device /\ i \in rows /\ w[x].queue # <<>>
    /\ \A k \in Ids : /\ dev'[k].ip = dev[k].ip /\ dev'[k].agent = dev[k].agent
                      /\ dev'[k].status = dev[k].status
                      /\ k # i => /\ dev'[k].avail = dev[k].avail
                                  /\ dev'[k].dated = dev[k].dated
                                  /\ last'[k] = last[k]
    /\ \/ StaysNewest(x, m) /\ dev'[i].avail = dev[i].avail /\ dev'[i].dated = dev[i].dated
       \/ m.says # "other" /\ dev'[i].avail = m.says /\ dev'[i].dated = m.dated
    /\ last'[i].says = last[i].says /\ last'[i].shared = last[i].shared
    /\ last'[i].avail = IF Counts(m) THEN "none" ELSE last[i].avail
    /\ w'[x].device = i /\ w'[x].shared = w[x].shared
    /\ w'[x].queue = Tail(w[x].queue) /\ w'[x].seen = "expired" /\ w'[x].fresh = FALSE
    /\ w'[x].stale = FALSE /\ w'[x].pc = After(Tail(w[x].queue), w[x].says)
    /\ w'[x].says = w[x].says /\ w'[x].avail = w[x].avail /\ w'[x].todo = w[x].todo
    /\ Carried(x)
    /\ \A y \in Writers : y # x => w'[y] = w[y]

LEMMA RecordEffect ==
    ASSUME BaseType, NEW x \in Writers, HoldsOK(x), Record(x)
    PROVE  BaseType' /\ RecordDoes(x, w[x].device)
<1> DEFINE i == w[x].device
<1> DEFINE q == w[x].queue
<1> DEFINE t == Tail(q)
<1> DEFINE h == Head(q)
<1> DEFINE p == After(t, w[x].says)
<1> DEFINE me == [w[x] EXCEPT !.queue = t, !.seen = "expired", !.fresh = FALSE,
                              !.stale = FALSE, !.pc = p]
<1>1. /\ w[x] \in Writer /\ w \in [Writers -> Writer] /\ dev \in [Ids -> Device]
      /\ last \in [Ids -> Report]
      /\ i \in rows /\ i \in Ids /\ dev[i] \in Device /\ last[i] \in Report
      /\ q # <<>> /\ w[x].pc = "record" /\ q \in Seq(Metric)
  BY DEF BaseType, Record, At, HoldsOK, HoldsRows, ReportOK, Reporting, Writer
<1>2. Counted
  BY FaultsStep DEF Record
<1>3. t \in Seq(Metric) /\ h \in Metric
  BY <1>1, HeadTailProperties
<1>4. p \in Places
  BY DEF After, Places
<1>5. Becomes(x, me)
  BY <1>1 DEF Becomes, Record
<1>6. \/ StaysNewest(x, h) /\ dev' = dev
      \/ /\ h.says # "other"
         /\ dev' = [dev EXCEPT ![i].avail = h.says, ![i].dated = h.dated]
  BY DEF Record
<1>7. UNCHANGED <<rows, crossed>> /\ Works(x) /\ Supersedes(x, h)
  BY DEF Record
<1> HIDE DEF t, p
<1>8. me \in Writer
  BY <1>1, <1>3, <1>4 DEF Writer
<1>9. /\ me.queue = t /\ me.seen = "expired" /\ me.pc = p /\ me.device = i
      /\ me.fresh = FALSE /\ me.stale = FALSE
      /\ me.shared = w[x].shared /\ me.says = w[x].says /\ me.avail = w[x].avail
      /\ me.todo = w[x].todo /\ me.listed = w[x].listed /\ me.told = w[x].told
      /\ me.unread = w[x].unread /\ me.results = w[x].results /\ me.session = w[x].session
  BY <1>1 DEF Writer
<1> HIDE DEF me
<1>10. Typed /\ w'[x] = me /\ \A y \in Writers : y # x => w'[y] = w[y]
  BY <1>5, <1>8, SetWriter
<1>11. h.says \in {"up", "down", "other"} /\ h.dated \in BOOLEAN
  BY <1>3 DEF Metric
<1> HIDE DEF h
<1>12. /\ dev' \in [Ids -> Device]
       /\ \A k \in Ids : /\ dev'[k].ip = dev[k].ip /\ dev'[k].agent = dev[k].agent
                         /\ dev'[k].status = dev[k].status /\ (k # i => dev'[k] = dev[k])
       /\ \/ StaysNewest(x, h) /\ dev'[i].avail = dev[i].avail /\ dev'[i].dated = dev[i].dated
          \/ h.says # "other" /\ dev'[i].avail = h.says /\ dev'[i].dated = h.dated
  <2>1. CASE StaysNewest(x, h) /\ dev' = dev
    BY <1>1, <2>1
  <2>2. CASE /\ h.says # "other"
             /\ dev' = [dev EXCEPT ![i].avail = h.says, ![i].dated = h.dated]
    <3> DEFINE d == [dev[i] EXCEPT !.avail = h.says, !.dated = h.dated]
    <3>1. dev' = [dev EXCEPT ![i] = d]
      BY <1>1, <2>2
    <3>2. h.says \in Values
      BY <1>11, <2>2 DEF Values
    <3>3. /\ d \in Device /\ d.avail = h.says /\ d.dated = h.dated /\ d.ip = dev[i].ip
          /\ d.agent = dev[i].agent /\ d.status = dev[i].status
      BY <1>1, <1>11, <3>2 DEF Device
    <3> HIDE DEF d
    <3>4. dev' \in [Ids -> Device] /\ dev'[i] = d /\ \A k \in Ids : k # i => dev'[k] = dev[k]
      BY <1>1, <3>1, <3>3
    <3> QED BY <2>2, <3>3, <3>4
  <2> QED BY <1>6, <2>1, <2>2
<1>13. /\ last' \in [Ids -> Report] /\ \A k \in Ids : k # i => last'[k] = last[k]
       /\ last'[i].says = last[i].says /\ last'[i].shared = last[i].shared
       /\ last'[i].avail = IF Counts(h) THEN "none" ELSE last[i].avail
  <2>1. CASE ~ Counts(h)
    <3>1. last' = last
      BY <1>7, <2>1 DEF Supersedes, Counts
    <3> QED BY <1>1, <2>1, <3>1
  <2>2. CASE Counts(h)
    <3> DEFINE l == [last[i] EXCEPT !.avail = "none"]
    <3>1. last' = [last EXCEPT ![i] = l]
      BY <1>1, <1>7, <2>2 DEF Supersedes, Counts
    <3>2. l \in Report /\ l.says = last[i].says /\ l.shared = last[i].shared /\ l.avail = "none"
      BY <1>1 DEF Report, Values
    <3> HIDE DEF l
    <3>3. /\ last' \in [Ids -> Report] /\ last'[i] = l
          /\ \A k \in Ids : k # i => last'[k] = last[k]
      BY <1>1, <3>1, <3>2
    <3> QED BY <2>2, <3>2, <3>3
  <2> QED BY <2>1, <2>2
<1>14. BaseType'
  BY <1>2, <1>7, <1>10, <1>12, <1>13 DEF BaseType, Typed, Counted
<1>15. RecordDoes(x, i)
  BY <1>1, <1>7, <1>9, <1>10, <1>12, <1>13 DEF RecordDoes, Carried, Works, t, p, h
<1> QED BY <1>14, <1>15

ReadStatusDoes(x) ==
    /\ Alone(x) /\ UNCHANGED crossed /\ Sound(x)
    /\ w[x].pc = "status" /\ w'[x].pc = "write"
    /\ w'[x].seen = IF w[x].seen = "expired" THEN dev[w[x].device].status ELSE w[x].seen
    /\ w'[x].device = w[x].device /\ w'[x].shared = w[x].shared /\ w'[x].stale = w[x].stale
    /\ w'[x].queue = w[x].queue /\ w'[x].says = w[x].says /\ w'[x].avail = w[x].avail
    /\ w'[x].todo = w[x].todo /\ w'[x].fresh = w[x].fresh /\ Carried(x)

LEMMA ReadStatusEffect ==
    ASSUME BaseType, NEW x \in Writers, HoldsOK(x), ReadStatus(x)
    PROVE  BaseType' /\ ReadStatusDoes(x)
<1> DEFINE s == IF w[x].seen = "expired" THEN dev[w[x].device].status ELSE w[x].seen
<1> DEFINE me == [w[x] EXCEPT !.pc = "write", !.seen = s]
<1>1. w[x] \in Writer /\ w \in [Writers -> Writer] /\ w[x].pc = "status"
  BY DEF BaseType, ReadStatus, At
<1>2. w[x].device \in Ids /\ dev[w[x].device] \in Device
  BY <1>1 DEF BaseType, HoldsOK, HoldsRows, Reporting
<1>3. Counted
  BY FaultsStep DEF ReadStatus
<1>4. s \in Statuses \cup {"expired"}
  BY <1>1, <1>2 DEF Device, Writer
<1>5. Becomes(x, me)
  BY <1>1 DEF Becomes, ReadStatus
<1>6. UNCHANGED <<rows, dev, last, crossed>> /\ Works(x)
  BY DEF ReadStatus
<1> HIDE DEF s
<1>7. me \in Writer
  BY <1>1, <1>4 DEF Writer, Places
<1>8. /\ me.pc = "write" /\ me.seen = s /\ me.device = w[x].device /\ me.shared = w[x].shared
      /\ me.stale = w[x].stale /\ me.fresh = w[x].fresh
      /\ me.queue = w[x].queue /\ me.says = w[x].says /\ me.avail = w[x].avail
      /\ me.todo = w[x].todo /\ me.listed = w[x].listed /\ me.told = w[x].told
      /\ me.unread = w[x].unread /\ me.results = w[x].results /\ me.session = w[x].session
  BY <1>1 DEF Writer
<1> HIDE DEF me
<1>9. Typed /\ w'[x] = me /\ \A y \in Writers : y # x => w'[y] = w[y]
  BY <1>5, <1>7, SetWriter
<1>10. BaseType'
  BY <1>3, <1>6, <1>9, TypeFrame DEF BaseType
<1>11. ReadStatusDoes(x)
  BY <1>1, <1>6, <1>8, <1>9 DEF ReadStatusDoes, Alone, Carried, Works, s
<1> QED BY <1>10, <1>11

\* The request goes on to its next result, with the device of this one loaded.
RetainsDoes(x) ==
    /\ Alone(x) /\ UNCHANGED crossed /\ Sound(x)
    /\ x \in Reports /\ w[x].pc = "touched" /\ w'[x].pc = "result"
    /\ w'[x].device = w[x].device /\ w'[x].results # <<>> /\ w'[x].queue = <<>>
    /\ w'[x].listed = w[x].listed /\ w'[x].todo = w[x].todo /\ w'[x].told = w[x].told
    /\ w'[x].unread = w[x].unread /\ w'[x].session = w[x].session
    /\ w'[x].fresh = w[x].fresh /\ w'[x].stale = w[x].stale
    /\ IF w[x].seen = "expired"
         THEN /\ w'[x].seen = dev[w[x].device].status
              /\ w'[x].shared = (Others(x, w[x].device) # {})
         ELSE w'[x].seen = w[x].seen /\ w'[x].shared = w[x].shared

LEMMA TouchEffect ==
    ASSUME BaseType, NEW x \in Writers, HoldsOK(x), Touch(x)
    PROVE  BaseType' /\ (DropDoes(x) \/ RetainsDoes(x))
<1> DEFINE l == Tail(w[x].results)
<1>1. /\ w[x] \in Writer /\ w \in [Writers -> Writer] /\ w[x].pc = "touched" /\ x \in Reports
      /\ UNCHANGED <<rows, dev, last, crossed>> /\ Works(x) /\ Sound(x)
  BY DEF BaseType, Touch, At, Works
<1>2. w[x].device \in Ids /\ dev[w[x].device] \in Device /\ w[x].results # <<>>
  BY <1>1 DEF BaseType, HoldsOK, HoldsRows, KindOK
<1>3. Counted
  BY <1>1, FaultsStep
<1>4. l \in Seq(Result) /\ <<>> \in Seq(Result) /\ <<>> \in Seq(Metric)
  BY <1>1, <1>2, HeadTailProperties, EmptySeq DEF Writer
<1>5. CASE l = <<>>
  <2> DEFINE place == "completed"
  <2> DEFINE me == [w[x] EXCEPT !.results = <<>>]
  <2>1. Leave(x, place, me) /\ place \in Places /\ place # "failed"
    BY <1>5 DEF Touch, Places
  <2> HIDE DEF place
  <2>2. me \in Writer
    BY <1>1, <1>4 DEF Writer
  <2> HIDE DEF me
  <2>3. /\ Typed /\ Left(x, place) /\ Keeps(x, me)
        /\ \A y \in Writers : y # x => w'[y] = w[y]
    BY <2>1, <2>2, LeaveStep
  <2>4. BaseType' /\ Alone(x)
    BY <1>1, <1>3, <2>3, TypeFrame DEF Alone, BaseType
  <2> QED BY <1>1, <2>3, <2>4 DEF DropDoes, me, place
<1>6. CASE l # <<>>
  <2> DEFINE s == IF w[x].seen = "expired" THEN dev[w[x].device].status ELSE w[x].seen
  <2> DEFINE b == IF w[x].seen = "expired" THEN Others(x, w[x].device) # {} ELSE w[x].shared
  <2> DEFINE me == [w[x] EXCEPT !.pc = "result", !.results = l, !.queue = <<>>,
                                !.says = "none", !.avail = "none", !.seen = s, !.shared = b]
  <2>1. Becomes(x, me)
    BY <1>1, <1>6 DEF Becomes, Touch
  <2>2. s \in Statuses \cup {"expired"} /\ b \in BOOLEAN
    BY <1>1, <1>2 DEF Writer, Device
  <2>3. /\ w[x].seen = "expired"
             => s = dev[w[x].device].status /\ b = (Others(x, w[x].device) # {})
        /\ w[x].seen # "expired" => s = w[x].seen /\ b = w[x].shared
    OBVIOUS
  <2> HIDE DEF s, b, l
  <2>4. me \in Writer
    BY <1>1, <1>4, <2>2 DEF Writer, Places, Values
  <2>5. /\ me.pc = "result" /\ me.results = l /\ me.queue = <<>> /\ me.seen = s
        /\ me.shared = b /\ me.device = w[x].device
        /\ me.stale = w[x].stale /\ me.fresh = w[x].fresh
        /\ me.todo = w[x].todo /\ me.listed = w[x].listed /\ me.told = w[x].told
        /\ me.unread = w[x].unread /\ me.session = w[x].session
    BY <1>1 DEF Writer
  <2> HIDE DEF me
  <2>6. Typed /\ w'[x] = me /\ \A y \in Writers : y # x => w'[y] = w[y]
    BY <2>1, <2>4, SetWriter
  <2>7. BaseType'
    BY <1>1, <1>3, <2>6, TypeFrame DEF BaseType
  <2>8. RetainsDoes(x)
    BY <1>1, <1>6, <2>3, <2>5, <2>6 DEF RetainsDoes, Alone
  <2> QED BY <2>7, <2>8
<1> QED BY <1>5, <1>6

\* Every step is one of these.
StepDoes(x) ==
    \/ StartPassDoes(x) \/ GoesDoes(x) \/ DropDoes(x) \/ EntersDoes(x)
    \/ \E i \in rows, up \in BOOLEAN : CollectDoes(x, i, up)
    \/ \E i \in rows : NextUnreadableDoes(x, i) \/ FoundDoes(x, i) \/ SelectOwnDoes(x, i)
    \/ \E i \in Ids : InsertDoes(x, i)
    \/ \E i \in rows : RefreshDoes(x, i) \/ RecordDoes(x, i) \/ WriteDoes(x, i)
    \/ ReadStatusDoes(x) \/ RetainsDoes(x)

LEMMA StepEffect ==
    ASSUME BaseType, NEW x \in Writers, HoldsOK(x), Step(x)
    PROVE  BaseType' /\ StepDoes(x)
<1>1. CASE \E i \in rows, up \in Answering : CollectNext(x, i, up) \/ CollectOne(x, i, up)
  BY <1>1, CollectEffect DEF StepDoes, Answering
<1>2. CASE \E i \in rows : NextUnreadable(x, i)
  BY <1>2, NextUnreadableEffect DEF StepDoes
<1>3. CASE FinishPass(x) \/ \E payload \in Payloads : StartReport(x, payload)
  BY <1>3, GoesEffect DEF StepDoes
<1>4. CASE StartPass(x)
  BY <1>4, StartPassEffect DEF StepDoes
<1>5. CASE FindDevice(x)
  BY <1>5, FindDeviceEffect DEF StepDoes
<1>6. CASE SelectOwn(x)
  BY <1>6, SelectOwnEffect DEF StepDoes
<1>7. CASE Insert(x)
  BY <1>7, InsertEffect DEF StepDoes, InsertDoes
<1>8. CASE RefreshOwn(x)
  <2>1. w[x].device \in rows
    BY <1>8, RefreshEffect DEF RefreshDoes
  <2> QED BY <1>8, <2>1, RefreshEffect DEF StepDoes
<1>9. CASE Record(x)
  <2>1. w[x].device \in rows
    BY <1>9, RecordEffect DEF RecordDoes
  <2> QED BY <1>9, <2>1, RecordEffect DEF StepDoes
<1>10. CASE ReadStatus(x)
  BY <1>10, ReadStatusEffect DEF StepDoes
<1>11. CASE WriteStatus(x)
  <2>1. w[x].device \in rows
    BY <1>11, WriteEffect DEF WriteDoes
  <2> QED BY <1>11, <2>1, WriteEffect DEF StepDoes
<1>12. CASE Except(x) \/ InsertRefused(x) \/ Collected(x) \/ Fails(x)
  BY <1>12, DropEffect DEF StepDoes
<1>13. CASE Touch(x)
  BY <1>13, TouchEffect DEF StepDoes
<1> QED BY <1>1, <1>2, <1>3, <1>4, <1>5, <1>6, <1>7, <1>8, <1>9, <1>10, <1>11, <1>12, <1>13
      DEF Step

-----------------------------------------------------------------------------
(* Where a writer is and what it holds.                                    *)

LEMMA StepFrame ==
    ASSUME BaseType, NEW x \in Writers, StepDoes(x)
    PROVE  rows \subseteq rows' /\ \A y \in Writers : y # x => Kept(y)
<1>1. \A i : Took(x, i) => \A y \in Writers : y # x => Kept(y)
  BY DEF Took, Joined
<1>2. (\A y \in Writers : y # x => w'[y] = w[y]) => \A y \in Writers : y # x => Kept(y)
  BY DEF Kept, Same
<1>3. CASE \/ StartPassDoes(x) \/ GoesDoes(x) \/ DropDoes(x) \/ EntersDoes(x)
           \/ ReadStatusDoes(x) \/ RetainsDoes(x)
  BY <1>2, <1>3 DEF StartPassDoes, GoesDoes, DropDoes, EntersDoes, ReadStatusDoes,
                    RetainsDoes, Alone
<1>4. ASSUME NEW i \in rows, NEW up \in BOOLEAN, CollectDoes(x, i, up)
      PROVE  rows \subseteq rows' /\ \A y \in Writers : y # x => Kept(y)
  BY <1>1, <1>4 DEF CollectDoes
<1>5. ASSUME NEW i \in rows, NextUnreadableDoes(x, i)
      PROVE  rows \subseteq rows' /\ \A y \in Writers : y # x => Kept(y)
  BY <1>2, <1>5 DEF NextUnreadableDoes, Alone
<1>6. ASSUME NEW i \in rows, FoundDoes(x, i) \/ SelectOwnDoes(x, i)
      PROVE  rows \subseteq rows' /\ \A y \in Writers : y # x => Kept(y)
  BY <1>1, <1>6 DEF FoundDoes, SelectOwnDoes
<1>7. ASSUME NEW i \in Ids, InsertDoes(x, i)
      PROVE  rows \subseteq rows' /\ \A y \in Writers : y # x => Kept(y)
  BY <1>1, <1>7 DEF InsertDoes
<1>8. ASSUME NEW i \in rows, RefreshDoes(x, i) \/ RecordDoes(x, i) \/ WriteDoes(x, i)
      PROVE  rows \subseteq rows' /\ \A y \in Writers : y # x => Kept(y)
  BY <1>2, <1>8 DEF RefreshDoes, RecordDoes, WriteDoes, StatusSet
<1> QED BY <1>3, <1>4, <1>5, <1>6, <1>7, <1>8 DEF StepDoes

LEMMA KeptHolds ==
    ASSUME NEW y, HoldsOK(y), Kept(y), rows \subseteq rows'
    PROVE  HoldsOK(y)'
<1>1. HoldsRows(y)'
  BY DEF HoldsOK, HoldsRows, Kept, Same
<1>2. KindOK(y)' /\ ReportOK(y)'
  BY DEF HoldsOK, KindOK, ReportOK, Kept, Same
<1>3. SessionOK(y)'
  BY DEF HoldsOK, SessionOK, Kept, Same, Sound
<1>4. Missed(y)' = Missed(y)
  BY DEF Missed, Kept, Same
<1>5. MissedOK(y)'
  BY <1>4 DEF HoldsOK, MissedOK, Kept, Same, Sound
<1> QED BY <1>1, <1>2, <1>3, <1>5 DEF HoldsOK

LEMMA RowIsId ==
    ASSUME BaseType, NEW i \in rows
    PROVE  i \in Ids /\ i # NoId
  BY WritersAssumption DEF BaseType

\* Where a request goes with a result.
LEMMA AfterPlace ==
    ASSUME NEW queue, NEW says
    PROVE  /\ After(queue, says) \in {"record", "status", "touched"}
           /\ After(queue, says) = "record" <=> queue # <<>>
           /\ After(queue, says) = "status" => says # "none"
           /\ After(queue, says) = "touched" => says = "none"
  BY DEF After

\* All but what a pass has missed.
PlaceOK(x) == HoldsRows(x) /\ KindOK(x) /\ SessionOK(x) /\ ReportOK(x)

LEMMA OnResultHolds ==
    ASSUME BaseType, NEW x \in Reports, HoldsOK(x), NEW seen, NEW stale,
           OnResult(x, seen, stale), w[x].results # <<>>,
           w'[x].device \in rows', rows \subseteq rows', BaseType'
    PROVE  PlaceOK(x)'
<1> DEFINE r == Head(w[x].results)
<1> DEFINE q == r.metrics
<1> DEFINE s == StatusOf(r)
<1> DEFINE p == After(q, s)
<1>1. /\ w'[x].pc = p /\ w'[x].queue = q /\ w'[x].says = s /\ w'[x].todo = w[x].todo
      /\ w'[x].listed = w[x].listed /\ w'[x].told = w[x].told /\ w'[x].unread = w[x].unread
      /\ w'[x].results = w[x].results /\ w'[x].session = w[x].session
      /\ w'[x].fresh = w[x].fresh
  BY DEF OnResult, Carried
<1>2. /\ p \in {"record", "status", "touched"} /\ (p = "record" <=> q # <<>>)
      /\ (p = "status" => s # "none") /\ (p = "touched" => s = "none")
  BY AfterPlace
<1>3. x \notin Passes /\ x \notin Singles /\ w'[x].device # NoId
  BY KindsApart, WritersAssumption DEF Writers, BaseType
<1> HIDE DEF q, s, p
<1>4. HoldsRows(x)'
  BY <1>1, <1>2, <1>3 DEF HoldsOK, HoldsRows, Reporting
<1>5. KindOK(x)' /\ ReportOK(x)'
  BY <1>1, <1>2, <1>3 DEF KindOK, ReportOK, Creating, Reporting
<1>6. SessionOK(x)'
  BY <1>1, <1>3 DEF HoldsOK, SessionOK, Sound
<1> QED BY <1>4, <1>5, <1>6 DEF PlaceOK

LEMMA FailedHolds ==
    ASSUME NEW x \in Writers, Failed(x), NoId \notin Ids
    PROVE  PlaceOK(x)'
<1>1. HoldsRows(x)' /\ KindOK(x)' /\ ReportOK(x)'
  BY KindsApart DEF Failed, Left, HoldsRows, KindOK, ReportOK, Reporting, Creating
<1>2. SessionOK(x)'
  BY DEF Failed, Left, SessionOK, Sound
<1> QED BY <1>1, <1>2 DEF PlaceOK

\* A pass that has let go of its device.
LEMMA LeftHolds ==
    ASSUME NEW x \in Passes, HoldsOK(x), NEW place \in {"next", "caught", "except"},
           Left(x, place), rows \subseteq rows',
           w'[x].listed = w[x].listed, w'[x].todo = w[x].todo,
           w'[x].told \cup w'[x].unread \subseteq rows, SessionOK(x)'
    PROVE  PlaceOK(x)'
<1>1. x \notin Reports /\ x \notin Singles
  BY KindsApart DEF Writers
<1>2. HoldsRows(x)'
  BY DEF HoldsOK, HoldsRows, Left, Reporting
<1>3. KindOK(x)'
  BY <1>1 DEF KindOK, Left, Creating, Reporting
<1>4. ReportOK(x)'
  BY <1>1 DEF ReportOK, Left
<1> QED BY <1>2, <1>3, <1>4 DEF PlaceOK

LEMMA GaveUpSession ==
    ASSUME NEW x, HoldsOK(x), NEW kind \in {"read", "flush", "commit"}, GaveUpDoes(x, kind),
           w[x].pc \in {"record", "status", "write", "touched"}, w[x].fresh \in BOOLEAN,
           w[x].session \in {"sound", "inactive", "prepared"}
    PROVE  SessionOK(x)'
<1> DEFINE s == SessionAfter(x, kind)
<1>1. /\ w'[x].session = s /\ w'[x].fresh = (w[x].fresh /\ s # "inactive")
      /\ w'[x].told = w[x].told /\ x \in Passes
      /\ w'[x].pc = IF s # "inactive" /\ (w[x].fresh \/ w[x].seen # "expired")
                      THEN "caught" ELSE "except"
  BY DEF GaveUpDoes, Left, InMemory
<1>2. w[x].fresh => w[x].told = {}
  BY DEF HoldsOK, SessionOK
<1> HIDE DEF s
<1> QED BY <1>1, <1>2 DEF SessionOK, Sound

LEMMA PlaceSelf ==
    ASSUME BaseType, BaseType', NEW x \in Writers, HoldsOK(x), StepDoes(x)
    PROVE  PlaceOK(x)'
<1>1. w[x] \in Writer /\ rows \subseteq rows' /\ rows \subseteq Ids /\ NoId \notin Ids
  BY StepFrame, WritersAssumption DEF BaseType
<1>2. /\ x \in Passes => x \notin Singles /\ x \notin Reports
      /\ x \in Singles => x \notin Passes /\ x \notin Reports
      /\ x \in Passes \/ x \in Singles \/ x \in Reports
  BY KindsApart
<1>3. HoldsRows(x) /\ KindOK(x) /\ SessionOK(x) /\ ReportOK(x)
  BY DEF HoldsOK
<1>4. CASE StartPassDoes(x)
  <2>1. /\ x \in Passes /\ w[x].pc = "idle" /\ w[x].session = "sound"
        /\ w[x].device = NoId /\ w[x].queue = <<>> /\ w[x].told = {}
    BY <1>4, <1>3 DEF StartPassDoes, SessionOK, Sound, HoldsRows, Reporting, ReportOK, KindOK
  <2>2. CASE w'[x] = [w[x] EXCEPT !.pc = "next", !.listed = Listed, !.todo = Listed,
                                  !.fresh = TRUE]
    <3>1. /\ w'[x].pc = "next" /\ w'[x].listed = Listed /\ w'[x].todo = Listed
          /\ w'[x].told = {} /\ w'[x].unread = w[x].unread /\ w'[x].device = NoId
          /\ w'[x].session = "sound" /\ w'[x].queue = <<>> /\ Listed \subseteq rows
      BY <1>1, <2>1, <2>2 DEF Writer, Listed
    <3>2. HoldsRows(x)' /\ KindOK(x)' /\ ReportOK(x)'
      BY <1>1, <1>2, <1>3, <2>1, <3>1 DEF HoldsRows, KindOK, ReportOK, Reporting, Creating
    <3>3. SessionOK(x)'
      BY <2>1, <3>1 DEF SessionOK, Sound
    <3> QED BY <3>2, <3>3 DEF PlaceOK
  <2> QED BY <1>1, <1>4, <2>2, FailedHolds DEF StartPassDoes
<1>5. CASE GoesDoes(x)
  <2>1. PICK p, results : /\ p \in {"completed", "result", "insert"}
                          /\ Moves(x, p, results)
    BY <1>5 DEF GoesDoes
  <2>2. w[x].device = NoId /\ w[x].queue = <<>> /\ (w[x].pc = "create" => ~ w[x].stale)
    BY <1>5, <1>3 DEF GoesDoes, HoldsRows, Reporting, ReportOK
  <2>3. /\ w'[x].pc = p /\ w'[x].device = w[x].device
        /\ w'[x].listed = w[x].listed /\ w'[x].todo = w[x].todo /\ w'[x].told = w[x].told
        /\ w'[x].unread = w[x].unread /\ w'[x].queue = w[x].queue
        /\ w'[x].session = w[x].session /\ w'[x].fresh = w[x].fresh
    BY <2>1, MovesFields
  <2>4. HoldsRows(x)' /\ ReportOK(x)'
    BY <1>1, <1>3, <2>1, <2>2, <2>3 DEF HoldsRows, ReportOK, Reporting
  <2>5. \A place, res : Moves(x, place, res) =>
          w'[x].pc = place /\ w'[x].results = res /\ w'[x].todo = w[x].todo
    BY MovesFields
  <2>6. KindOK(x)'
    <3>1. CASE x \in Passes /\ w[x].todo = {} /\ Moves(x, "completed", w[x].results)
      BY <1>2, <2>2, <2>5, <3>1 DEF KindOK, Creating, Reporting
    <3>2. CASE x \in Reports /\ \E q \in Payloads : Moves(x, "result", q)
      BY <1>2, <2>2, <2>5, <3>2, PayloadsAssumption DEF KindOK, Creating, Reporting
    <3>3. CASE x \in Reports /\ w[x].results # <<>> /\ Moves(x, "insert", w[x].results)
      BY <1>2, <2>2, <2>5, <3>3 DEF KindOK, Creating, Reporting
    <3>4. x \in Reports /\ w[x].pc = "create" => w[x].results # <<>>
      BY <1>3 DEF KindOK, Creating
    <3> QED BY <1>5, <3>1, <3>2, <3>3, <3>4 DEF GoesDoes
  <2>7. SessionOK(x)'
    <3>1. CASE x \in Passes /\ w[x].pc = "next" /\ p = "completed"
      BY <1>3, <2>3, <3>1 DEF SessionOK, Sound
    <3>2. CASE x \in Reports
      BY <1>2, <1>3, <2>3, <3>2 DEF SessionOK, Sound
    <3> QED BY <1>5, <2>3, <2>5, <3>1, <3>2 DEF GoesDoes
  <2> QED BY <2>4, <2>6, <2>7 DEF PlaceOK
<1>6. CASE DropDoes(x)
  <2>1. ASSUME NEW place \in {"next", "caught", "except"}, x \in Passes, Left(x, place),
               w'[x].listed = w[x].listed, w'[x].todo = w[x].todo,
               w'[x].told \subseteq rows, w'[x].unread \subseteq rows, SessionOK(x)'
        PROVE  PlaceOK(x)'
    BY <1>1, <2>1, LeftHolds
  <2>2. w[x].told \subseteq rows /\ w[x].unread \subseteq rows
    BY <1>3 DEF HoldsRows
  <2>3. CASE Failed(x)
    BY <1>1, <2>3, FailedHolds
  <2>4. CASE /\ w[x].pc = "caught" \/ (w[x].pc = "except" /\ Sound(x))
             /\ Left(x, "next") /\ Keeps(x, w[x])
    <3>1. x \in Passes
      BY <1>3, <2>4 DEF KindOK
    <3>2. SessionOK(x)'
      BY <1>3, <2>4, <3>1 DEF SessionOK, Sound, Left, Keeps
    <3> QED BY <2>1, <2>2, <2>4, <3>1, <3>2 DEF Keeps
  <2>5. CASE /\ w[x].pc = "touched" /\ x \in Passes /\ Sound(x) /\ Left(x, "next")
             /\ Keeps(x, [w[x] EXCEPT !.told = @ \cup {w[x].device}])
    <3>1. /\ w'[x].told = w[x].told \cup {w[x].device} /\ w'[x].listed = w[x].listed
          /\ w'[x].todo = w[x].todo /\ w'[x].unread = w[x].unread
          /\ w'[x].session = w[x].session /\ w'[x].fresh = w[x].fresh
      BY <1>1, <2>5 DEF Keeps, Writer
    <3>2. w[x].device \in rows /\ ~ w[x].fresh
      BY <1>3, <2>5 DEF HoldsRows, SessionOK
    <3>3. SessionOK(x)'
      BY <2>5, <3>1, <3>2 DEF SessionOK, Sound
    <3> QED BY <2>1, <2>2, <2>5, <3>1, <3>2, <3>3
  <2>6. CASE /\ w[x].pc = "touched" /\ x \in Reports /\ Sound(x) /\ Left(x, "completed")
             /\ Keeps(x, [w[x] EXCEPT !.results = <<>>])
    <3>1. /\ w'[x].told = w[x].told /\ w'[x].listed = w[x].listed
          /\ w'[x].todo = w[x].todo /\ w'[x].unread = w[x].unread
          /\ w'[x].session = w[x].session /\ w'[x].fresh = w[x].fresh
      BY <1>1, <2>6 DEF Keeps, Writer
    <3>2. HoldsRows(x)' /\ KindOK(x)' /\ ReportOK(x)'
      BY <1>1, <1>2, <1>3, <2>6, <3>1
         DEF Left, HoldsRows, KindOK, ReportOK, Reporting, Creating
    <3>3. SessionOK(x)'
      BY <1>2, <1>3, <2>6, <3>1 DEF Left, SessionOK, Sound
    <3> QED BY <3>2, <3>3 DEF PlaceOK
  <2>7. ASSUME NEW kind \in {"read", "flush", "commit"}, GaveUpDoes(x, kind),
               w[x].pc \in {"record", "status", "write", "touched"}
        PROVE  PlaceOK(x)'
    <3> DEFINE place == IF InMemory(x, kind) THEN "caught" ELSE "except"
    <3>1. place \in {"next", "caught", "except"}
      OBVIOUS
    <3>2. SessionOK(x)'
      BY <1>1, <2>7, GaveUpSession DEF Writer
    <3>3. w[x].device \in rows
      BY <1>3, <2>7 DEF HoldsRows, Reporting
    <3>4. /\ x \in Passes /\ Left(x, place) /\ w'[x].listed = w[x].listed
          /\ w'[x].todo = w[x].todo /\ w'[x].told = w[x].told
          /\ w'[x].unread \subseteq w[x].unread \cup {w[x].device}
      BY <2>7 DEF GaveUpDoes
    <3> HIDE DEF place
    <3> QED BY <2>1, <2>2, <3>1, <3>2, <3>3, <3>4
  <2> QED BY <1>6, <2>3, <2>4, <2>5, <2>6, <2>7 DEF DropDoes
<1>7. ASSUME NEW i \in rows, NEW up \in BOOLEAN, CollectDoes(x, i, up)
      PROVE  PlaceOK(x)'
  <2>1. /\ w'[x].pc = "record" /\ w'[x].todo = w[x].todo \ {i} /\ w'[x].device = i
        /\ w'[x].queue # <<>> /\ w'[x].says # "none"
        /\ w'[x].listed = w[x].listed /\ w'[x].told = w[x].told
        /\ w'[x].unread = w[x].unread /\ w'[x].session = w[x].session
        /\ w'[x].fresh = w[x].fresh
    BY <1>7, PingedType DEF CollectDoes, Carried, Took
  <2>2. /\ x \notin Reports
        /\ \/ x \in Passes /\ w[x].pc = "next" /\ (w[x].fresh \/ Sound(x))
           \/ x \in Singles
    BY <1>2, <1>3, <1>7 DEF CollectDoes, KindOK
  <2>3. HoldsRows(x)' /\ KindOK(x)' /\ ReportOK(x)'
    BY <1>1, <1>2, <1>3, <2>1, <2>2 DEF HoldsRows, KindOK, ReportOK, Reporting, Creating
  <2>4. SessionOK(x)'
    BY <1>2, <1>3, <2>1, <2>2 DEF SessionOK, Sound
  <2> QED BY <2>3, <2>4 DEF PlaceOK
<1>8. ASSUME NEW i \in rows, NextUnreadableDoes(x, i)
      PROVE  PlaceOK(x)'
  <2>1. /\ w'[x].pc = "except" /\ w'[x].todo = w[x].todo \ {i} /\ w'[x].device = w[x].device
        /\ w'[x].queue = w[x].queue /\ w'[x].listed = w[x].listed /\ w'[x].told = w[x].told
        /\ w'[x].unread \subseteq w[x].unread \cup {i}
        /\ w'[x].session = w[x].session /\ w'[x].fresh = w[x].fresh /\ ~ w[x].fresh
    BY <1>8 DEF NextUnreadableDoes
  <2>2. x \in Passes /\ w[x].pc = "next" /\ w[x].device = NoId /\ w[x].queue = <<>>
    BY <1>8, <1>3 DEF NextUnreadableDoes, KindOK, HoldsRows, Reporting, ReportOK
  <2>3. HoldsRows(x)' /\ KindOK(x)' /\ ReportOK(x)'
    BY <1>1, <1>2, <1>3, <2>1, <2>2 DEF HoldsRows, KindOK, ReportOK, Reporting, Creating
  <2>4. SessionOK(x)'
    BY <1>2, <1>3, <2>1, <2>2 DEF SessionOK, Sound
  <2> QED BY <2>3, <2>4 DEF PlaceOK
<1>9. ASSUME NEW i \in rows, FoundDoes(x, i)
      PROVE  PlaceOK(x)'
  <2>1. x \in Reports /\ w[x].results # <<>> /\ w'[x].device \in rows'
    BY <1>1, <1>9 DEF FoundDoes, Took
  <2> QED BY <1>1, <1>9, <2>1, OnResultHolds DEF FoundDoes
<1>10. ASSUME NEW i \in rows, SelectOwnDoes(x, i)
       PROVE  PlaceOK(x)'
  <2>1. /\ w'[x].pc = "refresh" /\ w'[x].queue = w[x].queue /\ w'[x].todo = w[x].todo
        /\ w'[x].device = i /\ w'[x].results = w[x].results /\ w[x].results # <<>>
        /\ w'[x].listed = w[x].listed /\ w'[x].told = w[x].told
        /\ w'[x].unread = w[x].unread /\ w'[x].session = w[x].session
        /\ w'[x].fresh = w[x].fresh /\ w'[x].stale = w[x].stale
        /\ x \in Reports /\ w[x].pc = "create"
        /\ w'[x].seen = dev[i].status /\ w'[x].says = CreateStatus(Head(w[x].results))
    BY <1>10 DEF SelectOwnDoes, Carried, Took
  <2>2. w'[x].says # "none" /\ w'[x].seen # "expired"
    <3>1. Head(w[x].results) \in Result /\ dev[i] \in Device
      BY <2>1, HeadType, RowIsId DEF BaseType
    <3>2. dev[i].status \in Statuses /\ CreateStatus(Head(w[x].results)) \in Statuses
      BY <3>1, CreateStatusType DEF Device
    <3> QED BY <2>1, <3>2 DEF Statuses
  <2>3. w[x].queue = <<>> /\ ~ w[x].stale
    BY <1>3, <2>1 DEF ReportOK
  <2>4. HoldsRows(x)' /\ KindOK(x)' /\ ReportOK(x)'
    BY <1>1, <1>2, <1>3, <2>1, <2>2, <2>3
       DEF HoldsRows, KindOK, ReportOK, Reporting, Creating
  <2>5. SessionOK(x)'
    BY <1>2, <1>3, <2>1 DEF SessionOK, Sound
  <2> QED BY <2>4, <2>5 DEF PlaceOK
<1>11. ASSUME NEW i \in Ids, InsertDoes(x, i)
       PROVE  PlaceOK(x)'
  <2>1. x \in Reports /\ w[x].results # <<>> /\ w'[x].device \in rows'
    BY <1>11 DEF InsertDoes, Took
  <2> QED BY <1>1, <1>11, <2>1, OnResultHolds DEF InsertDoes
<1>12. ASSUME NEW i \in rows, RefreshDoes(x, i)
       PROVE  PlaceOK(x)'
  <2>1. x \in Reports /\ w[x].results # <<>> /\ w'[x].device \in rows'
    BY <1>1, <1>12 DEF RefreshDoes
  <2> QED BY <1>1, <1>12, <2>1, OnResultHolds DEF RefreshDoes
<1>13. ASSUME NEW i \in rows, RecordDoes(x, i)
       PROVE  PlaceOK(x)'
  <2> DEFINE q == Tail(w[x].queue)
  <2> DEFINE p == After(q, w[x].says)
  <2>1. /\ w'[x].pc = p /\ w'[x].queue = q /\ w'[x].todo = w[x].todo /\ w'[x].device = i
        /\ w'[x].results = w[x].results /\ w'[x].listed = w[x].listed
        /\ w'[x].told = w[x].told /\ w'[x].unread = w[x].unread
        /\ w'[x].session = w[x].session /\ w'[x].fresh = FALSE /\ Sound(x)
        /\ w'[x].says = w[x].says /\ w[x].pc = "record" /\ w[x].device = i
    BY <1>13 DEF RecordDoes, Carried
  <2>2. /\ p \in {"record", "status", "touched"} /\ (p = "record" <=> q # <<>>)
        /\ (p = "status" => w[x].says # "none") /\ (p = "touched" => w[x].says = "none")
    BY AfterPlace
  <2>3. i # NoId /\ (x \notin Reports => w[x].says # "none")
          /\ (x \in Reports => w[x].results # <<>>)
    BY <1>1, <1>3, <2>1 DEF KindOK, Reporting, ReportOK
  <2> HIDE DEF p, q
  <2>4. HoldsRows(x)' /\ ReportOK(x)'
    BY <1>1, <1>3, <2>1, <2>2, <2>3 DEF HoldsRows, ReportOK, Reporting
  <2>5. KindOK(x)'
    BY <1>2, <2>1, <2>2, <2>3 DEF KindOK, Creating, Reporting
  <2>6. SessionOK(x)'
    BY <2>1 DEF SessionOK, Sound
  <2> QED BY <2>4, <2>5, <2>6 DEF PlaceOK
<1>14. ASSUME NEW i \in rows, WriteDoes(x, i)
       PROVE  PlaceOK(x)'
  <2>1. /\ w[x].pc = "write" /\ w[x].device = i /\ Sound(x) /\ ~ w[x].fresh
        /\ (x \in Reports => w[x].results # <<>>) /\ w[x].queue = <<>> /\ w[x].says # "none"
    BY <1>3, <1>14 DEF WriteDoes, StatusSet, KindOK, Reporting, SessionOK, ReportOK
  <2>2. CASE x \in Singles /\ Left(x, "completed") /\ Keeps(x, w[x])
    <3>1. HoldsRows(x)' /\ KindOK(x)' /\ ReportOK(x)'
      BY <1>1, <1>2, <1>3, <2>2
         DEF Left, Keeps, HoldsRows, KindOK, ReportOK, Reporting, Creating
    <3>2. SessionOK(x)'
      BY <2>1, <2>2 DEF Left, Keeps, SessionOK, Sound
    <3> QED BY <3>1, <3>2 DEF PlaceOK
  <2>3. CASE /\ x \notin Singles /\ Carried(x) /\ w'[x].pc = "touched" /\ w'[x].device = i
             /\ w'[x].todo = w[x].todo /\ w'[x].queue = w[x].queue /\ w'[x].says = w[x].says
             /\ w'[x].fresh = w[x].fresh
    <3>1. HoldsRows(x)' /\ KindOK(x)' /\ ReportOK(x)'
      BY <1>1, <1>2, <1>3, <2>1, <2>3
         DEF Carried, HoldsRows, KindOK, ReportOK, Reporting, Creating
    <3>2. SessionOK(x)'
      BY <2>1, <2>3 DEF Carried, SessionOK, Sound
    <3> QED BY <3>1, <3>2 DEF PlaceOK
  <2> QED BY <1>14, <2>2, <2>3 DEF WriteDoes
<1>15. CASE ReadStatusDoes(x)
  <2>1. /\ w'[x].pc = "write" /\ w'[x].queue = w[x].queue /\ w'[x].todo = w[x].todo
        /\ w'[x].device = w[x].device /\ w'[x].results = w[x].results
        /\ w'[x].listed = w[x].listed /\ w'[x].told = w[x].told
        /\ w'[x].unread = w[x].unread /\ w'[x].session = w[x].session
        /\ w'[x].fresh = w[x].fresh /\ Sound(x)
        /\ w'[x].says = w[x].says /\ w[x].pc = "status"
    BY <1>15 DEF ReadStatusDoes, Carried
  <2>2. w'[x].seen # "expired"
    <3>1. w[x].device \in rows /\ dev[w[x].device] \in Device
      BY <1>1, <1>3, <2>1 DEF HoldsRows, Reporting, BaseType
    <3>2. dev[w[x].device].status \in Statuses
      BY <3>1 DEF Device
    <3> QED BY <1>15, <3>2 DEF ReadStatusDoes, Statuses
  <2>3. HoldsRows(x)' /\ KindOK(x)' /\ ReportOK(x)'
    BY <1>1, <1>2, <1>3, <2>1, <2>2 DEF HoldsRows, KindOK, ReportOK, Reporting, Creating
  <2>4. SessionOK(x)'
    BY <1>3, <2>1 DEF SessionOK, Sound
  <2> QED BY <2>3, <2>4 DEF PlaceOK
<1>16. CASE EntersDoes(x)
  <2>1. HoldsRows(x)' /\ KindOK(x)' /\ ReportOK(x)'
    BY <1>1, <1>2, <1>3, <1>16
       DEF EntersDoes, Left, Keeps, HoldsRows, KindOK, ReportOK, Reporting, Creating
  <2>2. SessionOK(x)'
    BY <1>2, <1>3, <1>16 DEF EntersDoes, Left, Keeps, SessionOK, Sound
  <2> QED BY <2>1, <2>2 DEF PlaceOK
<1>17. CASE RetainsDoes(x)
  <2>1. HoldsRows(x)' /\ KindOK(x)' /\ ReportOK(x)'
    BY <1>1, <1>2, <1>3, <1>17
       DEF RetainsDoes, HoldsRows, KindOK, ReportOK, Reporting, Creating
  <2>2. SessionOK(x)'
    BY <1>2, <1>3, <1>17 DEF RetainsDoes, SessionOK, Sound
  <2> QED BY <2>1, <2>2 DEF PlaceOK
<1> QED BY <1>4, <1>5, <1>6, <1>7, <1>8, <1>9, <1>10, <1>11, <1>12, <1>13, <1>14, <1>15,
           <1>16, <1>17
      DEF StepDoes


-----------------------------------------------------------------------------
(* The devices that a pass has missed.                                     *)

\* A pass that misses no more than before.
LEMMA MissedShrinks ==
    ASSUME NEW x \in Passes, MissedOK(x), Missed(x)' \subseteq Missed(x),
           Sound(x)' => Sound(x),
           Sound(x) \/ (~ w'[x].fresh => ~ w[x].fresh /\ w[x].pc # "except")
    PROVE  MissedOK(x)'
<1>1. CASE Sound(x)
  <2>1. Missed(x)' = {}
    BY <1>1 DEF MissedOK
  <2> QED BY <2>1 DEF MissedOK
<1>2. CASE ~ Sound(x)
  <2>1. ~ Sound(x)' /\ (~ w'[x].fresh => \E i : Missed(x) \subseteq {i})
    BY <1>2 DEF MissedOK
  <2>2. ~ w'[x].fresh => \E i : Missed(x)' \subseteq {i}
    BY <2>1
  <2> QED BY <2>1, <2>2 DEF MissedOK
<1> QED BY <1>1, <1>2

\* A statement has raised, and the device may be missed from now on.
LEMMA GaveUpMissed ==
    ASSUME BaseType, NEW x \in Passes, HoldsOK(x), NEW kind \in {"read", "flush", "commit"},
           GaveUpDoes(x, kind), w[x].pc \in {"record", "status", "write", "touched"},
           w[x].pc \in {"record", "write"} <=> kind # "read"
    PROVE  MissedOK(x)'
<1> DEFINE s == SessionAfter(x, kind)
<1>1. /\ w'[x].session = s /\ w'[x].fresh = (w[x].fresh /\ s # "inactive")
      /\ w'[x].device = NoId /\ w'[x].listed = w[x].listed /\ w'[x].todo = w[x].todo
      /\ w'[x].told = w[x].told
      /\ w'[x].unread = IF kind = "read" THEN w[x].unread \cup {w[x].device} ELSE w[x].unread
      /\ w'[x].pc = IF s # "inactive" /\ (w[x].fresh \/ w[x].seen # "expired")
                      THEN "caught" ELSE "except"
  BY DEF GaveUpDoes, Left, InMemory
<1>2. /\ s = IF Sound(x) THEN Broken[kind] ELSE w[x].session
      /\ w[x].session # "inactive" /\ (~ Sound(x) => w[x].fresh /\ w[x].pc = "record")
      /\ w[x].fresh \in BOOLEAN /\ x \in Writers
  BY DEF SessionAfter, HoldsOK, SessionOK, BaseType, Writer, Writers
<1>3. Broken["read"] = "sound" /\ Broken["flush"] = "inactive" /\ Broken["commit"] = "prepared"
  BY DEF Broken
<1>4. Sound(x)' <=> s = "sound"
  BY <1>1 DEF Sound
<1>5. MissedOK(x)
  BY DEF HoldsOK
<1> HIDE DEF s
<1>6. CASE kind = "read"
  <2>1. Sound(x) /\ Missed(x) = {}
    BY <1>2, <1>5, <1>6 DEF MissedOK
  <2>2. Missed(x)' \subseteq Missed(x)
    BY <1>1, <1>6 DEF Missed
  <2>3. Missed(x)' = {}
    BY <2>1, <2>2
  <2> QED BY <2>3 DEF MissedOK
<1>7. CASE kind # "read" /\ Sound(x)
  <2>1. ~ Sound(x)' /\ Missed(x) = {}
    BY <1>2, <1>3, <1>4, <1>5, <1>7 DEF MissedOK
  <2>2. Missed(x)' \subseteq Missed(x) \cup {w[x].device}
    BY <1>1, <1>7 DEF Missed
  <2>3. Missed(x)' \subseteq {w[x].device}
    BY <2>1, <2>2
  <2> QED BY <2>1, <2>3 DEF MissedOK
<1>8. CASE ~ Sound(x)
  <2>1. ~ Sound(x)' /\ w'[x].fresh
    BY <1>1, <1>2, <1>4, <1>8 DEF Sound
  <2> QED BY <2>1 DEF MissedOK
<1> QED BY <1>6, <1>7, <1>8

LEMMA MissedSelf ==
    ASSUME BaseType, BaseType', NEW x \in Writers, HoldsOK(x), StepDoes(x)
    PROVE  MissedOK(x)'
<1> SUFFICES ASSUME x \in Passes PROVE MissedOK(x)'
  BY DEF MissedOK
<1>1. /\ w[x] \in Writer /\ rows \subseteq Ids /\ NoId \notin Ids /\ x \notin Reports
      /\ x \notin Singles
  BY KindsApart, WritersAssumption DEF BaseType
<1>2. HoldsRows(x) /\ KindOK(x) /\ SessionOK(x) /\ ReportOK(x) /\ MissedOK(x)
  BY DEF HoldsOK
<1>3. CASE StartPassDoes(x)
  <2>1. w[x].pc = "idle" /\ Sound(x)
    BY <1>2, <1>3 DEF StartPassDoes, SessionOK
  <2>2. CASE w'[x] = [w[x] EXCEPT !.pc = "next", !.listed = Listed, !.todo = Listed,
                                  !.fresh = TRUE]
    <3>1. w'[x].listed = Listed /\ w'[x].todo = Listed
      BY <1>1, <2>2 DEF Writer
    <3>2. Missed(x)' = {}
      BY <3>1 DEF Missed
    <3> QED BY <3>2 DEF MissedOK
  <2>3. CASE Failed(x)
    <3>1. Missed(x)' = {}
      BY <2>3 DEF Failed, Missed
    <3> QED BY <3>1 DEF MissedOK
  <2> QED BY <1>3, <2>2, <2>3 DEF StartPassDoes
<1>4. CASE GoesDoes(x)
  <2>1. PICK p, results : Moves(x, p, results)
    BY <1>4 DEF GoesDoes
  <2>2. /\ w'[x].listed = w[x].listed /\ w'[x].told = w[x].told /\ w'[x].todo = w[x].todo
        /\ w'[x].unread = w[x].unread /\ w'[x].device = w[x].device
        /\ w'[x].session = w[x].session /\ w'[x].fresh = w[x].fresh
    BY <1>1, <2>1, MovesFields
  <2>3. w[x].pc # "except"
    BY <1>4 DEF GoesDoes
  <2>4. Missed(x)' \subseteq Missed(x)
    BY <2>2 DEF Missed
  <2> QED BY <1>2, <2>2, <2>3, <2>4, MissedShrinks DEF Sound
<1>5. CASE DropDoes(x)
  <2>1. CASE Failed(x)
    <3>1. Missed(x)' = {}
      BY <2>1 DEF Failed, Missed
    <3> QED BY <3>1 DEF MissedOK
  <2>2. CASE /\ w[x].pc = "caught" \/ (w[x].pc = "except" /\ Sound(x))
             /\ Left(x, "next") /\ Keeps(x, w[x])
    <3>1. w[x].device = NoId
      BY <1>2, <2>2 DEF HoldsRows, Reporting
    <3>2. /\ w'[x].device = NoId /\ w'[x].listed = w[x].listed /\ w'[x].todo = w[x].todo
          /\ w'[x].told = w[x].told /\ w'[x].unread = w[x].unread
          /\ w'[x].session = w[x].session /\ w'[x].fresh = w[x].fresh
      BY <2>2 DEF Left, Keeps
    <3>3. Missed(x)' \subseteq Missed(x)
      BY <3>1, <3>2 DEF Missed
    <3> QED BY <1>2, <2>2, <3>2, <3>3, MissedShrinks DEF Sound
  <2>3. CASE /\ w[x].pc = "touched" /\ Sound(x) /\ Left(x, "next")
             /\ Keeps(x, [w[x] EXCEPT !.told = @ \cup {w[x].device}])
    <3>1. /\ w'[x].told = w[x].told \cup {w[x].device} /\ w'[x].listed = w[x].listed
          /\ w'[x].todo = w[x].todo /\ w'[x].unread = w[x].unread
          /\ w'[x].session = w[x].session
      BY <1>1, <2>3 DEF Keeps, Writer
    <3>2. Missed(x)' \subseteq Missed(x)
      BY <3>1 DEF Missed
    <3> QED BY <1>2, <2>3, <3>1, <3>2, MissedShrinks DEF Sound
  <2>4. ASSUME NEW kind \in {"read", "flush", "commit"}, GaveUpDoes(x, kind),
               w[x].pc \in {"record", "status", "write", "touched"},
               w[x].pc \in {"record", "write"} <=> kind # "read"
        PROVE  MissedOK(x)'
    BY <2>4, GaveUpMissed
  <2> QED BY <1>1, <1>5, <2>1, <2>2, <2>3, <2>4 DEF DropDoes
<1>6. ASSUME NEW i \in rows, NEW up \in BOOLEAN, CollectDoes(x, i, up) PROVE MissedOK(x)'
  <2>1. /\ w'[x].listed = w[x].listed /\ w'[x].told = w[x].told
        /\ w'[x].todo = w[x].todo \ {i} /\ w'[x].device = i /\ w'[x].unread = w[x].unread
        /\ w'[x].session = w[x].session /\ w'[x].fresh = w[x].fresh /\ w[x].pc = "next"
    BY <1>1, <1>6 DEF CollectDoes, Carried, Took
  <2>2. w[x].device = NoId /\ w[x].listed \subseteq Ids
    BY <1>1, <1>2, <2>1 DEF HoldsRows, Reporting, Writer
  <2>3. Missed(x)' \subseteq Missed(x)
    BY <1>1, <2>1, <2>2 DEF Missed
  <2> QED BY <1>2, <2>1, <2>3, MissedShrinks DEF Sound
<1>7. ASSUME NEW i \in rows, NextUnreadableDoes(x, i) PROVE MissedOK(x)'
  <2>1. /\ w'[x].listed = w[x].listed /\ w'[x].told = w[x].told /\ w'[x].pc = "except"
        /\ w'[x].todo = w[x].todo \ {i} /\ w'[x].device = w[x].device
        /\ w'[x].session = w[x].session
        /\ w'[x].unread = IF Sound(x) THEN w[x].unread \cup {i} ELSE w[x].unread
    BY <1>7 DEF NextUnreadableDoes
  <2>2. CASE Sound(x)
    <3>1. Missed(x)' \subseteq Missed(x) /\ Missed(x) = {}
      BY <1>2, <2>1, <2>2 DEF Missed, MissedOK
    <3>2. Missed(x)' = {}
      BY <3>1
    <3> QED BY <3>2 DEF MissedOK
  <2>3. CASE ~ Sound(x)
    BY <2>1, <2>3 DEF MissedOK, Sound
  <2> QED BY <2>2, <2>3
<1>8. ASSUME NEW i \in rows, RecordDoes(x, i) PROVE MissedOK(x)'
  <2>1. /\ w'[x].listed = w[x].listed /\ w'[x].told = w[x].told /\ w'[x].todo = w[x].todo
        /\ w'[x].unread = w[x].unread /\ w'[x].device = w[x].device /\ Sound(x)
        /\ w'[x].session = w[x].session
    BY <1>8 DEF RecordDoes, Carried
  <2>2. Missed(x)' \subseteq Missed(x)
    BY <2>1 DEF Missed
  <2> QED BY <1>2, <2>1, <2>2, MissedShrinks DEF Sound
<1>9. CASE ReadStatusDoes(x)
  <2>1. /\ w'[x].listed = w[x].listed /\ w'[x].told = w[x].told /\ w'[x].todo = w[x].todo
        /\ w'[x].unread = w[x].unread /\ w'[x].device = w[x].device /\ Sound(x)
        /\ w'[x].session = w[x].session
    BY <1>9 DEF ReadStatusDoes, Carried
  <2>2. Missed(x)' \subseteq Missed(x)
    BY <2>1 DEF Missed
  <2> QED BY <1>2, <2>1, <2>2, MissedShrinks DEF Sound
<1>10. ASSUME NEW i \in rows, WriteDoes(x, i) PROVE MissedOK(x)'
  <2>1. /\ w'[x].listed = w[x].listed /\ w'[x].told = w[x].told /\ w'[x].todo = w[x].todo
        /\ w'[x].unread = w[x].unread /\ w'[x].device = w[x].device /\ Sound(x)
        /\ w'[x].session = w[x].session
    BY <1>1, <1>10 DEF WriteDoes, StatusSet, Carried
  <2>2. Missed(x)' \subseteq Missed(x)
    BY <2>1 DEF Missed
  <2> QED BY <1>2, <2>1, <2>2, MissedShrinks DEF Sound
<1> QED BY <1>1, <1>3, <1>4, <1>5, <1>6, <1>7, <1>8, <1>9, <1>10
      DEF StepDoes, FoundDoes, SelectOwnDoes, InsertDoes, RefreshDoes, EntersDoes, RetainsDoes

LEMMA FreshStep ==
    ASSUME BaseType, FreshOK, NEW x \in Writers, HoldsOK(x), StepDoes(x)
    PROVE  FreshOK'
<1> SUFFICES ASSUME NEW k \in Ids \ rows' PROVE last'[k].avail = "none"
  BY DEF FreshOK
<1>1. k \notin rows /\ last[k].avail = "none" /\ rows \subseteq Ids
  BY StepFrame DEF FreshOK, BaseType
<1>2. ASSUME NEW i \in rows, \A j \in Ids : j # i => last'[j] = last[j]
      PROVE  last'[k].avail = "none"
  BY <1>1, <1>2
<1>3. CASE UNCHANGED last
  BY <1>1, <1>3
<1>4. ASSUME NEW i \in Ids, InsertDoes(x, i)
      PROVE  last'[k].avail = "none"
  <2>1. /\ last' = [last EXCEPT ![i].says = CreateStatus(Head(w[x].results))]
        /\ w[x].results # <<>>
    BY <1>4 DEF InsertDoes
  <2> DEFINE s == CreateStatus(Head(w[x].results))
  <2>2. s \in Statuses
    BY <2>1, HeadType, CreateStatusType
  <2> HIDE DEF s
  <2>3. last'[i].avail = last[i].avail /\ \A j \in Ids : j # i => last'[j] = last[j]
    BY <2>1, <2>2, SaysStep DEF s
  <2> QED BY <1>1, <2>3
<1>5. ASSUME NEW i \in rows, RefreshDoes(x, i) \/ WriteDoes(x, i)
      PROVE  last'[k].avail = "none"
  <2>1. \A j \in Ids : j # i => last'[j] = last[j]
    BY <1>5 DEF RefreshDoes, WriteDoes, StatusSet
  <2> QED BY <1>2, <2>1
<1>6. ASSUME NEW i \in rows, RecordDoes(x, i)
      PROVE  last'[k].avail = "none"
  <2>1. \A j \in Ids : j # i => last'[j] = last[j]
    BY <1>6 DEF RecordDoes
  <2> QED BY <1>2, <2>1
<1> QED BY <1>3, <1>4, <1>5, <1>6
      DEF StepDoes, StartPassDoes, GoesDoes, DropDoes, EntersDoes, CollectDoes,
          NextUnreadableDoes, FoundDoes, SelectOwnDoes, ReadStatusDoes, RetainsDoes, Alone

LEMMA HoldsStep ==
    ASSUME BaseType, BaseType', HoldsAll, NEW x \in Writers, StepDoes(x)
    PROVE  HoldsAll'
<1>1. HoldsOK(x) /\ FreshOK
  BY DEF HoldsAll
<1>2. HoldsOK(x)'
  BY <1>1, PlaceSelf, MissedSelf DEF PlaceOK, HoldsOK
<1>3. ASSUME NEW y \in Writers, y # x PROVE HoldsOK(y)'
  BY <1>3, StepFrame, KeptHolds, <1>1 DEF HoldsAll
<1>4. FreshOK'
  BY <1>1, FreshStep
<1> QED BY <1>2, <1>3, <1>4 DEF HoldsAll, Writers

-----------------------------------------------------------------------------
(* Reports that overlap, and the status that stands.                       *)

\* x ends up with no device, or takes one up that is in the table.
Lets(x) == Alone(x) /\ w'[x].device = NoId

Takes(x, i) ==
    /\ UNCHANGED <<rows, dev, last>>
    /\ Took(x, i) /\ w[x].pc \notin Reporting
    /\ ~ w'[x].stale => \/ w'[x].seen = dev[i].status
                        \/ /\ Holds(x, i) /\ ~ w[x].shared /\ ~ w[x].stale
                           /\ w'[x].seen = w[x].seen

LEMMA LetsStep ==
    ASSUME BaseType, NEW x \in Writers, HoldsOK(x),
           \/ StartPassDoes(x) \/ GoesDoes(x) \/ DropDoes(x) \/ EntersDoes(x)
           \/ \E i \in rows : NextUnreadableDoes(x, i)
    PROVE  Lets(x)
<1>1. w[x] \in Writer /\ HoldsRows(x)
  BY DEF BaseType, HoldsOK
<1>2. w[x].pc \notin Reporting \cup {"touched", "result"} => w[x].device = NoId
  BY <1>1 DEF HoldsRows
<1>3. CASE StartPassDoes(x)
  <2>1. w'[x].device = w[x].device \/ w'[x].device = NoId
    BY <1>1, <1>3 DEF StartPassDoes, Writer, Failed, Left
  <2> QED BY <1>2, <1>3, <2>1 DEF StartPassDoes, Lets, Reporting
<1>4. CASE GoesDoes(x)
  <2>1. PICK p, results : Moves(x, p, results)
    BY <1>4 DEF GoesDoes
  <2>2. w'[x].device = w[x].device
    BY <2>1, MovesFields
  <2>3. w[x].pc \in {"next", "idle", "create"}
    BY <1>4 DEF GoesDoes
  <2> QED BY <1>2, <1>4, <2>2, <2>3 DEF GoesDoes, Lets, Reporting
<1>5. CASE DropDoes(x)
  BY <1>5 DEF DropDoes, Lets, Left, Failed, GaveUpDoes
<1>6. ASSUME NEW i \in rows, NextUnreadableDoes(x, i) PROVE Lets(x)
  BY <1>2, <1>6 DEF NextUnreadableDoes, Lets, Reporting
<1>7. CASE EntersDoes(x)
  BY <1>7 DEF EntersDoes, Lets, Left
<1> QED BY <1>3, <1>4, <1>5, <1>6, <1>7

LEMMA StepKinds ==
    ASSUME BaseType, NEW x \in Writers, HoldsOK(x), StepDoes(x)
    PROVE  \/ Lets(x)
           \/ \E i \in rows : Takes(x, i)
           \/ \E i \in Ids : InsertDoes(x, i)
           \/ \E i \in rows : RefreshDoes(x, i) \/ RecordDoes(x, i) \/ WriteDoes(x, i)
           \/ ReadStatusDoes(x) \/ RetainsDoes(x)
<1>1. w[x].pc \in {"next", "idle", "result", "create"} => w[x].pc \notin Reporting
  BY DEF Reporting
<1>2. ASSUME NEW i \in rows, NEW up \in BOOLEAN, CollectDoes(x, i, up) PROVE Takes(x, i)
  BY <1>1, <1>2 DEF CollectDoes, Takes
<1>3. ASSUME NEW i \in rows, FoundDoes(x, i) PROVE Takes(x, i)
  <2>1. /\ w'[x].seen = Loaded(x, i) /\ w'[x].stale = Outdated(x, i)
        /\ w[x].pc = "result"
    BY <1>3 DEF FoundDoes, OnResult
  <2>2. ~ w'[x].stale => \/ w'[x].seen = dev[i].status
                         \/ /\ Holds(x, i) /\ ~ w[x].shared /\ ~ w[x].stale
                            /\ w'[x].seen = w[x].seen
    BY <2>1 DEF Loaded, Outdated
  <2> QED BY <1>1, <1>3, <2>1, <2>2 DEF FoundDoes, Takes
<1>4. ASSUME NEW i \in rows, SelectOwnDoes(x, i) PROVE Takes(x, i)
  BY <1>1, <1>4 DEF SelectOwnDoes, Takes
<1> QED BY <1>2, <1>3, <1>4, LetsStep DEF StepDoes

\* Whether y reports on i after the step.
Acts(y, i) == w'[y].device = i /\ w'[y].pc \in Reporting

\* What another writer's step may do to y: report on a device y does not have, or
\* mark y's report.
LEMMA SharedOther ==
    ASSUME BaseType, HoldsAll, SharedAll, NEW x \in Writers, NEW y \in Writers, y # x,
           \A z \in Writers : z # x => Kept(z),
           w[y].shared => w'[y].shared,
           w'[y].device # NoId /\ ~ w'[y].shared =>
             /\ ~ Acts(x, w'[y].device)
             /\ dev'[w'[y].device].status = dev[w'[y].device].status
    PROVE  SharedOf(y)'
<1>1. SharedOf(y) /\ Kept(y)
  BY DEF SharedAll
<1>2. /\ w'[y].device = w[y].device /\ w'[y].seen = w[y].seen /\ w'[y].stale = w[y].stale
      /\ ~ w'[y].shared => ~ w[y].shared
  BY <1>1 DEF Kept, Same
<1>3. \A z \in Writers : z # x =>
        w'[z].device = w[z].device /\ w'[z].pc = w[z].pc
  BY DEF Kept, Same
<1>4. \A z \in Writers : z # x => \A i : Acts(z, i) <=> Active(z, i)
  BY <1>3 DEF Active, Acts
<1>5. w'[y].device # NoId /\ ~ w'[y].shared
         => \A z \in Writers : z # y => ~ Acts(z, w'[y].device)
  <2> SUFFICES ASSUME w'[y].device # NoId, ~ w'[y].shared, NEW z \in Writers, z # y
               PROVE  ~ Acts(z, w'[y].device)
    OBVIOUS
  <2>1. CASE z = x
    BY <2>1
  <2>2. CASE z # x
    <3>1. ~ Active(z, w[y].device)
      BY <1>1, <1>2 DEF SharedOf
    <3> QED BY <1>2, <1>4, <2>2, <3>1
  <2> QED BY <2>1, <2>2
<1>6. /\ w'[y].device # NoId /\ ~ w'[y].shared /\ ~ w'[y].stale /\ w'[y].seen # "expired"
         => w'[y].seen = dev'[w'[y].device].status
  BY <1>1, <1>2 DEF SharedOf
<1>7. SharedOf(y)' <=>
        /\ w'[y].device # NoId /\ ~ w'[y].shared
             => \A z \in Writers : z # y => ~ Acts(z, w'[y].device)
        /\ w'[y].device # NoId /\ ~ w'[y].shared /\ ~ w'[y].stale /\ w'[y].seen # "expired"
             => w'[y].seen = dev'[w'[y].device].status
  BY DEF SharedOf, Writers, Active, Acts
<1> QED BY <1>5, <1>6, <1>7

\* Who reports on a device is marked on every other writer that has it.
LEMMA ActiveMarks ==
    ASSUME SharedAll, NEW x \in Writers, NEW y \in Writers, y # x, w[x].pc \in Reporting,
           w[y].device = w[x].device, w[y].device # NoId
    PROVE  w[y].shared
  BY DEF SharedAll, SharedOf, Active

LEMMA SharedStep ==
    ASSUME BaseType, BaseType', HoldsAll, SharedAll, NEW x \in Writers, StepDoes(x)
    PROVE  SharedAll'
<1> SUFFICES ASSUME NEW y \in Writers PROVE SharedOf(y)'
  BY DEF SharedAll, Writers
<1>1. /\ \A z \in Writers : SharedOf(z) /\ HoldsRows(z)
      /\ HoldsOK(x) /\ rows \subseteq Ids /\ NoId \notin Ids
  BY WritersAssumption DEF SharedAll, HoldsAll, HoldsOK, BaseType
<1>2. \A z \in Writers : z # x => Kept(z)
  BY StepFrame, <1>1
<1>3. \A z \in Writers : w[z].device \in rows \cup {NoId}
  BY <1>1 DEF HoldsRows
\* Of x itself.
<1>4. ASSUME w'[x].device # NoId,
             ~ w'[x].shared => \A z \in Writers : z # x => ~ Active(z, w'[x].device),
             /\ ~ w'[x].shared /\ ~ w'[x].stale /\ w'[x].seen # "expired"
                => w'[x].seen = dev'[w'[x].device].status
      PROVE  SharedOf(x)'
  <2>1. \A z \in Writers : z # x =>
          w'[z].device = w[z].device /\ w'[z].pc = w[z].pc
    BY <1>2 DEF Kept, Same
  <2>2. ~ w'[x].shared => \A z \in Writers : z # x => ~ Acts(z, w'[x].device)
    BY <1>4, <2>1 DEF Active, Acts
  <2> QED BY <1>4, <2>2 DEF SharedOf, Active, Acts, Writers
<1>5. w'[x].device = NoId => SharedOf(x)'
  BY DEF SharedOf
\* Of the others, while x stays with the device it reports on.
<1>6. ASSUME y # x, w'[y] = w[y], w[x].pc \in Reporting, w'[x].device \in {w[x].device, NoId},
             \A k \in Ids : k # w[x].device => dev'[k].status = dev[k].status
      PROVE  SharedOf(y)'
  <2>1. w'[y].device # NoId /\ ~ w'[y].shared => w'[y].device # w[x].device
    BY <1>6, ActiveMarks
  <2>2. w'[y].device # NoId /\ ~ w'[y].shared => ~ Acts(x, w'[y].device)
    BY <1>6, <2>1 DEF Acts
  <2>3. w'[y].device # NoId => w'[y].device \in Ids
    BY <1>1, <1>3, <1>6
  <2> QED BY <1>2, <1>6, <2>1, <2>2, <2>3, SharedOther
<1>7. CASE Lets(x)
  <2>1. CASE y = x
    BY <1>5, <1>7, <2>1 DEF Lets
  <2>2. CASE y # x
    <3>1. w'[y] = w[y] /\ dev' = dev /\ w'[x].device = NoId
      BY <1>7, <2>2 DEF Lets, Alone
    <3>2. w'[y].device # NoId => ~ Acts(x, w'[y].device)
      BY <3>1 DEF Acts
    <3> QED BY <1>2, <2>2, <3>1, <3>2, SharedOther
  <2> QED BY <2>1, <2>2
<1>8. ASSUME NEW i \in Ids, Took(x, i), \A k \in rows : dev'[k] = dev[k] \/ k = i,
             y # x, dev' = dev \/ i \notin rows
      PROVE  SharedOf(y)'
  <2>1. Joined(y, i) /\ w'[x].device = i
    BY <1>8 DEF Took
  <2>2. w'[y].device = w[y].device /\ (w[y].shared \/ w[y].device = i => w'[y].shared)
    BY <2>1 DEF Joined, Kept
  <2>3. w'[y].device # NoId /\ ~ w'[y].shared =>
          /\ w'[y].device # i
          /\ dev'[w'[y].device].status = dev[w'[y].device].status
    BY <1>3, <1>8, <2>2
  <2>4. w'[y].device # NoId /\ ~ w'[y].shared => ~ Acts(x, w'[y].device)
    BY <2>1, <2>3 DEF Acts
  <2> QED BY <1>2, <1>8, <2>2, <2>3, <2>4, SharedOther
<1>9. ASSUME NEW i \in rows, Takes(x, i) PROVE SharedOf(y)'
  <2>1. i \in Ids /\ i # NoId /\ Took(x, i) /\ dev' = dev /\ w'[x].device = i
    BY <1>1, <1>9 DEF Takes, Took
  <2>2. CASE y # x
    BY <1>8, <2>1, <2>2
  <2>3. CASE y = x
    <3>1. ~ w'[x].shared => \A z \in Writers : z # x => ~ Active(z, i)
      BY <2>1 DEF Took, Others
    <3>2. ~ w'[x].stale => w'[x].seen = dev[i].status
      BY <1>1, <1>9, <2>1 DEF Takes, Holds, SharedOf
    <3> QED BY <1>4, <2>1, <2>3, <3>1, <3>2
  <2> QED BY <2>2, <2>3
<1>10. ASSUME NEW i \in Ids, InsertDoes(x, i) PROVE SharedOf(y)'
  <2>1. /\ i \notin rows /\ Took(x, i) /\ w'[x].device = i /\ i # NoId
        /\ w'[x].seen = "expired" /\ \A k \in rows : dev'[k] = dev[k]
    BY <1>1, <1>10 DEF InsertDoes, Took, OnResult, BaseType
  <2>2. CASE y # x
    BY <1>8, <2>1, <2>2
  <2>3. CASE y = x
    <3>1. ~ w'[x].shared => \A z \in Writers : z # x => ~ Active(z, i)
      BY <2>1 DEF Took, Others
    <3> QED BY <1>4, <2>1, <2>3, <3>1
  <2> QED BY <2>2, <2>3
<1>11. ASSUME NEW i \in rows, RefreshDoes(x, i) \/ RecordDoes(x, i) \/ WriteDoes(x, i)
       PROVE  SharedOf(y)'
  <2>1. /\ w[x].device = i /\ w[x].pc \in Reporting
        /\ \A k \in Ids : k # i => dev'[k].status = dev[k].status
        /\ \A z \in Writers : z # x => w'[z] = w[z]
    BY <1>11 DEF RefreshDoes, RecordDoes, WriteDoes, StatusSet, Reporting
  <2>2. \/ w'[x].device = NoId
        \/ w'[x].device = i /\ w'[x].shared = w[x].shared /\ w'[x].seen = "expired"
    BY <1>11 DEF RefreshDoes, RecordDoes, WriteDoes, Left, OnResult
  <2>3. CASE y # x
    BY <1>6, <2>1, <2>2, <2>3
  <2>4. CASE y = x
    <3>1. CASE w'[x].device = NoId
      BY <1>5, <2>4, <3>1
    <3>2. CASE w'[x].device # NoId
      <4>1. ~ w'[x].shared => \A z \in Writers : z # x => ~ Active(z, w'[x].device)
        BY <1>1, <2>1, <2>2, <3>2 DEF SharedOf
      <4> QED BY <1>4, <2>2, <2>4, <3>2, <4>1
    <3> QED BY <3>1, <3>2
  <2> QED BY <2>3, <2>4
<1>12. CASE ReadStatusDoes(x)
  <2>1. /\ w'[x].device = w[x].device /\ w'[x].shared = w[x].shared
        /\ w'[x].stale = w[x].stale /\ w[x].pc \in Reporting
        /\ w'[x].seen = (IF w[x].seen = "expired" THEN dev[w[x].device].status ELSE w[x].seen)
        /\ dev' = dev /\ \A z \in Writers : z # x => w'[z] = w[z]
    BY <1>12 DEF ReadStatusDoes, Alone, Reporting
  <2>2. CASE y # x
    BY <1>6, <2>1, <2>2
  <2>3. CASE y = x
    <3>1. CASE w'[x].device # NoId
      <4>1. /\ ~ w'[x].shared => \A z \in Writers : z # x => ~ Active(z, w'[x].device)
            /\ ~ w'[x].shared /\ ~ w'[x].stale /\ w'[x].seen # "expired"
                 => w'[x].seen = dev'[w'[x].device].status
        BY <1>1, <2>1, <3>1 DEF SharedOf
      <4> QED BY <1>4, <2>3, <3>1, <4>1
    <3> QED BY <1>5, <2>3, <3>1
  <2> QED BY <2>2, <2>3
<1>13. CASE RetainsDoes(x)
  <2>1. /\ w'[x].device = w[x].device /\ w'[x].pc = "result" /\ w'[x].stale = w[x].stale
        /\ dev' = dev /\ \A z \in Writers : z # x => w'[z] = w[z]
    BY <1>13 DEF RetainsDoes, Alone
  <2>2. CASE y # x
    <3>2. w'[y] = w[y]
      BY <2>1, <2>2
    <3>3. w'[y].device # NoId /\ ~ w'[y].shared => ~ Acts(x, w'[y].device)
      BY <2>1 DEF Acts, Reporting
    <3> QED BY <1>2, <2>1, <2>2, <3>2, <3>3, SharedOther
  <2>3. CASE y = x
    <3>1. CASE w'[x].device # NoId /\ w[x].seen = "expired"
      <4>1. /\ w'[x].seen = dev[w[x].device].status
            /\ w'[x].shared = (Others(x, w[x].device) # {})
        BY <1>13, <3>1 DEF RetainsDoes
      <4>2. ~ w'[x].shared => \A z \in Writers : z # x => ~ Active(z, w'[x].device)
        BY <2>1, <4>1 DEF Others
      <4> QED BY <1>4, <2>1, <2>3, <3>1, <4>1, <4>2
    <3>2. CASE w'[x].device # NoId /\ w[x].seen # "expired"
      <4>1. w'[x].seen = w[x].seen /\ w'[x].shared = w[x].shared
        BY <1>13, <3>2 DEF RetainsDoes
      <4>2. /\ ~ w'[x].shared => \A z \in Writers : z # x => ~ Active(z, w'[x].device)
            /\ ~ w'[x].shared /\ ~ w'[x].stale /\ w'[x].seen # "expired"
                 => w'[x].seen = dev'[w'[x].device].status
        BY <1>1, <2>1, <3>2, <4>1 DEF SharedOf
      <4> QED BY <1>4, <2>3, <3>2, <4>2
    <3> QED BY <1>5, <2>3, <3>1, <3>2
  <2> QED BY <2>2, <2>3
<1> QED BY <1>1, <1>7, <1>9, <1>10, <1>11, <1>12, <1>13, StepKinds

\* A status equal to the one seen is not written, so who writes must have seen
\* the one there is.
LEMMA StandsStep ==
    ASSUME BaseType, HoldsAll, SharedAll, StandsOK, NEW x \in Writers, StepDoes(x)
    PROVE  StandsOK'
<1> SUFFICES ASSUME NEW k \in rows', ~ last'[k].shared PROVE dev'[k].status = last'[k].says
  BY DEF StandsOK
<1>1. HoldsOK(x) /\ rows \subseteq Ids /\ NoId \notin Ids /\ SharedOf(x)
  BY WritersAssumption DEF HoldsAll, BaseType, SharedAll
<1>2. CASE UNCHANGED <<rows, dev, last>>
  BY <1>1, <1>2 DEF StandsOK
<1>3. ASSUME NEW i \in Ids, InsertDoes(x, i) PROVE dev'[k].status = last'[k].says
  <2> DEFINE r == Head(w[x].results)
  <2> DEFINE s == CreateStatus(r)
  <2> DEFINE d == [ip |-> r.ip, agent |-> AgentOf[x], status |-> s, avail |-> "none",
                   dated |-> FALSE]
  <2>1. /\ dev' = [dev EXCEPT ![i] = d] /\ last' = [last EXCEPT ![i].says = s]
        /\ w[x].results # <<>> /\ i \notin rows /\ rows' = rows \cup {i}
    BY <1>3 DEF InsertDoes
  <2>2. s \in Statuses /\ d.status = s
    BY <2>1, HeadType, CreateStatusType
  <2> HIDE DEF d, s
  <2>3. last'[i].says = s /\ \A j \in Ids : j # i => last'[j] = last[j]
    BY <2>1, <2>2, SaysStep
  <2>4. dev'[i] = d /\ \A j \in Ids : j # i => dev'[j] = dev[j]
    BY <2>1 DEF BaseType
  <2> QED BY <1>1, <2>1, <2>2, <2>3, <2>4 DEF StandsOK
<1>4. ASSUME NEW i \in rows, NEW a, NEW b, StatusSet(x, i, a, b), w[x].device = i,
             w[x].seen # "expired", ~ b => ~ w[x].shared /\ ~ w[x].stale
      PROVE  dev'[k].status = last'[k].says
  <2>1. /\ \A j \in Ids : j # i => dev'[j].status = dev[j].status /\ last'[j] = last[j]
        /\ dev'[i].status = StatusWritten(dev[i].status, w[x].seen, w[x].says)
        /\ last'[i].says = w[x].says /\ last'[i].shared = b /\ rows' = rows
    BY <1>4 DEF StatusSet
  <2>2. CASE k = i
    <3>1. w[x].seen = dev[i].status
      BY <1>1, <1>4, <2>1, <2>2 DEF SharedOf
    <3> QED BY <2>1, <2>2, <3>1 DEF StatusWritten
  <2>3. CASE k # i
    BY <1>1, <2>1, <2>3 DEF StandsOK
  <2> QED BY <2>2, <2>3
<1>5. ASSUME NEW i \in rows, RefreshDoes(x, i) PROVE dev'[k].status = last'[k].says
  <2> DEFINE a == "none"
  <2> DEFINE b == w[x].shared
  <2>1. StatusSet(x, i, a, b) /\ w[x].device = i /\ w[x].pc = "refresh"
    BY <1>5 DEF RefreshDoes
  <2>2. w[x].seen # "expired" /\ (~ b => ~ w[x].shared /\ ~ w[x].stale)
    BY <1>1, <2>1 DEF HoldsOK, ReportOK
  <2> HIDE DEF a, b
  <2> QED BY <1>4, <2>1, <2>2
<1>6. ASSUME NEW i \in rows, WriteDoes(x, i) PROVE dev'[k].status = last'[k].says
  <2> DEFINE a == w[x].avail
  <2> DEFINE b == w[x].shared \/ w[x].stale
  <2>1. StatusSet(x, i, a, b) /\ w[x].device = i /\ w[x].pc = "write"
    BY <1>6 DEF WriteDoes
  <2>2. w[x].seen # "expired" /\ (~ b => ~ w[x].shared /\ ~ w[x].stale)
    BY <1>1, <2>1 DEF HoldsOK, ReportOK
  <2> HIDE DEF a, b
  <2> QED BY <1>4, <2>1, <2>2
<1>7. ASSUME NEW i \in rows, RecordDoes(x, i) PROVE dev'[k].status = last'[k].says
  <2>1. /\ \A j \in Ids : dev'[j].status = dev[j].status
        /\ \A j \in Ids : j # i => last'[j] = last[j]
        /\ last'[i].says = last[i].says /\ last'[i].shared = last[i].shared /\ rows' = rows
    BY <1>7 DEF RecordDoes
  <2>2. k \in Ids /\ last'[k].says = last[k].says /\ last'[k].shared = last[k].shared
    BY <1>1, <2>1
  <2> QED BY <2>1, <2>2 DEF StandsOK
<1> QED BY <1>1, <1>2, <1>3, <1>5, <1>6, <1>7, StepKinds
      DEF Lets, Alone, Takes, ReadStatusDoes, RetainsDoes

LEMMA DiscoverShared ==
    ASSUME BaseType, BaseType', HoldsAll, SharedAll, StandsOK, NEW ip \in Ips, NEW i \in Ids,
           DiscoverDoes(ip, i)
    PROVE  HoldsAll' /\ SharedAll' /\ StandsOK'
<1> DEFINE s == "online"
<1> DEFINE d == [ip |-> ip, agent |-> NoAgent, status |-> s, avail |-> "none",
                 dated |-> FALSE]
<1>1. /\ i \notin rows /\ rows' = rows \cup {i} /\ dev' = [dev EXCEPT ![i] = d]
      /\ last' = [last EXCEPT ![i].says = s] /\ UNCHANGED <<w, faults, crossed>>
      /\ \A x \in Writers : w[x].pc = "idle"
  BY DEF DiscoverDoes
<1>2. s \in Statuses /\ d.status = s
  BY DEF Statuses
<1> HIDE DEF d, s
<1>3. /\ last'[i].says = s /\ last'[i].avail = last[i].avail
      /\ \A j \in Ids : j # i => last'[j] = last[j]
  BY <1>1, <1>2, SaysStep
<1>4. dev'[i] = d /\ \A j \in Ids : j # i => dev'[j] = dev[j]
  BY <1>1 DEF BaseType
<1>5. StandsOK'
  BY <1>1, <1>2, <1>3, <1>4 DEF StandsOK, BaseType
<1>6. \A x \in Writers : w[x].device = NoId
  BY <1>1 DEF HoldsAll, HoldsOK, HoldsRows, Reporting
<1>7. SharedAll'
  BY <1>1, <1>6 DEF SharedAll, SharedOf, Writers
<1>8. FreshOK'
  BY <1>1, <1>3 DEF HoldsAll, FreshOK
<1>9. ASSUME NEW x \in Writers PROVE HoldsOK(x)'
  BY <1>1, KeptHolds DEF HoldsAll, Kept, Same
<1>10. Writers' = Writers
  BY DEF Writers
<1> QED BY <1>5, <1>7, <1>8, <1>9, <1>10 DEF HoldsAll

-----------------------------------------------------------------------------
(* One device for an address, unless two requests crossed.                 *)

\* The step adds no device and no rival.
Steady(x) ==
    /\ rows' = rows /\ crossed \subseteq crossed'
    /\ \A k \in Ids : dev'[k].ip = dev[k].ip /\ dev'[k].agent = dev[k].agent
    /\ w'[x].pc \in Creating => w[x].pc \in Creating /\ w'[x].results = w[x].results

LEMMA SteadyKinds ==
    ASSUME BaseType, NEW x \in Writers, HoldsOK(x), StepDoes(x)
    PROVE  Steady(x) \/ EntersDoes(x) \/ \E i \in Ids : InsertDoes(x, i)
<1> USE DEF Creating
<1>1. w[x] \in Writer
  BY DEF BaseType
<1>2. CASE StartPassDoes(x)
  <2>1. w'[x].pc \notin Creating
    BY <1>1, <1>2 DEF StartPassDoes, Writer, Failed, Left
  <2> QED BY <1>2, <2>1 DEF StartPassDoes, Alone, Steady
<1>3. CASE GoesDoes(x)
  <2>1. \A p, results : Moves(x, p, results) => w'[x].pc = p /\ w'[x].results = results
    BY MovesFields
  <2>2. UNCHANGED <<rows, dev>> /\ crossed \subseteq crossed'
    BY <1>3 DEF GoesDoes, Alone
  <2>3. CASE w'[x].pc \notin Creating
    BY <2>2, <2>3 DEF Steady
  <2>4. CASE w[x].pc = "create" /\ w'[x].results = w[x].results
    BY <2>2, <2>4 DEF Steady
  <2> QED BY <1>3, <2>1, <2>3, <2>4 DEF GoesDoes
<1>4. CASE DropDoes(x)
  <2>1. w'[x].pc \notin Creating
    BY <1>4 DEF DropDoes, Left, Failed, GaveUpDoes
  <2> QED BY <1>4, <2>1 DEF DropDoes, Alone, Steady
<1>5. ASSUME NEW i \in rows, NEW up \in BOOLEAN, CollectDoes(x, i, up) PROVE Steady(x)
  BY <1>5 DEF CollectDoes, Steady
<1>6. ASSUME NEW i \in rows, NextUnreadableDoes(x, i) PROVE Steady(x)
  BY <1>6 DEF NextUnreadableDoes, Alone, Steady
<1>7. \A queue, says : After(queue, says) \notin Creating
  BY AfterPlace
<1>8. ASSUME NEW i \in rows, FoundDoes(x, i) \/ RefreshDoes(x, i) PROVE Steady(x)
  BY <1>7, <1>8 DEF FoundDoes, RefreshDoes, OnResult, StatusSet, Steady
<1>9. ASSUME NEW i \in rows, SelectOwnDoes(x, i) PROVE Steady(x)
  BY <1>9 DEF SelectOwnDoes, Steady
<1>10. ASSUME NEW i \in rows, RecordDoes(x, i) PROVE Steady(x)
  BY <1>7, <1>10 DEF RecordDoes, Steady
<1>11. ASSUME NEW i \in rows, WriteDoes(x, i) PROVE Steady(x)
  BY <1>11 DEF WriteDoes, Left, StatusSet, Steady
<1>12. CASE ReadStatusDoes(x) \/ RetainsDoes(x)
  BY <1>12 DEF ReadStatusDoes, RetainsDoes, Alone, Steady
<1> QED BY <1>2, <1>3, <1>4, <1>5, <1>6, <1>8, <1>9, <1>10, <1>11, <1>12 DEF StepDoes

LEMMA CrossedStep ==
    ASSUME BaseType, HoldsAll, CrossedOK, NEW x \in Writers, StepDoes(x)
    PROVE  CrossedOK'
<1>1. /\ Writers' = Writers /\ HoldsOK(x) /\ rows \subseteq Ids
      /\ \A y \in Writers : y # x => Kept(y)
  BY StepFrame DEF Writers, HoldsAll, BaseType
<1>2. \A y \in Writers : w[y].pc \in Creating => y \in Reports
  BY DEF HoldsAll, HoldsOK, KindOK
<1>3. \A y \in Writers : y # x =>
        w'[y].pc = w[y].pc /\ w'[y].results = w[y].results /\ Wanted(y)' = Wanted(y)
  BY <1>1 DEF Kept, Same, Wanted
<1>4. CASE Steady(x)
  <2>1. OneDeviceUnlessCrossed'
    BY <1>1, <1>4 DEF CrossedOK, OneDeviceUnlessCrossed, Steady
  <2>2. ASSUME NEW y \in Writers, w'[y].pc \in Creating
        PROVE  w[y].pc \in Creating /\ Wanted(y)' = Wanted(y)
    BY <1>3, <1>4, <2>2 DEF Steady, Wanted
  <2>3. ASSUME NEW y \in Writers PROVE RivalsOK(y)'
    BY <1>1, <1>4, <2>2, <2>3 DEF CrossedOK, RivalsOK, Steady
  <2> QED BY <1>1, <2>1, <2>3 DEF CrossedOK
<1>5. CASE EntersDoes(x)
  <2>0. /\ UNCHANGED <<rows, dev>> /\ crossed \subseteq crossed'
        /\ FoundAt(x, Wanted(x)) = {}
        /\ w'[x].pc = "create" /\ w'[x].results = w[x].results /\ w[x].pc = "result"
        /\ \A y \in Reports :
             w[y].pc \in Creating /\ Wanted(y) = Wanted(x) => Wanted(x) \in crossed'
    BY <1>5 DEF EntersDoes, Alone, Left, Keeps
  <2>1. OneDeviceUnlessCrossed'
    BY <2>0 DEF CrossedOK, OneDeviceUnlessCrossed
  <2>2. Wanted(x)' = Wanted(x) /\ w[x].pc \notin Creating
    BY <2>0 DEF Wanted, Creating
  <2>3. \A k \in rows : dev[k].ip # Wanted(x)
    BY <2>0 DEF FoundAt
  <2>4. ASSUME NEW y \in Writers PROVE RivalsOK(y)'
    <3>1. CASE y = x
      BY <1>1, <1>2, <1>3, <2>0, <2>2, <2>3, <3>1 DEF RivalsOK
    <3>2. CASE y # x
      BY <1>1, <1>2, <1>3, <2>0, <2>2, <3>2 DEF RivalsOK, CrossedOK
    <3> QED BY <3>1, <3>2
  <2> QED BY <1>1, <2>1, <2>4 DEF CrossedOK
<1>6. ASSUME NEW i \in Ids, InsertDoes(x, i) PROVE CrossedOK'
  <2> DEFINE r == Head(w[x].results)
  <2> DEFINE d == [ip |-> r.ip, agent |-> AgentOf[x], status |-> CreateStatus(r),
                   avail |-> "none", dated |-> FALSE]
  <2>1. /\ i \notin rows /\ rows' = rows \cup {i} /\ dev' = [dev EXCEPT ![i] = d]
        /\ crossed' = crossed /\ Key(x) = {} /\ w[x].pc = "insert"
        /\ w'[x].results = w[x].results
    BY <1>6 DEF InsertDoes, OnResult, Carried
  <2>2. d.ip = Wanted(x) /\ d.agent = AgentOf[x]
    BY DEF Wanted
  <2> HIDE DEF d
  <2>3. dev'[i] = d /\ \A k \in rows : dev'[k] = dev[k]
    BY <1>1, <2>1 DEF BaseType
  <2>4. w'[x].pc \notin Creating
    BY <1>6, AfterPlace DEF InsertDoes, OnResult, Creating
  <2>5. RivalsOK(x) /\ w[x].pc \in Creating
    BY <2>1 DEF CrossedOK, Creating
  <2>6. ASSUME NEW k \in rows, dev[k].ip = d.ip
        PROVE  d.ip \in crossed /\ dev[k].agent # d.agent
    BY <2>1, <2>2, <2>5, <2>6 DEF RivalsOK, Key, Wanted
  <2>7. OneDeviceUnlessCrossed'
    BY <2>1, <2>3, <2>6 DEF CrossedOK, OneDeviceUnlessCrossed
  <2>8. ASSUME NEW y \in Writers PROVE RivalsOK(y)'
    <3>1. CASE y = x
      BY <2>4, <3>1 DEF RivalsOK
    <3>2. CASE y # x
      <4> SUFFICES ASSUME w[y].pc \in Creating PROVE RivalsOK(y)'
        BY <1>3, <3>2 DEF RivalsOK
      <4>1. Wanted(y) = d.ip => Wanted(y) \in crossed
        BY <2>2, <2>5, <3>2 DEF CrossedOK, RivalsOK
      <4>2. \A k \in rows' : dev'[k].ip = Wanted(y) => Wanted(y) \in crossed
        BY <2>1, <2>3, <4>1 DEF CrossedOK, RivalsOK
      <4>3. ASSUME NEW z \in Writers, z # y, w'[z].pc \in Creating, Wanted(z)' = Wanted(y)
            PROVE  Wanted(y) \in crossed
        BY <1>3, <2>4, <4>3 DEF CrossedOK, RivalsOK
      <4> QED BY <1>1, <1>3, <2>1, <3>2, <4>2, <4>3 DEF RivalsOK
    <3> QED BY <3>1, <3>2
  <2> QED BY <1>1, <2>7, <2>8 DEF CrossedOK
<1> QED BY <1>1, <1>4, <1>5, <1>6, SteadyKinds

LEMMA DiscoverCrossed ==
    ASSUME BaseType, CrossedOK, NEW ip \in Ips, NEW i \in Ids, DiscoverDoes(ip, i)
    PROVE  CrossedOK'
<1> DEFINE d == [ip |-> ip, agent |-> NoAgent, status |-> "online", avail |-> "none", dated |-> FALSE]
<1>1. /\ i \notin rows /\ rows' = rows \cup {i} /\ dev' = [dev EXCEPT ![i] = d]
      /\ w' = w /\ crossed' = crossed /\ \A x \in Writers : w[x].pc = "idle"
      /\ \A k \in rows : dev[k].ip # ip
  BY DEF DiscoverDoes
<1>2. d.ip = ip
  OBVIOUS
<1> HIDE DEF d
<1>3. dev'[i] = d /\ \A k \in rows : dev'[k] = dev[k]
  BY <1>1 DEF BaseType
<1>4. OneDeviceUnlessCrossed'
  BY <1>1, <1>2, <1>3 DEF CrossedOK, OneDeviceUnlessCrossed
<1>5. \A x \in Writers : RivalsOK(x)'
  BY <1>1 DEF RivalsOK, Creating
<1> QED BY <1>4, <1>5 DEF CrossedOK, Writers


-----------------------------------------------------------------------------
(* The availability that comes with a status.                              *)

\* What a writer has to tell depends on its own fields and its device alone.
LEMMA AvailOther ==
    ASSUME NEW y \in Writers, AvailOf(y), Kept(y), w[y].shared => w'[y].shared,
           Telling(y) => /\ dev'[w[y].device].avail = dev[w[y].device].avail
                         /\ dev'[w[y].device].dated = dev[w[y].device].dated
    PROVE  AvailOf(y)'
<1> DEFINE q == NewestAvail(w[y].queue)
<1>1. NewestAvail(w[y].queue)' = q
  BY DEF Kept, Same, NewestAvail, UndatedAt, AvailAt, Newest
<1>2. Telling(y)' => Telling(y)
  BY DEF Telling, Kept, Same
<1>3. Telling(y) => Told(w[y].device, w[y].avail)' = Told(w[y].device, w[y].avail)
  BY DEF Told, Kept, Same
<1>4. /\ AvailOf(y)' <=> (Telling(y)' => IF q = "none" THEN Told(w[y].device, w[y].avail)'
                                         ELSE q = w'[y].avail)
      /\ AvailOf(y) <=> (Telling(y) => IF q = "none" THEN Told(w[y].device, w[y].avail)
                                       ELSE q = w[y].avail)
      /\ w'[y].avail = w[y].avail
  BY <1>1 DEF AvailOf, Kept, Same
<1> HIDE DEF q
<1> QED BY <1>2, <1>3, <1>4

LEMMA AvailOnResult ==
    ASSUME BaseType, NEW x \in Writers, w[x].results # <<>>, NEW seen, NEW stale,
           OnResult(x, seen, stale)
    PROVE  AvailOf(x)'
<1> DEFINE q == NewestAvail(Head(w[x].results).metrics)
<1>1. w'[x].queue = Head(w[x].results).metrics /\ w'[x].avail = q
  BY DEF OnResult
<1>2. NewestAvail(w[x].queue)' = q
  BY <1>1 DEF NewestAvail, UndatedAt, AvailAt, Newest
<1> HIDE DEF q
<1> QED BY <1>1, <1>2 DEF AvailOf, Told

\* Recording the head of the queue keeps what the writer is going to tell.
LEMMA AvailRecord ==
    ASSUME BaseType, NEW x \in Writers, AvailOf(x), NEW i \in rows, RecordDoes(x, i)
    PROVE  AvailOf(x)'
<1> DEFINE q == w[x].queue
<1> DEFINE n == NewestAvail(q)
<1> DEFINE t == NewestAvail(Tail(q))
<1> DEFINE m == Head(q)
<1>1. q \in Seq(Metric) /\ q # <<>> /\ i \in Ids /\ dev[i] \in Device /\ w[x].avail \in Values
  BY RowIsId DEF BaseType, Writer, RecordDoes
<1>2. n = IF t # "none" THEN t ELSE IF Counts(m) THEN m.says ELSE "none"
  BY <1>1, NewestOfTail
<1>3. /\ w[x].device = i /\ w[x].pc = "record" /\ w'[x].queue = Tail(q)
      /\ w'[x].device = i /\ w'[x].shared = w[x].shared /\ w'[x].avail = w[x].avail
      /\ \/ /\ StaysNewest(x, m) /\ dev'[i].avail = dev[i].avail
            /\ dev'[i].dated = dev[i].dated
         \/ m.says # "other" /\ dev'[i].avail = m.says /\ dev'[i].dated = m.dated
  BY DEF RecordDoes
<1>4. NewestAvail(w[x].queue)' = t
  BY <1>3 DEF NewestAvail, UndatedAt, AvailAt, Newest
<1>5. m \in Metric /\ m.says \in {"up", "down", "other"} /\ m.dated \in BOOLEAN
  <2>1. m \in Metric
    BY <1>1, HeadTailProperties
  <2> QED BY <2>1 DEF Metric
<1>6. dev[i].dated \in BOOLEAN
  BY <1>1 DEF Device
<1>7. ~ w[x].shared => IF n = "none" THEN Told(i, w[x].avail) ELSE n = w[x].avail
  BY <1>3 DEF AvailOf, Telling
<1>8. AvailOf(x)' <=> (Telling(x)' => IF t = "none" THEN Told(i, w[x].avail)'
                                      ELSE t = w'[x].avail)
  BY <1>3, <1>4 DEF AvailOf, Told
<1>9. Telling(x)' => ~ w[x].shared
  BY <1>3 DEF Telling
<1>10. StaysNewest(x, m) <=>
         m.says = "other" \/ (dev[i].avail # "none" /\ (m.dated \/ dev[i].dated \/ w[x].shared))
  BY <1>3 DEF StaysNewest
<1> HIDE DEF n, t, m, q
<1>11. CASE t # "none"
  BY <1>2, <1>3, <1>7, <1>8, <1>9, <1>11
<1>12. CASE t = "none" /\ Counts(m)
  <2>1. n = m.says /\ m.says # "none" /\ m.says # "other" /\ ~ m.dated
    BY <1>2, <1>5, <1>12 DEF Counts
  <2>2. ~ w[x].shared => m.says = w[x].avail /\ (dev'[i].dated \/ dev'[i].avail = m.says)
    BY <1>3, <1>6, <1>7, <1>10, <2>1
  <2>3. ~ w[x].shared => Told(i, w[x].avail)'
    BY <1>3, <2>2 DEF Told
  <2> QED BY <1>8, <1>9, <1>12, <2>3
<1>13. CASE t = "none" /\ ~ Counts(m)
  <2>1. n = "none" /\ (m.says = "other" \/ m.dated)
    BY <1>2, <1>13 DEF Counts
  <2>2. \/ dev'[i].avail = dev[i].avail /\ dev'[i].dated = dev[i].dated
        \/ dev'[i].dated
    BY <1>3, <2>1
  <2>3. ~ w[x].shared => Told(i, w[x].avail)'
    BY <1>3, <1>7, <2>1, <2>2 DEF Told
  <2> QED BY <1>8, <1>9, <1>13, <2>3
<1> QED BY <1>11, <1>12, <1>13

LEMMA AvailWriters ==
    ASSUME BaseType, BaseType', HoldsAll, SharedAll, NEW x \in Writers, StepDoes(x),
           \A y \in Writers : AvailOf(y)
    PROVE  \A y \in Writers : AvailOf(y)'
<1>1. /\ HoldsOK(x) /\ rows \subseteq Ids /\ NoId \notin Ids
      /\ \A y \in Writers : y # x => Kept(y)
      /\ \A y \in Writers : w[y].device \in rows \cup {NoId}
      /\ \A y \in Writers : Telling(y) => w[y].device # NoId
  BY StepFrame, WritersAssumption DEF HoldsAll, HoldsOK, HoldsRows, BaseType, Telling, Reporting
<1>2. ASSUME NEW y \in Writers, y # x PROVE AvailOf(y)'
  <2> SUFFICES ASSUME TRUE
               PROVE  /\ w[y].shared => w'[y].shared
                      /\ Telling(y) => /\ dev'[w[y].device].avail = dev[w[y].device].avail
                                       /\ dev'[w[y].device].dated = dev[w[y].device].dated
    BY <1>1, <1>2, AvailOther
  <2>1. CASE Lets(x) \/ ReadStatusDoes(x) \/ RetainsDoes(x)
    BY <1>2, <2>1 DEF Lets, ReadStatusDoes, RetainsDoes, Alone
  <2>2. ASSUME NEW i \in rows, Takes(x, i)
        PROVE  (w[y].shared => w'[y].shared) /\ dev' = dev
    BY <1>2, <2>2 DEF Takes, Took, Joined
  <2>3. ASSUME NEW i \in Ids, InsertDoes(x, i)
        PROVE  (w[y].shared => w'[y].shared) /\ \A k \in rows : dev'[k] = dev[k]
    BY <1>1, <1>2, <2>3 DEF InsertDoes, Took, Joined, BaseType
  <2>4. ASSUME NEW i \in rows, RefreshDoes(x, i) \/ WriteDoes(x, i)
        PROVE  /\ w'[y] = w[y]
               /\ \A k \in rows : dev'[k].avail = dev[k].avail /\ dev'[k].dated = dev[k].dated
    BY <1>1, <1>2, <2>4 DEF RefreshDoes, WriteDoes, StatusSet
  <2>5. ASSUME NEW i \in rows, RecordDoes(x, i)
        PROVE  /\ w'[y] = w[y]
               /\ \A k \in rows :
                    k # i => dev'[k].avail = dev[k].avail /\ dev'[k].dated = dev[k].dated
               /\ w[y].device = i => w[y].shared
    <3>1. w[x].device = i /\ w[x].pc \in Reporting /\ i # NoId
      BY <1>1, <2>5 DEF RecordDoes, Reporting
    <3> QED BY <1>1, <1>2, <2>5, <3>1, ActiveMarks DEF RecordDoes
  <2>6. Telling(y) => ~ w[y].shared
    BY DEF Telling
  <2> QED BY <1>1, <2>1, <2>2, <2>3, <2>4, <2>5, <2>6, StepKinds
<1>3. AvailOf(x)'
  <2>1. CASE w'[x].pc \notin {"record", "status", "write"}
    BY <2>1 DEF AvailOf, Telling
  <2>2. ASSUME NEW i \in rows, NEW up \in BOOLEAN, CollectDoes(x, i, up)
        PROVE  AvailOf(x)'
    <3> DEFINE q == Pinged(up).queue
    <3> DEFINE a == Pinged(up).avail
    <3>1. w'[x].queue = q /\ w'[x].avail = a
      BY <2>2 DEF CollectDoes
    <3>2. NewestAvail(q) = a /\ a # "none"
      BY PingedType
    <3> HIDE DEF q, a
    <3>3. NewestAvail(w[x].queue)' = a
      BY <3>1, <3>2 DEF NewestAvail, UndatedAt, AvailAt, Newest
    <3> QED BY <3>1, <3>2, <3>3 DEF AvailOf
  <2>3. ASSUME NEW i \in rows, FoundDoes(x, i) \/ RefreshDoes(x, i)
        PROVE  AvailOf(x)'
    BY <2>3, AvailOnResult DEF FoundDoes, RefreshDoes
  <2>4. ASSUME NEW i \in Ids, InsertDoes(x, i)
        PROVE  AvailOf(x)'
    BY <2>4, AvailOnResult DEF InsertDoes
  <2>5. ASSUME NEW i \in rows, RecordDoes(x, i)
        PROVE  AvailOf(x)'
    BY <1>1, <2>5, AvailRecord
  <2>6. CASE ReadStatusDoes(x)
    <3> DEFINE q == NewestAvail(w[x].queue)
    <3>1. /\ w'[x].device = w[x].device /\ w'[x].shared = w[x].shared
          /\ w'[x].queue = w[x].queue /\ w'[x].avail = w[x].avail
          /\ dev' = dev /\ w[x].pc = "status"
      BY <2>6 DEF ReadStatusDoes, Alone
    <3>2. NewestAvail(w[x].queue)' = q
      BY <3>1 DEF NewestAvail, UndatedAt, AvailAt, Newest
    <3>3. Telling(x)' => Telling(x)
      BY <3>1 DEF Telling
    <3>4. AvailOf(x)
      OBVIOUS
    <3>5. Told(w[x].device, w[x].avail)' <=> Told(w[x].device, w[x].avail)
      BY <3>1 DEF Told
    <3>6. /\ AvailOf(x) <=> (Telling(x) => IF q = "none" THEN Told(w[x].device, w[x].avail)
                                           ELSE q = w[x].avail)
          /\ AvailOf(x)' <=> (Telling(x)' => IF q = "none" THEN Told(w[x].device, w[x].avail)'
                                             ELSE q = w'[x].avail)
      BY <3>2 DEF AvailOf
    <3> HIDE DEF q
    <3> QED BY <3>1, <3>3, <3>4, <3>5, <3>6
  <2>7. ASSUME NEW i \in rows, SelectOwnDoes(x, i) \/ WriteDoes(x, i) \/ NextUnreadableDoes(x, i)
        PROVE  w'[x].pc \notin {"record", "status", "write"}
    BY <2>7 DEF SelectOwnDoes, WriteDoes, NextUnreadableDoes, Left
  <2>8. CASE \/ StartPassDoes(x) \/ GoesDoes(x) \/ DropDoes(x) \/ EntersDoes(x)
             \/ RetainsDoes(x)
    <3>1. \A p, results : Moves(x, p, results) => w'[x].pc = p
      BY MovesFields
    <3>2. w[x] \in Writer
      BY DEF BaseType
    <3>3. w'[x].pc \notin {"record", "status", "write"}
      BY <2>8, <3>1, <3>2 DEF StartPassDoes, GoesDoes, DropDoes, EntersDoes, RetainsDoes,
                              Failed, Left, GaveUpDoes, Writer
    <3> QED BY <2>1, <3>3
  <2> QED BY <2>1, <2>2, <2>3, <2>4, <2>5, <2>6, <2>7, <2>8 DEF StepDoes
<1> QED BY <1>2, <1>3

LEMMA AvailRows ==
    ASSUME BaseType, BaseType', HoldsAll, NEW x \in Writers, StepDoes(x),
           AvailOf(x), \A i \in rows : AvailRow(i), NEW k \in rows'
    PROVE  AvailRow(k)'
<1>1. HoldsOK(x) /\ rows \subseteq Ids /\ NoId \notin Ids
  BY WritersAssumption DEF HoldsAll, BaseType
\* A device that the step does not touch.
<1>2. ASSUME k \in rows, last'[k] = last[k],
             dev'[k].avail = dev[k].avail /\ dev'[k].dated = dev[k].dated
      PROVE  AvailRow(k)'
  BY <1>2 DEF AvailRow, Told
<1>3. ASSUME last'[k].avail = "none" PROVE AvailRow(k)'
  BY <1>3 DEF AvailRow, Told
<1>4. CASE UNCHANGED <<rows, dev, last>>
  BY <1>2, <1>4
<1>5. ASSUME NEW i \in Ids, InsertDoes(x, i) PROVE AvailRow(k)'
  <2> DEFINE s == CreateStatus(Head(w[x].results))
  <2>1. /\ i \notin rows /\ rows' = rows \cup {i} /\ last' = [last EXCEPT ![i].says = s]
        /\ w[x].results # <<>> /\ \A j \in Ids : j # i => dev'[j] = dev[j]
    BY <1>5 DEF InsertDoes, BaseType
  <2>2. s \in Statuses
    BY <2>1, HeadType, CreateStatusType
  <2> HIDE DEF s
  <2>3. last'[i].avail = last[i].avail /\ \A j \in Ids : j # i => last'[j] = last[j]
    BY <2>1, <2>2, SaysStep
  <2>4. last[i].avail = "none"
    BY <2>1 DEF HoldsAll, FreshOK
  <2> QED BY <1>1, <1>2, <1>3, <2>1, <2>3, <2>4
<1>6. ASSUME NEW i \in rows, RecordDoes(x, i) PROVE AvailRow(k)'
  <2> DEFINE m == Head(w[x].queue)
  <2>1. /\ k \in rows /\ w[x].queue # <<>>
        /\ k # i => /\ last'[k] = last[k] /\ dev'[k].avail = dev[k].avail
                    /\ dev'[k].dated = dev[k].dated
        /\ last'[i].avail = IF Counts(m) THEN "none" ELSE last[i].avail
        /\ last'[i].shared = last[i].shared
        /\ \/ dev'[i].avail = dev[i].avail /\ dev'[i].dated = dev[i].dated
           \/ m.says # "other" /\ dev'[i].avail = m.says /\ dev'[i].dated = m.dated
    BY <1>1, <1>6 DEF RecordDoes
  <2>2. CASE k # i
    BY <1>2, <2>1, <2>2
  <2>3. CASE k = i /\ Counts(m)
    BY <1>3, <2>1, <2>3
  <2>4. CASE k = i /\ ~ Counts(m)
    <3>1. m.says = "other" \/ m.dated
      BY <2>4 DEF Counts
    <3> HIDE DEF m
    <3>2. AvailRow(i)
      OBVIOUS
    <3>3. \/ dev'[i].avail = dev[i].avail /\ dev'[i].dated = dev[i].dated
          \/ dev'[i].dated
      BY <2>1, <3>1
    <3> QED BY <2>1, <2>4, <3>2, <3>3 DEF AvailRow, Told
  <2> QED BY <2>2, <2>3, <2>4
<1>7. ASSUME NEW i \in rows, NEW a, NEW b, StatusSet(x, i, a, b),
             ~ b => Told(i, a)
      PROVE  AvailRow(k)'
  <2>1. /\ k \in rows /\ dev'[k].avail = dev[k].avail /\ dev'[k].dated = dev[k].dated
        /\ k # i => last'[k] = last[k]
        /\ last'[i].avail = a /\ last'[i].shared = b
    BY <1>1, <1>7 DEF StatusSet
  <2>2. CASE k # i
    BY <1>2, <2>1, <2>2
  <2>3. CASE k = i
    BY <1>7, <2>1, <2>3 DEF AvailRow, Told
  <2> QED BY <2>2, <2>3
<1>8. ASSUME NEW i \in rows, RefreshDoes(x, i) PROVE AvailRow(k)'
  <2> DEFINE a == "none"
  <2> DEFINE b == w[x].shared
  <2>1. StatusSet(x, i, a, b) /\ Told(i, a)
    BY <1>8 DEF RefreshDoes, Told
  <2> HIDE DEF a, b
  <2> QED BY <1>7, <2>1
<1>9. ASSUME NEW i \in rows, WriteDoes(x, i) PROVE AvailRow(k)'
  <2> DEFINE a == w[x].avail
  <2> DEFINE b == w[x].shared \/ w[x].stale
  <2>1. StatusSet(x, i, a, b) /\ w[x].device = i /\ w[x].pc = "write"
    BY <1>9 DEF WriteDoes
  <2>2. NewestAvail(w[x].queue) = "none"
    BY <1>1, <2>1, NoneLeft DEF HoldsOK, ReportOK
  <2>3. ~ b => Told(i, a)
    BY <2>1, <2>2 DEF AvailOf, Telling
  <2> HIDE DEF a, b
  <2> QED BY <1>7, <2>1, <2>3
<1> QED BY <1>1, <1>4, <1>5, <1>6, <1>8, <1>9, StepKinds
      DEF Lets, Alone, Takes, ReadStatusDoes, RetainsDoes

LEMMA AvailStep ==
    ASSUME BaseType, BaseType', HoldsAll, SharedAll, AvailOK, NEW x \in Writers, StepDoes(x)
    PROVE  AvailOK'
<1>1. \A y \in Writers : AvailOf(y)'
  BY AvailWriters DEF AvailOK
<1>2. \A k \in rows' : AvailRow(k)'
  BY AvailRows DEF AvailOK
<1> QED BY <1>1, <1>2 DEF AvailOK, Writers

LEMMA DiscoverAvail ==
    ASSUME BaseType, HoldsAll, AvailOK, NEW ip \in Ips, NEW i \in Ids, DiscoverDoes(ip, i)
    PROVE  AvailOK'
<1> DEFINE s == "online"
<1> DEFINE d == [ip |-> ip, agent |-> NoAgent, status |-> s, avail |-> "none",
                 dated |-> FALSE]
<1>1. /\ i \notin rows /\ rows' = rows \cup {i} /\ dev' = [dev EXCEPT ![i] = d]
      /\ last' = [last EXCEPT ![i].says = s] /\ w' = w
      /\ \A x \in Writers : w[x].pc = "idle"
  BY DEF DiscoverDoes
<1>2. s \in Statuses
  BY DEF Statuses
<1> HIDE DEF d, s
<1>3. last'[i].avail = last[i].avail /\ \A j \in Ids : j # i => last'[j] = last[j]
  BY <1>1, <1>2, SaysStep
<1>4. last[i].avail = "none" /\ \A j \in rows : j # i /\ dev'[j] = dev[j] /\ last'[j] = last[j]
  BY <1>1, <1>3 DEF HoldsAll, FreshOK, BaseType
<1>5. \A x \in Writers : AvailOf(x)'
  BY <1>1 DEF AvailOf, Telling
<1>6. ASSUME NEW k \in rows' PROVE AvailRow(k)'
  <2>1. CASE k = i
    BY <1>3, <1>4, <2>1 DEF AvailRow, Told
  <2>2. CASE k # i
    <3>1. k \in rows /\ AvailRow(k)
      BY <1>1, <1>6, <2>2 DEF AvailOK
    <3> QED BY <1>4, <3>1 DEF AvailRow, Told
  <2> QED BY <2>1, <2>2
<1> QED BY <1>5, <1>6 DEF AvailOK, Writers

-----------------------------------------------------------------------------
(* The theorems.                                                           *)

LEMMA TelInit == Init => TelInv
<1> SUFFICES ASSUME Init PROVE TelInv
  OBVIOUS
<1>1. BaseType
  BY InitType
<1>2. /\ rows = {} /\ crossed = {} /\ \A x \in Writers : w[x] = Idle
      /\ \A i \in Ids : last[i].avail = "none"
  BY DEF Init
<1>3. ASSUME NEW x \in Writers PROVE HoldsOK(x)
  <2>1. HoldsRows(x) /\ KindOK(x) /\ ReportOK(x)
    BY <1>2 DEF HoldsRows, KindOK, ReportOK, Idle, Reporting, Creating
  <2>2. SessionOK(x)
    BY <1>2 DEF SessionOK, Sound, Idle
  <2>3. Missed(x) = {}
    BY <1>2 DEF Missed, Idle
  <2> QED BY <2>1, <2>2, <2>3 DEF HoldsOK, MissedOK
<1>4. HoldsAll
  BY <1>2, <1>3 DEF HoldsAll, FreshOK
<1>5. SharedAll /\ StandsOK /\ CrossedOK
  BY <1>2 DEF SharedAll, SharedOf, StandsOK, CrossedOK, OneDeviceUnlessCrossed, RivalsOK, Idle,
              Creating
<1>6. AvailOK
  BY <1>2 DEF AvailOK, AvailOf, Telling, Idle
<1> QED BY <1>1, <1>4, <1>5, <1>6 DEF TelInv

LEMMA TelStutter ==
    ASSUME TelInv, UNCHANGED vars
    PROVE  TelInv'
<1>1. UNCHANGED <<rows, dev, w, faults, last, crossed>>
  BY DEF vars
<1>2. BaseType' /\ HoldsAll'
  BY <1>1 DEF TelInv, BaseType, HoldsAll, FreshOK, HoldsOK, HoldsRows, KindOK, SessionOK, Sound,
              ReportOK, MissedOK, Missed, Writers
<1>3. SharedAll' /\ StandsOK' /\ CrossedOK'
  BY <1>1 DEF TelInv, SharedAll, SharedOf, Active, StandsOK, CrossedOK, OneDeviceUnlessCrossed,
              RivalsOK, Wanted, Writers
<1>4. AvailOK'
  BY <1>1 DEF TelInv, AvailOK, AvailOf, AvailRow, Telling, Told, Writers
<1> QED BY <1>2, <1>3, <1>4 DEF TelInv

LEMMA TelStep == TelInv /\ [Next]_vars => TelInv'
<1> SUFFICES ASSUME TelInv, [Next]_vars PROVE TelInv'
  OBVIOUS
<1> USE DEF TelInv
<1>1. ASSUME NEW x \in Writers, Step(x) PROVE TelInv'
  <2>1. BaseType' /\ StepDoes(x)
    BY <1>1, StepEffect DEF HoldsAll
  <2> QED BY <2>1, HoldsStep, SharedStep, StandsStep, CrossedStep, AvailStep
<1>2. ASSUME NEW ip \in Ips, Discover(ip) PROVE TelInv'
  <2>1. BaseType' /\ DiscoverDoes(ip, NewId)
    BY <1>2, DiscoverEffect
  <2>2. NewId \in Ids
    BY <2>1 DEF DiscoverDoes
  <2> QED BY <2>1, <2>2, DiscoverShared, DiscoverCrossed, DiscoverAvail
<1>3. CASE UNCHANGED vars
  BY <1>3, TelStutter
<1> QED BY <1>1, <1>2, <1>3 DEF Next

\* The inductive invariant holds.
THEOREM TelInvariance == Spec => []TelInv
  BY TelInit, TelStep, PTL DEF Spec

\* The tables and the writers stay within TypeOK; in particular what a writer
\* lists, tells or reports on is a row of the table (telemetry/collector.py).
THEOREM TelTypeCorrect == Spec => []TypeOK
<1>1. TelInv => TypeOK
  <2> SUFFICES ASSUME TelInv PROVE TypeOK
    OBVIOUS
  <2>1. BaseType /\ \A x \in Writers : w[x] \in Writer /\ HoldsRows(x)
    BY DEF TelInv, BaseType, HoldsAll, HoldsOK
  <2>2. Places = {"idle", "next", "caught", "except", "result", "create", "insert", "touched",
                  "completed", "failed"} \cup Reporting
    BY DEF Places, Reporting
  <2> QED BY <2>1, <2>2 DEF TypeOK, BaseType, HoldsRows, Writer, Device, Report
<1> QED BY <1>1, TelInvariance, PTL

\* Between reports a device has the status of the last report that set it, though
\* a status that equals the one loaded is never written, unless that report
\* overlapped another one or was judged by a status that its session had loaded
\* for an earlier result, before another writer's report (LastReportStands).
THEOREM StatusStands == Spec => []LastReportStands
<1>1. TelInv => LastReportStands
  BY DEF TelInv, StandsOK, LastReportStands
<1> QED BY <1>1, TelInvariance, PTL

\* Although metrics and status are committed one by one, and any statement may
\* raise in between, a device's newest availability metric is the one that came
\* with its status, unless two reports overlapped, an availability was recorded
\* since, or the newest is dated by an agent (AvailabilityTellsStatus).
THEOREM AvailabilityAgrees == Spec => []AvailabilityTellsStatus
<1>1. TelInv => AvailabilityTellsStatus
  <2> SUFFICES ASSUME TelInv, NEW i \in rows, ~ last[i].shared, ~ dev[i].dated,
                      last[i].avail # "none"
               PROVE  dev[i].avail = last[i].avail
    BY DEF AvailabilityTellsStatus
  <2>1. AvailRow(i)
    BY DEF TelInv, AvailOK
  <2> QED BY <2>1 DEF AvailRow, Told
<1> QED BY <1>1, TelInvariance, PTL

\* A pass that completed has told of every device it listed but for those it could
\* not read, unless a COMMIT failed that was its first; then it has told of none,
\* or has missed one device at most (CompletedPassIsWhole, collector.py 60-76).
THEOREM PassIsWhole == Spec => []CompletedPassIsWhole
<1>1. TelInv => CompletedPassIsWhole
  <2> SUFFICES ASSUME TelInv, NEW x \in Passes, w[x].pc = "completed",
                      w[x].listed \ (w[x].told \cup w[x].unread) # {}
               PROVE  /\ w[x].session = "prepared"
                      /\ \/ w[x].told = {}
                         \/ \E i \in w[x].listed \ (w[x].told \cup w[x].unread) :
                              w[x].listed \ (w[x].told \cup w[x].unread) = {i}
    BY DEF CompletedPassIsWhole, At
  <2>1. /\ x \in Writers /\ HoldsRows(x) /\ KindOK(x) /\ SessionOK(x) /\ MissedOK(x)
        /\ w[x] \in Writer
    BY DEF TelInv, HoldsAll, HoldsOK, Writers, BaseType
  <2>2. w[x].todo = {} /\ w[x].device = NoId
    BY <2>1 DEF KindOK, HoldsRows, Reporting
  <2>3. w[x].listed \subseteq Ids /\ NoId \notin Ids
    BY <2>1, WritersAssumption DEF Writer
  <2> DEFINE missed == w[x].listed \ (w[x].told \cup w[x].unread)
  <2>4. Missed(x) = missed
    BY <2>2, <2>3 DEF Missed
  <2>5. w[x].session \in {"sound", "inactive", "prepared"} /\ w[x].fresh \in BOOLEAN
    BY <2>1 DEF Writer
  <2>6. w[x].session = "prepared"
    BY <2>1, <2>4, <2>5 DEF MissedOK, SessionOK, Sound
  <2>7. CASE w[x].fresh
    BY <2>1, <2>6, <2>7 DEF SessionOK
  <2>8. CASE ~ w[x].fresh
    <3>1. PICK i : missed \subseteq {i}
      BY <2>1, <2>4, <2>8 DEF MissedOK
    <3> QED BY <2>6, <3>1
  <2> QED BY <2>7, <2>8
<1> QED BY <1>1, TelInvariance, PTL

\* There is one device for an address, unless two requests were between finding
\* none and inserting theirs at the same time; then there is one for each agent
\* (OneDeviceUnlessCrossed, ingest and device_repo.py).
THEOREM OneDevice == Spec => []OneDeviceUnlessCrossed
<1>1. TelInv => OneDeviceUnlessCrossed
  BY DEF TelInv, CrossedOK
<1> QED BY <1>1, TelInvariance, PTL
===============================================================================
