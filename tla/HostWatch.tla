------------------------------ MODULE HostWatch ------------------------------
(***************************************************************************)
(* How the agent follows its Docker daemon: DockerService.watch with its   *)
(* event stream, EventCursor, SnapshotCoalescer and the reach of the       *)
(* daemon (recordReach).                                                   *)
(*                                                                         *)
(* Every change of the host is an event, numbered in the order the daemon  *)
(* files them and stamped with a second that may lie one behind: an event  *)
(* can be overtaken. A snapshot is put together from several lists, each   *)
(* answered at a moment of its own; what is said here of a snapshot holds  *)
(* of every one of its lists, so one stands for them, and its content is   *)
(* the number of events it shows. A stream is the sequence of callbacks    *)
(* still to come: events, then perhaps "error", then "end". The lengths of *)
(* the delays are left out.                                                *)
(***************************************************************************)
EXTENDS Naturals, Sequences, FiniteSets

CONSTANTS
  MaxEvents,    \* changes of the host
  MaxSeconds,   \* seconds they spread over
  RingSize,     \* events the daemon keeps for a replay
  FaultKinds,   \* "blip", "restart" of the daemon, "read": one read fails,
                \* and "ask": somebody else wants a state
  MaxFaults     \* how often, all kinds together

ASSUME CountsAssumption ==
  /\ MaxEvents \in Nat /\ MaxFaults \in Nat
  /\ MaxSeconds \in Nat \ {0} /\ RingSize \in Nat \ {0}

Events == 1 .. MaxEvents
None == 0
NoSecond == 0
Error == MaxEvents + 1
End == MaxEvents + 2
Unread == MaxEvents + 1
ReadSlots == 1 .. 2

VARIABLES
  clock,        \* the host's clock, in seconds
  daemonUp,     \* the daemon answers
  count,        \* events so far, which is the state of the host
  stamp,        \* the second each is filed under
  ring,         \* the events the daemon would replay
  pipes,        \* for every stream opened so far, the callbacks to come
  joined,       \* the stream the daemon writes to
  eventStream,  \* the stream the agent listens to
  asking,       \* getEvents: "no", "asked", "broken" or "opened"
  from,         \* the since it was asked with
  timer,        \* rewatchTimer is set
  missed,       \* missedEvents
  second, seen, \* the cursor
  running, again, \* the coalescer's flags
  reads,        \* the reads under way
  delivered,    \* what onUpdate was handed last
  health,       \* dockerHealth
  told,         \* how often each event was reported
  start,        \* the second the cursor began with
  excused,      \* events the daemon cannot be asked for again
  lone,         \* the last read failed while the daemon was there
  gap,          \* the host changed while the first stream was being opened
  faults

daemonVars == <<clock, daemonUp, count, stamp, ring>>
cursorVars == <<second, seen, start>>
watchVars == <<eventStream, asking, from, timer, missed>>
readVars == <<running, again, reads, delivered, lone>>
hostVars == <<daemonVars, pipes, joined, watchVars, cursorVars, readVars, health,
          told, excused, gap, faults>>

Read == [on : BOOLEAN, got : 0 .. Unread, broken : BOOLEAN]
NoRead == [on |-> FALSE, got |-> Unread, broken |-> FALSE]
ReadBegun == [NoRead EXCEPT !.on = TRUE, !.broken = ~daemonUp]

WatchTypes ==
  /\ clock \in 1 .. MaxSeconds /\ daemonUp \in BOOLEAN /\ count \in 0 .. MaxEvents
  /\ stamp \in [Events -> 0 .. MaxSeconds]
  /\ ring \subseteq Events
  /\ pipes \in Seq(Seq(1 .. End)) /\ joined \in 0 .. Len(pipes)
  /\ eventStream \in 0 .. Len(pipes)
  /\ asking \in {"no", "asked", "broken", "opened"} /\ from \in 0 .. MaxSeconds
  /\ timer \in BOOLEAN /\ missed \in BOOLEAN
  /\ second \in 0 .. MaxSeconds /\ seen \subseteq Events
  /\ running \in BOOLEAN /\ again \in BOOLEAN
  /\ reads \in [ReadSlots -> Read]
  /\ delivered \in 0 .. Unread
  /\ health \in {"unknown", "reachable", "unreachable"}
  /\ told \in [Events -> 0 .. 2] /\ start \in 0 .. MaxSeconds
  /\ excused \subseteq Events /\ lone \in BOOLEAN /\ gap \in BOOLEAN
  /\ faults \in 0 .. MaxFaults

WatchInit ==
  /\ clock = 1 /\ daemonUp = TRUE /\ count = 0
  /\ stamp = [e \in Events |-> NoSecond] /\ ring = {}
  /\ pipes = <<>> /\ joined = None /\ eventStream = None
  /\ asking = "no" /\ from = NoSecond /\ timer = FALSE /\ missed = FALSE
  /\ second = NoSecond /\ seen = {} /\ start = NoSecond
  /\ running = FALSE /\ again = FALSE /\ reads = [r \in ReadSlots |-> NoRead]
  /\ delivered = Unread /\ lone = FALSE /\ health = "unknown"
  /\ told = [e \in Events |-> 0] /\ excused = {} /\ gap = FALSE /\ faults = 0

Happens(kind) ==
  /\ kind \in FaultKinds /\ faults < MaxFaults /\ faults' = faults + 1

\* The agent has been connected, and watch() was called.
Watching == asking # "no" \/ timer \/ pipes # <<>>

-----------------------------------------------------------------------------
(* The daemon and the host. *)

Tick ==
  /\ clock < MaxSeconds
  /\ clock' = clock + 1
  /\ UNCHANGED <<daemonUp, count, stamp, ring, pipes, joined, watchVars,
                 cursorVars, readVars, health, told, excused, gap, faults>>

Newest(es) == {e \in es : Cardinality({d \in es : d > e}) < RingSize}

\* Something on the host changes. Without the daemon nothing files it.
Change(s) ==
  LET e == count + 1
      kept == Newest(ring \cup {e})
      late == \E d \in 1 .. count : stamp[d] > s
  IN /\ e \in Events /\ s \in {clock, clock - 1} \ {NoSecond}
     /\ count' = e
     /\ stamp' = [stamp EXCEPT ![e] = s]
     /\ IF daemonUp
        THEN /\ ring' = kept
             /\ pipes' = IF joined = None THEN pipes
                         ELSE [pipes EXCEPT ![joined] = Append(@, e)]
             /\ excused' = (excused \cup (ring \ kept)
                              \cup (IF late \/ pipes = <<>> THEN {e} ELSE {}))
        ELSE /\ excused' = excused \cup {e}
             /\ UNCHANGED <<ring, pipes>>
     /\ gap' = (gap \/ (pipes = <<>> /\ asking = "asked" /\ ~missed))
     /\ UNCHANGED <<clock, daemonUp, joined, watchVars, cursorVars, readVars, health,
                    told, faults>>

\* A stream that ends hands over the first part of what it carried.
Severed(n, tail) ==
  IF joined = None THEN pipes
  ELSE [pipes EXCEPT ![joined] = SubSeq(@, 1, n) \o tail]

\* A broken connection raises an error and then its end.
Blip(n) ==
  /\ joined # None /\ n \in 0 .. Len(pipes[joined])
  /\ Happens("blip")
  /\ pipes' = Severed(n, <<Error, End>>)
  /\ joined' = None
  /\ UNCHANGED <<daemonVars, watchVars, cursorVars, readVars, health, told,
                 excused, gap>>

\* The daemon goes down with its events and every request; it ends its streams.
Down(n) ==
  /\ daemonUp /\ n \in 0 .. (IF joined = None THEN 0 ELSE Len(pipes[joined]))
  /\ Happens("restart")
  /\ daemonUp' = FALSE
  /\ pipes' = Severed(n, <<End>>)
  /\ joined' = None
  /\ ring' = {} /\ excused' = excused \cup ring
  /\ asking' = IF asking = "asked" THEN "broken" ELSE asking
  /\ reads' = [r \in ReadSlots |->
                 [reads[r] EXCEPT !.broken = reads[r].on]]
  /\ UNCHANGED <<clock, count, stamp, eventStream, from, timer, missed,
                 cursorVars, running, again, delivered, lone, health, told, gap>>

Up ==
  /\ ~daemonUp
  /\ daemonUp' = TRUE
  /\ UNCHANGED <<clock, count, stamp, ring, pipes, joined, watchVars,
                 cursorVars, readVars, health, told, excused, gap, faults>>

\* The events a daemon replays to a stream opened with a since, in order: the
\* i-th is the one with i of them up to it.
Replay ==
  LET es == IF from = NoSecond THEN {} ELSE {e \in ring : stamp[e] >= from}
  IN [i \in 1 .. Cardinality(es) |->
        CHOOSE e \in es : Cardinality({d \in es : d <= e}) = i]

OpenStream ==
  /\ asking = "asked"
  /\ asking' = "opened"
  /\ pipes' = Append(pipes, Replay)
  /\ joined' = Len(pipes')
  /\ UNCHANGED <<daemonVars, eventStream, from, timer, missed, cursorVars,
                 readVars, health, told, excused, gap, faults>>

RecordReach(ok) ==
  health' = IF ok THEN "reachable" ELSE "unreachable"

-----------------------------------------------------------------------------
(* The coalescer. *)

StartRead ==
  reads' = [reads EXCEPT ![IF reads[1].on THEN 2 ELSE 1] = ReadBegun]

Request ==
  IF running
  THEN again' = TRUE /\ UNCHANGED <<running, reads>>
  ELSE running' = TRUE /\ again' = FALSE /\ StartRead

\* The loop after a read: one more, or none.
Continue(r) ==
  IF again
  THEN /\ again' = FALSE /\ running' = running
       /\ reads' = [reads EXCEPT ![r] = ReadBegun]
  ELSE /\ again' = again /\ running' = FALSE
       /\ reads' = [reads EXCEPT ![r] = NoRead]

\* The daemon answers the list.
Answer(r) ==
  /\ reads[r].on /\ ~reads[r].broken /\ reads[r].got = Unread
  /\ reads' = [reads EXCEPT ![r].got = count]
  /\ UNCHANGED <<daemonVars, pipes, joined, watchVars, cursorVars, running,
                 again, delivered, lone, health, told, excused, gap, faults>>

ReadDone(r) ==
  /\ reads[r].on /\ reads[r].got # Unread
  /\ delivered' = reads[r].got
  /\ RecordReach(TRUE)
  /\ lone' = FALSE
  /\ Continue(r)
  /\ UNCHANGED <<daemonVars, pipes, joined, watchVars, cursorVars, told,
                 excused, gap, faults>>

ReadFails(r) ==
  /\ reads[r].on /\ (reads[r].broken \/ reads[r].got = Unread)
  /\ IF reads[r].broken
     THEN UNCHANGED <<lone, faults>>
     ELSE Happens("read") /\ lone' = TRUE
  /\ RecordReach(FALSE)
  /\ Continue(r)
  /\ UNCHANGED <<daemonVars, pipes, joined, watchVars, cursorVars, delivered,
                 told, excused, gap>>

-----------------------------------------------------------------------------
(* The watcher. *)

\* The first connection: subscribe() starts the watcher, refresh() has the
\* state read.
Connect ==
  /\ ~Watching
  /\ asking' = (IF daemonUp THEN "asked" ELSE "broken") /\ from' = second
  /\ Request
  /\ UNCHANGED <<daemonVars, pipes, joined, eventStream, timer, missed,
                 cursorVars, delivered, lone, health, told, excused, gap, faults>>

\* A later connection, an action that ended, or the server asking.
Ask ==
  /\ Watching
  /\ Happens("ask")
  /\ Request
  /\ UNCHANGED <<daemonVars, pipes, joined, watchVars, cursorVars, delivered,
                 lone, health, told, excused, gap>>

BeginCursorAnew ==
  /\ second' = clock
  /\ start' = (IF second = NoSecond THEN clock ELSE start)
  /\ UNCHANGED seen
BeginCursor ==
  IF second = NoSecond
  THEN second' = clock /\ start' = clock /\ UNCHANGED seen
  ELSE UNCHANGED cursorVars

WatchResolves ==
  /\ asking = "opened"
  /\ asking' = "no" /\ eventStream' = Len(pipes)
  /\ BeginCursor
  /\ RecordReach(TRUE)
  /\ missed' = FALSE
  /\ IF missed THEN Request ELSE UNCHANGED <<running, again, reads>>
  /\ UNCHANGED <<daemonVars, pipes, joined, from, timer, delivered, lone, told,
                 excused, gap, faults>>

RewatchForgets ==
  /\ eventStream' = None /\ missed' = missed /\ timer' = TRUE
Rewatch ==
  /\ eventStream' = None /\ missed' = TRUE /\ timer' = TRUE

WatchFails ==
  /\ asking = "broken"
  /\ asking' = "no"
  /\ RecordReach(FALSE)
  /\ Rewatch
  /\ UNCHANGED <<daemonVars, pipes, joined, from, cursorVars, readVars, told,
                 excused, gap, faults>>

TimerFiresLater ==
  /\ timer
  /\ timer' = FALSE
  /\ asking' = (IF daemonUp THEN "asked" ELSE "broken")
  /\ from' = (IF second = NoSecond THEN second ELSE second + 1)
  /\ UNCHANGED <<daemonVars, pipes, joined, eventStream, missed, cursorVars,
                 readVars, health, told, excused, gap, faults>>
TimerFires ==
  /\ timer
  /\ timer' = FALSE
  /\ asking' = (IF daemonUp THEN "asked" ELSE "broken") /\ from' = second
  /\ UNCHANGED <<daemonVars, pipes, joined, eventStream, missed, cursorVars,
                 readVars, health, told, excused, gap, faults>>

\* EventCursor.advance: whether the event is new, and the cursor after it.
New(e) == stamp[e] < second \/ e \notin seen

Advance(e) ==
  /\ second' = IF stamp[e] > second THEN stamp[e] ELSE second
  /\ seen' = IF stamp[e] < second THEN seen
             ELSE IF stamp[e] > second THEN {e} ELSE seen \cup {e}
  /\ UNCHANGED start

HandleEvent(e) ==
  /\ Advance(e)
  /\ IF New(e)
     THEN /\ told' = [told EXCEPT ![e] = IF @ = 2 THEN 2 ELSE @ + 1]
          /\ Request
     ELSE UNCHANGED <<told, running, again, reads>>
  /\ UNCHANGED <<watchVars, health>>

StreamGone ==
  /\ RecordReach(FALSE)
  /\ Rewatch
  /\ UNCHANGED <<cursorVars, told, running, again, reads, asking, from>>

\* One callback of a stream. One that has been given up is not listened to.
Callback(s) ==
  /\ s \in DOMAIN pipes /\ pipes[s] # <<>>
  /\ s = Len(pipes) => asking # "opened"
  /\ pipes' = [pipes EXCEPT ![s] = Tail(@)]
  /\ IF eventStream # s
     THEN UNCHANGED <<cursorVars, told, running, again, reads, watchVars, health>>
     ELSE IF Head(pipes[s]) \in {Error, End}
     THEN StreamGone
     ELSE HandleEvent(Head(pipes[s]))
  /\ UNCHANGED <<daemonVars, joined, delivered, lone, excused, gap, faults>>

-----------------------------------------------------------------------------
Reading(r) ==
  \/ Answer(r)
  \/ ReadDone(r)
  \/ ReadFails(r)

WatchNext ==
  \/ Tick \/ \E s \in 1 .. MaxSeconds : Change(s)
  \/ \E n \in 0 .. MaxEvents : Blip(n) \/ Down(n)
  \/ Up \/ OpenStream
  \/ \E r \in ReadSlots : Reading(r)
  \/ Connect \/ Ask \/ WatchResolves \/ WatchFails \/ TimerFires
  \/ \E s \in 1 .. (MaxFaults + 1) : Callback(s)

WatchSpec == WatchInit /\ [][WatchNext]_hostVars

\* The daemon comes back and answers; the agent connects once, its timer fires
\* and its callbacks run. Changes, faults and the server's requests may end.
WatchFairness ==
  /\ WF_hostVars(Up) /\ WF_hostVars(OpenStream) /\ WF_hostVars(Connect)
  /\ WF_hostVars(WatchResolves) /\ WF_hostVars(WatchFails) /\ WF_hostVars(TimerFires)
  /\ \A s \in 1 .. (MaxFaults + 1) : WF_hostVars(Callback(s))
  /\ \A r \in ReadSlots :
       /\ WF_hostVars(Answer(r))
       /\ WF_hostVars(ReadDone(r))
       /\ WF_hostVars(reads[r].broken /\ ReadFails(r))

WatchFairSpec == WatchSpec /\ WatchFairness

-----------------------------------------------------------------------------
(* An event is reported once, however often streams break and replay what   *)
(* has been through before: a second report would be a second line in the   *)
(* list and a second call of every webhook.                                 *)
EventsToldOnce == \A e \in Events : told[e] <= 1

(* An event is reported in the end, breaks of the stream notwithstanding,   *)
(* unless the daemon no longer holds it (excused), or it was filed before   *)
(* the cursor's first second.                                               *)
EventsTold ==
  <>[](\A e \in 1 .. count :
         told[e] > 0 \/ e \in excused \/ (start # NoSecond /\ stamp[e] < start))

(* Once the host is quiet, the last snapshot the agent delivered is the     *)
(* state the host is in, whatever broke in between. Two things may leave it *)
(* behind: a read that fails on its own, which nothing repeats, and a       *)
(* change while the very first stream is being opened, whose snapshot is    *)
(* read beside it and not after it. And it calls the daemon reachable then, *)
(* whatever an earlier attempt reported late.                               *)
LastWordStands ==
  <>[](lone \/ ((gap \/ delivered = count) /\ health = "reachable"))
=============================================================================
