----------------------------- MODULE ActionScopes -----------------------------
(***************************************************************************)
(* A Docker action from its request to its outcome, on the agent:          *)
(* DockerService.executeAction with the work gate it passes (WorkGate), the *)
(* correlation scope that gathers the events it causes, and the wait for    *)
(* the first health status of a container it started (ActivityService).    *)
(*                                                                         *)
(* The units of the gate are the actions. One container with a healthcheck, *)
(* besides the agent's own, and each container that takes its place has a   *)
(* new id. The time of an event only counts against the beginnings of the   *)
(* scopes and waits: it carries the ones there were when Docker filed it.   *)
(* Docker and the agent have one clock. The stream hands events over in     *)
(* order, however late, or loses some to a break (HostWatch says when).     *)
(* `die` and `stop`, and `kill` and `die` of a removal, are one event.      *)
(***************************************************************************)
EXTENDS WorkGate, SequencesExt

CONSTANTS
  Casts,        \* which actions there are together: what each unit is, "start",
                \* "stop", "restart", "remove", "recreate", "self", which recreates
                \* the agent's own container, "other", which is about something
                \* else, or "none"
  Nobody,
  FaultKinds,   \* "fail": Docker refuses a call; "hand": somebody else starts or
                \* stops the container; "break" of the event stream
  MaxFaults,    \* how often, all kinds together
  MaxLag        \* bound: events under way

ASSUME ScopesAssumption ==
  /\ Nobody \notin Units /\ MaxFaults \in Nat /\ MaxLag \in Nat \ {0}
  /\ \A cast \in Casts : \A u \in Units :
       cast[u] \in {"start", "stop", "restart", "remove", "recreate", "self", "other", "none"}

VARIABLES
  host,         \* the container: its id (0 for none), whether it runs, its
                \* health status, who started it, and the ids given so far
  stream,       \* the events Docker has filed and the agent has not heard yet
  op,           \* the actions: what each is, how far it is, and its target
  scope,        \* their scopes
  order,        \* ActivityService.scopes: the open ones, in the order opened
  wait,         \* ActivityService.healthWaits, by container id
  reading,      \* the snapshot under way: whose waits were armed when it began
                \* (its mark in healthSeq), and what it shows
  asked,        \* a snapshot has been asked for since the last one began
  faults

VARIABLES       \* history
  contested,    \* actions that shared the container with somebody
  gaveUp,       \* scopes the grace window closed
  spoiled       \* actions whose wait was displaced, or ended by another status
                \* or by a snapshot that overtook the event

dockerVars == <<host, stream>>
scopeVars  == <<scope, order>>
readVars   == <<reading, asked>>
history    == <<contested, gaveUp, spoiled>>
rest == <<dockerVars, op, scopeVars, wait, readVars, faults, history>>
all  == <<vars, rest>>

Ids == 1 .. Cardinality(Units) + 1
AnyId == 0

NoWait  == [for |-> Nobody, armed |-> FALSE]
NoScope == [open |-> FALSE, ids |-> {}, named |-> FALSE,
            pending |-> {}, finished |-> FALSE]
Unread  == Cardinality(Units) + 2
NoRead  == [mark |-> {}, starting |-> Unread]

OfContainer == {"start", "stop", "restart", "remove", "recreate"}

ScopesInit ==
  /\ Init
  /\ \E cast \in Casts :
       /\ op = [u \in Units |-> [kind |-> cast[u], doing |-> "none", target |-> 0, ran |-> FALSE]]
       /\ \E state \in (IF \E u \in Units : cast[u] \in OfContainer
                          THEN {"gone", "off", "starting"} ELSE {"gone"}) :
            host = [id |-> IF state = "gone" THEN 0 ELSE 1, running |-> state = "starting",
                    status |-> IF state = "starting" THEN state ELSE "off",
                    by |-> Nobody, made |-> 1]
  /\ stream = <<>>
  /\ scope = [u \in Units |-> NoScope] /\ order = <<>>
  /\ wait = [x \in Ids |-> NoWait]
  /\ reading = NoRead /\ asked = FALSE
  /\ faults = 0 /\ contested = {} /\ gaveUp = {} /\ spoiled = {}

Happens(kind) == kind \in FaultKinds /\ faults < MaxFaults /\ faults' = faults + 1

Doing(u, what) == op' = [op EXCEPT ![u].doing = what]

-----------------------------------------------------------------------------
(* Docker: the calls of an action, each with the event it files.           *)

Open(u) == scope[u].open

File(kind, by, first) ==
  /\ Len(stream) < MaxLag
  /\ stream' = Append(stream, [kind |-> kind, id |-> host'.made, by |-> by, first |-> first,
                            scopes |-> {u \in Units : Open(u)},
                            waiting |-> wait[host'.made].for])

There(u) == host.id = op[u].target
Up(u)    == There(u) /\ host.running

StartedBy(who) ==
  /\ host' = [host EXCEPT !.running = TRUE, !.status = "starting", !.by = who]
  /\ File("started", who, FALSE)

Stopped == [host EXCEPT !.running = FALSE, !.status = "off", !.by = Nobody]

AfterStop(u) ==
  CASE op[u].kind = "stop" -> "answered" [] op[u].kind = "restart" -> "starts"
    [] op[u].kind = "recreate" -> "removes"

\* A recreate passes over a container that cannot be stopped, and a restart
\* over one that does not run.
NotStopped(u) ==
  CASE op[u].kind = "recreate" -> "removes"
    [] op[u].kind = "restart" /\ There(u) -> "starts"
    [] OTHER -> "turned down"

DockerStops(u) ==
  /\ op[u].doing = "stops"
  /\ IF Up(u) THEN host' = host /\ File("killed", u, FALSE) /\ Doing(u, "kills")
     ELSE UNCHANGED dockerVars /\ Doing(u, NotStopped(u))

DockerHasStopped(u) ==
  /\ op[u].doing = "kills" /\ Doing(u, AfterStop(u))
  /\ IF Up(u) THEN host' = Stopped /\ File("stopped", u, FALSE)
     ELSE UNCHANGED dockerVars

DockerRemoves(u) ==
  /\ op[u].doing = "removes"
  /\ IF There(u)
     THEN /\ host' = [Stopped EXCEPT !.id = 0] /\ File("removed", u, FALSE)
          /\ Doing(u, IF op[u].kind = "remove" THEN "answered" ELSE "creates")
     ELSE UNCHANGED dockerVars /\ Doing(u, "turned down")

\* The name is free: nobody but an action creates a container, and of two
\* recreates the second has found nothing to remove.
DockerCreates(u) ==
  /\ op[u].doing = "creates" /\ host.id = 0
  /\ host' = [host EXCEPT !.id = host.made + 1, !.made = @ + 1]
  /\ File("created", u, FALSE)
  /\ op' = [op EXCEPT ![u].doing = IF op[u].ran THEN "looks" ELSE "answered",
                      ![u].target = host'.id]

DockerStarts(u) ==
  /\ op[u].doing = "starts"
  /\ IF There(u) /\ ~host.running THEN StartedBy(u) /\ Doing(u, "answered")
     ELSE UNCHANGED dockerVars /\ Doing(u, "turned down")

DockerDoes(u) ==
  /\ op[u].doing = "calls" /\ Doing(u, "answered") /\ UNCHANGED dockerVars

Docker(u) ==
  /\ \/ DockerDoes(u) \/ DockerStops(u) \/ DockerHasStopped(u) \/ DockerRemoves(u)
     \/ DockerCreates(u) \/ DockerStarts(u)
  /\ UNCHANGED <<vars, scopeVars, wait, readVars, faults, history>>

DockerRefuses(u) ==
  /\ op[u].doing \in {"stops", "removes", "creates", "starts", "calls"} /\ Happens("fail")
  /\ Doing(u, IF op[u].doing = "stops" /\ op[u].kind = "recreate" THEN "removes"
              ELSE "turned down")
  /\ UNCHANGED <<vars, dockerVars, scopeVars, wait, readVars, history>>

\* Somebody else starts or stops the container.
Hand ==
  /\ host.id # 0 /\ Happens("hand")
  /\ IF host.running THEN host' = Stopped /\ File("stopped", Nobody, FALSE)
     ELSE StartedBy(Nobody)
  /\ contested' = contested \cup {u \in Units : Open(u)}
  /\ UNCHANGED <<vars, op, scopeVars, wait, readVars, gaveUp, spoiled>>

\* The healthcheck reports: the first status of this run. Later ones end no
\* wait that a first one has not ended.
HealthStatus ==
  /\ host.status = "starting"
  /\ host' = [host EXCEPT !.status = "told"]
  /\ File("health", host.by, TRUE)
  /\ spoiled' = spoiled \cup ({wait[host.id].for} \ {host.by, Nobody})
  /\ UNCHANGED <<vars, op, scopeVars, wait, readVars, faults, contested, gaveUp>>

-----------------------------------------------------------------------------
(* The agent: snapshots, scopes and waits.                                 *)

Armed == {wait[x].for : x \in {y \in Ids : wait[y].armed}}

\* DockerService.pushState. A snapshot that begins with no wait armed judges
\* none, and is left out.
Request == asked' = (Armed # {}) /\ reading' = reading

\* The mark is taken before anything is read. The server may ask for a
\* snapshot at any time.
BeginRead ==
  /\ alive /\ reading = NoRead /\ Armed # {}
  /\ reading' = [mark |-> Armed, starting |-> Unread]
  /\ asked' = FALSE
  /\ UNCHANGED <<vars, dockerVars, op, scopeVars, wait, faults, history>>

\* Of the snapshot counts which container is running and "starting".
ReadHost ==
  /\ alive /\ reading # NoRead /\ reading.starting = Unread
  /\ reading' = [reading EXCEPT !.starting = IF host.status = "starting" THEN host.id ELSE 0]
  /\ UNCHANGED <<vars, dockerVars, op, scopeVars, wait, asked, faults, history>>

\* What a step leaves to do before any other callback, but for the events of
\* the chunk it read: an action whose last awaited event has come goes on.
Due(u) == op[u].doing = "settles" /\ scope[u].pending = {}
Callback == alive /\ \A u \in Units : ~Due(u)

\* reconcileHealth: the waits a snapshot may judge, and the ones it ends.
JudgedAny(w) == w.for # Nobody /\ w.armed
Judged(w) == w.for # Nobody /\ w.for \in reading.mark

Ended(x) == Judged(wait[x]) /\ reading.starting # x

Underway(u) == \E i \in DOMAIN stream : stream[i].first /\ stream[i].by = u

ReadDone ==
  /\ Callback /\ reading # NoRead /\ reading.starting # Unread
  /\ wait' = [x \in Ids |-> IF Ended(x) THEN NoWait ELSE wait[x]]
  /\ spoiled' = spoiled \cup {u \in Units : Underway(u) /\ \E x \in Ids : wait[x].for = u /\ Ended(x)}
  /\ reading' = NoRead
  /\ UNCHANGED <<asked, vars, dockerVars, op, scopeVars, faults, contested, gaveUp>>

\* Whether an event belongs to the operation of this scope.
ClaimsAny(u, e) == Open(u) /\ (scope[u].named \/ e.id \in scope[u].ids)
Claims(u, e) ==
  Open(u) /\ u \in e.scopes /\ (scope[u].named \/ e.id \in scope[u].ids)

Close(u) ==
  /\ scope' = [scope EXCEPT ![u] = NoScope]
  /\ order' = RemoveAt(order, CHOOSE n \in DOMAIN order : order[n] = u)

Observed(u, e) ==
  LET left == scope[u].pending \ {[kind |-> e.kind, id |-> e.id], [kind |-> e.kind, id |-> AnyId]}
  IN IF left = {} /\ scope[u].finished THEN Close(u)
     ELSE scope' = [scope EXCEPT ![u].pending = left] /\ order' = order

\* The wait an event ends, and whom ActivityService.report puts it down to.
Owed(e) == e.kind = "health" /\ e.waiting # Nobody /\ wait[e.id].for = e.waiting

Owner(e) ==
  LET claimed == {n \in DOMAIN order : Claims(order[n], e)}
  IN CASE Owed(e) -> e.waiting
       [] ~Owed(e) /\ claimed # {} -> order[Min(claimed)]
       [] OTHER -> Nobody

\* handleEvent.
Hear ==
  /\ alive /\ stream # <<>> /\ stream' = Tail(stream)
  /\ LET e == Head(stream)
     IN /\ wait' = IF Owed(e) THEN [wait EXCEPT ![e.id] = NoWait] ELSE wait
        /\ IF ~Owed(e) /\ Owner(e) # Nobody THEN Observed(Owner(e), e) ELSE UNCHANGED scopeVars
  /\ Request
  /\ UNCHANGED <<vars, host, op, faults, history>>

\* A break of the stream takes some events; the state is read after it.
Break(n) ==
  /\ Callback /\ n \in DOMAIN stream /\ Happens("break")
  /\ stream' = SubSeq(stream, n + 1, Len(stream))
  /\ Request
  /\ UNCHANGED <<vars, host, op, scopeVars, wait, history>>

-----------------------------------------------------------------------------
(* executeAction.                                                          *)

First(kind) ==
  CASE kind = "stop" -> "stops" [] kind = "remove" -> "removes" [] kind = "other" -> "calls"
    [] OTHER -> "asks"

Expected(kind, x) ==
  CASE kind \in {"start", "restart"} -> {[kind |-> "started", id |-> x]}
    [] kind = "stop"   -> {[kind |-> "stopped", id |-> x]}
    [] kind = "remove" -> {[kind |-> "removed", id |-> x]}
    [] OTHER -> {}

\* The dashboard asks for an action on the container it knows.
Asked(u) == op[u].kind # "none" /\ op[u].doing = "none"

Begin(u) ==
  /\ Callback /\ Asked(u) /\ Enter(u)
  /\ op' = [op EXCEPT ![u].doing = First(op[u].kind), ![u].target = host.made]
  /\ scope' = [scope EXCEPT ![u] =
                 [NoScope EXCEPT !.open = TRUE,
                                 !.ids = IF op[u].kind \in OfContainer THEN {host.made} ELSE {},
                                 !.pending = Expected(op[u].kind, host.made)]]
  /\ order' = Append(order, u)
  /\ LET others == {v \in Units : Open(v) /\ op[v].kind \in OfContainer}
     IN contested' = contested \cup (IF op[u].kind \notin OfContainer \/ others = {} THEN {} ELSE others \cup {u})
  /\ UNCHANGED <<dockerVars, wait, readVars, faults, gaveUp, spoiled>>

\* The gate is closed: the outcome follows at once.
Refused(u) ==
  /\ Callback /\ Asked(u) /\ gate # "open"
  /\ Doing(u, "over") /\ Request
  /\ UNCHANGED <<vars, dockerVars, scopeVars, wait, faults, history>>

\* expectHealth: a newer wait for the same container replaces an older one.
ExpectHealth(u, x) ==
  /\ wait' = [wait EXCEPT ![x] = [for |-> u, armed |-> FALSE]]
  /\ spoiled' = spoiled \cup ({wait[x].for} \ {Nobody})

\* The container has been inspected: its start is waited for, or its recreate
\* says what it is going to touch.
Inspected(u) ==
  /\ Callback /\ op[u].doing \in {"asks", "looks"} /\ op[u].kind # "self"
  /\ IF ~There(u)
     THEN Doing(u, "turned down") /\ UNCHANGED <<scope, wait, spoiled>>
     ELSE IF op[u].kind = "recreate" /\ op[u].doing = "asks"
     THEN /\ op' = [op EXCEPT ![u].ran = host.running,
                              ![u].doing = IF host.running THEN "stops" ELSE "removes"]
          /\ scope' = [scope EXCEPT ![u].named = TRUE,
                         ![u].pending = {[kind |-> "removed", id |-> op[u].target]} \cup
                           IF host.running THEN {[kind |-> "started", id |-> AnyId]} ELSE {}]
          /\ UNCHANGED <<wait, spoiled>>
     ELSE /\ ExpectHealth(u, op[u].target)
          /\ Doing(u, IF op[u].kind = "restart" THEN "stops" ELSE "starts")
          /\ UNCHANGED scope
  /\ UNCHANGED <<vars, dockerVars, order, readVars, faults, contested, gaveUp>>

Mine(u) == {x \in Ids : wait[x].for = u}

\* The work has succeeded: the wait is armed, the unit leaves, and the
\* outcome waits for the events that are still expected.
Succeed(u) ==
  /\ Callback /\ op[u].doing = "answered"
  /\ Leave(u) /\ Doing(u, "settles")
  /\ wait' = [x \in Ids |-> IF x \in Mine(u) THEN [wait[x] EXCEPT !.armed = TRUE] ELSE wait[x]]
  /\ UNCHANGED <<dockerVars, scopeVars, readVars, faults, history>>

\* endScope.
Finish(u) ==
  IF scope[u].pending = {} THEN Close(u)
  ELSE scope' = [scope EXCEPT ![u].finished = TRUE] /\ order' = order

\* It has failed: the wait is cancelled, and the outcome waits for nothing.
FailUncancelled(u) ==
  /\ Callback /\ op[u].doing = "turned down"
  /\ Leave(u) /\ Doing(u, "over") /\ Finish(u) /\ Request
  /\ UNCHANGED <<dockerVars, wait, faults, history>>
Fail(u) ==
  /\ Callback /\ op[u].doing = "turned down"
  /\ Leave(u) /\ Doing(u, "over") /\ Finish(u) /\ Request
  /\ wait' = [x \in Ids |-> IF x \in Mine(u) THEN NoWait ELSE wait[x]]
  /\ UNCHANGED <<dockerVars, faults, history>>

\* Everything expected has come, or three seconds are over.
Settle(u) ==
  /\ alive /\ op[u].doing = "settles" /\ (Callback \/ Due(u))
  /\ Doing(u, "over") /\ Finish(u) /\ Request
  /\ UNCHANGED <<vars, dockerVars, wait, faults, history>>

\* The grace window closes a scope that still expects something.
GraceEnds(u) ==
  /\ Callback /\ Open(u) /\ scope[u].finished
  /\ Close(u) /\ gaveUp' = gaveUp \cup {u}
  /\ UNCHANGED <<vars, dockerVars, op, wait, readVars, faults, contested, spoiled>>

-----------------------------------------------------------------------------
(* The recreation of the agent's own container, behind the gate.           *)

Parked == In("parked")

AskForHelper(u) ==
  /\ Callback /\ op[u].doing = "asks" /\ op[u].kind = "self"
  /\ ReplaceSelf(u) /\ Doing(u, "parked")
  /\ UNCHANGED <<dockerVars, scopeVars, wait, readVars, faults, history>>

Replies(what) ==
  /\ op' = [u \in Units |-> IF u \in Parked THEN [op[u] EXCEPT !.doing = what] ELSE op[u]]
  /\ UNCHANGED <<dockerVars, scopeVars, wait, readVars, faults, history>>

SelfUpdate ==
  \/ Callback /\ (Abandon \/ SpawnFails) /\ Replies("turned down")
  \/ Callback /\ Spawn /\ Replies("answered")
  \/ Callback /\ (HelperGivesUp \/ WaitRejected) /\ UNCHANGED rest
  \/ (HelperGivesUpUnseen \/ HelperStops) /\ UNCHANGED rest

Agent(u) ==
  \/ Inspected(u) \/ Succeed(u) \/ Fail(u) \/ Settle(u) \/ AskForHelper(u)

ScopesNext ==
  \/ \E u \in Units :
       \/ alive /\ (Docker(u) \/ DockerRefuses(u))
       \/ Begin(u) \/ Refused(u) \/ Agent(u) \/ GraceEnds(u)
  \/ alive /\ (Hand \/ HealthStatus)
  \/ BeginRead \/ ReadHost \/ ReadDone \/ Hear
  \/ \E n \in DOMAIN stream : Break(n)
  \/ SelfUpdate

\* The agent's callbacks run and the daemon answers a read; nothing makes it
\* answer an action's call. The helper's part is the gate's fairness.
ScopesSpec ==
  /\ ScopesInit /\ [][ScopesNext]_all
  /\ WF_all(asked /\ BeginRead) /\ WF_all(ReadHost) /\ WF_all(ReadDone) /\ WF_all(Hear)
  /\ \A u \in Units : WF_all(Agent(u))
  /\ WF_all(Callback /\ Abandon /\ Replies("turned down"))
  /\ WF_all(Callback /\ ((SpawnFails /\ Replies("turned down")) \/ (Spawn /\ Replies("answered"))))
  /\ WF_all(((Callback /\ HelperGivesUp) \/ HelperStops) /\ UNCHANGED rest)

-----------------------------------------------------------------------------
(* An operation that had the container to itself has exactly its own events *)
(* under its id, however late they come: none from before it began, none    *)
(* from after it, and none of its own is missing. Two things cost it some:  *)
(* a scope that gave up on an event, and the recreate of a stopped           *)
(* container, which does not expect the container.created it ends with.     *)
OwnSteps ==
  [][Hear => LET e == Head(stream) IN e.kind # "health" =>
       /\ Owner(e) \in Units \ contested => e.by = Owner(e)
       /\ /\ e.by \in Units \ (contested \cup gaveUp)
          /\ ~(e.kind = "created" /\ ~op[e.by].ran)
          => Owner(e) = e.by]_all

(* The first health status of a container goes to the operation that        *)
(* started it, long after its scope has closed, and however the events, the *)
(* answer of the start and the snapshots cross -- unless another operation   *)
(* waits for the same container, a status of the run before comes after the *)
(* wait began, or a snapshot shows the status before its event arrives.     *)
FirstHealthCredited ==
  [][Hear => LET e == Head(stream) IN
       e.first /\ e.by \in Units \ spoiled => Owner(e) = e.by]_all

(* No wait outlives what it waits for: it ends, with its start or with the  *)
(* status, lost events notwithstanding, or the container is still starting. *)
WaitsEnd ==
  <>[](\/ ~alive
       \/ \A x \in Ids :
            \/ wait[x].for = Nobody
            \/ op[wait[x].for].doing \in {"stops", "kills", "starts"}
            \/ host.id = x /\ host.running /\ host.status = "starting")
=============================================================================
