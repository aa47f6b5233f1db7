# A TLA+ model of the Docker instance manager

The Docker instance manager (DIM) is a server with a dashboard and one agent per
Docker host. The agent watches its Docker daemon, carries out actions, updates
containers on a schedule and replaces its own container; the server keeps what the
agents report, passes actions on and asks registries about newer images. Both are
TypeScript on Node's event loop: a callback runs to its end, and everything that
can interleave does so at an `await`, a timer, a frame or the end of a process.
The modules here model the parts in which that interleaving, and the faults around
it, decide whether the system is right.

Paths are relative to `src/`; `client/src` is the agent, `server/backend/src` the
server, `shared/src` what both use.

## Inventory

| Component | State | Operations and neighbours | What is hard | What makes it correct |
|---|---|---|---|---|
| Activity and update-history delivery (`AckQueue`, agent and server `ActivityService`, `UpdateHistoryService`, `ContainerUpdateService`) | queue in memory, its file, write and retry timer; rows of the server | push, flush, acknowledge, persistNow, load; batches and acks as frames | lost frames, crashes before the delayed write, failed inserts, pruned rows | nothing lost in silence, repeats tell nobody, the queue drains |
| Work gate (`WorkGate`) | state, active, parked, the pending promise, onIdle | tryEnter, leave, replaceSelf; called by actions, runs and prunes | joiners, the waiting time, a helper that fails or is lost sight of | no work is cut short, every caller is answered, the gate opens again |
| Self-update (`SelfUpdateService`, `SelfUpdateOutcome`) | two containers, the outcome file | the helper's steps and their undoing; agents report the outcome | a failing, lost or half-done Docker call, a dead helper, two agents reading one file | the host keeps an agent, the outcome is true and told once |
| Outbound connection (`ClientConnector`, `AgentSession`, `ProxyService.registerClient`, `Connection.handleIncoming`) | row, reconnect timer, registered socket, the agent's socket | add, connect, reconnect, address change, delete, restart | sockets with two ends that close apart, overlapping dials, timeouts | one session, the client is pursued, both ends agree, the link settles |
| Inbound connection (`Connection.connect`, `StateReporter`, `AgentSession`, `ProxyService`) | attempt promise, reconnect timer, socket, values last sent; registered socket, live status, stored state | connect, open, authenticate, send, close, back off | superseded sockets, frames of a replaced socket, values that changed while nothing was connected | one reconnect loop, the link settles, the server holds the agent's last word |
| Scheduled jobs (`ScheduledJob`, `SchedulerStateRepository`) | timer, running flag, stored row | start, stop, run, interval change, restart | a change during a run, a server that restarts often | runs an interval apart, never starved |
| Image update sweep (`registrySweep`, `ImageUpdateCheckSchedulerService`) | per registry: place to resume, pause, results | workers, rate limit, pause, restore | answers out of order, a limit that always hits the head of the list | each image once, no request after the limit, no image left out |
| Auto-update schedule (`AutoUpdateService`, `PolicyService`) | policy file, state file, planned tasks, queue of runs | start, plan, catch up, run, refuse, finish | crashes during and before runs, self-updates, changing policies | an owed run is kept and made up, interruptions are told |
| Docker actions (`ProxyService`, `DockerController`, `DockerService.executeAction`) | pending requests with timer and socket; work and outcome event of the agent | request, answer, timeout, close, file | answers later than the caller waits, sockets replaced, processes that end | nobody waits in vain, the answer is the outcome, every outcome is filed once |
| Snapshots (`SnapshotCoalescer`) and event stream (`EventCursor`, `DockerService.watch`) | running/again flags, stream, timer, missedEvents, second and keys seen, health | request, read, deliver; watch, handleEvent, rewatch; replays of the daemon | a change during a read, a broken stream, a daemon that restarts | the last state is delivered, each event is reported once |
| Update detection (`UpdateDetector`, `UpdateHistoryService`) | image memory in the process and on disk, announcements, queue of reports | observe, expect, reportFailure, the helper's outcome | recreates seen late or by another process, writes a second apart | the history tells one story, credited to who did it |
| Correlation scopes (agent `ActivityService`) | covered names and expectations of each open scope, health waits | beginScope, claims, observed, settled, finish; expectHealth, arm, cancel, reconcileHealth | events later than the operation, snapshots that cross them | events and health statuses credited to the right operation, no wait left behind |
| Webhooks (`WebhookService`) | one queue per webhook, in memory | dispatch, deliver with retries | the limit, a queue deleted as it runs empty | in order, each event tried |
| Dashboard (`WebSocketProvider`, the query cache, `readUnlessPushed`) | cached lists, requests under way | open, push, request, mark, clear | answers and pushes that cross, failed requests taken back, broken sockets | the page shows what is stored |
| Check results (`DockerStateRepository`) | one row per image and digest | sweep result, agent's report | a late report | the newest wins |
| Users, sessions, settings, projects, policies, status, storage, migrations, registry access | rows and files | request handlers | little: one synchronous step each | see `PROJECT.json` |

`PROJECT.json` lists every component with its sources and status, and under
`hazards` the places where each difficulty bites.

How they interact: the *link* carries the frames of *delivery*, *actions*, snapshots
and policies. Actions, auto-update runs and prunes are units of the *work gate*; the
*self-update* is what the gate guards. An action's outcome and a run's report are
entries of *delivery*. A *scheduled job* starts the *sweep* and the cleanups, whose
pruning makes a repeated entry new to *delivery* again. A new event goes to the
dashboards and the webhooks in one step (`Announcements` composes the two), an action
passes the gate, opens a scope and is settled by the events it caused (`ActionScopes`). The
*watcher* decides when a state is read; *inbound* and *outbound* link carry it, and
*update detection* compares it with its memory. Each module takes its
neighbours' effects, where no module composes them, as actions of its environment (the gate closes, the link breaks,
rows are purged), with no more restraint than the code gives them.

## Modules

| Module | Models |
|---|---|
| `AtLeastOnce` | abstract: an entry is owed until it is ruled on, and dropped only openly |
| `AckDelivery`, `MCAckDelivery`, `AckDeliveryProofs` | the agent's queue, the wire and the server's ingest |
| `ExclusiveHandover` | abstract: work and a hand-over exclude each other |
| `WorkGate`, `WorkGateProofs` | the gate |
| `SelfUpdate`, `SelfUpdateProofs` | helper, Docker, outcome file, agents |
| `OutboundLink`, `ServerProofs` | outbound mode, both ends of every socket |
| `ScheduledJob`, `ServerProofs` | the timer chains and the stored row |
| `RegistrySweep`, `MCRegistrySweep`, `ServerProofs` | the sweeps of all registries |
| `AutoUpdateSchedule`, `AgentProofs` | planned, missed, interrupted and refused runs |
| `ActionBroker`, `DashboardProofs` | a Docker action from its request to its outcome in the list |
| `ActionScopes`, `MCActionScopes` | composes the gate with an action's work, its scope and its health wait on the agent; its theorems are in `WorkGateProofs` |
| `HostWatch`, `AgentProofs` | the event stream, its replays, the snapshots and the daemon's reach |
| `AgentLink`, `AgentLinkProofs` | inbound mode and the states that travel over it |
| `UpdateHistory`, `UpdateHistoryProofs` | who updated a container: memory, announcements, failures |
| `DashboardFeed` | one page of the dashboard: its lists, requests and socket |
| `WebhookQueue` | the deliveries of one webhook |
| `Announcements` | composes the two: a new event goes to pages and webhooks; restarts; its theorems are in `DashboardProofs` |

One action is one callback of the event loop with everything it does up to its next
`await`; where a promise settles others in the same turn, their continuations belong
to the action. `map` in `PROJECT.json` names the lines of every definition.

### AckDelivery

Entries are numbered in the order they happen, so the queue is a set of numbers and
"the oldest go" is its smallest members. `Push`, `Retry` and `Connect` offer the
queue, `Ingest` and `IngestFails` are `handleBatch` (the entries nobody can read or
wants are acknowledged without a row), `Acknowledge` removes ids, `Write` is the
write a second later. `Shutdown` is `persistNow` of a process that goes on for a
moment, `Exit` and `Crash` its end, `Start` the next one, which reads the file at its
first use of the queue. `Age` moves the expiry of entries, `Purge` is the server's
cleanup of rows, `Break` takes the frames of both directions along. `ruled`,
`excused`, `told`, `wiped` and `stale` are history, read by properties only:
`excused` collects what the limit, the age or the end of a process took, and
nothing else.

The comment at `ActivityService.ts:28-29` ("a batch an agent offers twice reports
nothing twice") is true while the row exists; pruned between two offers, it is
inserted and told again. `ToldOncePerRow` says exactly that.

### WorkGate and ExclusiveHandover

A unit is `out`, `working` or `parked` in `replaceSelf`. `replaceSelf` that joins a
pending self-update does not call `checkIdle` (`WorkGate.ts:80`), which the model
keeps: the other party decides at the next `leave`, or the waiting time does. The
promise `exited` settles without the helper's end when `wait()` itself fails
(`SelfUpdateService.ts:115-118`, `WaitRejected`); the gate then reopens while a
helper is still running. The abstract specification has that as `LoseSight`, and a
`stray` helper that may end the process at any time; in every other case nothing at
work is cut short.

### SelfUpdate

`step` is the helper's next Docker call; each may be answered, refused, or carried
out with its answer lost. `old`, `new`, `name` are Docker's two containers and the
name of the old one, `file` the outcome file, `outcome` what the helper decided. The
old and the new agent run `reportSelfUpdateOutcome` beside the helper. Reporting and
removing the file are one step. Two things the code does differently from its
comments show in the conditions of the properties: a rename whose answer is lost is
not undone (`SelfUpdateService.ts:237` sets `renamed` after the call, while lines
167-168 promise the old name back), and an old container that can be neither stopped
nor removed is left running beside the new one (line 242 swallows the failure, lines
276-277 say "left behind stopped").

### OutboundLink

A socket has two ends with their own states, the AUTH and AUTH_SUCCESS frames on
their way (`hello`, `welcome`), and `cut` once the network lost it. Slots are used
again when both ends have closed. Faults and operator actions are drawn from
`FaultKinds` with one budget; `met` remembers which have occurred, and each property
names the ones that undo it:

* a socket closed plainly before AUTH schedules no reconnect
  (`ClientConnector.ts:390`), so that the client stays offline until the server restarts or
  somebody reconnects it, where the comment at `ClientController.ts:366-367` says of a dial
  "A failure schedules its own reconnect";
* an AUTH_SUCCESS handled on a closing socket replaces `wsInstance`
  (`Connection.ts:321`), so the agent may speak over nothing;
* a dial under way is not cancelled by an address change or a deletion
  (`ClientController.ts:231,360`): it connects to the old address, or registers a
  client that is gone. After an address change two dials can go on replacing each other.

### ScheduledJob

`chain` holds every chain of timeouts there is, `own` the one `this.timer` refers
to; `GoOn` is the end of the timer's callback, which schedules its successor
whatever has happened to the timer since. Times are ticks relative to now, capped at
the longest interval plus one. `Fire` begins the sweep or finds one under way; `PassOver` is a
timer that finds every registry paused and only goes on. `doubled` remembers an interval changed during a run
of the timer: the old callback schedules its own successor at `ScheduledJob.ts:154`
beside the timer `start()` has set, and two chains of timeouts run from then on, where
`docs/backend.md:234` promises a first run one interval after the last one started.

### RegistrySweep

Images are places in the registry's list; a sweep starts at the place it resumes
from and its workers take the next one while none has met the limit. One action is one
result of `check` and everything that worker does until its next call. `torn` names
the registries whose sweep a restart cut short: pauses and places to resume from are stored once
every registry is through (`ImageUpdateCheckSchedulerService.ts:291`).

### AutoUpdateSchedule

`state` is `state.json`, `policy` is `policy.json`; a date is ahead or past. A run
goes through the queue, the jitter and the gate. `Apply` is a push of the policy, which the
server repeats on every connect, changed or not; it comes at any time, over a run and over what is
owed too, and so do `Crash`, `GateCloses` and `Replaced`: while a missed run waits in the
delay, the queue or the jitter as much as elsewhere. History is
`owed`, what the clock or a run that was begun made due; `note`, whether `state.json` still says so
("kept"), or planning has put a coming date over it ("covered"), or the memory that knew of
it is gone as well ("lost"); `ended`, how the last run of a schedule ended; and `leftOut`, the
schedules a policy left out while their run was under way. What the model shows of the code:

* the mark of an owed run is overwritten when the agent starts, before the delay of five to ten
  minutes (`AutoUpdateService.ts:228,400` against 416). An agent that ends before the run has begun, or
  refuses it while it replaces itself, forgets it, where the comment at 368-371 says
  "It is made up **once**" and `docs/client.md:369-373` "Missed runs are made up";
* a policy push does the same to the passed date of a refused run (`AutoUpdateService.ts:301`
  against 445-447), which the agent that comes back was to make up;
* a schedule that is left out under its run loses its entry: an end of the process during the
  run is then told by nobody; and when the run ends by itself, it writes the entry anew
  (463), for a schedule there is none of.

`OwedIsKept` and `OwedIsMadeUp` except the first two and nothing else (`note` = "lost");
`InterruptionsTold` the third (`leftOut`).

### ActionBroker

Every session is a new socket with two ends. `request` is the caller, `via` the socket
its action went out on, `work` what the agent does, `event` the outcome event on its
way into the list, `filed` what the list says. The handshake of a session is one
step here; `OutboundLink` takes it apart. An action whose agent ends before its
outcome is written stays *unconfirmed* for good, which `docs/api.md:697` ("the agent
reports how it ended once it is reconnected") does not say; `OutcomeFiled` excepts it.
`AnswerIsTheOutcome` has two parts, what callers are told and what the list says.

### ActionScopes

`EXTENDS WorkGate`: its units are actions, and its steps are part of theirs (`Begin`
enters the gate, `Succeed` and `Fail` leave it, `AskForHelper` calls `replaceSelf`). `op` is
the action with the Docker call it waits for, `scope` and `order` are
`ActivityService.scopes`, `wait` is `healthWaits`, `reading` the snapshot under way with its
mark. `Armed` stands for the numbers of `healthSeq`: a wait's number is at most a
snapshot's mark just when it was armed as the snapshot began. Docker files each event with what
its time is compared with, the scopes and waits there were; the `stream` hands them over any
time later, or a break loses them. There is one container with a healthcheck, whose
recreation gives it a new id, and the agent's own. `by` of an event, `first` and the history
variables say whose it really is. The exceptions are what the code does:

* two operations on the container at once, or somebody else at it, share its events: the
  oldest open scope gets them (`contested`);
* a scope gives up 15 seconds after its operation ended, and events later than that are
  nobody's (`gaveUp`);
* a recreate of a stopped container expects only the removal
  (`DockerService.ts:541-542`), so its `container.created` may come after its scope has closed;
* a failed operation's scope lives on for those 15 seconds, and takes the events of a retry
  on the same container, whose own outcome then waits its three seconds in vain (`contested`);
* a second start's wait displaces the first's, and when it fails, cancels the one wait there
  is; a status of the run before a restart ends the restart's wait; and a snapshot that shows the
  status before its event arrives drops the wait (`spoiled`).

### HostWatch

Each change of the host is an event with a number, in the order the daemon files
them, and a second, which may be the one before: events are overtaken. `pipes` holds the
callbacks still to come of every stream opened so far, so a stream that was given up can
still deliver (`Callback` ignores it, as `this.eventStream !== stream` does). `Blip`
raises an error and then the end, `Down` is a restart of the daemon, which forgets its
ring. `reads` are the coalescer's reads; a read may be overtaken by a change after the
daemon answered its list. Two exceptions are the code's: a read that fails on its own is
not repeated (`lone`), and what changes while the *first* stream is being opened
raises no event and no further read (`gap`), although the comment at
`DockerService.ts:424-427` speaks of whatever changed while nobody was listening. An
event stamped before the second the cursor was begun with, or fallen out of the
daemon's ring, cannot be had (`excused`, `start`).

### AgentLink

The agent dials; `connecting` is the promise of an attempt, `wsInstance` its socket,
`timer` the next attempt. `ConnectFrom` is `connect()`, called by the timer, the
status page and the start of the process. The two channels are one that is deduplicated
(`AGENT_STATUS`) and one that is not (`DOCKER_UPDATE`). `ServerFrame` files a frame for
the client whichever socket it came over (`ProxyService.ts:268,296`): a frame of a socket
that has been replaced counts as new. `overtaken` names the channels where that was the
last frame; `LastWordHeld` excepts them until the next value.

### UpdateHistory

One container name, because `detectUpdates` treats each on its own. `host` is what
runs under it, `read` a state on its way, `mem` and `disk` what is remembered, `log` the
reports. Containers are changed by others (`Replace`, `Remove`), by an operation of the agent
(`Announce`, `RemoveOld`, `CreateNew` and their failures) and, where the container
is the agent's own, by the helper (`Park` to `RollBack`). `truth` in a report is whose doing it
was, `by` what it says. Where the history is not what happened:

* two changes between two states are one update, and nobody can tell whose (`blurred`);
* an announcement that outlives its operation - abandoned at the gate, cut off with
  its process, kept after a failed self-update - takes the next change within the
  hour for its own (`Stray`);
* the change back after a failed self-update is credited to nobody, although
  `UpdateDetector.ts:203-205` keeps the announcement for it: the update to the
  new image has used it up (`back`);
* a failed pull drops the announcement of another operation on the same container;
* some failed attempts are told by nobody (`untold`), though `UpdateHistoryService.ts:39-40` says
  that an update that failed "is reported where it failed": a pull after which the state
  cannot be read, which is only logged (`DockerService.ts:636`); a container that cannot be inspected (522) and
  a state that cannot be read after the pull (594) (`FailsUnseen`); a self-update abandoned at the gate,
  or whose helper cannot be started (`Abandoned`); and an operation its process ends with (`CutsShort`);
* a process killed in the second before the queue is written loses its reports while the
  memory already says they were made (`lost`).

### DashboardFeed, WebhookQueue, Announcements

`list` and `updates` are two entries of the query cache with the two ways a list is
kept current: pushed whole on every connect and then by differences, or read once and
then by differences. `get` and `getUpdates` are the requests that read them, `pushed` says the
socket wrote the entry in the meantime, which is what `readUnlessPushed` compares. `mark`
and `clear` change the page first and are taken back if they fail. What the page can get
wrong is named by two flags: `undone`, a failed mark or clear taken back over something
newer -- a frame, or a marking that had failed before: the copy a clear keeps is not told of that and
brings the row back as seen (`activity.ts:55,76`), and `behind`, an update of the history that nothing makes
up for: told while an older answer was under way, stored between the first answer and the first connect
(`WebSocketProvider.tsx:78-79` holds that there is nothing to make up for), joined to a request under way
(lines 146-148 say it is asked again), or missed because the request after a reconnect failed.

A webhook's `chains` are the promise chains that may run for it; the map holds at most
one (`queue`). `Attempt` is one request with its answer; `Finish` is the `finally` that
deletes the queue when it has run empty. `Announcements` joins the two: `Announce` is
`broadcastAppended`, `ServerRestart` the end of the server.

## Runs

| Run | Bounds | States | Shows |
|---|---|---|---|
| `ack` | 3 entries (one unreadable, one switched off), limit 2, 2 faults of six kinds, 2 frames each way | 820 000 | at-least-once: `NothingVanishes`, `ToldOncePerRow`, refinement of `AtLeastOnce`, `QueueDrains` |
| `actions` | 3 units in six casts, 2 helpers, 2 events under way, 1 fault of three kinds | 243 000 | `OwnSteps`, `FirstHealthCredited`, `WaitsEnd`, refinement of `ExclusiveHandover`, `AlwaysAnswered` |
| `selfupdate` | 4 faults of six kinds | 4 400 | `OneAgent`, `OutcomeTrue`, `OutcomeReported` |
| `link` | 2 addresses, 3 sockets, 2 of nine faults and operator actions | 290 000 | `OneSession`, `NeverForgotten`, `AgentSpeaks`, `SettlesDown` |
| `sync` | 2 sockets at once, 1 change of each channel, 3 faults of eight kinds | 1 840 000 | `OneLoop`, `LinkSettles`, `LastWordHeld` |
| `watch` | 3 events over 2 seconds, a ring of 2, 2 faults of four kinds | 2 200 000 | `EventsToldOnce`, `EventsTold`, `LastWordStands` |
| `history` | 2 images, 3 containers, 2 operations, 2 faults of five kinds | 2 300 000 | `HistoryChains`, `CreditedRight`, `HostTold`, `AttemptsTold` |
| `announce` | 4 events in batches of 2, an update, 1 fault of four kinds, 1 click, 3 deliveries pending, 2 attempts | 890 000 | `ShowsWhatIsStored`, `InOrder`, `EveryEventTried` |
| `job` | intervals off, 2 and 3, 3 chains, 4 kinds of interference | 36 000 | `SpacedOut`, `KeepsRunning` |
| `sweep` | 4 images and 1, 2 at a time, restarts, exceptions | 61 000 | `EachInItsTurn`, `EveryImageAnswered` |
| `auto` | 2 schedules, 2 expressions, a chain of 2, 2 upsets, pushes without bound | 900 000 | `OwedIsKept`, `InterruptionsTold`, `OnlyTheCurrentPlan`, `OwedIsMadeUp` |
| `broker` | 2 actions, 3 sockets, all kinds | 640 000 | `NoneWaitsOnClosed`, `AnswerIsTheOutcome`, `OutcomeFiled` |

Why the bounds are enough. Two faults let one strike while the code recovers from
another; a limit below the number of entries makes the queue overflow; three sockets
allow a replaced, a current and a dialling one at once; three units let one ask for a self-update,
one join it and one work, or two meet on the container; with two events under way an operation ends
before its own have come; three chains are one more than the code can produce by a single interval change
during a run; two upsets let the agent end, or close its gate, and do so again while it makes up
the run it missed; four images with two workers let an earlier
image be refused after a later one was answered. Three events over two seconds let one be
overtaken, one fall out of a ring of two and one be replayed; three containers let an update be followed by another
or by its own change back; two batches and an update are pushed before, during and
after a request of the page. Safety over larger bounds is what the theorems are for.

`CHECK_DEADLOCK FALSE` stands where the system may really stop: everything delivered
(`ack`), every action over or the process replaced (`actions`), the update over (`selfupdate`), the link
settled (`link`, `sync`), every outcome filed (`broker`), a quiet host (`watch`), a helper that took the
last agent with it (`history`), everything read and delivered (`announce`).

### Fairness

Weak fairness stands for: a timer that is set fires; a frame on an unbroken socket
arrives, and a broken socket raises its close event; a callback that is due runs; a
process the supervisor restarts comes up (`restart: unless-stopped`). Faults, users and
the clock's choices have none. In particular:

* `ack`: the timers, frames, reconnect and start; failures of the insert are bounded by the fault budget.
* `actions`: the agent's callbacks, a snapshot that was asked for, the events under way; the waiting
  time, the spawn and the end of the helper. Docker need not answer a call, so units need not ever leave.
* `selfupdate`: Docker answers, the helper's verification has a deadline, the agents' five-second timer fires.
* `link`: timers, dials answered or cut, close events. `GiveUpDial` is only fair once the connection is cut.
* `job`: time passes, the server comes back after a shutdown or crash, a begun run ends. A due
  timer has *strong* fairness, because crashes and manual runs may disable it again and again,
  and a server that always ended in the instant before its timer would refute any such scheduler;
  it says too that the registries are not all paused every time the timer fires.
* `sweep`: the scheduler begins the next sweep, pauses end, a request comes back with some
  result; strong fairness of `Answers` says a registry does not refuse one image for ever while it answers others.
* `auto`: the process starts, the delay and the jitter end, a run reaches the gate and finishes. Pushes
  and further dates owe nothing.
* `broker`: the agent reconnects, close events come, events waiting are filed. Neither work nor answers need ever come.
* `sync`: the reconnect timer, frames and close events; a timeout is only fair on a broken connection.
* `watch`: the daemon comes back, streams and reads are answered, callbacks run, the ten-second timer fires.
* `history`: states are read and compared, the agent is started again, what it or the helper has begun goes on or fails.
* `announce`: a request of a webhook comes to an end (it has a time limit). The page owes nothing.

### Conditions in properties

Some properties name the faults under which they do not hold (`met`, `doubled`,
`torn`, `stale`, `contested`, `gaveUp`, `spoiled`, `lone`, `gap`, `overtaken`, `blurred`,
`lost`, `forgot`, `untold`, `note`, `leftOut`, `undone`, `behind`). Each exception is the behaviour of the code
described above, not an omission of the model: the faults still happen in the run, and what they undo is
stated by the exception alone. Where a hazard's own bad case is what the code does, the
property cannot claim that it does not happen; its entry under `hazards` says so, and the property
says that this is the only case.

## Proofs

TLAPS proves the theorems below for every value of the constants that satisfies the
named assumptions.

* `AckDeliveryProofs`. Types (`TypeCorrect`), `NothingVanishes` (`Accounted`),
  `ToldOncePerRow` (`RepeatsTellNobody`), the armed retry `RetryCoversQueue` (`RetryAlwaysArmed`),
  `AcksRuled` (`NeverAckedUnruled`), `QueueBounded` (`Bounded`), `DiskFollows`
  (`DiskNeverForgets`) and the refinement of `AtLeastOnce` (`Implements`). The
  inductive invariant is `WireInv`: types, whoever owes a write, holds an open socket or has an
  ack to read has loaded its queue (`LoadedFirst`), batches on the wire hold pushed entries only
  (`OffersPushed`), acks on the wire name only what was ruled on (`AcksRuled`). Without
  the last, an acknowledgement could remove an entry nobody has ruled on, and
  the refinement's `Release` would not be enabled.
* `WorkGateProofs`. Types, exact counters (`Counted`), `GateFollowsUpdate`
  (`Follows`) and the refinement of `ExclusiveHandover` (`HandsOver`). The counters are
  needed because the code decides by `active <= parked`, and only their exactness turns
  that into "no unit is at work" (`Exclusive`); `WatchedRuns` ties the promise to the
  helper it stands for.
* `ServerProofs`, of `OutboundLink`. Types, `OneSession` (`SpeaksForOne`), `RegisteredEnds`
  (`EndsBeforeClose`), `NeverForgotten` (`ForgetsNobody`) and `AgentSpeaks`
  (`SpeaksOverSession`). The first inductive invariant adds that a socket being dialled is fresh
  (`DialsFresh`): a recycled slot must not look authenticated. The second, `Deep`, says how
  a socket can have come to be closed before AUTH (`Handshakes`), that the dial of
  `firstConnect` is over before there is a row to pursue (`FirstOnce`, `BeforeRow`), and that
  without overlapping handshakes the welcomed socket is the only attempt there is
  (`OneAttempt`, `CurrentIsOpen`).
* `ServerProofs`, of `ScheduledJob`: `SpacedOut` (`RunsSpacedOut`), for every set of intervals and any
  number of chains. `JobInv` says that a run begins alone and its beginning is noted (`OneRun`),
  that what the row notes is no older than the timer's own last run (`Dated`), and that unless
  the interval was changed during a run there is one chain, the one `this.timer` refers to, and what
  is left of its wait and what has passed make up the interval (`OneChain`). `Dated` carries the
  last across restarts, where only the row is left.
* `ServerProofs`, of `RegistrySweep`: `EachInItsTurn` (`EachImageInItsTurn`), for any registries, sizes and
  number of workers. `SweepInv` numbers the images from where the sweep begins (`Spot`):
  those the workers have taken are being asked about or have an outcome, the others have none (`InTurn`),
  and when a registry is done nothing that was skipped lies before the resume point (`Settled`).
  A lemma for the rotation (`Rotation`) replaces the remainder by its two cases.
* `AgentLinkProofs`. Types, `OneLoop` (`RunsOneLoop`), and beside it what the server promises an
  agent that dials: `OneSession` and `AuthFirst`. `Loop` says which socket is the one that
  is alive: the one `wsInstance` refers to, and while it dials the one whose attempt is not settled.
* `SelfUpdateProofs`. `OneAgent` (`KeepsOneAgent`) and `OutcomeTrue` (`ReportsTheTruth`). `Knows`
  ties the helper's variables to what Docker did while no answer was lost, `InTurn` has the old
  container down before the new one is up while no call failed, `ProvenFirst` has the old one
  removed only after the verification, and `ToldOnce` follows the outcome from the decision to the report.
* `AgentProofs`, of `AutoUpdateSchedule`: `OnlyTheCurrentPlan` (`OnlyThePresentPlan`), `InterruptionsTold`
  (`TellsTheInterrupted`) and `OwedIsKept` (`KeepsWhatIsOwed`), for any schedules, expressions, pushes
  and upsets, without a premise. `Base` says what only a process that is up can have, and that a
  stored date that has passed under the expression in force is owed. `StartedIsUnderWay` ties the mark
  of a run that began to the run under way or to how it ended, which is all `InterruptionsTold` reads. `Kept` needs both: what is
  owed and "kept" is in the file, and in the chain as well unless it was refused; what is "covered" is on its
  way while the process lives.
* `AgentProofs`, of `HostWatch`: `EventsToldOnce` (`TellsOnce`), for any numbers of events, seconds, streams and
  faults. The cursor knows the last second and what was seen in it, so an event is told
  twice only if something moves the cursor past its second, or back, before it is replayed.
  `WatchInv` rules that out in three steps: what was told lies behind the cursor (`ToldIsSeen`); nothing
  the daemon filed before it and can still replay lies ahead of the cursor (`NoneAhead`), as what lies ahead is on
  the stream that is listened to, in front of anything later (`AheadIsOnItsWay`); and an event that is replayed
  after it was told is at the cursor when its turn comes (`ReplayedIsSeen`). All three need that a stream
  carries events in the daemon's order (`Ordered`), whence `RankedInOrder`
  about `Replay`, which takes the i-th event by its rank and not by sorting: no recursion is left to prove about.
* `UpdateHistoryProofs`. `HistoryChains` (`TellsOneStory`) and `CreditedRight`
  (`CreditsTheCause`). A number of a container stands for one image wherever it is noted
  (`Numbered`); every update begins where the one before it ended (`Story`); and whatever is still to be seen is
  what is remembered, what a helper put back, or the work of the one announced (`Credit`), for which an
  announcement has to hold until its container is seen (`Awaited`, `UnderWay`).
* `DashboardProofs`, of `ActionBroker`: `NoneWaitsOnClosed`, `AnswerIsTheOutcome`, `OpenIsConnected`
  and `SettlesOnce`. `Links` says that a waiting request's socket is still to close
  and that the open one is in the map; `Course` ties requests and answers on the wire, and
  outcomes waiting to be filed, to the work they stand for.
* `DashboardProofs`, of `Announcements`: `ShowsWhatIsStored` (`ShownAsStored`) and `InOrder`
  (`SeenInOrder`), from `SizesAssumption` alone. A connected page always has what makes its list the
  stored one on its way (`FollowsList`): either a whole list is in the pipe and the frames behind it
  complete it (`Renewed`), or the frames complete the list on screen -- the one that comes
  back, while a clear may fail -- up to a marking that may fail too (`Lined`). For a marking to find its
  rows the frames have to be in order (`Orderly`): an event is told of before it is told seen.
  `ListBasics` keeps an older answer from being taken over a list that came by socket.
  `FollowsHistory` says the same of the update history, as long as the page is on the
  connection it reads by (`Followed`) and not `behind`. `Queued` has the map hold just the chain that
  has deliveries (two chains side by side would repeat an event after a later one) and
  every delivery lie between the last tried and the last announced.

The attempt to prove `ShowsWhatIsStored` showed the model too forgiving: with one click and one fault TLC
had not come across a mark and a clear that both fail. `undone` now covers that, and the
larger instance (3 clicks, 3 faults, without the liveness property) holds as well.

`WorkGateProofs` also proves that the actions of `ActionScopes`, with their scopes and waits, pass the gate as
`WorkGate` has it (`ActionsPassTheGate`), so that the hand-over holds among them (`ActionsHandOver`).
On top of it stand `OwnSteps` (`EventsPutDownRight`) and `FirstHealthCredited` (`HealthCreditedRight`), with
one inductive invariant of three parts (`ScopesInvariant`). `Stages` says how far an action of each kind can be and
that its scope is open as long as it is at work; with it goes that no action creates two containers
(`Made`), without which ids would run out. `Health` follows each first status from the start
that causes it: the wait for it is taken out before the start (`Awaits`), is still there when the
status is filed (`Waiting`) and until it is heard (`Status`), and no snapshot that may judge it has
seen anything but a starting container. `Own` ties each event to the operation that caused it
(`Cause`): every scope that was open when it was filed is that operation's or shared the
container with it, and as long as such an event is under way the scope that has to gather it covers it
and still awaits its last event (`Held`), which is the last of its operation in the stream
(`Causes`); that a scope covers the container and awaits that event in time is `Covers` and `Expects`.

Only model-checked: the liveness properties (fairness and ENABLED are outside the
prover's reach). Every safety property of the runs is proved.

## Not modelled

* Content: what entries, states and policies say, which containers a run selects, how
  a registry's answer is judged. The conversions are synchronous and have unit tests.
* Scopes of auto-update runs, image actions and prunes, which span several containers; events
  matched by an image reference; `outcomeTime`, which sorts the outcome after its events.
* Check results: which of an agent's report and the server's own sweep is kept
  (`DockerStateRepository.ts:326`): next in the plan.
* What the retention removes on the server and tells no page; a push and an answer in the same
  millisecond, which `readUnlessPushed` cannot tell apart; pages beyond one and webhooks beyond one,
  which share nothing; templates and filters of webhooks.
* Image references that name an id, digests and versions in the update history.
* Failures of SQLite other than the insert of a batch; a handler of an answer that
  throws inside a sweep (`registrySweep.ts:93` rejects the whole sweep while other workers go on).
* A process that ends between `setIdentity`, PIN or configuration writes: single files, replaced atomically.
* The agent's end between the helper's start and the pending outcome file: the update then goes unreported.
* The components that draw the dashboard, the web pages of the agent, logging, and wording.

## Plan

Done: delivery, gate, self-update, both links, scheduled jobs, sweep, auto-update
schedule, actions and their scopes, snapshots and event stream, update history, dashboard and webhooks, in
the order of what a mistake would cost.

1. `CheckResults`: an agent's late report beside the server's own sweep, whose answers carry the
   time the sweep began (`ImageUpdateCheckSchedulerService.ts:159`) and not that of the asking.
2. Algorithms as operators with reference definitions: `AutoUpdateRules`,
   `projectQuery`, `requestedExits`.
