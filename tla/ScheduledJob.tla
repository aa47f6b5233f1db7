---------------------------- MODULE ScheduledJob ----------------------------
(***************************************************************************)
(* The timer and the bookkeeping of one server scheduler (ScheduledJob),   *)
(* as the image update check uses it: its runs take long, and one that     *)
(* finds another under way does nothing. The two cleanup schedulers run    *)
(* the same code with runs that end in the callback they began in.         *)
(*                                                                         *)
(* A chain is one setTimeout and what its callback goes on to set up:      *)
(* waiting, running (inside `await runScheduled()`), or idle. `own` is the *)
(* chain of this.timer, the only one stop() can clear. Times are kept      *)
(* relative to the present, in ticks: how long ago something was, or how   *)
(* much is left; what lies further back than the longest interval counts   *)
(* as that long ago. A timeout that is due fires before time goes on.      *)
(***************************************************************************)
EXTENDS Naturals

CONSTANTS
  Intervals,         \* what the interval may be set to, 0 for "off"
  Chains,            \* room for chains
  Kinds,             \* what may interfere: "change", "manual", "crash", "shutdown"
  NoChain

ASSUME IntervalsAssumption ==
  Intervals \subseteq Nat /\ \E i \in Intervals : i > 0 /\ \A j \in Intervals : j <= i

ASSUME ChainAssumption == NoChain \notin Chains

Longest == CHOOSE i \in Intervals : \A j \in Intervals : j <= i
Never == Longest + 1

VARIABLES
  process,    \* "up", "stopping" (shutdown() was called) or "down"
  interval,   \* the interval in the settings
  chain,      \* state of each chain, and what is left of its wait
  own,        \* the chain whose timeout this.timer holds
  manual,     \* a run the user asked for is under way
  since,      \* running_since: how long ago, or Never
  last,       \* last_started_at: how long ago, or Never
  planned,    \* next_run_at: what is left, or Never
  rest,       \* how long ago the timer last began a run
  doubled     \* history: the interval was changed during a run of the timer,
              \* since the server started

jobVars == <<process, interval, chain, own, manual, since, last, planned, rest, doubled>>

Idle == [state |-> "idle", left |-> 0]
Waiting(left) == [state |-> "waiting", left |-> left]
InRun == [state |-> "running", left |-> 0]

Alive == process # "down"
Running == manual \/ \E c \in Chains : chain[c].state = "running"

FirstIgnoresPlan(i, began) ==
  IF began # Never THEN IF i > began THEN i - began ELSE 0 ELSE i

\* What is left until the first run of start(): one interval after the last
\* run began, else the run that was planned, but never further away than one
\* interval.
First(i, began) ==
  IF began # Never THEN IF i > began THEN i - began ELSE 0
  ELSE IF planned <= i THEN planned
  ELSE i

JobInit ==
  /\ process = "down" /\ interval \in Intervals
  /\ chain = [c \in Chains |-> Idle] /\ own = NoChain /\ manual = FALSE
  /\ since = Never /\ last = Never /\ planned = Never
  /\ rest = Longest /\ doubled = FALSE

-----------------------------------------------------------------------------
Stop(ch) ==
  IF own # NoChain /\ ch[own].state = "waiting" THEN [ch EXCEPT ![own] = Idle] ELSE ch

\* start(): the timer that was is cleared, and one is set from interval i.
Start(i, began) ==
  IF i = 0
    THEN /\ chain' = Stop(chain) /\ own' = NoChain /\ planned' = Never
    ELSE \E c \in Chains :
           /\ Stop(chain)[c] = Idle
           /\ chain' = [Stop(chain) EXCEPT ![c] = Waiting(First(i, began))]
           /\ own' = c
           /\ planned' = First(i, began)

\* The end of the timer's callback: the chain goes on after one interval of
\* the settings as they are now, or ends.
GoOn(c) ==
  /\ chain' = [chain EXCEPT ![c] = IF interval > 0 THEN Waiting(interval) ELSE Idle]
  /\ own' = IF interval > 0 THEN c ELSE own
  /\ planned' = IF interval > 0 THEN interval ELSE Never

BootForgetsRun ==
  /\ process = "down" /\ process' = "up"
  /\ since' = Never
  /\ Start(interval, last)
  /\ UNCHANGED <<interval, last, manual, rest, doubled>>

\* The server starts: a run left in progress becomes the last run
\* (markInterrupted), then the scheduler is started.
Boot ==
  /\ process = "down" /\ process' = "up"
  /\ last' = IF since # Never THEN since ELSE last
  /\ since' = Never
  /\ Start(interval, last')
  /\ UNCHANGED <<interval, manual, rest, doubled>>

\* The timeout of chain c fires: a run begins, unless one is under way.
Fire(c) ==
  /\ Alive /\ chain[c] = Waiting(0)
  /\ IF Running
       THEN GoOn(c) /\ UNCHANGED <<since, rest>>
       ELSE /\ chain' = [chain EXCEPT ![c] = InRun]
            /\ since' = 0 /\ rest' = 0
            /\ UNCHANGED <<own, planned>>
  /\ UNCHANGED <<process, interval, manual, last, doubled>>

\* It fires while a rate limit has every registry paused: no run takes place.
PassOver(c) ==
  /\ Alive /\ chain[c] = Waiting(0) /\ ~Running
  /\ GoOn(c)
  /\ UNCHANGED <<process, interval, manual, since, last, rest, doubled>>

\* markFinished, whether the run succeeded or threw.
Finish(c) ==
  /\ Alive /\ chain[c].state = "running"
  /\ last' = since /\ since' = Never
  /\ GoOn(c)
  /\ UNCHANGED <<process, interval, manual, rest, doubled>>

RunByHand ==
  /\ "manual" \in Kinds /\ process = "up" /\ ~Running
  /\ manual' = TRUE /\ since' = 0
  /\ UNCHANGED <<process, interval, chain, own, last, planned, rest, doubled>>

FinishByHand ==
  /\ Alive /\ manual
  /\ manual' = FALSE /\ last' = since /\ since' = Never
  /\ UNCHANGED <<process, interval, chain, own, planned, rest, doubled>>

\* updateSettings: the setting is stored, and the scheduler restarted.
ChangeInterval(i) ==
  /\ "change" \in Kinds /\ process = "up" /\ i # interval
  /\ interval' = i
  /\ Start(i, last)
  /\ doubled' = (doubled \/ \E c \in Chains : chain[c].state = "running")
  /\ UNCHANGED <<process, manual, since, last, rest>>

Shutdown ==
  /\ "shutdown" \in Kinds /\ process = "up"
  /\ process' = "stopping"
  /\ chain' = Stop(chain) /\ own' = NoChain
  /\ UNCHANGED <<interval, manual, since, last, planned, rest, doubled>>

\* The process ends, after shutdown() or without.
Exit ==
  /\ process = "stopping" \/ (process = "up" /\ "crash" \in Kinds)
  /\ process' = "down"
  /\ chain' = [c \in Chains |-> Idle] /\ own' = NoChain /\ manual' = FALSE
  /\ doubled' = FALSE
  /\ UNCHANGED <<interval, since, last, planned, rest>>

Aged(t) == IF t = Never THEN Never ELSE IF t < Longest THEN t + 1 ELSE t
Nearer(t) == IF t = Never THEN Never ELSE IF t > 0 THEN t - 1 ELSE 0

Tick ==
  /\ Alive => \A c \in Chains : chain[c] # Waiting(0)
  /\ chain' = [c \in Chains |-> [chain[c] EXCEPT !.left = Nearer(@)]]
  /\ since' = Aged(since) /\ last' = Aged(last) /\ rest' = Aged(rest)
  /\ planned' = Nearer(planned)
  /\ UNCHANGED <<process, interval, own, manual, doubled>>

JobNext ==
  \/ Boot \/ RunByHand \/ FinishByHand \/ Shutdown \/ Exit \/ Tick
  \/ \E c \in Chains : Fire(c) \/ PassOver(c) \/ Finish(c)
  \/ \E i \in Intervals : ChangeInterval(i)

JobSpec == JobInit /\ [][JobNext]_jobVars

\* Time passes, runs end, a shutdown comes to its end (after five seconds at
\* the latest), the supervisor starts the server again, and a
\* server that is restarted over and over gets to its due timeouts now and
\* then: it is not stopped before them every single time. Nor are all the
\* registries paused whenever a run is due: a pause ends.
JobFairness ==
  /\ WF_jobVars(Tick) /\ WF_jobVars(Boot) /\ WF_jobVars(process = "stopping" /\ Exit)
  /\ WF_jobVars(FinishByHand)
  /\ \A c \in Chains : SF_jobVars(Fire(c)) /\ WF_jobVars(Finish(c))

JobFairSpec == JobSpec /\ JobFairness

-----------------------------------------------------------------------------
(* Properties *)

\* Two runs of the timer begin at least one interval apart, restarts and
\* changes of the interval included, unless the interval was changed during a
\* run of the timer since the server started.
SpacedOut ==
  [][\A c \in Chains : Fire(c) /\ ~Running => rest >= interval \/ doubled]_jobVars

\* A server that is restarted more often than the interval still runs its
\* scheduler: a restart does not keep pushing the next run away
\* (ScheduledJob: "without it a server restarted more often than the interval
\* would never run it"). A run the user asks for counts as one.
KeepsRunning == <>[](interval > 0) => []<>(rest = 0 \/ since = 0)
=============================================================================
