------------------------- MODULE AutoUpdateSchedule -------------------------
(***************************************************************************)
(* The schedules of one agent's auto-update (AutoUpdateService): the cron  *)
(* tasks planned from the policy, the chain the runs queue up in, the work *)
(* gate a run enters, what state.json remembers of each schedule, and what *)
(* an agent that starts makes up from it.                                  *)
(*                                                                         *)
(* state.json is written in the callback that changes it, so one variable  *)
(* stands for the file and the memory; policy.json likewise. Times are     *)
(* reduced to what is read from them: the stored next run lies ahead or in *)
(* the past. A run's registry questions, pulls and recreates are its time  *)
(* in the phase "working", after which it ends, failed or not; recreating  *)
(* the agent's own container ends the process instead.                     *)
(***************************************************************************)
EXTENDS Naturals, Sequences, SequencesExt

CONSTANTS
  Keys,        \* the host schedule and those of the projects
  Crons,       \* cron expressions
  Off,         \* no schedule
  Absent,      \* no entry in state.json
  MaxQueue,    \* bound: a chain this long takes no further run from the clock or the user
  MaxUpsets    \* bound on how often the gate closes or the process ends

ASSUME OffAssumption == Off \notin Crons
ASSUME KeysAssumption == IsFiniteSet(Keys)

VARIABLES
  up,        \* the agent runs
  policy,    \* the expression of each schedule, as the policy has it
  state,     \* what state.json remembers of each schedule
  catchup,   \* what catchUpMissedRuns makes up once its delay is over
  queue,     \* the chain: the first run is the one under way
  phase,     \* how far it is: "idle", "jitter", "working", or "replacing" the agent itself
  gate,      \* the work gate: "open", or "closed" for a self-update
  owed,      \* ghost: a date of the plan has passed, or a run begun, without a run ended
  note,      \* ghost: what state.json had of it is "kept", or "covered" by a coming
             \* date, or "lost" as well with the process or the run that knew of it
  ended,     \* ghost: the scheduled run was "refused", or the process ended under
             \* one: "cut" or "self"
  leftOut,   \* ghost: schedules a plan left out while a run of theirs was under way
  upsets     \* how often the gate has closed or the process ended

vars == <<up, policy, state, catchup, queue, phase, gate, owed, note, ended, leftOut,
          upsets>>

Entries ==
  [cron : Crons \cup {Off}, next : {"none", "ahead", "past"},
   started : BOOLEAN, self : BOOLEAN]

ASSUME AbsentAssumption == Absent \notin Entries

NewEntry == [cron |-> Off, next |-> "none", started |-> FALSE, self |-> FALSE]

Entry(k) == IF state[k] = Absent THEN NewEntry ELSE state[k]

\* The schedules of policy p: cron tasks while the agent is up.
Planned(p) == {k \in Keys : p[k] # Off}

QueuedFor(k) == \E i \in 1 .. Len(queue) : queue[i].key = k

OnItsWay(k) == QueuedFor(k) \/ \E c \in catchup : c.key = k

AtWork == phase \in {"working", "replacing"}

UnderWay(k) == AtWork /\ Head(queue).key = k

Init ==
  /\ up = FALSE /\ policy \in [Keys -> Crons \cup {Off}]
  /\ state = [k \in Keys |-> Absent]
  /\ catchup = {} /\ queue = <<>> /\ phase = "idle" /\ gate = "open"
  /\ owed = [k \in Keys |-> FALSE] /\ note = [k \in Keys |-> "kept"]
  /\ ended = [k \in Keys |-> "no"] /\ leftOut = {} /\ upsets = 0

-----------------------------------------------------------------------------
(* Planning *)

\* plan(): every schedule of the policy is stamped with its expression and
\* its coming date, and the others keep nothing.
Plan(p) ==
  [k \in Keys |-> IF k \in Planned(p)
                    THEN [Entry(k) EXCEPT !.cron = p[k], !.next = "ahead"]
                    ELSE Absent]

\* The runs an agent that starts makes up: those begun and never finished,
\* and of the others those whose stored date has passed, if it is a date of
\* the plan there is now.
DueOfAnyPlan ==
  LET stored == {k \in Planned(policy) : state[k] # Absent}
  IN {[key |-> k, why |-> "interrupted"] : k \in {j \in stored : state[j].started}}
       \cup {[key |-> k, why |-> "missed"] : k \in {j \in stored :
               ~state[j].started /\ state[j].next = "past"}}

DueMissed ==
  {[key |-> k, why |-> "missed"] : k \in {j \in Planned(policy) :
      state[j] # Absent /\ state[j].next = "past" /\ state[j].cron = policy[j]}}

Due ==
  LET stored == {k \in Planned(policy) : state[k] # Absent}
  IN {[key |-> k, why |-> "interrupted"] : k \in {j \in stored : state[j].started}}
       \cup {[key |-> k, why |-> "missed"] : k \in {j \in stored :
               ~state[j].started /\ state[j].next = "past" /\ state[j].cron = policy[j]}}

\* Which interrupted runs are reported as such.
Told(k) ==
  k \in Planned(policy) /\ state[k] # Absent /\ state[k].started /\ ~state[k].self

\* start(): the state is read, the schedules planned, and what was owed
\* waits for the delay after boot. From here on only the memory knows of it.
Start ==
  /\ ~up /\ up' = TRUE
  /\ catchup' = Due
  /\ state' = [k \in Keys |->
                 IF Plan(policy)[k] = Absent THEN Absent
                 ELSE [Plan(policy)[k] EXCEPT !.started = FALSE,
                         !.self = IF Entry(k).started THEN FALSE ELSE @]]
  /\ note' = [k \in Keys |-> IF owed[k] /\ note[k] = "kept" THEN "covered" ELSE note[k]]
  /\ ended' = [k \in Keys |-> "no"]
  /\ UNCHANGED <<policy, queue, phase, gate, owed, leftOut, upsets>>

\* The delay after boot is over.
CatchUp ==
  /\ up /\ catchup # {}
  /\ LET runs == SetToSeq({[key |-> c.key, how |-> "catchup"] : c \in catchup})
     IN queue' = queue \o runs
  /\ catchup' = {}
  /\ UNCHANGED <<up, policy, state, phase, gate, owed, note, ended, leftOut, upsets>>

\* A policy arrives whole and is stored; the schedules are planned anew.
\* The server pushes it on every connect, changed or not. The coming date
\* covers one that has passed, and with it a refused run that nothing else
\* knows of; the note of a run under way stays, if its schedule does.
Apply(p) ==
  /\ up
  /\ policy' = p /\ state' = Plan(p)
  /\ owed' = [k \in Keys |-> owed[k] /\ p[k] = policy[k]]
  /\ leftOut' = leftOut \cup {k \in Keys \ Planned(p) : UnderWay(k)}
  /\ note' = [k \in Keys |->
       IF ~(owed[k] /\ p[k] = policy[k]) THEN "kept"
       ELSE IF UnderWay(k) /\ k \notin leftOut THEN note[k]
       ELSE IF note[k] = "lost" \/ (ended[k] = "refused" /\ ~OnItsWay(k)) THEN "lost"
       ELSE "covered"]
  /\ UNCHANGED <<up, catchup, queue, phase, gate, ended, upsets>>

-----------------------------------------------------------------------------
(* Runs *)

\* A date of schedule k comes. A task that is planned queues a run; while
\* the agent is down only the stored date passes.
Clock(k) ==
  /\ k \in Planned(policy)
  /\ IF up THEN /\ Len(queue) < MaxQueue
                /\ queue' = Append(queue, [key |-> k, how |-> "clock"])
                /\ owed' = [owed EXCEPT ![k] = TRUE]
                /\ ended' = [ended EXCEPT ![k] = "no"]
           ELSE /\ state[k] # Absent /\ state[k].next = "ahead"
                /\ owed' = [owed EXCEPT ![k] = @ \/ state[k].cron = policy[k]]
                /\ UNCHANGED <<queue, ended>>
  /\ state' = IF state[k] # Absent /\ state[k].next = "ahead"
                THEN [state EXCEPT ![k].next = "past"] ELSE state
  /\ note' = [note EXCEPT ![k] = "kept"]
  /\ UNCHANGED <<up, policy, catchup, phase, gate, leftOut, upsets>>

\* runNow(): every schedule of the policy, queued behind what is running.
RunNow ==
  /\ up /\ Len(queue) < MaxQueue
  /\ Planned(policy) # {}
  /\ queue' = queue \o SetToSeq({[key |-> k, how |-> "manual"] : k \in Planned(policy)})
  /\ UNCHANGED <<up, policy, state, catchup, phase, gate, owed, note, ended, leftOut, upsets>>

\* The chain gets to the next run: one the clock started sleeps first.
TakeUp ==
  /\ up /\ queue # <<>> /\ phase = "idle" /\ Head(queue).how # "manual"
  /\ phase' = "jitter"
  /\ UNCHANGED <<up, policy, state, catchup, queue, gate, owed, note, ended, leftOut, upsets>>

AtGate ==
  up /\ queue # <<>> /\ phase = (IF Head(queue).how = "manual" THEN "idle" ELSE "jitter")

\* The run enters the gate and is noted as begun.
EnterUnnoted ==
  /\ AtGate /\ gate = "open"
  /\ phase' = "working"
  /\ LET k == Head(queue).key
     IN /\ owed' = [owed EXCEPT ![k] = policy[k] # Off]
        /\ note' = [note EXCEPT ![k] = "kept"]
  /\ UNCHANGED <<up, policy, state, catchup, queue, gate, ended, leftOut, upsets>>

Enter ==
  /\ AtGate /\ gate = "open"
  /\ phase' = "working"
  /\ LET k == Head(queue).key
     IN /\ state' = [state EXCEPT ![k] = [Entry(k) EXCEPT !.started = TRUE]]
        /\ owed' = [owed EXCEPT ![k] = policy[k] # Off]
        /\ note' = [note EXCEPT ![k] = "kept"]
  /\ UNCHANGED <<up, policy, catchup, queue, gate, ended, leftOut, upsets>>

\* It is turned away while the agent replaces itself. A passed date is left
\* for the next process; where it was covered, no other run for it may be left.
Refuse ==
  /\ AtGate /\ gate = "closed"
  /\ queue' = Tail(queue) /\ phase' = "idle"
  /\ LET k == Head(queue).key
         last == \A i \in 2 .. Len(queue) : queue[i].key # k
     IN /\ ended' = IF Head(queue).how = "manual" THEN ended
                      ELSE [ended EXCEPT ![k] = "refused"]
        /\ note' = IF note[k] = "covered" /\ last /\ (\A c \in catchup : c.key # k)
                     THEN [note EXCEPT ![k] = "lost"] ELSE note
  /\ UNCHANGED <<up, policy, state, catchup, gate, owed, leftOut, upsets>>

\* The container to recreate next is the agent's own.
NoteOwn ==
  /\ up /\ phase = "working" /\ phase' = "replacing"
  /\ LET k == Head(queue).key
     IN state' = [state EXCEPT ![k] = [Entry(k) EXCEPT !.self = TRUE]]
  /\ UNCHANGED <<up, policy, catchup, queue, gate, owed, note, ended, leftOut, upsets>>

FinishKeepsNote ==
  /\ up /\ AtWork
  /\ LET k == Head(queue).key
     IN /\ state' = [state EXCEPT ![k] =
                       [Entry(k) EXCEPT !.started = FALSE,
                          !.next = IF k \in Planned(policy) THEN "ahead" ELSE "none"]]
        /\ owed' = [owed EXCEPT ![k] = FALSE]
        /\ note' = [note EXCEPT ![k] = "kept"]
        /\ leftOut' = leftOut \ {k}
  /\ queue' = Tail(queue) /\ phase' = "idle"
  /\ UNCHANGED <<up, policy, catchup, gate, ended, upsets>>

\* The run ends, well or not: the `finally` of run().
Finish ==
  /\ up /\ AtWork
  /\ LET k == Head(queue).key
     IN /\ state' = [state EXCEPT ![k] =
                       [Entry(k) EXCEPT !.started = FALSE, !.self = FALSE,
                          !.next = IF k \in Planned(policy) THEN "ahead" ELSE "none"]]
        /\ owed' = [owed EXCEPT ![k] = FALSE]
        /\ note' = [note EXCEPT ![k] = "kept"]
        /\ leftOut' = leftOut \ {k}
  /\ queue' = Tail(queue) /\ phase' = "idle"
  /\ UNCHANGED <<up, policy, catchup, gate, ended, upsets>>

-----------------------------------------------------------------------------
(* The process *)

\* What is in memory only is gone.
ProcessEnds ==
  /\ up /\ upsets < MaxUpsets /\ upsets' = upsets + 1
  /\ up' = FALSE /\ catchup' = {} /\ queue' = <<>> /\ phase' = "idle" /\ gate' = "open"
  /\ ended' = IF AtWork
                THEN [ended EXCEPT ![Head(queue).key] =
                        IF phase = "replacing" THEN "self" ELSE "cut"]
                ELSE ended
  /\ note' = [k \in Keys |-> IF note[k] = "covered" THEN "lost" ELSE note[k]]
  /\ UNCHANGED leftOut

\* A kill or an exception; while a run replaces the agent, its own doing.
Crash ==
  /\ ProcessEnds
  /\ UNCHANGED <<policy, state, owed>>

\* A policy is stored, and the process ends before the schedules are.
ApplyTorn(p) ==
  /\ p # policy /\ policy' = p
  /\ owed' = [k \in Keys |-> owed[k] /\ p[k] = policy[k]]
  /\ ProcessEnds
  /\ UNCHANGED state

\* A self-update closes the gate, and reopens it or replaces the agent once
\* nothing is at work.
GateCloses ==
  /\ up /\ gate = "open"
  /\ upsets < MaxUpsets /\ upsets' = upsets + 1
  /\ gate' = "closed"
  /\ UNCHANGED <<up, policy, state, catchup, queue, phase, owed, note, ended, leftOut>>

GateOpens ==
  /\ up /\ gate = "closed" /\ gate' = "open"
  /\ UNCHANGED <<up, policy, state, catchup, queue, phase, owed, note, ended, leftOut, upsets>>

Replaced ==
  /\ gate = "closed" /\ ~AtWork
  /\ ProcessEnds
  /\ UNCHANGED <<policy, state, owed>>

Next ==
  \/ Start \/ CatchUp \/ RunNow \/ TakeUp \/ Enter \/ Refuse \/ NoteOwn \/ Finish
  \/ Crash \/ GateCloses \/ GateOpens \/ Replaced
  \/ \E k \in Keys : Clock(k)
  \/ \E p \in [Keys -> Crons \cup {Off}] : Apply(p) \/ ApplyTorn(p)

Spec == Init /\ [][Next]_vars

\* The agent is started again, timers go off, and a run ends. Nothing is
\* asked of the clock: what is owed is made up without a further date.
Fairness ==
  /\ WF_vars(Start) /\ WF_vars(CatchUp) /\ WF_vars(TakeUp)
  /\ WF_vars(Enter \/ Refuse) /\ WF_vars(Finish)

FairSpec == Spec /\ Fairness

-----------------------------------------------------------------------------
(* Properties *)

\* A date that has passed, or a run that was begun, is not forgotten: a run
\* of the schedule is on its way, or state.json says so to the next process
\* (AutoUpdateService: "A stored nextRun that has passed is a run that was
\* owed"). The one exception is a run that planning put a coming date over,
\* at a start or for a policy that came in the meantime: it goes with the
\* process that knows of it, or with its refusal.
OwedIsKept ==
  \A k \in Keys : owed[k] /\ note[k] # "lost" =>
    \/ state[k] # Absent /\ (state[k].next = "past" \/ state[k].started)
    \/ up /\ OnItsWay(k)

\* A date of a plan that is gone is not made up.
OnlyTheCurrentPlan ==
  [][~up /\ up' => \A c \in catchup' : c.why = "missed" => owed[c.key]]_vars

\* A run that was cut short is reported as interrupted by the next process,
\* and one that ended by replacing the agent is not; but nobody is told of a
\* run whose schedule a new policy left out while it was under way.
InterruptionsTold ==
  ~up => \A k \in Planned(policy) \ leftOut : Told(k) <=> ended[k] = "cut"

\* Every run that is owed is held in the end, without waiting for the next
\* date, also when it was interrupted, or missed or refused by an agent that
\* then went down: only a refused run waits for the next start or date, and
\* only what was covered may be lost.
OwedIsMadeUp ==
  \A k \in Keys : owed[k] ~> (~owed[k] \/ ended[k] = "refused" \/ note[k] = "lost")
=============================================================================
