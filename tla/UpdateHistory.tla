---------------------------- MODULE UpdateHistory ----------------------------
(***************************************************************************)
(* Who updated what: UpdateHistoryService and UpdateDetector, for one      *)
(* container name (detectUpdates treats each name on its own), with        *)
(* everything that changes that name: the host's own users, an action or   *)
(* run of this agent (DockerService.updateContainer), and the helper of    *)
(* SelfUpdateService where the container is the agent's own.               *)
(*                                                                         *)
(* The memory reaches the disk at once, the queue of reports a second      *)
(* later. `log' is the queue together with what the server already has (it *)
(* keeps a report until it is acknowledged: AckDelivery), and `secured' is *)
(* how much of it outlives the process. A container is a number, given in  *)
(* the order they are created.                                             *)
(***************************************************************************)
EXTENDS Naturals, Sequences, FiniteSets

CONSTANTS
  Images,         \* what the container may run
  MaxContainers,  \* containers of this name, one after the other
  MaxOperations,  \* updates this agent sets out to do
  FaultKinds,     \* "crash", "stop" of the agent, "disk": a write that fails,
                  \* "expiry" of an announcement, "age" of a container gone
  MaxFaults       \* how often, all kinds together

ASSUME SizesAssumption ==
  /\ Images # {}
  /\ MaxContainers \in Nat \ {0} /\ MaxOperations \in Nat /\ MaxFaults \in Nat

Containers == 1 .. MaxContainers
Operations == 1 .. MaxOperations
External == 0                      \* the cause of everything else

VARIABLES
  own,        \* the container is the agent's own
  host,       \* the container of that name, and who put it there
  created,    \* how many have been created
  op,         \* the operation under way
  parked,     \* the agent's container the helper has set aside
  started,    \* how many operations have been started
  outcome,    \* the self-update whose failure is in the outcome file
  alive,      \* the agent runs
  read,       \* a state that was read and not compared yet
  mem, disk,  \* what is remembered of the name
  log, secured,
  base,       \* what was known before the first report, and since when
  failed,     \* the operations that ended without their container
  untold,     \* those of them nobody reports
  made,       \* the operations that put their container there
  blurred,    \* two changes overlap, nobody can tell whose is seen
  lost,       \* the process died with reports that were not secured
  forgot,     \* it died with a memory that was not on the disk
  faults

hostVars == <<own, host, created>>
opVars == <<op, parked, started, outcome, failed, untold, made>>
memoryVars == <<mem, disk>>
logVars == <<log, secured, base>>
ghostVars == <<blurred, lost, forgot>>
vars == <<hostVars, opVars, alive, read, memoryVars, logVars, ghostVars, faults>>

Container ==
  [up : BOOLEAN, id : Containers, image : Images, by : 0 .. MaxOperations,
   back : BOOLEAN]                    \* put back by a helper
Entry ==
  [known : BOOLEAN, id : Containers, image : Images,
   gone : {"no", "yes", "old"},       \* goneSince, "old" after GONE_KEEP_MS
   op : 0 .. MaxOperations]           \* expected
Report ==
  [result : {"updated", "failed"}, id : Containers, from : Images, to : Images,
   by : 0 .. MaxOperations,           \* what the report says
   truth : 0 .. MaxOperations,        \* whose doing it was
   back : BOOLEAN,                    \* a helper put the container back
   sure : BOOLEAN]                    \* and nothing overlapped it
Operation ==
  [phase : {"idle", "announced", "removed", "parked", "stopped", "created"},
   n : 0 .. MaxOperations, image : Images, on : Containers]

TypeOK ==
  /\ own \in BOOLEAN /\ host \in Container /\ created \in Containers
  /\ op \in Operation /\ parked \in Container
  /\ started \in 0 .. MaxOperations /\ outcome \in 0 .. MaxOperations
  /\ alive \in BOOLEAN
  /\ read.done \in BOOLEAN /\ read.state \in Container
  /\ mem \in Entry /\ disk \in Entry
  /\ log \in Seq(Report) /\ secured \in 0 .. Len(log)
  /\ base.image \in Images /\ base.at \in Nat
  /\ failed \subseteq Operations /\ untold \subseteq failed /\ made \subseteq Operations
  /\ blurred \in BOOLEAN /\ lost \in BOOLEAN /\ forgot \in BOOLEAN
  /\ faults \in 0 .. MaxFaults

AnImage == CHOOSE img \in Images : TRUE
NoContainer ==
  [up |-> FALSE, id |-> 1, image |-> AnImage, by |-> External, back |-> FALSE]
NoEntry ==
  [known |-> FALSE, id |-> 1, image |-> AnImage, gone |-> "no", op |-> External]
NoRead == [done |-> FALSE, state |-> NoContainer]
Idle == [phase |-> "idle", n |-> External, image |-> AnImage, on |-> 1]

Init ==
  /\ own \in BOOLEAN
  /\ host = [NoContainer EXCEPT !.up = TRUE] /\ created = 1
  /\ op = Idle /\ parked = NoContainer
  /\ started = 0 /\ outcome = External
  /\ failed = {} /\ untold = {} /\ made = {}
  /\ alive = TRUE /\ read = NoRead
  /\ mem = NoEntry /\ disk = NoEntry
  /\ log = <<>> /\ secured = 0 /\ base = [image |-> AnImage, at |-> 0]
  /\ blurred = FALSE /\ lost = FALSE /\ forgot = FALSE
  /\ faults = 0

Happens(kind) ==
  /\ kind \in FaultKinds /\ faults < MaxFaults /\ faults' = faults + 1

-----------------------------------------------------------------------------
(* The memory. *)

\* save: the memory at once, and the disk too where it changed. A write may
\* fail; nothing is told of it, and nothing repeats it.
Save(next) ==
  /\ mem' = next
  /\ \/ disk' = (IF next # mem THEN next ELSE disk) /\ faults' = faults
     \/ next # mem /\ disk' = disk /\ Happens("disk")

WithExpectation(entry, n) == IF entry.known THEN [entry EXCEPT !.op = n] ELSE entry

WithoutExpectation(entry) == [entry EXCEPT !.op = External]

RememberedByImage(entry, state) ==
  CASE ~state.up /\ (~entry.known \/ entry.gone = "yes") -> entry
    [] ~state.up /\ entry.known /\ entry.gone = "no" -> [entry EXCEPT !.gone = "yes"]
    [] ~state.up /\ entry.known /\ entry.gone = "old" -> NoEntry
    [] state.up ->
         [known |-> TRUE, id |-> state.id, image |-> state.image, gone |-> "no",
          op |-> IF entry.known /\ entry.image = state.image
                 THEN entry.op ELSE External]

\* detectUpdates: what is remembered next, and whether it is an update.
Remembered(entry, state) ==
  CASE ~state.up /\ (~entry.known \/ entry.gone = "yes") -> entry
    [] ~state.up /\ entry.known /\ entry.gone = "no" -> [entry EXCEPT !.gone = "yes"]
    [] ~state.up /\ entry.known /\ entry.gone = "old" -> NoEntry
    [] state.up ->
         [known |-> TRUE, id |-> state.id, image |-> state.image, gone |-> "no",
          op |-> IF entry.known /\ entry.image = state.image /\ entry.id = state.id
                 THEN entry.op ELSE External]

IsUpdateUnlessGone(entry, state) ==
  state.up /\ entry.known /\ entry.gone = "no" /\ entry.image # state.image

IsUpdate(entry, state) == state.up /\ entry.known /\ entry.image # state.image

Updated(state) ==
  [result |-> "updated", id |-> state.id, from |-> mem.image, to |-> state.image,
   by |-> mem.op, truth |-> state.by, back |-> state.back,
   sure |-> ~blurred]

Failed(n, cause) ==
  [result |-> "failed", id |-> mem.id, from |-> mem.image, to |-> mem.image,
   by |-> cause, truth |-> n, back |-> FALSE, sure |-> TRUE]

Observe ==
  /\ alive /\ read.done
  /\ log' = IF IsUpdate(mem, read.state) THEN Append(log, Updated(read.state)) ELSE log
  /\ Save(Remembered(mem, read.state))
  /\ base' = IF ~mem.known /\ read.state.up
             THEN [image |-> read.state.image, at |-> Len(log)] ELSE base
  /\ read' = NoRead
  /\ blurred' = (blurred /\ ~(read.state = host /\ mem'.op = External /\ op.phase = "idle"))
  /\ UNCHANGED <<hostVars, opVars, alive, secured, lost, forgot>>

\* The lists of the snapshot are answered; HostWatch has how often.
Read ==
  /\ alive /\ ~read.done
  /\ read' = [done |-> TRUE, state |-> host]
  /\ UNCHANGED <<hostVars, opVars, alive, memoryVars, logVars, ghostVars, faults>>

\* The queue's delayed write, or a batch the server has stored.
Secure ==
  /\ alive /\ secured < Len(log)
  /\ secured' = Len(log)
  /\ UNCHANGED <<hostVars, opVars, alive, read, memoryVars, log, base, ghostVars,
                 faults>>

-----------------------------------------------------------------------------
(* The agent's process. *)

\* What is left of it when it ends; an operation it carried out ends with it.
Ends(kept) ==
  /\ alive' = FALSE
  /\ read' = NoRead
  /\ mem' = disk /\ disk' = disk
  /\ forgot' = (forgot \/ mem # disk)
  /\ log' = SubSeq(log, 1, kept) /\ secured' = kept /\ base' = base

Interrupted == IF op.phase \in {"announced", "removed"} THEN Idle ELSE op

FailsUntold(n) == failed' = failed \cup {n} /\ untold' = untold \cup {n}

\* The operation of the process fails by that, and nobody reports it.
CutsShort ==
  /\ op' = Interrupted
  /\ IF op.phase \in {"announced", "removed"} THEN FailsUntold(op.n)
     ELSE UNCHANGED <<failed, untold>>

AgentStopsUnsaved ==
  /\ alive /\ Happens("stop")
  /\ Ends(secured)
  /\ CutsShort
  /\ UNCHANGED <<hostVars, parked, started, outcome, made, blurred, lost>>

\* SIGTERM or SIGINT: shutdown() writes the queue out.
AgentStops ==
  /\ alive /\ Happens("stop")
  /\ Ends(Len(log))
  /\ CutsShort
  /\ UNCHANGED <<hostVars, parked, started, outcome, made, blurred, lost>>

AgentDies ==
  /\ alive /\ Happens("crash")
  /\ Ends(secured)
  /\ lost' = (lost \/ secured < Len(log))
  /\ CutsShort
  /\ UNCHANGED <<hostVars, parked, started, outcome, made, blurred>>

\* Docker or the supervisor starts it again, where its container is there.
AgentStarts ==
  /\ ~alive
  /\ own => host.up /\ op.phase # "stopped"
  /\ alive' = TRUE
  /\ UNCHANGED <<hostVars, opVars, read, memoryVars, logVars, ghostVars, faults>>

-----------------------------------------------------------------------------
(* Everybody else on the host: docker compose, docker run, another tool. *)

NextId == created + 1

Fresh(img, n) ==
  [up |-> TRUE, id |-> NextId, image |-> img, by |-> n, back |-> FALSE]

\* An announcement that outlived its operation.
Stray == mem.op # External /\ mem.op \notin made

\* The memory has not followed the last change yet.
Unseen == mem.known /\ (mem.id # host.id \/ (mem.gone = "no") # host.up)

Overlaps == op.phase # "idle" \/ outcome # External \/ Stray \/ Unseen

\* Nobody touches the agent's container while its helper is at work. Where it
\* is the agent's own, the agent is told to stop and goes with it.
Externally ==
  /\ op.phase \in {"parked", "stopped", "created"} => ~own
  /\ blurred' = (blurred \/ Overlaps)
  /\ IF own /\ alive
     THEN Ends(Len(log)) /\ CutsShort
     ELSE UNCHANGED <<alive, read, memoryVars, logVars, forgot, op, failed, untold>>
  /\ UNCHANGED <<own, parked, started, outcome, made, lost, faults>>

Replace(img) ==
  /\ NextId \in Containers
  /\ host' = Fresh(img, External) /\ created' = NextId
  /\ Externally

Remove ==
  /\ host.up
  /\ NextId \in Containers
  /\ host' = [host EXCEPT !.up = FALSE] /\ created' = created
  /\ Externally

-----------------------------------------------------------------------------
(* An action or run of this agent. *)

\* updateContainer inspects the container and announces the recreate.
Announce(img) ==
  /\ alive /\ op.phase = "idle" /\ outcome = External /\ host.up
  /\ started < MaxOperations /\ NextId \in Containers
  /\ started' = started + 1
  /\ op' = [phase |-> "announced", n |-> started', image |-> img, on |-> host.id]
  /\ Save(WithExpectation(mem, started'))
  /\ blurred' = (blurred \/ mem.op # External \/ ~mem.known \/ mem.id # host.id
                   \/ mem.gone # "no")
  /\ UNCHANGED <<hostVars, parked, outcome, failed, untold, made, alive, read, logVars,
                 lost, forgot>>

RemoveOld ==
  /\ alive /\ ~own /\ op.phase = "announced"
  /\ host.up /\ host.id = op.on
  /\ host' = [host EXCEPT !.up = FALSE, !.by = op.n]
  /\ op' = [op EXCEPT !.phase = "removed"]
  /\ UNCHANGED <<own, created, parked, started, outcome, failed, untold, made, alive,
                 read, memoryVars, logVars, ghostVars, faults>>

CreateNew ==
  /\ alive /\ ~own /\ op.phase = "removed"
  /\ ~host.up /\ NextId \in Containers
  /\ host' = Fresh(op.image, op.n) /\ created' = NextId
  /\ op' = Idle /\ made' = made \cup {op.n}
  /\ UNCHANGED <<own, parked, started, outcome, failed, untold, alive, read,
                 memoryVars, logVars, ghostVars, faults>>

\* remove or create fails: Docker refuses, or somebody else was there first.
RecreateFails ==
  /\ alive /\ ~own /\ op.phase \in {"announced", "removed"}
  /\ op' = Idle /\ failed' = failed \cup {op.n}
  /\ log' = Append(log, Failed(op.n, op.n))
  /\ Save(WithoutExpectation(mem))
  /\ UNCHANGED <<hostVars, parked, started, outcome, untold, made, alive, read, secured,
                 base, ghostVars>>

\* A pull that fails is a failed update of the containers that were to follow
\* it: of those a run has collected (AutoUpdateService.ts:553), or those an
\* action finds on the image in the state it reads for that. It takes an
\* announcement with it, whoever made it.
PullFails ==
  /\ alive /\ started < MaxOperations
  /\ started' = started + 1 /\ failed' = failed \cup {started'}
  /\ log' = Append(log, Failed(started', started'))
  /\ Save(WithoutExpectation(mem))
  /\ blurred' = (blurred \/ mem.op # External)
  /\ UNCHANGED <<hostVars, op, parked, outcome, untold, made, alive, read, secured, base,
                 lost, forgot>>

\* Nobody reports it where that state cannot be read, where the state after
\* the pull cannot, or where the container cannot be inspected: all of that
\* comes before the announcement.
FailsUnseen ==
  /\ alive /\ started < MaxOperations
  /\ started' = started + 1
  /\ FailsUntold(started')
  /\ UNCHANGED <<hostVars, op, parked, outcome, made, alive, read, memoryVars, logVars,
                 ghostVars, faults>>

-----------------------------------------------------------------------------
(* The helper of a self-update. *)

\* Other work did not end in time, or the helper could not be started. The
\* action or run fails; the history is told nothing, and the announcement
\* stays until it expires.
Abandoned ==
  /\ alive /\ own /\ op.phase = "announced"
  /\ op' = Idle /\ FailsUntold(op.n)
  /\ UNCHANGED <<hostVars, parked, started, outcome, made, alive, read, memoryVars,
                 logVars, ghostVars, faults>>

\* It sets the agent's container aside under another name.
Park ==
  /\ own /\ op.phase = "announced" /\ host.up /\ host.id = op.on
  /\ parked' = host
  /\ host' = [host EXCEPT !.up = FALSE, !.by = op.n]
  /\ op' = [op EXCEPT !.phase = "parked"]
  /\ UNCHANGED <<own, created, started, outcome, failed, untold, made, alive, read,
                 memoryVars, logVars, ghostVars, faults>>

\* Stopping it is a SIGTERM.
StopOld ==
  /\ op.phase = "parked"
  /\ op' = [op EXCEPT !.phase = "stopped"]
  /\ IF alive THEN Ends(Len(log))
     ELSE UNCHANGED <<alive, read, memoryVars, logVars, forgot>>
  /\ UNCHANGED <<hostVars, parked, started, outcome, failed, untold, made, blurred, lost,
                 faults>>

CreateReplacement ==
  /\ op.phase = "stopped" /\ NextId \in Containers
  /\ host' = Fresh(op.image, op.n) /\ created' = NextId
  /\ op' = [op EXCEPT !.phase = "created"] /\ made' = made \cup {op.n}
  /\ UNCHANGED <<own, parked, started, outcome, failed, untold, alive, read,
                 memoryVars, logVars, ghostVars, faults>>

Completes ==
  /\ op.phase = "created"
  /\ op' = Idle /\ parked' = NoContainer
  /\ UNCHANGED <<hostVars, started, outcome, failed, untold, made, alive, read,
                 memoryVars, logVars, ghostVars, faults>>

RollBackQuietly ==
  /\ own /\ op.phase \in {"announced", "parked", "stopped", "created"}
  /\ host' = CASE op.phase = "announced" -> host
               [] op.phase = "created" -> [parked EXCEPT !.by = op.n, !.back = TRUE]
               [] OTHER -> parked
  /\ op' = Idle /\ parked' = NoContainer
  /\ outcome' = (IF op.phase = "announced" THEN outcome ELSE op.n) /\ failed' = failed \cup {op.n}
  /\ made' = made \ {op.n}
  /\ IF op.phase = "created" /\ alive
     THEN Ends(secured) /\ lost' = (lost \/ secured < Len(log))
     ELSE UNCHANGED <<alive, read, memoryVars, logVars, lost, forgot>>
  /\ UNCHANGED <<own, created, started, untold, blurred, faults>>

\* The old container is put back, or was never touched. A replacement that
\* was created is removed by force, whatever its agent had not written yet.
RollBack ==
  /\ own /\ op.phase \in {"announced", "parked", "stopped", "created"}
  /\ host' = CASE op.phase = "announced" -> host
               [] op.phase = "created" -> [parked EXCEPT !.by = op.n, !.back = TRUE]
               [] OTHER -> parked
  /\ op' = Idle /\ parked' = NoContainer
  /\ outcome' = op.n /\ failed' = failed \cup {op.n}
  /\ made' = made \ {op.n}
  /\ IF op.phase = "created" /\ alive
     THEN Ends(secured) /\ lost' = (lost \/ secured < Len(log))
     ELSE UNCHANGED <<alive, read, memoryVars, logVars, lost, forgot>>
  /\ UNCHANGED <<own, created, started, untold, blurred, faults>>

\* reportSelfUpdateOutcome in the agent that is back: reportFailure with
\* keepAnnouncement, and the file removed.
ReportOutcome ==
  /\ alive /\ outcome # External
  /\ log' = Append(log, Failed(outcome, mem.op))
  /\ Save(WithExpectation(mem, mem.op))
  /\ outcome' = External
  /\ UNCHANGED <<hostVars, op, parked, started, failed, untold, made, alive, read,
                 secured, base, ghostVars>>

-----------------------------------------------------------------------------
(* Time. *)

\* An announcement is an hour old. No operation takes that long, but a state
\* that shows it may have been that long in coming.
Expires ==
  /\ op.phase = "idle" /\ outcome = External
  /\ mem.op # External \/ disk.op # External
  /\ Happens("expiry")
  /\ mem' = [mem EXCEPT !.op = External] /\ disk' = [disk EXCEPT !.op = External]
  /\ blurred' = (blurred \/ mem.id # host.id)
  /\ UNCHANGED <<hostVars, opVars, alive, read, logVars, lost, forgot>>

Ages ==
  /\ mem.gone = "yes" /\ Happens("age")
  /\ mem' = [mem EXCEPT !.gone = "old"]
  /\ disk' = [disk EXCEPT !.gone = IF @ = "yes" THEN "old" ELSE @]
  /\ UNCHANGED <<hostVars, opVars, alive, read, logVars, ghostVars>>

-----------------------------------------------------------------------------
Next ==
  \/ Observe \/ Read \/ Secure
  \/ AgentStops \/ AgentDies \/ AgentStarts
  \/ \E img \in Images : Replace(img) \/ Announce(img)
  \/ Remove
  \/ RemoveOld \/ CreateNew \/ RecreateFails \/ PullFails \/ FailsUnseen
  \/ Abandoned \/ Park \/ StopOld \/ CreateReplacement \/ Completes \/ RollBack \/ ReportOutcome
  \/ Expires \/ Ages

Spec == Init /\ [][Next]_vars

\* The agent is started, reads states and compares them; what it has begun
\* goes on, and so does a helper. Users, faults and failures are not owed.
Fairness ==
  /\ WF_vars(Observe) /\ WF_vars(Read) /\ WF_vars(AgentStarts)
  /\ WF_vars(CreateNew \/ RecreateFails \/ RemoveOld)
  /\ WF_vars(StopOld) /\ WF_vars(CreateReplacement \/ RollBack \/ Completes)
  /\ WF_vars(ReportOutcome)

FairSpec == Spec /\ Fairness

-----------------------------------------------------------------------------
\* The places of the updates told since the container was first known.
Updates == {i \in 1 .. Len(log) : i > base.at /\ log[i].result = "updated"}

\* What the reports before a place say the container runs.
ToldBefore(i) ==
  LET earlier == {j \in Updates : j < i}
  IN IF earlier = {} THEN base.image
     ELSE log[CHOOSE j \in earlier : \A k \in earlier : k <= j].to

(* The history tells one story: every update begins where the one before it *)
(* ended, and the memory the next state is compared with is where the last  *)
(* one ended. No change is told twice or left out on the way, whatever      *)
(* order states, restarts and operations come in -- unless the process died *)
(* before a report or a memory reached the disk.                            *)
HistoryChains ==
  lost \/ forgot \/
    /\ mem.known => mem.image = ToldBefore(Len(log) + 1)
    /\ \A i \in Updates : log[i].from = ToldBefore(i)

(* An update is credited to whoever caused it: to the operation that        *)
(* announced the recreate, across restarts of the agent too, and to nobody  *)
(* here where somebody else did it. Not where two changes overlap, and not  *)
(* the change back of a self-update.                                        *)
CreditedRight ==
  forgot \/
    \A i \in DOMAIN log :
      log[i].result = "updated" /\ log[i].sure /\ ~log[i].back
        => log[i].by = log[i].truth

(* A change of the image is told in the end: once nothing happens any more, *)
(* the history ends with the image the container runs.                      *)
HostTold ==
  <>[](lost \/ forgot \/ (host.up => host.image = ToldBefore(Len(log) + 1)))

Failures(n) ==
  {i \in DOMAIN log : log[i].result = "failed" /\ log[i].truth = n}

(* An update that this agent tried and that failed is told as failed, once, *)
(* the failure of a self-update by the agent that was put back -- but for   *)
(* the failures at which nobody is there to report them: what fails before  *)
(* the announcement and is not a pull whose containers are known, a helper  *)
(* that was never started, and an operation the process ended with. Not     *)
(* where a report died with the process, or the agent with its container.   *)
AttemptsTold ==
  <>[](\/ lost \/ (own /\ ~host.up)
       \/ \A n \in Operations :
            Cardinality(Failures(n)) = IF n \in failed \ untold THEN 1 ELSE 0)
=============================================================================
