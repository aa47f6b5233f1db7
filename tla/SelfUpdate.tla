----------------------------- MODULE SelfUpdate -----------------------------
(***************************************************************************)
(* The replacement of an agent's own container by its helper:              *)
(* executeHelperMode in client/src/services/SelfUpdateService.ts, the two  *)
(* containers it works on, and reportSelfUpdateOutcome in the agents that  *)
(* run meanwhile and afterwards.                                           *)
(*                                                                         *)
(* The helper is sequential: `step` names the Docker call it makes next.   *)
(* A call may be refused, or be carried out with the answer lost: to the    *)
(* helper both are the same exception.                                     *)
(***************************************************************************)
EXTENDS Naturals, Sequences

CONSTANTS
  FaultKinds,       \* which of the faults below happen
  MaxFaults         \* bound: faults in one behaviour

(* "overrun": the helper takes longer than an agent waits for it.          *)
Fault == {"refused", "lost", "disk", "death", "restart", "overrun"}

ASSUME SelfUpdateAssumption == FaultKinds \subseteq Fault /\ MaxFaults \in Nat

Agents  == {"old", "new"}
Decided == {"completed", "rolled-back", "failed"}

VARIABLES
  step,             \* the helper's next call; "gone" or "dead" at its end
  old, new,         \* the two containers, as Docker keeps them
  name,             \* the old container's name: the original or the parked one
  renamed, created, \* the helper's variables of these names
  file,             \* self-update.json in the data directory
  disk,             \* the data directory can be written
  agent,            \* what the agent's process in each container does
  awaiting,         \* the agent that started the helper waits for its exit
  faults            \* how many faults there were

VARIABLES           \* history
  met,              \* the kinds of faults there were
  outcome,          \* what the helper decided
  proven,           \* the new container has passed its verification
  reports           \* the outcomes the agents reported

helperVars == <<step, renamed, created, outcome, proven>>
dockerVars == <<old, new, name>>
agentVars  == <<agent, awaiting, reports>>
faultVars  == <<faults, met>>
vars == <<helperVars, dockerVars, agentVars, file, disk, faultVars>>

Init ==
  /\ step = "inspect" /\ old = "running" /\ new = "absent" /\ name = "original"
  /\ renamed = FALSE /\ created = FALSE
  /\ file = "none" /\ disk = TRUE
  /\ agent = [a \in Agents |-> IF a = "old" THEN "idle" ELSE "off"] /\ awaiting = TRUE
  /\ faults = 0 /\ met = {} /\ outcome = "none" /\ proven = FALSE /\ reports = <<>>

-----------------------------------------------------------------------------
Happens(kind) ==
  /\ kind \in FaultKinds /\ faults < MaxFaults
  /\ faults' = faults + 1 /\ met' = met \cup {kind}

(* A Docker call: answered, refused, or carried out with the answer lost.  *)
Answered == "ok"
Call(k) ==
  \/ k = Answered /\ UNCHANGED faultVars
  \/ k \in {"refused", "lost"} /\ Happens(k)
Calls   == {"ok", "refused", "lost"}
Carried(k) == k # "refused"

(* writeJsonFile: a write that fails is logged and leaves the file alone.  *)
Writes(what) == file' = IF disk THEN what ELSE file

(* finish(), and the end of the helper's process.                          *)
Finish(what) == outcome' = what /\ step' = "gone" /\ Writes(what)

Process(a, state) == agent' = [agent EXCEPT ![a] = state]

(* 1. Both containers are inspected; the old agent is told of a failure.   *)
Inspect ==
  /\ step = "inspect"
  /\ \E k \in Calls : Call(k) /\
       IF k = Answered THEN step' = "image" /\ UNCHANGED <<outcome, file>>
       ELSE Finish("rolled-back")
  /\ UNCHANGED <<dockerVars, agentVars, renamed, created, proven, disk>>

ReadImage ==
  /\ step = "image"
  /\ \E k \in Calls : Call(k) /\ step' = IF k = Answered THEN "aside" ELSE "undoNew"
  /\ UNCHANGED <<dockerVars, agentVars, renamed, created, outcome, proven, file, disk>>

(* 2. The old container is renamed, and the pending outcome written.       *)
SetAside ==
  /\ step = "aside"
  /\ \E k \in Calls :
       /\ Call(k)
       /\ name' = IF Carried(k) THEN "parked" ELSE name
       /\ renamed' = (k = Answered)
       /\ IF k = Answered THEN step' = "stop" /\ Writes("pending")
          ELSE step' = "undoNew" /\ UNCHANGED file
  /\ UNCHANGED <<old, new, agentVars, created, outcome, proven, disk>>

(* 3. The old container is stopped; an error is passed over.               *)
StopOldRemoves ==
  /\ step = "stop" /\ step' = "create"
  /\ \E k \in Calls :
       /\ Call(k)
       /\ IF Carried(k) THEN old' = "absent" /\ Process("old", "off") /\ awaiting' = FALSE
          ELSE UNCHANGED <<old, agent, awaiting>>
  /\ UNCHANGED <<new, name, renamed, created, outcome, proven, file, disk, reports>>
StopOld ==
  /\ step = "stop" /\ step' = "create"
  /\ \E k \in Calls :
       /\ Call(k)
       /\ IF Carried(k) THEN old' = "stopped" /\ Process("old", "off") /\ awaiting' = FALSE
          ELSE UNCHANGED <<old, agent, awaiting>>
  /\ UNCHANGED <<new, name, renamed, created, outcome, proven, file, disk, reports>>

(* 4. The new container is created under the original name, and started.   *)
CreateNew ==
  /\ step = "create"
  /\ \E k \in Calls :
       /\ Call(k)
       /\ new' = IF Carried(k) THEN "created" ELSE new
       /\ created' = (k = Answered)
       /\ step' = IF k = Answered THEN "start" ELSE "undoNew"
  /\ UNCHANGED <<old, name, agentVars, renamed, outcome, proven, file, disk>>

StartNew ==
  /\ step = "start"
  /\ \E k \in Calls :
       /\ Call(k)
       /\ IF Carried(k) THEN new' = "running" /\ Process("new", "reading")
          ELSE UNCHANGED <<new, agent>>
       /\ step' = IF k = Answered THEN "verify" ELSE "undoNew"
  /\ UNCHANGED <<old, name, awaiting, reports, renamed, created, outcome, proven, file, disk>>

(* 5. The new container proves itself, or stops, is unhealthy or too slow. *)
NewExits ==
  /\ step = "verify" /\ new = "running"
  /\ new' = "exited" /\ Process("new", "off")
  /\ UNCHANGED <<helperVars, old, name, awaiting, reports, file, disk, faultVars>>

VerifyReplacement ==
  /\ step = "verify"
  /\ \/ new = "running" /\ step' = "removeOld" /\ proven' = TRUE
     \/ step' = "undoNew" /\ UNCHANGED proven
  /\ UNCHANGED <<dockerVars, agentVars, renamed, created, outcome, file, disk, faultVars>>

(* The way back: the new container goes, the old one gets its name and runs. *)
UndoNew ==
  /\ step = "undoNew"
  /\ IF ~created THEN step' = "undoName" /\ UNCHANGED <<new, agent, outcome, file, faultVars>>
     ELSE \E k \in Calls :
       /\ Call(k)
       /\ IF Carried(k) THEN new' = "absent" /\ Process("new", "off")
          ELSE UNCHANGED <<new, agent>>
       /\ IF k = Answered THEN step' = "undoName" /\ UNCHANGED <<outcome, file>>
          ELSE Finish("failed")
  /\ UNCHANGED <<old, name, awaiting, reports, renamed, created, proven, disk>>

UndoNameForgotten ==
  /\ step = "undoName" /\ step' = "undoOld"
  /\ UNCHANGED <<dockerVars, agentVars, renamed, created, proven, disk, outcome, file, faultVars>>
UndoName ==
  /\ step = "undoName"
  /\ IF ~renamed THEN step' = "undoOld" /\ UNCHANGED <<name, outcome, file, faultVars>>
     ELSE IF new # "absent"                     \* the name is taken: Docker refuses
     THEN Finish("failed") /\ UNCHANGED <<name, faultVars>>
     ELSE \E k \in Calls :
       /\ Call(k)
       /\ name' = IF Carried(k) THEN "original" ELSE name
       /\ IF k = Answered THEN step' = "undoOld" /\ UNCHANGED <<outcome, file>>
          ELSE Finish("failed")
  /\ UNCHANGED <<old, new, agentVars, renamed, created, proven, disk>>

UndoOld ==
  /\ step = "undoOld"
  /\ \E k \in Calls :
       /\ Call(k)
       /\ IF Carried(k) /\ old # "running"
          THEN old' = "running" /\ Process("old", "reading")
          ELSE UNCHANGED <<old, agent>>
       /\ Finish(IF k = Answered THEN "rolled-back" ELSE "failed")
  /\ UNCHANGED <<new, name, awaiting, reports, renamed, created, proven, disk>>

(* 6. The old container is not needed any more.                            *)
RemoveOld ==
  /\ step = "removeOld"
  /\ \E k \in Calls :
       /\ Call(k)
       /\ IF Carried(k) THEN old' = "absent" /\ Process("old", "off") /\ awaiting' = FALSE
          ELSE UNCHANGED <<old, agent, awaiting>>
  /\ Finish("completed")
  /\ UNCHANGED <<new, name, renamed, created, proven, disk, reports>>

HelperDies ==
  /\ step \notin {"gone", "dead"} /\ Happens("death") /\ step' = "dead"
  /\ UNCHANGED <<dockerVars, agentVars, renamed, created, outcome, proven, file, disk>>

DiskFills ==
  /\ disk /\ Happens("disk") /\ disk' = FALSE
  /\ UNCHANGED <<helperVars, dockerVars, agentVars, file>>

-----------------------------------------------------------------------------
(* `exited` settles in the agent that started the helper and is still there. *)
Exited ==
  /\ awaiting /\ step \in {"gone", "dead"}
  /\ awaiting' = FALSE /\ Process("old", "reading")
  /\ UNCHANGED <<helperVars, dockerVars, reports, file, disk, faultVars>>

(* A process that ended on its own is started again; the new container may   *)
(* not have restarted to pass its verification (NewExits).                 *)
AgentRestarts(a) ==
  /\ agent[a] # "off" /\ ~(a = "new" /\ step = "verify") /\ Happens("restart")
  /\ Process(a, "reading") /\ awaiting' = (awaiting /\ a # "old")
  /\ UNCHANGED <<helperVars, dockerVars, reports, file, disk>>

(* reportSelfUpdateOutcome, called on start, after the helper's exit, and by *)
(* its own timer.                                                          *)
Reading(a) == agent[a] \in {"reading", "watching"}

NothingToReport(a) ==
  /\ Reading(a) /\ file = "none" /\ Process(a, "idle")
  /\ UNCHANGED <<helperVars, dockerVars, awaiting, reports, file, disk, faultVars>>

KeepWatching(a) ==
  /\ agent[a] = "reading" /\ file = "pending" /\ Process(a, "watching")
  /\ UNCHANGED <<helperVars, dockerVars, awaiting, reports, file, disk, faultVars>>

(* Past the time the helper could take, which starts with the helper.      *)
GiveUp(a) ==
  /\ Reading(a) /\ file = "pending"
  /\ \/ step \in {"gone", "dead"} /\ UNCHANGED faultVars
     \/ step \notin {"gone", "dead"} /\ Happens("overrun")
  /\ file' = "none" /\ Process(a, "idle")
  /\ UNCHANGED <<helperVars, dockerVars, awaiting, reports, disk>>

ReportOnStartOnly(a) ==
  /\ agent[a] = "reading" /\ file \in Decided
  /\ reports' = Append(reports, file) /\ Process(a, "idle") /\ file' = "none"
  /\ UNCHANGED <<helperVars, dockerVars, awaiting, disk, faultVars>>
Report(a) ==
  /\ Reading(a) /\ file \in Decided
  /\ reports' = Append(reports, file) /\ Process(a, "idle") /\ file' = "none"
  /\ UNCHANGED <<helperVars, dockerVars, awaiting, disk, faultVars>>

Helper ==
  \/ Inspect \/ ReadImage \/ SetAside \/ StopOld \/ CreateNew \/ StartNew
  \/ VerifyReplacement \/ UndoNew \/ UndoName \/ UndoOld \/ RemoveOld

Agent(a) == NothingToReport(a) \/ KeepWatching(a) \/ GiveUp(a) \/ Report(a)

Next ==
  \/ Helper \/ NewExits \/ HelperDies \/ DiskFills \/ Exited
  \/ \E a \in Agents : Agent(a) \/ AgentRestarts(a)

Spec == Init /\ [][Next]_vars

(* Docker answers every call, the verification has a deadline, and a timer  *)
(* that is set fires.                                                      *)
FairSpec == Spec /\ WF_vars(Helper) /\ WF_vars(Exited) /\ \A a \in Agents : WF_vars(Agent(a))

-----------------------------------------------------------------------------
(* An agent that can be started again is kept until the next one has proved *)
(* itself, also by a helper that dies in the middle; and since the two     *)
(* containers hold the same identity, while Docker carries out and answers *)
(* every call they never run at the same time, neither on the way forth nor *)
(* on the way back, whatever befalls helper, agents and disk.              *)
OneAgent ==
  /\ old = "absent" => proven
  /\ old = "running" /\ new = "running" => met \cap {"refused", "lost"} # {}

(* What the helper decides is how it leaves the host: a completed update has *)
(* the new agent running, a rollback has the old one running under its own  *)
(* name and the new one gone, where every answer of Docker arrives.  It is  *)
(* reported once, whichever of two agents finds it first, and as decided,  *)
(* never while it is pending.                                              *)
OutcomeTrue ==
  /\ Len(reports) <= 1 /\ \A i \in DOMAIN reports : reports[i] = outcome
  /\ outcome = "completed" => proven /\ new = "running"
  /\ outcome = "rolled-back" /\ "lost" \notin met
       => old = "running" /\ name = "original" /\ new = "absent"

(* An outcome that leaves an agent running is reported by it, by the new    *)
(* agent that was already up when the helper decided or by the old one,    *)
(* unless it could not be written, came too late, or came when the agent    *)
(* that asked for it had restarted and found nothing pending yet.          *)
OutcomeReported ==
  outcome \in {"completed", "rolled-back"} ~>
    (reports # <<>> \/ met \cap {"disk", "overrun", "restart"} # {})
=============================================================================
