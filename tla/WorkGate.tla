------------------------------ MODULE WorkGate ------------------------------
(***************************************************************************)
(* client/src/core/WorkGate.ts: every Docker action and auto-update run of  *)
(* the agent is a unit of work, and the self-update that ends the process   *)
(* starts its helper only once no other unit is under way.                 *)
(*                                                                         *)
(* An action is one callback of the event loop together with the           *)
(* continuations of the promises it settles: those run before any other    *)
(* callback, so the end of replaceSelf (`parked--`) belongs to the step that *)
(* settles the promise it waits for.                                       *)
(***************************************************************************)
EXTENDS Naturals, FiniteSets

CONSTANTS
  Units,            \* the actions and runs the agent may have under way
  MaxHelpers        \* bound: helper containers started in one behaviour

ASSUME GateAssumption ==
  /\ IsFiniteSet(Units)
  /\ MaxHelpers \in Nat

VARIABLES
  active, parked,   \* WorkGate.active, WorkGate.parked
  gate,             \* WorkGate.state
  pending,          \* WorkGate.pending: null, or a promise unsettled or resolved
  armed,            \* onIdle is set, and with it the timer of idle()
  unit,             \* where each unit is
  watched,          \* the promise `exited` of the latest helper is unsettled
  helpers,          \* helper containers running
  started,          \* helper containers started so far
  alive             \* this process

vars == <<active, parked, gate, pending, armed, unit, watched, helpers, started, alive>>

In(place) == {u \in Units : unit[u] = place}

Init ==
  /\ active = 0 /\ parked = 0
  /\ gate = "open" /\ pending = "none" /\ armed = FALSE
  /\ unit = [u \in Units |-> "out"]
  /\ watched = FALSE /\ helpers = 0 /\ started = 0 /\ alive = TRUE

-----------------------------------------------------------------------------
(* tryEnter: refused, which changes nothing, unless the gate is open.      *)
EnterUnlessReplacing(u) ==
  /\ alive /\ unit[u] = "out" /\ gate # "replacing"
  /\ active' = active + 1 /\ unit' = [unit EXCEPT ![u] = "working"]
  /\ UNCHANGED <<parked, gate, pending, armed, watched, helpers, started, alive>>
Enter(u) ==
  /\ alive /\ unit[u] = "out" /\ gate = "open"
  /\ active' = active + 1 /\ unit' = [unit EXCEPT ![u] = "working"]
  /\ UNCHANGED <<parked, gate, pending, armed, watched, helpers, started, alive>>

(* checkIdle, on the counts a step leaves behind, where idle() is waiting   *)
(* or just begins to: the helper's start follows as soon as nothing is busy. *)
CheckIdle(waiting) ==
  LET idle == waiting /\ active' <= parked' IN
  /\ armed' = (waiting /\ ~idle)
  /\ gate'  = CASE idle -> "replacing" [] waiting /\ ~idle -> "waiting" [] OTHER -> gate

(* The function tryEnter handed out; called a second time it does nothing. *)
Leave(u) ==
  /\ alive /\ unit[u] = "working"
  /\ active' = active - 1 /\ unit' = [unit EXCEPT ![u] = "out"] /\ UNCHANGED parked
  /\ CheckIdle(armed)
  /\ UNCHANGED <<pending, watched, helpers, started, alive>>

(* replaceSelf, called by a unit that recreates the agent's own container:  *)
(* the first call starts the wait, another one joins it.  A call while the  *)
(* helper runs finds the promise resolved and returns at once.             *)
ReplaceSelf(u) ==
  /\ alive /\ unit[u] = "working" /\ pending # "resolved"
  /\ parked' = parked + 1 /\ unit' = [unit EXCEPT ![u] = "parked"] /\ UNCHANGED active
  /\ \/ pending = "none" /\ pending' = "unsettled" /\ CheckIdle(TRUE)
     \/ pending = "unsettled" /\ UNCHANGED <<pending, gate, armed>>
  /\ UNCHANGED <<watched, helpers, started, alive>>

(* The promise settles, and every call that waits for it returns.          *)
Return ==
  /\ parked' = 0
  /\ unit' = [u \in Units |-> IF unit[u] = "parked" THEN "working" ELSE unit[u]]

Reopen == gate' = "open" /\ pending' = "none"

(* selfUpdateWaitSeconds are over and other work is still running.         *)
AbandonUnsettled ==
  /\ alive /\ armed /\ armed' = FALSE
  /\ UNCHANGED <<active, parked, gate, pending, unit, watched, helpers, started, alive>>
Abandon ==
  /\ alive /\ armed
  /\ armed' = FALSE /\ Reopen /\ Return
  /\ UNCHANGED <<active, watched, helpers, started, alive>>

Spawning == alive /\ gate = "replacing" /\ pending = "unsettled"

(* spawn(): the helper container has been started, or could not be.        *)
Spawn ==
  /\ Spawning /\ started < MaxHelpers
  /\ pending' = "resolved" /\ Return
  /\ helpers' = helpers + 1 /\ started' = started + 1 /\ watched' = TRUE
  /\ UNCHANGED <<active, gate, armed, alive>>

SpawnFails ==
  /\ Spawning /\ Reopen /\ Return
  /\ UNCHANGED <<active, armed, watched, helpers, started, alive>>

(* `exited` settles: the helper is gone, or only the call that waits for it. *)
Exited(gone) ==
  /\ alive /\ watched /\ helpers > 0
  /\ watched' = FALSE /\ Reopen
  /\ helpers' = IF gone THEN helpers - 1 ELSE helpers
  /\ UNCHANGED <<active, parked, armed, unit, started, alive>>

HelperGivesUp == Exited(TRUE)
WaitRejected  == Exited(FALSE)

Stray == helpers > (IF watched THEN 1 ELSE 0)

(* A helper nobody waits for any more gives up.                            *)
HelperGivesUpUnseen ==
  /\ alive /\ Stray /\ helpers' = helpers - 1
  /\ UNCHANGED <<active, parked, gate, pending, armed, unit, watched, started, alive>>

(* The helper stops this container, whatever the process is doing.         *)
HelperStops ==
  /\ alive /\ helpers > 0 /\ alive' = FALSE
  /\ UNCHANGED <<active, parked, gate, pending, armed, unit, watched, helpers, started>>

Next ==
  \/ \E u \in Units : Enter(u) \/ Leave(u) \/ ReplaceSelf(u)
  \/ Abandon \/ Spawn \/ SpawnFails
  \/ HelperGivesUp \/ WaitRejected \/ HelperGivesUpUnseen \/ HelperStops

Spec == Init /\ [][Next]_vars

(* The timer fires, Docker answers a call, and a helper comes to an end;   *)
(* that a unit ever leaves is not assumed.                                 *)
Fairness ==
  /\ WF_vars(Abandon)
  /\ WF_vars(Spawn \/ SpawnFails)
  /\ WF_vars(HelperGivesUp \/ HelperStops)

FairSpec == Spec /\ Fairness

-----------------------------------------------------------------------------
TypeOK ==
  /\ active \in Nat /\ parked \in Nat
  /\ gate \in {"open", "waiting", "replacing"}
  /\ pending \in {"none", "unsettled", "resolved"}
  /\ armed \in BOOLEAN /\ watched \in BOOLEAN /\ alive \in BOOLEAN
  /\ unit \in [Units -> {"out", "working", "parked"}]
  /\ helpers \in Nat /\ started \in Nat

(* The counters the gate decides by are the units there are: a unit counts  *)
(* once from tryEnter to the call of its leave function, and is parked from  *)
(* the call of replaceSelf to its return.                                  *)
CountsExact ==
  /\ active = Cardinality(In("working")) + Cardinality(In("parked"))
  /\ parked = Cardinality(In("parked"))

(* The gate is closed exactly while a self-update is under way, and idle()  *)
(* waits exactly while it says so: no failed attempt leaves the agent       *)
(* refusing work for good, none leaves a settled promise for the next to join. *)
GateFollowsUpdate ==
  /\ gate = "open" <=> pending = "none"
  /\ gate = "waiting" <=> armed
  /\ pending = "resolved" <=> watched
  /\ watched => gate = "replacing" /\ In("parked") = {}

(* A helper is started only when no unit but those that asked for it is at   *)
(* work, nothing enters until it is known to have given up, and the process  *)
(* is ended by it alone, or by one whose wait failed while it ran.         *)
Handover == INSTANCE ExclusiveHandover WITH
  busy <- IF pending = "resolved" THEN {} ELSE In("working"),
  mode <- CASE ~alive -> "gone" [] alive /\ gate = "open" -> "accepting"
            [] alive /\ gate = "waiting" -> "draining"
            [] OTHER -> "handedOver",
  stray <- Stray
ImplementsHandover == Handover!Spec

(* Every call of replaceSelf returns, and a gate that was closed opens again  *)
(* or the agent is replaced, even if no unit ever leaves.                  *)
AlwaysAnswered ==
  /\ \A u \in Units : (alive /\ unit[u] = "parked") ~> (unit[u] # "parked" \/ ~alive)
  /\ (gate # "open") ~> (gate = "open" \/ ~alive)
=============================================================================
