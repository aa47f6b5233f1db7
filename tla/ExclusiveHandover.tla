-------------------------- MODULE ExclusiveHandover --------------------------
(***************************************************************************)
(* What the gate in front of an agent's Docker work promises: the host is  *)
(* handed over to the self-update helper only while nothing else is under  *)
(* way and stays with it alone until it gives up, and the process is ended *)
(* only by a helper that has the host to itself, or by one the agent has    *)
(* lost sight of while it ran.                                             *)
(***************************************************************************)
CONSTANT Units          \* the units of work an agent may have under way

VARIABLES
  busy,                 \* the units at work that have not asked for the handover
  mode,
  stray                 \* a helper runs that the agent no longer waits for

vars == <<busy, mode, stray>>

Mode == {"accepting", "draining", "handedOver", "gone"}

Init == busy = {} /\ mode = "accepting" /\ stray = FALSE

Begin(u)  == mode = "accepting" /\ busy' = busy \cup {u} /\ UNCHANGED <<mode, stray>>
End(u)    == mode # "gone" /\ busy' = busy \ {u} /\ UNCHANGED <<mode, stray>>

(* A unit asks for the handover, the first one or one that joins it.       *)
Ask(u) ==
  /\ mode \in {"accepting", "draining"} /\ mode' = "draining"
  /\ busy' = busy \ {u} /\ UNCHANGED stray

HandOver ==
  mode = "draining" /\ busy = {} /\ mode' = "handedOver" /\ UNCHANGED <<busy, stray>>

(* The only unit there is asks, and the host is handed over at once.       *)
AskAlone(u) ==
  mode = "accepting" /\ busy = {u} /\ busy' = {} /\ mode' = "handedOver" /\ UNCHANGED stray

(* The last unit in the way leaves, and the host is handed over at once.   *)
EndLast(u) ==
  mode = "draining" /\ busy = {u} /\ busy' = {} /\ mode' = "handedOver" /\ UNCHANGED stray

Resumed == mode' = "accepting" /\ \E S \in SUBSET Units : busy' = busy \cup S

(* Abandoned or failed: units that asked carry on with what they were at.  *)
TakeBack == mode \in {"draining", "handedOver"} /\ Resumed /\ UNCHANGED stray

(* The agent no longer knows what the helper does, and carries on as well.  *)
LoseSight == mode = "handedOver" /\ Resumed /\ stray' = TRUE

StrayEnds == stray /\ mode # "gone" /\ stray' = FALSE /\ UNCHANGED <<busy, mode>>

Stop ==
  /\ mode = "handedOver" \/ (stray /\ mode # "gone")
  /\ mode' = "gone" /\ UNCHANGED <<busy, stray>>

Next == \/ \E u \in Units : Begin(u) \/ End(u) \/ Ask(u) \/ AskAlone(u) \/ EndLast(u)
        \/ HandOver \/ TakeBack \/ LoseSight \/ StrayEnds \/ Stop

Spec == Init /\ [][Next]_vars
=============================================================================
