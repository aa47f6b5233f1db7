--------------------------- MODULE WorkGateProofs ---------------------------
(***************************************************************************)
(* What WorkGate guarantees for any finite number of units: its counters   *)
(* are exact, the gate never stays closed without a self-update, and the   *)
(* helper gets the host to itself (ExclusiveHandover). And what the actions *)
(* behind the gate guarantee: an operation that has the container to itself *)
(* has exactly its own events under its id, and a first health status goes  *)
(* to the operation that started the container.                            *)
(***************************************************************************)
EXTENDS ActionScopes, FiniteSetTheorems, SequenceTheorems, WellFoundedInduction, TLAPS

(* The places a unit can be in are disjoint finite sets.                   *)
LEMMA Places ==
  ASSUME TypeOK
  PROVE  /\ IsFiniteSet(In("working")) /\ IsFiniteSet(In("parked"))
         /\ In("working") \cap In("parked") = {}
         /\ Cardinality(In("working")) \in Nat /\ Cardinality(In("parked")) \in Nat
<1>1. In("working") \subseteq Units /\ In("parked") \subseteq Units
  BY DEF In
<1>2. IsFiniteSet(In("working")) /\ IsFiniteSet(In("parked"))
  BY <1>1, FS_Subset, GateAssumption DEF GateAssumption
<1>3. In("working") \cap In("parked") = {}
  BY DEF In
<1> QED BY <1>2, <1>3, FS_CardinalityType

(* What a step of one unit, or the return of all parked ones, does to them. *)
LEMMA Moves ==
  ASSUME TypeOK
  PROVE  /\ \A u \in Units : unit[u] = "out" /\ unit' = [unit EXCEPT ![u] = "working"]
              => /\ In("working")' = In("working") \cup {u} /\ u \notin In("working")
                 /\ In("parked")' = In("parked")
         /\ \A u \in Units : unit[u] = "working" /\ unit' = [unit EXCEPT ![u] = "out"]
              => /\ In("working")' = In("working") \ {u} /\ u \in In("working")
                 /\ In("parked")' = In("parked")
         /\ \A u \in Units : unit[u] = "working" /\ unit' = [unit EXCEPT ![u] = "parked"]
              => /\ In("working")' = In("working") \ {u} /\ u \in In("working")
                 /\ In("parked")' = In("parked") \cup {u} /\ u \notin In("parked")
         /\ Return => /\ In("working")' = In("working") \cup In("parked")
                      /\ In("parked")' = {}
         /\ unit' = unit => In("working")' = In("working") /\ In("parked")' = In("parked")
<1> USE DEF In
<1>1. ASSUME NEW u \in Units, unit[u] = "out", unit' = [unit EXCEPT ![u] = "working"]
      PROVE  /\ In("working")' = In("working") \cup {u} /\ u \notin In("working")
             /\ In("parked")' = In("parked")
  BY <1>1 DEF TypeOK
<1>2. ASSUME NEW u \in Units, unit[u] = "working", unit' = [unit EXCEPT ![u] = "out"]
      PROVE  /\ In("working")' = In("working") \ {u} /\ u \in In("working")
             /\ In("parked")' = In("parked")
  BY <1>2 DEF TypeOK
<1>3. ASSUME NEW u \in Units, unit[u] = "working", unit' = [unit EXCEPT ![u] = "parked"]
      PROVE  /\ In("working")' = In("working") \ {u} /\ u \in In("working")
             /\ In("parked")' = In("parked") \cup {u} /\ u \notin In("parked")
  BY <1>3 DEF TypeOK
<1>4. ASSUME Return
      PROVE  /\ In("working")' = In("working") \cup In("parked")
             /\ In("parked")' = {}
  BY <1>4 DEF TypeOK, Return
<1>5. unit' = unit => In("working")' = In("working") /\ In("parked")' = In("parked")
  OBVIOUS
<1> QED BY <1>1, <1>2, <1>3, <1>4, <1>5

-----------------------------------------------------------------------------
LEMMA TypeInit == Init => TypeOK
<1> SUFFICES ASSUME Init PROVE TypeOK
  OBVIOUS
<1>1. armed \in BOOLEAN /\ watched \in BOOLEAN /\ alive \in BOOLEAN
  BY Zenon DEF Init
<1>2. unit \in [Units -> {"out", "working", "parked"}]
  BY DEF Init
<1>3. active \in Nat /\ parked \in Nat /\ helpers \in Nat /\ started \in Nat
  BY DEF Init
<1>4. gate \in {"open", "waiting", "replacing"} /\ pending \in {"none", "unsettled", "resolved"}
  BY DEF Init
<1> QED BY <1>1, <1>2, <1>3, <1>4 DEF TypeOK

(* checkIdle leaves the gate in one of its states.                         *)
LEMMA IdleTypes ==
  ASSUME TypeOK, NEW waiting \in BOOLEAN, CheckIdle(waiting)
  PROVE  armed' \in BOOLEAN /\ gate' \in {"open", "waiting", "replacing"}
<1> DEFINE idle == waiting /\ active' <= parked'
<1>1. armed' = (waiting /\ ~idle)
  BY DEF CheckIdle
<1>2. gate' \in {"open", "waiting", "replacing"}
  BY DEF CheckIdle, TypeOK
<1>3. armed' \in BOOLEAN
  BY <1>1, Zenon
<1> QED BY <1>2, <1>3

LEMMA TypeStep == TypeOK /\ CountsExact /\ [Next]_vars => TypeOK'
<1> SUFFICES ASSUME TypeOK, CountsExact, [Next]_vars PROVE TypeOK'
  OBVIOUS
<1> USE DEF TypeOK
<1>1. ASSUME NEW u \in Units, Enter(u) PROVE TypeOK'
  BY <1>1 DEF Enter
<1>2. ASSUME NEW u \in Units, Leave(u) PROVE TypeOK'
  <2>1. u \in In("working") /\ IsFiniteSet(In("working"))
    BY <1>2, Places DEF Leave, In
  <2>2. Cardinality(In("working")) # 0
    BY <2>1, FS_EmptySet
  <2>3. active - 1 \in Nat
    BY <2>2, Places DEF CountsExact
  <2>4. armed' \in BOOLEAN /\ gate' \in {"open", "waiting", "replacing"}
    BY <1>2, IdleTypes DEF Leave
  <2> QED BY <1>2, <2>3, <2>4 DEF Leave
<1>3. ASSUME NEW u \in Units, ReplaceSelf(u) PROVE TypeOK'
  <2>1. armed' \in BOOLEAN /\ gate' \in {"open", "waiting", "replacing"}
    BY <1>3, IdleTypes DEF ReplaceSelf
  <2>2. unit' \in [Units -> {"out", "working", "parked"}]
    BY <1>3 DEF ReplaceSelf
  <2>3. pending' \in {"none", "unsettled", "resolved"}
    BY <1>3 DEF ReplaceSelf
  <2> QED BY <1>3, <2>1, <2>2, <2>3 DEF ReplaceSelf
<1>4. CASE Abandon
  BY <1>4 DEF Abandon, Reopen, Return
<1>5. CASE Spawn
  BY <1>5 DEF Spawn, Return
<1>6. CASE SpawnFails
  BY <1>6 DEF SpawnFails, Reopen, Return
<1>7. ASSUME NEW gone \in BOOLEAN, Exited(gone) PROVE TypeOK'
  <2>1. helpers' \in Nat
    BY <1>7 DEF Exited
  <2>2. watched' \in BOOLEAN /\ alive' \in BOOLEAN
    BY <1>7, Zenon DEF Exited
  <2> QED BY <1>7, <2>1, <2>2 DEF Exited, Reopen
<1>8. CASE HelperGivesUpUnseen
  BY <1>8 DEF HelperGivesUpUnseen, Stray
<1>9. CASE HelperStops
  BY <1>9 DEF HelperStops
<1>10. CASE UNCHANGED vars
  BY <1>10 DEF vars
<1> QED BY <1>1, <1>2, <1>3, <1>4, <1>5, <1>6, <1>7, <1>8, <1>9, <1>10
        DEF Next, HelperGivesUp, WaitRejected

LEMMA CountsStep == TypeOK /\ CountsExact /\ [Next]_vars => CountsExact'
<1> SUFFICES ASSUME TypeOK, CountsExact, [Next]_vars PROVE CountsExact'
  OBVIOUS
<1> DEFINE W == In("working")  P == In("parked")
<1>f. IsFiniteSet(W) /\ IsFiniteSet(P) /\ W \cap P = {} /\ Cardinality(W) \in Nat /\ Cardinality(P) \in Nat
  BY Places
<1>c. active = Cardinality(W) + Cardinality(P) /\ parked = Cardinality(P)
  BY DEF CountsExact
<1>g. CountsExact' <=> active' = Cardinality(W') + Cardinality(P') /\ parked' = Cardinality(P')
  BY DEF CountsExact
<1>1. ASSUME NEW u \in Units, Enter(u) PROVE CountsExact'
  <2>1. W' = W \cup {u} /\ u \notin W /\ P' = P
    BY <1>1, Moves DEF Enter
  <2>2. Cardinality(W') = Cardinality(W) + 1
    BY <2>1, <1>f, FS_AddElement
  <2>3. active' = active + 1 /\ parked' = parked
    BY <1>1 DEF Enter
  <2> HIDE DEF W, P
  <2> QED BY <2>1, <2>2, <2>3, <1>c, <1>f, <1>g
<1>2. ASSUME NEW u \in Units, Leave(u) PROVE CountsExact'
  <2>1. W' = W \ {u} /\ u \in W /\ P' = P
    BY <1>2, Moves DEF Leave
  <2>2. Cardinality(W') = Cardinality(W) - 1
    BY <2>1, <1>f, FS_RemoveElement
  <2>3. active' = active - 1 /\ parked' = parked
    BY <1>2 DEF Leave
  <2> HIDE DEF W, P
  <2> QED BY <2>1, <2>2, <2>3, <1>c, <1>f, <1>g
<1>3. ASSUME NEW u \in Units, ReplaceSelf(u) PROVE CountsExact'
  <2>1. W' = W \ {u} /\ u \in W /\ P' = P \cup {u} /\ u \notin P
    BY <1>3, Moves DEF ReplaceSelf
  <2>2. Cardinality(W') = Cardinality(W) - 1 /\ Cardinality(P') = Cardinality(P) + 1
    BY <2>1, <1>f, FS_RemoveElement, FS_AddElement
  <2>3. active' = active /\ parked' = parked + 1
    BY <1>3 DEF ReplaceSelf
  <2> HIDE DEF W, P
  <2> QED BY <2>2, <2>3, <1>c, <1>f, <1>g
<1>4. ASSUME Return, active' = active PROVE CountsExact'
  <2>1. W' = W \cup P /\ P' = {}
    BY <1>4, Moves
  <2>2. Cardinality(W') = Cardinality(W) + Cardinality(P) - Cardinality(W \cap P)
    BY <2>1, <1>f, FS_Union
  <2>3. Cardinality(W \cap P) = 0 /\ Cardinality(P') = 0
    BY <2>1, <1>f, FS_EmptySet
  <2>4. parked' = 0
    BY <1>4 DEF Return
  <2> HIDE DEF W, P
  <2> QED BY <2>2, <2>3, <2>4, <1>4, <1>c, <1>f, <1>g
<1>5. ASSUME UNCHANGED <<active, parked, unit>> PROVE CountsExact'
  BY <1>5, Moves, <1>c, <1>g
<1> QED BY <1>1, <1>2, <1>3, <1>4, <1>5
        DEF Next, vars, Abandon, Spawn, SpawnFails, HelperGivesUp, WaitRejected, Exited,
            HelperGivesUpUnseen, HelperStops

(* TypeOK holds in every state: no counter of the gate ever leaves Nat.    *)
THEOREM TypeCorrect == Spec => []TypeOK
<1>1. Init => TypeOK /\ CountsExact
  <2>1. Init => In("working") = {} /\ In("parked") = {}
    BY DEF Init, In
  <2> QED BY <2>1, TypeInit, FS_EmptySet DEF Init, CountsExact
<1>2. TypeOK /\ CountsExact /\ [Next]_vars => (TypeOK /\ CountsExact)'
  BY TypeStep, CountsStep
<1> QED BY <1>1, <1>2, PTL DEF Spec

(* The counters are the units there are, however they enter, park, return   *)
(* and leave.                                                              *)
THEOREM Counted == Spec => []CountsExact
<1>1. Init => CountsExact
  <2>1. Init => In("working") = {} /\ In("parked") = {}
    BY DEF Init, In
  <2> QED BY <2>1, FS_EmptySet DEF Init, CountsExact
<1>2. TypeOK /\ CountsExact /\ [Next]_vars => CountsExact'
  BY CountsStep
<1> QED BY <1>1, <1>2, TypeCorrect, PTL DEF Spec

-----------------------------------------------------------------------------
(* While nothing is left to wait for, no unit is at work: the helper is     *)
(* being started because the gate saw it had the host to itself.           *)
Exclusive == gate = "replacing" /\ pending = "unsettled" => In("working") = {}

FollowInv == TypeOK /\ CountsExact /\ GateFollowsUpdate

(* What checkIdle finds: no more active than parked means nobody at work.   *)
LEMMA IdleMeansNoneWorking ==
  ASSUME TypeOK', CountsExact'
  PROVE  active' <= parked' => In("working")' = {}
<1>1. IsFiniteSet(In("working")') /\ Cardinality(In("working")') \in Nat /\ Cardinality(In("parked")') \in Nat
  <2>1. In("working")' \subseteq Units /\ In("parked")' \subseteq Units
    BY DEF In
  <2> QED BY <2>1, FS_Subset, FS_CardinalityType, GateAssumption DEF GateAssumption
<1>2. active' = Cardinality(In("working")') + Cardinality(In("parked")') /\ parked' = Cardinality(In("parked")')
  BY DEF CountsExact
<1>3. active' <= parked' => Cardinality(In("working")') = 0
  BY <1>1, <1>2
<1> QED BY <1>1, <1>3, FS_EmptySet

LEMMA FollowStep == FollowInv /\ [Next]_vars => GateFollowsUpdate'
<1> SUFFICES ASSUME TypeOK, CountsExact, GateFollowsUpdate, [Next]_vars PROVE GateFollowsUpdate'
  BY DEF FollowInv
<1> USE DEF GateFollowsUpdate
<1>t. /\ gate \in {"open", "waiting", "replacing"} /\ pending \in {"none", "unsettled", "resolved"}
      /\ armed \in BOOLEAN /\ watched \in BOOLEAN /\ alive \in BOOLEAN
  BY DEF TypeOK
<1>1. ASSUME NEW u \in Units, Enter(u) PROVE GateFollowsUpdate'
  <2>1. In("parked")' = In("parked")
    BY <1>1, Moves DEF Enter
  <2> QED BY <1>1, <2>1 DEF Enter
<1>2. ASSUME NEW u \in Units, Leave(u) PROVE GateFollowsUpdate'
  <2>1. In("parked")' = In("parked")
    BY <1>2, Moves DEF Leave
  <2>2. /\ armed' <=> gate' = "waiting"
        /\ gate' = "open" <=> gate = "open"
        /\ gate = "replacing" => gate' = "replacing"
    BY <1>2, <1>t DEF Leave, CheckIdle
  <2> QED BY <1>2, <2>1, <2>2 DEF Leave
<1>3. ASSUME NEW u \in Units, ReplaceSelf(u) PROVE GateFollowsUpdate'
  <2>1. CASE pending = "unsettled"
    BY <1>3, <2>1, <1>t DEF ReplaceSelf
  <2>2. CASE pending = "none"
    <3>1. (armed' <=> gate' = "waiting") /\ gate' # "open"
      BY <1>3, <2>2 DEF ReplaceSelf, CheckIdle
    <3>2. pending' = "unsettled" /\ watched' = watched /\ ~watched
      BY <1>3, <2>2 DEF ReplaceSelf
    <3> QED BY <3>1, <3>2
  <2> QED BY <1>3, <2>1, <2>2 DEF ReplaceSelf
<1>4. CASE Abandon
  BY <1>4, <1>t DEF Abandon, Reopen
<1>5. CASE Spawn
  <2>1. In("parked")' = {}
    BY <1>5, Moves DEF Spawn
  <2> QED BY <1>5, <2>1, <1>t DEF Spawn, Spawning
<1>6. CASE SpawnFails
  BY <1>6, <1>t DEF SpawnFails, Reopen, Spawning
<1>7. ASSUME NEW gone \in BOOLEAN, Exited(gone) PROVE GateFollowsUpdate'
  BY <1>7, <1>t DEF Exited, Reopen
<1>8. CASE HelperGivesUpUnseen
  BY <1>8, Moves DEF HelperGivesUpUnseen
<1>9. CASE HelperStops
  BY <1>9, Moves DEF HelperStops
<1>10. CASE UNCHANGED vars
  BY <1>10, Moves DEF vars
<1> QED BY <1>1, <1>2, <1>3, <1>4, <1>5, <1>6, <1>7, <1>8, <1>9, <1>10
        DEF Next, HelperGivesUp, WaitRejected

(* The gate is closed exactly while a self-update is under way: no attempt  *)
(* that fails leaves the agent refusing work.                              *)
THEOREM Follows == Spec => []GateFollowsUpdate
<1>1. Init => GateFollowsUpdate
  BY DEF Init, GateFollowsUpdate
<1>2. TypeOK /\ CountsExact /\ GateFollowsUpdate /\ [Next]_vars => GateFollowsUpdate'
  BY FollowStep DEF FollowInv
<1> QED BY <1>1, <1>2, TypeCorrect, Counted, PTL DEF Spec

-----------------------------------------------------------------------------
(* The helper whose end the gate waits for is one of those running.        *)
WatchedRuns == watched => helpers > 0

HandoverInv == FollowInv /\ Exclusive /\ WatchedRuns

LEMMA ExclusiveStep == FollowInv /\ Exclusive /\ [Next]_vars => Exclusive'
<1> SUFFICES ASSUME FollowInv, Exclusive, [Next]_vars PROVE Exclusive'
  OBVIOUS
<1>t. TypeOK /\ CountsExact /\ GateFollowsUpdate /\ TypeOK' /\ CountsExact' /\ GateFollowsUpdate'
  BY TypeStep, CountsStep, FollowStep DEF FollowInv
<1> USE DEF Exclusive
<1>1. ASSUME NEW u \in Units, Enter(u) PROVE Exclusive'
  BY <1>1 DEF Enter
<1>2. ASSUME NEW u \in Units, Leave(u) PROVE Exclusive'
  <2>1. CASE active' <= parked'
    BY <2>1, <1>t, IdleMeansNoneWorking
  <2>2. CASE ~(active' <= parked')
    <3>1. gate' = "replacing" => gate = "replacing" /\ pending' = pending
      BY <1>2, <2>2 DEF Leave, CheckIdle
    <3>2. In("working")' \subseteq In("working")
      BY <1>2, <1>t, Moves DEF Leave
    <3> QED BY <3>1, <3>2
  <2> QED BY <2>1, <2>2
<1>3. ASSUME NEW u \in Units, ReplaceSelf(u) PROVE Exclusive'
  <2>1. CASE active' <= parked'
    BY <2>1, <1>t, IdleMeansNoneWorking
  <2>2. CASE ~(active' <= parked')
    <3>1. gate' = "replacing" => gate = "replacing" /\ pending = "unsettled"
      BY <1>3, <2>2 DEF ReplaceSelf, CheckIdle
    <3>2. In("working")' \subseteq In("working")
      BY <1>3, <1>t, Moves DEF ReplaceSelf
    <3> QED BY <3>1, <3>2
  <2> QED BY <2>1, <2>2
<1>4. CASE Abandon
  BY <1>4 DEF Abandon, Reopen
<1>5. CASE Spawn
  BY <1>5 DEF Spawn
<1>6. CASE SpawnFails
  BY <1>6 DEF SpawnFails, Reopen
<1>7. ASSUME NEW gone \in BOOLEAN, Exited(gone) PROVE Exclusive'
  BY <1>7 DEF Exited, Reopen
<1>8. CASE HelperGivesUpUnseen
  BY <1>8, <1>t, Moves DEF HelperGivesUpUnseen
<1>9. CASE HelperStops
  BY <1>9, <1>t, Moves DEF HelperStops
<1>10. CASE UNCHANGED vars
  BY <1>10, <1>t, Moves DEF vars
<1> QED BY <1>1, <1>2, <1>3, <1>4, <1>5, <1>6, <1>7, <1>8, <1>9, <1>10
        DEF Next, HelperGivesUp, WaitRejected

LEMMA WatchedStep == TypeOK /\ WatchedRuns /\ [Next]_vars => WatchedRuns'
<1> SUFFICES ASSUME TypeOK, WatchedRuns, [Next]_vars PROVE WatchedRuns'
  OBVIOUS
<1> USE DEF WatchedRuns
<1>1. ASSUME NEW u \in Units, Enter(u) PROVE WatchedRuns'
  BY <1>1 DEF Enter
<1>2. ASSUME NEW u \in Units, Leave(u) PROVE WatchedRuns'
  BY <1>2 DEF Leave
<1>3. ASSUME NEW u \in Units, ReplaceSelf(u) PROVE WatchedRuns'
  BY <1>3 DEF ReplaceSelf
<1>4. CASE Abandon
  BY <1>4 DEF Abandon
<1>5. CASE Spawn
  BY <1>5 DEF Spawn, TypeOK
<1>6. CASE SpawnFails
  BY <1>6 DEF SpawnFails
<1>7. ASSUME NEW gone \in BOOLEAN, Exited(gone) PROVE WatchedRuns'
  BY <1>7 DEF Exited
<1>8. CASE HelperGivesUpUnseen
  BY <1>8 DEF HelperGivesUpUnseen, Stray, TypeOK
<1>9. CASE HelperStops
  BY <1>9 DEF HelperStops
<1>10. CASE UNCHANGED vars
  BY <1>10 DEF vars
<1> QED BY <1>1, <1>2, <1>3, <1>4, <1>5, <1>6, <1>7, <1>8, <1>9, <1>10
        DEF Next, HelperGivesUp, WaitRejected

(* The mapped state of Handover, named for the proof.                      *)
Busy == IF pending = "resolved" THEN {} ELSE In("working")
Phase == CASE ~alive -> "gone" [] alive /\ gate = "open" -> "accepting"
           [] alive /\ gate = "waiting" -> "draining"
           [] OTHER -> "handedOver"

AbstractNext ==
  \/ \E u \in Units :
       \/ Phase = "accepting" /\ Busy' = Busy \cup {u} /\ Phase' = Phase /\ Stray' = Stray
       \/ Phase # "gone" /\ Busy' = Busy \ {u} /\ Phase' = Phase /\ Stray' = Stray
       \/ /\ Phase \in {"accepting", "draining"} /\ Phase' = "draining"
          /\ Busy' = Busy \ {u} /\ Stray' = Stray
       \/ /\ Phase = "accepting" /\ Phase' = "handedOver"
          /\ Busy = {u} /\ Busy' = {} /\ Stray' = Stray
       \/ /\ Phase = "draining" /\ Phase' = "handedOver"
          /\ Busy = {u} /\ Busy' = {} /\ Stray' = Stray
  \/ /\ Phase \in {"draining", "handedOver"} /\ Phase' = "accepting" /\ Stray' = Stray
     /\ \E S \in SUBSET Units : Busy' = Busy \cup S
  \/ /\ Phase = "handedOver" /\ Phase' = "accepting" /\ Stray' = TRUE
     /\ \E S \in SUBSET Units : Busy' = Busy \cup S
  \/ Stray /\ Phase # "gone" /\ Stray' = FALSE /\ Busy' = Busy /\ Phase' = Phase
  \/ /\ Phase = "handedOver" \/ (Stray /\ Phase # "gone")
     /\ Phase' = "gone" /\ Busy' = Busy /\ Stray' = Stray
  \/ Busy' = Busy /\ Phase' = Phase /\ Stray' = Stray

LEMMA AbstractNextRefines == AbstractNext => [Handover!Next]_(Handover!vars)
BY DEF AbstractNext, Busy, Phase, Handover!Next, Handover!vars, Handover!Begin, Handover!End,
       Handover!Ask, Handover!AskAlone, Handover!EndLast, Handover!TakeBack, Handover!Resumed,
       Handover!LoseSight, Handover!StrayEnds, Handover!Stop

LEMMA HandoverStep ==
  ASSUME HandoverInv, [Next]_vars
  PROVE  AbstractNext
<1>t. /\ TypeOK /\ CountsExact /\ GateFollowsUpdate /\ Exclusive /\ WatchedRuns
      /\ TypeOK' /\ CountsExact'
  BY TypeStep, CountsStep DEF HandoverInv, FollowInv
<1>g. /\ gate \in {"open", "waiting", "replacing"} /\ pending \in {"none", "unsettled", "resolved"}
      /\ alive \in BOOLEAN /\ armed \in BOOLEAN
      /\ In("working")' \subseteq Units
  BY <1>t DEF TypeOK, In
<1>1. ASSUME NEW u \in Units, Enter(u) PROVE AbstractNext
  <2>1. In("working")' = In("working") \cup {u}
    BY <1>1, <1>t, Moves DEF Enter
  <2>2. Busy' = Busy \cup {u} /\ pending = "none"
    BY <1>1, <2>1, <1>t DEF Enter, Busy, GateFollowsUpdate
  <2>3. Phase = "accepting" /\ Phase' = Phase
    BY <1>1 DEF Enter, Phase
  <2>4. Stray' = Stray
    BY <1>1 DEF Enter, Stray
  <2> QED BY <2>2, <2>3, <2>4 DEF AbstractNext
<1>2. ASSUME NEW u \in Units, Leave(u) PROVE AbstractNext
  <2>1. In("working")' = In("working") \ {u} /\ u \in In("working") /\ pending' = pending
    BY <1>2, <1>t, Moves DEF Leave
  <2>s. Stray' = Stray
    BY <1>2 DEF Leave, Stray
  <2>2. CASE armed /\ active' <= parked'
    <3>1. In("working")' = {}
      BY <2>2, <1>t, IdleMeansNoneWorking
    <3>2. Phase = "draining" /\ Phase' = "handedOver"
      BY <1>2, <2>2, <1>t DEF Leave, CheckIdle, Phase, GateFollowsUpdate
    <3>3. Busy = {u} /\ Busy' = {}
      BY <2>1, <2>2, <3>1, <1>t DEF Busy, GateFollowsUpdate
    <3> QED BY <2>s, <3>2, <3>3 DEF AbstractNext
  <2>3. CASE ~(armed /\ active' <= parked')
    <3>1. gate' = gate /\ alive' = alive /\ alive
      BY <1>2, <2>3, <1>t, <1>g DEF Leave, CheckIdle, GateFollowsUpdate
    <3>2. Phase' = Phase /\ Phase # "gone"
      BY <3>1, <1>g DEF Phase
    <3>3. Busy' = Busy \ {u}
      BY <2>1 DEF Busy
    <3> QED BY <2>s, <3>2, <3>3 DEF AbstractNext
  <2> QED BY <2>2, <2>3
<1>3. ASSUME NEW u \in Units, ReplaceSelf(u) PROVE AbstractNext
  <2>1. In("working")' = In("working") \ {u} /\ u \in In("working")
    BY <1>3, <1>t, Moves DEF ReplaceSelf
  <2>s. Stray' = Stray
    BY <1>3 DEF ReplaceSelf, Stray
  <2>2. Busy' = Busy \ {u} /\ u \in Busy
    BY <1>3, <2>1 DEF ReplaceSelf, Busy
  <2>3. CASE pending = "none" /\ active' <= parked'
    <3>1. In("working")' = {}
      BY <2>3, <1>t, IdleMeansNoneWorking
    <3>2. Phase = "accepting" /\ Phase' = "handedOver"
      BY <1>3, <2>3, <1>t DEF ReplaceSelf, CheckIdle, Phase, GateFollowsUpdate
    <3>3. Busy = {u} /\ Busy' = {}
      BY <1>3, <2>1, <2>3, <3>1 DEF Busy, ReplaceSelf
    <3> QED BY <2>s, <3>2, <3>3 DEF AbstractNext
  <2>4. CASE pending = "none" /\ ~(active' <= parked')
    <3>1. Phase = "accepting" /\ Phase' = "draining"
      BY <1>3, <2>4, <1>t DEF ReplaceSelf, CheckIdle, Phase, GateFollowsUpdate
    <3> QED BY <2>s, <2>2, <3>1 DEF AbstractNext
  <2>5. CASE pending = "unsettled"
    <3>1. gate = "waiting"
      BY <2>1, <2>5, <1>t, <1>g DEF Exclusive, GateFollowsUpdate
    <3>2. Phase = "draining" /\ Phase' = "draining"
      BY <1>3, <2>5, <3>1 DEF ReplaceSelf, Phase
    <3> QED BY <2>s, <2>2, <3>2 DEF AbstractNext
  <2> QED BY <1>3, <2>3, <2>4, <2>5, <1>g DEF ReplaceSelf
<1>4. ASSUME Return, Reopen, alive, alive' = alive, gate # "open", Stray' = Stray PROVE AbstractNext
  <2>1. In("working")' = In("working") \cup In("parked") /\ In("parked") \in SUBSET Units
    BY <1>4, <1>t, Moves DEF In
  <2>2. Phase \in {"draining", "handedOver"} /\ Phase' = "accepting"
    BY <1>4, <1>g DEF Phase, Reopen
  <2>3. Busy' = Busy \cup In("working")'
    BY <1>4, <2>1 DEF Busy, Reopen
  <2> QED BY <1>4, <2>2, <2>3, <1>g DEF AbstractNext
<1>5. CASE Abandon
  <2>1. Stray' = Stray
    BY <1>5 DEF Abandon, Stray
  <2> QED BY <1>4, <1>5, <1>t, <2>1 DEF Abandon, GateFollowsUpdate
<1>6. CASE SpawnFails
  <2>1. Stray' = Stray
    BY <1>6 DEF SpawnFails, Stray
  <2> QED BY <1>4, <1>6, <2>1 DEF SpawnFails, Spawning
<1>7. CASE Spawn
  <2>1. Busy = {} /\ Busy' = {}
    BY <1>7, <1>t DEF Spawn, Spawning, Busy, Exclusive
  <2>2. Phase' = Phase
    BY <1>7 DEF Spawn, Phase
  <2>3. ~watched /\ watched' /\ helpers' = helpers + 1 /\ helpers \in Nat
    BY <1>7, <1>t DEF Spawn, Spawning, GateFollowsUpdate, TypeOK
  <2>4. Stray' = Stray
    BY <2>3 DEF Stray
  <2> QED BY <2>1, <2>2, <2>4 DEF AbstractNext
<1>8. ASSUME NEW gone \in BOOLEAN, Exited(gone) PROVE AbstractNext
  <2>1. In("working")' = In("working")
    BY <1>8, <1>t, Moves DEF Exited
  <2>2. Phase = "handedOver" /\ Phase' = "accepting"
    BY <1>8, <1>t DEF Exited, Reopen, Phase, GateFollowsUpdate
  <2>3. Busy = {} /\ Busy' = In("working")'
    BY <1>8, <1>t DEF Exited, Reopen, Busy, GateFollowsUpdate
  <2>4. helpers > 0 /\ helpers \in Nat /\ watched /\ ~watched'
    BY <1>8, <1>t DEF Exited, TypeOK
  <2>5. CASE gone
    <3>1. Stray' = Stray
      BY <1>8, <2>4, <2>5 DEF Exited, Stray
    <3> QED BY <2>2, <2>3, <3>1, <1>g DEF AbstractNext
  <2>6. CASE ~gone
    <3>1. Stray' = TRUE
      BY <1>8, <2>4, <2>6 DEF Exited, Stray
    <3> QED BY <2>2, <2>3, <3>1, <1>g DEF AbstractNext
  <2> QED BY <2>5, <2>6
<1>9. CASE HelperGivesUpUnseen
  <2>1. Busy' = Busy /\ Phase' = Phase /\ Phase # "gone"
    BY <1>9, <1>t, Moves DEF HelperGivesUpUnseen, Busy, Phase
  <2>2. Stray /\ Stray' \in BOOLEAN
    BY <1>9 DEF HelperGivesUpUnseen, Stray
  <2> QED BY <2>1, <2>2 DEF AbstractNext
<1>10. CASE HelperStops
  <2>1. Busy' = Busy /\ Stray' = Stray
    BY <1>10, <1>t, Moves DEF HelperStops, Busy, Stray
  <2>2. Phase' = "gone" /\ Phase # "gone"
    BY <1>10 DEF HelperStops, Phase
  <2>3. CASE watched
    <3>1. Phase = "handedOver"
      BY <1>10, <2>3, <1>t DEF HelperStops, Phase, GateFollowsUpdate
    <3> QED BY <2>1, <2>2, <3>1 DEF AbstractNext
  <2>4. CASE ~watched
    <3>1. Stray
      BY <1>10, <2>4 DEF HelperStops, Stray
    <3> QED BY <2>1, <2>2, <3>1 DEF AbstractNext
  <2> QED BY <2>3, <2>4
<1>11. CASE UNCHANGED vars
  <2>1. Busy' = Busy /\ Phase' = Phase /\ Stray' = Stray
    BY <1>11, <1>t, Moves DEF vars, Busy, Phase, Stray
  <2> QED BY <2>1 DEF AbstractNext
<1> QED BY <1>1, <1>2, <1>3, <1>5, <1>6, <1>7, <1>8, <1>9, <1>10, <1>11
        DEF Next, HelperGivesUp, WaitRejected

(* A helper is started only when no unit but those that asked for it is at   *)
(* work, nothing enters until the gate takes it to have given up, and only  *)
(* that helper or one whose wait failed ends the process.                  *)
THEOREM HandsOver == Spec => ImplementsHandover
<1>1. Init => HandoverInv /\ Handover!Init
  <2> SUFFICES ASSUME Init PROVE HandoverInv /\ Handover!Init
    OBVIOUS
  <2>1. In("working") = {} /\ In("parked") = {}
    BY DEF Init, In
  <2>2. CountsExact
    BY <2>1, FS_EmptySet DEF Init, CountsExact
  <2>3. GateFollowsUpdate /\ Exclusive /\ WatchedRuns
    BY DEF Init, GateFollowsUpdate, Exclusive, WatchedRuns
  <2>n. Stray = FALSE
    BY DEF Init, Stray
  <2>4. Handover!Init
    BY <2>1, <2>n DEF Init, Handover!Init
  <2> QED BY <2>2, <2>3, <2>4, TypeInit DEF HandoverInv, FollowInv
<1>2. HandoverInv /\ [Next]_vars => HandoverInv'
  BY TypeStep, CountsStep, FollowStep, ExclusiveStep, WatchedStep DEF HandoverInv, FollowInv
<1>3. HandoverInv /\ [Next]_vars => [Handover!Next]_(Handover!vars)
  BY HandoverStep, AbstractNextRefines
<1> QED BY <1>1, <1>2, <1>3, PTL DEF Spec, ImplementsHandover, Handover!Spec

-----------------------------------------------------------------------------
(* The actions in the gate (ActionScopes).                                 *)

(* What an action does is a step of the gate, or leaves it alone.          *)
LEMMA ActionIsGateStep == ScopesNext => [Next]_vars
<1> SUFFICES ASSUME ScopesNext PROVE [Next]_vars
  OBVIOUS
<1>1. ASSUME NEW u \in Units, Docker(u) \/ DockerRefuses(u) PROVE UNCHANGED vars
  BY <1>1 DEF Docker, DockerRefuses
<1>2. ASSUME NEW u \in Units, Begin(u) PROVE Enter(u)
  BY <1>2 DEF Begin
<1>3. ASSUME NEW u \in Units, Refused(u) \/ GraceEnds(u) PROVE UNCHANGED vars
  BY <1>3 DEF Refused, GraceEnds
<1>4. ASSUME NEW u \in Units, Agent(u)
      PROVE  Leave(u) \/ ReplaceSelf(u) \/ UNCHANGED vars
  BY <1>4 DEF Agent, Inspected, Succeed, Fail, Settle, AskForHelper
<1>5. ASSUME Hand \/ HealthStatus \/ BeginRead \/ ReadHost \/ ReadDone \/ Hear
      PROVE  UNCHANGED vars
  BY <1>5 DEF Hand, HealthStatus, BeginRead, ReadHost, ReadDone, Hear
<1>6. ASSUME NEW n \in DOMAIN stream, Break(n) PROVE UNCHANGED vars
  BY <1>6 DEF Break
<1>7. ASSUME SelfUpdate
      PROVE  \/ Abandon \/ Spawn \/ SpawnFails
             \/ HelperGivesUp \/ WaitRejected \/ HelperGivesUpUnseen \/ HelperStops
  BY <1>7 DEF SelfUpdate
<1> QED
  BY <1>1, <1>2, <1>3, <1>4, <1>5, <1>6, <1>7 DEF ScopesNext, Next

(* Whatever the actions are and however they end, the gate sees of them only *)
(* what it expects: executeAction enters once and leaves once, on every path *)
(* through its try and finally.                                            *)
THEOREM ActionsPassTheGate == ScopesSpec => Spec
<1>1. ScopesInit => Init
  BY DEF ScopesInit
<1>2. [ScopesNext]_all => [Next]_vars
  BY ActionIsGateStep DEF all
<1> QED
  BY <1>1, <1>2, PTL DEF ScopesSpec, Spec

(* So the helper of a self-update gets the host to itself among the actions *)
(* too, and no action is cut short by a helper the agent waits for.        *)
THEOREM ActionsHandOver == ScopesSpec => ImplementsHandover
BY ActionsPassTheGate, HandsOver, PTL

-----------------------------------------------------------------------------
(* How far an action is.                                                   *)

Fresh   == {"none", "asks"}          \* Docker has been asked nothing yet
Before  == {"none", "asks", "stops", "kills", "removes", "creates"}
After   == {"answered", "settles", "over"}
Settled == {"settles", "over"}
Doings  == {"none", "asks", "stops", "kills", "removes", "creates", "answered", "settles",
            "over", "starts", "looks", "calls", "parked", "turned down"}
Kinds   == {"start", "stop", "restart", "remove", "recreate", "self", "other", "none"}
Parties == Units \cup {Nobody}

Shown   == {"started", "killed", "stopped", "removed", "created", "health"}

Event ==
  [kind : Shown, id : Ids,
   by : Parties, first : BOOLEAN, scopes : SUBSET Units, waiting : Parties]

ScopesTyped ==
  /\ host \in [id : Nat, running : BOOLEAN, status : {"off", "starting", "told"},
               by : Parties, made : Nat]
  /\ op \in [Units -> [kind : Kinds, doing : Doings, target : Nat, ran : BOOLEAN]]
  /\ scope \in [Units -> [open : BOOLEAN, ids : SUBSET Nat, named : BOOLEAN,
                          pending : SUBSET [kind : Shown, id : Nat], finished : BOOLEAN]]
  /\ order \in Seq(Units)
  /\ wait \in [Ids -> [for : Parties, armed : BOOLEAN]]
  /\ stream \in Seq(Event)
  /\ reading \in [mark : SUBSET Units, starting : Nat]
  /\ contested \subseteq Units /\ gaveUp \subseteq Units /\ spoiled \subseteq Units

\* What an action may be at, and that it has a scope as long as it is at work.
Stage(u) ==
  /\ op[u].doing = "asks" => op[u].kind \in {"start", "restart", "recreate", "self"}
  /\ op[u].doing \in {"stops", "kills"} => op[u].kind \in {"stop", "restart", "recreate"}
  /\ op[u].doing = "removes" => op[u].kind \in {"remove", "recreate"}
  /\ op[u].doing = "creates" => op[u].kind = "recreate"
  /\ op[u].doing = "looks" => op[u].kind = "recreate" /\ op[u].ran
  /\ op[u].doing = "starts" => \/ op[u].kind \in {"start", "restart"}
                               \/ op[u].kind = "recreate" /\ op[u].ran
  /\ op[u].ran => op[u].kind = "recreate" /\ op[u].doing \notin Fresh
  /\ unit[u] = "parked" => op[u].doing = "parked"
  /\ op[u].doing \notin {"none", "over"} =>
       op[u].target \in Ids /\ Open(u) /\ ~scope[u].finished
  /\ op[u].doing = "none" => ~Open(u)
  /\ Open(u) => \E n \in DOMAIN order : order[n] = u
  /\ scope[u].named \/ scope[u].ids # {} => op[u].kind \in OfContainer

\* A container that is there is the one created last, and no action creates
\* a second one.
Past == {u \in Units : op[u].doing \notin Before}

Made ==
  /\ host.id \in {0, host.made}
  /\ host.status = "starting" => host.id # 0
  /\ host.made \in 1 .. Cardinality(Past) + 1

Stages == ScopesTyped /\ Made /\ \A u \in Units : Stage(u)

-----------------------------------------------------------------------------
LEMMA UnitsCounted ==
  /\ IsFiniteSet(Units) /\ Cardinality(Units) \in Nat
  /\ 1 \in Ids /\ Ids \subseteq Nat /\ 0 \notin Ids /\ Unread \notin Ids /\ Unread # 0
  /\ Unread \in Nat
  /\ Nobody \notin Units /\ Nobody \in Parties /\ Units \subseteq Parties
<1>1. IsFiniteSet(Units) /\ Cardinality(Units) \in Nat
  BY FS_CardinalityType, GateAssumption DEF GateAssumption
<1> QED
  BY <1>1, ScopesAssumption DEF ScopesAssumption, Ids, Unread, Parties

\* No id is given out that a wait could not be kept under.
LEMMA MadeFits ==
  ASSUME ScopesTyped, Made
  PROVE  /\ host.made \in Ids /\ host.made \in Nat
         /\ \A u \in Units : op[u].doing \in Before => host.made + 1 \in Ids
<1>0. IsFiniteSet(Units) /\ Cardinality(Units) \in Nat
  BY UnitsCounted
<1>1. Past \subseteq Units /\ IsFiniteSet(Past) /\ Cardinality(Past) \in Nat
  BY <1>0, FS_Subset, FS_CardinalityType DEF Past
<1>2. Cardinality(Past) <= Cardinality(Units)
  BY <1>0, <1>1, FS_Subset
<1>3. \A u \in Units : op[u].doing \in Before => Cardinality(Past) < Cardinality(Units)
  <2> SUFFICES ASSUME NEW u \in Units, op[u].doing \in Before
               PROVE  Cardinality(Past) < Cardinality(Units)
    OBVIOUS
  <2>1. Past # Units
    BY DEF Past
  <2>2. Cardinality(Past) # Cardinality(Units)
    BY <1>0, <1>1, <2>1, FS_Subset
  <2> QED
    BY <1>0, <1>1, <1>2, <2>2
<1> QED
  BY <1>0, <1>1, <1>2, <1>3 DEF Made, Ids

\* A step does not undo what an action has done.
Goes(u) ==
  \/ op[u].doing \in {"stops", "kills", "removes", "looks", "starts"}
  \/ op[u].doing = "creates" /\ op[u].ran

Onward(u) ==
  /\ op'[u].kind = op[u].kind
  /\ op'[u].doing \in Before => op[u].doing \in Before
  /\ op[u].doing \in After => op'[u].doing \in After
  /\ op[u].doing \in Settled => op'[u].doing \in Settled
  /\ op[u].doing \notin Fresh =>
       /\ op'[u].doing \notin Fresh /\ op'[u].ran = op[u].ran
       /\ Goes(u)' => Goes(u)

\* A start is still to come for which the action has taken out a wait.
Awaits(u) ==
  op[u].doing = "starts" \/ (op[u].kind = "restart" /\ op[u].doing \in {"stops", "kills"})

Firm(u) == Awaits(u)' => Awaits(u) /\ op'[u].target = op[u].target

LEMMA MadeGrows ==
  ASSUME ScopesTyped, Made, ScopesTyped', \A u \in Units : Onward(u),
         host'.id \in {0, host'.made}, host'.status = "starting" => host'.id # 0,
         \/ host'.made = host.made
         \/ /\ host'.made = host.made + 1
            /\ \E u \in Units : op[u].doing \in Before /\ op'[u].doing \notin Before
  PROVE  Made'
<1>0. IsFiniteSet(Units)
  BY UnitsCounted
<1>1. /\ Past' \subseteq Units /\ IsFiniteSet(Past') /\ Cardinality(Past') \in Nat
      /\ Past \subseteq Past' /\ IsFiniteSet(Past) /\ Cardinality(Past) \in Nat
  <2>1. Past \subseteq Past' /\ Past' \subseteq Units
    BY DEF Past, Onward
  <2> QED
    BY <1>0, <2>1, FS_Subset, FS_CardinalityType
<1>2. Cardinality(Past) <= Cardinality(Past')
  BY <1>1, FS_Subset
<1>3. (\E u \in Units : op[u].doing \in Before /\ op'[u].doing \notin Before)
        => Cardinality(Past) < Cardinality(Past')
  <2> SUFFICES ASSUME NEW u \in Units, op[u].doing \in Before, op'[u].doing \notin Before
               PROVE  Cardinality(Past) < Cardinality(Past')
    OBVIOUS
  <2>1. Past # Past'
    BY DEF Past
  <2>2. Cardinality(Past) # Cardinality(Past')
    BY <1>1, <2>1, FS_Subset
  <2> QED
    BY <1>1, <1>2, <2>2
<1>4. host'.made \in 1 .. Cardinality(Past') + 1
  BY <1>1, <1>2, <1>3 DEF Made
<1> QED
  BY <1>4 DEF Made

-----------------------------------------------------------------------------
LEMMA OneActs ==
  ASSUME ScopesTyped, NEW u \in Units, NEW d \in Doings, Doing(u, d)
  PROVE  /\ op' \in [Units -> [kind : Kinds, doing : Doings, target : Nat, ran : BOOLEAN]]
         /\ op'[u].kind = op[u].kind /\ op'[u].ran = op[u].ran
         /\ op'[u].target = op[u].target /\ op'[u].doing = d
         /\ \A v \in Units : v # u => op'[v] = op[v]
BY DEF Doing, ScopesTyped

\* What is unchanged of an action.
LEMMA StageStays ==
  ASSUME NEW v \in Units, Stage(v), op'[v] = op[v], scope'[v] = scope[v],
         unit'[v] = "parked" => unit[v] = "parked",
         (\E n \in DOMAIN order : order[n] = v) => \E n \in DOMAIN order' : order'[n] = v
  PROVE  Stage(v)' /\ Onward(v) /\ Firm(v)
BY DEF Stage, Open, Onward, Goes, Firm, Awaits

Files(kind, by, first) ==
  \E e \in Event :
    /\ stream' = Append(stream, e) /\ stream' \in Seq(Event)
    /\ e.kind = kind /\ e.id = host'.made /\ e.by = by /\ e.first = first
    /\ e.scopes = {v \in Units : Open(v)} /\ e.waiting = wait[host'.made].for

LEMMA FileTyped ==
  ASSUME Stages, host'.made \in Ids, NEW kind \in Shown, NEW by \in Parties,
         NEW first \in BOOLEAN, File(kind, by, first)
  PROVE  Files(kind, by, first)
<1> DEFINE e == [kind |-> kind, id |-> host'.made, by |-> by, first |-> first,
                 scopes |-> {v \in Units : Open(v)}, waiting |-> wait[host'.made].for]
<1>1. stream' = Append(stream, e)
  BY DEF File
<1>2. host'.made \in Nat /\ wait[host'.made].for \in Parties
  BY UnitsCounted DEF Stages, ScopesTyped
<1>3. e \in Event
  BY <1>2 DEF Event
<1>4. stream \in Seq(Event)
  BY DEF Stages, ScopesTyped
<1> HIDE DEF e
<1>5. stream' \in Seq(Event)
  BY <1>1, <1>3, <1>4, AppendProperties
<1> QED
  BY <1>1, <1>3, <1>5 DEF e, Files

\* What Docker does for an action: nothing, or one call and its event.
Calls(u) ==
  /\ op[u].doing \in {"stops", "kills", "removes", "starts", "calls"}
  /\ UNCHANGED <<host, stream>> /\ op'[u].target = op[u].target
  /\ op'[u].doing \in {"turned down", "answered", "removes", "starts"}
  /\ op'[u].doing = "answered" => op[u].doing \in {"kills", "calls"}
  /\ op'[u].doing = "removes" => op[u].doing \in {"stops", "kills"} /\ op[u].kind = "recreate"
  /\ op'[u].doing = "starts" => op[u].doing \in {"stops", "kills"} /\ op[u].kind = "restart"

Kills(u) ==
  /\ op[u].doing = "stops" /\ op'[u].doing = "kills" /\ op'[u].target = op[u].target
  /\ There(u) /\ host' = host

Stops(u) ==
  /\ op[u].doing = "kills" /\ op'[u].target = op[u].target
  /\ op'[u].doing = CASE op[u].kind = "stop" -> "answered" [] op[u].kind = "restart" -> "starts"
                      [] OTHER -> "removes"
  /\ There(u) /\ host' = Stopped

Removes(u) ==
  /\ op[u].doing = "removes" /\ op'[u].target = op[u].target
  /\ op'[u].doing = (IF op[u].kind = "remove" THEN "answered" ELSE "creates")
  /\ There(u) /\ host' = [Stopped EXCEPT !.id = 0]

Creates(u) ==
  /\ op[u].doing = "creates" /\ op'[u].target = host'.id
  /\ op'[u].doing = (IF op[u].ran THEN "looks" ELSE "answered")
  /\ host.id = 0 /\ host' = [host EXCEPT !.id = host.made + 1, !.made = @ + 1]

Starts(u) ==
  /\ op[u].doing = "starts" /\ op'[u].doing = "answered" /\ op'[u].target = op[u].target
  /\ There(u) /\ host' = [host EXCEPT !.running = TRUE, !.status = "starting", !.by = u]

Filing(u, e) ==
  /\ stream' = Append(stream, e) /\ stream' \in Seq(Event)
  /\ e.id = host'.made /\ e.by = u /\ ~e.first /\ e.scopes = {v \in Units : Open(v)}
  /\ \/ Kills(u) /\ e.kind = "killed"
     \/ Stops(u) /\ e.kind = "stopped"
     \/ Removes(u) /\ e.kind = "removed"
     \/ Creates(u) /\ e.kind = "created"
     \/ Starts(u) /\ e.kind = "started"

LEMMA DockerActs ==
  ASSUME Stages, NEW u \in Units, Docker(u)
  PROVE  /\ UNCHANGED <<vars, scope, order, wait, reading, asked, faults, contested, gaveUp,
                        spoiled>>
         /\ op' \in [Units -> [kind : Kinds, doing : Doings, target : Nat, ran : BOOLEAN]]
         /\ op'[u].kind = op[u].kind /\ op'[u].ran = op[u].ran
         /\ \A v \in Units : v # u => op'[v] = op[v]
         /\ Calls(u) \/ \E e \in Event : Filing(u, e)
<1>0. /\ UNCHANGED <<vars, scope, order, wait, reading, asked, faults, contested, gaveUp,
                     spoiled>>
      /\ ScopesTyped /\ Stage(u) /\ Made
      /\ u \in Parties /\ FALSE \in BOOLEAN
      /\ "started" \in Shown /\ "killed" \in Shown /\ "stopped" \in Shown
      /\ "removed" \in Shown /\ "created" \in Shown
      /\ \/ DockerDoes(u) \/ DockerStops(u) \/ DockerHasStopped(u) \/ DockerRemoves(u)
         \/ DockerCreates(u) \/ DockerStarts(u)
  BY UnitsCounted DEF Docker, Stages, scopeVars, readVars, history, Shown
<1>h. host \in [id : Nat, running : BOOLEAN, status : {"off", "starting", "told"},
                by : Parties, made : Nat] /\ host.made \in Ids
  BY <1>0, MadeFits DEF ScopesTyped
<1> DEFINE Same ==
      /\ op' \in [Units -> [kind : Kinds, doing : Doings, target : Nat, ran : BOOLEAN]]
      /\ op'[u].kind = op[u].kind /\ op'[u].ran = op[u].ran
      /\ \A v \in Units : v # u => op'[v] = op[v]
<1>1. ASSUME DockerDoes(u) PROVE Same /\ Calls(u)
  <2>1. "answered" \in Doings /\ Doing(u, "answered") /\ op[u].doing = "calls"
        /\ UNCHANGED <<host, stream>>
    BY <1>1 DEF DockerDoes, dockerVars, Doings
  <2> QED
    BY <1>0, <2>1, OneActs DEF Calls
<1>2. ASSUME DockerStops(u) PROVE Same /\ (Calls(u) \/ \E e \in Event : Filing(u, e))
  <2>1. CASE Up(u)
    <3>1. host' = host /\ File("killed", u, FALSE) /\ Doing(u, "kills") /\ op[u].doing = "stops"
          /\ There(u) /\ "kills" \in Doings
      BY <1>2, <2>1 DEF DockerStops, Up, Doings
    <3>2. Same /\ op'[u].target = op[u].target /\ op'[u].doing = "kills"
      BY <1>0, <3>1, OneActs
    <3>3. Files("killed", u, FALSE)
      BY <1>0, <1>h, <3>1, FileTyped, Zenon
    <3> QED
      BY <3>1, <3>2, <3>3 DEF Filing, Kills, Files
  <2>2. CASE ~Up(u)
    <3>1. UNCHANGED <<host, stream>> /\ Doing(u, NotStopped(u)) /\ op[u].doing = "stops"
      BY <1>2, <2>2 DEF DockerStops, dockerVars
    <3>2. /\ NotStopped(u) \in {"removes", "starts", "turned down"}
          /\ NotStopped(u) = "removes" => op[u].kind = "recreate"
          /\ NotStopped(u) = "starts" => op[u].kind = "restart"
      BY DEF NotStopped
    <3>3. NotStopped(u) \in Doings
      BY <3>2 DEF Doings
    <3>4. Same /\ op'[u].target = op[u].target /\ op'[u].doing = NotStopped(u)
      BY <1>0, <3>1, <3>3, OneActs
    <3> QED
      BY <3>1, <3>2, <3>4 DEF Calls
  <2> QED
    BY <2>1, <2>2
<1>3. ASSUME DockerHasStopped(u) PROVE Same /\ (Calls(u) \/ \E e \in Event : Filing(u, e))
  <2>0. op[u].doing = "kills" /\ Doing(u, AfterStop(u))
        /\ op[u].kind \in {"stop", "restart", "recreate"}
    BY <1>0, <1>3 DEF DockerHasStopped, Stage
  <2>1. AfterStop(u) = CASE op[u].kind = "stop" -> "answered"
                         [] op[u].kind = "restart" -> "starts" [] OTHER -> "removes"
    BY <2>0 DEF AfterStop
  <2>2. AfterStop(u) \in Doings
    BY <2>0, <2>1 DEF Doings
  <2>3. Same /\ op'[u].target = op[u].target /\ op'[u].doing = AfterStop(u)
    BY <1>0, <2>0, <2>2, OneActs
  <2>4. CASE Up(u)
    <3>1. host' = Stopped /\ File("stopped", u, FALSE) /\ There(u)
      BY <1>3, <2>4 DEF DockerHasStopped, Up
    <3>2. host'.made \in Ids
      BY <1>h, <3>1 DEF Stopped
    <3>3. Files("stopped", u, FALSE)
      BY <1>0, <3>1, <3>2, FileTyped, Zenon
    <3> QED
      BY <2>0, <2>1, <2>3, <3>1, <3>3 DEF Filing, Stops, Files
  <2>5. CASE ~Up(u)
    <3>1. UNCHANGED <<host, stream>>
      BY <1>3, <2>5 DEF DockerHasStopped, dockerVars
    <3> QED
      BY <2>0, <2>1, <2>3, <3>1 DEF Calls
  <2> QED
    BY <2>4, <2>5
<1>4. ASSUME DockerRemoves(u) PROVE Same /\ (Calls(u) \/ \E e \in Event : Filing(u, e))
  <2>1. CASE There(u)
    <3>1. host' = [Stopped EXCEPT !.id = 0] /\ File("removed", u, FALSE)
          /\ Doing(u, IF op[u].kind = "remove" THEN "answered" ELSE "creates")
          /\ op[u].doing = "removes"
      BY <1>4, <2>1 DEF DockerRemoves
    <3>2. Same /\ op'[u].target = op[u].target
          /\ op'[u].doing = (IF op[u].kind = "remove" THEN "answered" ELSE "creates")
      <4>1. (IF op[u].kind = "remove" THEN "answered" ELSE "creates") \in Doings
        BY DEF Doings
      <4> QED
        BY <1>0, <3>1, <4>1, OneActs
    <3>3. host'.made \in Ids
      BY <1>h, <3>1 DEF Stopped
    <3>4. Files("removed", u, FALSE)
      BY <1>0, <3>1, <3>3, FileTyped, Zenon
    <3> QED
      BY <2>1, <3>1, <3>2, <3>4 DEF Filing, Removes, Files
  <2>2. CASE ~There(u)
    <3>1. UNCHANGED <<host, stream>> /\ Doing(u, "turned down") /\ op[u].doing = "removes"
          /\ "turned down" \in Doings
      BY <1>4, <2>2 DEF DockerRemoves, dockerVars, Doings
    <3> QED
      BY <1>0, <3>1, OneActs DEF Calls
  <2> QED
    BY <2>1, <2>2
<1>5. ASSUME DockerCreates(u) PROVE Same /\ \E e \in Event : Filing(u, e)
  <2>1. /\ op[u].doing = "creates" /\ host.id = 0
        /\ host' = [host EXCEPT !.id = host.made + 1, !.made = @ + 1]
        /\ File("created", u, FALSE)
        /\ op' = [op EXCEPT ![u].doing = IF op[u].ran THEN "looks" ELSE "answered",
                            ![u].target = host'.id]
    BY <1>5 DEF DockerCreates
  <2>2. host.made + 1 \in Ids
    BY <1>0, <2>1, MadeFits DEF Before
  <2>3. host'.made = host.made + 1 /\ host'.id = host.made + 1 /\ host'.id \in Nat
    BY <1>h, <2>1
  <2>4. /\ Same /\ op'[u].target = host'.id
        /\ op'[u].doing = (IF op[u].ran THEN "looks" ELSE "answered")
    <3> DEFINE d == IF op[u].ran THEN "looks" ELSE "answered"
               x == host'.id
    <3>1. d \in Doings /\ x \in Nat
      BY <2>3 DEF Doings
    <3>2. op' = [op EXCEPT ![u].doing = d, ![u].target = x]
      BY <2>1
    <3> HIDE DEF d, x
    <3>3. /\ Same /\ op'[u].target = x /\ op'[u].doing = d
      BY <1>0, <3>1, <3>2 DEF ScopesTyped
    <3> QED
      BY <3>3 DEF d, x
  <2>5. Files("created", u, FALSE)
    BY <1>0, <2>1, <2>2, <2>3, FileTyped, Zenon
  <2> QED
    BY <2>1, <2>4, <2>5 DEF Filing, Creates, Files
<1>6. ASSUME DockerStarts(u) PROVE Same /\ (Calls(u) \/ \E e \in Event : Filing(u, e))
  <2>1. CASE There(u) /\ ~host.running
    <3>1. /\ host' = [host EXCEPT !.running = TRUE, !.status = "starting", !.by = u]
          /\ File("started", u, FALSE) /\ Doing(u, "answered") /\ op[u].doing = "starts"
          /\ "answered" \in Doings
      BY <1>6, <2>1 DEF DockerStarts, StartedBy, Doings
    <3>2. Same /\ op'[u].target = op[u].target /\ op'[u].doing = "answered"
      BY <1>0, <3>1, OneActs
    <3>3. host'.made \in Ids
      BY <1>h, <3>1
    <3>4. Files("started", u, FALSE)
      BY <1>0, <3>1, <3>3, FileTyped, Zenon
    <3> QED
      BY <2>1, <3>1, <3>2, <3>4 DEF Filing, Starts, Files
  <2>2. CASE ~(There(u) /\ ~host.running)
    <3>1. UNCHANGED <<host, stream>> /\ Doing(u, "turned down") /\ op[u].doing = "starts"
          /\ "turned down" \in Doings
      BY <1>6, <2>2 DEF DockerStarts, dockerVars, Doings
    <3> QED
      BY <1>0, <3>1, OneActs DEF Calls
  <2> QED
    BY <2>1, <2>2
<1> QED
  BY <1>0, <1>1, <1>2, <1>3, <1>4, <1>5, <1>6

\* The host after a call.
LEMMA HostTyped ==
  ASSUME Stages, NEW u \in Units, NEW e, Filing(u, e)
  PROVE  /\ host' \in [id : Nat, running : BOOLEAN, status : {"off", "starting", "told"},
                       by : Parties, made : Nat]
         /\ host'.id \in {0, host'.made}
         /\ host'.status = "starting" =>
              /\ host'.id # 0
              /\ \/ host.status = "starting" /\ host'.by = host.by /\ host'.id = host.id
                 \/ Starts(u) /\ host'.by = u /\ host'.id = op[u].target
         /\ ~Creates(u) => host'.made = host.made /\ host'.made = op[u].target
         /\ Creates(u) => /\ host'.made = host.made + 1 /\ host'.id = host.made + 1
                          /\ host'.made \in Ids /\ host.id = 0
         /\ host'.made \in Ids
<1>0. /\ ScopesTyped /\ Made /\ Stage(u) /\ u \in Parties /\ Nobody \in Parties
      /\ host \in [id : Nat, running : BOOLEAN, status : {"off", "starting", "told"},
                   by : Parties, made : Nat]
      /\ host.made \in Ids /\ 0 \notin Ids
      /\ op[u].doing \in Before => host.made + 1 \in Ids
  BY UnitsCounted, MadeFits DEF Stages, ScopesTyped
<1>1. Kills(u) \/ Stops(u) \/ Removes(u) \/ Creates(u) \/ Starts(u)
  BY DEF Filing
<1>2. CASE Kills(u)
  BY <1>0, <1>2 DEF Kills, There, Made, Creates, Stage
<1>3. CASE Stops(u)
  BY <1>0, <1>3 DEF Stops, There, Made, Creates, Stopped, Stage
<1>4. CASE Removes(u)
  <2>1. host' = [[host EXCEPT !.running = FALSE, !.status = "off", !.by = Nobody]
                   EXCEPT !.id = 0]
    BY <1>4 DEF Removes, Stopped
  <2>2. /\ host'.id = 0 /\ host'.made = host.made /\ host'.status = "off"
        /\ host' \in [id : Nat, running : BOOLEAN, status : {"off", "starting", "told"},
                      by : Parties, made : Nat]
    BY <1>0, <2>1
  <2> QED
    BY <1>0, <1>4, <2>2 DEF Removes, There, Made, Creates, Stage
<1>5. CASE Creates(u)
  <2>1. /\ host'.id = host.made + 1 /\ host'.made = host.made + 1
        /\ host'.status = host.status
        /\ host' \in [id : Nat, running : BOOLEAN, status : {"off", "starting", "told"},
                      by : Parties, made : Nat]
    <3> DEFINE n == host.made + 1
    <3>1. n \in Nat
      BY <1>0
    <3>2. host' = [host EXCEPT !.id = n, !.made = n]
      BY <1>0, <1>5 DEF Creates
    <3> HIDE DEF n
    <3>3. /\ host'.id = n /\ host'.made = n /\ host'.status = host.status
          /\ host' \in [id : Nat, running : BOOLEAN, status : {"off", "starting", "told"},
                        by : Parties, made : Nat]
      BY <1>0, <3>1, <3>2
    <3> QED
      BY <3>3 DEF n
  <2> QED
    BY <1>0, <1>5, <2>1 DEF Creates, Made, Before
<1>6. CASE Starts(u)
  <2>1. /\ host'.id = host.id /\ host'.made = host.made
        /\ host'.status = "starting" /\ host'.by = u
        /\ host' \in [id : Nat, running : BOOLEAN, status : {"off", "starting", "told"},
                      by : Parties, made : Nat]
    BY <1>0, <1>6 DEF Starts
  <2> QED
    BY <1>0, <1>6, <2>1 DEF Starts, There, Made, Creates, Stage
<1> QED
  BY <1>1, <1>2, <1>3, <1>4, <1>5, <1>6

LEMMA DockerStage ==
  ASSUME Stages, NEW u \in Units, Docker(u)
  PROVE  Stages' /\ \A v \in Units : Onward(v) /\ Firm(v)
<1>0. /\ UNCHANGED <<vars, scope, order, wait, reading, asked, faults, contested, gaveUp,
                     spoiled>>
      /\ op' \in [Units -> [kind : Kinds, doing : Doings, target : Nat, ran : BOOLEAN]]
      /\ op'[u].kind = op[u].kind /\ op'[u].ran = op[u].ran
      /\ \A v \in Units : v # u => op'[v] = op[v]
      /\ Calls(u) \/ \E e \in Event : Filing(u, e)
      /\ ScopesTyped /\ Made /\ Stage(u)
  BY DockerActs DEF Stages
<1>u. unit' = unit
  BY <1>0 DEF vars
<1>1. Stage(u)' /\ Onward(u) /\ Firm(u)
  <2>1. CASE Calls(u)
    BY <1>0, <1>u, <2>1
       DEF Calls, Stage, Onward, Firm, Awaits, Goes, Open, Before, After, Settled, Fresh
  <2>2. ASSUME NEW e \in Event, Filing(u, e) PROVE Stage(u)' /\ Onward(u) /\ Firm(u)
    <3>1. Creates(u) => host'.id \in Ids
      BY <2>2, HostTyped
    <3>2. Kills(u) \/ Stops(u) \/ Removes(u) \/ Creates(u) \/ Starts(u)
      BY <2>2 DEF Filing
    <3>3. CASE Kills(u)
      BY <1>0, <1>u, <3>3
         DEF Kills, Stage, Onward, Firm, Awaits, Goes, Open, Before, After, Settled, Fresh
    <3>4. CASE Stops(u)
      BY <1>0, <1>u, <3>4
         DEF Stops, Stage, Onward, Firm, Awaits, Goes, Open, Before, After, Settled, Fresh
    <3>5. CASE Removes(u)
      BY <1>0, <1>u, <3>5
         DEF Removes, Stage, Onward, Firm, Awaits, Goes, Open, Before, After, Settled, Fresh
    <3>6. CASE Creates(u)
      BY <1>0, <1>u, <3>1, <3>6
         DEF Creates, Stage, Onward, Firm, Awaits, Goes, Open, Before, After, Settled, Fresh
    <3>7. CASE Starts(u)
      BY <1>0, <1>u, <3>7
         DEF Starts, Stage, Onward, Firm, Awaits, Goes, Open, Before, After, Settled, Fresh
    <3> QED
      BY <3>2, <3>3, <3>4, <3>5, <3>6, <3>7
  <2> QED
    BY <1>0, <2>1, <2>2
<1>2. \A v \in Units : Stage(v)' /\ Onward(v) /\ Firm(v)
  <2>1. ASSUME NEW v \in Units, v # u PROVE Stage(v)' /\ Onward(v) /\ Firm(v)
    BY <1>0, <1>u, <2>1, StageStays DEF Stages
  <2> QED
    BY <1>1, <2>1
<1>3. ScopesTyped' /\ Made'
  <2>1. CASE Calls(u)
    <3>1. ScopesTyped'
      BY <1>0, <2>1 DEF Calls, ScopesTyped
    <3> QED
      BY <1>0, <1>2, <2>1, <3>1, MadeGrows DEF Calls, Made
  <2>2. ASSUME NEW e \in Event, Filing(u, e) PROVE ScopesTyped' /\ Made'
    <3>1. /\ host' \in [id : Nat, running : BOOLEAN, status : {"off", "starting", "told"},
                        by : Parties, made : Nat]
          /\ host'.id \in {0, host'.made} /\ (host'.status = "starting" => host'.id # 0)
          /\ Creates(u) => host'.made = host.made + 1
          /\ ~Creates(u) => host'.made = host.made
      BY <2>2, HostTyped
    <3>2. stream' \in Seq(Event)
      BY <2>2 DEF Filing
    <3>3. ScopesTyped'
      BY <1>0, <3>1, <3>2 DEF ScopesTyped
    <3>4. Creates(u) => op[u].doing \in Before /\ op'[u].doing \notin Before
      BY DEF Creates, Before
    <3> QED
      BY <1>0, <1>2, <3>1, <3>3, <3>4, MadeGrows
  <2> QED
    BY <1>0, <2>1, <2>2
<1> QED
  BY <1>2, <1>3 DEF Stages

\* The least of what is not empty.
LEMMA MinIn ==
  ASSUME NEW S \in SUBSET Nat, S # {}
  PROVE  Min(S) \in S
<1>1. PICK x \in S : \A y \in S : ~(<<y, x>> \in OpToRel(<, Nat))
  BY NatLessThanWellFounded, WFMin, Zenon
<1>2. ASSUME NEW y \in S PROVE x =< y
  <2>1. ~(y < x)
    BY <1>1, S \subseteq Nat DEF OpToRel
  <2> QED
    BY <2>1
<1> QED
  BY <1>2 DEF Min

LEMMA OwnerIs ==
  ASSUME ScopesTyped, NEW e, ~Owed(e), Owner(e) # Nobody
  PROVE  Owner(e) \in Units /\ Claims(Owner(e), e)
<1> DEFINE C == {n \in DOMAIN order : Claims(order[n], e)}
<1>1. order \in Seq(Units)
  BY DEF ScopesTyped
<1>2. C \in SUBSET Nat
  BY <1>1
<1>3. C # {}
  BY DEF Owner
<1>4. Owner(e) = order[Min(C)]
  BY <1>3 DEF Owner
<1>5. Min(C) \in C
  BY <1>2, <1>3, MinIn, Zenon
<1> QED
  BY <1>1, <1>4, <1>5, ElementOfSeq

\* What closing a scope leaves.
Closed(u) ==
  /\ scope' \in [Units -> [open : BOOLEAN, ids : SUBSET Nat, named : BOOLEAN,
                           pending : SUBSET [kind : Shown, id : Nat], finished : BOOLEAN]]
  /\ scope'[u] = NoScope
  /\ \A v \in Units : v # u => scope'[v] = scope[v]
  /\ order' \in Seq(Units)
  /\ \A v \in Units : v # u => ((\E n \in DOMAIN order : order[n] = v)
                                  => \E n \in DOMAIN order' : order'[n] = v)

LEMMA Closes ==
  ASSUME ScopesTyped, NEW u \in Units, \E n \in DOMAIN order : order[n] = u, Close(u)
  PROVE  Closed(u)
<1> DEFINE k == CHOOSE n \in DOMAIN order : order[n] = u
           s == SubSeq(order, 1, k - 1)
           r == SubSeq(order, k + 1, Len(order))
<1>0. order \in Seq(Units) /\ Len(order) \in Nat /\ DOMAIN order = 1 .. Len(order)
  BY DEF ScopesTyped
<1>1. k \in 1 .. Len(order) /\ order[k] = u
  BY <1>0
<1>2. order' = s \o r
  BY DEF Close, RemoveAt
<1> HIDE DEF k
<1>3. /\ s \in Seq(Units) /\ Len(s) = k - 1 /\ \A i \in 1 .. k - 1 : s[i] = order[i]
      /\ r \in Seq(Units) /\ Len(r) = Len(order) - k
      /\ \A i \in 1 .. Len(order) - k : r[i] = order[k + i]
  <2>1. /\ 1 \in 1 .. Len(order) + 1 /\ k - 1 \in 1 - 1 .. Len(order)
        /\ k + 1 \in 1 .. Len(order) + 1 /\ Len(order) \in (k + 1) - 1 .. Len(order)
    BY <1>0, <1>1
  <2>2. /\ s \in Seq(Units) /\ Len(s) = (k - 1) - 1 + 1
        /\ \A i \in 1 .. (k - 1) - 1 + 1 : s[i] = order[1 + i - 1]
    BY <1>0, <2>1, SubSeqProperties
  <2>3. /\ r \in Seq(Units) /\ Len(r) = Len(order) - (k + 1) + 1
        /\ \A i \in 1 .. Len(order) - (k + 1) + 1 : r[i] = order[(k + 1) + i - 1]
    BY <1>0, <2>1, SubSeqProperties
  <2> HIDE DEF s, r
  <2>4. (k - 1) - 1 + 1 = k - 1 /\ Len(order) - (k + 1) + 1 = Len(order) - k
    BY <1>0, <1>1
  <2>5. \A i \in 1 .. k - 1 : 1 + i - 1 = i
    OBVIOUS
  <2>6. \A i \in 1 .. Len(order) - k : (k + 1) + i - 1 = k + i
    BY <1>0, <1>1
  <2> QED
    BY <2>2, <2>3, <2>4, <2>5, <2>6
<1> HIDE DEF s, r
<1>4. /\ order' \in Seq(Units) /\ Len(order') = Len(order) - 1
      /\ \A i \in 1 .. k - 1 : order'[i] = order[i]
      /\ \A i \in k .. Len(order) - 1 : order'[i] = order[i + 1]
  <2>1. order' \in Seq(Units) /\ Len(order') = Len(s) + Len(r)
    BY <1>2, <1>3, ConcatProperties
  <2>2. \A i \in 1 .. Len(s) + Len(r) :
          order'[i] = IF i <= Len(s) THEN s[i] ELSE r[i - Len(s)]
    BY <1>2, <1>3, ConcatProperties
  <2>3. \A i \in 1 .. k - 1 : order'[i] = order[i]
    BY <1>0, <1>1, <1>3, <2>2
  <2>4. ASSUME NEW i \in k .. Len(order) - 1 PROVE order'[i] = order[i + 1]
    <3>1. i \in 1 .. Len(s) + Len(r) /\ ~(i <= Len(s)) /\ i - Len(s) \in 1 .. Len(order) - k
          /\ k + (i - Len(s)) = i + 1
      BY <1>0, <1>1, <1>3
    <3> QED
      BY <1>3, <2>2, <3>1
  <2> QED
    BY <1>0, <1>1, <1>3, <2>1, <2>3, <2>4
<1>5. ASSUME NEW v \in Units, v # u, NEW n \in DOMAIN order, order[n] = v
      PROVE  \E m \in DOMAIN order' : order'[m] = v
  <2>0. DOMAIN order' = 1 .. Len(order) - 1 /\ n \in 1 .. Len(order)
    BY <1>0, <1>4
  <2>1. CASE n < k
    BY <1>0, <1>1, <1>4, <1>5, <2>0, <2>1
  <2>2. CASE n > k
    <3>1. n - 1 \in k .. Len(order) - 1 /\ n - 1 \in 1 .. Len(order) - 1 /\ (n - 1) + 1 = n
      BY <1>0, <1>1, <2>0, <2>2
    <3>2. order'[n - 1] = order[n]
      BY <1>4, <3>1
    <3> QED
      BY <1>5, <2>0, <3>1, <3>2
  <2> QED
    BY <1>0, <1>1, <1>5, <2>0, <2>1, <2>2
<1>6. NoScope \in [open : BOOLEAN, ids : SUBSET Nat, named : BOOLEAN,
                   pending : SUBSET [kind : Shown, id : Nat], finished : BOOLEAN]
  BY DEF NoScope
<1>7. /\ scope' \in [Units -> [open : BOOLEAN, ids : SUBSET Nat, named : BOOLEAN,
                               pending : SUBSET [kind : Shown, id : Nat], finished : BOOLEAN]]
      /\ scope'[u] = NoScope
      /\ \A v \in Units : v # u => scope'[v] = scope[v]
  BY <1>6 DEF Close, ScopesTyped
<1> QED
  BY <1>4, <1>5, <1>7 DEF Closed

-----------------------------------------------------------------------------
(* The other steps, one by one.                                            *)

LEMMA HostSame ==
  ASSUME Stages, ScopesTyped', host' = host, \A v \in Units : Stage(v)' /\ Onward(v)
  PROVE  Stages'
<1>1. host'.id \in {0, host'.made} /\ (host'.status = "starting" => host'.id # 0)
  BY DEF Stages, Made
<1>2. Made'
  BY <1>1, MadeGrows DEF Stages
<1> QED
  BY <1>2 DEF Stages

LEMMA OneSteps ==
  ASSUME Stages, NEW u \in Units, ScopesTyped', host' = host,
         \A v \in Units : v # u =>
           /\ op'[v] = op[v] /\ scope'[v] = scope[v]
           /\ unit'[v] = "parked" => unit[v] = "parked"
           /\ (\E n \in DOMAIN order : order[n] = v) => \E n \in DOMAIN order' : order'[n] = v,
         Stage(u)' /\ Onward(u) /\ Firm(u)
  PROVE  Stages' /\ \A v \in Units : Onward(v) /\ Firm(v)
<1>1. ASSUME NEW v \in Units, v # u PROVE Stage(v)' /\ Onward(v) /\ Firm(v)
  BY <1>1, StageStays DEF Stages
<1>2. \A v \in Units : Stage(v)' /\ Onward(v) /\ Firm(v)
  BY <1>1
<1> QED
  BY <1>2, HostSame

\* Nothing that the stages speak of has changed.
LEMMA NoneSteps ==
  ASSUME Stages, ScopesTyped', host' = host, op' = op, scope' = scope, order' = order,
         \A v \in Units : unit'[v] = "parked" => unit[v] = "parked"
  PROVE  Stages' /\ \A v \in Units : Onward(v) /\ Firm(v)
<1>1. ASSUME NEW v \in Units PROVE Stage(v)' /\ Onward(v) /\ Firm(v)
  BY <1>1, StageStays DEF Stages
<1> QED
  BY <1>1, HostSame

LEMMA RefusesStage ==
  ASSUME Stages, NEW u \in Units, DockerRefuses(u)
  PROVE  Stages' /\ \A v \in Units : Onward(v) /\ Firm(v)
<1> DEFINE d == IF op[u].doing = "stops" /\ op[u].kind = "recreate" THEN "removes"
                ELSE "turned down"
<1>1. /\ ScopesTyped /\ Stage(u) /\ Doing(u, d) /\ d \in Doings
      /\ op[u].doing \in {"stops", "removes", "creates", "starts", "calls"}
      /\ UNCHANGED <<vars, host, stream, scope, order, wait, reading, contested, gaveUp, spoiled>>
  BY DEF DockerRefuses, Stages, Doings, dockerVars, scopeVars, readVars, history
<1>2. /\ op' \in [Units -> [kind : Kinds, doing : Doings, target : Nat, ran : BOOLEAN]]
      /\ op'[u].kind = op[u].kind /\ op'[u].ran = op[u].ran
      /\ op'[u].target = op[u].target /\ op'[u].doing = d
      /\ \A v \in Units : v # u => op'[v] = op[v]
  BY <1>1, OneActs
<1>3. ScopesTyped'
  BY <1>1, <1>2 DEF ScopesTyped
<1>4. Stage(u)' /\ Onward(u) /\ Firm(u)
  BY <1>1, <1>2 DEF Stage, Onward, Firm, Awaits, Goes, Open, Before, After, Settled, Fresh, vars
<1> QED
  BY <1>1, <1>2, <1>3, <1>4, OneSteps DEF vars

LEMMA FilesStage ==
  ASSUME Stages, NEW kind \in Shown, NEW by \in Parties, NEW first \in BOOLEAN,
         host' \in [id : Nat, running : BOOLEAN, status : {"off", "starting", "told"},
                    by : Parties, made : Nat],
         host'.id = host.id, host'.made = host.made,
         host'.status = "starting" => host'.id # 0,
         File(kind, by, first),
         UNCHANGED <<vars, op, scope, order, wait, reading, gaveUp>>,
         contested' \subseteq Units, spoiled' \subseteq Units
  PROVE  /\ Stages' /\ \A v \in Units : Onward(v) /\ Firm(v)
         /\ Files(kind, by, first)
<1>1. host.made \in Ids /\ ScopesTyped /\ Made
  BY MadeFits DEF Stages
<1>2. Files(kind, by, first)
  BY <1>1, FileTyped, Zenon
<1>3. ScopesTyped'
  BY <1>1, <1>2 DEF Files, ScopesTyped
<1>4. ASSUME NEW v \in Units PROVE Stage(v)' /\ Onward(v) /\ Firm(v)
  BY StageStays DEF Stages, vars
<1>5. Made'
  BY <1>1, <1>3, <1>4, MadeGrows DEF Made
<1> QED
  BY <1>2, <1>3, <1>4, <1>5 DEF Stages

\* What somebody else does to the container.
HandActs ==
  /\ UNCHANGED <<vars, op, scope, order, wait, reading, gaveUp, spoiled>>
  /\ contested' = contested \cup {u \in Units : Open(u)}
  /\ host'.id = host.id /\ host'.made = host.made
  /\ host'.status = "starting" => host'.by = Nobody
  /\ Files("stopped", Nobody, FALSE) \/ Files("started", Nobody, FALSE)

LEMMA HandStage ==
  ASSUME Stages, Hand
  PROVE  Stages' /\ (\A v \in Units : Onward(v) /\ Firm(v)) /\ HandActs
<1>1. /\ ScopesTyped /\ host.id # 0 /\ Nobody \in Parties /\ FALSE \in BOOLEAN
      /\ "stopped" \in Shown /\ "started" \in Shown
      /\ UNCHANGED <<vars, op, scope, order, wait, reading, gaveUp, spoiled>>
      /\ contested' = contested \cup {u \in Units : Open(u)}
      /\ host \in [id : Nat, running : BOOLEAN, status : {"off", "starting", "told"},
                   by : Parties, made : Nat]
      /\ contested' \subseteq Units /\ spoiled' \subseteq Units
  BY UnitsCounted DEF Hand, Stages, Shown, scopeVars, readVars, ScopesTyped
<1>2. CASE host.running
  <2>1. host' = Stopped /\ File("stopped", Nobody, FALSE)
    BY <1>2 DEF Hand
  <2>2. /\ host' \in [id : Nat, running : BOOLEAN, status : {"off", "starting", "told"},
                     by : Parties, made : Nat]
        /\ host'.id = host.id /\ host'.made = host.made /\ host'.status = "off"
    BY <1>1, <2>1 DEF Stopped
  <2> QED
    BY <1>1, <2>1, <2>2, FilesStage DEF HandActs
<1>3. CASE ~host.running
  <2>1. /\ host' = [host EXCEPT !.running = TRUE, !.status = "starting", !.by = Nobody]
        /\ File("started", Nobody, FALSE)
    BY <1>3 DEF Hand, StartedBy
  <2>2. /\ host' \in [id : Nat, running : BOOLEAN, status : {"off", "starting", "told"},
                     by : Parties, made : Nat]
        /\ host'.id = host.id /\ host'.made = host.made /\ host'.by = Nobody
    BY <1>1, <2>1
  <2> QED
    BY <1>1, <2>1, <2>2, FilesStage DEF HandActs
<1> QED
  BY <1>2, <1>3

HealthActs ==
  /\ UNCHANGED <<vars, op, scope, order, wait, reading, contested, gaveUp>>
  /\ host.status = "starting" /\ host'.status = "told"
  /\ host.id = host.made /\ host'.made = host.made /\ host'.id = host.id /\ host.by \in Parties
  /\ spoiled' = spoiled \cup ({wait[host.id].for} \ {host.by, Nobody})
  /\ Files("health", host.by, TRUE)

LEMMA HealthStage ==
  ASSUME Stages, HealthStatus
  PROVE  Stages' /\ (\A v \in Units : Onward(v) /\ Firm(v)) /\ HealthActs
<1>1. /\ ScopesTyped /\ Made /\ host.status = "starting" /\ TRUE \in BOOLEAN
      /\ host' = [host EXCEPT !.status = "told"] /\ File("health", host.by, TRUE)
      /\ "health" \in Shown
      /\ UNCHANGED <<vars, op, scope, order, wait, reading, contested, gaveUp>>
      /\ spoiled' = spoiled \cup ({wait[host.id].for} \ {host.by, Nobody})
      /\ host \in [id : Nat, running : BOOLEAN, status : {"off", "starting", "told"},
                   by : Parties, made : Nat]
  BY DEF HealthStatus, Stages, Shown, scopeVars, readVars, ScopesTyped
<1>2. host.id = host.made /\ host.id # 0 /\ host.made \in Ids /\ host.by \in Parties
  BY <1>1, MadeFits DEF Made
<1>3. /\ host' \in [id : Nat, running : BOOLEAN, status : {"off", "starting", "told"},
                    by : Parties, made : Nat]
      /\ host'.id = host.id /\ host'.made = host.made /\ host'.status = "told"
  BY <1>1
<1>4. contested' \subseteq Units /\ spoiled' \subseteq Units
  BY <1>1, <1>2 DEF ScopesTyped, Parties
<1> QED
  BY <1>1, <1>2, <1>3, <1>4, FilesStage DEF HealthActs

Reads == [mark : SUBSET Units, starting : Nat]
Waits == [Ids -> [for : Parties, armed : BOOLEAN]]
Scopes == [Units -> [open : BOOLEAN, ids : SUBSET Nat, named : BOOLEAN,
                     pending : SUBSET [kind : Shown, id : Nat], finished : BOOLEAN]]

\* Only a wait that somebody took out is armed, and only once the action has succeeded.
ArmedSettled ==
  /\ \A x \in Ids : wait[x].armed => wait[x].for \in Units /\ op[wait[x].for].doing \in Settled
  /\ \A u \in reading.mark : op[u].doing \in Settled

LEMMA BeginReadStage ==
  ASSUME Stages, ArmedSettled, BeginRead
  PROVE  Stages' /\ (\A v \in Units : Onward(v) /\ Firm(v))
<1>1. /\ ScopesTyped /\ UNCHANGED <<unit, host, stream, op, scope, order, wait, contested, gaveUp,
                                    spoiled>>
      /\ reading' = [mark |-> Armed, starting |-> Unread]
  BY DEF Stages, BeginRead, dockerVars, scopeVars, history, vars
<1>2. Armed \subseteq Units
  BY DEF Armed, ArmedSettled
<1>3. ScopesTyped'
  BY <1>1, <1>2, UnitsCounted DEF ScopesTyped
<1> QED
  BY <1>1, <1>3, NoneSteps

LEMMA ReadHostStage ==
  ASSUME Stages, ReadHost
  PROVE  Stages' /\ (\A v \in Units : Onward(v) /\ Firm(v))
<1>1. /\ ScopesTyped /\ UNCHANGED <<unit, host, stream, op, scope, order, wait, contested, gaveUp,
                                    spoiled>>
      /\ reading' = [reading EXCEPT !.starting = IF host.status = "starting" THEN host.id ELSE 0]
  BY DEF Stages, ReadHost, dockerVars, scopeVars, history, vars
<1>2. (IF host.status = "starting" THEN host.id ELSE 0) \in Nat
  BY <1>1 DEF ScopesTyped
<1>3. ScopesTyped'
  BY <1>1, <1>2 DEF ScopesTyped
<1> QED
  BY <1>1, <1>3, NoneSteps

LEMMA ReadDoneStage ==
  ASSUME Stages, ReadDone
  PROVE  Stages' /\ (\A v \in Units : Onward(v) /\ Firm(v))
<1>1. /\ ScopesTyped
      /\ UNCHANGED <<unit, host, stream, op, scope, order, contested, gaveUp>>
      /\ reading' = NoRead
      /\ wait' = [x \in Ids |-> IF Ended(x) THEN NoWait ELSE wait[x]]
      /\ spoiled' \subseteq Units
  BY DEF Stages, ReadDone, dockerVars, scopeVars, history, vars, ScopesTyped
<1>2. wait' \in Waits /\ reading' \in Reads
  BY <1>1, UnitsCounted DEF ScopesTyped, NoWait, NoRead, Waits, Reads
<1>3. ScopesTyped'
  BY <1>1, <1>2 DEF ScopesTyped, Waits, Reads
<1> QED
  BY <1>1, <1>3, NoneSteps

LEMMA RequestTyped ==
  ASSUME Request PROVE reading' = reading
BY DEF Request

LEMMA BreakStage ==
  ASSUME Stages, NEW n \in DOMAIN stream, Break(n)
  PROVE  /\ Stages' /\ (\A v \in Units : Onward(v) /\ Firm(v))
         /\ Len(stream') = Len(stream) - n
         /\ \A i \in 1 .. Len(stream) - n : stream'[i] = stream[n + i]
<1>1. /\ ScopesTyped
      /\ UNCHANGED <<unit, host, op, scope, order, wait, contested, gaveUp, spoiled, reading>>
      /\ stream' = SubSeq(stream, n + 1, Len(stream))
  BY RequestTyped DEF Stages, Break, scopeVars, history, vars
<1>2. stream \in Seq(Event) /\ n \in 1 .. Len(stream) /\ Len(stream) \in Nat
  BY <1>1 DEF ScopesTyped
<1>3. /\ n + 1 \in Int /\ Len(stream) \in Int
      /\ \A i \in n + 1 .. Len(stream) : stream[i] \in Event
  BY <1>2, ElementOfSeq
<1>4. /\ stream' \in Seq(Event)
      /\ Len(stream') = IF n + 1 <= Len(stream) THEN Len(stream) - (n + 1) + 1 ELSE 0
      /\ \A i \in 1 .. Len(stream) - (n + 1) + 1 : stream'[i] = stream[(n + 1) + i - 1]
  BY <1>1, <1>3, SubSeqProperties
<1>5. /\ Len(stream') = Len(stream) - n
      /\ \A i \in 1 .. Len(stream) - n : stream'[i] = stream[n + i]
  <2>1. Len(stream) - (n + 1) + 1 = Len(stream) - n
    BY <1>2
  <2>2. Len(stream') = Len(stream) - n
    BY <1>2, <1>4
  <2>3. \A i \in 1 .. Len(stream) - n : (n + 1) + i - 1 = n + i
    BY <1>2
  <2> QED
    BY <1>4, <2>1, <2>2, <2>3
<1>6. ScopesTyped'
  BY <1>1, <1>4 DEF ScopesTyped
<1> QED
  BY <1>1, <1>5, <1>6, NoneSteps

\* What an event does to the agent: it ends a wait, or is one of a scope's.
Ends(e) ==
  Owed(e) /\ wait' = [wait EXCEPT ![e.id] = NoWait] /\ UNCHANGED <<scope, order>>

Gathers(u, e) ==
  /\ ~Owed(e) /\ Owner(e) = u /\ Claims(u, e) /\ wait' = wait
  /\ LET left == scope[u].pending \ {[kind |-> e.kind, id |-> e.id], [kind |-> e.kind, id |-> AnyId]}
     IN \/ /\ left = {} /\ scope[u].finished /\ op[u].doing \in {"none", "over"}
           /\ Closed(u)
        \/ /\ scope' = [scope EXCEPT ![u].pending = left] /\ scope' \in Scopes
           /\ order' = order

Passes(e) == ~Owed(e) /\ UNCHANGED <<wait, scope, order>>

HearActs ==
  /\ UNCHANGED <<vars, host, op, faults, contested, gaveUp, spoiled, reading>>
  /\ stream # <<>> /\ stream' = Tail(stream) /\ Head(stream) \in Event
  /\ \/ Ends(Head(stream)) \/ Passes(Head(stream))
     \/ \E u \in Units : Gathers(u, Head(stream))

LEMMA HearStage ==
  ASSUME Stages, Hear
  PROVE  Stages' /\ (\A v \in Units : Onward(v) /\ Firm(v)) /\ HearActs
<1> DEFINE e == Head(stream)
<1>1. /\ ScopesTyped
      /\ UNCHANGED <<vars, host, op, faults, contested, gaveUp, spoiled, reading>>
      /\ stream # <<>> /\ stream' = Tail(stream)
      /\ wait' = IF Owed(e) THEN [wait EXCEPT ![e.id] = NoWait] ELSE wait
      /\ IF ~Owed(e) /\ Owner(e) # Nobody THEN Observed(Owner(e), e) ELSE UNCHANGED scopeVars
  BY RequestTyped DEF Stages, Hear, history
<1>2. stream \in Seq(Event) /\ stream' \in Seq(Event) /\ e \in Event
  BY <1>1, HeadTailProperties DEF ScopesTyped
<1>3. stream # <<>> /\ stream' = Tail(stream) /\ Head(stream) \in Event
  BY <1>1, <1>2
<1> HIDE DEF e
<1>4. wait' \in Waits
  BY <1>1, <1>2, UnitsCounted DEF ScopesTyped, NoWait, Waits, Event
<1>5. CASE Owed(e)
  <2>1. UNCHANGED <<scope, order>> /\ Ends(e)
    BY <1>1, <1>5 DEF scopeVars, Ends
  <2>2. ScopesTyped'
    BY <1>1, <1>2, <1>4, <2>1 DEF ScopesTyped, Waits
  <2> QED
    BY <1>1, <1>3, <2>1, <2>2, NoneSteps DEF e, HearActs, vars
<1>6. CASE ~Owed(e) /\ Owner(e) = Nobody
  <2>1. UNCHANGED <<scope, order>> /\ Passes(e)
    BY <1>1, <1>6 DEF scopeVars, Passes
  <2>2. ScopesTyped'
    BY <1>1, <1>2, <1>4, <2>1 DEF ScopesTyped, Waits
  <2> QED
    BY <1>1, <1>3, <2>1, <2>2, NoneSteps DEF e, HearActs, vars
<1>7. CASE ~Owed(e) /\ Owner(e) # Nobody
  <2>1. PICK u \in Units : u = Owner(e) /\ Claims(u, e) /\ Observed(u, e) /\ wait' = wait
    BY <1>1, <1>7, OwnerIs
  <2> DEFINE left == scope[u].pending \ {[kind |-> e.kind, id |-> e.id], [kind |-> e.kind, id |-> AnyId]}
  <2>s. Stage(u) /\ Open(u)
    BY <2>1 DEF Stages, Claims
  <2>2. CASE left = {} /\ scope[u].finished
    <3>1. Close(u)
      BY <2>1, <2>2 DEF Observed
    <3>2. Closed(u)
      BY <1>1, <2>s, <3>1, Closes DEF Stage
    <3>3. op[u].doing \in {"none", "over"}
      BY <2>2, <2>s DEF Stage
    <3>4. Gathers(u, e)
      BY <1>7, <2>1, <2>2, <3>2, <3>3 DEF Gathers
    <3>5. ScopesTyped'
      BY <1>1, <1>2, <1>4, <3>2 DEF ScopesTyped, Waits, Closed
    <3>6. Stage(u)' /\ Onward(u) /\ Firm(u)
      BY <1>1, <2>s, <3>2, <3>3 DEF Stage, Onward, Firm, Awaits, Goes, Open, Closed, NoScope, vars,
                                    Before, After, Settled, Fresh
    <3> QED
      BY <1>1, <1>3, <3>2, <3>4, <3>5, <3>6, OneSteps DEF e, HearActs, vars, Closed
  <2>3. CASE ~(left = {} /\ scope[u].finished)
    <3>1. scope' = [scope EXCEPT ![u].pending = left] /\ order' = order
      BY <2>1, <2>3 DEF Observed
    <3>2. left \subseteq [kind : Shown, id : Nat]
      BY <1>1 DEF ScopesTyped
    <3>3. Gathers(u, e) /\ scope' \in Scopes
      <4> HIDE DEF left
      <4>1. scope' \in Scopes
        BY <1>1, <3>1, <3>2 DEF ScopesTyped, Scopes
      <4> QED
        BY <1>7, <2>1, <3>1, <4>1 DEF Gathers, left
    <3>4. ScopesTyped'
      BY <1>1, <1>2, <1>4, <3>1, <3>3 DEF ScopesTyped, Waits, Scopes
    <3> HIDE DEF left
    <3>5. /\ scope'[u].open = scope[u].open /\ scope'[u].finished = scope[u].finished
          /\ scope'[u].named = scope[u].named /\ scope'[u].ids = scope[u].ids
          /\ \A v \in Units : v # u => scope'[v] = scope[v]
      BY <1>1, <3>1 DEF ScopesTyped
    <3>6. Stage(u)' /\ Onward(u) /\ Firm(u)
      BY <1>1, <2>s, <3>1, <3>5 DEF Stage, Onward, Firm, Awaits, Goes, Open, vars
    <3> QED
      BY <1>1, <1>3, <3>1, <3>3, <3>4, <3>5, <3>6, OneSteps DEF e, HearActs, vars
  <2> QED
    BY <2>2, <2>3
<1> QED
  BY <1>5, <1>6, <1>7

LEMMA UnitsLeave ==
  ASSUME TypeOK, NEW u \in Units, Enter(u) \/ Leave(u) \/ ReplaceSelf(u)
  PROVE  /\ \A v \in Units : v # u => (unit'[v] = "parked" => unit[v] = "parked")
         /\ Enter(u) \/ Leave(u) => unit'[u] # "parked"
BY DEF TypeOK, Enter, Leave, ReplaceSelf

BeginActs(u) ==
  /\ UNCHANGED <<host, stream, wait, reading, gaveUp, spoiled>>
  /\ op[u].doing = "none" /\ op'[u].kind = op[u].kind /\ op'[u].ran = op[u].ran
  /\ op'[u].doing = First(op[u].kind) /\ op'[u].target = host.made
  /\ \A v \in Units : v # u => op'[v] = op[v] /\ scope'[v] = scope[v]
  /\ scope'[u].open /\ ~scope'[u].finished /\ ~scope'[u].named
  /\ scope'[u].ids = (IF op[u].kind \in OfContainer THEN {host.made} ELSE {})
  /\ scope'[u].pending = Expected(op[u].kind, host.made)
  /\ \A v \in Units : /\ v # u /\ Open(v) /\ op[v].kind \in OfContainer /\ op[u].kind \in OfContainer
                      => u \in contested' /\ v \in contested'
  /\ contested \subseteq contested'

LEMMA TwoActs ==
  ASSUME ScopesTyped, NEW u \in Units, NEW d \in Doings, NEW x \in Nat,
         op' = [op EXCEPT ![u].doing = d, ![u].target = x]
  PROVE  /\ op' \in [Units -> [kind : Kinds, doing : Doings, target : Nat, ran : BOOLEAN]]
         /\ op'[u].kind = op[u].kind /\ op'[u].ran = op[u].ran
         /\ op'[u].target = x /\ op'[u].doing = d
         /\ \A v \in Units : v # u => op'[v] = op[v]
BY DEF ScopesTyped

LEMMA ExpectedTyped ==
  ASSUME NEW k \in Kinds, NEW x \in Nat
  PROVE  Expected(k, x) \in SUBSET [kind : Shown, id : Nat]
<1>1. ASSUME NEW s \in Shown PROVE {[kind |-> s, id |-> x]} \in SUBSET [kind : Shown, id : Nat]
  OBVIOUS
<1>2. "started" \in Shown /\ "stopped" \in Shown /\ "removed" \in Shown
  BY DEF Shown
<1>3. /\ {[kind |-> "started", id |-> x]} \in SUBSET [kind : Shown, id : Nat]
      /\ {[kind |-> "stopped", id |-> x]} \in SUBSET [kind : Shown, id : Nat]
      /\ {[kind |-> "removed", id |-> x]} \in SUBSET [kind : Shown, id : Nat]
  BY <1>1, <1>2
<1>4. CASE k \in {"start", "restart"}
  BY <1>3, <1>4 DEF Expected
<1>5. CASE k = "stop"
  BY <1>3, <1>5 DEF Expected
<1>6. CASE k = "remove"
  BY <1>3, <1>6 DEF Expected
<1>7. CASE k \notin {"start", "restart", "stop", "remove"}
  BY <1>7 DEF Expected
<1> QED
  BY <1>4, <1>5, <1>6, <1>7

LEMMA BeginStage ==
  ASSUME Stages, TypeOK, NEW u \in Units, Begin(u)
  PROVE  Stages' /\ (\A v \in Units : Onward(v) /\ Firm(v)) /\ BeginActs(u)
<1> DEFINE k == op[u].kind
           ours == IF k \in OfContainer THEN {host.made} ELSE {}
           p == Expected(k, host.made)
           new == [NoScope EXCEPT !.open = TRUE, !.ids = ours, !.pending = p]
           others == {v \in Units : Open(v) /\ op[v].kind \in OfContainer}
<1>1. /\ ScopesTyped /\ Stage(u) /\ op[u].doing = "none" /\ k # "none" /\ k \in Kinds
      /\ Enter(u) /\ host.made \in Ids /\ host.made \in Nat
      /\ op' = [op EXCEPT ![u].doing = First(k), ![u].target = host.made]
      /\ scope' = [scope EXCEPT ![u] =
                 [NoScope EXCEPT !.open = TRUE,
                                 !.ids = IF k \in OfContainer THEN {host.made} ELSE {},
                                 !.pending = Expected(k, host.made)]]
      /\ order' = Append(order, u)
      /\ contested' = contested \cup (IF k \notin OfContainer \/ others = {} THEN {} ELSE others \cup {u})
      /\ UNCHANGED <<host, stream, wait, reading, gaveUp, spoiled>>
  BY MadeFits DEF Begin, Stages, Asked, dockerVars, readVars, ScopesTyped
<1>2. /\ First(k) \in {"stops", "removes", "calls", "asks"}
      /\ First(k) = "stops" => k = "stop"
      /\ First(k) = "removes" => k = "remove"
      /\ First(k) = "asks" => k \in {"start", "restart", "recreate", "self"}
      /\ First(k) \in Doings /\ k \in Kinds
  BY <1>1 DEF First, Kinds, Doings
<1>3. /\ op' \in [Units -> [kind : Kinds, doing : Doings, target : Nat, ran : BOOLEAN]]
      /\ op'[u].kind = k /\ op'[u].ran = op[u].ran
      /\ op'[u].target = host.made /\ op'[u].doing = First(k)
      /\ \A v \in Units : v # u => op'[v] = op[v]
  <2> DEFINE d == First(k)
             x == host.made
  <2>1. d \in Doings /\ x \in Nat /\ op' = [op EXCEPT ![u].doing = d, ![u].target = x]
    BY <1>1, <1>2
  <2> HIDE DEF d, x
  <2>2. /\ op' \in [Units -> [kind : Kinds, doing : Doings, target : Nat, ran : BOOLEAN]]
        /\ op'[u].kind = op[u].kind /\ op'[u].ran = op[u].ran
        /\ op'[u].target = x /\ op'[u].doing = d
        /\ \A v \in Units : v # u => op'[v] = op[v]
    BY <1>1, <2>1, TwoActs
  <2> QED
    BY <2>2 DEF d, x
<1>4. scope' = [scope EXCEPT ![u] = new]
  BY <1>1
<1>5. new \in [open : BOOLEAN, ids : SUBSET Nat, named : BOOLEAN,
                     pending : SUBSET [kind : Shown, id : Nat], finished : BOOLEAN]
  <2>1. p \in SUBSET [kind : Shown, id : Nat]
    BY <1>1, ExpectedTyped
  <2>2. ours \in SUBSET Nat
    BY <1>1
  <2> HIDE DEF ours, p
  <2> QED
    BY <2>1, <2>2 DEF NoScope
<1>6. /\ new.open /\ ~new.finished /\ ~new.named
      /\ new.ids = (IF k \in OfContainer THEN {host.made} ELSE {})
      /\ new.pending = Expected(k, host.made)
  <2> HIDE DEF ours, p
  <2>1. new.open /\ ~new.finished /\ ~new.named /\ new.ids = ours /\ new.pending = p
    BY DEF NoScope
  <2> QED
    BY <2>1 DEF ours, p
<1> HIDE DEF new
<1>7. /\ scope' \in Scopes /\ scope'[u] = new /\ \A v \in Units : v # u => scope'[v] = scope[v]
  <2>1. scope \in Scopes
    BY <1>1 DEF ScopesTyped, Scopes
  <2> QED
    BY <1>4, <1>5, <2>1 DEF Scopes
<1>8. /\ order' \in Seq(Units) /\ Len(order') = Len(order) + 1 /\ order'[Len(order) + 1] = u
      /\ \A i \in 1 .. Len(order) : order'[i] = order[i]
      /\ Len(order) \in Nat /\ order \in Seq(Units)
  BY <1>1, AppendProperties DEF ScopesTyped
<1>9. /\ \A v \in Units : v # u => ((\E n \in DOMAIN order : order[n] = v)
                                  => \E n \in DOMAIN order' : order'[n] = v)
      /\ \E n \in DOMAIN order' : order'[n] = u
  <2>1. DOMAIN order = 1 .. Len(order) /\ DOMAIN order' = 1 .. Len(order) + 1
        /\ Len(order) + 1 \in 1 .. Len(order) + 1
    BY <1>8
  <2> QED
    BY <1>8, <2>1
<1>a. contested' \subseteq Units
  BY <1>1 DEF ScopesTyped
<1>b. BeginActs(u)
  <2>1. ASSUME NEW v \in Units, v # u, Open(v), op[v].kind \in OfContainer, k \in OfContainer
        PROVE  u \in contested' /\ v \in contested'
    BY <1>1, <2>1
  <2> QED
    BY <1>1, <1>3, <1>6, <1>7, <2>1 DEF BeginActs
<1>c. ScopesTyped'
  BY <1>1, <1>3, <1>7, <1>8, <1>a DEF ScopesTyped, Scopes
<1>d. Stage(u)' /\ Onward(u) /\ Firm(u)
  <2>1. ~op[u].ran
    BY <1>1 DEF Stage, Fresh
  <2> QED
    BY <1>1, <1>2, <1>3, <1>6, <1>7, <1>9, <2>1, UnitsLeave
       DEF Stage, Onward, Firm, Awaits, Goes, Open, Before, After, Settled, Fresh
<1>e. \A v \in Units : v # u => (unit'[v] = "parked" => unit[v] = "parked")
  BY <1>1, UnitsLeave
<1> QED
  BY <1>1, <1>3, <1>7, <1>9, <1>b, <1>c, <1>d, <1>e, OneSteps

\* Only how far one action is has changed, and perhaps where its unit is.
LEMMA OneGoesOn ==
  ASSUME Stages, TypeOK, NEW u \in Units, NEW d \in Doings, Doing(u, d),
         \A v \in Units : v # u => (unit'[v] = "parked" => unit[v] = "parked"),
         UNCHANGED <<host, stream, scope, order, reading, contested, gaveUp>>,
         wait' \in Waits, spoiled' \subseteq Units,
         unit'[u] = "parked" => d = "parked",
         d = "asks" => op[u].kind \in {"start", "restart", "recreate", "self"},
         d \in {"stops", "kills"} => op[u].kind \in {"stop", "restart", "recreate"},
         d \notin {"removes", "creates", "looks"},
         d = "starts" => \/ op[u].kind \in {"start", "restart"}
                         \/ op[u].kind = "recreate" /\ op[u].ran,
         d # "none", d \in Fresh => ~op[u].ran,
         d # "over" => op[u].doing \notin {"none", "over"},
         op[u].doing \in After => d \in After,
         op[u].doing \in Settled => d \in Settled,
         op[u].doing \notin Fresh => d \notin Fresh,
         op[u].doing \notin Fresh =>
           d \notin {"stops", "kills", "starts"} \/ op[u].doing = "looks",
         d \in Before => op[u].doing \in Before
  PROVE  /\ Stages' /\ \A v \in Units : Onward(v)
         /\ \A v \in Units : v # u \/ d \notin {"stops", "kills", "starts"} => Firm(v)
         /\ op'[u].kind = op[u].kind /\ op'[u].ran = op[u].ran
         /\ op'[u].target = op[u].target /\ op'[u].doing = d
         /\ \A v \in Units : v # u => op'[v] = op[v]
<1>1. /\ op' \in [Units -> [kind : Kinds, doing : Doings, target : Nat, ran : BOOLEAN]]
      /\ op'[u].kind = op[u].kind /\ op'[u].ran = op[u].ran
      /\ op'[u].target = op[u].target /\ op'[u].doing = d
      /\ \A v \in Units : v # u => op'[v] = op[v]
  BY OneActs DEF Stages
<1>2. ScopesTyped'
  BY <1>1 DEF ScopesTyped, Stages, Waits
<1>3. Stage(u)' /\ Onward(u)
  BY <1>1 DEF Stages, Stage, Onward, Goes, Open, Before, After, Settled, Fresh
<1>4. d \notin {"stops", "kills", "starts"} => Firm(u)
  BY <1>1 DEF Firm, Awaits
<1>5. \A v \in Units : v # u => Stage(v)' /\ Onward(v) /\ Firm(v)
  BY <1>1, StageStays DEF Stages
<1>6. \A v \in Units : Stage(v)' /\ Onward(v)
  BY <1>3, <1>5
<1> QED
  BY <1>1, <1>2, <1>4, <1>5, <1>6, HostSame

LEMMA RefusedStage ==
  ASSUME Stages, TypeOK, NEW u \in Units, Refused(u)
  PROVE  Stages' /\ \A v \in Units : Onward(v) /\ Firm(v)
<1>1. /\ Doing(u, "over") /\ "over" \in Doings /\ op[u].doing = "none"
      /\ UNCHANGED <<unit, host, stream, scope, order, reading, contested, gaveUp, wait, spoiled>>
      /\ wait \in Waits /\ spoiled \subseteq Units /\ (unit[u] = "parked" => op[u].doing = "parked")
  BY RequestTyped DEF Refused, Asked, Doings, dockerVars, scopeVars, history, vars, Stages,
                      ScopesTyped, Waits, Stage
<1>2. Stages' /\ (\A v \in Units : Onward(v)) /\ \A v \in Units : Firm(v)
  BY <1>1, OneGoesOn DEF Settled, After, Fresh, Before
<1> QED
  BY <1>2

LEMMA AskStage ==
  ASSUME Stages, TypeOK, NEW u \in Units, AskForHelper(u)
  PROVE  Stages' /\ \A v \in Units : Onward(v) /\ Firm(v)
<1>1. /\ Doing(u, "parked") /\ "parked" \in Doings /\ op[u].doing = "asks" /\ ReplaceSelf(u)
      /\ UNCHANGED <<host, stream, scope, order, reading, contested, gaveUp, wait, spoiled>>
      /\ wait \in Waits /\ spoiled \subseteq Units
  BY DEF AskForHelper, Doings, dockerVars, scopeVars, readVars, history, Stages,
         ScopesTyped, Waits
<1>2. \A v \in Units : v # u => (unit'[v] = "parked" => unit[v] = "parked")
  BY <1>1, UnitsLeave
<1>3. Stages' /\ (\A v \in Units : Onward(v)) /\ \A v \in Units : Firm(v)
  BY <1>1, <1>2, OneGoesOn DEF Settled, After, Fresh, Before
<1> QED
  BY <1>3

SucceedActs(u) ==
  /\ UNCHANGED <<host, stream, scope, order, reading, contested, gaveUp, spoiled>>
  /\ op[u].doing = "answered" /\ op'[u].doing = "settles"
  /\ wait' \in Waits
  /\ \A x \in Ids : \/ wait'[x] = wait[x]
                    \/ wait'[x].for = wait[x].for /\ wait[x].for = u

LEMMA SucceedStage ==
  ASSUME Stages, TypeOK, NEW u \in Units, Succeed(u)
  PROVE  Stages' /\ (\A v \in Units : Onward(v) /\ Firm(v)) /\ SucceedActs(u)
<1>1. /\ Doing(u, "settles") /\ "settles" \in Doings /\ op[u].doing = "answered" /\ Leave(u)
      /\ UNCHANGED <<host, stream, scope, order, reading, contested, gaveUp, spoiled>>
      /\ wait' = [x \in Ids |-> IF x \in Mine(u) THEN [wait[x] EXCEPT !.armed = TRUE] ELSE wait[x]]
      /\ wait \in Waits /\ spoiled \subseteq Units
  BY DEF Succeed, Doings, dockerVars, scopeVars, readVars, history, Stages, ScopesTyped, Waits
<1>2. ASSUME NEW x \in Ids
      PROVE  /\ wait'[x] \in [for : Parties, armed : BOOLEAN]
             /\ \/ wait'[x] = wait[x]
                \/ wait'[x].for = wait[x].for /\ wait[x].for = u
  BY <1>1 DEF Waits, Mine
<1>3. wait' \in Waits
  BY <1>1, <1>2 DEF Waits
<1>4. (\A v \in Units : v # u => (unit'[v] = "parked" => unit[v] = "parked")) /\ unit'[u] # "parked"
  BY <1>1, UnitsLeave
<1>5. Stages' /\ (\A v \in Units : Onward(v)) /\ (\A v \in Units : Firm(v)) /\ op'[u].doing = "settles"
  BY <1>1, <1>3, <1>4, OneGoesOn DEF Settled, After, Fresh, Before
<1> QED
  BY <1>1, <1>2, <1>3, <1>5 DEF SucceedActs

\* The recreate says what it is going to touch.
Announces(u) ==
  /\ op[u].doing = "asks" /\ op[u].kind = "recreate" /\ UNCHANGED <<wait, spoiled>>
  /\ op'[u].doing = IF op'[u].ran THEN "stops" ELSE "removes"
  /\ scope'[u].named /\ scope'[u].ids = scope[u].ids
  /\ scope'[u].open = scope[u].open /\ scope'[u].finished = scope[u].finished
  /\ \E p \in scope'[u].pending : p.kind = IF op'[u].ran THEN "started" ELSE "removed"

WaitsFor(u) ==
  /\ op'[u].doing = (IF op[u].kind = "restart" THEN "stops" ELSE "starts")
  /\ op'[u].ran = op[u].ran /\ (op[u].doing = "asks" => op[u].kind \in {"start", "restart"})
  /\ scope'[u] = scope[u]
  /\ ExpectHealth(u, op[u].target) /\ op[u].target \in Ids /\ wait' \in Waits

InspectActs(u) ==
  /\ UNCHANGED <<host, stream, order, reading, contested, gaveUp>>
  /\ op[u].doing \in {"asks", "looks"}
  /\ op'[u].kind = op[u].kind /\ op'[u].target = op[u].target
  /\ \A v \in Units : v # u => op'[v] = op[v] /\ scope'[v] = scope[v]
  /\ \/ /\ op'[u].doing = "turned down" /\ op'[u].ran = op[u].ran
        /\ UNCHANGED <<wait, spoiled, scope>>
     \/ Announces(u)
     \/ WaitsFor(u)

LEMMA InspectStage ==
  ASSUME Stages, TypeOK, NEW u \in Units, Inspected(u)
  PROVE  /\ Stages' /\ (\A v \in Units : Onward(v)) /\ (\A v \in Units : v # u => Firm(v))
         /\ InspectActs(u)
<1>0. /\ ScopesTyped /\ Stage(u) /\ op[u].doing \in {"asks", "looks"} /\ op[u].kind # "self"
      /\ UNCHANGED <<vars, host, stream, order, reading, contested, gaveUp>>
      /\ op[u].target \in Ids /\ op[u].target \in Nat /\ host.made \in Ids
      /\ wait \in Waits /\ spoiled \subseteq Units /\ scope \in Scopes
      /\ (unit[u] = "parked" => op[u].doing = "parked")
  <2>1. ScopesTyped /\ Stage(u) /\ op[u].doing \in {"asks", "looks"} /\ host.made \in Ids
    BY MadeFits DEF Inspected, Stages
  <2> QED
    BY <2>1, UnitsCounted DEF Inspected, Stages, Stage, ScopesTyped, Waits, Scopes, dockerVars, readVars
<1>1. CASE ~There(u)
  <2>1. Doing(u, "turned down") /\ UNCHANGED <<scope, wait, spoiled>> /\ "turned down" \in Doings
    BY <1>1 DEF Inspected, Doings
  <2>2. /\ Stages' /\ (\A v \in Units : Onward(v)) /\ (\A v \in Units : Firm(v))
        /\ op'[u].kind = op[u].kind /\ op'[u].ran = op[u].ran
        /\ op'[u].target = op[u].target /\ op'[u].doing = "turned down"
        /\ \A v \in Units : v # u => op'[v] = op[v]
    BY <1>0, <2>1, OneGoesOn DEF Settled, After, Fresh, Before, vars
  <2> QED
    BY <1>0, <2>1, <2>2 DEF InspectActs
<1>2. CASE There(u) /\ op[u].kind = "recreate" /\ op[u].doing = "asks"
  <2> DEFINE r == host.running
             d == IF host.running THEN "stops" ELSE "removes"
             p == {[kind |-> "removed", id |-> op[u].target]} \cup
                           IF host.running THEN {[kind |-> "started", id |-> AnyId]} ELSE {}
  <2>1. /\ op' = [op EXCEPT ![u].ran = r, ![u].doing = d]
        /\ scope' = [scope EXCEPT ![u].named = TRUE, ![u].pending = p]
        /\ UNCHANGED <<wait, spoiled>>
    BY <1>2 DEF Inspected
  <2>2. r \in BOOLEAN /\ d \in Doings
    BY <1>0 DEF ScopesTyped, Doings
  <2>3. /\ p \in SUBSET [kind : Shown, id : Nat]
        /\ \E q \in p : q.kind = IF r THEN "started" ELSE "removed"
    <3>1. "removed" \in Shown /\ "started" \in Shown /\ AnyId \in Nat
      BY DEF Shown, AnyId
    <3>2. /\ [kind |-> "removed", id |-> op[u].target] \in [kind : Shown, id : Nat]
          /\ [kind |-> "started", id |-> AnyId] \in [kind : Shown, id : Nat]
      BY <1>0, <3>1
    <3>3. p \in SUBSET [kind : Shown, id : Nat]
      BY <3>2
    <3>4. CASE host.running
      <4>1. [kind |-> "started", id |-> AnyId] \in p
        BY <3>4
      <4> QED
        BY <3>3, <3>4, <4>1
    <3>5. CASE ~host.running
      <4>1. [kind |-> "removed", id |-> op[u].target] \in p
        OBVIOUS
      <4> QED
        BY <3>3, <3>5, <4>1
    <3> QED
      BY <3>3, <3>4, <3>5
  <2>4. d = IF r THEN "stops" ELSE "removes"
    OBVIOUS
  <2> HIDE DEF r, d, p
  <2>5. /\ op' \in [Units -> [kind : Kinds, doing : Doings, target : Nat, ran : BOOLEAN]]
        /\ op'[u].kind = op[u].kind /\ op'[u].ran = r
        /\ op'[u].target = op[u].target /\ op'[u].doing = d
        /\ \A v \in Units : v # u => op'[v] = op[v]
    BY <1>0, <2>1, <2>2 DEF ScopesTyped
  <2>6. /\ scope' \in Scopes /\ scope'[u].named /\ scope'[u].ids = scope[u].ids
        /\ scope'[u].open = scope[u].open /\ scope'[u].finished = scope[u].finished
        /\ scope'[u].pending = p
        /\ \A v \in Units : v # u => scope'[v] = scope[v]
    BY <1>0, <2>1, <2>3 DEF Scopes
  <2>7. Announces(u)
    BY <1>2, <2>1, <2>3, <2>4, <2>5, <2>6 DEF Announces
  <2>8. InspectActs(u)
    BY <1>0, <2>5, <2>6, <2>7 DEF InspectActs
  <2>9. ScopesTyped'
    BY <1>0, <2>1, <2>5, <2>6 DEF ScopesTyped, Scopes, Waits
  <2>a. Stage(u)' /\ Onward(u)
    BY <1>0, <1>2, <2>4, <2>5, <2>6
       DEF Stage, Onward, Goes, Open, Before, After, Settled, Fresh, vars, OfContainer
  <2>b. Firm(u)
    BY <1>2, <2>5, <2>4 DEF Firm, Awaits
  <2> QED
    BY <1>0, <2>5, <2>6, <2>8, <2>9, <2>a, <2>b, OneSteps DEF vars
<1>3. CASE There(u) /\ ~(op[u].kind = "recreate" /\ op[u].doing = "asks")
  <2> DEFINE d == IF op[u].kind = "restart" THEN "stops" ELSE "starts"
  <2>1. ExpectHealth(u, op[u].target) /\ Doing(u, d) /\ UNCHANGED scope
    BY <1>3 DEF Inspected
  <2>2. wait' \in Waits /\ spoiled' \subseteq Units
    BY <1>0, <2>1 DEF ExpectHealth, Waits, Parties
  <2>3. op[u].doing = "asks" => op[u].kind \in {"start", "restart"}
    BY <1>0, <1>3 DEF Stage
  <2>4. op[u].doing = "looks" => op[u].kind = "recreate" /\ op[u].ran
    BY <1>0 DEF Stage
  <2>5. /\ d \in Doings /\ d \in {"stops", "starts"} /\ (d = "stops" <=> op[u].kind = "restart")
        /\ op[u].doing = "asks" => ~op[u].ran
    BY <1>0 DEF Doings, Stage, Fresh
  <2>6. \A v \in Units : v # u => (unit'[v] = "parked" => unit[v] = "parked")
    BY <1>0 DEF vars
  <2> HIDE DEF d
  <2>7. /\ Stages' /\ (\A v \in Units : Onward(v)) /\ (\A v \in Units : v # u => Firm(v))
        /\ op'[u].kind = op[u].kind /\ op'[u].ran = op[u].ran
        /\ op'[u].target = op[u].target /\ op'[u].doing = d
        /\ \A v \in Units : v # u => op'[v] = op[v]
    BY <1>0, <2>1, <2>2, <2>3, <2>4, <2>5, <2>6, OneGoesOn DEF Settled, After, Fresh, Before, vars
  <2>8. WaitsFor(u)
    BY <1>0, <2>1, <2>2, <2>3, <2>7 DEF WaitsFor, d
  <2> QED
    BY <1>0, <2>1, <2>7, <2>8 DEF InspectActs
<1> QED
  BY <1>1, <1>2, <1>3

\* endScope: the scope is closed, or left open for what it still expects.
Finishes(u) ==
  \/ scope[u].pending = {} /\ Closed(u)
  \/ /\ scope[u].pending # {} /\ order' = order /\ scope' \in Scopes
     /\ scope' = [scope EXCEPT ![u].finished = TRUE]

LEMMA FinishStage ==
  ASSUME Stages, TypeOK, NEW u \in Units, Finish(u), Doing(u, "over"),
         op[u].doing \in {"settles", "turned down"},
         \A v \in Units : unit'[v] = "parked" => unit[v] = "parked",
         UNCHANGED <<host, stream, reading, contested, gaveUp, spoiled>>, wait' \in Waits
  PROVE  /\ Stages' /\ (\A v \in Units : Onward(v) /\ Firm(v)) /\ Finishes(u)
         /\ op'[u].doing = "over" /\ \A v \in Units : v # u => op'[v] = op[v]
<1>1. ScopesTyped /\ Stage(u) /\ Open(u) /\ "over" \in Doings /\ scope \in Scopes
  BY DEF Stages, Stage, Doings, ScopesTyped, Scopes
<1>2. /\ op' \in [Units -> [kind : Kinds, doing : Doings, target : Nat, ran : BOOLEAN]]
      /\ op'[u].kind = op[u].kind /\ op'[u].ran = op[u].ran
      /\ op'[u].target = op[u].target /\ op'[u].doing = "over"
      /\ \A v \in Units : v # u => op'[v] = op[v]
  BY <1>1, OneActs
<1>3. unit'[u] # "parked"
  BY <1>1 DEF Stage
<1>4. CASE scope[u].pending = {}
  <2>1. Closed(u)
    BY <1>1, <1>4, Closes DEF Finish, Stage
  <2>2. ScopesTyped'
    BY <1>1, <1>2, <2>1 DEF ScopesTyped, Waits, Closed
  <2>3. Stage(u)' /\ Onward(u) /\ Firm(u)
    <3>1. /\ ~scope'[u].open /\ ~scope'[u].named /\ scope'[u].ids = {}
          /\ ~scope'[u].finished
      <4>1. scope'[u] = NoScope
        BY <2>1 DEF Closed
      <4>2. /\ ~NoScope.open /\ ~NoScope.named /\ NoScope.ids = {} /\ ~NoScope.finished
        BY DEF NoScope
      <4> QED
        BY <4>1, <4>2
    <3>2. Stage(u)'
      BY <1>1, <1>2, <1>3, <3>1 DEF Stage, Open, Fresh
    <3>3. Onward(u) /\ Firm(u)
      BY <1>2 DEF Onward, Firm, Awaits, Goes, Before, After, Settled, Fresh
    <3> QED
      BY <3>2, <3>3
  <2> QED
    BY <1>2, <1>4, <2>1, <2>2, <2>3, OneSteps DEF Finishes, Closed
<1>5. CASE scope[u].pending # {}
  <2>1. scope' = [scope EXCEPT ![u].finished = TRUE] /\ order' = order
    BY <1>5 DEF Finish
  <2>2. /\ scope' \in Scopes /\ \A v \in Units : v # u => scope'[v] = scope[v]
        /\ scope'[u].open = scope[u].open /\ scope'[u].named = scope[u].named
        /\ scope'[u].ids = scope[u].ids
    BY <1>1, <2>1 DEF Scopes
  <2>3. ScopesTyped'
    BY <1>1, <1>2, <2>1, <2>2 DEF ScopesTyped, Waits, Scopes
  <2>4. Stage(u)' /\ Onward(u) /\ Firm(u)
    <3>1. order' = order
      BY <2>1
    <3>2. Stage(u)'
      BY <1>1, <1>2, <1>3, <2>2, <3>1 DEF Stage, Open, Fresh
    <3>3. Onward(u) /\ Firm(u)
      BY <1>2 DEF Onward, Firm, Awaits, Goes, Before, After, Settled, Fresh
    <3> QED
      BY <3>2, <3>3
  <2> QED
    BY <1>2, <1>5, <2>1, <2>2, <2>3, <2>4, OneSteps DEF Finishes
<1> QED
  BY <1>4, <1>5

SettleActs(u) ==
  /\ UNCHANGED <<host, stream, reading, contested, gaveUp, spoiled>> /\ Finishes(u)
  /\ op[u].doing \in {"settles", "turned down"} /\ op'[u].doing = "over"
  /\ \A v \in Units : v # u => op'[v] = op[v]
  /\ wait' \in Waits
  /\ \A x \in Ids : \/ wait'[x] = wait[x]
                    \/ op[u].doing = "turned down" /\ wait[x].for = u /\ wait'[x] = NoWait

LEMMA SettleStage ==
  ASSUME Stages, TypeOK, NEW u \in Units, Settle(u)
  PROVE  Stages' /\ (\A v \in Units : Onward(v) /\ Firm(v)) /\ SettleActs(u)
<1>1. /\ Finish(u) /\ Doing(u, "over") /\ op[u].doing = "settles"
      /\ UNCHANGED <<unit, host, stream, reading, contested, gaveUp, spoiled, wait>>
      /\ wait \in Waits
  BY RequestTyped DEF Settle, dockerVars, history, vars, Stages, ScopesTyped, Waits
<1>2. /\ Stages' /\ (\A v \in Units : Onward(v) /\ Firm(v)) /\ Finishes(u)
      /\ op'[u].doing = "over" /\ \A v \in Units : v # u => op'[v] = op[v]
  BY <1>1, FinishStage
<1> QED
  BY <1>1, <1>2 DEF SettleActs

LEMMA FailStage ==
  ASSUME Stages, TypeOK, NEW u \in Units, Fail(u)
  PROVE  Stages' /\ (\A v \in Units : Onward(v) /\ Firm(v)) /\ SettleActs(u)
<1>1. /\ Finish(u) /\ Doing(u, "over") /\ op[u].doing = "turned down" /\ Leave(u)
      /\ UNCHANGED <<host, stream, reading, contested, gaveUp, spoiled>>
      /\ wait' = [x \in Ids |-> IF x \in Mine(u) THEN NoWait ELSE wait[x]]
      /\ wait \in Waits
  BY RequestTyped DEF Fail, dockerVars, history, vars, Stages, ScopesTyped, Waits
<1>2. ASSUME NEW x \in Ids
      PROVE  /\ wait'[x] \in [for : Parties, armed : BOOLEAN]
             /\ wait'[x] = wait[x] \/ (wait[x].for = u /\ wait'[x] = NoWait)
  BY <1>1, UnitsCounted DEF Waits, Mine, NoWait
<1>3. wait' \in Waits
  BY <1>1, <1>2 DEF Waits
<1>4. \A v \in Units : unit'[v] = "parked" => unit[v] = "parked"
  BY <1>1, UnitsLeave
<1>5. /\ Stages' /\ (\A v \in Units : Onward(v) /\ Firm(v)) /\ Finishes(u)
      /\ op'[u].doing = "over" /\ \A v \in Units : v # u => op'[v] = op[v]
  BY <1>1, <1>3, <1>4, FinishStage
<1> QED
  BY <1>1, <1>2, <1>3, <1>5 DEF SettleActs

GraceActs(u) ==
  /\ UNCHANGED <<host, stream, op, wait, reading, contested, spoiled>> /\ Closed(u)
  /\ gaveUp' = gaveUp \cup {u} /\ Open(u) /\ scope[u].finished /\ op[u].doing \in {"none", "over"}

LEMMA GraceStage ==
  ASSUME Stages, TypeOK, NEW u \in Units, GraceEnds(u)
  PROVE  Stages' /\ (\A v \in Units : Onward(v) /\ Firm(v)) /\ GraceActs(u)
<1>1. /\ ScopesTyped /\ Stage(u) /\ Open(u) /\ scope[u].finished /\ Close(u)
      /\ gaveUp' = gaveUp \cup {u}
      /\ UNCHANGED <<unit, host, stream, op, wait, reading, contested, spoiled>>
  BY DEF GraceEnds, Stages, dockerVars, readVars, vars
<1>2. Closed(u)
  BY <1>1, Closes DEF Stage
<1>3. op[u].doing \in {"none", "over"}
  BY <1>1 DEF Stage
<1>4. ScopesTyped'
  BY <1>1, <1>2 DEF ScopesTyped, Closed
<1>5. Stage(u)' /\ Onward(u) /\ Firm(u)
  BY <1>1, <1>2, <1>3 DEF Stage, Onward, Firm, Awaits, Goes, Open, Closed, NoScope
<1> QED
  BY <1>1, <1>2, <1>3, <1>4, <1>5, OneSteps DEF GraceActs, Closed

\* replaceSelf returns to the actions that called it.
ReplyActs(what) ==
  /\ UNCHANGED <<host, stream, scope, order, wait, reading, contested, gaveUp, spoiled>>
  /\ \A v \in Units :
       \/ op'[v] = op[v]
       \/ /\ op[v].doing = "parked" /\ op'[v].doing = what
          /\ op'[v].kind = op[v].kind /\ op'[v].target = op[v].target

LEMMA RepliesStage ==
  ASSUME Stages, TypeOK, NEW what \in {"turned down", "answered"}, Return, Replies(what)
  PROVE  Stages' /\ (\A v \in Units : Onward(v) /\ Firm(v)) /\ ReplyActs(what)
<1>1. /\ ScopesTyped /\ what \in Doings
      /\ UNCHANGED <<host, stream, scope, order, wait, reading, contested, gaveUp, spoiled>>
      /\ op' = [u \in Units |-> IF u \in Parked THEN [op[u] EXCEPT !.doing = what] ELSE op[u]]
      /\ unit' = [u \in Units |-> IF unit[u] = "parked" THEN "working" ELSE unit[u]]
  BY DEF Replies, Return, Stages, Doings, scopeVars, dockerVars, readVars, history
<1>2. ASSUME NEW v \in Units
      PROVE  /\ op'[v] \in [kind : Kinds, doing : Doings, target : Nat, ran : BOOLEAN]
             /\ unit'[v] # "parked"
             /\ \/ op'[v] = op[v]
                \/ /\ op[v].doing = "parked" /\ op'[v].doing = what
                   /\ op'[v].kind = op[v].kind /\ op'[v].target = op[v].target
                   /\ op'[v].ran = op[v].ran
             /\ Stage(v)
  <2>1. /\ Stage(v) /\ op[v] \in [kind : Kinds, doing : Doings, target : Nat, ran : BOOLEAN]
        /\ unit'[v] # "parked"
    BY <1>1 DEF Stages, ScopesTyped
  <2>2. CASE unit[v] = "parked"
    <3>1. op[v].doing = "parked"
      BY <2>1, <2>2 DEF Stage
    <3>2. op'[v] = [op[v] EXCEPT !.doing = what]
      BY <1>1, <2>2 DEF Parked, In
    <3> QED
      BY <1>1, <2>1, <3>1, <3>2
  <2>3. CASE unit[v] # "parked"
    <3>1. op'[v] = op[v]
      BY <1>1, <2>3 DEF Parked, In
    <3> QED
      BY <2>1, <3>1
  <2> QED
    BY <2>2, <2>3
<1>3. ScopesTyped'
  BY <1>1, <1>2 DEF ScopesTyped
<1>4. ASSUME NEW v \in Units PROVE Stage(v)' /\ Onward(v) /\ Firm(v)
  <2>0. /\ Stage(v) /\ unit'[v] # "parked" /\ scope'[v] = scope[v] /\ order' = order
    BY <1>1, <1>2
  <2>1. CASE op'[v] = op[v]
    BY <2>0, <2>1, StageStays
  <2>2. CASE op'[v] # op[v]
    <3>1. /\ op[v].doing = "parked" /\ op'[v].doing = what /\ what \in {"turned down", "answered"}
          /\ op'[v].kind = op[v].kind /\ op'[v].target = op[v].target /\ op'[v].ran = op[v].ran
      BY <1>2, <2>2
    <3>2. Stage(v)'
      BY <2>0, <3>1 DEF Stage, Open, Fresh
    <3>3. Onward(v) /\ Firm(v)
      BY <3>1 DEF Onward, Firm, Awaits, Goes, Before, After, Settled, Fresh
    <3> QED
      BY <3>2, <3>3
  <2> QED
    BY <2>1, <2>2
<1> QED
  BY <1>1, <1>2, <1>3, <1>4, HostSame DEF ReplyActs

SelfActs ==
  \/ ReplyActs("turned down") \/ ReplyActs("answered")
  \/ UNCHANGED <<host, stream, op, scope, order, wait, reading, contested, gaveUp, spoiled>>

LEMMA SameStage ==
  ASSUME Stages,
         UNCHANGED <<unit, host, stream, op, scope, order, wait, reading, contested, gaveUp, spoiled>>
  PROVE  Stages' /\ (\A v \in Units : Onward(v) /\ Firm(v))
<1>1. ScopesTyped'
  BY DEF Stages, ScopesTyped
<1> QED
  BY <1>1, NoneSteps

LEMMA SelfStage ==
  ASSUME Stages, TypeOK, SelfUpdate
  PROVE  Stages' /\ (\A v \in Units : Onward(v) /\ Firm(v)) /\ SelfActs
<1>1. CASE (Abandon \/ SpawnFails) /\ Replies("turned down")
  BY <1>1, RepliesStage DEF Abandon, SpawnFails, SelfActs
<1>2. CASE Spawn /\ Replies("answered")
  BY <1>2, RepliesStage DEF Spawn, SelfActs
<1>3. CASE (HelperGivesUp \/ WaitRejected \/ HelperGivesUpUnseen \/ HelperStops) /\ UNCHANGED rest
  <2>1. UNCHANGED <<unit, host, stream, op, scope, order, wait, reading, contested, gaveUp, spoiled>>
    BY <1>3 DEF HelperGivesUp, WaitRejected, Exited, HelperGivesUpUnseen, HelperStops, rest,
                dockerVars, scopeVars, readVars, history
  <2> QED
    BY <2>1, SameStage DEF SelfActs
<1> QED
  BY <1>1, <1>2, <1>3 DEF SelfUpdate

-----------------------------------------------------------------------------
(* Whom a first health status is credited to.                              *)

\* A status that is under way: whom it was due to and who started the
\* container, that one's wait being there until it is heard.
Status(e) ==
  e.kind = "health" =>
    /\ e.waiting \in {e.by, Nobody} \cup spoiled
    /\ e.by \in Units =>
         /\ op[e.by].doing \in After
         /\ e.by \notin spoiled => e.waiting = e.by /\ wait[e.id].for = e.by
         /\ ~(host.status = "starting" /\ host.by = e.by)

Filed(e) == \E i \in DOMAIN stream : stream[i] = e

Begins(e) == (e.first => e.kind = "health") /\ (e.kind = "health" => e.first)

\* Each action starts a container once, so at most one status is its own.
Credit ==
  /\ \A e \in Event : Filed(e) => Begins(e) /\ Status(e)
  /\ \A i, j \in DOMAIN stream :
       /\ i # j /\ stream[i].kind = "health" /\ stream[j].kind = "health"
       /\ stream[i].by = stream[j].by
       => stream[i].by \notin Units

\* The wait is taken out before the start and is there until the status is;
\* no snapshot that judges it has found anything but the container starting.
Waiting ==
  /\ \A u \in Units \ spoiled : Awaits(u) => wait[op[u].target].for = u
  /\ host.status = "starting" /\ host.by \in Units =>
       /\ op[host.by].doing \in After
       /\ host.by \notin spoiled => wait[host.id].for = host.by
       /\ reading.starting # Unread /\ host.by \in reading.mark => reading.starting = host.id

Health == Credit /\ Waiting /\ ArmedSettled

LEMMA StatusStays ==
  ASSUME NEW e \in Event, Status(e), \A v \in Units : Onward(v), spoiled \subseteq spoiled',
         host'.status = "starting" /\ host'.by \in Units =>
           \/ host.status = "starting" /\ host.by = host'.by
           \/ op[host'.by].doing \notin After,
         e.kind = "health" /\ e.by \in Units \ spoiled' /\ wait[e.id].for = e.by
           => wait'[e.id].for = e.by
  PROVE  Status(e)'
<1> SUFFICES ASSUME e.kind = "health" PROVE Status(e)'
  BY DEF Status
<1>1. e.waiting \in {e.by, Nobody} \cup spoiled'
  BY DEF Status
<1>2. ASSUME e.by \in Units
      PROVE  /\ op'[e.by].doing \in After
             /\ e.by \notin spoiled' => e.waiting = e.by /\ wait'[e.id].for = e.by
             /\ ~(host'.status = "starting" /\ host'.by = e.by)
  BY <1>2 DEF Status, Onward
<1> QED
  BY <1>1, <1>2 DEF Status

LEMMA CreditSuffix ==
  ASSUME ScopesTyped, Credit, \A v \in Units : Onward(v), spoiled \subseteq spoiled',
         host'.status = "starting" /\ host'.by \in Units =>
           \/ host.status = "starting" /\ host.by = host'.by
           \/ op[host'.by].doing \notin After,
         NEW k \in Nat, stream' \in Seq(Event), Len(stream') = Len(stream) - k,
         \A i \in 1 .. Len(stream) - k : stream'[i] = stream[k + i],
         \A e \in Event :
           /\ Filed(e)' /\ e.kind = "health" /\ e.by \in Units \ spoiled'
           /\ wait[e.id].for = e.by
           => wait'[e.id].for = e.by
  PROVE  Credit'
<1>1. /\ stream \in Seq(Event) /\ Len(stream) \in Nat /\ DOMAIN stream = 1 .. Len(stream)
      /\ DOMAIN stream' = 1 .. Len(stream) - k
  BY DEF ScopesTyped
<1>2. ASSUME NEW i \in DOMAIN stream'
      PROVE  /\ k + i \in DOMAIN stream /\ stream'[i] = stream[k + i] /\ stream[k + i] \in Event
             /\ i \in 1 .. Len(stream) - k
  BY <1>1
<1>3. ASSUME NEW e \in Event, Filed(e)'
      PROVE  Begins(e) /\ Status(e)'
  <2>1. Filed(e)
    BY <1>2, <1>3 DEF Filed
  <2>2. Begins(e) /\ Status(e)
    BY <2>1 DEF Credit
  <2> QED
    BY <1>3, <2>2, StatusStays
<1>4. ASSUME NEW i \in DOMAIN stream', NEW j \in DOMAIN stream', i # j,
             stream'[i].kind = "health", stream'[j].kind = "health", stream'[i].by = stream'[j].by
      PROVE  stream'[i].by \notin Units
  <2>1. k + i # k + j
    BY <1>1, <1>4
  <2> QED
    BY <1>2, <1>4, <2>1 DEF Credit
<1> QED
  BY <1>3, <1>4 DEF Credit

LEMMA CreditAppend ==
  ASSUME ScopesTyped, Credit, \A v \in Units : Onward(v), spoiled \subseteq spoiled',
         host'.status = "starting" /\ host'.by \in Units =>
           \/ host.status = "starting" /\ host.by = host'.by
           \/ op[host'.by].doing \notin After,
         wait' = wait,
         NEW e \in Event, stream' = Append(stream, e), Begins(e), Status(e)',
         e.kind = "health" /\ e.by \in Units => host.status = "starting" /\ host.by = e.by
  PROVE  Credit'
<1>1. /\ stream \in Seq(Event) /\ Len(stream) \in Nat /\ DOMAIN stream = 1 .. Len(stream)
      /\ DOMAIN stream' = 1 .. Len(stream) + 1 /\ stream'[Len(stream) + 1] = e
      /\ \A i \in 1 .. Len(stream) : stream'[i] = stream[i]
  BY AppendProperties DEF ScopesTyped
<1>2. ASSUME NEW i \in DOMAIN stream'
      PROVE  \/ i \in DOMAIN stream /\ stream'[i] = stream[i] /\ stream[i] \in Event
             \/ i = Len(stream) + 1 /\ stream'[i] = e
  BY <1>1
<1>3. ASSUME NEW f \in Event, Filed(f)'
      PROVE  Begins(f) /\ Status(f)'
  <2>1. CASE f = e
    BY <2>1
  <2>2. CASE Filed(f)
    <3>1. Begins(f) /\ Status(f)
      BY <2>2 DEF Credit
    <3> QED
      BY <3>1, StatusStays
  <2> QED
    BY <1>2, <1>3, <2>1, <2>2 DEF Filed
<1>4. ASSUME NEW i \in DOMAIN stream, stream[i].kind = "health", e.kind = "health",
             stream[i].by = e.by, e.by \in Units
      PROVE  FALSE
  <2>1. PICK f \in Event : f = stream[i]
    BY <1>1
  <2>2. Filed(f)
    BY <2>1 DEF Filed
  <2>3. Status(f)
    BY <2>2 DEF Credit
  <2> QED
    BY <1>4, <2>1, <2>3 DEF Status
<1>5. ASSUME NEW i \in DOMAIN stream', NEW j \in DOMAIN stream', i # j,
             stream'[i].kind = "health", stream'[j].kind = "health", stream'[i].by = stream'[j].by
      PROVE  stream'[i].by \notin Units
  <2>1. CASE i \in DOMAIN stream /\ j \in DOMAIN stream
    BY <1>1, <1>5, <2>1 DEF Credit
  <2>2. CASE i \in DOMAIN stream /\ j = Len(stream) + 1
    BY <1>1, <1>4, <1>5, <2>2
  <2>3. CASE i = Len(stream) + 1 /\ j \in DOMAIN stream
    BY <1>1, <1>4, <1>5, <2>3
  <2> QED
    BY <1>2, <1>5, <2>1, <2>2, <2>3
<1> QED
  BY <1>3, <1>5 DEF Credit

\* A step of which no event, no wait and nothing of the host is part.
LEMMA CreditStays ==
  ASSUME ScopesTyped, Credit, \A v \in Units : Onward(v), spoiled \subseteq spoiled',
         host' = host, stream' = stream,
         \A e \in Event :
           /\ Filed(e) /\ e.kind = "health" /\ e.by \in Units \ spoiled'
           /\ wait[e.id].for = e.by
           => wait'[e.id].for = e.by
  PROVE  Credit'
<1>1. stream \in Seq(Event) /\ Len(stream) \in Nat
  BY DEF ScopesTyped
<1>2. 0 \in Nat /\ Len(stream') = Len(stream) - 0 /\ stream' \in Seq(Event)
      /\ \A i \in 1 .. Len(stream) - 0 : stream'[i] = stream[0 + i]
  BY <1>1
<1>3. \A e \in Event : Filed(e)' = Filed(e)
  BY DEF Filed
<1> QED
  BY <1>2, <1>3, CreditSuffix

LEMMA WaitingStays ==
  ASSUME ScopesTyped, Waiting, \A v \in Units : Onward(v), spoiled \subseteq spoiled',
         host'.status = "starting" /\ host'.by \in Units =>
           host.status = "starting" /\ host.by = host'.by /\ host.id = host'.id,
         reading' = reading \/ reading'.starting = Unread,
         \A u \in Units \ spoiled' :
           Awaits(u)' => \/ Firm(u) /\ wait'[op[u].target].for = wait[op[u].target].for
                         \/ wait'[op'[u].target].for = u,
         host.status = "starting" /\ host.by \in Units \ spoiled' /\ wait[host.id].for = host.by
           => wait'[host.id].for = host.by
  PROVE  Waiting'
<1>1. ASSUME NEW u \in Units \ spoiled', Awaits(u)' PROVE wait'[op'[u].target].for = u
  <2>1. CASE wait'[op'[u].target].for = u
    BY <2>1
  <2>2. CASE Firm(u) /\ wait'[op[u].target].for = wait[op[u].target].for
    BY <1>1, <2>2 DEF Firm, Waiting
  <2> QED
    BY <1>1, <2>1, <2>2
<1>2. ASSUME host'.status = "starting", host'.by \in Units
      PROVE  /\ op'[host'.by].doing \in After
             /\ host'.by \notin spoiled' => wait'[host'.id].for = host'.by
             /\ reading'.starting # Unread /\ host'.by \in reading'.mark
                  => reading'.starting = host'.id
  BY <1>2 DEF Waiting, Onward
<1> QED
  BY <1>1, <1>2 DEF Waiting

LEMMA ArmedStays ==
  ASSUME ScopesTyped, ArmedSettled, \A v \in Units : Onward(v),
         \A x \in Ids : wait'[x].armed =>
           \/ wait[x].armed /\ wait'[x].for = wait[x].for
           \/ wait'[x].for \in Units /\ op'[wait'[x].for].doing \in Settled,
         reading'.mark \subseteq reading.mark
  PROVE  ArmedSettled'
<1>1. ASSUME NEW x \in Ids, wait'[x].armed
      PROVE  wait'[x].for \in Units /\ op'[wait'[x].for].doing \in Settled
  BY <1>1 DEF ArmedSettled, Onward
<1>2. ASSUME NEW u \in reading'.mark PROVE op'[u].doing \in Settled
  BY DEF ArmedSettled, Onward, ScopesTyped
<1> QED
  BY <1>1, <1>2 DEF ArmedSettled

\* Actions go on, and nothing else that matters here happens.
LEMMA HealthSame ==
  ASSUME ScopesTyped, Health, \A v \in Units : Onward(v) /\ Firm(v),
         UNCHANGED <<host, stream, wait, reading, spoiled>>
  PROVE  Health'
<1>1. Credit'
  BY CreditStays DEF Health
<1>2. Waiting'
  BY WaitingStays DEF Health
<1>3. ArmedSettled'
  BY ArmedStays DEF Health
<1> QED
  BY <1>1, <1>2, <1>3 DEF Health

LEMMA DockerHealth ==
  ASSUME Stages, Health, NEW u \in Units, Docker(u)
  PROVE  Health'
<1>0. /\ UNCHANGED <<vars, scope, order, wait, reading, asked, faults, contested, gaveUp,
                     spoiled>>
      /\ op'[u].kind = op[u].kind /\ op'[u].ran = op[u].ran
      /\ \A v \in Units : v # u => op'[v] = op[v]
      /\ Calls(u) \/ \E e \in Event : Filing(u, e)
      /\ ScopesTyped /\ \A v \in Units : Onward(v) /\ Firm(v)
  BY DockerActs, DockerStage DEF Stages
<1>1. CASE Calls(u)
  BY <1>0, <1>1, HealthSame DEF Calls
<1>2. ASSUME NEW e \in Event, Filing(u, e) PROVE Health'
  <2>1. /\ stream' = Append(stream, e) /\ ~e.first /\ e.kind # "health"
        /\ Starts(u) => op[u].doing = "starts" /\ op'[u].doing = "answered"
    BY <1>2 DEF Filing, Starts
  <2>2. host'.status = "starting" =>
          \/ host.status = "starting" /\ host'.by = host.by /\ host'.id = host.id
          \/ Starts(u) /\ host'.by = u /\ host'.id = op[u].target
    BY <1>2, HostTyped
  <2>3. Credit'
    <3>1. Begins(e) /\ Status(e)'
      BY <2>1 DEF Status, Begins
    <3>2. host'.status = "starting" /\ host'.by \in Units =>
            \/ host.status = "starting" /\ host.by = host'.by
            \/ op[host'.by].doing \notin After
      BY <2>1, <2>2 DEF After
    <3> QED
      BY <1>0, <2>1, <3>1, <3>2, CreditAppend DEF Health
  <2>4. Waiting'
    <3>1. CASE host'.status = "starting" /\ Starts(u) /\ host'.by = u /\ host'.id = op[u].target
      <4>1. ASSUME NEW v \in Units \ spoiled', Awaits(v)' PROVE wait'[op'[v].target].for = v
        BY <1>0, <4>1 DEF Health, Waiting, Firm
      <4>2. op'[u].doing \in After /\ (u \notin spoiled' => wait'[op[u].target].for = u)
        BY <1>0, <2>1, <3>1 DEF After, Health, Waiting, Awaits
      <4>3. u \notin reading'.mark
        BY <1>0, <2>1, <3>1 DEF Health, ArmedSettled, Settled
      <4> QED
        BY <3>1, <4>1, <4>2, <4>3 DEF Waiting
    <3>2. CASE ~(host'.status = "starting" /\ Starts(u) /\ host'.by = u /\ host'.id = op[u].target)
      BY <1>0, <2>2, <3>2, WaitingStays DEF Health
    <3> QED
      BY <3>1, <3>2
  <2>5. ArmedSettled'
    BY <1>0, ArmedStays DEF Health
  <2> QED
    BY <2>3, <2>4, <2>5 DEF Health
<1> QED
  BY <1>0, <1>1, <1>2

LEMMA HandHealth ==
  ASSUME Stages, Health, Hand
  PROVE  Health'
<1>1. HandActs /\ ScopesTyped /\ \A v \in Units : Onward(v) /\ Firm(v)
  BY HandStage DEF Stages
<1>2. Nobody \notin Units
  BY UnitsCounted
<1>3. PICK e \in Event : /\ stream' = Append(stream, e) /\ ~e.first
                         /\ e.kind \in {"stopped", "started"}
  BY <1>1 DEF HandActs, Files
<1>4. Begins(e) /\ Status(e)'
  BY <1>3 DEF Status, Begins
<1>5. Credit'
  BY <1>1, <1>2, <1>3, <1>4, CreditAppend DEF Health, HandActs
<1>6. Waiting'
  BY <1>1, <1>2, WaitingStays DEF Health, HandActs
<1>7. ArmedSettled'
  BY <1>1, ArmedStays DEF Health, HandActs
<1> QED
  BY <1>5, <1>6, <1>7 DEF Health

LEMMA HealthHealth ==
  ASSUME Stages, Health, HealthStatus
  PROVE  Health'
<1>1. HealthActs /\ ScopesTyped /\ \A v \in Units : Onward(v) /\ Firm(v)
  BY HealthStage DEF Stages
<1>2. PICK e \in Event : /\ stream' = Append(stream, e) /\ e.kind = "health" /\ e.by = host.by
                         /\ Begins(e)
                         /\ e.id = host.id /\ e.waiting = wait[host.id].for
  BY <1>1 DEF HealthActs, Files, Begins
<1>3. Status(e)'
  <2>1. e.waiting \in {e.by, Nobody} \cup spoiled'
    BY <1>1, <1>2 DEF HealthActs
  <2>2. ASSUME e.by \in Units
        PROVE  /\ op'[e.by].doing \in After
               /\ e.by \notin spoiled' => e.waiting = e.by /\ wait'[e.id].for = e.by
               /\ ~(host'.status = "starting" /\ host'.by = e.by)
    BY <1>1, <1>2, <2>2 DEF HealthActs, Health, Waiting
  <2> QED
    BY <2>1, <2>2 DEF Status
<1>4. Credit'
  BY <1>1, <1>2, <1>3, CreditAppend DEF Health, HealthActs
<1>5. Waiting'
  BY <1>1, WaitingStays DEF Health, HealthActs
<1>6. ArmedSettled'
  BY <1>1, ArmedStays DEF Health, HealthActs
<1> QED
  BY <1>4, <1>5, <1>6 DEF Health

LEMMA BeginReadHealth ==
  ASSUME Stages, Health, BeginRead
  PROVE  Health'
<1>1. /\ ScopesTyped /\ (\A v \in Units : Onward(v) /\ Firm(v))
      /\ UNCHANGED <<host, stream, op, wait, spoiled>>
      /\ reading' = [mark |-> Armed, starting |-> Unread]
  BY BeginReadStage DEF BeginRead, dockerVars, history, Stages, Health
<1>2. Credit'
  BY <1>1, CreditStays DEF Health
<1>3. Waiting'
  BY <1>1, WaitingStays DEF Health
<1>4. ArmedSettled'
  <2>1. \A u \in reading'.mark : op'[u].doing \in Settled
    BY <1>1 DEF Armed, Health, ArmedSettled
  <2> QED
    BY <1>1, <2>1 DEF Health, ArmedSettled
<1> QED
  BY <1>2, <1>3, <1>4 DEF Health

LEMMA ReadHostHealth ==
  ASSUME Stages, Health, ReadHost
  PROVE  Health'
<1>1. /\ ScopesTyped /\ Made /\ (\A v \in Units : Onward(v) /\ Firm(v))
      /\ UNCHANGED <<host, stream, op, wait, spoiled>>
      /\ reading' = [reading EXCEPT !.starting = IF host.status = "starting" THEN host.id ELSE 0]
  BY ReadHostStage DEF ReadHost, dockerVars, history, Stages, Health
<1>2. /\ reading'.mark = reading.mark
      /\ reading'.starting = IF host.status = "starting" THEN host.id ELSE 0
  BY <1>1 DEF ScopesTyped
<1>3. Credit'
  BY <1>1, CreditStays DEF Health
<1>4. Waiting'
  BY <1>1, <1>2 DEF Health, Waiting, Awaits
<1>5. ArmedSettled'
  BY <1>1, <1>2, ArmedStays DEF Health
<1> QED
  BY <1>3, <1>4, <1>5 DEF Health

\* A snapshot ends no wait whose container it saw starting, and one whose status
\* is on its way only at the price of a spoiled action.
LEMMA ReadDoneHealth ==
  ASSUME Stages, Health, ReadDone
  PROVE  Health'
<1>1. /\ ScopesTyped /\ Made /\ (\A v \in Units : Onward(v) /\ Firm(v))
      /\ UNCHANGED <<host, stream, op>>
      /\ reading.starting # Unread /\ reading' = NoRead
      /\ wait' = [x \in Ids |-> IF Ended(x) THEN NoWait ELSE wait[x]]
      /\ spoiled' = spoiled \cup {u \in Units : Underway(u) /\ \E x \in Ids : wait[x].for = u /\ Ended(x)}
  BY ReadDoneStage DEF ReadDone, dockerVars, Stages
<1>2. /\ reading'.starting = Unread /\ reading'.mark = {} /\ spoiled \subseteq spoiled'
      /\ \A x \in Ids : ~NoWait.armed /\ (wait'[x] = wait[x] \/ (Ended(x) /\ wait'[x] = NoWait))
  BY <1>1 DEF NoRead, NoWait
<1>3. ASSUME NEW x \in Ids, NEW u \in Units, wait[x].for = u, wait'[x].for # u
      PROVE  Ended(x) /\ u \in reading.mark /\ op[u].doing \in Settled /\ reading.starting # x
  <2>1. Ended(x)
    BY <1>2, <1>3
  <2>2. u \in reading.mark /\ reading.starting # x
    BY <1>3, <2>1 DEF Ended, Judged
  <2> QED
    BY <2>1, <2>2 DEF Health, ArmedSettled
<1>5. ASSUME NEW e \in Event, Filed(e), e.kind = "health", e.by \in Units \ spoiled',
             wait[e.id].for = e.by, wait'[e.id].for # e.by
      PROVE  FALSE
  <2>1. Ended(e.id) /\ e.id \in Ids
    BY <1>3, <1>5 DEF Event
  <2>2. e.first
    BY <1>5 DEF Health, Credit, Begins
  <2>3. Underway(e.by)
    BY <1>5, <2>2 DEF Underway, Filed
  <2> QED
    BY <1>1, <1>5, <2>1, <2>3
<1>6. Credit'
  <2>1. \A e \in Event : Filed(e)' => Filed(e)
    BY <1>1 DEF Filed
  <2> QED
    BY <1>1, <1>2, <1>5, CreditStays DEF Health
<1>7. Waiting'
  <2>1. ASSUME NEW u \in Units \ spoiled', Awaits(u)'
        PROVE  Firm(u) /\ wait'[op[u].target].for = wait[op[u].target].for
    <3>1. Firm(u) /\ Awaits(u) /\ u \notin spoiled /\ op[u].doing \notin Settled
          /\ op[u].doing \notin {"none", "over"}
      BY <1>1, <1>2, <2>1 DEF Firm, Awaits, Settled
    <3>2. op[u].target \in Ids /\ wait[op[u].target].for = u
      BY <3>1 DEF Health, Waiting, Stages, Stage
    <3> QED
      BY <1>3, <3>1, <3>2
  <2>2. ASSUME host.status = "starting", host.by \in Units \ spoiled', wait[host.id].for = host.by
        PROVE  wait'[host.id].for = host.by
    <3>1. host.id \in Ids
      BY <2>2, MadeFits DEF Made, Stages
    <3>2. host.by \in reading.mark => reading.starting = host.id
      BY <1>1, <2>2 DEF Health, Waiting
    <3> QED
      BY <1>3, <2>2, <3>1, <3>2
  <2> QED
    BY <1>1, <1>2, <2>1, <2>2, WaitingStays DEF Health
<1>8. ArmedSettled'
  BY <1>1, <1>2, ArmedStays DEF Health
<1> QED
  BY <1>6, <1>7, <1>8 DEF Health

LEMMA BreakHealth ==
  ASSUME Stages, Health, NEW n \in DOMAIN stream, Break(n)
  PROVE  Health'
<1>1. /\ ScopesTyped /\ ScopesTyped' /\ (\A v \in Units : Onward(v) /\ Firm(v))
      /\ UNCHANGED <<host, op, wait, spoiled, reading>>
      /\ Len(stream') = Len(stream) - n
      /\ \A i \in 1 .. Len(stream) - n : stream'[i] = stream[n + i]
  BY BreakStage, RequestTyped DEF Break, history, Stages
<1>2. n \in Nat /\ stream' \in Seq(Event)
  BY <1>1 DEF ScopesTyped
<1>3. Credit'
  BY <1>1, <1>2, CreditSuffix DEF Health
<1>4. Waiting'
  BY <1>1, WaitingStays DEF Health
<1>5. ArmedSettled'
  BY <1>1, ArmedStays DEF Health
<1> QED
  BY <1>3, <1>4, <1>5 DEF Health

\* The status that ends a wait is due to the one who waits, so it ends
\* no wait that another status, or a start, is still to use.
LEMMA HearHealth ==
  ASSUME Stages, Health, Hear
  PROVE  Health'
<1> DEFINE e == Head(stream)
<1>1. /\ ScopesTyped /\ ScopesTyped' /\ (\A v \in Units : Onward(v) /\ Firm(v)) /\ Made
      /\ UNCHANGED <<host, op, spoiled, reading>>
      /\ stream # <<>> /\ stream' = Tail(stream) /\ e \in Event
      /\ \/ Owed(e) /\ wait' = [wait EXCEPT ![e.id] = NoWait]
         \/ wait' = wait
  BY HearStage DEF HearActs, Ends, Passes, Gathers, Stages
<1>2. /\ Len(stream') = Len(stream) - 1 /\ stream' \in Seq(Event) /\ stream \in Seq(Event)
      /\ \A i \in 1 .. Len(stream) - 1 : stream'[i] = stream[1 + i]
      /\ e = stream[1] /\ 1 \in DOMAIN stream /\ Len(stream) \in Nat
  BY <1>1, HeadTailProperties DEF ScopesTyped
<1>3. Filed(e) /\ Status(e)
  BY <1>1, <1>2 DEF Filed, Health, Credit
<1>4. \A f \in Event : /\ Filed(f)' /\ f.kind = "health" /\ e.kind = "health" /\ f.by = e.by
                       => f.by \notin Units
  <2> SUFFICES ASSUME NEW f \in Event, Filed(f)', f.kind = "health", e.kind = "health", f.by = e.by
               PROVE  f.by \notin Units
    OBVIOUS
  <2>1. PICK i \in DOMAIN stream' : stream'[i] = f
    BY DEF Filed
  <2>2. 1 + i \in DOMAIN stream /\ stream[1 + i] = f /\ 1 + i # 1
    BY <1>2, <2>1
  <2> QED
    BY <1>2, <2>2 DEF Health, Credit
<1> HIDE DEF e
<1>5. ASSUME Owed(e), NEW x \in Ids, NEW u \in Units \ spoiled, wait[x].for = u, wait'[x].for # u
      PROVE  e.kind = "health" /\ e.by = u
  <2>1. wait' = [wait EXCEPT ![e.id] = NoWait]
    BY <1>1, <1>5
  <2>2. x = e.id
    BY <1>1, <1>5, <2>1 DEF ScopesTyped
  <2>3. e.waiting = u /\ e.kind = "health"
    BY <1>5, <2>2 DEF Owed
  <2> QED
    BY <1>3, <1>5, <2>3, UnitsCounted DEF Status
<1>6. ASSUME NEW x \in Ids, NEW u \in Units \ spoiled, wait[x].for = u, wait'[x].for # u
      PROVE  e.kind = "health" /\ e.by = u /\ op[u].doing \in After
  <2>1. e.kind = "health" /\ e.by = u
    BY <1>1, <1>5, <1>6
  <2> QED
    BY <1>3, <2>1 DEF Status
<1>7. Credit'
  <2>1. ASSUME NEW f \in Event, Filed(f)', f.kind = "health", f.by \in Units \ spoiled',
               wait[f.id].for = f.by
        PROVE  wait'[f.id].for = f.by
    BY <1>1, <1>4, <1>6, <2>1 DEF Event
  <2> QED
    BY <1>1, <1>2, <2>1, CreditSuffix DEF Health
<1>8. Waiting'
  <2>1. ASSUME NEW u \in Units \ spoiled', Awaits(u)'
        PROVE  Firm(u) /\ wait'[op[u].target].for = wait[op[u].target].for
    <3>1. Firm(u) /\ Awaits(u) /\ u \notin spoiled /\ op[u].doing \notin After
          /\ op[u].doing \notin {"none", "over"}
      BY <1>1, <2>1 DEF Firm, Awaits, After
    <3>2. op[u].target \in Ids /\ wait[op[u].target].for = u
      BY <3>1 DEF Health, Waiting, Stages, Stage
    <3> QED
      BY <1>6, <3>1, <3>2
  <2>2. ASSUME host.status = "starting", host.by \in Units \ spoiled', wait[host.id].for = host.by
        PROVE  wait'[host.id].for = host.by
    <3>1. host.id \in Ids
      BY <2>2, MadeFits DEF Made, Stages
    <3>2. CASE wait'[host.id].for # host.by
      <4>1. e.kind = "health" /\ e.by = host.by
        BY <1>1, <1>6, <2>2, <3>1, <3>2
      <4> QED
        BY <1>3, <2>2, <4>1 DEF Status
    <3> QED
      BY <3>2
  <2> QED
    BY <1>1, <2>1, <2>2, WaitingStays DEF Health
<1>9. ArmedSettled'
  <2>1. ASSUME NEW x \in Ids, wait'[x].armed PROVE wait[x].armed /\ wait'[x].for = wait[x].for
    <3>1. wait'[x] = wait[x] \/ wait'[x] = NoWait
      BY <1>1 DEF ScopesTyped
    <3>2. ~NoWait.armed
      BY DEF NoWait
    <3> QED
      BY <2>1, <3>1, <3>2
  <2> QED
    BY <1>1, <2>1, ArmedStays DEF Health
<1> QED
  BY <1>7, <1>8, <1>9 DEF Health

\* A wait that is displaced spoils what it was for.
LEMMA InspectHealth ==
  ASSUME Stages, TypeOK, Health, NEW u \in Units, Inspected(u)
  PROVE  Health'
<1>1. /\ ScopesTyped /\ Stages' /\ (\A v \in Units : Onward(v)) /\ (\A v \in Units : v # u => Firm(v))
      /\ InspectActs(u) /\ UNCHANGED <<host, stream, reading>> /\ Made
  BY InspectStage DEF Stages, InspectActs
<1>2. CASE UNCHANGED <<wait, spoiled>> /\ ~WaitsFor(u)
  <2>1. Firm(u)
    BY <1>1, <1>2 DEF InspectActs, Announces, Firm, Awaits
  <2> QED
    BY <1>1, <1>2, <2>1, HealthSame
<1>3. CASE WaitsFor(u)
  <2> DEFINE x == op[u].target
             new == [for |-> u, armed |-> FALSE]
  <2>1. /\ wait' = [wait EXCEPT ![x] = new] /\ spoiled' = spoiled \cup ({wait[x].for} \ {Nobody})
        /\ x \in Ids /\ op'[u].target = x /\ wait \in Waits
    BY <1>1, <1>3 DEF WaitsFor, ExpectHealth, InspectActs, ScopesTyped, Waits
  <2>2. ~new.armed /\ new.for = u
    OBVIOUS
  <2> HIDE DEF new, x
  <2>3. /\ spoiled \subseteq spoiled' /\ Nobody \notin Units
        /\ \A y \in Ids : wait'[y] = wait[y] \/ (y = x /\ wait'[y] = new)
        /\ wait'[x].for = u
    BY <2>1, <2>2, UnitsCounted DEF Waits
  <2>4. \A y \in Ids : \A v \in Units \ spoiled' : wait[y].for = v => wait'[y].for = v
    BY <2>1, <2>3
  <2>5. Credit'
    BY <1>1, <2>3, <2>4, CreditStays DEF Health, Event
  <2>6. Waiting'
    <3>1. ASSUME NEW v \in Units \ spoiled', Awaits(v)'
          PROVE  \/ Firm(v) /\ wait'[op[v].target].for = wait[op[v].target].for
                 \/ wait'[op'[v].target].for = v
      <4>1. CASE v = u
        BY <2>1, <2>3, <4>1
      <4>2. CASE v # u
        <5>1. Firm(v) /\ Awaits(v) /\ v \notin spoiled /\ op[v].doing \notin {"none", "over"}
          BY <1>1, <2>3, <3>1, <4>2 DEF Firm, Awaits
        <5>2. op[v].target \in Ids /\ wait[op[v].target].for = v
          BY <5>1 DEF Health, Waiting, Stages, Stage
        <5> QED
          BY <2>4, <5>1, <5>2
      <4> QED
        BY <4>1, <4>2
    <3>2. host.status = "starting" => host.id \in Ids
      BY MadeFits DEF Made, Stages
    <3> QED
      BY <1>1, <2>3, <2>4, <3>1, <3>2, WaitingStays DEF Health
  <2>7. ArmedSettled'
    BY <1>1, <2>2, <2>3, ArmedStays DEF Health
  <2> QED
    BY <2>5, <2>6, <2>7 DEF Health
<1> QED
  BY <1>1, <1>2, <1>3 DEF InspectActs, Announces

LEMMA SucceedHealth ==
  ASSUME Stages, TypeOK, Health, NEW u \in Units, Succeed(u)
  PROVE  Health'
<1>1. /\ ScopesTyped /\ (\A v \in Units : Onward(v) /\ Firm(v)) /\ SucceedActs(u) /\ Made
      /\ UNCHANGED <<host, stream, reading, spoiled>>
      /\ \A x \in Ids : wait'[x].for = wait[x].for
      /\ \A x \in Ids : wait'[x] = wait[x] \/ (wait'[x].for = u /\ op'[u].doing = "settles")
  BY SucceedStage DEF Stages, SucceedActs
<1>2. Credit'
  BY <1>1, CreditStays DEF Health, Event
<1>3. Waiting'
  <2>1. ASSUME NEW v \in Units \ spoiled', Awaits(v)'
        PROVE  Firm(v) /\ wait'[op[v].target].for = wait[op[v].target].for
    <3>1. Firm(v) /\ Awaits(v) /\ op[v].doing \notin {"none", "over"}
      BY <1>1, <2>1 DEF Firm, Awaits
    <3>2. op[v].target \in Ids
      BY <3>1 DEF Stages, Stage
    <3> QED
      BY <1>1, <3>1, <3>2
  <2>2. host.status = "starting" => host.id \in Ids
    BY MadeFits DEF Made, Stages
  <2> QED
    BY <1>1, <2>1, <2>2, WaitingStays DEF Health
<1>4. ArmedSettled'
  BY <1>1, ArmedStays DEF Health, Settled
<1> QED
  BY <1>2, <1>3, <1>4 DEF Health

LEMMA SettleHealth ==
  ASSUME Stages, TypeOK, Health, NEW u \in Units, Settle(u) \/ Fail(u)
  PROVE  Health'
<1>1. /\ ScopesTyped /\ (\A v \in Units : Onward(v) /\ Firm(v)) /\ Made
      /\ UNCHANGED <<host, stream, reading, spoiled>>
      /\ \A x \in Ids : \/ wait'[x] = wait[x]
                        \/ /\ op[u].doing = "turned down" /\ wait[x].for = u
                           /\ wait'[x] = NoWait
  BY SettleStage, FailStage DEF Stages, SettleActs
<1>2. ~NoWait.armed
  BY DEF NoWait
<1>3. \A x \in Ids : wait'[x] = wait[x] \/ (wait[x].for = u /\ op[u].doing \notin After /\ ~Awaits(u))
  BY <1>1 DEF After, Awaits
<1>4. Credit'
  <2>1. ASSUME NEW e \in Event, Filed(e), e.kind = "health", e.by \in Units \ spoiled',
               wait[e.id].for = e.by
        PROVE  wait'[e.id].for = e.by
    <3>1. Status(e)
      BY <2>1 DEF Health, Credit
    <3> QED
      BY <1>3, <2>1, <3>1 DEF Status, Event
  <2> QED
    BY <1>1, <2>1, CreditStays DEF Health
<1>5. Waiting'
  <2>1. ASSUME NEW v \in Units \ spoiled', Awaits(v)'
        PROVE  Firm(v) /\ wait'[op[v].target].for = wait[op[v].target].for
    <3>1. Firm(v) /\ Awaits(v) /\ op[v].doing \notin {"none", "over"} /\ v \notin spoiled
      BY <1>1, <2>1 DEF Firm, Awaits
    <3>2. op[v].target \in Ids /\ wait[op[v].target].for = v
      BY <3>1 DEF Stages, Stage, Health, Waiting
    <3> QED
      BY <1>3, <3>1, <3>2
  <2>2. ASSUME host.status = "starting", host.by \in Units \ spoiled', wait[host.id].for = host.by
        PROVE  wait'[host.id].for = host.by
    <3>1. host.id \in Ids
      BY <2>2, MadeFits DEF Made, Stages
    <3> QED
      BY <1>3, <2>2, <3>1 DEF Health, Waiting
  <2> QED
    BY <1>1, <2>1, <2>2, WaitingStays DEF Health
<1>6. ArmedSettled'
  BY <1>1, <1>2, ArmedStays DEF Health
<1> QED
  BY <1>4, <1>5, <1>6 DEF Health

\* The steps of the agent, Docker and everybody else.
LEMMA ScopesInitHolds ==
  ASSUME ScopesInit
  PROVE  Stages /\ Health
<1> PICK cast \in Casts :
       /\ op = [u \in Units |-> [kind |-> cast[u], doing |-> "none", target |-> 0, ran |-> FALSE]]
       /\ \E state \in {"gone", "off", "starting"} :
            host = [id |-> IF state = "gone" THEN 0 ELSE 1, running |-> state = "starting",
                    status |-> IF state = "starting" THEN state ELSE "off",
                    by |-> Nobody, made |-> 1]
  BY DEF ScopesInit
<1>0. /\ stream = <<>> /\ scope = [u \in Units |-> NoScope] /\ order = <<>>
      /\ wait = [x \in Ids |-> NoWait] /\ reading = NoRead
      /\ contested = {} /\ gaveUp = {} /\ spoiled = {}
      /\ unit = [u \in Units |-> "out"]
  BY DEF ScopesInit, Init
<1>1. \A u \in Units : cast[u] \in Kinds
  BY ScopesAssumption DEF ScopesAssumption, Kinds
<1>2. /\ op \in [Units -> [kind : Kinds, doing : Doings, target : Nat, ran : BOOLEAN]]
      /\ \A u \in Units : op[u].doing = "none" /\ ~op[u].ran
  BY <1>1 DEF Doings
<1>3. /\ host \in [id : Nat, running : BOOLEAN, status : {"off", "starting", "told"},
                   by : Parties, made : Nat]
      /\ host.by = Nobody /\ host.made = 1 /\ host.id \in {0, 1}
      /\ host.status = "starting" => host.id # 0
  BY UnitsCounted
<1>4. /\ scope \in Scopes
      /\ \A u \in Units : ~scope[u].open /\ ~scope[u].named /\ scope[u].ids = {}
  BY <1>0 DEF Scopes, NoScope
<1>5. wait \in Waits /\ \A x \in Ids : ~wait[x].armed
  BY <1>0, UnitsCounted DEF Waits, NoWait
<1>6. reading \in Reads /\ reading.mark = {}
  BY <1>0, UnitsCounted DEF Reads, NoRead
<1>7. stream \in Seq(Event) /\ order \in Seq(Units) /\ DOMAIN stream = {}
  BY <1>0
<1>8. ScopesTyped
  BY <1>0, <1>2, <1>3, <1>4, <1>5, <1>6, <1>7 DEF ScopesTyped, Scopes, Waits, Reads
<1>9. \A u \in Units : Stage(u)
  BY <1>0, <1>2, <1>4 DEF Stage, Open
<1>10. Made
  <2>1. Past = {}
    BY <1>2 DEF Past, Before
  <2> QED
    BY <1>3, <2>1, FS_EmptySet DEF Made
<1>11. Health
  BY <1>2, <1>3, <1>5, <1>6, <1>7, UnitsCounted
     DEF Health, Credit, Waiting, ArmedSettled, Filed, Awaits
<1> QED
  BY <1>8, <1>9, <1>10, <1>11 DEF Stages

LEMMA StepHealth ==
  ASSUME Stages, TypeOK, Health, [ScopesNext]_all
  PROVE  Stages' /\ Health'
<1>0. ScopesTyped /\ ArmedSettled
  BY DEF Stages, Health
<1>1. ASSUME NEW u \in Units, Docker(u) PROVE Stages' /\ Health'
  BY <1>1, DockerStage, DockerHealth
<1>2. ASSUME NEW u \in Units, DockerRefuses(u) PROVE Stages' /\ Health'
  <2>1. UNCHANGED <<host, stream, wait, reading, spoiled>>
    BY <1>2 DEF DockerRefuses, dockerVars, readVars, history
  <2> QED
    BY <1>0, <1>2, <2>1, RefusesStage, HealthSame
<1>3. ASSUME NEW u \in Units, Begin(u) PROVE Stages' /\ Health'
  BY <1>0, <1>3, BeginStage, HealthSame DEF BeginActs
<1>4. ASSUME NEW u \in Units, Refused(u) PROVE Stages' /\ Health'
  <2>1. UNCHANGED <<host, stream, wait, reading, spoiled>>
    BY <1>4, RequestTyped DEF Refused, dockerVars, history
  <2> QED
    BY <1>0, <1>4, <2>1, RefusedStage, HealthSame
<1>5. ASSUME NEW u \in Units, Inspected(u) PROVE Stages' /\ Health'
  BY <1>5, InspectStage, InspectHealth
<1>6. ASSUME NEW u \in Units, Succeed(u) PROVE Stages' /\ Health'
  BY <1>6, SucceedStage, SucceedHealth
<1>7. ASSUME NEW u \in Units, Settle(u) \/ Fail(u) PROVE Stages' /\ Health'
  BY <1>7, SettleStage, FailStage, SettleHealth
<1>8. ASSUME NEW u \in Units, AskForHelper(u) PROVE Stages' /\ Health'
  <2>1. UNCHANGED <<host, stream, wait, reading, spoiled>>
    BY <1>8 DEF AskForHelper, dockerVars, readVars, history
  <2> QED
    BY <1>0, <1>8, <2>1, AskStage, HealthSame
<1>9. ASSUME NEW u \in Units, GraceEnds(u) PROVE Stages' /\ Health'
  BY <1>0, <1>9, GraceStage, HealthSame DEF GraceActs
<1>10. CASE Hand
  BY <1>10, HandStage, HandHealth
<1>11. CASE HealthStatus
  BY <1>11, HealthStage, HealthHealth
<1>12. CASE BeginRead
  BY <1>0, <1>12, BeginReadStage, BeginReadHealth
<1>13. CASE ReadHost
  BY <1>13, ReadHostStage, ReadHostHealth
<1>14. CASE ReadDone
  BY <1>14, ReadDoneStage, ReadDoneHealth
<1>15. CASE Hear
  BY <1>15, HearStage, HearHealth
<1>16. ASSUME NEW n \in DOMAIN stream, Break(n) PROVE Stages' /\ Health'
  BY <1>16, BreakStage, BreakHealth
<1>17. CASE SelfUpdate
  <2>1. UNCHANGED <<host, stream, wait, reading, spoiled>>
    BY <1>17, SelfStage DEF SelfActs, ReplyActs
  <2> QED
    BY <1>0, <1>17, <2>1, SelfStage, HealthSame
<1>18. CASE UNCHANGED all
  <2>1. UNCHANGED <<unit, host, stream, op, scope, order, wait, reading, contested, gaveUp, spoiled>>
    BY <1>18 DEF all, rest, vars, dockerVars, scopeVars, readVars, history
  <2> QED
    BY <1>0, <2>1, SameStage, HealthSame
<1> QED
  BY <1>1, <1>2, <1>3, <1>4, <1>5, <1>6, <1>7, <1>8, <1>9, <1>10, <1>11, <1>12, <1>13, <1>14,
     <1>15, <1>16, <1>17, <1>18 DEF ScopesNext, Agent

-----------------------------------------------------------------------------
(* Whose events an operation's scope gathers.                              *)

\* The event an action waits for is the last it causes that it has to see.
Awaited(u) ==
  IF op[u].kind \in {"start", "restart"} \/ (op[u].kind = "recreate" /\ op[u].ran) THEN "started"
  ELSE IF op[u].kind = "stop" THEN "stopped" ELSE "removed"

Final(e)   == e.by \in Units /\ e.kind = Awaited(e.by)
Counts(e) == e.by \in Units /\ e.kind # "health" /\ ~(e.kind = "created" /\ ~op[e.by].ran)

\* Its scope is open, waits for that event and covers the event e.
Held(e) ==
  /\ Open(e.by) /\ \E p \in scope[e.by].pending : p.kind = Awaited(e.by)
  /\ scope[e.by].named \/ e.id \in scope[e.by].ids

\* An event that is under way, with the scopes there were when it was filed.
Cause(e) ==
  e.kind # "health" =>
    /\ \A u \in e.scopes : op[u].kind \in OfContainer => e.by = u \/ u \in contested
    /\ e.by \in Units =>
         /\ e.by \in e.scopes /\ op[e.by].kind \in OfContainer /\ op[e.by].doing \notin Fresh
         /\ Final(e) => ~Goes(e.by)
         /\ Counts(e) /\ e.by \notin contested \cup gaveUp => Held(e)

Causes ==
  /\ \A e \in Event : Filed(e) => Cause(e)
  /\ \A i, j \in DOMAIN stream :
       i < j /\ Final(stream[i]) /\ Counts(stream[j]) => stream[i].by # stream[j].by

\* Two operations on the container at a time share it.
Sole ==
  \A u, v \in Units :
    /\ u # v /\ Open(u) /\ Open(v)
    /\ op[u].kind \in OfContainer /\ op[v].kind \in OfContainer
    => u \in contested

\* The scope of an operation covers its container, and every name once a
\* recreate has begun to touch it.
Touches(u) ==
  op[u].doing \in {"stops", "kills", "removes", "creates", "looks", "starts"}

Covers(u) ==
  op[u].doing \notin {"none", "over"} /\ op[u].kind \in OfContainer =>
    /\ scope[u].named \/ op[u].target \in scope[u].ids
    /\ op[u].kind = "recreate" /\ Touches(u) => scope[u].named

\* As long as it has the container to itself and is not through, the event it
\* waits for is still awaited.
AtWork(u) == Goes(u) \/ (op[u].doing = "asks" /\ op[u].kind \in {"start", "restart"})

Expects(u) ==
  u \notin contested /\ AtWork(u) => \E p \in scope[u].pending : p.kind = Awaited(u)

Own == Causes /\ Sole /\ \A u \in Units : Covers(u) /\ Expects(u)

LEMMA KindKept ==
  ASSUME NEW e \in Event, Cause(e), \A v \in Units : Onward(v)
  PROVE  /\ Final(e)' => Final(e)
         /\ Counts(e)' => Counts(e)
         /\ e.by \in Units /\ e.kind # "health" => Awaited(e.by)' = Awaited(e.by)
<1>1. CASE e.by \notin Units
  BY <1>1 DEF Final, Counts
<1>2. CASE e.by \in Units /\ e.kind = "health"
  BY <1>2 DEF Final, Counts, Awaited
<1>3. CASE e.by \in Units /\ e.kind # "health"
  <2>1. op'[e.by].kind = op[e.by].kind /\ op'[e.by].ran = op[e.by].ran
    BY <1>3 DEF Cause, Onward
  <2>2. Awaited(e.by)' = Awaited(e.by)
    BY <2>1 DEF Awaited
  <2> QED
    BY <1>3, <2>1, <2>2 DEF Final, Counts
<1> QED
  BY <1>1, <1>2, <1>3

LEMMA CauseStays ==
  ASSUME NEW e \in Event, Cause(e), \A v \in Units : Onward(v),
         contested \subseteq contested', gaveUp \subseteq gaveUp',
         /\ Counts(e) /\ e.by \notin contested' \cup gaveUp' /\ Held(e)
         => Held(e)'
  PROVE  Cause(e)'
<1> SUFFICES ASSUME e.kind # "health" PROVE Cause(e)'
  BY DEF Cause
<1>0. e.scopes \subseteq Units
  BY DEF Event
<1>1. \A u \in e.scopes : op'[u].kind \in OfContainer => e.by = u \/ u \in contested'
  BY <1>0 DEF Cause, Onward
<1>2. ASSUME e.by \in Units
      PROVE  /\ e.by \in e.scopes /\ op'[e.by].kind \in OfContainer /\ op'[e.by].doing \notin Fresh
             /\ Final(e)' => ~Goes(e.by)'
             /\ Counts(e)' /\ e.by \notin contested' \cup gaveUp' => Held(e)'
  <2>1. /\ e.by \in e.scopes /\ op[e.by].kind \in OfContainer /\ op[e.by].doing \notin Fresh
        /\ Final(e) => ~Goes(e.by)
        /\ Counts(e) /\ e.by \notin contested \cup gaveUp => Held(e)
        /\ Onward(e.by)
    BY <1>2 DEF Cause
  <2>2. Final(e)' => ~Goes(e.by)'
    BY <2>1, KindKept DEF Onward
  <2>3. Counts(e)' /\ e.by \notin contested' \cup gaveUp' => Held(e)'
    BY <2>1, KindKept
  <2> QED
    BY <2>1, <2>2, <2>3 DEF Onward
<1> QED
  BY <1>1, <1>2 DEF Cause

\* A scope that does not change covers what it covered.
LEMMA HeldStays ==
  ASSUME NEW e \in Event, Cause(e), \A v \in Units : Onward(v),
         scope'[e.by] = scope[e.by], Counts(e), Held(e)
  PROVE  Held(e)'
<1>1. Awaited(e.by)' = Awaited(e.by)
  BY KindKept DEF Counts
<1> QED
  BY <1>1 DEF Held, Open

LEMMA CausesSuffix ==
  ASSUME ScopesTyped, Causes, \A v \in Units : Onward(v),
         contested \subseteq contested', gaveUp \subseteq gaveUp',
         NEW k \in Nat, stream' \in Seq(Event), Len(stream') = Len(stream) - k,
         \A i \in 1 .. Len(stream) - k : stream'[i] = stream[k + i],
         \A e \in Event :
           /\ Filed(e) /\ Filed(e)' /\ Cause(e)
           /\ Counts(e) /\ e.by \notin contested' \cup gaveUp' /\ Held(e)
           => Held(e)'
  PROVE  Causes'
<1>1. /\ stream \in Seq(Event) /\ Len(stream) \in Nat /\ DOMAIN stream = 1 .. Len(stream)
      /\ DOMAIN stream' = 1 .. Len(stream) - k
  BY DEF ScopesTyped
<1>2. ASSUME NEW i \in DOMAIN stream'
      PROVE  /\ k + i \in DOMAIN stream /\ stream'[i] = stream[k + i] /\ stream[k + i] \in Event
             /\ i \in Nat
  BY <1>1
<1>3. ASSUME NEW e \in Event, Filed(e)'
      PROVE  Filed(e) /\ Cause(e) /\ Cause(e)'
  <2>1. Filed(e)
    BY <1>2, <1>3 DEF Filed
  <2>2. Cause(e)
    BY <2>1 DEF Causes
  <2> QED
    BY <1>3, <2>1, <2>2, CauseStays
<1>4. ASSUME NEW i \in DOMAIN stream', NEW j \in DOMAIN stream', i < j,
             Final(stream[i])', Counts(stream[j])', stream'[i].by = stream'[j].by
      PROVE  FALSE
  <2>1. PICK e \in Event, f \in Event : e = stream'[i] /\ f = stream'[j]
    BY <1>2
  <2>2. Cause(e) /\ Cause(f) /\ Final(e)' /\ Counts(f)'
    BY <1>3, <1>4, <2>1 DEF Filed, Final, Counts, Awaited
  <2>3. Final(e) /\ Counts(f)
    BY <2>2, KindKept
  <2>4. Final(stream[k + i]) /\ Counts(stream[k + j]) /\ stream[k + i].by = stream[k + j].by
    BY <1>2, <1>4, <2>1, <2>3
  <2>5. k + i < k + j
    BY <1>2, <1>4
  <2> QED
    BY <1>2, <2>4, <2>5 DEF Causes
<1> QED
  BY <1>3, <1>4 DEF Causes

\* An event that joins the others while no scope changes.
LEMMA CausesAppend ==
  ASSUME ScopesTyped, Causes, \A v \in Units : Onward(v), scope' = scope,
         contested \subseteq contested', gaveUp \subseteq gaveUp',
         NEW e \in Event, stream' = Append(stream, e), Cause(e)',
         Counts(e)' => Goes(e.by)
  PROVE  Causes'
<1>1. /\ stream \in Seq(Event) /\ Len(stream) \in Nat /\ DOMAIN stream = 1 .. Len(stream)
      /\ Len(stream') = Len(stream) + 1 /\ DOMAIN stream' = 1 .. Len(stream) + 1
      /\ stream'[Len(stream) + 1] = e
      /\ \A i \in 1 .. Len(stream) : stream'[i] = stream[i]
  BY AppendProperties DEF ScopesTyped
<1>2. ASSUME NEW i \in DOMAIN stream'
      PROVE  \/ i \in DOMAIN stream /\ stream'[i] = stream[i] /\ stream[i] \in Event
             \/ i = Len(stream) + 1 /\ stream'[i] = e
  BY <1>1
<1>3. ASSUME NEW f \in Event, Filed(f) PROVE Cause(f) /\ Cause(f)'
  <2>1. Cause(f)
    BY <1>3 DEF Causes
  <2>2. Counts(f) /\ Held(f) => Held(f)'
    <3>1. Counts(f) => f.by \in Units
      BY DEF Counts
    <3> QED
      BY <2>1, <3>1, HeldStays
  <2> QED
    BY <2>1, <2>2, CauseStays
<1>4. \A f \in Event : Filed(f)' => Cause(f)'
  BY <1>2, <1>3 DEF Filed
<1>5. ASSUME NEW i \in DOMAIN stream', NEW j \in DOMAIN stream', i < j,
             Final(stream[i])', Counts(stream[j])', stream'[i].by = stream'[j].by
      PROVE  FALSE
  <2>1. i \in DOMAIN stream /\ stream'[i] = stream[i] /\ stream[i] \in Event
    BY <1>1, <1>2, <1>5
  <2>2. PICK f \in Event : f = stream[i]
    BY <2>1
  <2>3. Cause(f) /\ Final(f)' /\ f.by = stream'[j].by
    BY <1>3, <1>5, <2>1, <2>2 DEF Filed, Final, Awaited
  <2>4. Final(f)
    BY <2>3, KindKept
  <2>5. CASE j \in DOMAIN stream
    <3>1. PICK g \in Event : g = stream[j] /\ g = stream'[j]
      BY <1>1, <2>5
    <3>2. Cause(g) /\ Counts(g)'
      BY <1>3, <1>5, <2>5, <3>1 DEF Filed, Counts
    <3>3. Counts(g)
      BY <3>2, KindKept
    <3> QED
      BY <1>5, <2>1, <2>2, <2>3, <2>4, <2>5, <3>1, <3>3 DEF Causes
  <2>6. CASE j = Len(stream) + 1
    <3>1. Counts(e)' /\ f.by = e.by
      BY <1>1, <1>5, <2>3, <2>6 DEF Counts
    <3>2. Goes(e.by) /\ e.by \in Units /\ e.kind # "health"
      BY <3>1 DEF Counts
    <3>3. f.kind # "health"
      BY <2>4 DEF Final, Awaited
    <3> QED
      BY <2>3, <2>4, <3>1, <3>2, <3>3 DEF Cause
  <2> QED
    BY <1>2, <2>5, <2>6
<1> QED
  BY <1>4, <1>5 DEF Causes

LEMMA SoleStays ==
  ASSUME Sole, \A v \in Units : Onward(v), contested \subseteq contested',
         \A v \in Units : Open(v)' => Open(v)
  PROVE  Sole'
BY DEF Sole, Onward

\* An action that goes on under the scope it had.
Under(u) ==
  /\ scope'[u].named = scope[u].named /\ scope'[u].ids = scope[u].ids
  /\ op'[u].target = op[u].target
  /\ op'[u].doing \notin {"none", "over"} => op[u].doing \notin {"none", "over"}
  /\ op[u].kind = "recreate" /\ Touches(u)' => Touches(u)

LEMMA CoversStays ==
  ASSUME NEW u \in Units, Covers(u), Onward(u), Under(u)
  PROVE  Covers(u)'
BY DEF Covers, Onward, Under

LEMMA ExpectsStays ==
  ASSUME NEW u \in Units, Expects(u), Onward(u), contested \subseteq contested',
         AtWork(u)' => AtWork(u),
         \A p \in scope[u].pending : p.kind = Awaited(u) /\ u \notin contested' /\ AtWork(u)
                                       => p \in scope'[u].pending
  PROVE  Expects(u)'
<1> SUFFICES ASSUME u \notin contested', AtWork(u)'
             PROVE  \E p \in scope'[u].pending : p.kind = Awaited(u)'
  BY DEF Expects
<1>1. PICK p \in scope[u].pending : p.kind = Awaited(u)
  BY DEF Expects
<1>2. Awaited(u)' = Awaited(u)
  BY DEF Awaited, AtWork, Goes, Onward, Fresh
<1> QED
  BY <1>1, <1>2

\* What holds of the whole if it holds of each action, whatever became of the scopes.
LEMMA OwnStays ==
  ASSUME ScopesTyped, Own, \A v \in Units : Onward(v), stream' = stream,
         contested \subseteq contested', gaveUp \subseteq gaveUp',
         \A v \in Units : Open(v)' => Open(v),
         \A v \in Units : Covers(v)' /\ Expects(v)',
         \A e \in Event :
           /\ Cause(e) /\ Counts(e) /\ e.by \notin contested' \cup gaveUp' /\ Held(e)
           => Held(e)'
  PROVE  Own'
<1>1. /\ stream' \in Seq(Event) /\ Len(stream') = Len(stream) - 0
      /\ \A i \in 1 .. Len(stream) - 0 : stream'[i] = stream[0 + i]
  BY DEF ScopesTyped
<1>2. Causes'
  BY <1>1, CausesSuffix DEF Own
<1>3. Sole'
  BY SoleStays DEF Own
<1> QED
  BY <1>2, <1>3 DEF Own

\* No scope changes, and no action takes up anything new.
Keeps(v) ==
  \/ op'[v] = op[v]
  \/ /\ op'[v].target = op[v].target
     /\ op'[v].doing \notin {"none", "over"} => op[v].doing \notin {"none", "over"}
     /\ AtWork(v)' => AtWork(v)
     /\ op[v].kind = "recreate" /\ Touches(v)' => Touches(v)

LEMMA KeepsOwn ==
  ASSUME NEW v \in Units, Covers(v), Expects(v), Onward(v), Keeps(v), scope'[v] = scope[v],
         contested \subseteq contested'
  PROVE  Covers(v)' /\ Expects(v)'
<1>1. AtWork(v)' => AtWork(v)
  BY DEF Keeps, AtWork, Goes
<1>2. Under(v)
  BY DEF Keeps, Under, Touches
<1> QED
  BY <1>1, <1>2, CoversStays, ExpectsStays

LEMMA OwnSame ==
  ASSUME ScopesTyped, Own, \A v \in Units : Onward(v) /\ Keeps(v),
         stream' = stream, scope' = scope,
         contested \subseteq contested', gaveUp \subseteq gaveUp'
  PROVE  Own'
<1>1. \A v \in Units : Covers(v)' /\ Expects(v)'
  BY KeepsOwn DEF Own
<1>2. \A v \in Units : Open(v)' => Open(v)
  BY DEF Open
<1>3. \A e \in Event : Cause(e) /\ Counts(e) /\ Held(e) => Held(e)'
  BY HeldStays DEF Counts
<1> QED
  BY <1>1, <1>2, <1>3, OwnStays

-----------------------------------------------------------------------------
\* A call of Docker, and the event it files.
LEMMA FilingOwn ==
  ASSUME Stages, Own, NEW u \in Units, NEW e \in Event, Filing(u, e), scope' = scope,
         contested' = contested, gaveUp' = gaveUp, \A v \in Units : Onward(v),
         op'[u].kind = op[u].kind, op'[u].ran = op[u].ran,
         \A v \in Units : v # u => op'[v] = op[v]
  PROVE  Own'
<1>0. /\ ScopesTyped /\ Stage(u) /\ Covers(u) /\ Expects(u) /\ Sole /\ Causes
      /\ e.by = u /\ e.id = host'.made /\ e.scopes = {v \in Units : Open(v)}
      /\ stream' = Append(stream, e)
      /\ Kills(u) \/ Stops(u) \/ Removes(u) \/ Creates(u) \/ Starts(u)
      /\ e.kind # "health"
  BY DEF Stages, Own, Filing
<1>1. /\ op[u].doing \in {"stops", "kills", "removes", "creates", "starts"} /\ Touches(u)
      /\ op[u].doing \notin Fresh
      /\ Open(u) /\ op[u].kind \in OfContainer
      /\ Creates(u) => op[u].kind = "recreate"
      /\ ~Creates(u) => Goes(u)
      /\ Creates(u) /\ op[u].ran => Goes(u)
  BY <1>0 DEF Kills, Stops, Removes, Creates, Starts, Stage, OfContainer, Touches, Goes, Fresh
<1>2. Counts(e)' => Goes(u)
  <2>1. CASE Creates(u)
    <3>1. e.kind = "created"
      BY <2>1 DEF Filing, Creates, Kills, Stops, Removes, Starts
    <3> QED
      BY <1>0, <1>1, <2>1, <3>1 DEF Counts
  <2> QED
    BY <1>1, <2>1
<1>3. Awaited(u)' = Awaited(u)
  BY DEF Awaited
<1>4. Final(e)' => ~Goes(u)'
  <2>1. CASE Kills(u)
    <3>1. e.kind = "killed"
      BY <2>1 DEF Filing, Creates, Kills, Stops, Removes, Starts
    <3> QED
      BY <1>0, <3>1 DEF Final, Awaited
  <2>2. CASE Stops(u)
    <3>1. e.kind = "stopped"
      BY <2>2 DEF Filing, Creates, Kills, Stops, Removes, Starts
    <3> QED
      BY <1>0, <2>2, <3>1 DEF Final, Awaited, Stops, Goes
  <2>3. CASE Removes(u)
    <3>1. e.kind = "removed"
      BY <2>3 DEF Filing, Creates, Kills, Stops, Removes, Starts
    <3> QED
      BY <1>0, <2>3, <3>1 DEF Final, Awaited, Removes, Goes, Stage
  <2>4. CASE Creates(u)
    <3>1. e.kind = "created"
      BY <2>4 DEF Filing, Creates, Kills, Stops, Removes, Starts
    <3> QED
      BY <1>0, <3>1 DEF Final, Awaited
  <2>5. CASE Starts(u)
    BY <2>5 DEF Starts, Goes
  <2> QED
    BY <1>0, <2>1, <2>2, <2>3, <2>4, <2>5
<1>5. scope[u].named \/ e.id \in scope[u].ids
  <2>1. CASE Creates(u)
    BY <1>0, <1>1, <2>1 DEF Covers, Fresh
  <2>2. CASE ~Creates(u)
    <3>1. e.id = op[u].target
      BY <1>0, <2>2, HostTyped
    <3> QED
      BY <1>0, <1>1, <3>1 DEF Covers
  <2> QED
    BY <2>1, <2>2
<1>6. Counts(e)' /\ u \notin contested => Held(e)'
  <2> SUFFICES ASSUME Counts(e)', u \notin contested PROVE Held(e)'
    OBVIOUS
  <2>1. \E p \in scope[u].pending : p.kind = Awaited(u)
    BY <1>0, <1>2 DEF Expects, AtWork
  <2> QED
    BY <1>0, <1>1, <1>3, <1>5, <2>1 DEF Held, Open
<1>7. Cause(e)'
  <2>1. \A v \in e.scopes : op'[v].kind \in OfContainer => v = u \/ v \in contested
    <3> SUFFICES ASSUME NEW v \in e.scopes, op'[v].kind \in OfContainer, v # u
                 PROVE  v \in contested
      OBVIOUS
    <3>1. v \in Units /\ Open(v) /\ op[v].kind \in OfContainer
      BY <1>0
    <3> QED
      BY <1>0, <1>1, <3>1 DEF Sole
  <2>2. u \in e.scopes /\ op'[u].kind \in OfContainer
    BY <1>0, <1>1
  <2>3. op'[u].doing \notin Fresh
    BY <1>1 DEF Onward
  <2> QED
    BY <1>0, <1>4, <1>6, <2>1, <2>2, <2>3 DEF Cause
<1>8. Causes'
  BY <1>0, <1>2, <1>7, CausesAppend
<1>9. Sole'
  BY <1>0, SoleStays DEF Open
<1>10. ASSUME NEW v \in Units PROVE Covers(v)' /\ Expects(v)'
  <2>0. Covers(v) /\ Expects(v)
    BY DEF Own
  <2>1. CASE v # u
    BY <2>0, <2>1, KeepsOwn DEF Keeps
  <2>2. CASE v = u
    <3>1. AtWork(u)' => AtWork(u)
      BY <1>1 DEF AtWork, Onward, Fresh
    <3>2. Expects(u)'
      BY <1>0, <3>1, ExpectsStays
    <3>3. CASE Creates(u)
      <4>1. scope[u].named
        BY <1>0, <1>1, <3>3 DEF Covers, Fresh
      <4> QED
        BY <2>2, <3>2, <4>1 DEF Covers
    <3>4. CASE ~Creates(u)
      <4>1. Under(u)
        BY <1>0, <1>1, <3>4 DEF Under, Kills, Stops, Removes, Starts
      <4> QED
        BY <1>0, <2>2, <3>2, <4>1, CoversStays
    <3> QED
      BY <3>3, <3>4
  <2> QED
    BY <2>1, <2>2
<1> QED
  BY <1>8, <1>9, <1>10 DEF Own

LEMMA DockerOwn ==
  ASSUME Stages, Own, NEW u \in Units, Docker(u)
  PROVE  Own'
<1>1. /\ ScopesTyped /\ (\A v \in Units : Onward(v)) /\ UNCHANGED <<scope, contested, gaveUp>>
      /\ op'[u].kind = op[u].kind /\ op'[u].ran = op[u].ran
      /\ \A v \in Units : v # u => op'[v] = op[v]
      /\ Calls(u) \/ \E e \in Event : Filing(u, e)
  BY DockerStage, DockerActs DEF Stages
<1>2. CASE Calls(u)
  <2>1. Keeps(u)
    BY <1>2 DEF Calls, Keeps, AtWork, Goes, Touches
  <2>2. \A v \in Units : Keeps(v)
    BY <1>1, <2>1 DEF Keeps
  <2> QED
    BY <1>1, <1>2, <2>2, OwnSame DEF Calls
<1>3. CASE \E e \in Event : Filing(u, e)
  BY <1>1, <1>3, FilingOwn
<1> QED
  BY <1>1, <1>2, <1>3

LEMMA RefusesOwn ==
  ASSUME Stages, Own, NEW u \in Units, DockerRefuses(u)
  PROVE  Own'
<1> DEFINE d == IF op[u].doing = "stops" /\ op[u].kind = "recreate" THEN "removes"
                ELSE "turned down"
<1>1. /\ ScopesTyped /\ Doing(u, d) /\ d \in Doings /\ (\A v \in Units : Onward(v))
      /\ op[u].doing \in {"stops", "removes", "creates", "starts", "calls"}
      /\ UNCHANGED <<stream, scope, contested, gaveUp>>
  BY RefusesStage DEF DockerRefuses, Stages, Doings, dockerVars, scopeVars, history
<1>2. /\ op'[u].target = op[u].target /\ op'[u].doing = d
      /\ \A v \in Units : v # u => op'[v] = op[v]
  BY <1>1, OneActs
<1>3. Keeps(u)
  BY <1>1, <1>2 DEF Keeps, AtWork, Goes, Touches
<1>4. \A v \in Units : Keeps(v)
  BY <1>2, <1>3 DEF Keeps
<1> QED
  BY <1>1, <1>4, OwnSame

\* An event that nobody's operation caused.
LEMMA OthersOwn ==
  ASSUME ScopesTyped, Own, NEW e \in Event, stream' = Append(stream, e),
         UNCHANGED <<op, scope>>, contested \subseteq contested', gaveUp' = gaveUp,
         \A v \in Units : Onward(v),
         e.kind = "health" \/ (e.by = Nobody /\ e.scopes \subseteq contested')
  PROVE  Own'
<1>1. Cause(e)' /\ ~Counts(e)'
  BY UnitsCounted DEF Cause, Counts
<1>2. Causes'
  BY <1>1, CausesAppend DEF Own
<1>3. Sole'
  BY SoleStays DEF Own, Open
<1>4. \A v \in Units : Covers(v)' /\ Expects(v)'
  BY KeepsOwn DEF Own, Keeps
<1> QED
  BY <1>2, <1>3, <1>4 DEF Own

LEMMA HandOwn ==
  ASSUME Stages, Own, Hand
  PROVE  Own'
<1>1. /\ ScopesTyped /\ (\A v \in Units : Onward(v)) /\ HandActs
      /\ UNCHANGED <<op, scope, gaveUp>>
      /\ contested' = contested \cup {u \in Units : Open(u)}
  BY HandStage DEF HandActs, Stages
<1>2. PICK e \in Event : /\ stream' = Append(stream, e) /\ e.by = Nobody
                         /\ e.scopes = {v \in Units : Open(v)}
  BY <1>1 DEF HandActs, Files
<1> QED
  BY <1>1, <1>2, OthersOwn

LEMMA HealthOwn ==
  ASSUME Stages, Own, HealthStatus
  PROVE  Own'
<1>1. /\ ScopesTyped /\ (\A v \in Units : Onward(v)) /\ HealthActs
      /\ UNCHANGED <<op, scope, contested, gaveUp>>
  BY HealthStage DEF HealthActs, Stages
<1>2. PICK e \in Event : stream' = Append(stream, e) /\ e.kind = "health"
  BY <1>1 DEF HealthActs, Files
<1> QED
  BY <1>1, <1>2, OthersOwn

LEMMA BreakOwn ==
  ASSUME Stages, Own, NEW n \in DOMAIN stream, Break(n)
  PROVE  Own'
<1>1. /\ ScopesTyped /\ ScopesTyped' /\ (\A v \in Units : Onward(v))
      /\ UNCHANGED <<op, scope, contested, gaveUp>>
      /\ Len(stream') = Len(stream) - n
      /\ \A i \in 1 .. Len(stream) - n : stream'[i] = stream[n + i]
  BY BreakStage DEF Break, history, scopeVars, Stages
<1>2. n \in Nat /\ stream' \in Seq(Event)
  BY <1>1 DEF ScopesTyped
<1>3. \A e \in Event : Cause(e) /\ Counts(e) /\ Held(e) => Held(e)'
  BY <1>1, HeldStays DEF Counts
<1>4. Causes'
  BY <1>1, <1>2, <1>3, CausesSuffix DEF Own
<1>5. Sole'
  BY <1>1, SoleStays DEF Own, Open
<1>6. \A v \in Units : Covers(v)' /\ Expects(v)'
  BY <1>1, KeepsOwn DEF Own, Keeps
<1> QED
  BY <1>4, <1>5, <1>6 DEF Own

\* An operation that has the container to itself loses what it awaits only to its own last event.
LEMMA GathersOwn ==
  ASSUME Stages, Own, NEW u \in Units, NEW e \in Event, Filed(e), Gathers(u, e), u \notin contested,
         NEW p \in scope[u].pending, p.kind = Awaited(u), ~(Final(e) /\ e.by = u)
  PROVE  /\ scope'[u].pending = scope[u].pending
              \ {[kind |-> e.kind, id |-> e.id], [kind |-> e.kind, id |-> AnyId]}
         /\ p \in scope'[u].pending
         /\ scope'[u].open = scope[u].open
         /\ scope'[u].named = scope[u].named /\ scope'[u].ids = scope[u].ids
<1>1. /\ Claims(u, e) /\ ScopesTyped /\ Stage(u) /\ Cause(e)
  BY DEF Gathers, Stages, Own, Causes
<1>2. p.kind # e.kind
  <2>1. CASE e.kind = "health"
    BY <2>1 DEF Awaited
  <2>2. CASE e.kind # "health"
    <3>1. e.by = u
      BY <1>1, <2>2 DEF Claims, Stage, Cause
    <3> QED
      BY <3>1 DEF Final
  <2> QED
    BY <2>1, <2>2
<1> DEFINE a == [kind |-> e.kind, id |-> e.id]
           b == [kind |-> e.kind, id |-> AnyId]
           left == scope[u].pending \ {a, b}
<1>3. a.kind = e.kind /\ b.kind = e.kind
  OBVIOUS
<1>4. /\ \/ left = {} /\ scope[u].finished /\ op[u].doing \in {"none", "over"} /\ Closed(u)
         \/ /\ scope' = [scope EXCEPT ![u].pending = left] /\ scope' \in Scopes
            /\ order' = order
  BY DEF Gathers
<1> HIDE DEF a, b
<1>5. p \in left
  BY <1>2, <1>3
<1> HIDE DEF left
<1>6. scope' = [scope EXCEPT ![u].pending = left] /\ scope \in Scopes
  BY <1>1, <1>4, <1>5 DEF ScopesTyped, Scopes
<1>7. /\ scope'[u].pending = left /\ scope'[u].open = scope[u].open
      /\ scope'[u].named = scope[u].named /\ scope'[u].ids = scope[u].ids
  BY <1>6 DEF Scopes
<1> QED
  BY <1>5, <1>7 DEF left, a, b

\* What hearing an event leaves as it was.
LEMMA HearFrame ==
  ASSUME Stages, NEW u \in Units, NEW e \in Event, Gathers(u, e)
  PROVE  /\ \A v \in Units : v # u => scope'[v] = scope[v]
         /\ \A v \in Units : Open(v)' => Open(v)
         /\ \/ op[u].doing \in {"none", "over"}
            \/ scope'[u].named = scope[u].named /\ scope'[u].ids = scope[u].ids
<1> DEFINE left == scope[u].pending \ {[kind |-> e.kind, id |-> e.id], [kind |-> e.kind, id |-> AnyId]}
<1>1. /\ \/ left = {} /\ scope[u].finished /\ op[u].doing \in {"none", "over"} /\ Closed(u)
         \/ /\ scope' = [scope EXCEPT ![u].pending = left] /\ scope' \in Scopes
            /\ order' = order
      /\ scope \in Scopes
  BY DEF Gathers, Stages, ScopesTyped, Scopes
<1> HIDE DEF left
<1>2. CASE op[u].doing \in {"none", "over"} /\ Closed(u)
  <2>1. ~NoScope.open
    BY DEF NoScope
  <2> QED
    BY <1>2, <2>1 DEF Closed, Open
<1>3. CASE scope' = [scope EXCEPT ![u].pending = left]
  BY <1>1, <1>3 DEF Scopes, Open
<1> QED
  BY <1>1, <1>2, <1>3

LEMMA HearOwn ==
  ASSUME Stages, Own, Hear
  PROVE  Own'
<1> DEFINE e == Head(stream)
<1>1. /\ ScopesTyped /\ ScopesTyped' /\ (\A v \in Units : Onward(v))
      /\ UNCHANGED <<op, contested, gaveUp>>
      /\ stream # <<>> /\ stream' = Tail(stream) /\ e \in Event
      /\ \/ scope' = scope
         \/ \E u \in Units : Gathers(u, e)
  BY HearStage DEF HearActs, Ends, Passes, Stages
<1>2. /\ Len(stream') = Len(stream) - 1 /\ stream' \in Seq(Event) /\ stream \in Seq(Event)
      /\ \A i \in 1 .. Len(stream) - 1 : stream'[i] = stream[1 + i]
      /\ e = stream[1] /\ 1 \in DOMAIN stream /\ Len(stream) \in Nat
  BY <1>1, HeadTailProperties DEF ScopesTyped
<1>3. Filed(e) /\ Cause(e)
  BY <1>1, <1>2 DEF Filed, Own, Causes
<1>4. \A f \in Event : Filed(f)' /\ Final(e) /\ Counts(f) => f.by # e.by
  <2> SUFFICES ASSUME NEW f \in Event, Filed(f)', Final(e), Counts(f)
               PROVE  f.by # e.by
    OBVIOUS
  <2>1. PICK i \in DOMAIN stream' : stream'[i] = f
    BY DEF Filed
  <2>2. 1 + i \in DOMAIN stream /\ stream[1 + i] = f /\ 1 < 1 + i
    BY <1>2, <2>1
  <2>3. Final(stream[1]) /\ Counts(stream[1 + i])
    BY <1>2, <2>2
  <2> QED
    BY <1>2, <2>2, <2>3 DEF Own, Causes
<1> HIDE DEF e
<1>5. CASE scope' = scope
  <2>1. \A f \in Event : Cause(f) /\ Counts(f) /\ Held(f) => Held(f)'
    BY <1>1, <1>5, HeldStays DEF Counts
  <2>2. Causes'
    BY <1>1, <1>2, <2>1, CausesSuffix DEF Own
  <2>3. Sole'
    BY <1>1, <1>5, SoleStays DEF Own, Open
  <2>4. \A v \in Units : Covers(v)' /\ Expects(v)'
    BY <1>1, <1>5, KeepsOwn DEF Own, Keeps
  <2> QED
    BY <2>2, <2>3, <2>4 DEF Own
<1>6. ASSUME NEW u \in Units, Gathers(u, e) PROVE Own'
  <2>0. /\ \A v \in Units : v # u => scope'[v] = scope[v]
        /\ \A v \in Units : Open(v)' => Open(v)
        /\ \/ op[u].doing \in {"none", "over"}
           \/ scope'[u].named = scope[u].named /\ scope'[u].ids = scope[u].ids
    BY <1>1, <1>6, HearFrame
  <2>1. ASSUME NEW f \in Event, Filed(f)', Cause(f), Counts(f), Held(f), f.by \notin contested
        PROVE  Held(f)'
    <3>1. CASE f.by # u
      BY <1>1, <2>0, <2>1, <3>1, HeldStays DEF Counts
    <3>2. CASE f.by = u
      <4>1. PICK p \in scope[u].pending : p.kind = Awaited(u)
        BY <2>1, <3>2 DEF Held
      <4>2. ~(Final(e) /\ e.by = u)
        BY <1>4, <2>1, <3>2
      <4>3. /\ p \in scope'[u].pending /\ scope'[u].open = scope[u].open
            /\ scope'[u].named = scope[u].named /\ scope'[u].ids = scope[u].ids
        BY <1>1, <1>3, <1>6, <2>1, <3>2, <4>1, <4>2, GathersOwn
      <4>4. Awaited(u)' = Awaited(u)
        BY <1>1 DEF Awaited
      <4> QED
        BY <2>1, <3>2, <4>1, <4>3, <4>4 DEF Held, Open
    <3> QED
      BY <3>1, <3>2
  <2>2. Causes'
    BY <1>1, <1>2, <2>1, CausesSuffix DEF Own
  <2>3. Sole'
    BY <1>1, <2>0, SoleStays DEF Own
  <2>4. ASSUME NEW v \in Units PROVE Covers(v)' /\ Expects(v)'
    <3>0. Covers(v) /\ Expects(v) /\ Onward(v)
      BY <1>1 DEF Own
    <3>1. CASE v # u
      BY <1>1, <2>0, <3>0, <3>1, KeepsOwn DEF Keeps
    <3>2. CASE v = u
      <4>1. Covers(u)'
        <5>1. CASE op[u].doing \in {"none", "over"}
          BY <1>1, <5>1 DEF Covers
        <5>2. CASE op[u].doing \notin {"none", "over"}
          <6>1. Under(u)
            BY <1>1, <2>0, <5>2 DEF Under, Touches
          <6> QED
            BY <3>0, <3>2, <6>1, CoversStays
        <5> QED
          BY <5>1, <5>2
      <4>2. AtWork(u)' => AtWork(u)
        BY <1>1 DEF AtWork, Goes
      <4>3. ASSUME NEW p \in scope[u].pending, p.kind = Awaited(u), u \notin contested', AtWork(u)
            PROVE  p \in scope'[u].pending
        <5>1. ~(Final(e) /\ e.by = u)
          <6> SUFFICES ASSUME Final(e), e.by = u PROVE FALSE
            OBVIOUS
          <6>1. e.kind # "health"
            BY DEF Final, Awaited
          <6>2. op[u].doing \notin Fresh /\ ~Goes(u)
            BY <1>3, <6>1 DEF Cause
          <6> QED
            BY <4>3, <6>2 DEF AtWork, Fresh
        <5> QED
          BY <1>1, <1>3, <1>6, <4>3, <5>1, GathersOwn
      <4>4. Expects(u)'
        BY <1>1, <3>0, <3>2, <4>2, <4>3, ExpectsStays
      <4> QED
        BY <3>2, <4>1, <4>4
    <3> QED
      BY <3>1, <3>2
  <2> QED
    BY <2>2, <2>3, <2>4 DEF Own
<1> QED
  BY <1>1, <1>5, <1>6

LEMMA BeginOwn ==
  ASSUME Stages, TypeOK, Own, NEW u \in Units, Begin(u)
  PROVE  Own'
<1>1. /\ ScopesTyped /\ (\A v \in Units : Onward(v)) /\ BeginActs(u)
      /\ UNCHANGED <<stream, gaveUp>> /\ contested \subseteq contested'
      /\ op[u].doing = "none" /\ op[u].kind \in Kinds
      /\ \A v \in Units : v # u => op'[v] = op[v] /\ scope'[v] = scope[v]
  BY BeginStage DEF BeginActs, Stages, ScopesTyped
<1>2. /\ stream' \in Seq(Event) /\ Len(stream') = Len(stream) - 0
      /\ \A i \in 1 .. Len(stream) - 0 : stream'[i] = stream[0 + i]
  BY <1>1 DEF ScopesTyped
<1>3. ASSUME NEW f \in Event, Cause(f), Counts(f), Held(f) PROVE Held(f)'
  <2>1. f.by \in Units /\ f.by # u
    BY <1>1, <1>3 DEF Counts, Cause, Fresh
  <2> QED
    BY <1>1, <1>3, <2>1, HeldStays
<1>4. Causes'
  BY <1>1, <1>2, <1>3, CausesSuffix DEF Own
<1>5. Sole'
  <2> SUFFICES ASSUME NEW v \in Units, NEW w \in Units, v # w, Open(v)', Open(w)',
                      op'[v].kind \in OfContainer, op'[w].kind \in OfContainer
               PROVE  v \in contested'
    BY DEF Sole
  <2>1. op[v].kind \in OfContainer /\ op[w].kind \in OfContainer
    BY <1>1 DEF Onward
  <2>2. CASE v # u /\ w # u
    BY <1>1, <2>1, <2>2 DEF Own, Sole, Open
  <2>3. CASE v = u
    BY <1>1, <2>1, <2>3 DEF BeginActs, Open
  <2>4. CASE w = u
    BY <1>1, <2>1, <2>4 DEF BeginActs, Open
  <2> QED
    BY <2>2, <2>3, <2>4
<1>6. ASSUME NEW v \in Units PROVE Covers(v)' /\ Expects(v)'
  <2>1. CASE v # u
    BY <1>1, <2>1, KeepsOwn DEF Own, Keeps
  <2>2. Covers(u)'
    <3>1. op[u].kind = "recreate" => op'[u].doing = "asks"
      BY <1>1 DEF BeginActs, First
    <3> QED
      BY <1>1, <3>1 DEF BeginActs, Covers, Touches
  <2>3. Expects(u)'
    <3>1. op'[u].kind = op[u].kind /\ op'[u].doing = First(op[u].kind)
          /\ scope'[u].pending = Expected(op[u].kind, host.made)
      BY <1>1 DEF BeginActs
    <3>2. CASE op[u].kind \in {"start", "restart"}
      <4>1. scope'[u].pending = {[kind |-> "started", id |-> host.made]}
        BY <3>1, <3>2 DEF Expected
      <4>2. Awaited(u)' = "started"
        BY <3>1, <3>2 DEF Awaited
      <4>3. \E p \in scope'[u].pending : p.kind = "started"
        BY <4>1
      <4> QED
        BY <4>2, <4>3 DEF Expects
    <3>3. CASE op[u].kind = "stop"
      <4>1. scope'[u].pending = {[kind |-> "stopped", id |-> host.made]}
        BY <3>1, <3>3 DEF Expected
      <4>2. Awaited(u)' = "stopped"
        BY <3>1, <3>3 DEF Awaited
      <4>3. \E p \in scope'[u].pending : p.kind = "stopped"
        BY <4>1
      <4> QED
        BY <4>2, <4>3 DEF Expects
    <3>4. CASE op[u].kind = "remove"
      <4>1. scope'[u].pending = {[kind |-> "removed", id |-> host.made]}
        BY <3>1, <3>4 DEF Expected
      <4>2. Awaited(u)' = "removed"
        BY <3>1, <3>4 DEF Awaited
      <4>3. \E p \in scope'[u].pending : p.kind = "removed"
        BY <4>1
      <4> QED
        BY <4>2, <4>3 DEF Expects
    <3>5. CASE op[u].kind \in {"recreate", "self", "other", "none"}
      BY <3>1, <3>5 DEF Expects, AtWork, Goes, First
    <3> QED
      BY <1>1, <3>2, <3>3, <3>4, <3>5 DEF Kinds
  <2> QED
    BY <2>1, <2>2, <2>3
<1> QED
  BY <1>4, <1>5, <1>6 DEF Own

LEMMA InspectOwn ==
  ASSUME Stages, TypeOK, Own, NEW u \in Units, Inspected(u)
  PROVE  Own'
<1>1. /\ ScopesTyped /\ Stage(u) /\ (\A v \in Units : Onward(v)) /\ InspectActs(u)
      /\ UNCHANGED <<stream, contested, gaveUp>>
      /\ op[u].doing \in {"asks", "looks"}
      /\ op'[u].kind = op[u].kind /\ op'[u].target = op[u].target
      /\ \A v \in Units : v # u => op'[v] = op[v] /\ scope'[v] = scope[v]
      /\ Covers(u) /\ Expects(u)
  BY InspectStage DEF InspectActs, Stages, Own
<1>2. ASSUME NEW f \in Event, Cause(f), Counts(f), Held(f) PROVE Held(f)'
  <2>1. f.by \in Units
    BY <1>2 DEF Counts
  <2>2. CASE scope' = scope
    BY <1>1, <1>2, <2>1, <2>2, HeldStays
  <2>3. CASE Announces(u)
    <3>1. f.by # u
      BY <1>2, <2>3 DEF Counts, Cause, Fresh, Announces
    <3> QED
      BY <1>1, <1>2, <2>1, <3>1, HeldStays
  <2>4. CASE WaitsFor(u)
    BY <1>1, <1>2, <2>1, <2>4, HeldStays DEF WaitsFor
  <2> QED
    BY <1>1, <2>2, <2>3, <2>4 DEF InspectActs
<1>3. ASSUME NEW v \in Units PROVE Open(v)' => Open(v)
  BY <1>1, <1>3 DEF InspectActs, Announces, WaitsFor, Open
<1>4. Covers(u)' /\ Expects(u)'
  <2>1. CASE op'[u].doing = "turned down" /\ scope' = scope
    <3>1. Keeps(u)
      BY <1>1, <2>1 DEF Keeps, AtWork, Goes, Touches
    <3> QED
      BY <1>1, <2>1, <3>1, KeepsOwn
  <2>2. CASE Announces(u)
    <3>1. Covers(u)'
      BY <1>1, <2>2 DEF Announces, Covers
    <3>2. \E p \in scope'[u].pending : p.kind = Awaited(u)'
      BY <1>1, <2>2 DEF Announces, Awaited
    <3> QED
      BY <3>1, <3>2 DEF Expects
  <2>3. CASE WaitsFor(u)
    <3>1. Keeps(u) /\ scope'[u] = scope[u]
      BY <1>1, <2>3 DEF Keeps, WaitsFor, AtWork, Goes, Touches
    <3> QED
      BY <1>1, <3>1, KeepsOwn
  <2> QED
    BY <1>1, <2>1, <2>2, <2>3 DEF InspectActs
<1>5. ASSUME NEW v \in Units PROVE Covers(v)' /\ Expects(v)'
  <2>1. CASE v # u
    BY <1>1, <2>1, KeepsOwn DEF Own, Keeps
  <2> QED
    BY <1>4, <2>1
<1> QED
  BY <1>1, <1>2, <1>3, <1>5, OwnStays

\* A scope that ends goes, or stays for what it still awaits.
LEMMA SettleOwn ==
  ASSUME Stages, TypeOK, Own, NEW u \in Units, Settle(u) \/ Fail(u)
  PROVE  Own'
<1>1. /\ ScopesTyped /\ (\A v \in Units : Onward(v)) /\ SettleActs(u)
      /\ UNCHANGED <<stream, contested, gaveUp>>
      /\ op'[u].doing = "over" /\ \A v \in Units : v # u => op'[v] = op[v]
  BY SettleStage, FailStage DEF SettleActs, Stages
<1>2. /\ \A v \in Units : v # u => scope'[v] = scope[v]
      /\ \/ scope[u].pending = {} /\ ~Open(u)'
         \/ /\ scope'[u].pending = scope[u].pending /\ scope'[u].open = scope[u].open
            /\ scope'[u].named = scope[u].named /\ scope'[u].ids = scope[u].ids
  <2>1. CASE scope[u].pending = {} /\ Closed(u)
    <3>1. ~NoScope.open
      BY DEF NoScope
    <3> QED
      BY <2>1, <3>1 DEF Closed, Open
  <2>2. CASE scope' = [scope EXCEPT ![u].finished = TRUE]
    <3>1. scope \in Scopes
      BY <1>1 DEF ScopesTyped, Scopes
    <3> QED
      BY <2>2, <3>1 DEF Scopes
  <2> QED
    BY <1>1, <2>1, <2>2 DEF SettleActs, Finishes
<1>3. ASSUME NEW f \in Event, Cause(f), Counts(f), Held(f) PROVE Held(f)'
  <2>1. f.by \in Units /\ Awaited(f.by)' = Awaited(f.by)
    BY <1>1, <1>3, KindKept DEF Counts
  <2>2. CASE f.by = u
    BY <1>2, <1>3, <2>1, <2>2 DEF Held, Open
  <2>3. CASE f.by # u
    BY <1>1, <1>2, <1>3, <2>1, <2>3, HeldStays
  <2> QED
    BY <2>2, <2>3
<1>4. \A v \in Units : Open(v)' => Open(v)
  BY <1>2 DEF Open
<1>5. ASSUME NEW v \in Units PROVE Covers(v)' /\ Expects(v)'
  <2>1. CASE v # u
    BY <1>1, <1>2, <2>1, KeepsOwn DEF Own, Keeps
  <2>2. CASE v = u
    BY <1>1, <2>2 DEF Covers, Expects, AtWork, Goes
  <2> QED
    BY <2>1, <2>2
<1> QED
  BY <1>1, <1>3, <1>4, <1>5, OwnStays

LEMMA GraceOwn ==
  ASSUME Stages, TypeOK, Own, NEW u \in Units, GraceEnds(u)
  PROVE  Own'
<1>1. /\ ScopesTyped /\ (\A v \in Units : Onward(v))
      /\ UNCHANGED <<stream, op, contested>> /\ gaveUp' = gaveUp \cup {u}
      /\ op[u].doing \in {"none", "over"}
      /\ scope'[u] = NoScope /\ \A v \in Units : v # u => scope'[v] = scope[v]
  BY GraceStage DEF GraceActs, Stages, Closed
<1>2. ASSUME NEW f \in Event, Cause(f), Counts(f), Held(f), f.by \notin contested' \cup gaveUp'
      PROVE  Held(f)'
  <2>1. f.by \in Units /\ f.by # u
    BY <1>1, <1>2 DEF Counts
  <2> QED
    BY <1>1, <1>2, <2>1, HeldStays
<1>3. \A v \in Units : Open(v)' => Open(v)
  <2>1. ~NoScope.open
    BY DEF NoScope
  <2> QED
    BY <1>1, <2>1 DEF Open
<1>4. ASSUME NEW v \in Units PROVE Covers(v)' /\ Expects(v)'
  <2>1. CASE v # u
    BY <1>1, <2>1, KeepsOwn DEF Own, Keeps
  <2>2. CASE v = u
    BY <1>1, <2>2 DEF Covers, Expects, AtWork, Goes
  <2> QED
    BY <2>1, <2>2
<1> QED
  BY <1>1, <1>2, <1>3, <1>4, OwnStays

\* The steps that change no scope and begin nothing.
LEMMA SelfOwn ==
  ASSUME Stages, TypeOK, Own, SelfUpdate
  PROVE  Own'
<1>1. /\ ScopesTyped /\ (\A v \in Units : Onward(v)) /\ SelfActs
      /\ UNCHANGED <<stream, scope, contested, gaveUp>>
  BY SelfStage DEF Stages, SelfActs, ReplyActs
<1>2. ASSUME NEW v \in Units PROVE Keeps(v)
  <2>1. CASE op'[v] = op[v]
    BY <2>1 DEF Keeps
  <2>2. CASE op'[v] # op[v]
    <3>1. /\ op[v].doing = "parked" /\ op'[v].doing \in {"turned down", "answered"}
          /\ op'[v].target = op[v].target
      BY <1>1, <2>2 DEF SelfActs, ReplyActs
    <3> QED
      BY <3>1 DEF Keeps, AtWork, Goes, Touches
  <2> QED
    BY <2>1, <2>2
<1> QED
  BY <1>1, <1>2, OwnSame

LEMMA QuietOwn ==
  ASSUME Stages, TypeOK, Own, NEW u \in Units,
         Refused(u) \/ AskForHelper(u) \/ Succeed(u)
  PROVE  Own'
<1>1. /\ ScopesTyped /\ (\A v \in Units : Onward(v))
      /\ UNCHANGED <<stream, scope, contested, gaveUp>>
  BY RefusedStage, AskStage, SucceedStage
     DEF Stages, Refused, AskForHelper, Succeed, dockerVars, scopeVars, history
<1>2. PICK d \in {"over", "parked", "settles"} :
        Doing(u, d) /\ (op[u].doing = "none" => d = "over") /\ op[u].doing # "over"
  BY DEF Refused, Asked, AskForHelper, Succeed
<1>3. d \in Doings
  BY DEF Doings
<1>4. /\ op'[u].target = op[u].target /\ op'[u].doing = d
      /\ \A v \in Units : v # u => op'[v] = op[v]
  BY <1>1, <1>2, <1>3, OneActs
<1>5. Keeps(u)
  BY <1>2, <1>4 DEF Keeps, AtWork, Goes, Touches
<1>6. \A v \in Units : Keeps(v)
  BY <1>4, <1>5 DEF Keeps
<1> QED
  BY <1>1, <1>6, OwnSame

LEMMA StillOwn ==
  ASSUME Stages, Own, \A v \in Units : Onward(v),
         UNCHANGED <<stream, op, scope, contested, gaveUp>>
  PROVE  Own'
<1>1. \A v \in Units : Keeps(v)
  BY DEF Keeps
<1> QED
  BY <1>1, OwnSame DEF Stages

LEMMA OwnInit ==
  ASSUME ScopesInit
  PROVE  Own
<1>1. /\ stream = <<>> /\ scope = [u \in Units |-> NoScope] /\ DOMAIN stream = {}
      /\ \A u \in Units : op[u].doing = "none"
  BY DEF ScopesInit
<1>2. \A u \in Units : ~Open(u)
  <2>1. ~NoScope.open
    BY DEF NoScope
  <2> QED
    BY <1>1, <2>1 DEF Open
<1>3. Causes
  BY <1>1 DEF Causes, Filed
<1>4. Sole
  BY <1>2 DEF Sole
<1>5. \A u \in Units : Covers(u) /\ Expects(u)
  BY <1>1 DEF Covers, Expects, AtWork, Goes
<1> QED
  BY <1>3, <1>4, <1>5 DEF Own

LEMMA StepOwn ==
  ASSUME Stages, TypeOK, Health, Own, [ScopesNext]_all
  PROVE  Own'
<1>0. ArmedSettled
  BY DEF Health
<1>1. ASSUME NEW u \in Units, Docker(u) PROVE Own'
  BY <1>1, DockerOwn
<1>2. ASSUME NEW u \in Units, DockerRefuses(u) PROVE Own'
  BY <1>2, RefusesOwn
<1>3. ASSUME NEW u \in Units, Begin(u) PROVE Own'
  BY <1>3, BeginOwn
<1>4. ASSUME NEW u \in Units, Refused(u) \/ AskForHelper(u) \/ Succeed(u) PROVE Own'
  BY <1>4, QuietOwn
<1>5. ASSUME NEW u \in Units, Inspected(u) PROVE Own'
  BY <1>5, InspectOwn
<1>6. ASSUME NEW u \in Units, Settle(u) \/ Fail(u) PROVE Own'
  BY <1>6, SettleOwn
<1>7. ASSUME NEW u \in Units, GraceEnds(u) PROVE Own'
  BY <1>7, GraceOwn
<1>8. CASE Hand
  BY <1>8, HandOwn
<1>9. CASE HealthStatus
  BY <1>9, HealthOwn
<1>10. CASE BeginRead \/ ReadHost \/ ReadDone
  <2>1. UNCHANGED <<stream, op, scope, contested, gaveUp>>
    BY <1>10 DEF BeginRead, ReadHost, ReadDone, dockerVars, scopeVars, history
  <2>2. \A v \in Units : Onward(v)
    BY <1>0, <1>10, BeginReadStage, ReadHostStage, ReadDoneStage
  <2> QED
    BY <2>1, <2>2, StillOwn
<1>11. CASE Hear
  BY <1>11, HearOwn
<1>12. ASSUME NEW n \in DOMAIN stream, Break(n) PROVE Own'
  BY <1>12, BreakOwn
<1>13. CASE SelfUpdate
  BY <1>13, SelfOwn
<1>14. CASE UNCHANGED all
  <2>1. UNCHANGED <<unit, host, stream, op, scope, order, wait, reading, contested, gaveUp, spoiled>>
    BY <1>14 DEF all, rest, vars, dockerVars, scopeVars, readVars, history
  <2>2. \A v \in Units : Onward(v)
    BY <2>1, SameStage
  <2> QED
    BY <2>1, <2>2, StillOwn
<1> QED
  BY <1>1, <1>2, <1>3, <1>4, <1>5, <1>6, <1>7, <1>8, <1>9, <1>10, <1>11, <1>12, <1>13, <1>14
     DEF ScopesNext, Agent

\* Whom report puts an event down to.
LEMMA PutDown ==
  ASSUME Stages, Own, NEW e \in Event, Filed(e), e.kind # "health"
  PROVE  /\ Owner(e) \in Units \ contested => e.by = Owner(e)
         /\ Counts(e) /\ e.by \notin contested \cup gaveUp => Owner(e) = e.by
<1>1. ScopesTyped /\ Cause(e) /\ ~Owed(e) /\ Nobody \notin Units
  BY UnitsCounted DEF Stages, Own, Causes, Owed
<1>2. ASSUME Owner(e) \in Units
      PROVE  /\ Open(Owner(e)) /\ Owner(e) \in e.scopes /\ op[Owner(e)].kind \in OfContainer
             /\ e.by = Owner(e) \/ Owner(e) \in contested
  <2>1. Claims(Owner(e), e) /\ Stage(Owner(e))
    BY <1>1, <1>2, OwnerIs DEF Stages
  <2>2. Open(Owner(e)) /\ Owner(e) \in e.scopes /\ op[Owner(e)].kind \in OfContainer
    BY <2>1 DEF Claims, Stage
  <2> QED
    BY <1>1, <2>2 DEF Cause
<1>3. ASSUME Counts(e), e.by \notin contested \cup gaveUp
      PROVE  Owner(e) = e.by
  <2>1. e.by \in Units /\ e.by \in e.scopes /\ Held(e) /\ Stage(e.by)
        /\ op[e.by].kind \in OfContainer
    BY <1>1, <1>3 DEF Counts, Cause, Stages
  <2>2. Claims(e.by, e) /\ Open(e.by)
    BY <2>1 DEF Held, Claims
  <2> DEFINE C == {n \in DOMAIN order : Claims(order[n], e)}
  <2>3. PICK n \in DOMAIN order : order[n] = e.by
    BY <2>1, <2>2 DEF Stage
  <2>4. C \in SUBSET Nat /\ C # {} /\ order \in Seq(Units)
    BY <1>1, <2>2, <2>3 DEF ScopesTyped
  <2>5. Min(C) \in C
    BY <2>4, MinIn, Zenon
  <2>6. Owner(e) = order[Min(C)]
    BY <1>1, <2>4 DEF Owner
  <2>7. Owner(e) \in Units
    BY <2>4, <2>5, <2>6, ElementOfSeq
  <2>8. Open(Owner(e)) /\ op[Owner(e)].kind \in OfContainer
    BY <1>2, <2>7
  <2> QED
    BY <1>3, <2>1, <2>2, <2>7, <2>8 DEF Own, Sole
<1> QED
  BY <1>2, <1>3

LEMMA StatusCredited ==
  ASSUME Health, NEW e \in Event, Filed(e), e.first, e.by \in Units \ spoiled
  PROVE  Owner(e) = e.by
<1>1. Status(e) /\ e.kind = "health" /\ e.by # Nobody
  BY UnitsCounted DEF Health, Credit, Begins
<1>2. Owed(e) /\ e.waiting = e.by
  BY <1>1 DEF Status, Owed
<1> QED
  BY <1>2 DEF Owner

LEMMA HeadFiled ==
  ASSUME Stages, Hear
  PROVE  Head(stream) \in Event /\ Filed(Head(stream))
<1>1. stream \in Seq(Event) /\ stream # <<>>
  BY DEF Stages, ScopesTyped, Hear
<1>2. Head(stream) \in Event /\ Head(stream) = stream[1] /\ 1 \in DOMAIN stream
  BY <1>1, HeadTailProperties
<1> QED
  BY <1>2 DEF Filed

-----------------------------------------------------------------------------
(* In every reachable state each action is where its calls have brought it, *)
(* a scope is open as long as its action is at work, a wait is there until  *)
(* what it waits for has come, and an operation that has the container to   *)
(* itself still awaits its last event and covers every event it has caused. *)
THEOREM ScopesInvariant == ScopesSpec => [](Stages /\ Health /\ Own)
<1>1. ScopesInit => Stages /\ Health /\ Own
  BY ScopesInitHolds, OwnInit
<1>2. TypeOK /\ (Stages /\ Health /\ Own) /\ [ScopesNext]_all => (Stages /\ Health /\ Own)'
  BY StepHealth, StepOwn
<1> QED
  BY <1>1, <1>2, ActionsPassTheGate, TypeCorrect, PTL DEF ScopesSpec

(* An operation that had the container to itself has exactly its own events *)
(* under its id, however late the stream hands them over.                   *)
THEOREM EventsPutDownRight == ScopesSpec => OwnSteps
<1>1. Stages /\ Health /\ Own =>
        (Hear => LET e == Head(stream) IN e.kind # "health" =>
           /\ Owner(e) \in Units \ contested => e.by = Owner(e)
           /\ /\ e.by \in Units \ (contested \cup gaveUp)
              /\ ~(e.kind = "created" /\ ~op[e.by].ran)
              => Owner(e) = e.by)
  <2> SUFFICES ASSUME Stages, Own, Hear, Head(stream).kind # "health"
               PROVE  LET e == Head(stream) IN
                        /\ Owner(e) \in Units \ contested => e.by = Owner(e)
                        /\ /\ e.by \in Units \ (contested \cup gaveUp)
                           /\ ~(e.kind = "created" /\ ~op[e.by].ran)
                           => Owner(e) = e.by
    OBVIOUS
  <2>1. PICK e \in Event : e = Head(stream) /\ Filed(e)
    BY HeadFiled
  <2>2. /\ Owner(e) \in Units \ contested => e.by = Owner(e)
        /\ Counts(e) /\ e.by \notin contested \cup gaveUp => Owner(e) = e.by
    BY <2>1, PutDown
  <2> QED
    BY <2>1, <2>2 DEF Counts
<1> QED
  BY <1>1, ScopesInvariant, PTL DEF ScopesSpec, OwnSteps

(* The first health status of a container goes to the operation that        *)
(* started it, unless its wait was displaced or overtaken.                  *)
THEOREM HealthCreditedRight == ScopesSpec => FirstHealthCredited
<1>1. Stages /\ Health /\ Own =>
        (Hear => LET e == Head(stream) IN
           e.first /\ e.by \in Units \ spoiled => Owner(e) = e.by)
  BY HeadFiled, StatusCredited
<1> QED
  BY <1>1, ScopesInvariant, PTL DEF ScopesSpec, FirstHealthCredited

=============================================================================
