-------------------------- MODULE AckDeliveryProofs --------------------------
(***************************************************************************)
(* Theorems about the at-least-once delivery, for every number of entries, *)
(* every limit of the queue and any mix of faults.                         *)
(***************************************************************************)
EXTENDS AckDelivery, FiniteSetTheorems, SequenceTheorems, WellFoundedInduction, TLAPS

-----------------------------------------------------------------------------
(* Every nonempty set of naturals has a least element.                     *)
LEMMA LeastElement ==
  ASSUME NEW T, T \subseteq Nat, T # {}
  PROVE  \E x \in T : \A y \in T : x <= y
<1> DEFINE R == OpToRel(<, Nat)
<1>1. IsWellFoundedOn(R, Nat)
  BY NatLessThanWellFounded
<1>2. PICK x \in T : \A y \in T : ~(<<y, x>> \in R)
  BY <1>1, WFMin, Zenon
<1>3. ASSUME NEW y \in T PROVE x <= y
  <2>1. ~(y < x)
    BY <1>2, T \subseteq Nat DEF OpToRel
  <2> QED BY <2>1, T \subseteq Nat
<1> QED BY <1>3

(* The queue cut down to its newest elements is never longer than its      *)
(* limit.                                                                  *)
LEMMA NewestBounded ==
  ASSUME NEW S, S \subseteq Nat, IsFiniteSet(S)
  PROVE  /\ Newest(S) \subseteq S
         /\ Cardinality(Newest(S)) <= MaxItems
<1>1. Newest(S) \subseteq S
  BY DEF Newest
<1>2. CASE Newest(S) = {}
  <2>1. Cardinality(Newest(S)) = 0
    BY <1>2, FS_EmptySet
  <2> QED BY <1>1, <2>1, AckAssumption
<1>3. CASE Newest(S) # {}
  <2>1. PICK m \in Newest(S) : \A y \in Newest(S) : m <= y
    BY <1>1, <1>3, LeastElement
  <2> DEFINE Above == {f \in S : f > m}
  <2>2. IsFiniteSet(Above) /\ Cardinality(Above) < MaxItems
    BY <2>1, FS_Subset DEF Newest
  <2>3. Newest(S) \subseteq Above \cup {m}
    <3> SUFFICES ASSUME NEW y \in Newest(S), y # m
                 PROVE  y \in S /\ y > m
      OBVIOUS
    <3>1. y \in S /\ m <= y
      BY <1>1, <2>1
    <3>2. y \in Nat /\ m \in Nat
      BY <1>1, S \subseteq Nat
    <3> HIDE DEF Newest
    <3> QED BY <3>1, <3>2
  <2> HIDE DEF Above
  <2> DEFINE c == Cardinality(Above)
             d == Cardinality(Above \cup {m})
  <2>4. IsFiniteSet(Above \cup {m}) /\ d = IF m \in Above THEN c ELSE c + 1
    BY <2>2, FS_AddElement, Zenon
  <2>5. Cardinality(Newest(S)) <= d
    BY <2>3, <2>4, FS_Subset
  <2>6. c \in Nat /\ d \in Nat /\ Cardinality(Newest(S)) \in Nat
    BY <2>2, <2>3, <2>4, FS_Subset, FS_CardinalityType
  <2>7. c < MaxItems /\ MaxItems \in Nat
    BY <2>2, AckAssumption
  <2>8. Cardinality(Newest(S)) <= MaxItems
    <3> HIDE DEF c, d
    <3> QED BY <2>4, <2>5, <2>6, <2>7
  <2> QED BY <1>1, <2>8
<1> QED BY <1>1, <1>2, <1>3

(* The wire: dropping a tail, taking a frame off and adding one keep the   *)
(* frames what they are.                                                   *)
LEMMA WireOperations ==
  ASSUME NEW S, NEW q \in Seq(S)
  PROVE  /\ \A k \in 0..Len(q) :
              /\ SubSeq(q, 1, k) \in Seq(S)
              /\ Len(SubSeq(q, 1, k)) = k
              /\ \A i \in 1..k : SubSeq(q, 1, k)[i] = q[i]
         /\ q # <<>> =>
              /\ Head(q) \in S /\ Head(q) = q[1] /\ Len(q) \in Nat \ {0}
              /\ Tail(q) \in Seq(S)
              /\ Len(Tail(q)) = Len(q) - 1
              /\ \A i \in 1..Len(Tail(q)) : Tail(q)[i] = q[i + 1]
         /\ \A x \in S :
              /\ Append(q, x) \in Seq(S)
              /\ Len(Append(q, x)) = Len(q) + 1
              /\ \A i \in 1..Len(q) : Append(q, x)[i] = q[i]
              /\ Append(q, x)[Len(q) + 1] = x
<1>1. ASSUME NEW k \in 0..Len(q)
      PROVE  /\ SubSeq(q, 1, k) \in Seq(S)
             /\ Len(SubSeq(q, 1, k)) = k
             /\ \A i \in 1..k : SubSeq(q, 1, k)[i] = q[i]
  BY SubSeqProperties
<1>2. ASSUME q # <<>>
      PROVE  /\ Head(q) \in S /\ Head(q) = q[1] /\ Len(q) \in Nat \ {0}
             /\ Tail(q) \in Seq(S)
             /\ Len(Tail(q)) = Len(q) - 1
             /\ \A i \in 1..Len(Tail(q)) : Tail(q)[i] = q[i + 1]
  BY <1>2, HeadTailProperties
<1>3. ASSUME NEW x \in S
      PROVE  /\ Append(q, x) \in Seq(S)
             /\ Len(Append(q, x)) = Len(q) + 1
             /\ \A i \in 1..Len(q) : Append(q, x)[i] = q[i]
             /\ Append(q, x)[Len(q) + 1] = x
  BY AppendProperties
<1> QED BY <1>1, <1>2, <1>3

-----------------------------------------------------------------------------
(* What the agent holds after load() and after a flush was held before, and *)
(* was pushed.                                                             *)
LEMMA LoadedHeld ==
  Loaded \subseteq Held /\ \A S : Fresh(S) \subseteq S /\ Newest(S) \subseteq S
BY DEF Loaded, Held, Fresh, Newest

LEMMA HeldEmitted == TypeOK => Held \subseteq Emitted /\ Emitted \subseteq Event
BY AckAssumption DEF TypeOK, Held, Emitted, Event

LEMMA TypeInit == Init => TypeOK
<1> SUFFICES ASSUME Init PROVE TypeOK
  OBVIOUS
<1>1. told \in [Event -> Nat] /\ wiped \in [Event -> Nat]
  BY DEF Init
<1>2. toServer \in Seq(SUBSET Event) /\ toAgent \in Seq(SUBSET Event)
  BY DEF Init
<1>3. next \in 1..(MaxEvents + 1)
  BY AckAssumption DEF Init
<1> QED BY <1>1, <1>2, <1>3 DEF Init, TypeOK

(* The sending part of flush() keeps the wire and the queue well typed.    *)
LEMMA FlushType ==
  ASSUME TypeOK, NEW q, q \subseteq Event, NEW open \in BOOLEAN, Flush(q, open)
  PROVE  /\ loaded' = TRUE /\ retryArmed' \in BOOLEAN
         /\ entries' = Fresh(q)
         /\ toServer' \in Seq(SUBSET Event)
<1>1. Fresh(q) \in SUBSET Event
  BY DEF Fresh
<1>2. Append(toServer, Fresh(q)) \in Seq(SUBSET Event)
  BY <1>1, WireOperations DEF TypeOK
<1> QED BY <1>2 DEF Flush, TypeOK

LEMMA TypeStep == TypeOK /\ [Next]_vars => TypeOK'
<1> SUFFICES ASSUME TypeOK, [Next]_vars PROVE TypeOK'
  OBVIOUS
<1> USE AckAssumption
<1>w. /\ \A k \in 0..Len(toServer) : SubSeq(toServer, 1, k) \in Seq(SUBSET Event)
      /\ \A k \in 0..Len(toAgent) : SubSeq(toAgent, 1, k) \in Seq(SUBSET Event)
      /\ toServer # <<>> => Head(toServer) \subseteq Event /\ Tail(toServer) \in Seq(SUBSET Event)
      /\ toAgent # <<>> => Head(toAgent) \subseteq Event /\ Tail(toAgent) \in Seq(SUBSET Event)
      /\ \A x \in SUBSET Event : Append(toAgent, x) \in Seq(SUBSET Event)
  BY WireOperations DEF TypeOK
<1>h. Held \subseteq Emitted /\ Loaded \subseteq Emitted /\ Emitted \subseteq Event
  BY HeldEmitted, LoadedHeld
<1>n. next \in Nat /\ next >= 1 /\ horizon \in Nat /\ faults \in Nat
  BY DEF TypeOK
<1>f. ASSUME NEW kind, Happens(kind) PROVE faults' \in Nat
  BY <1>f, <1>n DEF Happens
<1>1. CASE Push
  <2> DEFINE q == Newest(Loaded \cup {next})
  <2>1. next \in Event /\ next' = next + 1
    BY <1>1, <1>n DEF Push, Event
  <2>2. q \subseteq Event /\ Fresh(q) \subseteq Emitted \cup {next}
    BY <1>h, <2>1, LoadedHeld
  <2>3. Emitted \cup {next} = Emitted'
    BY <2>1, <1>n DEF Emitted
  <2>4. Flush(q, linked)
    BY <1>1 DEF Push
  <2> HIDE DEF q
  <2>5. /\ loaded' = TRUE /\ retryArmed' \in BOOLEAN
        /\ entries' = Fresh(q)
        /\ toServer' \in Seq(SUBSET Event)
    BY <2>2, <2>4, FlushType DEF TypeOK
  <2>6. excused' \subseteq Event
    BY <1>1, <1>h, <2>1 DEF Push, TypeOK
  <2>7. next' \in 1..(MaxEvents + 1)
    BY <2>1, <1>n DEF Event
  <2>8. entries' \subseteq Emitted' /\ file' \subseteq Emitted'
    BY <1>1, <2>2, <2>3, <2>5 DEF Push, TypeOK
  <2> QED BY <1>1, <2>5, <2>6, <2>7, <2>8 DEF Push, TypeOK
<1>2. ASSUME NEW open \in BOOLEAN, Offer(open)
      PROVE  /\ loaded' = TRUE /\ retryArmed' \in BOOLEAN /\ writePending' \in BOOLEAN
             /\ entries' \subseteq Emitted /\ excused' \subseteq Event
             /\ toServer' \in Seq(SUBSET Event)
  <2>1. Loaded \subseteq Event /\ Fresh(Loaded) \subseteq Emitted
    BY <1>h, LoadedHeld
  <2>2. /\ loaded' = TRUE /\ retryArmed' \in BOOLEAN
        /\ entries' = Fresh(Loaded)
        /\ toServer' \in Seq(SUBSET Event)
    BY <1>2, <2>1, FlushType DEF Offer
  <2>3. writePending' \in BOOLEAN
    BY <1>2 DEF Offer, TypeOK
  <2>4. excused' \subseteq Event
    BY <1>2, <1>h DEF Offer, TypeOK
  <2> QED BY <2>1, <2>2, <2>3, <2>4
<1>3. CASE Retry
  BY <1>2, <1>3 DEF Retry, TypeOK, Emitted
<1>4. CASE Connect
  BY <1>2, <1>4 DEF Connect, TypeOK, Emitted
<1>5. CASE Acknowledge
  <2>1. entries' \subseteq Emitted /\ excused' \subseteq Event /\ toAgent' \in Seq(SUBSET Event)
    BY <1>5, <1>h, <1>w DEF Acknowledge, Unacked, TypeOK
  <2>2. writePending' \in BOOLEAN /\ retryArmed' \in BOOLEAN
    BY <1>5 DEF Acknowledge, TypeOK
  <2> QED BY <1>5, <2>1, <2>2 DEF Acknowledge, TypeOK, Emitted
<1>6. CASE Write
  <2>1. faults' \in Nat
    BY <1>6, <1>f, <1>n DEF Write
  <2>2. file' \subseteq Emitted /\ stale' \in BOOLEAN
    BY <1>6 DEF Write, TypeOK
  <2> QED BY <1>6, <2>1, <2>2 DEF Write, wire, ledger, TypeOK, Emitted
<1>7. CASE Age
  BY <1>7 DEF Age, agent, wire, ledger, TypeOK, Emitted
<1>8. CASE Shutdown
  <2>1. file' \subseteq Emitted /\ faults' \in Nat
    BY <1>8, <1>n DEF Shutdown, PersistNow, Happens, TypeOK
  <2>2. stale' \in BOOLEAN
    BY <1>8 DEF Shutdown, TypeOK
  <2> QED BY <1>8, <2>1, <2>2 DEF Shutdown, wire, ledger, TypeOK, Emitted
<1>9. ASSUME Gone, faults' \in Nat PROVE TypeOK'
  <2>1. toServer' \in Seq(SUBSET Event) /\ toAgent' \in Seq(SUBSET Event)
    BY <1>9, <1>w DEF Gone
  <2>2. excused' \subseteq Event
    BY <1>9, <1>h DEF Gone, TypeOK
  <2> QED BY <1>9, <2>1, <2>2 DEF Gone, TypeOK, Emitted
<1>10. CASE Exit
  BY <1>9, <1>10, <1>n DEF Exit
<1>11. CASE Crash
  BY <1>9, <1>11, <1>n DEF Crash, Happens
<1>12. CASE Start
  BY <1>12 DEF Start, wire, ledger, TypeOK, Emitted
<1>13. CASE Break
  <2>1. toServer' \in Seq(SUBSET Event) /\ toAgent' \in Seq(SUBSET Event)
    BY <1>13, <1>w DEF Break
  <2>2. faults' \in Nat /\ linked' \in BOOLEAN
    BY <1>13, <1>f DEF Break
  <2> QED BY <1>13, <2>1, <2>2 DEF Break, agent, ledger, TypeOK, Emitted
<1>14. ASSUME NEW ids \in SUBSET Event, SendAck(ids)
       PROVE  toAgent' \in Seq(SUBSET Event)
  BY <1>14, <1>w DEF SendAck, TypeOK
<1>15. CASE Ingest
  <2> DEFINE b == Head(toServer)
  <2>1. b \subseteq Event /\ toServer' \in Seq(SUBSET Event) /\ SendAck(b)
    BY <1>15, <1>w DEF Ingest
  <2>2. toAgent' \in Seq(SUBSET Event)
    BY <1>14, <2>1
  <2>3. stored' \subseteq Event /\ ruled' \subseteq Event
    BY <1>15, <2>1 DEF Ingest, Wanted, TypeOK
  <2>4. told' \in [Event -> Nat]
    BY <1>15 DEF Ingest, TypeOK
  <2> QED BY <1>15, <2>1, <2>2, <2>3, <2>4 DEF Ingest, agent, TypeOK, Emitted
<1>16. CASE IngestFails
  <2> DEFINE b == Head(toServer)
  <2>1. b \subseteq Event /\ toServer' \in Seq(SUBSET Event) /\ SendAck(Refused(b))
    BY <1>16, <1>w DEF IngestFails
  <2>2. Refused(b) \subseteq Event
    BY <2>1 DEF Refused
  <2>3. toAgent' \in Seq(SUBSET Event)
    BY <1>14, <2>1, <2>2
  <2>4. ruled' \subseteq Event
    BY <1>16, <2>2 DEF IngestFails, TypeOK
  <2> QED BY <1>16, <2>1, <2>3, <2>4 DEF IngestFails, Happens, agent, TypeOK, Emitted
<1>17. ASSUME NEW k \in Event, Purge(k) PROVE TypeOK'
  <2>1. stored' \subseteq Event /\ wiped' \in [Event -> Nat]
    BY <1>17 DEF Purge, TypeOK
  <2> QED BY <1>17, <2>1 DEF Purge, Happens, agent, wire, TypeOK, Emitted
<1>18. CASE UNCHANGED vars
  BY <1>18 DEF vars, agent, wire, ledger, TypeOK, Emitted
<1> QED BY <1>1, <1>3, <1>4, <1>5, <1>6, <1>7, <1>8, <1>10, <1>11, <1>12, <1>13, <1>15,
          <1>16, <1>17, <1>18 DEF Next

(* The queue and the file hold pushed entries only, in every behaviour.    *)
THEOREM TypeCorrect == Spec => []TypeOK
BY TypeInit, TypeStep, PTL DEF Spec
-----------------------------------------------------------------------------
(* The strengthening.  Whoever has a write scheduled, a socket open or an   *)
(* ack to read has loaded its queue, and what is offered was pushed.       *)
LoadedFirst ==
  /\ writePending \/ linked \/ toAgent # <<>> => loaded
  /\ loaded => up
OffersPushed == \A i \in 1..Len(toServer) : toServer[i] \subseteq Emitted
WireInv == TypeOK /\ LoadedFirst /\ OffersPushed /\ AcksRuled

(* A flush offers nothing but what the queue holds.                        *)
LEMMA FlushOffers ==
  ASSUME TypeOK, OffersPushed, NEW q, q \subseteq Event, NEW E, Emitted \subseteq E,
         Fresh(q) \subseteq E, NEW open, Flush(q, open)
  PROVE  \A i \in 1..Len(toServer') : toServer'[i] \subseteq E
<1>1. Fresh(q) \in SUBSET Event
  BY DEF Fresh
<1>2. toServer \in Seq(SUBSET Event)
  BY DEF TypeOK
<1>3. CASE toServer' = toServer
  BY <1>3 DEF OffersPushed
<1>4. CASE toServer' = Append(toServer, Fresh(q))
  <2>1. /\ Len(toServer') = Len(toServer) + 1
        /\ \A i \in 1..Len(toServer) : toServer'[i] = toServer[i]
        /\ toServer'[Len(toServer) + 1] = Fresh(q)
    BY <1>1, <1>2, <1>4, WireOperations
  <2>2. ASSUME NEW i \in 1..Len(toServer') PROVE toServer'[i] \subseteq E
    <3>1. Len(toServer) \in Nat
      BY <1>2
    <3>2. CASE i \in 1..Len(toServer)
      BY <2>1, <3>2 DEF OffersPushed
    <3>3. CASE i = Len(toServer) + 1
      BY <2>1, <3>3
    <3> QED BY <2>1, <3>1, <3>2, <3>3
  <2> QED BY <2>2
<1> QED BY <1>3, <1>4 DEF Flush

(* Frames that remain on a wire that breaks, or behind the one that was    *)
(* handled, were there before.                                             *)
LEMMA FramesRemain ==
  ASSUME NEW S, NEW q \in Seq(S), NEW r,
         \/ \E k \in 0..Len(q) : r = SubSeq(q, 1, k)
         \/ q # <<>> /\ r = Tail(q)
         \/ r = q
  PROVE  \A i \in 1..Len(r) : \E j \in 1..Len(q) : r[i] = q[j]
<1>1. Len(q) \in Nat
  OBVIOUS
<1>2. ASSUME NEW k \in 0..Len(q), r = SubSeq(q, 1, k)
      PROVE  \A i \in 1..Len(r) : \E j \in 1..Len(q) : r[i] = q[j]
  BY <1>1, <1>2, WireOperations
<1>3. ASSUME q # <<>>, r = Tail(q)
      PROVE  \A i \in 1..Len(r) : \E j \in 1..Len(q) : r[i] = q[j]
  <2>1. /\ Len(r) = Len(q) - 1
        /\ \A i \in 1..Len(r) : r[i] = q[i + 1]
    BY <1>3, WireOperations
  <2> QED BY <1>1, <2>1
<1> QED BY <1>2, <1>3

(* Both directions: what is on the wire after a step that only removes     *)
(* frames keeps its meaning.                                               *)
LEMMA OffersRemain ==
  ASSUME TypeOK, OffersPushed, Emitted \subseteq Emitted',
         \/ \E k \in 0..Len(toServer) : toServer' = SubSeq(toServer, 1, k)
         \/ toServer # <<>> /\ toServer' = Tail(toServer)
         \/ toServer' = toServer
  PROVE  OffersPushed'
<1>1. toServer \in Seq(SUBSET Event)
  BY DEF TypeOK
<1>2. \A i \in 1..Len(toServer') : \E j \in 1..Len(toServer) : toServer'[i] = toServer[j]
  BY <1>1, FramesRemain
<1> QED BY <1>2 DEF OffersPushed

LEMMA AcksRemain ==
  ASSUME TypeOK, AcksRuled, ruled \subseteq ruled',
         \/ \E k \in 0..Len(toAgent) : toAgent' = SubSeq(toAgent, 1, k)
         \/ toAgent # <<>> /\ toAgent' = Tail(toAgent)
         \/ toAgent' = toAgent
  PROVE  AcksRuled'
<1>1. toAgent \in Seq(SUBSET Event)
  BY DEF TypeOK
<1>2. \A i \in 1..Len(toAgent') : \E j \in 1..Len(toAgent) : toAgent'[i] = toAgent[j]
  BY <1>1, FramesRemain
<1> QED BY <1>2 DEF AcksRuled

(* An ack is sent over entries that were ruled on in the same step.        *)
LEMMA SendAckRuled ==
  ASSUME TypeOK, AcksRuled, NEW ids \in SUBSET Event, SendAck(ids),
         ruled \subseteq ruled', ids \subseteq ruled'
  PROVE  AcksRuled'
<1>1. toAgent \in Seq(SUBSET Event) /\ Len(toAgent) \in Nat
  BY DEF TypeOK
<1>2. CASE toAgent' = Append(toAgent, ids)
  <2>1. /\ Len(toAgent') = Len(toAgent) + 1
        /\ \A i \in 1..Len(toAgent) : toAgent'[i] = toAgent[i]
        /\ toAgent'[Len(toAgent) + 1] = ids
    BY <1>1, <1>2, WireOperations
  <2>2. ASSUME NEW i \in 1..Len(toAgent') PROVE toAgent'[i] \subseteq ruled'
    <3>1. CASE i \in 1..Len(toAgent)
      BY <2>1, <3>1 DEF AcksRuled
    <3>2. CASE i = Len(toAgent) + 1
      BY <2>1, <3>2
    <3> QED BY <1>1, <2>1, <3>1, <3>2
  <2> QED BY <2>2 DEF AcksRuled
<1>3. CASE toAgent' = toAgent
  BY <1>3 DEF AcksRuled
<1> QED BY <1>2, <1>3 DEF SendAck

LEMMA WireStep == WireInv /\ [Next]_vars => WireInv'
<1> SUFFICES ASSUME WireInv, [Next]_vars PROVE WireInv'
  OBVIOUS
<1>t. TypeOK /\ LoadedFirst /\ OffersPushed /\ AcksRuled
  BY DEF WireInv
<1>t1. TypeOK'
  BY <1>t, TypeStep
<1>h. Held \subseteq Emitted /\ Loaded \subseteq Emitted /\ Emitted \subseteq Event
  BY <1>t, HeldEmitted, LoadedHeld
<1>w. toServer \in Seq(SUBSET Event) /\ toAgent \in Seq(SUBSET Event)
  BY <1>t DEF TypeOK
<1>s. /\ Emitted \subseteq Emitted /\ ruled \subseteq ruled
      /\ next' = next => Emitted' = Emitted
  BY DEF Emitted
<1>1. CASE Push
  <2> DEFINE q == Newest(Loaded \cup {next})
  <2>1. next \in Event /\ next' = next + 1 /\ next \in Nat
    BY <1>1, <1>t DEF Push, Event, TypeOK
  <2>2. q \subseteq Event /\ Fresh(q) \subseteq Emitted' /\ Emitted \subseteq Emitted'
    <3>1. Emitted' = Emitted \cup {next}
      BY <2>1, <1>t DEF Emitted, TypeOK
    <3> QED BY <1>h, <2>1, <3>1, LoadedHeld
  <2>3. Flush(q, linked)
    BY <1>1 DEF Push
  <2> HIDE DEF q
  <2>4. OffersPushed'
    BY <1>t, <2>2, <2>3, FlushOffers DEF OffersPushed
  <2>5. LoadedFirst'
    BY <1>1, <1>t, <2>3 DEF Push, Flush, LoadedFirst
  <2>6. AcksRuled'
    BY <1>1, <1>t, <1>s, AcksRemain DEF Push
  <2> QED BY <1>t1, <2>4, <2>5, <2>6 DEF WireInv
<1>2. ASSUME NEW open \in BOOLEAN, Offer(open), next' = next PROVE OffersPushed' /\ loaded'
  <2>1. Loaded \subseteq Event /\ Fresh(Loaded) \subseteq Emitted
    BY <1>h, LoadedHeld
  <2>2. \A i \in 1..Len(toServer') : toServer'[i] \subseteq Emitted
    BY <1>2, <1>t, <2>1, FlushOffers DEF Offer
  <2> QED BY <1>2, <1>s, <2>2 DEF OffersPushed, Offer, Flush
<1>3. CASE Retry
  <2>1. OffersPushed' /\ loaded'
    BY <1>2, <1>3, <1>t DEF Retry, TypeOK
  <2>2. AcksRuled'
    BY <1>3, <1>t, <1>s, AcksRemain DEF Retry
  <2> QED BY <1>3, <1>t1, <2>1, <2>2 DEF Retry, LoadedFirst, WireInv
<1>4. CASE Connect
  <2>1. OffersPushed' /\ loaded'
    BY <1>2, <1>4 DEF Connect
  <2>2. AcksRuled'
    BY <1>4, <1>t, <1>s, AcksRemain DEF Connect
  <2> QED BY <1>4, <1>t1, <2>1, <2>2 DEF Connect, LoadedFirst, WireInv
<1>5. CASE Acknowledge
  <2>1. OffersPushed'
    BY <1>5, <1>t, <1>s, OffersRemain DEF Acknowledge
  <2>2. AcksRuled'
    BY <1>5, <1>t, <1>s, AcksRemain DEF Acknowledge
  <2> QED BY <1>5, <1>t1, <2>1, <2>2 DEF Acknowledge, LoadedFirst, WireInv
<1>6. ASSUME toServer' = toServer, toAgent' = toAgent, linked' = linked, next' = next,
             ruled' = ruled, writePending' => loaded', loaded' = loaded, up' = up
      PROVE  WireInv'
  <2>1. OffersPushed'
    BY <1>6, <1>t, <1>s, OffersRemain
  <2>2. AcksRuled'
    BY <1>6, <1>t, <1>s, AcksRemain
  <2>3. LoadedFirst'
    BY <1>6, <1>t DEF LoadedFirst
  <2> QED BY <1>t1, <2>1, <2>2, <2>3 DEF WireInv
<1>7. CASE Write
  BY <1>6, <1>7, <1>t DEF Write, wire, ledger, LoadedFirst
<1>8. CASE Age
  BY <1>6, <1>8, <1>t DEF Age, agent, wire, ledger, LoadedFirst
<1>9. CASE Shutdown
  BY <1>6, <1>9, <1>t DEF Shutdown, wire, ledger, LoadedFirst
<1>10. ASSUME Gone PROVE WireInv'
  <2>1. OffersPushed'
    BY <1>10, <1>t, <1>s, OffersRemain DEF Gone
  <2>2. AcksRuled' /\ LoadedFirst'
    BY <1>10 DEF Gone, AcksRuled, LoadedFirst
  <2> QED BY <1>t1, <2>1, <2>2 DEF WireInv
<1>11. CASE Exit
  BY <1>10, <1>11 DEF Exit
<1>12. CASE Crash
  BY <1>10, <1>12 DEF Crash
<1>13. CASE Start
  <2>1. OffersPushed' /\ AcksRuled'
    BY <1>13, <1>t, <1>s, OffersRemain, AcksRemain DEF Start, wire, ledger
  <2> QED BY <1>13, <1>t, <1>t1, <2>1 DEF Start, wire, LoadedFirst, WireInv
<1>14. CASE Break
  <2>1. OffersPushed' /\ AcksRuled'
    BY <1>14, <1>t, <1>s, OffersRemain, AcksRemain DEF Break, ledger
  <2>2. toAgent' # <<>> => toAgent # <<>>
    BY <1>14, <1>w DEF Break
  <2>3. LoadedFirst'
    BY <1>14, <1>t, <2>2 DEF Break, agent, LoadedFirst
  <2> QED BY <1>t1, <2>1, <2>3 DEF WireInv
<1>15. ASSUME NEW ids \in SUBSET Event, SendAck(ids), linked' = linked
       PROVE  linked' \/ toAgent' # <<>> => linked \/ toAgent # <<>>
  BY <1>15 DEF SendAck
<1>16. CASE Ingest
  <2> DEFINE b == Head(toServer)
  <2>1. b \subseteq Event /\ SendAck(b) /\ b \subseteq ruled' /\ ruled \subseteq ruled'
    BY <1>16, <1>w, WireOperations DEF Ingest
  <2>2. AcksRuled'
    BY <1>t, <2>1, SendAckRuled
  <2>3. OffersPushed'
    BY <1>16, <1>t, <1>s, OffersRemain DEF Ingest
  <2>4. LoadedFirst'
    BY <1>15, <1>16, <1>t, <2>1 DEF Ingest, agent, LoadedFirst
  <2> QED BY <1>t1, <2>2, <2>3, <2>4 DEF WireInv
<1>17. CASE IngestFails
  <2> DEFINE ids == Refused(Head(toServer))
  <2>1. ids \subseteq Event /\ SendAck(ids) /\ ids \subseteq ruled' /\ ruled \subseteq ruled'
    <3>1. Head(toServer) \subseteq Event
      BY <1>17, <1>w, WireOperations DEF IngestFails
    <3> QED BY <1>17, <3>1 DEF IngestFails, Refused
  <2>2. AcksRuled'
    BY <1>t, <2>1, SendAckRuled
  <2>3. OffersPushed'
    BY <1>17, <1>t, <1>s, OffersRemain DEF IngestFails
  <2>4. LoadedFirst'
    BY <1>15, <1>17, <1>t, <2>1 DEF IngestFails, agent, LoadedFirst
  <2> QED BY <1>t1, <2>2, <2>3, <2>4 DEF WireInv
<1>18. ASSUME NEW k \in Event, Purge(k) PROVE WireInv'
  BY <1>6, <1>18, <1>t DEF Purge, agent, wire, LoadedFirst
<1>19. CASE UNCHANGED vars
  BY <1>6, <1>19, <1>t DEF vars, agent, wire, ledger, LoadedFirst
<1> QED BY <1>1, <1>3, <1>4, <1>5, <1>7, <1>8, <1>9, <1>11, <1>12, <1>13, <1>14, <1>16, <1>17,
          <1>18, <1>19 DEF Next

LEMMA WireInit == Init => WireInv
<1> SUFFICES ASSUME Init PROVE WireInv
  OBVIOUS
<1>1. LoadedFirst /\ OffersPushed /\ AcksRuled
  BY DEF Init, LoadedFirst, OffersPushed, AcksRuled
<1> QED BY <1>1, TypeInit DEF WireInv

(* The strengthened invariant holds throughout.                            *)
LEMMA WireCorrect == Spec => []WireInv
BY WireInit, WireStep, PTL DEF Spec

(* Never acknowledge what was not stored: an id on its way to the agent    *)
(* was stored, is not wanted or cannot be read.                            *)
THEOREM NeverAckedUnruled == Spec => []AcksRuled
<1>1. WireInv => AcksRuled
  BY DEF WireInv
<1> QED BY <1>1, WireCorrect, PTL

-----------------------------------------------------------------------------
(* The promise itself keeps every entry accounted for.                     *)
LEMMA AbstractAccounts ==
  NothingVanishes /\ [Abstract!Next]_(Abstract!vars) => NothingVanishes'
<1> SUFFICES ASSUME NothingVanishes, [Abstract!Next]_(Abstract!vars) PROVE NothingVanishes'
  OBVIOUS
<1>1. ASSUME NEW e \in Event, Abstract!Emit(e) PROVE NothingVanishes'
  BY <1>1 DEF Abstract!Emit, NothingVanishes
<1>2. ASSUME NEW S \in SUBSET Event,
             Abstract!Rule(S) \/ Abstract!Release(S) \/ Abstract!GiveUp(S) \/ Abstract!Restart(S)
      PROVE  NothingVanishes'
  BY <1>2 DEF Abstract!Rule, Abstract!Release, Abstract!GiveUp, Abstract!Restart, NothingVanishes
<1>3. CASE UNCHANGED Abstract!vars
  BY <1>3 DEF Abstract!vars, NothingVanishes
<1> QED BY <1>1, <1>2, <1>3 DEF Abstract!Next

(* Every step of the queue, the server and their environment is a step of  *)
(* the promise or changes nothing it speaks about.                         *)
LEMMA AbstractStep ==
  WireInv /\ NothingVanishes /\ [Next]_vars => [Abstract!Next]_(Abstract!vars)
<1> SUFFICES ASSUME WireInv, NothingVanishes, [Next]_vars
             PROVE  [Abstract!Next]_(Abstract!vars)
  OBVIOUS
<1>t. TypeOK /\ LoadedFirst /\ OffersPushed /\ AcksRuled
  BY DEF WireInv
<1>h. Held \subseteq Emitted /\ Loaded \subseteq Held /\ Emitted \subseteq Event
  BY <1>t, HeldEmitted, LoadedHeld
<1>s. next' = next => Emitted' = Emitted
  BY DEF Emitted
<1>1. CASE Push
  <2> DEFINE q == Newest(Loaded \cup {next})
             lost == (Held \cup {next}) \ Fresh(q)
  <2>1. next \in Event /\ next \notin Emitted /\ Emitted' = Emitted \cup {next}
    BY <1>1, <1>t DEF Push, Event, TypeOK, Emitted
  <2>2. Fresh(q) \subseteq Held \cup {next}
    BY <1>h, LoadedHeld
  <2>3. Held' = Fresh(q)
    BY <1>1 DEF Push, Flush, Held
  <2>4. Held' = (Held \cup {next}) \ lost /\ lost \in SUBSET (Held \cup {next})
    BY <2>2, <2>3
  <2>5. excused' = excused \cup lost /\ ruled' = ruled
    BY <1>1 DEF Push
  <2>6. Abstract!Emit(next)
    BY <2>1, <2>4, <2>5 DEF Abstract!Emit
  <2> QED BY <2>1, <2>6 DEF Abstract!Next
<1>2. ASSUME NEW open, Offer(open), next' = next, ruled' = ruled
      PROVE  Abstract!GiveUp(Held \ Fresh(Loaded))
  <2>1. Fresh(Loaded) \subseteq Held
    BY <1>h, LoadedHeld
  <2>2. Held' = Fresh(Loaded) /\ excused' = excused \cup (Held \ Fresh(Loaded))
    BY <1>2 DEF Offer, Flush, Held
  <2> QED BY <1>2, <1>s, <2>1, <2>2 DEF Abstract!GiveUp
<1>3. ASSUME NEW open, Offer(open), next' = next, ruled' = ruled PROVE Abstract!Next
  <2>1. Held \ Fresh(Loaded) \in SUBSET Event
    BY <1>h
  <2> QED BY <1>2, <1>3, <2>1 DEF Abstract!Next
<1>4. CASE Retry
  BY <1>3, <1>4 DEF Retry
<1>5. CASE Connect
  BY <1>3, <1>5 DEF Connect
<1>6. CASE Acknowledge
  <2> DEFINE ids == Head(toAgent)
  <2>1. ids \subseteq ruled /\ ids \subseteq Event
    <3>1. toAgent \in Seq(SUBSET Event) /\ toAgent # <<>>
      BY <1>6, <1>t DEF TypeOK, Acknowledge
    <3>2. ids = toAgent[1] /\ ids \in SUBSET Event /\ 1 \in 1..Len(toAgent)
      BY <3>1, WireOperations
    <3> QED BY <1>t, <3>2 DEF AcksRuled
  <2>2. loaded /\ Loaded = Held
    BY <1>6, <1>t DEF Acknowledge, LoadedFirst, Loaded, Held
  <2>3. Held' = Held \ ids
    BY <1>6, <2>2 DEF Acknowledge, Unacked, Held
  <2>4. excused' = excused /\ ruled' = ruled /\ Emitted' = Emitted
    BY <1>6, <1>s, <2>2 DEF Acknowledge
  <2>5. Abstract!Release(ids)
    BY <2>1, <2>3, <2>4 DEF Abstract!Release
  <2> QED BY <2>1, <2>5 DEF Abstract!Next
<1>7. ASSUME Held' = Held, next' = next, ruled' = ruled, excused' = excused
      PROVE  UNCHANGED Abstract!vars
  BY <1>7, <1>s DEF Abstract!vars
<1>8. CASE Write
  <2>1. Held' = Held
    BY <1>8, <1>t DEF Write, LoadedFirst, Held
  <2> QED BY <1>7, <1>8, <2>1 DEF Write, ledger
<1>9. CASE Age
  BY <1>7, <1>9 DEF Age, agent, ledger, Held
<1>10. CASE Shutdown
  <2>1. Held' = Held
    BY <1>10 DEF Shutdown, PersistNow, Held
  <2> QED BY <1>7, <1>10, <2>1 DEF Shutdown, ledger
<1>11. ASSUME Gone PROVE Abstract!Next
  <2>1. Held' = file /\ excused' = excused \cup (Held \ file)
    BY <1>11 DEF Gone, Held
  <2>2. file \subseteq Held \cup ruled \cup excused
    BY <1>t DEF TypeOK, NothingVanishes
  <2>3. Abstract!Restart(file)
    BY <1>11, <1>s, <2>1, <2>2 DEF Gone, Abstract!Restart
  <2>4. file \in SUBSET Event
    BY <1>h, <1>t DEF TypeOK
  <2> QED BY <2>3, <2>4 DEF Abstract!Next
<1>12. CASE Exit
  BY <1>11, <1>12 DEF Exit
<1>13. CASE Crash
  BY <1>11, <1>13 DEF Crash
<1>14. CASE Start
  BY <1>7, <1>14 DEF Start, ledger, Held
<1>15. CASE Break
  BY <1>7, <1>15 DEF Break, agent, ledger, Held
<1>16. ASSUME NEW S, S \subseteq Head(toServer), toServer # <<>>, ruled' = ruled \cup S,
              Held' = Held, next' = next, excused' = excused
       PROVE  Abstract!Next
  <2>1. toServer \in Seq(SUBSET Event)
    BY <1>t DEF TypeOK
  <2>2. Head(toServer) = toServer[1] /\ 1 \in 1..Len(toServer)
    BY <1>16, <2>1, WireOperations
  <2>3. S \subseteq Emitted
    BY <1>16, <1>t, <2>2 DEF OffersPushed
  <2>4. Abstract!Rule(S)
    BY <1>16, <1>s, <2>3 DEF Abstract!Rule
  <2>5. S \in SUBSET Event
    BY <1>h, <2>3
  <2> QED BY <2>4, <2>5 DEF Abstract!Next
<1>17. CASE Ingest
  BY <1>16, <1>17 DEF Ingest, agent, Held
<1>18. CASE IngestFails
  <2> DEFINE S == Refused(Head(toServer)) \cap Unreadable
  <2>1. S \subseteq Head(toServer)
    BY DEF Refused
  <2>2. /\ toServer # <<>> /\ ruled' = ruled \cup S
        /\ Held' = Held /\ next' = next /\ excused' = excused
    BY <1>18 DEF IngestFails, agent, Held
  <2> QED BY <1>16, <2>1, <2>2
<1>19. ASSUME NEW k \in Event, Purge(k) PROVE UNCHANGED Abstract!vars
  BY <1>7, <1>19 DEF Purge, agent, Held
<1>20. CASE UNCHANGED vars
  BY <1>7, <1>20 DEF vars, agent, ledger, Held
<1> QED BY <1>1, <1>4, <1>5, <1>6, <1>8, <1>9, <1>10, <1>12, <1>13, <1>14, <1>15, <1>17, <1>18,
          <1>19, <1>20 DEF Next

LEMMA AbstractInit == Init => Abstract!Init /\ NothingVanishes
<1> SUFFICES ASSUME Init PROVE Abstract!Init /\ NothingVanishes
  OBVIOUS
<1>1. Emitted = {} /\ Held = {}
  BY DEF Init, Emitted, Held
<1> QED BY <1>1 DEF Init, Abstract!Init, NothingVanishes

(* Every entry pushed is held, ruled on by the server or openly excused,   *)
(* whatever is lost, repeated, cut short or restarted.                     *)
THEOREM Accounted == Spec => []NothingVanishes
<1>1. WireInv /\ NothingVanishes /\ [Next]_vars => NothingVanishes'
  BY AbstractStep, AbstractAccounts
<1> QED BY <1>1, AbstractInit, WireCorrect, PTL DEF Spec

(* The queue with everything around it implements the promise.             *)
THEOREM Implements == Spec => ImplementsAtLeastOnce
BY AbstractInit, AbstractStep, WireCorrect, Accounted, PTL
   DEF Spec, ImplementsAtLeastOnce, Abstract!Spec

-----------------------------------------------------------------------------
(* What was announced and not deleted is in the table, and only that.      *)
ToldRows == \A e \in Event : told[e] = wiped[e] + (IF e \in stored THEN 1 ELSE 0)

LEMMA ToldStep == TypeOK /\ ToldRows /\ [Next]_vars => ToldRows'
<1> SUFFICES ASSUME TypeOK, ToldRows, [Next]_vars PROVE ToldRows'
  OBVIOUS
<1>1. ASSUME told' = told, wiped' = wiped, stored' = stored PROVE ToldRows'
  BY <1>1 DEF ToldRows
<1>2. CASE Ingest
  <2> SUFFICES ASSUME NEW e \in Event
               PROVE  told'[e] = wiped'[e] + (IF e \in stored' THEN 1 ELSE 0)
    BY DEF ToldRows
  <2> DEFINE b == Head(toServer)
  <2>1. told[e] \in Nat /\ wiped[e] \in Nat /\ wiped' = wiped
    BY <1>2 DEF TypeOK, Ingest
  <2>2. e \in stored' <=> e \in stored \/ e \in Wanted(b)
    BY <1>2 DEF Ingest
  <2>3. told'[e] = IF e \in Wanted(b) /\ e \notin stored THEN told[e] + 1 ELSE told[e]
    BY <1>2 DEF Ingest, Inserted
  <2>4. told[e] = wiped[e] + (IF e \in stored THEN 1 ELSE 0)
    BY DEF ToldRows
  <2> HIDE DEF b
  <2> QED BY <2>1, <2>2, <2>3, <2>4
<1>3. ASSUME NEW k \in Event, Purge(k) PROVE ToldRows'
  <2> SUFFICES ASSUME NEW e \in Event
               PROVE  told'[e] = wiped'[e] + (IF e \in stored' THEN 1 ELSE 0)
    BY DEF ToldRows
  <2>1. told[e] \in Nat /\ wiped[e] \in Nat /\ told' = told
    BY <1>3 DEF TypeOK, Purge
  <2>2. e \in stored' <=> e \in stored /\ e > k
    BY <1>3 DEF Purge
  <2>3. wiped'[e] = IF e \in stored /\ e <= k THEN wiped[e] + 1 ELSE wiped[e]
    BY <1>3 DEF Purge
  <2>4. told[e] = wiped[e] + (IF e \in stored THEN 1 ELSE 0)
    BY DEF ToldRows
  <2>5. e \in Nat /\ k \in Nat
    BY <1>3, AckAssumption DEF Event
  <2> QED BY <2>1, <2>2, <2>3, <2>4, <2>5
<1>4. CASE Push \/ Retry \/ Connect \/ Acknowledge
  BY <1>1, <1>4 DEF Push, Retry, Connect, Acknowledge
<1>5. CASE Write \/ Age \/ Shutdown \/ Start \/ Break
  BY <1>1, <1>5 DEF Write, Age, Shutdown, Start, Break, ledger
<1>6. CASE Exit \/ Crash
  BY <1>1, <1>6 DEF Exit, Crash, Gone
<1>7. CASE IngestFails
  BY <1>1, <1>7 DEF IngestFails
<1>8. CASE UNCHANGED vars
  BY <1>1, <1>8 DEF vars, ledger
<1> QED BY <1>2, <1>3, <1>4, <1>5, <1>6, <1>7, <1>8 DEF Next

(* A repeat is a no-op: an entry is announced once for every time its row   *)
(* is there to be deleted, however often it arrives.                       *)
THEOREM RepeatsTellNobody == Spec => []ToldOncePerRow
<1>1. Init => ToldRows
  BY DEF Init, ToldRows
<1>2. ASSUME TypeOK, ToldRows PROVE ToldOncePerRow
  <2> SUFFICES ASSUME NEW e \in Event PROVE told[e] <= 1 + wiped[e]
    BY DEF ToldOncePerRow
  <2>1. told[e] \in Nat /\ wiped[e] \in Nat
    BY <1>2 DEF TypeOK
  <2> QED BY <1>2, <2>1 DEF ToldRows
<1> QED BY <1>1, <1>2, ToldStep, TypeCorrect, PTL DEF Spec

-----------------------------------------------------------------------------
(* An open socket belongs to a queue that was flushed on it.               *)
LEMMA RetryStep == WireInv /\ RetryCoversQueue /\ [Next]_vars => RetryCoversQueue'
<1> SUFFICES ASSUME WireInv, RetryCoversQueue, [Next]_vars PROVE RetryCoversQueue'
  OBVIOUS
<1>t. TypeOK /\ LoadedFirst
  BY DEF WireInv
<1>1. ASSUME NEW q, NEW open, Flush(q, open), linked' => open PROVE RetryCoversQueue'
  BY <1>1 DEF Flush, RetryCoversQueue
<1>2. CASE Push
  <2>1. linked' = linked /\ Flush(Newest(Loaded \cup {next}), linked)
    BY <1>2 DEF Push
  <2> QED BY <1>1, <2>1
<1>3. CASE Retry
  BY <1>1, <1>3 DEF Retry, Offer
<1>4. CASE Connect
  BY <1>1, <1>4 DEF Connect, Offer
<1>5. CASE Acknowledge
  <2>1. up /\ loaded /\ Loaded = entries /\ linked' = linked
    BY <1>5, <1>t DEF Acknowledge, LoadedFirst, Loaded
  <2>2. entries' \subseteq entries
    BY <1>5, <2>1 DEF Acknowledge, Unacked
  <2>3. ASSUME linked, entries' # {} PROVE retryArmed'
    <3>1. retryArmed
      BY <2>1, <2>2, <2>3 DEF RetryCoversQueue
    <3> QED BY <1>5, <2>3, <3>1 DEF Acknowledge
  <2> QED BY <2>1, <2>3 DEF RetryCoversQueue
<1>6. CASE Write \/ Age \/ Shutdown
  BY <1>6 DEF Write, Age, Shutdown, agent, wire, RetryCoversQueue
<1>7. CASE Exit \/ Crash
  BY <1>7 DEF Exit, Crash, Gone, RetryCoversQueue
<1>8. CASE Start
  BY <1>8, <1>t DEF Start, wire, LoadedFirst, RetryCoversQueue
<1>9. CASE Break
  BY <1>9 DEF Break, RetryCoversQueue
<1>10. CASE Ingest \/ IngestFails
  BY <1>10 DEF Ingest, IngestFails, agent, RetryCoversQueue
<1>11. ASSUME NEW k \in Event, Purge(k) PROVE RetryCoversQueue'
  BY <1>11 DEF Purge, agent, wire, RetryCoversQueue
<1>12. CASE UNCHANGED vars
  BY <1>12 DEF vars, agent, wire, RetryCoversQueue
<1> QED BY <1>2, <1>3, <1>4, <1>5, <1>6, <1>7, <1>8, <1>9, <1>10, <1>11, <1>12 DEF Next

(* Whatever a connected agent still holds is offered again by a timer.     *)
THEOREM RetryAlwaysArmed == Spec => []RetryCoversQueue
<1>1. Init => RetryCoversQueue
  BY DEF Init, RetryCoversQueue
<1> QED BY <1>1, RetryStep, WireCorrect, PTL DEF Spec

-----------------------------------------------------------------------------
(* Sets of entries are finite, and parts of a short one are short.         *)
LEMMA EntrySets ==
  ASSUME NEW S, S \subseteq Event
  PROVE  /\ IsFiniteSet(S) /\ Cardinality(S) \in Nat /\ S \subseteq Nat
         /\ \A T \in SUBSET S : Cardinality(T) <= Cardinality(S) /\ Cardinality(T) \in Nat
<1>1. IsFiniteSet(Event)
  BY FS_Interval, AckAssumption DEF Event
<1>2. IsFiniteSet(S)
  BY <1>1, FS_Subset
<1>3. S \subseteq Nat
  BY AckAssumption DEF Event
<1>4. ASSUME NEW T \in SUBSET S
      PROVE  Cardinality(T) <= Cardinality(S) /\ Cardinality(T) \in Nat
  BY <1>2, FS_Subset, FS_CardinalityType
<1> QED BY <1>2, <1>3, <1>4, FS_CardinalityType

(* Cutting down what is short enough changes nothing.                      *)
LEMMA NewestOfShort ==
  ASSUME NEW S, S \subseteq Event, Cardinality(S) <= MaxItems
  PROVE  Newest(S) = S
<1> SUFFICES ASSUME NEW e \in S PROVE Cardinality({f \in S : f > e}) < MaxItems
  BY DEF Newest
<1> DEFINE Above == {f \in S : f > e}
<1>1. IsFiniteSet(S) /\ Cardinality(S) \in Nat /\ S \subseteq Nat
  BY EntrySets
<1>2. Above \subseteq S \ {e}
  BY <1>1
<1>3. IsFiniteSet(S \ {e}) /\ Cardinality(S \ {e}) = Cardinality(S) - 1
  BY <1>1, FS_RemoveElement, Zenon
<1> HIDE DEF Above
<1>4. Cardinality(Above) <= Cardinality(S \ {e}) /\ Cardinality(Above) \in Nat
  BY <1>2, <1>3, FS_Subset, FS_CardinalityType
<1> DEFINE a == Cardinality(Above)
           b == Cardinality(S \ {e})
           c == Cardinality(S)
<1>5. a <= b /\ b = c - 1 /\ c \in Nat /\ a \in Nat /\ c <= MaxItems /\ MaxItems \in Nat
  BY <1>1, <1>3, <1>4, AckAssumption
<1>6. a < MaxItems
  <2> HIDE DEF a, b, c
  <2> QED BY <1>5
<1> QED BY <1>6 DEF Above

(* Reading the file keeps a file of the right length as it is.             *)
LEMMA LoadedBounded ==
  ASSUME TypeOK, QueueBounded
  PROVE  /\ Cardinality(Loaded) <= MaxItems
         /\ Loaded = IF loaded THEN entries ELSE Fresh(file)
         /\ \A T \in SUBSET Loaded : Cardinality(T) <= MaxItems
<1>1. Loaded \subseteq Event /\ file \subseteq Event /\ Fresh(file) \subseteq file
  BY HeldEmitted, LoadedHeld DEF TypeOK
<1>2. Cardinality(Fresh(file)) <= MaxItems
  <2>1. Cardinality(Fresh(file)) <= Cardinality(file)
    BY <1>1, EntrySets
  <2>2. Cardinality(Fresh(file)) \in Nat /\ Cardinality(file) \in Nat
    BY <1>1, EntrySets
  <2> QED BY <2>1, <2>2, AckAssumption DEF QueueBounded
<1>3. Newest(Fresh(file)) = Fresh(file)
  BY <1>1, <1>2, NewestOfShort
<1>4. Cardinality(Loaded) <= MaxItems
  BY <1>2, <1>3 DEF Loaded, QueueBounded
<1>5. ASSUME NEW T \in SUBSET Loaded PROVE Cardinality(T) <= MaxItems
  <2>1. Cardinality(T) <= Cardinality(Loaded) /\ Cardinality(T) \in Nat
        /\ Cardinality(Loaded) \in Nat
    BY <1>1, EntrySets
  <2> QED BY <1>4, <2>1, AckAssumption
<1> QED BY <1>3, <1>4, <1>5 DEF Loaded

LEMMA BoundedStep == TypeOK /\ QueueBounded /\ [Next]_vars => QueueBounded'
<1> SUFFICES ASSUME TypeOK, QueueBounded, [Next]_vars PROVE QueueBounded'
  OBVIOUS
<1>1. CASE Push
  <2> DEFINE S == Loaded \cup {next}
  <2>1. S \subseteq Event
    BY <1>1, HeldEmitted, LoadedHeld DEF Push, Event, TypeOK
  <2>2. Newest(S) \subseteq S /\ Cardinality(Newest(S)) <= MaxItems
    BY <2>1, EntrySets, NewestBounded
  <2>3. Fresh(Newest(S)) \subseteq Newest(S) /\ Newest(S) \subseteq Event
    BY <2>1, <2>2, LoadedHeld
  <2>4. /\ Cardinality(Fresh(Newest(S))) <= Cardinality(Newest(S))
        /\ Cardinality(Fresh(Newest(S))) \in Nat /\ Cardinality(Newest(S)) \in Nat
    BY <2>3, EntrySets
  <2>5. entries' = Fresh(Newest(S)) /\ file' = file
    BY <1>1 DEF Push, Flush
  <2> HIDE DEF S
  <2> QED BY <2>2, <2>4, <2>5, AckAssumption DEF QueueBounded
<1>2. ASSUME NEW open, Offer(open), file' = file PROVE QueueBounded'
  <2>1. entries' \in SUBSET Loaded
    BY <1>2, LoadedHeld DEF Offer, Flush
  <2> QED BY <1>2, <2>1, LoadedBounded DEF QueueBounded
<1>3. CASE Retry \/ Connect
  BY <1>2, <1>3 DEF Retry, Connect
<1>4. CASE Acknowledge
  <2>1. entries' \in SUBSET Loaded /\ file' = file
    BY <1>4 DEF Acknowledge, Unacked
  <2> QED BY <2>1, LoadedBounded DEF QueueBounded
<1>5. ASSUME entries' = entries \/ entries' = {}, file' = file \/ file' = entries
      PROVE  QueueBounded'
  <2>1. Cardinality({}) <= MaxItems
    BY FS_EmptySet, AckAssumption
  <2> QED BY <1>5, <2>1 DEF QueueBounded
<1>6. CASE Write \/ Age \/ Start \/ Break
  BY <1>5, <1>6 DEF Write, Age, Start, Break, agent
<1>7. CASE Shutdown
  BY <1>5, <1>7 DEF Shutdown, PersistNow
<1>8. CASE Exit \/ Crash
  BY <1>5, <1>8 DEF Exit, Crash, Gone
<1>9. CASE Ingest \/ IngestFails
  BY <1>5, <1>9 DEF Ingest, IngestFails, agent
<1>10. ASSUME NEW k \in Event, Purge(k) PROVE QueueBounded'
  BY <1>5, <1>10 DEF Purge, agent
<1>11. CASE UNCHANGED vars
  BY <1>5, <1>11 DEF vars, agent
<1> QED BY <1>1, <1>3, <1>4, <1>6, <1>7, <1>8, <1>9, <1>10, <1>11 DEF Next

(* The queue and its file never hold more than maxItems entries.           *)
THEOREM Bounded == Spec => []QueueBounded
<1>1. Init => QueueBounded
  BY FS_EmptySet, AckAssumption DEF Init, QueueBounded
<1> QED BY <1>1, BoundedStep, TypeCorrect, PTL DEF Spec

-----------------------------------------------------------------------------
(* Memory and disk.  The file differs from the queue only while a write is *)
(* pending, after one that failed, or by what is too old to be sent.       *)
LEMMA DiskStep == WireInv /\ QueueBounded /\ DiskFollows /\ [Next]_vars => DiskFollows'
<1> SUFFICES ASSUME WireInv, QueueBounded, DiskFollows, [Next]_vars PROVE DiskFollows'
  OBVIOUS
<1>t. TypeOK /\ LoadedFirst
  BY DEF WireInv
<1>n. horizon \in Nat /\ entries \subseteq Nat \ {0} /\ file \subseteq Nat \ {0}
      /\ Loaded \subseteq Nat \ {0}
  <2>1. Event \subseteq Nat \ {0}
    BY AckAssumption DEF Event
  <2>2. entries \subseteq Emitted /\ file \subseteq Emitted /\ horizon \in Nat
    BY <1>t DEF TypeOK
  <2> QED BY <1>t, <2>1, <2>2, HeldEmitted, LoadedHeld
<1>f. ASSUME NEW S, S \subseteq Nat \ {0} PROVE Fresh(S) = S \ (1..horizon)
  <2>1. horizon \in Nat
    BY <1>n
  <2>2. ASSUME NEW e \in S PROVE e > horizon <=> e \notin 1..horizon
    BY <1>f, <2>1, <2>2
  <2> QED BY <2>2 DEF Fresh
<1>l. loaded \/ Loaded \ (1..horizon) = file \ (1..horizon)
  <2>1. loaded \/ Loaded = Fresh(file)
    BY <1>t, LoadedBounded
  <2>2. Fresh(file) = file \ (1..horizon)
    BY <1>f, <1>n
  <2> QED BY <2>1, <2>2
<1>1. CASE Push
  BY <1>1 DEF Push, DiskFollows
<1>2. ASSUME up, file' = file, stale' = stale, horizon' = horizon,
             \/ writePending'
             \/ ~writePending /\ entries' = Loaded
      PROVE  DiskFollows'
  BY <1>2, <1>l DEF DiskFollows, Loaded
<1>3. ASSUME NEW open, Offer(open), up, file' = file, stale' = stale, horizon' = horizon
      PROVE  DiskFollows'
  BY <1>2, <1>3, <1>t DEF Offer, Flush, TypeOK
<1>4. CASE Retry \/ Connect
  BY <1>3, <1>4 DEF Retry, Connect
<1>5. CASE Acknowledge
  BY <1>2, <1>5, <1>t DEF Acknowledge, TypeOK
<1>6. CASE Write
  <2>1. CASE file' = entries
    BY <1>6, <2>1 DEF Write, DiskFollows
  <2>2. CASE stale'
    BY <2>2 DEF DiskFollows
  <2> QED BY <1>6, <2>1, <2>2 DEF Write
<1>7. CASE Age
  <2>1. 1..horizon \subseteq 1..horizon'
    BY <1>7, <1>n DEF Age
  <2> QED BY <1>7, <2>1 DEF Age, agent, DiskFollows
<1>8. CASE Shutdown
  <2>1. CASE file' = PersistNow /\ stale' = (stale /\ ~loaded)
    BY <1>8, <2>1 DEF Shutdown, PersistNow, DiskFollows
  <2>2. CASE stale'
    BY <2>2 DEF DiskFollows
  <2> QED BY <1>8, <2>1, <2>2 DEF Shutdown
<1>9. CASE Exit \/ Crash
  BY <1>9 DEF Exit, Crash, Gone, DiskFollows
<1>10. CASE Start
  BY <1>10, <1>t DEF Start, DiskFollows, LoadedFirst
<1>11. CASE Break \/ Ingest \/ IngestFails
  BY <1>11 DEF Break, Ingest, IngestFails, agent, DiskFollows
<1>12. ASSUME NEW k \in Event, Purge(k) PROVE DiskFollows'
  BY <1>12 DEF Purge, agent, DiskFollows
<1>13. CASE UNCHANGED vars
  BY <1>13 DEF vars, agent, DiskFollows
<1> QED BY <1>1, <1>4, <1>5, <1>6, <1>7, <1>8, <1>9, <1>10, <1>11, <1>12, <1>13 DEF Next

(* A change of the queue is on disk unless a write of it is still due.     *)
THEOREM DiskNeverForgets == Spec => []DiskFollows
<1>1. Init => DiskFollows
  BY DEF Init, DiskFollows
<1> QED BY <1>1, DiskStep, WireCorrect, Bounded, PTL DEF Spec
=============================================================================
