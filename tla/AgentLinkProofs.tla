--------------------------- MODULE AgentLinkProofs ---------------------------
(***************************************************************************)
(* TypeOK and OneLoop of AgentLink for every bound, and what the server    *)
(* promises beside it: one session speaks for the agent. The agent's part  *)
(* is inductive once it says which socket is the one that is alive: the    *)
(* one wsInstance refers to, and while it dials, the one whose attempt is  *)
(* not settled, so that connect() joins it and never dials a second.       *)
(***************************************************************************)
EXTENDS AgentLink, FiniteSetTheorems, SequenceTheorems, WellFoundedInduction, TLAPS

USE DEF None

Loop ==
  /\ \A s \in Sockets : sock[s].agt = "open" => s = wsInstance
  /\ \A s \in Sockets : sock[s].agt = "dialing" => s = wsInstance /\ s = connecting
  /\ timer => wsInstance = None

\* A session that is authenticated and not being closed is the registered
\* one, and the registered one is not closed yet.
OneSession ==
  /\ \A s \in Sockets : sock[s].srv = "open" /\ sock[s].authed => registered = s
  /\ registered # None =>
       sock[registered].authed /\ sock[registered].srv \in {"open", "closing"}

\* AUTH is the first frame of a socket and the only one of its kind: it is
\* on its way until the server has authenticated the agent, and nothing that
\* comes before that is taken for it.
Greets(k) ==
  /\ k.srv = "none" => ~k.authed
  /\ k.agt \in {"none", "dialing"} => k.up = <<>> /\ ~k.authed
  /\ \A i \in 1 .. Len(k.up) : k.up[i].type = "AUTH" => i = 1 /\ ~k.authed
  /\ k.srv \in {"open", "closing"} /\ ~k.authed =>
       /\ k.agt = "open" /\ ~k.cut => k.up # <<>>
       /\ k.up # <<>> => k.up[1].type = "AUTH"

AuthFirst == \A s \in Sockets : Greets(sock[s])

Inv == TypeOK /\ Loop /\ OneSession /\ AuthFirst

Slots == [Sockets -> Socket]

-----------------------------------------------------------------------------
(* The sockets. *)

LEMMA LeastFree ==
  ASSUME NEW sk \in Slots, Free(sk) # {}
  PROVE  Slot(sk) \in Free(sk) /\ Slot(sk) \in Sockets
<1>1. Free(sk) \subseteq Nat /\ Free(sk) \subseteq Sockets
  BY SizesAssumption DEF Free, Sockets
<1>2. IsWellFoundedOn(OpToRel(<, Nat), Nat)
  BY NatLessThanWellFounded
<1>3. \E s \in Free(sk) : \A t \in Free(sk) : <<t, s>> \notin OpToRel(<, Nat)
  BY <1>1, <1>2, WFMin, Zenon
<1>4. PICK s \in Free(sk) : \A t \in Free(sk) : ~(t < s)
  BY <1>1, <1>3 DEF OpToRel
<1>5. \A t \in Free(sk) : s <= t
  BY <1>1, <1>4
<1> QED
  BY <1>1, <1>5 DEF Slot

\* A step that changes one socket.
LEMMA ChangesOne ==
  ASSUME NEW sk \in Slots, NEW s \in Sockets, NEW new \in Socket
  PROVE  /\ [sk EXCEPT ![s] = new] \in Slots
         /\ [sk EXCEPT ![s] = new][s] = new
         /\ \A t \in Sockets : t # s => [sk EXCEPT ![s] = new][t] = sk[t]
BY DEF Slots

\* connect() takes a slot that both ends have left.
LEMMA DialTakesFree ==
  ASSUME NEW sk \in Slots, Free(sk) # {}
  PROVE  LET d == [sk EXCEPT ![Slot(sk)] = [Unused EXCEPT !.agt = "dialing"]] IN
         /\ Slot(sk) \in Sockets
         /\ d \in Slots
         /\ d[Slot(sk)].agt = "dialing" /\ d[Slot(sk)].srv = "none" /\ ~d[Slot(sk)].authed
         /\ sk[Slot(sk)].srv \in {"none", "closed"}
         /\ \A t \in Sockets : t # Slot(sk) => d[t] = sk[t]
<1> DEFINE new == [Unused EXCEPT !.agt = "dialing"]
<1>1. /\ new \in Socket
      /\ new.agt = "dialing" /\ new.srv = "none" /\ ~new.authed
  <2>1. <<>> \in Seq(Frames)
    BY EmptySeq
  <2> QED
    BY <2>1 DEF Unused, Socket
<1> HIDE DEF new
<1>2. Slot(sk) \in Sockets /\ sk[Slot(sk)].srv \in {"none", "closed"}
  BY LeastFree DEF Free
<1>3. /\ [sk EXCEPT ![Slot(sk)] = new] \in Slots
      /\ [sk EXCEPT ![Slot(sk)] = new][Slot(sk)] = new
      /\ \A t \in Sockets : t # Slot(sk) => [sk EXCEPT ![Slot(sk)] = new][t] = sk[t]
  BY <1>1, <1>2, ChangesOne
<1> QED
  BY <1>1, <1>2, <1>3 DEF new

\* What a step may do to one socket without the agent's connecting or the
\* server's registering: no end comes back to life, nobody is authenticated.
Calm(before, after) ==
  /\ after.agt = "dialing" => before.agt = "dialing"
  /\ after.agt = "open" => before.agt = "open"
  /\ after.authed = before.authed
  /\ before.authed /\ after.srv = "open" => before.srv = "open"
  /\ before.srv \in {"open", "closing"} => after.srv \in {"open", "closing"}
  /\ after.srv = "none" => before.srv = "none"

CalmOn(sk) == \A t \in Sockets : Calm(sock[t], sk[t])

LEMMA CalmKeeps ==
  ASSUME Loop, OneSession, registered \in Sockets \cup {None},
         CalmOn(sock'), UNCHANGED <<agentVars, registered>>
  PROVE  Loop' /\ OneSession'
<1>1. Loop'
  BY DEF Loop, CalmOn, Calm, agentVars
<1>2. OneSession'
  BY DEF OneSession, CalmOn, Calm
<1> QED
  BY <1>1, <1>2

LEMMA CalmOne ==
  ASSUME sock \in Slots, AuthFirst, NEW s \in Sockets, NEW new \in Socket,
         Calm(sock[s], new), Greets(new), NEW sk, sk = [sock EXCEPT ![s] = new]
  PROVE  sk \in Slots /\ CalmOn(sk) /\ \A t \in Sockets : Greets(sk[t])
<1>1. /\ sk \in Slots /\ sk[s] = new
      /\ \A t \in Sockets : t # s => sk[t] = sock[t]
  BY DEF Slots
<1>2. \A t \in Sockets : Calm(sock[t], sock[t])
  BY DEF Calm
<1> QED
  BY <1>1, <1>2 DEF CalmOn, AuthFirst

\* Where frames and authentication stay, and no end opens, AUTH is the first.
LEMMA GreetsStill ==
  ASSUME NEW k \in Socket, NEW new \in Socket, Greets(k),
         new.up = k.up, new.authed = k.authed, new.cut = k.cut,
         new.agt = k.agt \/ new.agt \notin {"none", "dialing", "open"},
         \/ new.srv = k.srv
         \/ new.srv = "closing" /\ k.srv = "open"
         \/ new.srv \notin {"none", "open", "closing"}
  PROVE  Greets(new)
BY DEF Greets

-----------------------------------------------------------------------------
(* Types. *)

\* TypeOK of everything but the sockets.
RestOK ==
  /\ wsInstance \in Sockets \cup {None} /\ connecting \in Sockets \cup {None}
  /\ timer \in BOOLEAN
  /\ status \in Versions /\ host \in Versions
  /\ owed \in BOOLEAN /\ lastSent \in Versions \cup {Unsent}
  /\ registered \in Sockets \cup {None}
  /\ live \in Versions \cup {Unsent} /\ stored \in Versions \cup {Unsent}
  /\ overtaken \subseteq {"AGENT_STATUS", "DOCKER_UPDATE"}
  /\ faults \in 0 .. MaxFaults

LEMMA TypeParts == TypeOK <=> sock \in Slots /\ RestOK
BY DEF TypeOK, RestOK, Slots

LEMMA HappensOnce ==
  ASSUME NEW kind, Happens(kind), faults \in 0 .. MaxFaults
  PROVE  faults' \in 0 .. MaxFaults
BY SizesAssumption DEF Happens

LEMMA QuietRest ==
  ASSUME RestOK, UNCHANGED <<agentVars, stateVars, serverVars>>, faults' \in 0 .. MaxFaults
  PROVE  RestOK'
BY DEF RestOK, agentVars, stateVars, serverVars

\* A quiet step: one socket, calmly, and perhaps a fault.
LEMMA Quiet ==
  ASSUME Inv, NEW s \in Sockets, NEW new \in Socket, Calm(sock[s], new),
         Greets(new), sock' = [sock EXCEPT ![s] = new],
         UNCHANGED <<agentVars, stateVars, serverVars>>, faults' \in 0 .. MaxFaults
  PROVE  Inv'
<1>1. sock \in Slots /\ RestOK /\ Loop /\ OneSession /\ AuthFirst
  BY TypeParts DEF Inv
<1>2. sock' \in Slots /\ CalmOn(sock') /\ AuthFirst'
  BY <1>1, CalmOne DEF AuthFirst
<1>3. RestOK'
  BY <1>1, QuietRest
<1>4. Loop' /\ OneSession'
  BY <1>1, <1>2, CalmKeeps DEF serverVars, RestOK
<1>5. TypeOK'
  BY <1>2, <1>3 DEF TypeOK, RestOK, Slots
<1> QED
  BY <1>2, <1>4, <1>5 DEF Inv

LEMMA DiallingStep ==
  ASSUME Inv, NEW s \in Sockets, Accept(s) \/ Reject(s) \/ DialFails(s)
  PROVE  Inv'
<1>0. Greets(sock[s])
  BY DEF Inv, AuthFirst
<1>1. sock \in Slots /\ sock[s] \in Socket /\ faults \in 0 .. MaxFaults
  BY DEF Inv, TypeOK, Slots
<1>2. CASE Accept(s)
  <2> DEFINE new == [sock[s] EXCEPT !.srv = "open"]
  <2>1. new \in Socket
    BY <1>1 DEF Socket
  <2>2. Calm(sock[s], new)
    BY <1>1, <1>2 DEF Calm, Accept, Inv, AuthFirst, Greets, Socket
  <2>5. Greets(new)
    BY <1>1, <1>2 DEF Accept, Inv, AuthFirst, Greets, Socket
  <2>3. sock' = [sock EXCEPT ![s] = new]
    BY <1>2 DEF Accept
  <2> HIDE DEF new
  <2> QED
    BY <1>1, <1>2, <2>1, <2>2, <2>3, <2>5, Quiet DEF Accept
<1>3. CASE Reject(s)
  <2> DEFINE new == [sock[s] EXCEPT !.srv = "rejecting"]
  <2>1. new \in Socket
    BY <1>1 DEF Socket
  <2>2. Calm(sock[s], new)
    BY <1>1, <1>3 DEF Calm, Reject, Socket
  <2>5. Greets(new)
    BY <1>0, <1>1, <2>1, GreetsStill DEF Socket
  <2>3. sock' = [sock EXCEPT ![s] = new]
    BY <1>3 DEF Reject
  <2>4. faults' \in 0 .. MaxFaults
    BY <1>1, <1>3, HappensOnce DEF Reject
  <2> HIDE DEF new
  <2> QED
    BY <1>3, <2>1, <2>2, <2>3, <2>4, <2>5, Quiet DEF Reject
<1>4. CASE DialFails(s)
  <2> DEFINE new == [sock[s] EXCEPT !.agt = "dead"]
  <2>1. new \in Socket
    BY <1>1 DEF Socket
  <2>2. Calm(sock[s], new)
    BY <1>1 DEF Calm, Socket
  <2>5. Greets(new)
    BY <1>0, <1>1, <2>1, GreetsStill DEF Socket
  <2>3. sock' = [sock EXCEPT ![s] = new]
    BY <1>4 DEF DialFails
  <2>4. faults' \in 0 .. MaxFaults
    BY <1>1, <1>4, HappensOnce DEF DialFails
  <2> HIDE DEF new
  <2> QED
    BY <1>4, <2>1, <2>2, <2>3, <2>4, <2>5, Quiet DEF DialFails
<1> QED
  BY <1>2, <1>3, <1>4

LEMMA AgentEndStep ==
  ASSUME Inv, NEW s \in Sockets, PeerCloses(s) \/ Heartbeat(s)
  PROVE  Inv'
<1>0. Greets(sock[s])
  BY DEF Inv, AuthFirst
<1>1. sock \in Slots /\ sock[s] \in Socket /\ faults \in 0 .. MaxFaults
  BY DEF Inv, TypeOK, Slots
<1>2. CASE PeerCloses(s)
  <2> DEFINE new == [sock[s] EXCEPT !.agt = "closing"]
  <2>1. new \in Socket
    BY <1>1 DEF Socket
  <2>2. Calm(sock[s], new)
    BY <1>1 DEF Calm, Socket
  <2>5. Greets(new)
    BY <1>0, <1>1, <2>1, GreetsStill DEF Socket
  <2>3. sock' = [sock EXCEPT ![s] = new]
    BY <1>2 DEF PeerCloses
  <2> HIDE DEF new
  <2> QED
    BY <1>1, <1>2, <2>1, <2>2, <2>3, <2>5, Quiet DEF PeerCloses
<1>3. CASE Heartbeat(s)
  <2> DEFINE new == [sock[s] EXCEPT !.agt = "dead"]
  <2>1. new \in Socket
    BY <1>1 DEF Socket
  <2>2. Calm(sock[s], new)
    BY <1>1 DEF Calm, Socket
  <2>5. Greets(new)
    BY <1>0, <1>1, <2>1, GreetsStill DEF Socket
  <2>3. sock' = [sock EXCEPT ![s] = new]
    BY <1>3 DEF Heartbeat
  <2>4. faults' \in 0 .. MaxFaults
    BY <1>1, <1>3, HappensOnce DEF Heartbeat
  <2> HIDE DEF new
  <2> QED
    BY <1>3, <2>1, <2>2, <2>3, <2>4, <2>5, Quiet DEF Heartbeat
<1> QED
  BY <1>2, <1>3

LEMMA ServerEndStep ==
  ASSUME Inv, NEW s \in Sockets, AuthTimeout(s) \/ CutLink(s)
  PROVE  Inv'
<1>0. Greets(sock[s])
  BY DEF Inv, AuthFirst
<1>1. sock \in Slots /\ sock[s] \in Socket /\ faults \in 0 .. MaxFaults
  BY DEF Inv, TypeOK, Slots
<1>2. CASE AuthTimeout(s)
  <2> DEFINE new == [sock[s] EXCEPT !.srv = "closing"]
  <2>1. new \in Socket
    BY <1>1 DEF Socket
  <2>2. Calm(sock[s], new)
    BY <1>1, <1>2 DEF Calm, Socket, AuthTimeout
  <2>5. Greets(new)
    BY <1>0, <1>1, <2>1, GreetsStill, <1>2 DEF Socket, AuthTimeout
  <2>3. sock' = [sock EXCEPT ![s] = new]
    BY <1>2 DEF AuthTimeout
  <2>4. faults' \in 0 .. MaxFaults
    BY <1>1, <1>2, HappensOnce DEF AuthTimeout
  <2> HIDE DEF new
  <2> QED
    BY <1>2, <2>1, <2>2, <2>3, <2>4, <2>5, Quiet DEF AuthTimeout
<1>3. CASE CutLink(s)
  <2> DEFINE new == [sock[s] EXCEPT !.cut = TRUE, !.up = <<>>, !.welcome = FALSE]
  <2>1. new \in Socket
    <3>1. <<>> \in Seq(Frames)
      BY EmptySeq
    <3> QED
      BY <1>1, <3>1 DEF Socket
  <2>2. Calm(sock[s], new)
    BY <1>1 DEF Calm, Socket
  <2>5. Greets(new)
    BY <1>0, <1>1 DEF Greets, Socket
  <2>3. sock' = [sock EXCEPT ![s] = new]
    BY <1>3 DEF CutLink
  <2>4. faults' \in 0 .. MaxFaults
    BY <1>1, <1>3, HappensOnce DEF CutLink
  <2> HIDE DEF new
  <2> QED
    BY <1>3, <2>1, <2>2, <2>3, <2>4, <2>5, Quiet DEF CutLink
<1> QED
  BY <1>2, <1>3

\* The frame leaves the socket, and the server keeps what it says.
LEMMA FrameStep ==
  ASSUME Inv, NEW s \in Sockets, ServerFrame(s)
  PROVE  Inv'
<1> DEFINE new == [sock[s] EXCEPT !.up = Tail(sock[s].up)]
           frame == Head(sock[s].up)
<1>1. sock \in Slots /\ RestOK /\ Loop /\ OneSession /\ AuthFirst
  BY TypeParts DEF Inv
<1>2. sock[s] \in Socket /\ sock[s].up \in Seq(Frames) /\ sock[s].up # <<>>
  BY <1>1 DEF Slots, Socket, ServerFrame, Receives
<1>3. frame \in Frames /\ Tail(sock[s].up) \in Seq(Frames)
  BY <1>2, HeadTailProperties
<1>4. new \in Socket
  BY <1>2, <1>3 DEF Socket
<1>5. Calm(sock[s], new)
  BY <1>2 DEF Calm, Socket
<1>6. sock' = [sock EXCEPT ![s] = new]
  BY DEF ServerFrame
<1>7. frame.type \in {"AUTH", "AGENT_STATUS", "DOCKER_UPDATE"} /\ frame.version \in Versions
  BY <1>3 DEF Frames
<1>a. Greets(new) /\ frame.type # "AUTH"
  <2>1. Greets(sock[s]) /\ sock[s].authed /\ sock[s].authed \in BOOLEAN
    BY <1>1, <1>2 DEF AuthFirst, ServerFrame, Socket
  <2>2. Len(sock[s].up) \in Nat \ {0} /\ frame = sock[s].up[1]
    BY <1>2
  <2>3. \A i \in 1 .. Len(sock[s].up) : sock[s].up[i].type # "AUTH"
    BY <2>1 DEF Greets
  <2>4. \A i \in 1 .. Len(Tail(sock[s].up)) : Tail(sock[s].up)[i].type # "AUTH"
    BY <1>2, <2>2, <2>3
  <2>5. new.up = Tail(sock[s].up) /\ new.authed = sock[s].authed
          /\ new.srv = sock[s].srv /\ new.agt = sock[s].agt
    BY <1>2 DEF Socket
  <2> QED
    BY <1>2, <2>1, <2>2, <2>3, <2>4, <2>5 DEF Greets
<1>8. sock' \in Slots /\ CalmOn(sock') /\ AuthFirst'
  <2> HIDE DEF new
  <2> QED
    BY <1>1, <1>4, <1>5, <1>6, <1>a, CalmOne DEF AuthFirst
<1>9. Loop' /\ OneSession'
  BY <1>1, <1>8, CalmKeeps DEF ServerFrame, RestOK
<1>10. RestOK'
  <2>1. live' \in Versions \cup {Unsent} /\ stored' \in Versions \cup {Unsent}
    BY <1>1, <1>7 DEF ServerFrame, RestOK
  <2>2. overtaken' \subseteq {"AGENT_STATUS", "DOCKER_UPDATE"}
    BY <1>1, <1>7, <1>a DEF ServerFrame, RestOK
  <2> QED
    BY <1>1, <2>1, <2>2 DEF ServerFrame, RestOK, agentVars, stateVars
<1> QED
  BY <1>8, <1>9, <1>10, TypeParts DEF Inv, TypeOK, RestOK, Slots

-----------------------------------------------------------------------------
(* What the agent sends. *)

\* The ends of every socket are as they were.
SameEnds(before, after) ==
  /\ after.agt = before.agt /\ after.srv = before.srv
  /\ after.authed = before.authed

LEMMA SentKeeps ==
  ASSUME NEW sk \in Slots, NEW ws \in Sockets \cup {None},
         NEW frame \in Frames, frame.type # "AUTH",
         \A t \in Sockets : Greets(sk[t])
  PROVE  /\ Sent(sk, ws, frame) \in Slots
         /\ \A t \in Sockets : /\ SameEnds(sk[t], Sent(sk, ws, frame)[t])
                               /\ Greets(Sent(sk, ws, frame)[t])
<1>1. CASE Goes(sk, ws) /\ ~sk[ws].cut
  <2> DEFINE new == [sk[ws] EXCEPT !.up = Append(sk[ws].up, frame)]
  <2>1. ws \in Sockets /\ sk[ws].agt = "open" /\ ~sk[ws].cut
    BY <1>1 DEF Goes
  <2>2. sk[ws] \in Socket /\ sk[ws].up \in Seq(Frames)
    BY <2>1 DEF Slots, Socket
  <2>3. /\ Append(sk[ws].up, frame) \in Seq(Frames)
        /\ Len(Append(sk[ws].up, frame)) = Len(sk[ws].up) + 1
        /\ \A i \in 1 .. Len(sk[ws].up) : Append(sk[ws].up, frame)[i] = sk[ws].up[i]
        /\ Append(sk[ws].up, frame)[Len(sk[ws].up) + 1] = frame
    BY <2>2, AppendProperties
  <2>4. /\ new \in Socket /\ new.up = Append(sk[ws].up, frame)
        /\ new.agt = sk[ws].agt /\ new.srv = sk[ws].srv /\ new.authed = sk[ws].authed
        /\ new.cut = sk[ws].cut
    BY <2>2, <2>3 DEF Socket
  <2>5. Sent(sk, ws, frame) = [sk EXCEPT ![ws] = new]
    BY <1>1 DEF Sent
  <2>6. Len(sk[ws].up) \in Nat /\ (sk[ws].up # <<>> => Len(sk[ws].up) # 0)
    BY <2>2
  <2>7. Greets(sk[ws])
    BY <2>1
  <2> HIDE DEF new
  <2>8. \A i \in 1 .. Len(new.up) : new.up[i].type = "AUTH" => i = 1 /\ ~new.authed
    BY <2>3, <2>4, <2>6, <2>7 DEF Greets
  <2>9. new.up # <<>>
    BY <2>3, <2>4, <2>6
  <2>10. Greets(new)
    BY <2>1, <2>3, <2>4, <2>6, <2>7, <2>8, <2>9 DEF Greets
  <2>11. /\ [sk EXCEPT ![ws] = new] \in Slots
         /\ [sk EXCEPT ![ws] = new][ws] = new
         /\ \A t \in Sockets : t # ws => [sk EXCEPT ![ws] = new][t] = sk[t]
    BY <2>1, <2>4, ChangesOne
  <2> QED
    BY <2>4, <2>5, <2>10, <2>11 DEF SameEnds
<1>2. CASE ~(Goes(sk, ws) /\ ~sk[ws].cut)
  BY <1>2 DEF Sent, SameEnds
<1> QED
  BY <1>1, <1>2

\* Nothing that is sent after AUTH is AUTH.
LEMMA StateFrames ==
  ASSUME NEW v \in Versions
  PROVE  /\ Status(v) \in Frames /\ Status(v).type # "AUTH"
         /\ State(v) \in Frames /\ State(v).type # "AUTH"
BY DEF Status, State, Frames

LEMMA OfferKeeps ==
  ASSUME NEW sk \in Slots, NEW ws \in Sockets \cup {None}, NEW v \in Versions,
         NEW last \in Versions \cup {Unsent}, Offer(sk, ws, last, v),
         \A t \in Sockets : Greets(sk[t])
  PROVE  /\ sock' \in Slots /\ lastSent' \in Versions \cup {Unsent}
         /\ AuthFirst'
         /\ \A t \in Sockets : SameEnds(sk[t], sock'[t])
<1>1. CASE last = v
  BY <1>1 DEF Offer, SameEnds, AuthFirst
<1>2. CASE last # v
  <2>1. sock' = Sent(sk, ws, Status(v)) /\ lastSent' \in Versions \cup {Unsent}
    BY <1>2 DEF Offer
  <2>2. Status(v) \in Frames /\ Status(v).type # "AUTH"
    BY StateFrames
  <2>3. /\ Sent(sk, ws, Status(v)) \in Slots
        /\ \A t \in Sockets : /\ SameEnds(sk[t], Sent(sk, ws, Status(v))[t])
                              /\ Greets(Sent(sk, ws, Status(v))[t])
    BY <2>2, SentKeeps
  <2> QED
    BY <2>1, <2>3 DEF AuthFirst
<1> QED
  BY <1>1, <1>2

LEMMA SameIsCalm ==
  ASSUME NEW k, NEW new, SameEnds(k, new)
  PROVE  Calm(k, new)
BY DEF SameEnds, Calm

LEMMA ReporterStep ==
  ASSUME Inv, StatusChanges \/ HostChanges \/ ReadEnds
  PROVE  Inv'
<1>1. sock \in Slots /\ RestOK /\ Loop /\ OneSession /\ AuthFirst
  BY TypeParts DEF Inv
<1>2. \A t \in Sockets : Greets(sock[t])
  BY <1>1 DEF AuthFirst
<1>3. /\ wsInstance \in Sockets \cup {None} /\ host \in Versions
      /\ lastSent \in Versions \cup {Unsent} /\ registered \in Sockets \cup {None}
  BY <1>1 DEF RestOK
<1>a. ASSUME sock' \in Slots, \A t \in Sockets : SameEnds(sock[t], sock'[t]), AuthFirst',
             UNCHANGED <<agentVars, serverVars>>, RestOK'
      PROVE  Inv'
  <2>1. CalmOn(sock')
    BY <1>a, SameIsCalm DEF CalmOn
  <2>2. Loop' /\ OneSession'
    BY <1>1, <1>3, <1>a, <2>1, CalmKeeps DEF serverVars
  <2>3. TypeOK'
    BY <1>a DEF TypeOK, RestOK, Slots
  <2> QED
    BY <1>a, <2>2, <2>3 DEF Inv
<1>4. CASE StatusChanges
  <2>1. status' \in Versions
    BY <1>1, <1>4, SizesAssumption DEF StatusChanges, RestOK, Versions
  <2>2. /\ sock' \in Slots /\ lastSent' \in Versions \cup {Unsent} /\ AuthFirst'
        /\ \A t \in Sockets : SameEnds(sock[t], sock'[t])
    <3>1. Offer(sock, wsInstance, lastSent, status')
      BY <1>4 DEF StatusChanges
    <3> QED
      BY <1>1, <1>2, <1>3, <2>1, <3>1, OfferKeeps
  <2>3. UNCHANGED <<agentVars, host, owed, serverVars, faults>>
    BY <1>4 DEF StatusChanges
  <2>4. RestOK'
    BY <1>1, <2>1, <2>2, <2>3 DEF RestOK, agentVars, serverVars
  <2> QED
    BY <1>a, <2>2, <2>3, <2>4
<1>5. CASE HostChanges
  <2>1. host' \in Versions /\ owed' \in BOOLEAN
    BY <1>1, <1>5, SizesAssumption DEF HostChanges, RestOK, Versions
  <2>2. UNCHANGED <<sock, agentVars, status, lastSent, serverVars, faults>>
    BY <1>5 DEF HostChanges
  <2>3. RestOK'
    BY <1>1, <2>1, <2>2 DEF RestOK, agentVars, serverVars
  <2>4. AuthFirst' /\ \A t \in Sockets : SameEnds(sock[t], sock'[t])
    BY <1>1, <2>2 DEF AuthFirst, SameEnds
  <2> QED
    BY <1>1, <1>a, <2>2, <2>3, <2>4
<1>6. CASE ReadEnds
  <2>1. sock' = Sent(sock, wsInstance, State(host))
    BY <1>6 DEF ReadEnds
  <2>2. State(host) \in Frames /\ State(host).type # "AUTH"
    BY <1>3, StateFrames
  <2>3. sock' \in Slots /\ AuthFirst' /\ \A t \in Sockets : SameEnds(sock[t], sock'[t])
    <3>1. /\ Sent(sock, wsInstance, State(host)) \in Slots
          /\ \A t \in Sockets : /\ SameEnds(sock[t], Sent(sock, wsInstance, State(host))[t])
                                /\ Greets(Sent(sock, wsInstance, State(host))[t])
      BY <1>1, <1>2, <1>3, <2>2, SentKeeps
    <3> QED
      BY <2>1, <3>1 DEF AuthFirst
  <2>4. UNCHANGED <<agentVars, status, host, lastSent, serverVars, faults>> /\ owed' = FALSE
    BY <1>6 DEF ReadEnds
  <2>5. RestOK'
    BY <1>1, <2>4 DEF RestOK, agentVars, serverVars
  <2> QED
    BY <1>a, <2>3, <2>4, <2>5
<1> QED
  BY <1>4, <1>5, <1>6

\* AUTH_SUCCESS settles the attempt of a socket that does not dial any more.
LEMMA WelcomeStep ==
  ASSUME Inv, NEW s \in Sockets, Welcome(s)
  PROVE  Inv'
<1> DEFINE new == [sock[s] EXCEPT !.welcome = FALSE]
           sk == [sock EXCEPT ![s] = new]
<1>1. sock \in Slots /\ RestOK /\ Loop /\ OneSession /\ AuthFirst
  BY TypeParts DEF Inv
<1>2. /\ wsInstance \in Sockets \cup {None} /\ status \in Versions
      /\ registered \in Sockets \cup {None} /\ connecting \in Sockets \cup {None}
  BY <1>1 DEF RestOK
<1>3. sock[s] \in Socket /\ Greets(sock[s]) /\ sock[s].agt \in {"open", "closing"}
  BY <1>1 DEF Slots, AuthFirst, Welcome
<1>4. new \in Socket /\ SameEnds(sock[s], new)
        /\ new.up = sock[s].up /\ new.cut = sock[s].cut
  BY <1>3 DEF Socket, SameEnds
<1>5. Greets(new)
  BY <1>3, <1>4, GreetsStill DEF SameEnds
<1>6. Offer(sk, wsInstance, Unsent, status)
  BY DEF Welcome
<1> HIDE DEF new
<1>7. /\ sk \in Slots /\ sk[s] = new
      /\ \A t \in Sockets : t # s => sk[t] = sock[t]
  BY <1>1, <1>4, ChangesOne
<1> HIDE DEF sk
<1>8. \A t \in Sockets : Greets(sk[t]) /\ SameEnds(sock[t], sk[t])
  BY <1>1, <1>4, <1>5, <1>7 DEF AuthFirst, SameEnds
<1>9. /\ sock' \in Slots /\ lastSent' \in Versions \cup {Unsent} /\ AuthFirst'
      /\ \A t \in Sockets : SameEnds(sk[t], sock'[t])
  BY <1>2, <1>6, <1>7, <1>8, OfferKeeps
<1>10. \A t \in Sockets : SameEnds(sock[t], sock'[t])
  BY <1>8, <1>9 DEF SameEnds
<1>11. /\ connecting' = IF connecting = s THEN None ELSE connecting
       /\ owed' = TRUE
       /\ UNCHANGED <<wsInstance, timer, status, host, serverVars, faults>>
  BY DEF Welcome
<1>12. Loop'
  BY <1>1, <1>3, <1>10, <1>11 DEF Loop, SameEnds
<1>13. OneSession'
  BY <1>1, <1>2, <1>10, <1>11 DEF OneSession, SameEnds, serverVars
<1>14. RestOK'
  BY <1>1, <1>2, <1>9, <1>11 DEF RestOK, serverVars
<1> QED
  BY <1>9, <1>12, <1>13, <1>14 DEF Inv, TypeOK, RestOK, Slots

-----------------------------------------------------------------------------
(* Connecting. *)

\* connect() from sockets of which at most ws is alive: it joins the attempt
\* under way or finds the socket open, and dials only when nothing is alive.
LEMMA ConnectKeeps ==
  ASSUME NEW sk \in Slots, \A t \in Sockets : Greets(sk[t]), CalmOn(sk),
         NEW ws \in Sockets \cup {None}, NEW pending \in Sockets \cup {None},
         \A t \in Sockets : sk[t].agt = "open" => t = ws,
         \A t \in Sockets : sk[t].agt = "dialing" => t = ws /\ t = pending,
         pending # None \/ ws # None => wsInstance = ws /\ connecting = pending,
         timer \in BOOLEAN, timer => wsInstance = None,
         ConnectFrom(sk, ws, pending),
         OneSession, registered \in Sockets \cup {None}, registered' = registered
  PROVE  /\ sock' \in Slots /\ AuthFirst' /\ Loop' /\ OneSession'
         /\ wsInstance' \in Sockets \cup {None} /\ connecting' \in Sockets \cup {None}
         /\ timer' \in BOOLEAN
<1>1. CASE pending # None
  <2>1. /\ sock' = sk /\ wsInstance' = ws /\ connecting' = pending /\ timer' = timer
        /\ wsInstance = ws
    BY <1>1 DEF ConnectFrom
  <2>2. Loop'
    BY <2>1 DEF Loop
  <2>3. OneSession'
    BY <2>1 DEF OneSession, CalmOn, Calm
  <2> QED
    BY <2>1, <2>2, <2>3 DEF AuthFirst
<1>2. CASE pending = None /\ ws # None /\ sk[ws].agt = "open"
  <2>1. /\ sock' = sk /\ wsInstance' = ws /\ connecting' = pending /\ timer' = FALSE
    BY <1>2 DEF ConnectFrom
  <2>2. Loop'
    BY <2>1 DEF Loop
  <2>3. OneSession'
    BY <2>1 DEF OneSession, CalmOn, Calm
  <2> QED
    BY <2>1, <2>2, <2>3 DEF AuthFirst
<1>3. CASE pending = None /\ ~(ws # None /\ sk[ws].agt = "open")
  <2> DEFINE n == Slot(sk)
             d == [sk EXCEPT ![n] = [Unused EXCEPT !.agt = "dialing"]]
  <2>1. /\ sock' = d /\ wsInstance' = n /\ connecting' = n /\ timer' = FALSE
        /\ Free(sk) # {}
    BY <1>3 DEF ConnectFrom
  <2>2. \A t \in Sockets : sk[t].agt \notin {"dialing", "open"}
    BY <1>3 DEF Sockets
  <2>3. /\ n \in Sockets /\ d \in Slots
        /\ d[n].agt = "dialing" /\ d[n].srv = "none" /\ ~d[n].authed
        /\ sk[n].srv \in {"none", "closed"}
        /\ \A t \in Sockets : t # n => d[t] = sk[t]
    BY <2>1, DialTakesFree
  <2>4. Greets(d[n])
    <3>1. d[n] = [Unused EXCEPT !.agt = "dialing"]
      BY <2>3 DEF Slots
    <3>2. d[n].up = <<>> /\ Len(<<>>) = 0
      BY <3>1 DEF Unused
    <3> HIDE DEF d
    <3> QED
      BY <2>3, <3>2 DEF Greets
  <2> HIDE DEF d, n
  <2>5. Loop'
    BY <2>1, <2>2, <2>3 DEF Loop
  <2>6. registered # n
    BY <2>3 DEF OneSession, CalmOn, Calm, Sockets
  <2>7. OneSession'
    BY <2>1, <2>3, <2>6 DEF OneSession, CalmOn, Calm
  <2>8. AuthFirst'
    BY <2>1, <2>3, <2>4 DEF AuthFirst
  <2> QED
    BY <2>1, <2>3, <2>5, <2>7, <2>8
<1> QED
  BY <1>1, <1>2, <1>3

LEMMA ConnectStep ==
  ASSUME Inv, TimerFires \/ ManualConnect
  PROVE  Inv'
<1>1. sock \in Slots /\ RestOK /\ Loop /\ OneSession /\ AuthFirst
  BY TypeParts DEF Inv
<1>2. /\ ConnectFrom(sock, wsInstance, connecting)
      /\ UNCHANGED <<stateVars, serverVars>>
  BY DEF TimerFires, ManualConnect
<1>3. CalmOn(sock) /\ \A t \in Sockets : Greets(sock[t])
  BY <1>1 DEF CalmOn, Calm, AuthFirst
<1>4. /\ wsInstance \in Sockets \cup {None} /\ connecting \in Sockets \cup {None}
      /\ registered \in Sockets \cup {None} /\ registered' = registered
      /\ timer \in BOOLEAN /\ faults \in 0 .. MaxFaults
  BY <1>1, <1>2 DEF RestOK, serverVars
<1>5. /\ \A t \in Sockets : sock[t].agt = "open" => t = wsInstance
      /\ \A t \in Sockets : sock[t].agt = "dialing" => t = wsInstance /\ t = connecting
      /\ timer => wsInstance = None
  BY <1>1 DEF Loop
<1>6. /\ sock' \in Slots /\ AuthFirst' /\ Loop' /\ OneSession'
      /\ wsInstance' \in Sockets \cup {None} /\ connecting' \in Sockets \cup {None}
      /\ timer' \in BOOLEAN
  BY <1>1, <1>2, <1>3, <1>4, <1>5, ConnectKeeps
<1>7. faults' \in 0 .. MaxFaults
  BY <1>4, HappensOnce DEF TimerFires, ManualConnect
<1>8. RestOK'
  BY <1>1, <1>2, <1>6, <1>7 DEF RestOK, stateVars, serverVars
<1> QED
  BY <1>6, <1>8 DEF Inv, TypeOK, RestOK, Slots

LEMMA AgentRestartStep ==
  ASSUME Inv, AgentRestarts
  PROVE  Inv'
<1> DEFINE gone == [s \in Sockets |->
                      IF sock[s].agt = "none" THEN sock[s]
                      ELSE [sock[s] EXCEPT !.agt = "closed", !.welcome = FALSE]]
<1>1. sock \in Slots /\ RestOK /\ Loop /\ OneSession /\ AuthFirst
  BY TypeParts DEF Inv
<1>2. ASSUME NEW t \in Sockets
      PROVE  /\ gone[t] \in Socket /\ Greets(gone[t]) /\ Calm(sock[t], gone[t])
             /\ gone[t].agt \notin {"dialing", "open"}
  <2>1. sock[t] \in Socket /\ Greets(sock[t])
    BY <1>1 DEF Slots, AuthFirst
  <2>2. CASE sock[t].agt = "none"
    BY <2>1, <2>2 DEF Calm
  <2>3. CASE sock[t].agt # "none"
    <3> DEFINE new == [sock[t] EXCEPT !.agt = "closed", !.welcome = FALSE]
    <3>1. gone[t] = new
      BY <2>3
    <3>2. /\ new \in Socket /\ new.up = sock[t].up /\ new.authed = sock[t].authed
          /\ new.cut = sock[t].cut /\ new.srv = sock[t].srv /\ new.agt = "closed"
      BY <2>1 DEF Socket
    <3> HIDE DEF new
    <3>3. Greets(new)
      BY <2>1, <3>2, GreetsStill
    <3> QED
      BY <3>1, <3>2, <3>3 DEF Calm
  <2> QED
    BY <2>2, <2>3
<1>3. /\ Happens("agent restart")
      /\ ConnectFrom(gone, None, None)
      /\ owed' = FALSE /\ lastSent' = Unsent
      /\ UNCHANGED <<status, host, serverVars>>
  BY DEF AgentRestarts
<1>4. gone \in Slots
  BY <1>2 DEF Slots
<1> HIDE DEF gone
<1>5. /\ timer \in BOOLEAN /\ faults \in 0 .. MaxFaults
      /\ registered \in Sockets \cup {None} /\ registered' = registered
      /\ timer => wsInstance = None
  BY <1>1, <1>3 DEF RestOK, Loop, serverVars
<1>6. /\ sock' \in Slots /\ AuthFirst' /\ Loop' /\ OneSession'
      /\ wsInstance' \in Sockets \cup {None} /\ connecting' \in Sockets \cup {None}
      /\ timer' \in BOOLEAN
  <2>1. CalmOn(gone)
    BY <1>2 DEF CalmOn
  <2> QED
    BY <1>1, <1>2, <1>3, <1>4, <1>5, <2>1, ConnectKeeps
<1>7. faults' \in 0 .. MaxFaults
  BY <1>3, <1>5, HappensOnce
<1>8. RestOK'
  BY <1>1, <1>3, <1>6, <1>7 DEF RestOK, serverVars
<1> QED
  BY <1>6, <1>8 DEF Inv, TypeOK, RestOK, Slots

\* The dial that opens is the one wsInstance refers to, so AUTH goes out
\* over the socket that opened.
LEMMA OpenedStep ==
  ASSUME Inv, NEW s \in Sockets, Opened(s)
  PROVE  Inv'
<1>1. sock \in Slots /\ RestOK /\ Loop /\ OneSession /\ AuthFirst
  BY TypeParts DEF Inv
<1>2. s = wsInstance /\ s = connecting /\ sock[s].agt = "dialing"
  BY <1>1 DEF Opened, Loop
<1>3. sock[s] \in Socket /\ Greets(sock[s]) /\ sock[s].up = <<>>
  BY <1>1, <1>2 DEF Slots, AuthFirst, Greets
<1> DEFINE new == [sock[s] EXCEPT !.agt = "open", !.up = <<Auth>>]
<1>4. new \in Socket
  <2>1. Auth \in Frames
    BY SizesAssumption DEF Auth, Frames, Versions
  <2>2. <<Auth>> \in Seq(Frames)
    BY <2>1
  <2> QED
    BY <1>3, <2>2 DEF Socket
<1>5. sock' = [sock EXCEPT ![s] = new]
  <2>1. sock' = [sock EXCEPT ![s].agt = "open", ![s].up = Append(@, Auth)]
    BY <1>2 DEF Opened
  <2>2. Append(sock[s].up, Auth) = <<Auth>>
    BY <1>3
  <2>3. [sock[s] EXCEPT !.agt = "open"].up = sock[s].up
    BY <1>3 DEF Socket
  <2>4. sock' = [sock EXCEPT ![s] =
                  [sock[s] EXCEPT !.agt = "open", !.up = Append(sock[s].up, Auth)]]
    BY <1>1, <1>3, <2>1, <2>3 DEF Slots, Socket
  <2> QED
    BY <2>2, <2>4
<1>6. /\ new.srv = sock[s].srv /\ new.authed = sock[s].authed /\ new.agt = "open"
      /\ new.up = <<Auth>>
  BY <1>3 DEF Socket
<1>7. Greets(new)
  <2>1. /\ Len(<<Auth>>) = 1 /\ <<Auth>>[1] = Auth /\ <<Auth>> # <<>> /\ Auth.type = "AUTH"
    BY DEF Auth
  <2>2. sock[s].srv # "none" /\ ~sock[s].authed
    BY <1>2, <1>3 DEF Opened, Greets
  <2> HIDE DEF new
  <2> QED
    BY <1>6, <2>1, <2>2 DEF Greets
<1> HIDE DEF new
<1>8. /\ sock' \in Slots /\ sock'[s] = new
      /\ \A t \in Sockets : t # s => sock'[t] = sock[t]
  BY <1>1, <1>4, <1>5 DEF Slots
<1>9. AuthFirst'
  BY <1>1, <1>7, <1>8 DEF AuthFirst
<1>10. UNCHANGED <<agentVars, stateVars, serverVars, faults>>
  BY DEF Opened
<1>11. Loop'
  BY <1>1, <1>2, <1>6, <1>8, <1>10 DEF Loop, agentVars
<1>12. OneSession'
  BY <1>1, <1>6, <1>8, <1>10 DEF OneSession, serverVars, RestOK
<1>13. RestOK'
  <2>1. faults' \in 0 .. MaxFaults
    BY <1>1, <1>10 DEF RestOK
  <2> QED
    BY <1>1, <1>10, <2>1, QuietRest
<1> QED
  BY <1>8, <1>9, <1>11, <1>12, <1>13 DEF Inv, TypeOK, RestOK, Slots

\* The attempt is given up, or the close event comes: the socket is not
\* alive any more, and if it was the agent's own, a reconnect is queued.
LEMMA AgentLosesStep ==
  ASSUME Inv, NEW s \in Sockets, AttemptTimeout(s) \/ AgentClosed(s)
  PROVE  Inv'
<1>1. sock \in Slots /\ RestOK /\ Loop /\ OneSession /\ AuthFirst
  BY TypeParts DEF Inv
<1>2. sock[s] \in Socket /\ Greets(sock[s])
  BY <1>1 DEF Slots, AuthFirst
<1>3. /\ wsInstance \in Sockets \cup {None} /\ connecting \in Sockets \cup {None}
      /\ timer \in BOOLEAN /\ faults \in 0 .. MaxFaults
      /\ registered \in Sockets \cup {None}
  BY <1>1 DEF RestOK
<1>a. ASSUME NEW new \in Socket, sock' = [sock EXCEPT ![s] = new],
             new.agt \in {"dead", "closed"}, new.srv = sock[s].srv,
             new.authed = sock[s].authed, new.up = sock[s].up, new.cut = sock[s].cut
      PROVE  /\ sock' \in Slots /\ AuthFirst' /\ CalmOn(sock')
             /\ sock'[s].agt \notin {"dialing", "open"}
  <2>1. Greets(new)
    BY <1>2, <1>a, GreetsStill
  <2>2. Calm(sock[s], new)
    BY <1>a DEF Calm
  <2>3. sock' \in Slots /\ CalmOn(sock') /\ AuthFirst'
    BY <1>1, <1>a, <2>1, <2>2, CalmOne DEF AuthFirst
  <2>4. sock'[s] = new
    BY <1>1, <1>a DEF Slots
  <2> QED
    BY <1>a, <2>3, <2>4
<1>4. CASE AttemptTimeout(s)
  <2> DEFINE new == [sock[s] EXCEPT !.agt = "dead"]
  <2>1. /\ new \in Socket /\ new.agt \in {"dead", "closed"} /\ new.srv = sock[s].srv
        /\ new.authed = sock[s].authed /\ new.up = sock[s].up /\ new.cut = sock[s].cut
    BY <1>2 DEF Socket
  <2>2. sock' = [sock EXCEPT ![s] = new]
    BY <1>4 DEF AttemptTimeout
  <2> HIDE DEF new
  <2>3. /\ sock' \in Slots /\ AuthFirst' /\ CalmOn(sock')
        /\ sock'[s].agt \notin {"dialing", "open"}
    BY <1>a, <2>1, <2>2
  <2>4. /\ connecting = s /\ connecting' = None
        /\ UNCHANGED <<wsInstance, timer, stateVars, serverVars>>
    BY <1>4 DEF AttemptTimeout
  <2>5. Loop'
    BY <1>1, <2>3, <2>4 DEF Loop, CalmOn, Calm
  <2>6. OneSession'
    BY <1>1, <1>3, <2>3, <2>4 DEF OneSession, CalmOn, Calm, serverVars
  <2>7. faults' \in 0 .. MaxFaults
    BY <1>3, <1>4, HappensOnce DEF AttemptTimeout
  <2>8. RestOK'
    BY <1>1, <2>4, <2>7 DEF RestOK, stateVars, serverVars
  <2> QED
    BY <2>3, <2>5, <2>6, <2>8 DEF Inv, TypeOK, RestOK, Slots
<1>5. CASE AgentClosed(s)
  <2> DEFINE new == [sock[s] EXCEPT !.agt = "closed", !.welcome = FALSE]
  <2>1. /\ new \in Socket /\ new.agt \in {"dead", "closed"} /\ new.srv = sock[s].srv
        /\ new.authed = sock[s].authed /\ new.up = sock[s].up /\ new.cut = sock[s].cut
    BY <1>2 DEF Socket
  <2>2. sock' = [sock EXCEPT ![s] = new]
    BY <1>5 DEF AgentClosed
  <2> HIDE DEF new
  <2>3. /\ sock' \in Slots /\ AuthFirst' /\ CalmOn(sock')
        /\ sock'[s].agt \notin {"dialing", "open"}
    BY <1>a, <2>1, <2>2
  <2>4. /\ connecting' = IF connecting = s THEN None ELSE connecting
        /\ IF wsInstance # s THEN wsInstance' = wsInstance /\ timer' = timer
           ELSE wsInstance' = None /\ timer' = TRUE
        /\ UNCHANGED <<stateVars, serverVars, faults>>
    BY <1>5 DEF AgentClosed
  <2>5. Loop'
    BY <1>1, <2>3, <2>4 DEF Loop, CalmOn, Calm
  <2>6. OneSession'
    BY <1>1, <1>3, <2>3, <2>4 DEF OneSession, CalmOn, Calm, serverVars
  <2>7. RestOK'
    BY <1>1, <1>3, <2>4 DEF RestOK, stateVars, serverVars
  <2> QED
    BY <2>3, <2>5, <2>6, <2>7 DEF Inv, TypeOK, RestOK, Slots
<1> QED
  BY <1>4, <1>5

-----------------------------------------------------------------------------
(* The server. *)

\* registerClient: the socket before is closed in the same step.
LEMMA ServerAuthStep ==
  ASSUME Inv, NEW s \in Sockets, ServerAuth(s)
  PROVE  Inv'
<1>1. sock \in Slots /\ RestOK /\ Loop /\ OneSession /\ AuthFirst
  BY TypeParts DEF Inv
<1>2. /\ sock[s] \in Socket /\ Greets(sock[s]) /\ ~sock[s].authed
      /\ sock[s].up \in Seq(Frames) /\ sock[s].up # <<>>
      /\ sock[s].srv \in {"open", "closing"}
      /\ registered # s
  BY <1>1 DEF Slots, AuthFirst, ServerAuth, Receives, Socket, OneSession, Sockets
<1>3. sock' = Registers(s) /\ registered' = s
      /\ UNCHANGED <<agentVars, stateVars, live, stored, overtaken, faults>>
  BY DEF ServerAuth
<1> DEFINE new == [sock[s] EXCEPT !.authed = TRUE, !.up = Tail(sock[s].up),
                     !.welcome = (sock[s].srv = "open" /\ sock[s].agt # "closed")]
<1>4. /\ new \in Socket /\ new.authed /\ new.up = Tail(sock[s].up)
      /\ new.srv = sock[s].srv /\ new.agt = sock[s].agt
  <2>1. Tail(sock[s].up) \in Seq(Frames)
    BY <1>2, HeadTailProperties
  <2>2. (sock[s].srv = "open" /\ sock[s].agt # "closed") \in BOOLEAN
    OBVIOUS
  <2> QED
    BY <1>2, <2>1, <2>2 DEF Socket
<1>5. Greets(new)
  <2>1. Len(sock[s].up) \in Nat \ {0}
    BY <1>2
  <2>2. \A i \in 1 .. Len(Tail(sock[s].up)) :
          i + 1 \in 1 .. Len(sock[s].up) /\ Tail(sock[s].up)[i] = sock[s].up[i + 1]
    BY <1>2, <2>1
  <2>3. \A i \in 1 .. Len(sock[s].up) : sock[s].up[i].type = "AUTH" => i = 1
    BY <1>2 DEF Greets
  <2>4. \A i \in 1 .. Len(Tail(sock[s].up)) : Tail(sock[s].up)[i].type # "AUTH"
    BY <2>1, <2>2, <2>3
  <2>5. sock[s].agt \notin {"none", "dialing"}
    BY <1>2 DEF Greets
  <2> HIDE DEF new
  <2> QED
    BY <1>2, <1>4, <2>4, <2>5 DEF Greets
<1>6. /\ sock'[s] = new
      /\ \A t \in Sockets : t # s =>
           sock'[t] = IF t = registered /\ sock[t].srv = "open"
                      THEN [sock[t] EXCEPT !.srv = "closing"] ELSE sock[t]
      /\ sock' = [t \in Sockets |-> sock'[t]]
  BY <1>3 DEF Registers
<1> HIDE DEF new
<1>7. ASSUME NEW t \in Sockets, t # s
      PROVE  /\ sock'[t] \in Socket /\ Greets(sock'[t])
             /\ sock'[t].agt = sock[t].agt /\ sock'[t].authed = sock[t].authed
             /\ ~(sock'[t].srv = "open" /\ sock'[t].authed)
  <2>1. sock[t] \in Socket /\ Greets(sock[t])
    BY <1>1 DEF Slots, AuthFirst
  <2>2. CASE t = registered /\ sock[t].srv = "open"
    <3> DEFINE c == [sock[t] EXCEPT !.srv = "closing"]
    <3>1. sock'[t] = c
      BY <1>6, <1>7, <2>2
    <3>2. /\ c \in Socket /\ c.agt = sock[t].agt /\ c.authed = sock[t].authed
          /\ c.up = sock[t].up /\ c.cut = sock[t].cut /\ c.srv = "closing"
      BY <2>1 DEF Socket
    <3> HIDE DEF c
    <3>3. Greets(c)
      BY <2>1, <2>2, <3>2, GreetsStill
    <3> QED
      BY <3>1, <3>2, <3>3
  <2>3. CASE ~(t = registered /\ sock[t].srv = "open")
    BY <1>1, <1>6, <1>7, <2>1, <2>3 DEF OneSession
  <2> QED
    BY <2>2, <2>3
<1>8. sock' \in Slots /\ AuthFirst'
  <2>1. \A t \in Sockets : sock'[t] \in Socket /\ Greets(sock'[t])
    BY <1>4, <1>5, <1>6, <1>7
  <2> QED
    BY <1>6, <2>1 DEF Slots, AuthFirst
<1>9. Loop'
  BY <1>1, <1>3, <1>4, <1>6, <1>7 DEF Loop, agentVars
<1>10. OneSession'
  BY <1>2, <1>3, <1>4, <1>6, <1>7 DEF OneSession
<1>11. RestOK'
  BY <1>1, <1>3 DEF RestOK, agentVars, stateVars
<1> QED
  BY <1>8, <1>9, <1>10, <1>11 DEF Inv, TypeOK, RestOK, Slots

\* unregisterClient: the close event takes out its own entry only.
LEMMA ServerClosedStep ==
  ASSUME Inv, NEW s \in Sockets, ServerClosed(s)
  PROVE  Inv'
<1> DEFINE new == [sock[s] EXCEPT !.srv = "closed", !.up = <<>>]
<1>1. sock \in Slots /\ RestOK /\ Loop /\ OneSession /\ AuthFirst
  BY TypeParts DEF Inv
<1>2. sock[s] \in Socket /\ Greets(sock[s])
  BY <1>1 DEF Slots, AuthFirst
<1>3. /\ new \in Socket /\ new.srv = "closed" /\ new.up = <<>>
      /\ new.agt = sock[s].agt /\ new.authed = sock[s].authed
  <2>1. <<>> \in Seq(Frames)
    BY EmptySeq
  <2> QED
    BY <1>2, <2>1 DEF Socket
<1>4. sock' = [sock EXCEPT ![s] = new]
  BY DEF ServerClosed
<1> HIDE DEF new
<1>5. Greets(new)
  BY <1>2, <1>3 DEF Greets
<1>6. /\ sock' \in Slots /\ sock'[s] = new
      /\ \A t \in Sockets : t # s => sock'[t] = sock[t]
  BY <1>1, <1>3, <1>4 DEF Slots
<1>7. AuthFirst'
  BY <1>1, <1>5, <1>6 DEF AuthFirst
<1>8. /\ IF registered = s THEN registered' = None /\ live' = Unsent
         ELSE registered' = registered /\ live' = live
      /\ UNCHANGED <<agentVars, stateVars, stored, overtaken, faults>>
  BY DEF ServerClosed
<1>9. Loop'
  BY <1>1, <1>3, <1>6, <1>8 DEF Loop, agentVars
<1>10. OneSession'
  BY <1>1, <1>3, <1>6, <1>8 DEF OneSession, RestOK
<1>11. RestOK'
  BY <1>1, <1>8 DEF RestOK, agentVars, stateVars
<1> QED
  BY <1>6, <1>7, <1>9, <1>10, <1>11 DEF Inv, TypeOK, RestOK, Slots

LEMMA ServerRestartStep ==
  ASSUME Inv, ServerRestarts
  PROVE  Inv'
<1>1. sock \in Slots /\ RestOK /\ Loop /\ OneSession /\ AuthFirst
  BY TypeParts DEF Inv
<1>2. /\ Happens("server restart")
      /\ sock' = [s \in Sockets |->
                    IF sock[s].srv = "none" THEN sock[s]
                    ELSE [sock[s] EXCEPT !.srv = "closed", !.up = <<>>, !.welcome = FALSE]]
      /\ registered' = None /\ live' = Unsent
      /\ UNCHANGED <<agentVars, stateVars, stored, overtaken>>
  BY DEF ServerRestarts
<1>3. ASSUME NEW t \in Sockets
      PROVE  /\ sock'[t] \in Socket /\ Greets(sock'[t])
             /\ sock'[t].agt = sock[t].agt /\ sock'[t].srv \in {"none", "closed"}
  <2>1. sock[t] \in Socket /\ Greets(sock[t])
    BY <1>1 DEF Slots, AuthFirst
  <2>2. CASE sock[t].srv = "none"
    BY <1>2, <2>1, <2>2
  <2>3. CASE sock[t].srv # "none"
    <3> DEFINE c == [sock[t] EXCEPT !.srv = "closed", !.up = <<>>, !.welcome = FALSE]
    <3>1. sock'[t] = c
      BY <1>2, <2>3
    <3>2. /\ c \in Socket /\ c.agt = sock[t].agt /\ c.authed = sock[t].authed
          /\ c.up = <<>> /\ c.srv = "closed"
      <4>1. <<>> \in Seq(Frames)
        BY EmptySeq
      <4> QED
        BY <2>1, <4>1 DEF Socket
    <3> HIDE DEF c
    <3>3. Greets(c)
      BY <2>1, <3>2 DEF Greets
    <3> QED
      BY <3>1, <3>2, <3>3
  <2> QED
    BY <2>2, <2>3
<1>4. sock' \in Slots /\ AuthFirst'
  BY <1>2, <1>3 DEF Slots, AuthFirst
<1>5. Loop'
  BY <1>1, <1>2, <1>3 DEF Loop, agentVars
<1>6. OneSession'
  BY <1>2, <1>3 DEF OneSession
<1>7. faults' \in 0 .. MaxFaults
  BY <1>1, <1>2, HappensOnce DEF RestOK
<1>8. RestOK'
  BY <1>1, <1>2, <1>7 DEF RestOK, agentVars, stateVars
<1> QED
  BY <1>4, <1>5, <1>6, <1>8 DEF Inv, TypeOK, RestOK, Slots

-----------------------------------------------------------------------------
LEMMA InitHolds == Init => Inv
<1> SUFFICES ASSUME Init PROVE Inv
  OBVIOUS
<1> DEFINE first == [Unused EXCEPT !.agt = "dialing"]
<1>1. 1 \in Sockets /\ MaxFaults \in Nat /\ MaxChanges \in Nat
  BY SizesAssumption DEF Sockets
<1>2. /\ Unused \in Socket /\ Unused.agt = "none" /\ Unused.srv = "none"
      /\ ~Unused.authed /\ Unused.up = <<>>
      /\ first \in Socket /\ first.agt = "dialing" /\ first.srv = "none"
      /\ ~first.authed /\ first.up = <<>>
  <2>1. <<>> \in Seq(Frames)
    BY EmptySeq
  <2> QED
    BY <2>1 DEF Unused, Socket
<1>3. sock = [[s \in Sockets |-> Unused] EXCEPT ![1] = first]
  BY <1>1 DEF Init
<1> HIDE DEF first
<1>4. /\ sock \in Slots /\ sock[1] = first
      /\ \A t \in Sockets : t # 1 => sock[t] = Unused
  BY <1>1, <1>2, <1>3 DEF Slots
<1>5. AuthFirst
  BY <1>2, <1>4 DEF AuthFirst, Greets
<1>6. /\ wsInstance = 1 /\ connecting = 1 /\ timer = FALSE
      /\ status = 0 /\ host = 0 /\ owed = FALSE /\ lastSent = Unsent
      /\ registered = None /\ live = Unsent /\ stored = Unsent /\ overtaken = {}
      /\ faults = 0
  BY DEF Init
<1>7. Loop
  BY <1>2, <1>4, <1>6 DEF Loop
<1>8. OneSession
  BY <1>2, <1>4, <1>6 DEF OneSession
<1>9. RestOK
  <2>1. 0 \in Versions /\ 0 \in 0 .. MaxFaults
    BY <1>1 DEF Versions
  <2>2. timer \in BOOLEAN /\ owed \in BOOLEAN /\ overtaken \subseteq {"AGENT_STATUS", "DOCKER_UPDATE"}
    BY <1>6
  <2> QED
    BY <1>1, <1>6, <2>1, <2>2 DEF RestOK
<1> QED
  BY <1>4, <1>5, <1>7, <1>8, <1>9 DEF Inv, TypeOK, RestOK, Slots

LEMMA StepHolds == Inv /\ [Next]_vars => Inv'
<1> SUFFICES ASSUME Inv, [Next]_vars PROVE Inv'
  OBVIOUS
<1>1. CASE TimerFires \/ ManualConnect
  BY <1>1, ConnectStep
<1>2. CASE AgentRestarts
  BY <1>2, AgentRestartStep
<1>3. CASE ServerRestarts
  BY <1>3, ServerRestartStep
<1>4. CASE StatusChanges \/ HostChanges \/ ReadEnds
  BY <1>4, ReporterStep
<1>5. ASSUME NEW s \in Sockets, Dialling(s) PROVE Inv'
  BY <1>5, DiallingStep, OpenedStep, AgentLosesStep DEF Dialling
<1>6. ASSUME NEW s \in Sockets, AgentEnd(s) PROVE Inv'
  BY <1>6, WelcomeStep, AgentEndStep, AgentLosesStep DEF AgentEnd
<1>7. ASSUME NEW s \in Sockets, ServerEnd(s) PROVE Inv'
  BY <1>7, ServerAuthStep, FrameStep, ServerEndStep, ServerClosedStep DEF ServerEnd
<1>8. CASE UNCHANGED vars
  BY <1>8 DEF vars, agentVars, stateVars, serverVars, Inv, TypeOK, Loop, OneSession,
              AuthFirst, Greets
<1> QED
  BY <1>1, <1>2, <1>3, <1>4, <1>5, <1>6, <1>7, <1>8 DEF Next

\* The inductive invariant holds throughout.
THEOREM Invariance == Spec => []Inv
<1>1. Init => Inv
  BY InitHolds
<1>2. Inv /\ [Next]_vars => Inv'
  BY StepHolds
<1> QED
  BY <1>1, <1>2, PTL DEF Spec

\* The type invariant, for every bound and any mix of faults.
THEOREM TypeCorrect == Spec => []TypeOK
<1>1. Inv => TypeOK
  BY DEF Inv
<1> QED
  BY <1>1, Invariance, PTL

\* Connection.connect and scheduleReconnect run one reconnect loop: whatever
\* dials, timeouts, retries by hand and restarts cross, no second socket
\* dials or stands beside the first, and no reconnect is queued beside it.
THEOREM RunsOneLoop == Spec => []OneLoop
<1>1. Inv => OneLoop
  <2> SUFFICES ASSUME Inv PROVE OneLoop
    OBVIOUS
  <2>1. Alive \subseteq {wsInstance} /\ (timer => Alive = {})
    BY DEF Inv, Loop, Alive, Sockets
  <2>2. IsFiniteSet({wsInstance}) /\ Cardinality({wsInstance}) = 1
    BY FS_Singleton
  <2>3. IsFiniteSet(Alive) /\ Cardinality(Alive) <= 1
    BY <2>1, <2>2, FS_Subset
  <2> QED
    BY <2>1, <2>3 DEF OneLoop
<1> QED
  BY <1>1, Invariance, PTL

\* ProxyService.registerClient and unregisterClient, for an agent that dials:
\* an open, authenticated socket is the registered one, and the registered
\* one has its close event still to come.
THEOREM SpeaksForOne == Spec => []OneSession
<1>1. Inv => OneSession
  BY DEF Inv
<1> QED
  BY <1>1, Invariance, PTL

\* handleAgentConnection: the first frame of a socket that is accepted is
\* AUTH and no later one is, so that no state is taken for credentials.
THEOREM AuthComesFirst == Spec => []AuthFirst
<1>1. Inv => AuthFirst
  BY DEF Inv
<1> QED
  BY <1>1, Invariance, PTL
=============================================================================
