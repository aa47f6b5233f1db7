---------------------------- MODULE ServerProofs ----------------------------
(***************************************************************************)
(* What the server does of its own accord, for any constants: its outbound *)
(* link to the agents (OutboundLink), the timer of its scheduled jobs      *)
(* (ScheduledJob) and the sweep over the registries (RegistrySweep).       *)
(*                                                                         *)
(* Of the link's properties the first are inductive together (Inv): a      *)
(* session that is authenticated while another is registered closes that   *)
(* one in the same step, a close event takes out only its own entry, and a *)
(* dial never takes the slot of a socket whose close event is still to     *)
(* come. The others need what the handshake leaves in each slot, how many  *)
(* attempts there can be, and whose the socket of firstConnect is (Deep):  *)
(* a socket closed before AUTH has been refused or broken, the dial of     *)
(* firstConnect ends before there is a row to pursue, and without overlap  *)
(* the socket that is welcomed is the only attempt there is.               *)
(*                                                                         *)
(* The timer's runs are spaced out by what is left of its wait (JobInv),   *)
(* and a sweep leaves no image out by what the workers have taken of the   *)
(* rotated list (SweepInv).                                                *)
(***************************************************************************)
EXTENDS OutboundLink, ScheduledJob, RegistrySweep, FiniteSetTheorems, WellFoundedInduction, TLAPS

USE DEF FaultsOK, faultVars

\* A dial has not been authenticated yet.
DialsFresh == \A s \in Sockets : sock[s].srv = "dialing" => ~sock[s].authed

Inv == TypeOK /\ OneSession /\ RegisteredEnds /\ DialsFresh

Slots == [Sockets -> Socket]

\* A dial takes a free slot, resets it and touches no other.
TakesFree(sk, new) ==
  /\ new \in Slots
  /\ \A t \in Sockets :
       \/ new[t] = sk[t]
       \/ /\ sk[t].srv \in {"none", "closed"}
          /\ new[t].srv = "dialing" /\ ~new[t].authed

LEMMA DialTakesFree ==
  ASSUME NEW sk \in Slots, Free(sk) # {}, NEW a \in Addresses, NEW f \in BOOLEAN
  PROVE  TakesFree(sk, Dial(sk, a, f))
<1>1. Slot(sk) \in Sockets /\ Slot(sk) \in Free(sk)
  BY DEF Slot, Free
<1> DEFINE new == [Unused EXCEPT !.to = a, !.first = f, !.srv = "dialing"]
<1>2. /\ new \in Socket
      /\ new.srv = "dialing" /\ ~new.authed
  BY DEF Unused, Socket
<1>3. Dial(sk, a, f) = [sk EXCEPT ![Slot(sk)] = new]
  BY DEF Dial
<1> HIDE DEF new
<1>4. sk[Slot(sk)].srv \in {"none", "closed"}
  BY <1>1 DEF Free
<1> QED
  BY <1>1, <1>2, <1>3, <1>4 DEF Slots, TakesFree

\* The server's close() touches at most that socket, which is open no more.
LEMMA ClosesOne ==
  ASSUME NEW sk \in Slots, NEW s \in Sockets \cup {None}
  PROVE  /\ Closes(sk, s) \in Slots
         /\ \A t \in Sockets :
              /\ Closes(sk, s)[t].authed = sk[t].authed
              /\ t # s => Closes(sk, s)[t] = sk[t]
              /\ t = s => Closes(sk, s)[t].srv # "open"
              /\ sk[t].srv \in {"open", "closing"}
                   => Closes(sk, s)[t].srv \in {"open", "closing"}
              /\ sk[t].srv \in {"none", "closed"} => Closes(sk, s)[t] = sk[t]
<1> SUFFICES ASSUME NEW t \in Sockets
             PROVE  LET c == Closes(sk, s)[t] IN
                    /\ c \in Socket
                    /\ c.authed = sk[t].authed
                    /\ t # s => c = sk[t]
                    /\ t = s => c.srv # "open"
                    /\ sk[t].srv \in {"open", "closing"} => c.srv \in {"open", "closing"}
                    /\ sk[t].srv \in {"none", "closed"} => c = sk[t]
  BY DEF Closes, Slots
<1>1. sk[t] \in Socket
  BY DEF Slots
<1>2. CASE t = s /\ sk[t].srv = "open"
  <2>1. Closes(sk, s)[t] = [sk[t] EXCEPT !.srv = "closing"]
    BY <1>2 DEF Closes
  <2> QED
    BY <1>1, <1>2, <2>1 DEF Socket
<1>3. CASE ~(t = s /\ sk[t].srv = "open")
  <2>1. Closes(sk, s)[t] = sk[t]
    BY <1>3 DEF Closes
  <2> QED
    BY <1>1, <1>3, <2>1
<1> QED
  BY <1>2, <1>3

\* The agent's close() leaves the server's end as it is.
LEMMA AgentClosesOne ==
  ASSUME NEW sk \in Slots, NEW s \in Sockets \cup {None}
  PROVE  /\ AgentCloses(sk, s) \in Slots
         /\ \A t \in Sockets :
              /\ AgentCloses(sk, s)[t].authed = sk[t].authed
              /\ AgentCloses(sk, s)[t].srv = sk[t].srv
<1> SUFFICES ASSUME NEW t \in Sockets
             PROVE  LET c == AgentCloses(sk, s)[t] IN
                    c \in Socket /\ c.authed = sk[t].authed /\ c.srv = sk[t].srv
  BY DEF AgentCloses, Slots
<1>1. sk[t] \in Socket
  BY DEF Slots
<1>2. CASE t = s /\ sk[t].agt = "open"
  <2>1. AgentCloses(sk, s)[t] = [sk[t] EXCEPT !.agt = "closing"]
    BY <1>2 DEF AgentCloses
  <2> QED
    BY <1>1, <2>1 DEF Socket
<1>3. CASE ~(t = s /\ sk[t].agt = "open")
  <2>1. AgentCloses(sk, s)[t] = sk[t]
    BY <1>3 DEF AgentCloses
  <2> QED
    BY <1>1, <2>1
<1> QED
  BY <1>2, <1>3

\* What a step may do to the sockets when it registers none: no socket
\* becomes authenticated, none is opened after it was, and none whose close
\* event is still to come is lost.
Keeps(sk) ==
  \A t \in Sockets :
    /\ sk[t].srv = "open" /\ sk[t].authed => sock[t].srv = "open" /\ sock[t].authed
    /\ sk[t].srv = "dialing" => ~sk[t].authed
    /\ sock[t].srv \in {"open", "closing"} =>
         sk[t].authed = sock[t].authed /\ sk[t].srv \in {"open", "closing"}

LEMMA KeepsInv ==
  ASSUME OneSession, RegisteredEnds, registered \in Sockets \cup {None},
         Keeps(sock'), registered' = registered
  PROVE  OneSession' /\ RegisteredEnds' /\ DialsFresh'
BY DEF OneSession, RegisteredEnds, DialsFresh, Keeps, None

\* A step that changes one slot, whose authentication it leaves alone.
LEMMA ChangesOne ==
  ASSUME TypeOK, DialsFresh, NEW s \in Sockets, NEW new \in Socket,
         sock' = [sock EXCEPT ![s] = new],
         new.authed = sock[s].authed,
         \/ new.srv = sock[s].srv
         \/ new.srv = "closing" /\ sock[s].srv = "open"
         \/ new.srv \in {"open", "closed"} /\ sock[s].srv = "dialing"
  PROVE  sock' \in Slots /\ Keeps(sock')
BY DEF TypeOK, DialsFresh, Keeps, Slots

\* The same for a step that changes nothing the server sees.
LEMMA ServerBlind ==
  ASSUME TypeOK, DialsFresh, NEW sk \in Slots,
         \A t \in Sockets : sk[t].authed = sock[t].authed /\ sk[t].srv = sock[t].srv
  PROVE  Keeps(sk)
BY DEF TypeOK, DialsFresh, Keeps, Slots

\* Dialling keeps the sessions, from slots that keep them.
LEMMA DialKeeps ==
  ASSUME NEW sk \in Slots, Keeps(sk), Free(sk) # {},
         NEW a \in Addresses, NEW f \in BOOLEAN
  PROVE  Dial(sk, a, f) \in Slots /\ Keeps(Dial(sk, a, f))
<1> DEFINE new == Dial(sk, a, f)
<1>1. TakesFree(sk, new)
  BY DialTakesFree
<1> HIDE DEF new
<1>2. ASSUME NEW t \in Sockets
      PROVE  /\ new[t].srv = "open" /\ new[t].authed => sock[t].srv = "open" /\ sock[t].authed
             /\ new[t].srv = "dialing" => ~new[t].authed
             /\ sock[t].srv \in {"open", "closing"} =>
                  new[t].authed = sock[t].authed /\ new[t].srv \in {"open", "closing"}
  <2>1. CASE new[t] = sk[t]
    BY <2>1 DEF Keeps
  <2>2. CASE /\ sk[t].srv \in {"none", "closed"}
             /\ new[t].srv = "dialing" /\ ~new[t].authed
    <3>1. sock[t].srv \notin {"open", "closing"}
      BY <2>2 DEF Keeps
    <3> QED
      BY <2>2, <3>1
  <2> QED
    BY <1>1, <2>1, <2>2 DEF TakesFree
<1>3. Keeps(new)
  BY <1>2 DEF Keeps
<1> QED
  BY <1>1, <1>3 DEF new, TakesFree

LEMMA HappensOnce ==
  ASSUME TypeOK, NEW kind, Happens(kind)
  PROVE  FaultsOK'
BY FaultsAssumption DEF TypeOK, Happens

LEMMA AnswerTyped ==
  ASSUME TypeOK, NEW s \in Sockets, NEW result \in {"ok", "failed"}, Answer(s, result)
  PROVE  told' \in {"nothing", "waiting", "ok", "failed"}
BY DEF TypeOK, Answer

LEMMA InitHolds == Init => Inv
<1> SUFFICES ASSUME Init PROVE Inv
  OBVIOUS
<1> DEFINE none == [s \in Sockets |-> Unused]
<1>1. none \in Slots /\ Free(none) = Sockets /\ (\A t \in Sockets : ~none[t].authed)
  BY DEF Slots, Free, Unused, Socket
<1>2. Sockets # {}
  BY SocketsAssumption DEF Sockets
<1>3. sock \in Slots /\ (\A t \in Sockets : ~sock[t].authed)
  <2>1. CASE row = NoRow /\ sock = none
    BY <1>1, <2>1
  <2>2. CASE row \in Addresses /\ sock = Dial(none, row, FALSE)
    <3> HIDE DEF none
    <3>1. Free(none) # {}
      BY <1>1, <1>2
    <3> QED
      BY <1>1, <2>2, <3>1, DialTakesFree DEF TakesFree
  <2> QED
    BY <2>1, <2>2 DEF Init
<1>4. row \in Addresses \cup {NoRow, Deleted}
  BY DEF Init
<1>5. timer \in BOOLEAN /\ registered = None /\ current = None
  BY DEF Init
<1>6. told \in {"nothing", "waiting", "ok", "failed"} /\ FaultsOK
  BY FaultsAssumption DEF Init
<1>7. TypeOK
  BY <1>3, <1>4, <1>5, <1>6 DEF TypeOK, Slots
<1> QED
  BY <1>3, <1>5, <1>7 DEF Inv, OneSession, RegisteredEnds, DialsFresh

\* Steps that leave the registration as it is.
LEMMA QuietStep ==
  ASSUME Inv, NEW s \in Sockets,
         \/ Open(s) \/ GiveUpDial(s) \/ AuthTimesOut(s) \/ Accept(s) \/ Reject(s)
         \/ HandleAuthSuccess(s) \/ AgtAuthTimesOut(s) \/ AgtSeesClose(s) \/ Break(s)
  PROVE  Inv'
<1> USE DEF Inv
<1>0. /\ sock \in Slots /\ sock[s] \in Socket
      /\ registered \in Sockets \cup {None} /\ current \in Sockets \cup {None}
  BY DEF TypeOK, Slots
<1>a. ASSUME sock' \in Slots, Keeps(sock'), UNCHANGED <<row, registered>>,
             timer' \in BOOLEAN, current' \in Sockets \cup {None},
             told' \in {"nothing", "waiting", "ok", "failed"},
             FaultsOK'
      PROVE  Inv'
  <2>1. TypeOK'
    BY <1>a DEF TypeOK, Slots
  <2> QED
    BY <1>0, <1>a, <2>1, KeepsInv
<1>b. /\ timer \in BOOLEAN
      /\ told \in {"nothing", "waiting", "ok", "failed"} /\ FaultsOK
  BY DEF TypeOK
<1>1. CASE Open(s)
  <2> DEFINE new == [sock[s] EXCEPT !.srv = "open"]
  <2>1. new \in Socket /\ new.authed = sock[s].authed /\ new.srv = "open"
    BY <1>0 DEF Socket
  <2>2. sock' = [sock EXCEPT ![s] = new] /\ sock[s].srv = "dialing"
    BY <1>1 DEF Open
  <2> HIDE DEF new
  <2>3. sock' \in Slots /\ Keeps(sock')
    BY <2>1, <2>2, ChangesOne
  <2> QED
    BY <1>0, <1>1, <1>a, <1>b, <2>3 DEF Open
<1>2. CASE GiveUpDial(s)
  <2> DEFINE new == [sock[s] EXCEPT !.srv = "closed"]
  <2>1. new \in Socket /\ new.authed = sock[s].authed /\ new.srv = "closed"
    BY <1>0 DEF Socket
  <2>2. sock' = [sock EXCEPT ![s] = new] /\ sock[s].srv = "dialing"
    BY <1>2 DEF GiveUpDial
  <2> HIDE DEF new
  <2>3. sock' \in Slots /\ Keeps(sock')
    BY <2>1, <2>2, ChangesOne
  <2>4. FaultsOK'
    BY <1>2, <1>b, HappensOnce DEF GiveUpDial
  <2>5. told' \in {"nothing", "waiting", "ok", "failed"}
    BY <1>2, AnswerTyped DEF GiveUpDial
  <2>6. timer' \in BOOLEAN
    BY <1>2 DEF GiveUpDial
  <2> QED
    BY <1>0, <1>2, <1>a, <2>3, <2>4, <2>5, <2>6 DEF GiveUpDial
<1>3. CASE AuthTimesOut(s)
  <2>1. sock' \in Slots /\ Keeps(sock')
    <3> DEFINE new == [sock[s] EXCEPT !.srv = "closing"]
    <3>1. new \in Socket /\ new.authed = sock[s].authed /\ new.srv = "closing"
      BY <1>0 DEF Socket
    <3>2. sock' = [sock EXCEPT ![s] = new] /\ sock[s].srv = "open"
      BY <1>0, <1>3 DEF AuthTimesOut, Closes, Slots
    <3> HIDE DEF new
    <3> QED
      BY <3>1, <3>2, ChangesOne
  <2>2. FaultsOK'
    BY <1>3, HappensOnce DEF AuthTimesOut
  <2>3. told' \in {"nothing", "waiting", "ok", "failed"}
    BY <1>3, AnswerTyped DEF AuthTimesOut
  <2> QED
    BY <1>0, <1>3, <1>a, <1>b, <2>1, <2>2, <2>3 DEF AuthTimesOut
<1>4. CASE Accept(s)
  <2> DEFINE sk == AgentCloses(sock, current)
  <2>1. /\ sk \in Slots
        /\ \A t \in Sockets : sk[t].authed = sock[t].authed /\ sk[t].srv = sock[t].srv
    BY <1>0, AgentClosesOne
  <2> HIDE DEF sk
  <2> DEFINE new == [sk[s] EXCEPT !.agt = "open", !.hello = TRUE]
  <2>2. new \in Socket /\ new.authed = sk[s].authed /\ new.srv = sk[s].srv
    BY <2>1 DEF Slots, Socket
  <2>3. sock' = [sk EXCEPT ![s] = new]
    BY <1>4 DEF Accept, sk
  <2> HIDE DEF new
  <2>4. /\ sock' \in Slots
        /\ \A t \in Sockets : sock'[t].authed = sock[t].authed /\ sock'[t].srv = sock[t].srv
    BY <2>1, <2>2, <2>3 DEF Slots
  <2>5. Keeps(sock')
    BY <2>4, ServerBlind
  <2> QED
    BY <1>0, <1>4, <1>a, <1>b, <2>4, <2>5 DEF Accept
<1>5. CASE Reject(s)
  <2> DEFINE new == [sock[s] EXCEPT !.agt = "closing"]
  <2>1. new \in Socket /\ new.authed = sock[s].authed /\ new.srv = sock[s].srv
    BY <1>0 DEF Socket
  <2>2. sock' = [sock EXCEPT ![s] = new]
    BY <1>5 DEF Reject
  <2> HIDE DEF new
  <2>3. sock' \in Slots /\ Keeps(sock')
    BY <2>1, <2>2, ChangesOne
  <2>4. FaultsOK'
    BY <1>5, HappensOnce DEF Reject
  <2> QED
    BY <1>0, <1>5, <1>a, <1>b, <2>3, <2>4 DEF Reject
<1>6. CASE HandleAuthSuccess(s)
  <2> DEFINE new == [sock[s] EXCEPT !.welcome = FALSE, !.ready = TRUE]
  <2>1. new \in Socket /\ new.authed = sock[s].authed /\ new.srv = sock[s].srv
    BY <1>0 DEF Socket
  <2>2. sock' = [sock EXCEPT ![s] = new]
    BY <1>6 DEF HandleAuthSuccess
  <2> HIDE DEF new
  <2>3. sock' \in Slots /\ Keeps(sock')
    BY <2>1, <2>2, ChangesOne
  <2> QED
    BY <1>0, <1>6, <1>a, <1>b, <2>3 DEF HandleAuthSuccess
<1>7. CASE AgtAuthTimesOut(s)
  <2>1. /\ sock' \in Slots
        /\ \A t \in Sockets : sock'[t].authed = sock[t].authed /\ sock'[t].srv = sock[t].srv
    <3>1. sock' = AgentCloses(sock, s) /\ s \in Sockets \cup {None}
      BY <1>7 DEF AgtAuthTimesOut
    <3> QED
      BY <1>0, <3>1, AgentClosesOne, Zenon
  <2>2. Keeps(sock')
    BY <2>1, ServerBlind
  <2>3. FaultsOK'
    BY <1>7, HappensOnce DEF AgtAuthTimesOut
  <2> QED
    BY <1>0, <1>7, <1>a, <1>b, <2>1, <2>2, <2>3 DEF AgtAuthTimesOut
<1>8. CASE AgtSeesClose(s)
  <2> DEFINE new == [sock[s] EXCEPT !.agt = "closed"]
  <2>1. new \in Socket /\ new.authed = sock[s].authed /\ new.srv = sock[s].srv
    BY <1>0 DEF Socket
  <2>2. sock' = [sock EXCEPT ![s] = new]
    BY <1>8 DEF AgtSeesClose
  <2> HIDE DEF new
  <2>3. sock' \in Slots /\ Keeps(sock')
    BY <2>1, <2>2, ChangesOne
  <2> QED
    BY <1>0, <1>8, <1>a, <1>b, <2>3 DEF AgtSeesClose
<1>9. CASE Break(s)
  <2>1. Cut(sock[s]) \in Socket /\ Cut(sock[s]).authed = sock[s].authed
          /\ Cut(sock[s]).srv = sock[s].srv
    BY <1>0 DEF Socket, Cut
  <2>2. sock' = [sock EXCEPT ![s] = Cut(sock[s])]
    BY <1>9 DEF Break
  <2>3. sock' \in Slots /\ Keeps(sock')
    BY <2>1, <2>2, ChangesOne
  <2>4. FaultsOK'
    BY <1>9, HappensOnce DEF Break
  <2> QED
    BY <1>0, <1>9, <1>a, <1>b, <2>3, <2>4 DEF Break
<1> QED
  BY <1>1, <1>2, <1>3, <1>4, <1>5, <1>6, <1>7, <1>8, <1>9

\* Nothing changed keeps everything.
LEMMA KeepsSame == ASSUME DialsFresh PROVE Keeps(sock)
BY DEF Keeps, DialsFresh

\* Steps that dial and leave the registration as it is.
LEMMA DialStep ==
  ASSUME Inv, TimerFires \/ Reconnect \/ AgentRestarts \/ (\E a \in Addresses : Add(a))
  PROVE  Inv'
<1> USE DEF Inv
<1>0. sock \in Slots /\ registered \in Sockets \cup {None} /\ Keeps(sock)
  BY KeepsSame DEF TypeOK, Slots
<1>a. ASSUME sock' \in Slots, Keeps(sock'), UNCHANGED <<row, registered>>,
             timer' \in BOOLEAN, current' \in Sockets \cup {None},
             told' \in {"nothing", "waiting", "ok", "failed"},
             FaultsOK'
      PROVE  Inv'
  <2>1. TypeOK'
    BY <1>a DEF TypeOK, Slots
  <2> QED
    BY <1>0, <1>a, <2>1, KeepsInv
<1>b. /\ timer \in BOOLEAN /\ current \in Sockets \cup {None}
      /\ told \in {"nothing", "waiting", "ok", "failed"} /\ FaultsOK
  BY DEF TypeOK
<1>1. CASE TimerFires
  <2>1. sock' \in Slots /\ Keeps(sock')
    <3>1. CASE Stored
      <4>1. /\ row \in Addresses /\ Free(sock) # {} /\ FALSE \in BOOLEAN
            /\ sock' = Dial(sock, row, FALSE)
        BY <1>1, <3>1 DEF TimerFires, Stored
      <4> QED
        BY <1>0, <4>1, DialKeeps
    <3>2. CASE ~Stored
      BY <1>0, <1>1, <3>2 DEF TimerFires
    <3> QED
      BY <3>1, <3>2
  <2> QED
    BY <1>1, <1>a, <1>b, <2>1 DEF TimerFires
<1>2. CASE Reconnect
  <2>1. /\ row \in Addresses /\ Free(sock) # {} /\ FALSE \in BOOLEAN
        /\ sock' = Dial(sock, row, FALSE)
    BY <1>2 DEF Reconnect, Stored
  <2>2. sock' \in Slots /\ Keeps(sock')
    BY <1>0, <2>1, DialKeeps
  <2>3. FaultsOK'
    BY <1>2, HappensOnce DEF Reconnect
  <2> QED
    BY <1>2, <1>a, <1>b, <2>2, <2>3 DEF Reconnect
<1>3. CASE AgentRestarts
  <2>1. ASSUME NEW t \in Sockets
        PROVE  /\ sock'[t] \in Socket
               /\ sock'[t].authed = sock[t].authed /\ sock'[t].srv = sock[t].srv
    <3>1. sock[t] \in Socket
      BY <1>0 DEF Slots
    <3>2. CASE sock[t].agt = "none"
      <4>1. sock'[t] = sock[t]
        BY <1>3, <3>2 DEF AgentRestarts
      <4> QED
        BY <3>1, <4>1
    <3>3. CASE sock[t].agt # "none"
      <4>1. sock'[t] = [Cut(sock[t]) EXCEPT !.agt = "closed"]
        BY <1>3, <3>3 DEF AgentRestarts
      <4> QED
        BY <3>1, <4>1 DEF Cut, Socket
    <3> QED
      BY <3>2, <3>3
  <2>2. sock' \in Slots
    <3>1. sock' = [t \in Sockets |-> sock'[t]]
      BY <1>3 DEF AgentRestarts
    <3> QED
      BY <2>1, <3>1 DEF Slots
  <2>3. Keeps(sock')
    BY <2>1, <2>2, ServerBlind
  <2>4. FaultsOK'
    BY <1>3, HappensOnce DEF AgentRestarts
  <2> QED
    BY <1>3, <1>a, <1>b, <2>2, <2>3, <2>4 DEF AgentRestarts
<1>4. ASSUME NEW a \in Addresses, Add(a) PROVE Inv'
  <2>1. Free(sock) # {} /\ TRUE \in BOOLEAN /\ sock' = Dial(sock, a, TRUE)
    BY <1>4 DEF Add
  <2>2. sock' \in Slots /\ Keeps(sock')
    BY <1>0, <2>1, DialKeeps
  <2> QED
    BY <1>4, <1>a, <1>b, <2>2 DEF Add
<1> QED
  BY <1>1, <1>2, <1>3, <1>4

\* No session that is open and authenticated is left.
NoSession(sk) ==
  \A t \in Sockets :
    /\ sk[t].srv = "open" => ~sk[t].authed
    /\ sk[t].srv = "dialing" => ~sk[t].authed

LEMMA NoSessionInv ==
  ASSUME NoSession(sock'), registered' = None
  PROVE  OneSession' /\ RegisteredEnds' /\ DialsFresh'
BY DEF NoSession, OneSession, RegisteredEnds, DialsFresh

LEMMA DialNoSession ==
  ASSUME NEW sk \in Slots, NoSession(sk), Free(sk) # {},
         NEW a \in Addresses, NEW f \in BOOLEAN
  PROVE  Dial(sk, a, f) \in Slots /\ NoSession(Dial(sk, a, f))
<1> DEFINE new == Dial(sk, a, f)
<1>1. TakesFree(sk, new)
  BY DialTakesFree
<1> HIDE DEF new
<1>2. NoSession(new)
  BY <1>1 DEF NoSession, TakesFree
<1> QED
  BY <1>1, <1>2 DEF new, TakesFree

\* Closing the registered socket closes the only session.
LEMMA ClosesSession ==
  ASSUME Inv
  PROVE  Closes(sock, registered) \in Slots /\ NoSession(Closes(sock, registered))
<1> DEFINE sk == Closes(sock, registered)
<1>1. sock \in Slots /\ registered \in Sockets \cup {None}
  BY DEF Inv, TypeOK, Slots
<1>2. /\ sk \in Slots
      /\ \A t \in Sockets : t # registered => sk[t] = sock[t]
      /\ \A t \in Sockets : sk[t].authed = sock[t].authed
      /\ \A t \in Sockets : t = registered => sk[t].srv # "open"
  BY <1>1, ClosesOne
<1> HIDE DEF sk
<1>3. ASSUME NEW t \in Sockets, t = registered
      PROVE  sk[t].srv \in {"open", "closing"} /\ sk[t].srv # "open"
  <2>1. sock[t].srv \in {"open", "closing"}
    BY <1>3 DEF Inv, RegisteredEnds, None, Sockets
  <2> QED
    BY <1>1, <1>2, <1>3, <2>1, ClosesOne DEF sk
<1>4. ASSUME NEW t \in Sockets
      PROVE  (sk[t].srv = "open" => ~sk[t].authed) /\ (sk[t].srv = "dialing" => ~sk[t].authed)
  <2>1. CASE t = registered
    BY <1>3, <2>1
  <2>2. CASE t # registered
    BY <1>2, <2>2 DEF Inv, OneSession, DialsFresh
  <2> QED
    BY <2>1, <2>2
<1> QED
  BY <1>2, <1>4 DEF sk, NoSession

\* Steps after which nothing is registered.
LEMMA ResetStep ==
  ASSUME Inv, Delete \/ ServerRestarts \/ (\E a \in Addresses : ChangeAddress(a))
  PROVE  Inv'
<1> DEFINE closed == Closes(sock, registered)
<1>0. closed \in Slots /\ NoSession(closed)
  BY ClosesSession
<1>a. ASSUME sock' \in Slots, NoSession(sock'), registered' = None, timer' = FALSE,
             row' \in Addresses \cup {NoRow, Deleted}, current' = current,
             told' \in {"nothing", "waiting", "ok", "failed"},
             FaultsOK'
      PROVE  Inv'
  <2>1. TypeOK'
    BY <1>a DEF Inv, TypeOK, Slots
  <2>2. OneSession' /\ RegisteredEnds' /\ DialsFresh'
    BY <1>a, NoSessionInv
  <2> QED
    BY <2>1, <2>2 DEF Inv
<1>b. /\ TypeOK /\ sock \in Slots
      /\ row \in Addresses \cup {NoRow, Deleted}
      /\ told \in {"nothing", "waiting", "ok", "failed"}
  BY DEF Inv, TypeOK, Slots
<1>1. CASE Delete
  <2>1. sock' = closed /\ row' = Deleted
    BY <1>1 DEF Delete
  <2> HIDE DEF closed
  <2>2. FaultsOK'
    BY <1>1, <1>b, HappensOnce DEF Delete
  <2> QED
    BY <1>0, <1>1, <1>a, <1>b, <2>1, <2>2 DEF Delete
<1>2. ASSUME NEW a \in Addresses, ChangeAddress(a) PROVE Inv'
  <2>1. FALSE \in BOOLEAN /\ sock' = Dial(closed, a, FALSE) /\ Free(sock) # {}
    BY <1>2 DEF ChangeAddress
  <2>2. \A t \in Sockets : sock[t].srv \in {"none", "closed"} => closed[t] = sock[t]
    <3>1. registered \in Sockets \cup {None}
      BY DEF Inv, TypeOK
    <3> QED
      BY <1>b, <3>1, ClosesOne
  <2> HIDE DEF closed
  <2>3. Free(closed) # {}
    BY <2>1, <2>2 DEF Free
  <2>4. sock' \in Slots /\ NoSession(sock')
    BY <1>0, <2>1, <2>3, DialNoSession
  <2>5. FaultsOK'
    BY <1>2, <1>b, HappensOnce DEF ChangeAddress
  <2> QED
    BY <1>2, <1>a, <1>b, <2>4, <2>5 DEF ChangeAddress
<1>3. CASE ServerRestarts
  <2> DEFINE ended == [s \in Sockets |->
                         IF sock[s].srv = "none" THEN sock[s]
                         ELSE [Cut(sock[s]) EXCEPT !.srv = "closed"]]
  <2>1. ASSUME NEW t \in Sockets
        PROVE  ended[t] \in Socket /\ ended[t].srv \in {"none", "closed"}
    <3>1. sock[t] \in Socket
      BY <1>b DEF Slots
    <3>2. CASE sock[t].srv = "none"
      BY <3>1, <3>2
    <3>3. CASE sock[t].srv # "none"
      <4>1. ended[t] = [Cut(sock[t]) EXCEPT !.srv = "closed"]
        BY <3>3
      <4> QED
        BY <3>1, <4>1 DEF Cut, Socket
    <3> QED
      BY <3>2, <3>3
  <2>2. ended \in Slots
    BY <2>1 DEF Slots
  <2>3. /\ sock' = IF Stored THEN Dial(ended, row, FALSE) ELSE ended
        /\ Stored => Free(ended) # {}
    BY <1>3 DEF ServerRestarts
  <2> HIDE DEF ended
  <2>4. NoSession(ended)
    BY <2>1 DEF NoSession
  <2>5. sock' \in Slots /\ NoSession(sock')
    <3>1. CASE Stored
      <4>1. row \in Addresses /\ FALSE \in BOOLEAN
        BY <3>1 DEF Stored
      <4> QED
        BY <2>2, <2>3, <2>4, <3>1, <4>1, DialNoSession
    <3>2. CASE ~Stored
      BY <2>2, <2>3, <2>4, <3>2
    <3> QED
      BY <3>1, <3>2
  <2>6. FaultsOK'
    BY <1>3, <1>b, HappensOnce DEF ServerRestarts
  <2>7. /\ registered' = None /\ timer' = FALSE /\ row' = row /\ current' = current
        /\ told' \in {"nothing", "waiting", "ok", "failed"}
    BY <1>3, <1>b DEF ServerRestarts
  <2> QED
    BY <1>a, <1>b, <2>5, <2>6, <2>7
<1> QED
  BY <1>1, <1>2, <1>3

\* The handshake: the session before is closed in the same step.
LEMMA HandleAuthStep ==
  ASSUME Inv, NEW s \in Sockets, HandleAuth(s)
  PROVE  Inv'
<1> DEFINE closed == Closes(sock, registered)
<1>0. closed \in Slots /\ NoSession(closed)
  BY ClosesSession
<1>1. s # registered
  BY DEF HandleAuth, Inv, RegisteredEnds, None, Sockets
<1>2. sock \in Slots /\ registered \in Sockets \cup {None} /\ TypeOK
  BY DEF Inv, TypeOK, Slots
<1>3. closed[s] = sock[s]
  BY <1>1, <1>2, ClosesOne
<1>4. sock' = [closed EXCEPT ![s].hello = FALSE, ![s].authed = TRUE,
                             ![s].welcome = (sock[s].srv = "open")]
  BY DEF HandleAuth
<1> HIDE DEF closed
<1> DEFINE new == [closed[s] EXCEPT !.hello = FALSE, !.authed = TRUE,
                                    !.welcome = (sock[s].srv = "open")]
<1>5. sock' = [closed EXCEPT ![s] = new]
  BY <1>4
<1>6. /\ new \in Socket /\ new.authed
      /\ new.srv \in {"open", "closing"}
  <2>1. closed[s] \in Socket /\ sock[s].srv \in {"open", "closing"}
    BY <1>0 DEF Slots, HandleAuth
  <2>2. (sock[s].srv = "open") \in BOOLEAN
    OBVIOUS
  <2> QED
    BY <1>3, <2>1, <2>2 DEF Socket
<1> HIDE DEF new
<1>7. sock' \in Slots
  BY <1>0, <1>5, <1>6 DEF Slots
<1>8. registered' = s /\ sock'[s] = new
  BY <1>0, <1>5 DEF HandleAuth, Slots
<1>9. \A t \in Sockets : t # s => sock'[t] = closed[t]
  BY <1>0, <1>5 DEF Slots
<1>10. OneSession' /\ RegisteredEnds' /\ DialsFresh'
  <2>1. OneSession'
    BY <1>0, <1>8, <1>9 DEF OneSession, NoSession
  <2>2. RegisteredEnds'
    BY <1>6, <1>8 DEF RegisteredEnds
  <2>3. DialsFresh'
    BY <1>0, <1>6, <1>8, <1>9 DEF DialsFresh, NoSession
  <2> QED
    BY <2>1, <2>2, <2>3
<1>11. TypeOK'
  <2>1. row' \in Addresses \cup {NoRow, Deleted}
    <3>1. sock[s].to \in Addresses \cup {NoRow}
      BY <1>2 DEF Slots, Socket
    <3> QED
      BY <1>2, <3>1 DEF HandleAuth, TypeOK
  <2>2. told' \in {"nothing", "waiting", "ok", "failed"}
    BY <1>2, AnswerTyped DEF HandleAuth
  <2> QED
    BY <1>2, <1>7, <1>8, <2>1, <2>2 DEF TypeOK, HandleAuth, Slots
<1> QED
  BY <1>10, <1>11 DEF Inv

\* The close event: only the socket's own entry is taken out.
LEMMA CloseStep ==
  ASSUME Inv, NEW s \in Sockets, NEW error \in BOOLEAN, SrvSeesClose(s, error)
  PROVE  Inv'
<1> DEFINE new == [sock[s] EXCEPT !.srv = "closed"]
<1>1. sock \in Slots /\ sock[s] \in Socket /\ TypeOK
  BY DEF Inv, TypeOK, Slots
<1>2. new \in Socket /\ new.srv = "closed"
  BY <1>1 DEF Socket
<1>3. sock' = [sock EXCEPT ![s] = new]
  BY DEF SrvSeesClose, EndsAtServer
<1> HIDE DEF new
<1>4. /\ sock' \in Slots /\ sock'[s].srv = "closed"
      /\ \A t \in Sockets : t # s => sock'[t] = sock[t]
  BY <1>1, <1>2, <1>3 DEF Slots
<1>5. registered' = IF registered = s THEN None ELSE registered
  BY DEF SrvSeesClose
<1>6. OneSession' /\ RegisteredEnds' /\ DialsFresh'
  <2>1. OneSession'
    BY <1>4, <1>5 DEF Inv, OneSession
  <2>2. RegisteredEnds'
    BY <1>1, <1>4, <1>5 DEF Inv, RegisteredEnds, TypeOK
  <2>3. DialsFresh'
    BY <1>4 DEF Inv, DialsFresh
  <2> QED
    BY <2>1, <2>2, <2>3
<1>7. TypeOK'
  <2>1. told' \in {"nothing", "waiting", "ok", "failed"}
    BY <1>1, AnswerTyped DEF SrvSeesClose, EndsAtServer
  <2>2. timer' \in BOOLEAN
    BY DEF SrvSeesClose
  <2>3. registered' \in Sockets \cup {None}
    BY <1>1, <1>5 DEF TypeOK
  <2>4. UNCHANGED <<row, current, faultVars>>
    BY DEF SrvSeesClose, EndsAtServer
  <2> QED
    BY <1>1, <1>4, <2>1, <2>2, <2>3, <2>4 DEF TypeOK, Slots
<1> QED
  BY <1>6, <1>7 DEF Inv

LEMMA StepHolds == Inv /\ [Next]_vars => Inv'
<1> SUFFICES ASSUME Inv, [Next]_vars PROVE Inv'
  OBVIOUS
<1>1. CASE \E a \in Addresses : Add(a) \/ ChangeAddress(a)
  BY <1>1, DialStep, ResetStep
<1>2. CASE TimerFires \/ Reconnect \/ AgentRestarts
  BY <1>2, DialStep
<1>3. CASE Delete \/ ServerRestarts
  BY <1>3, ResetStep
<1>4. ASSUME NEW s \in Sockets,
             \/ Open(s) \/ GiveUpDial(s) \/ AuthTimesOut(s) \/ Accept(s) \/ Reject(s)
             \/ HandleAuthSuccess(s) \/ AgtAuthTimesOut(s) \/ AgtSeesClose(s) \/ Break(s)
      PROVE  Inv'
  BY <1>4, QuietStep
<1>5. ASSUME NEW s \in Sockets, HandleAuth(s) PROVE Inv'
  BY <1>5, HandleAuthStep
<1>6. ASSUME NEW s \in Sockets, NEW error \in BOOLEAN, SrvSeesClose(s, error) PROVE Inv'
  BY <1>6, CloseStep
<1>7. CASE UNCHANGED vars
  BY <1>7 DEF vars, Inv, TypeOK, OneSession, RegisteredEnds, DialsFresh
<1> QED
  BY <1>1, <1>2, <1>3, <1>4, <1>5, <1>6, <1>7 DEF Next

\* The inductive invariant holds throughout.
THEOREM Invariance == Spec => []Inv
<1>1. Init => Inv
  BY InitHolds
<1>2. Inv /\ [Next]_vars => Inv'
  BY StepHolds
<1> QED
  BY <1>1, <1>2, PTL DEF Spec

\* The type invariant, for every set of addresses and every bound.
THEOREM TypeCorrect == Spec => []TypeOK
<1>1. Inv => TypeOK
  BY DEF Inv
<1> QED
  BY <1>1, Invariance, PTL

\* ProxyService.registerClient and unregisterClient keep one session per
\* client: one that is authenticated and open is the registered one.
THEOREM SpeaksForOne == Spec => []OneSession
<1>1. Inv => OneSession
  BY DEF Inv
<1> QED
  BY <1>1, Invariance, PTL

\* connectedClients never holds a socket whose close event is over, so that
\* what waits for an answer over it will be failed.
THEOREM EndsBeforeClose == Spec => []RegisteredEnds
<1>1. Inv => RegisteredEnds
  BY DEF Inv
<1> QED
  BY <1>1, Invariance, PTL

-----------------------------------------------------------------------------
(* NeverForgotten and AgentSpeaks. *)

Live(k) == k.srv \in {"dialing", "open", "closing"}

\* How the handshake leaves a slot: frames are under way only on a whole
\* connection, and each end is done in its turn.
Shaped(k) ==
  /\ k.first => k.to \in Addresses
  /\ k.agt = "none" => ~k.authed /\ ~k.ready /\ ~k.hello /\ ~k.welcome
  /\ k.cut => ~k.hello /\ ~k.welcome
  /\ k.authed => ~k.hello
  /\ k.ready => k.authed /\ ~k.welcome
  /\ k.welcome => k.authed

\* The agent has greeted, and nothing broke the connection before the answer.
Greeted(k) == Live(k) /\ ~k.authed => ~k.cut /\ (k.agt # "none" => k.hello)

\* No end gives up the handshake before the other has had its frame.
Patient(k) ==
  /\ k.welcome => k.agt = "open" /\ k.srv \in {"open", "closing"}
  /\ k.hello /\ Live(k) => k.agt = "open"
  /\ k.srv = "closing" => k.authed

NoRefusal == met \cap {"reject", "early", "restart"} = {}
NoOverlap == met \cap {"slow", "reconnect", "change"} = {}

Good(g, p, k) == Shaped(k) /\ (g => Greeted(k)) /\ (p => Patient(k))

Handshakes == \A s \in Sockets : Good(NoRefusal, NoOverlap, sock[s])

\* The socket of firstConnect is the only one of its kind, and the client is
\* not stored before it is authenticated.
FirstOnce ==
  /\ told = "nothing" => \A s \in Sockets : ~sock[s].first
  /\ \A s, t \in Sockets : sock[s].first /\ sock[t].first => s = t
  /\ \A s \in Sockets : sock[s].first /\ ~sock[s].authed => row = NoRow

\* Before the client is stored, only firstConnect dials.
BeforeRow ==
  row = NoRow =>
    /\ ~timer
    /\ \A s \in Sockets : Live(sock[s]) => sock[s].first /\ ~sock[s].authed

\* Without overlap there is one attempt at a time, and none while the timer
\* runs.
OneAttempt ==
  NoOverlap =>
    /\ \A s, t \in Sockets : Live(sock[s]) /\ Live(sock[t]) => s = t
    /\ timer => \A s \in Sockets : ~Live(sock[s])

\* The agent's instance is a connection whose close it has not seen.
CurrentIsOpen ==
  current # None => sock[current].ready /\ sock[current].agt \in {"open", "closing"}

Deep ==
  /\ Inv /\ Handshakes /\ FirstOnce /\ BeforeRow /\ OneAttempt /\ CurrentIsOpen
  /\ NeverForgotten /\ AgentSpeaks

Pursuit == FirstOnce /\ BeforeRow /\ OneAttempt /\ NeverForgotten

LEMMA FaultsGrow == ASSUME NEW kind, Happens(kind)
                    PROVE  met \subseteq met' /\ kind \in met'
BY DEF Happens

LEMMA FreshAttempt ==
  ASSUME NEW a \in Addresses, NEW f \in BOOLEAN
  PROVE  LET new == [Unused EXCEPT !.to = a, !.first = f, !.srv = "dialing"]
         IN  /\ new \in Socket
             /\ new.srv = "dialing" /\ new.agt = "none" /\ new.to = a /\ new.first = f
             /\ ~new.authed /\ ~new.ready /\ ~new.hello /\ ~new.welcome /\ ~new.cut
<1> DEFINE new == [Unused EXCEPT !.to = a, !.first = f, !.srv = "dialing"]
<1>1. new \in Socket
  BY DEF Unused, Socket
<1>2. new.srv = "dialing" /\ new.agt = "none" /\ new.to = a /\ new.first = f
  BY DEF Unused
<1>3. ~new.authed /\ ~new.ready /\ ~new.hello /\ ~new.welcome /\ ~new.cut
  BY DEF Unused
<1> QED
  BY <1>1, <1>2, <1>3

\* A dial resets one free slot.
LEMMA DialsOne ==
  ASSUME NEW sk \in Slots, Free(sk) # {}, NEW a \in Addresses, NEW f \in BOOLEAN
  PROVE  \E s \in Sockets, new \in Socket :
           /\ ~Live(sk[s]) /\ sk[s].agt \in {"none", "closed"}
           /\ Dial(sk, a, f) = [sk EXCEPT ![s] = new]
           /\ Live(new) /\ new.agt = "none" /\ new.to = a /\ new.first = f
           /\ ~new.authed /\ ~new.ready
           /\ \A g, p \in BOOLEAN : Good(g, p, new)
<1> DEFINE s == Slot(sk)
           new == [Unused EXCEPT !.to = a, !.first = f, !.srv = "dialing"]
<1>1. s \in Sockets /\ s \in Free(sk)
  BY DEF Slot, Free
<1>2. Dial(sk, a, f) = [sk EXCEPT ![s] = new]
  BY DEF Dial
<1>3. /\ new \in Socket
      /\ new.srv = "dialing" /\ new.agt = "none" /\ new.to = a /\ new.first = f
      /\ ~new.authed /\ ~new.ready /\ ~new.hello /\ ~new.welcome /\ ~new.cut
  BY FreshAttempt
<1> HIDE DEF new, s
<1>4. ~Live(sk[s]) /\ sk[s].agt \in {"none", "closed"}
  BY <1>1 DEF Free, Live
<1>5. Live(new) /\ \A g, p \in BOOLEAN : Good(g, p, new)
  BY <1>3 DEF Live, Good, Shaped, Greeted, Patient
<1> QED
  BY <1>1, <1>2, <1>3, <1>4, <1>5

\* An attempt goes on as what it was.
Same(k, n) ==
  n.to = k.to /\ n.first = k.first /\ n.authed = k.authed /\ (Live(n) <=> Live(k))

\* A step after which every attempt is what it was leaves the pursuit alone.
LEMMA SameAttempts ==
  ASSUME Deep, met \subseteq met', row' = row, timer' = timer,
         told' = "nothing" => told = "nothing",
         \A t \in Sockets : Same(sock[t], sock'[t])
  PROVE  Pursuit'
<1>1. FirstOnce'
  BY DEF Deep, FirstOnce, Same
<1>2. BeforeRow'
  BY DEF Deep, BeforeRow, Same
<1>3. OneAttempt'
  BY DEF Deep, OneAttempt, NoOverlap, Same
<1>4. NeverForgotten'
  BY DEF Deep, NeverForgotten, Stored, Same, Live
<1> QED
  BY <1>1, <1>2, <1>3, <1>4 DEF Pursuit

\* The faults only grow, so what held of a slot without them still does.
LEMMA StillGood ==
  ASSUME NEW k, Good(NoRefusal, NoOverlap, k), met \subseteq met'
  PROVE  Good(NoRefusal', NoOverlap', k)
BY DEF Good, NoRefusal, NoOverlap

\* A step that changes one slot.
LEMMA OneSlot ==
  ASSUME Deep, met \subseteq met', NEW s \in Sockets, NEW new \in Socket,
         sock' = [sock EXCEPT ![s] = new], Good(NoRefusal', NoOverlap', new)
  PROVE  /\ Handshakes'
         /\ sock'[s] = new
         /\ \A t \in Sockets : t # s => sock'[t] = sock[t]
<1>1. sock \in Slots
  BY DEF Deep, Inv, TypeOK, Slots
<1>2. sock'[s] = new /\ \A t \in Sockets : t # s => sock'[t] = sock[t]
  BY <1>1 DEF Slots
<1>3. \A t \in Sockets : t # s => Good(NoRefusal', NoOverlap', sock'[t])
  BY <1>2, StillGood DEF Deep, Handshakes
<1> QED
  BY <1>2, <1>3 DEF Handshakes

\* What makes a slot one the agent would speak over.
Speaks(k) == k.srv = "open" /\ k.agt = "open" /\ k.ready /\ ~k.cut

\* A step that makes no slot such a one leaves the agent's choice right.
LEMMA SpeakerStays ==
  ASSUME Deep, met \subseteq met', registered' \in {registered, None}, current' = current,
         \A t \in Sockets : registered = t /\ Speaks(sock'[t]) => Speaks(sock[t])
  PROVE  AgentSpeaks'
BY DEF Deep, AgentSpeaks, Speaks, None, Sockets

LEMMA CurrentStays ==
  ASSUME Deep, current' = current,
         \A t \in Sockets :
           sock[t].ready /\ sock[t].agt \in {"open", "closing"} =>
             sock'[t].ready /\ sock'[t].agt \in {"open", "closing"}
  PROVE  CurrentIsOpen'
BY DEF Deep, Inv, TypeOK, CurrentIsOpen

\* Steps that leave every attempt what it was.
LEMMA SameStep ==
  ASSUME Deep, NEW s \in Sockets,
         \/ Open(s) \/ AuthTimesOut(s) \/ Reject(s) \/ HandleAuthSuccess(s)
         \/ AgtAuthTimesOut(s) \/ AgtSeesClose(s) \/ Break(s)
  PROVE  Deep'
<1>0. /\ Inv' /\ sock \in Slots /\ sock[s] \in Socket
      /\ Good(NoRefusal, NoOverlap, sock[s])
      /\ sock[s].srv = "dialing" => ~sock[s].authed
  BY QuietStep DEF Deep, Inv, TypeOK, Slots, Handshakes, DialsFresh
<1>a. ASSUME NEW new \in Socket, sock' = [sock EXCEPT ![s] = new],
             Good(NoRefusal', NoOverlap', new), Same(sock[s], new),
             met \subseteq met', UNCHANGED <<row, timer, registered>>,
             told' = "nothing" => told = "nothing"
      PROVE  /\ Handshakes' /\ Pursuit'
             /\ sock'[s] = new /\ \A t \in Sockets : t # s => sock'[t] = sock[t]
  <2>1. /\ Handshakes'
        /\ sock'[s] = new /\ \A t \in Sockets : t # s => sock'[t] = sock[t]
    BY <1>a, OneSlot
  <2>2. \A t \in Sockets : Same(sock[t], sock'[t])
    BY <1>a, <2>1 DEF Same
  <2>3. Pursuit'
    BY <1>a, <2>2, SameAttempts
  <2> QED
    BY <2>1, <2>3
<1>b. ASSUME NEW new \in Socket, sock' = [sock EXCEPT ![s] = new],
             Good(NoRefusal', NoOverlap', new), Same(sock[s], new),
             met \subseteq met', UNCHANGED <<row, timer, registered, current>>,
             told' = "nothing" => told = "nothing",
             registered = s /\ Speaks(new) => Speaks(sock[s]),
             sock[s].ready /\ sock[s].agt \in {"open", "closing"} =>
               new.ready /\ new.agt \in {"open", "closing"}
      PROVE  Deep'
  <2>1. /\ Handshakes' /\ Pursuit'
        /\ sock'[s] = new /\ \A t \in Sockets : t # s => sock'[t] = sock[t]
    BY <1>a, <1>b
  <2>2. AgentSpeaks'
    BY <1>b, <2>1, SpeakerStays
  <2>3. CurrentIsOpen'
    BY <1>b, <2>1, CurrentStays
  <2> QED
    BY <1>0, <2>1, <2>2, <2>3 DEF Deep, Pursuit
<1>1. CASE Open(s)
  <2> DEFINE new == [sock[s] EXCEPT !.srv = "open"]
  <2>1. sock' = [sock EXCEPT ![s] = new] /\ sock[s].srv = "dialing"
    BY <1>1 DEF Open
  <2>2. new \in Socket /\ Same(sock[s], new) /\ ~new.authed
    BY <1>0, <2>1 DEF Socket, Same, Live
  <2>3. UNCHANGED <<row, timer, registered, current, told, met>>
    BY <1>1 DEF Open
  <2>4. Good(NoRefusal, NoOverlap, new) /\ ~new.ready
    BY <1>0, <2>1, <2>2 DEF Good, Shaped, Greeted, Patient, Live, Socket
  <2>5. new.agt = sock[s].agt /\ new.ready = sock[s].ready
    BY <1>0 DEF Socket
  <2> HIDE DEF new
  <2>6. Good(NoRefusal', NoOverlap', new) /\ met \subseteq met'
    BY <2>3, <2>4, StillGood
  <2> QED
    BY <1>b, <2>1, <2>2, <2>3, <2>4, <2>5, <2>6 DEF Speaks
<1>2. CASE AuthTimesOut(s)
  <2> DEFINE new == [sock[s] EXCEPT !.srv = "closing"]
  <2>1. /\ sock' = [sock EXCEPT ![s] = new] /\ sock[s].srv = "open"
        /\ ~sock[s].authed
    BY <1>0, <1>2 DEF AuthTimesOut, Closes, Slots
  <2>2. new \in Socket /\ Same(sock[s], new) /\ new.srv = "closing"
    BY <1>0, <2>1 DEF Socket, Same, Live
  <2>3. UNCHANGED <<row, timer, registered, current>> /\ met \subseteq met' /\ ~NoOverlap'
    BY <1>2, FaultsGrow DEF AuthTimesOut, NoOverlap
  <2>4. told' = "nothing" => told = "nothing"
    BY <1>2 DEF AuthTimesOut, Answer
  <2>5. Good(NoRefusal, FALSE, new)
    BY <1>0, <2>1 DEF Good, Shaped, Greeted, Live, Socket
  <2>6. new.agt = sock[s].agt /\ new.ready = sock[s].ready
    BY <1>0 DEF Socket
  <2> HIDE DEF new
  <2>7. Good(NoRefusal', NoOverlap', new)
    BY <2>3, <2>5 DEF Good, NoRefusal
  <2> QED
    BY <1>b, <2>1, <2>2, <2>3, <2>4, <2>6, <2>7 DEF Speaks
<1>3. CASE Reject(s)
  <2> DEFINE new == [sock[s] EXCEPT !.agt = "closing"]
  <2>1. sock' = [sock EXCEPT ![s] = new] /\ sock[s].agt = "none" /\ sock[s].srv = "dialing"
    BY <1>3 DEF Reject
  <2>2. new \in Socket /\ Same(sock[s], new) /\ new.agt = "closing"
    BY <1>0, <2>1 DEF Socket, Same, Live
  <2>3. /\ UNCHANGED <<row, timer, registered, current, told>> /\ met \subseteq met'
        /\ ~NoRefusal'
    BY <1>3, FaultsGrow DEF Reject, NoRefusal
  <2>4. Good(FALSE, NoOverlap, new) /\ ~sock[s].ready
    BY <1>0, <2>1 DEF Good, Shaped, Patient, Live, Socket
  <2> HIDE DEF new
  <2>5. Good(NoRefusal', NoOverlap', new)
    BY <2>3, <2>4 DEF Good, NoOverlap
  <2> QED
    BY <1>b, <2>1, <2>2, <2>3, <2>4, <2>5 DEF Speaks
<1>4. CASE HandleAuthSuccess(s)
  <2> DEFINE new == [sock[s] EXCEPT !.welcome = FALSE, !.ready = TRUE]
  <2>1. /\ sock' = [sock EXCEPT ![s] = new]
        /\ sock[s].agt \in {"open", "closing"} /\ sock[s].welcome
    BY <1>4 DEF HandleAuthSuccess
  <2>2. /\ new \in Socket /\ Same(sock[s], new) /\ new.ready
        /\ new.agt = sock[s].agt
    BY <1>0, <2>1 DEF Socket, Same, Live
  <2>3. UNCHANGED <<row, timer, registered, told, met>> /\ current' = s
    BY <1>4 DEF HandleAuthSuccess
  <2>4. Good(NoRefusal, NoOverlap, new)
    BY <1>0, <2>1 DEF Good, Shaped, Greeted, Patient, Live, Socket
  <2> HIDE DEF new
  <2>5. Good(NoRefusal', NoOverlap', new) /\ met \subseteq met'
    BY <2>3, <2>4, StillGood
  <2>6. /\ Handshakes' /\ Pursuit'
        /\ sock'[s] = new /\ \A t \in Sockets : t # s => sock'[t] = sock[t]
    BY <1>a, <2>1, <2>2, <2>3, <2>5
  <2>7. CurrentIsOpen'
    BY <2>1, <2>2, <2>3, <2>6 DEF CurrentIsOpen
  <2>8. AgentSpeaks'
    <3> SUFFICES ASSUME NoOverlap', NEW t \in Sockets, registered' = t, sock'[t].srv = "open"
                 PROVE  t = s
      BY <2>3 DEF AgentSpeaks, NoOverlap
    <3>1. NoOverlap
      BY <2>3 DEF NoOverlap
    <3>2. Live(sock[s])
      BY <1>0, <2>1, <3>1 DEF Good, Patient, Live
    <3>3. CASE t # s
      <4>1. Live(sock[t])
        BY <2>6, <3>3 DEF Live
      <4> QED
        BY <3>1, <3>2, <4>1 DEF Deep, OneAttempt
    <3> QED
      BY <3>3
  <2> QED
    BY <1>0, <2>6, <2>7, <2>8 DEF Deep, Pursuit
<1>5. CASE AgtAuthTimesOut(s)
  <2> DEFINE new == [sock[s] EXCEPT !.agt = "closing"]
  <2>1. /\ sock' = [sock EXCEPT ![s] = new] /\ sock[s].agt = "open"
        /\ ~sock[s].ready
    BY <1>0, <1>5 DEF AgtAuthTimesOut, AgentCloses, Slots
  <2>2. new \in Socket /\ Same(sock[s], new) /\ new.agt = "closing"
    BY <1>0, <2>1 DEF Socket, Same, Live
  <2>3. /\ UNCHANGED <<row, timer, registered, current, told>> /\ met \subseteq met'
        /\ ~NoOverlap'
    BY <1>5, FaultsGrow DEF AgtAuthTimesOut, NoOverlap
  <2>4. Good(NoRefusal, FALSE, new)
    BY <1>0, <2>1 DEF Good, Shaped, Greeted, Live, Socket
  <2> HIDE DEF new
  <2>5. Good(NoRefusal', NoOverlap', new)
    BY <2>3, <2>4 DEF Good, NoRefusal
  <2> QED
    BY <1>b, <2>1, <2>2, <2>3, <2>5 DEF Speaks
<1>6. CASE AgtSeesClose(s)
  <2> DEFINE new == [sock[s] EXCEPT !.agt = "closed"]
  <2>1. /\ sock' = [sock EXCEPT ![s] = new]
        /\ sock[s].agt \in {"open", "closing"}
        /\ sock[s].cut \/ (sock[s].srv \in {"closing", "closed"} /\ ~sock[s].welcome)
    BY <1>6 DEF AgtSeesClose
  <2>2. new \in Socket /\ Same(sock[s], new) /\ new.agt = "closed"
    BY <1>0, <2>1 DEF Socket, Same, Live
  <2>3. /\ UNCHANGED <<row, timer, registered, told, met>>
        /\ current' = IF current = s THEN None ELSE current
    BY <1>6 DEF AgtSeesClose
  <2>4. Good(NoRefusal, NoOverlap, new)
    BY <1>0, <2>1 DEF Good, Shaped, Greeted, Patient, Live, Socket
  <2> HIDE DEF new
  <2>5. Good(NoRefusal', NoOverlap', new) /\ met \subseteq met'
    BY <2>3, <2>4, StillGood
  <2>6. /\ Handshakes' /\ Pursuit'
        /\ sock'[s] = new /\ \A t \in Sockets : t # s => sock'[t] = sock[t]
    BY <1>a, <2>1, <2>2, <2>3, <2>5
  <2>7. CurrentIsOpen'
    <3>1. current \in Sockets \cup {None}
      BY DEF Deep, Inv, TypeOK
    <3> QED
      BY <2>3, <2>6, <3>1 DEF Deep, CurrentIsOpen
  <2>8. AgentSpeaks'
    BY <2>2, <2>3, <2>6 DEF Deep, AgentSpeaks
  <2> QED
    BY <1>0, <2>6, <2>7, <2>8 DEF Deep, Pursuit
<1>7. CASE Break(s)
  <2> DEFINE new == Cut(sock[s])
  <2>1. sock' = [sock EXCEPT ![s] = new] /\ sock[s].srv \in {"open", "closing"}
    BY <1>7 DEF Break
  <2>2. /\ new \in Socket /\ Same(sock[s], new) /\ new.cut
        /\ new.ready = sock[s].ready /\ new.agt = sock[s].agt
    BY <1>0 DEF Socket, Same, Live, Cut
  <2>3. /\ UNCHANGED <<row, timer, registered, current, told>> /\ met \subseteq met'
        /\ NoRefusal' => sock[s].authed
    BY <1>7, FaultsGrow DEF Break, NoRefusal
  <2>4. Good(NoRefusal', NoOverlap, new)
    BY <1>0, <2>3 DEF Good, Shaped, Greeted, Patient, Live, Socket, Cut
  <2> HIDE DEF new
  <2>5. Good(NoRefusal', NoOverlap', new)
    BY <2>3, <2>4 DEF Good, NoOverlap
  <2> QED
    BY <1>b, <2>1, <2>2, <2>3, <2>5 DEF Speaks
<1> QED
  BY <1>1, <1>2, <1>3, <1>4, <1>5, <1>6, <1>7

\* The end of an attempt at the server: none is live that was not.
Ebbs(k, n) ==
  n.to = k.to /\ n.first = k.first /\ n.authed = k.authed /\ (Live(n) => Live(k))

\* A step that ends attempts, dials nobody and leaves no row to pursue.
LEMMA NobodyToPursue ==
  ASSUME Deep, met \subseteq met', timer' = FALSE, row' \notin Addresses,
         row' = row \/ (row # NoRow /\ row' # NoRow),
         told' = "nothing" => told = "nothing",
         \A t \in Sockets : Ebbs(sock[t], sock'[t])
  PROVE  Pursuit'
<1>1. FirstOnce'
  BY DEF Deep, FirstOnce, Ebbs
<1>2. BeforeRow'
  BY DEF Deep, BeforeRow, Ebbs
<1>3. OneAttempt'
  BY DEF Deep, OneAttempt, NoOverlap, Ebbs
<1>4. NeverForgotten'
  BY DEF NeverForgotten, Stored
<1> QED
  BY <1>1, <1>2, <1>3, <1>4 DEF Pursuit

\* The server gives up a dial or sees a close: the pursuit is taken up by the
\* timer, unless it was the dial of firstConnect.
LEMMA EndStep ==
  ASSUME Deep, NEW s \in Sockets,
         GiveUpDial(s) \/ \E error \in BOOLEAN : SrvSeesClose(s, error)
  PROVE  Deep'
<1> DEFINE new == [sock[s] EXCEPT !.srv = "closed"]
<1>0. /\ sock \in Slots /\ sock[s] \in Socket /\ Inv
      /\ Good(NoRefusal, NoOverlap, sock[s])
      /\ sock[s].srv = "dialing" => ~sock[s].authed
  BY DEF Deep, Inv, TypeOK, Slots, Handshakes, DialsFresh
<1>1. Inv'
  BY <1>0, QuietStep, CloseStep
<1>2. /\ sock' = [sock EXCEPT ![s] = new] /\ Live(sock[s])
      /\ UNCHANGED <<row, current>> /\ met \subseteq met'
      /\ told' = "nothing" => told = "nothing"
      /\ timer => timer'
      /\ registered' \in {registered, None}
  BY FaultsGrow DEF GiveUpDial, SrvSeesClose, EndsAtServer, Live, Answer
<1>3. /\ new \in Socket /\ ~Live(new) /\ ~Speaks(new)
      /\ new.to = sock[s].to /\ new.first = sock[s].first /\ new.authed = sock[s].authed
      /\ new.ready = sock[s].ready /\ new.agt = sock[s].agt
  BY <1>0 DEF Socket, Live, Speaks
<1>4. Good(NoRefusal, NoOverlap, new)
  <2>1. CASE GiveUpDial(s)
    BY <1>0, <2>1 DEF GiveUpDial, Good, Shaped, Greeted, Patient, Live, Socket
  <2>2. ASSUME NEW error \in BOOLEAN, SrvSeesClose(s, error)
        PROVE  Good(NoRefusal, NoOverlap, new)
    BY <1>0, <2>2 DEF SrvSeesClose, EndsAtServer, Good, Shaped, Greeted, Patient, Live, Socket
  <2> QED
    BY <2>1, <2>2
<1> HIDE DEF new
<1>5. Good(NoRefusal', NoOverlap', new)
  BY <1>2, <1>4, StillGood
<1>6. /\ Handshakes'
      /\ sock'[s] = new /\ \A t \in Sockets : t # s => sock'[t] = sock[t]
  BY <1>2, <1>3, <1>5, OneSlot
<1>7. \A t \in Sockets : Ebbs(sock[t], sock'[t])
  BY <1>3, <1>6 DEF Ebbs
<1>8. FirstOnce'
  BY <1>2, <1>7 DEF Deep, FirstOnce, Ebbs
<1>9. row = NoRow => sock[s].first /\ ~sock[s].authed /\ ~timer
  BY <1>2 DEF Deep, BeforeRow
<1>10. row = NoRow => ~timer'
  BY <1>9 DEF GiveUpDial, SrvSeesClose
<1>11. BeforeRow'
  BY <1>2, <1>7, <1>10 DEF Deep, BeforeRow, Ebbs
<1>12. OneAttempt'
  <2> SUFFICES ASSUME NoOverlap'
               PROVE  \A t \in Sockets : ~Live(sock'[t])
    BY DEF OneAttempt
  <2>1. NoOverlap
    BY <1>2 DEF NoOverlap
  <2>2. \A t \in Sockets : Live(sock[t]) => t = s
    BY <1>2, <2>1 DEF Deep, OneAttempt
  <2> QED
    BY <1>3, <1>6, <2>2
<1>13. NeverForgotten'
  <2> SUFFICES ASSUME Stored, NoRefusal PROVE timer'
    BY <1>2 DEF NeverForgotten, Stored, NoRefusal
  <2>1. sock[s].first => sock[s].authed
    BY AddressesAssumption DEF Deep, FirstOnce, Stored
  <2>2. CASE GiveUpDial(s)
    BY <1>0, <2>1, <2>2 DEF GiveUpDial
  <2>3. ASSUME NEW error \in BOOLEAN, SrvSeesClose(s, error) PROVE timer'
    BY <1>0, <2>3 DEF SrvSeesClose, EndsAtServer, Good, Greeted, Live
  <2> QED
    BY <2>2, <2>3
<1>14. CurrentIsOpen'
  BY <1>2, <1>3, <1>6, CurrentStays
<1>15. AgentSpeaks'
  BY <1>2, <1>3, <1>6, SpeakerStays
<1> QED
  BY <1>1, <1>6, <1>8, <1>11, <1>12, <1>13, <1>14, <1>15 DEF Deep

\* handleIncoming closes the connection before and forgets it.
LEMMA AcceptStep ==
  ASSUME Deep, NEW s \in Sockets, Accept(s)
  PROVE  Deep'
<1> DEFINE closed == AgentCloses(sock, current)
<1>0. /\ sock \in Slots /\ sock[s] \in Socket /\ current \in Sockets \cup {None}
      /\ Inv' /\ Good(NoRefusal, NoOverlap, sock[s])
      /\ sock[s].srv = "dialing" => ~sock[s].authed
  BY QuietStep DEF Deep, Inv, TypeOK, Slots, Handshakes, DialsFresh
<1>1. /\ sock' = [closed EXCEPT ![s].agt = "open", ![s].hello = TRUE]
      /\ sock[s].srv \in {"dialing", "closed"} /\ sock[s].agt = "none" /\ ~sock[s].cut
      /\ current' = None /\ UNCHANGED <<row, timer, registered, told, met>>
  BY DEF Accept
<1>2. closed \in Slots
  BY <1>0, AgentClosesOne
<1>3. ASSUME NEW t \in Sockets
      PROVE  /\ Same(sock[t], closed[t]) /\ Good(NoRefusal, NoOverlap, closed[t])
             /\ t # current => closed[t] = sock[t]
             /\ t = current => ~Speaks(closed[t])
  <2>1. sock[t] \in Socket /\ Good(NoRefusal, NoOverlap, sock[t])
    BY <1>0 DEF Deep, Handshakes, Slots
  <2>2. CASE t = current /\ sock[t].agt = "open"
    <3>1. closed[t] = [sock[t] EXCEPT !.agt = "closing"]
      BY <2>2 DEF AgentCloses
    <3>2. sock[t].ready
      BY <2>2 DEF Deep, CurrentIsOpen, None, Sockets
    <3> QED
      BY <2>1, <2>2, <3>1, <3>2
         DEF Socket, Same, Live, Good, Shaped, Greeted, Patient, Speaks
  <2>3. CASE ~(t = current /\ sock[t].agt = "open")
    <3>1. closed[t] = sock[t]
      BY <2>3 DEF AgentCloses
    <3> QED
      BY <2>1, <2>3, <3>1 DEF Same, Speaks
  <2> QED
    BY <2>2, <2>3
<1>4. closed[s] = sock[s]
  BY <1>1 DEF AgentCloses
<1> HIDE DEF closed
<1> DEFINE new == [closed[s] EXCEPT !.agt = "open", !.hello = TRUE]
<1>5. sock' = [closed EXCEPT ![s] = new]
  BY <1>1
<1>6. /\ new \in Socket /\ Same(sock[s], new) /\ ~new.ready
      /\ Good(NoRefusal, NoOverlap, new)
  BY <1>0, <1>1, <1>4 DEF Socket, Same, Live, Good, Shaped, Greeted, Patient
<1> HIDE DEF new
<1>7. sock'[s] = new /\ \A t \in Sockets : t # s => sock'[t] = closed[t]
  BY <1>2, <1>5 DEF Slots
<1>8. /\ \A t \in Sockets : Same(sock[t], sock'[t])
      /\ \A t \in Sockets : Good(NoRefusal, NoOverlap, sock'[t])
  BY <1>3, <1>6, <1>7
<1>9. Handshakes'
  BY <1>1, <1>8 DEF Handshakes, NoRefusal, NoOverlap
<1>10. Pursuit'
  BY <1>1, <1>8, SameAttempts
<1>11. CurrentIsOpen'
  BY <1>1 DEF CurrentIsOpen
<1>12. AgentSpeaks'
  <2> SUFFICES ASSUME NoOverlap', NEW t \in Sockets, registered' = t, Speaks(sock'[t])
               PROVE  FALSE
    BY DEF AgentSpeaks, NoOverlap, Speaks
  <2>1. t # s
    BY <1>6, <1>7 DEF Speaks
  <2>2. t # current /\ Speaks(sock[t])
    BY <1>3, <1>7, <2>1
  <2> QED
    BY <1>1, <2>2 DEF Deep, AgentSpeaks, NoOverlap, Speaks
<1> QED
  BY <1>0, <1>9, <1>10, <1>11, <1>12 DEF Deep, Pursuit

\* The server closes a session: it was authenticated, so nobody waits for it.
LEMMA ClosesAsAgreed ==
  ASSUME Deep, NEW t \in Sockets
  PROVE  LET c == Closes(sock, registered)[t] IN
         /\ Same(sock[t], c) /\ Good(NoRefusal, NoOverlap, c)
         /\ c.ready = sock[t].ready /\ c.agt = sock[t].agt
         /\ Speaks(c) => Speaks(sock[t])
<1> DEFINE c == Closes(sock, registered)[t]
<1>1. sock[t] \in Socket /\ Good(NoRefusal, NoOverlap, sock[t])
  BY DEF Deep, Handshakes, Inv, TypeOK
<1>2. CASE t = registered /\ sock[t].srv = "open"
  <2>1. c = [sock[t] EXCEPT !.srv = "closing"]
    BY <1>2 DEF Closes
  <2>2. sock[t].authed
    BY <1>2 DEF Deep, Inv, RegisteredEnds, None, Sockets
  <2> QED
    BY <1>1, <1>2, <2>1, <2>2 DEF Socket, Same, Live, Good, Shaped, Greeted, Patient, Speaks
<1>3. CASE ~(t = registered /\ sock[t].srv = "open")
  <2>1. c = sock[t]
    BY <1>3 DEF Closes
  <2> QED
    BY <1>1, <2>1 DEF Same
<1> QED
  BY <1>2, <1>3

\* AUTH: the client is stored, and the socket it came over is the session.
LEMMA AuthStep ==
  ASSUME Deep, NEW s \in Sockets, HandleAuth(s)
  PROVE  Deep'
<1> DEFINE closed == Closes(sock, registered)
<1>0. /\ sock[s] \in Socket /\ Inv' /\ closed \in Slots
      /\ Good(NoRefusal, NoOverlap, sock[s])
  BY HandleAuthStep, ClosesSession DEF Deep, Inv, TypeOK, Handshakes
<1>1. /\ sock' = [closed EXCEPT ![s].hello = FALSE, ![s].authed = TRUE,
                                ![s].welcome = (sock[s].srv = "open")]
      /\ sock[s].srv \in {"open", "closing"} /\ sock[s].hello /\ ~sock[s].authed
      /\ row' = (IF sock[s].first THEN sock[s].to ELSE row)
      /\ registered' = s /\ UNCHANGED <<timer, current, faults, met>>
      /\ told' = "nothing" => told = "nothing"
  BY DEF HandleAuth, Answer
<1>2. \A t \in Sockets :
        /\ Same(sock[t], closed[t]) /\ Good(NoRefusal, NoOverlap, closed[t])
        /\ closed[t].ready = sock[t].ready /\ closed[t].agt = sock[t].agt
  BY ClosesAsAgreed
<1>3. closed[s] = sock[s]
  <2>1. s # registered
    BY <1>1 DEF Deep, Inv, RegisteredEnds, None, Sockets
  <2> QED
    BY <2>1 DEF Closes
<1> HIDE DEF closed
<1> DEFINE new == [closed[s] EXCEPT !.hello = FALSE, !.authed = TRUE,
                                    !.welcome = (sock[s].srv = "open")]
<1>4. sock' = [closed EXCEPT ![s] = new]
  BY <1>1
<1>5. (sock[s].srv = "open") \in BOOLEAN
  OBVIOUS
<1>6. /\ new \in Socket /\ new.authed /\ Live(new) /\ Live(sock[s])
      /\ new.to = sock[s].to /\ new.first = sock[s].first
      /\ new.ready = sock[s].ready /\ new.agt = sock[s].agt
  BY <1>0, <1>1, <1>3, <1>5 DEF Socket, Live
<1>7. Good(NoRefusal, NoOverlap, new) /\ ~new.ready
  BY <1>0, <1>1, <1>3, <1>5 DEF Socket, Live, Good, Shaped, Greeted, Patient
<1> HIDE DEF new
<1>8. sock'[s] = new /\ \A t \in Sockets : t # s => sock'[t] = closed[t]
  BY <1>0, <1>4 DEF Slots
<1>9. \A t \in Sockets :
        /\ sock'[t].to = sock[t].to /\ sock'[t].first = sock[t].first
        /\ sock[t].authed => sock'[t].authed
        /\ t # s => sock'[t].authed = sock[t].authed
        /\ Live(sock'[t]) <=> Live(sock[t])
        /\ sock'[t].ready = sock[t].ready /\ sock'[t].agt = sock[t].agt
  BY <1>2, <1>6, <1>8 DEF Same
<1>10. Handshakes'
  <2>1. \A t \in Sockets : Good(NoRefusal, NoOverlap, sock'[t])
    BY <1>2, <1>7, <1>8
  <2> QED
    BY <1>1, <2>1 DEF Handshakes, NoRefusal, NoOverlap
<1>11. row' # NoRow
  <2>1. row = NoRow => sock[s].first
    BY <1>6 DEF Deep, BeforeRow
  <2>2. sock[s].first => sock[s].to # NoRow
    BY <1>0, AddressesAssumption DEF Good, Shaped
  <2> QED
    BY <1>1, <2>1, <2>2
<1>12. FirstOnce'
  <2>1. ASSUME NEW t \in Sockets, sock'[t].first, ~sock'[t].authed
        PROVE  row' = NoRow
    <3>1. t # s /\ sock[t].first /\ ~sock[t].authed
      BY <1>6, <1>8, <1>9, <2>1
    <3>2. ~sock[s].first /\ row = NoRow
      BY <3>1 DEF Deep, FirstOnce
    <3> QED
      BY <1>1, <3>2
  <2>2. told' = "nothing" => \A t \in Sockets : ~sock'[t].first
    BY <1>1, <1>9 DEF Deep, FirstOnce
  <2>3. \A t, u \in Sockets : sock'[t].first /\ sock'[u].first => t = u
    BY <1>9 DEF Deep, FirstOnce
  <2> QED
    BY <2>1, <2>2, <2>3 DEF FirstOnce
<1>13. BeforeRow'
  BY <1>11 DEF BeforeRow
<1>14. OneAttempt'
  BY <1>1, <1>9 DEF Deep, OneAttempt, NoOverlap
<1>15. NeverForgotten'
  BY <1>6, <1>8 DEF NeverForgotten, Live
<1>16. CurrentIsOpen'
  BY <1>1, <1>9, CurrentStays
<1>17. AgentSpeaks'
  BY <1>1, <1>7, <1>8 DEF AgentSpeaks
<1> QED
  BY <1>0, <1>10, <1>12, <1>13, <1>14, <1>15, <1>16, <1>17 DEF Deep

\* What a dial needs of the slots it takes one from, so that the invariant
\* holds after it: the attempts in them ebbed, and none is live that the
\* handshake could overlap with.
LEMMA DialDeep ==
  ASSUME Deep, Inv', NEW sk \in Slots, Free(sk) # {},
         NEW a \in Addresses, NEW f \in BOOLEAN,
         sock' = Dial(sk, a, f), met \subseteq met',
         current' = current, registered' \in {registered, None}, timer' = FALSE,
         row' = row \/ (row # NoRow /\ row' # NoRow),
         f => row' = NoRow /\ told = "nothing", row' = NoRow => f,
         told' = "nothing" => told = "nothing" /\ ~f,
         NoOverlap' => \A t \in Sockets : ~Live(sk[t]),
         \A t \in Sockets :
           /\ Ebbs(sock[t], sk[t]) /\ Good(NoRefusal', NoOverlap', sk[t])
           /\ sk[t].ready = sock[t].ready
           /\ sock[t].agt \in {"open", "closing"} => sk[t].agt = sock[t].agt
           /\ Speaks(sk[t]) => Speaks(sock[t])
  PROVE  Deep'
<1>1. PICK s \in Sockets, new \in Socket :
        /\ ~Live(sk[s]) /\ sk[s].agt \in {"none", "closed"}
        /\ sock' = [sk EXCEPT ![s] = new]
        /\ Live(new) /\ new.agt = "none" /\ new.to = a /\ new.first = f
        /\ ~new.authed /\ ~new.ready
        /\ \A g, p \in BOOLEAN : Good(g, p, new)
  BY DialsOne
<1>2. sock'[s] = new /\ \A t \in Sockets : t # s => sock'[t] = sk[t]
  BY <1>1 DEF Slots
<1>3. Handshakes'
  <2>1. NoRefusal' \in BOOLEAN /\ NoOverlap' \in BOOLEAN
    BY DEF NoRefusal, NoOverlap
  <2>2. Good(NoRefusal', NoOverlap', new)
    BY <1>1, <2>1
  <2> QED
    BY <1>2, <2>2 DEF Handshakes
<1>4. FirstOnce'
  <2>1. told' = "nothing" => \A t \in Sockets : ~sock'[t].first
    BY <1>1, <1>2 DEF Deep, FirstOnce, Ebbs
  <2>2. ASSUME NEW t \in Sockets, NEW u \in Sockets, sock'[t].first, sock'[u].first
        PROVE  t = u
    <3>1. CASE f
      BY <1>1, <1>2, <2>2, <3>1 DEF Deep, FirstOnce, Ebbs
    <3>2. CASE ~f
      BY <1>1, <1>2, <2>2, <3>2 DEF Deep, FirstOnce, Ebbs
    <3> QED
      BY <3>1, <3>2
  <2>3. ASSUME NEW t \in Sockets, sock'[t].first, ~sock'[t].authed
        PROVE  row' = NoRow
    BY <1>1, <1>2, <2>3 DEF Deep, FirstOnce, Ebbs
  <2> QED
    BY <2>1, <2>2, <2>3 DEF FirstOnce
<1>5. BeforeRow'
  BY <1>1, <1>2 DEF Deep, BeforeRow, Ebbs
<1>6. OneAttempt'
  BY <1>1, <1>2 DEF OneAttempt
<1>7. NeverForgotten'
  BY <1>1, <1>2 DEF NeverForgotten, Live
<1>8. CurrentIsOpen'
  BY <1>1, <1>2, CurrentStays
<1>9. AgentSpeaks'
  <2>1. \A t \in Sockets : Speaks(sock'[t]) => Speaks(sock[t])
    BY <1>1, <1>2 DEF Speaks
  <2> QED
    BY <2>1, SpeakerStays
<1> QED
  BY <1>3, <1>4, <1>5, <1>6, <1>7, <1>8, <1>9 DEF Deep

LEMMA Unchanged ==
  ASSUME Deep, met \subseteq met', NEW t \in Sockets
  PROVE  Ebbs(sock[t], sock[t]) /\ Good(NoRefusal', NoOverlap', sock[t])
BY StillGood DEF Deep, Handshakes, Ebbs

\* The operator adds the client or asks for a dial, or the timer fires.
LEMMA PlainDialStep ==
  ASSUME Deep, TimerFires \/ Reconnect \/ (\E a \in Addresses : Add(a))
  PROVE  Deep'
<1>0. Inv' /\ sock \in Slots
  BY DialStep DEF Deep, Inv, TypeOK, Slots
<1>1. CASE TimerFires /\ Stored
  <2>1. /\ row \in Addresses /\ FALSE \in BOOLEAN /\ Free(sock) # {}
        /\ sock' = Dial(sock, row, FALSE) /\ timer /\ timer' = FALSE
        /\ UNCHANGED <<row, registered, current, told, met>>
    BY <1>1 DEF TimerFires, Stored
  <2>2. NoOverlap' => \A t \in Sockets : ~Live(sock[t])
    BY <2>1 DEF Deep, OneAttempt, NoOverlap
  <2>3. row # NoRow
    BY <2>1, AddressesAssumption
  <2>4. \A t \in Sockets : Ebbs(sock[t], sock[t]) /\ Good(NoRefusal', NoOverlap', sock[t])
    BY <2>1, Unchanged
  <2> QED
    BY <1>0, <2>1, <2>2, <2>3, <2>4, DialDeep
<1>2. CASE TimerFires /\ ~Stored
  <2>1. /\ sock' = sock /\ timer' = FALSE /\ row' \notin Addresses
        /\ UNCHANGED <<row, registered, current, told, met>>
    BY <1>2 DEF TimerFires, Stored
  <2>2. Pursuit'
    BY <2>1, NobodyToPursue DEF Ebbs
  <2>3. Handshakes' /\ CurrentIsOpen' /\ AgentSpeaks'
    BY <2>1 DEF Deep, Handshakes, NoRefusal, NoOverlap, CurrentIsOpen, AgentSpeaks
  <2> QED
    BY <1>0, <2>2, <2>3 DEF Deep, Pursuit
<1>3. CASE Reconnect
  <2>1. /\ row \in Addresses /\ FALSE \in BOOLEAN /\ Free(sock) # {}
        /\ sock' = Dial(sock, row, FALSE) /\ timer' = FALSE
        /\ UNCHANGED <<row, registered, current, told>>
        /\ met \subseteq met' /\ ~NoOverlap'
    BY <1>3, FaultsGrow DEF Reconnect, Stored, NoOverlap
  <2>2. row # NoRow
    BY <2>1, AddressesAssumption
  <2>3. \A t \in Sockets : Ebbs(sock[t], sock[t]) /\ Good(NoRefusal', NoOverlap', sock[t])
    BY <2>1, Unchanged
  <2> QED
    BY <1>0, <2>1, <2>2, <2>3, DialDeep
<1>4. ASSUME NEW a \in Addresses, Add(a) PROVE Deep'
  <2>1. /\ TRUE \in BOOLEAN /\ Free(sock) # {} /\ sock' = Dial(sock, a, TRUE)
        /\ row = NoRow /\ told = "nothing" /\ told' = "waiting"
        /\ UNCHANGED <<row, timer, registered, current, met>>
    BY <1>4 DEF Add
  <2>2. timer' = FALSE /\ \A t \in Sockets : ~Live(sock[t])
    <3>1. timer \in BOOLEAN
      BY DEF Deep, Inv, TypeOK
    <3> QED
      BY <2>1, <3>1 DEF Deep, BeforeRow, FirstOnce
  <2>3. \A t \in Sockets : Ebbs(sock[t], sock[t]) /\ Good(NoRefusal', NoOverlap', sock[t])
    BY <2>1, Unchanged
  <2> QED
    BY <1>0, <2>1, <2>2, <2>3, DialDeep
<1> QED
  BY <1>1, <1>2, <1>3, <1>4

\* The operator changes the address or deletes the client.
LEMMA OperatorStep ==
  ASSUME Deep, Delete \/ (\E a \in Addresses : ChangeAddress(a))
  PROVE  Deep'
<1> DEFINE closed == Closes(sock, registered)
<1>0. Inv /\ Inv' /\ sock \in Slots /\ closed \in Slots /\ registered \in Sockets \cup {None}
  BY ResetStep, ClosesSession DEF Deep, Inv, TypeOK, Slots
<1>1. \A t \in Sockets :
        /\ Same(sock[t], closed[t]) /\ Good(NoRefusal, NoOverlap, closed[t])
        /\ closed[t].ready = sock[t].ready /\ closed[t].agt = sock[t].agt
        /\ Speaks(closed[t]) => Speaks(sock[t])
  BY ClosesAsAgreed
<1>2. \A t \in Sockets : Ebbs(sock[t], closed[t])
  BY <1>1 DEF Same, Ebbs
<1>3. CASE Delete
  <2>1. /\ sock' = closed /\ row' = Deleted /\ row \in Addresses /\ registered' = None
        /\ timer' = FALSE /\ UNCHANGED <<current, told>> /\ met \subseteq met'
    BY <1>3, FaultsGrow DEF Delete, Stored
  <2> HIDE DEF closed
  <2>2. row' \notin Addresses /\ row # NoRow
    BY <2>1, AddressesAssumption
  <2>3. FirstOnce'
    BY <1>1, <2>1, <2>2 DEF Deep, FirstOnce, Same
  <2>4. BeforeRow'
    <3>1. row' # NoRow
      BY <2>1 DEF Deleted, NoRow
    <3> QED
      BY <3>1 DEF BeforeRow
  <2>5. OneAttempt'
    BY <1>1, <2>1 DEF Deep, OneAttempt, NoOverlap, Same
  <2>6. NeverForgotten'
    BY <2>2 DEF NeverForgotten, Stored
  <2>7. Handshakes'
    BY <1>1, <2>1, StillGood DEF Handshakes
  <2>8. CurrentIsOpen'
    BY <1>1, <2>1, CurrentStays
  <2>9. AgentSpeaks'
    BY <1>1, <2>1, SpeakerStays
  <2> QED
    BY <1>0, <2>3, <2>4, <2>5, <2>6, <2>7, <2>8, <2>9 DEF Deep
<1>4. ASSUME NEW a \in Addresses, ChangeAddress(a) PROVE Deep'
  <2>1. /\ FALSE \in BOOLEAN /\ sock' = Dial(closed, a, FALSE) /\ Free(sock) # {}
        /\ row \in Addresses /\ row' = a /\ timer' = FALSE /\ registered' = None
        /\ UNCHANGED <<current, told>> /\ met \subseteq met' /\ ~NoOverlap'
    BY <1>4, FaultsGrow DEF ChangeAddress, Stored, NoOverlap
  <2>2. \A t \in Sockets : sock[t].srv \in {"none", "closed"} => closed[t] = sock[t]
    BY <1>0, ClosesOne
  <2> HIDE DEF closed
  <2>3. Free(closed) # {}
    BY <2>1, <2>2 DEF Free
  <2>4. row # NoRow /\ row' # NoRow
    BY <2>1, AddressesAssumption
  <2>5. \A t \in Sockets : Good(NoRefusal', NoOverlap', closed[t])
    BY <1>1, <2>1, StillGood
  <2> QED
    BY <1>0, <1>1, <1>2, <2>1, <2>3, <2>4, <2>5, DialDeep
<1> QED
  BY <1>3, <1>4

\* A restart of either end cuts every connection the process had.
LEMMA CutSocket ==
  ASSUME NEW k \in Socket, NEW p \in BOOLEAN, Good(NoRefusal, p, k),
         NEW n, \/ n = [Cut(k) EXCEPT !.srv = "closed"]
                \/ n = [Cut(k) EXCEPT !.agt = "closed"] /\ k.agt # "none"
  PROVE  /\ Good(FALSE, p, n)
         /\ n.to = k.to /\ n.first = k.first /\ n.authed = k.authed /\ n.ready = k.ready
         /\ n.cut
BY DEF Cut, Socket, Good, Shaped, Patient, Live

LEMMA RestartStep ==
  ASSUME Deep, AgentRestarts \/ ServerRestarts
  PROVE  Deep'
<1>0. Inv /\ Inv' /\ sock \in Slots
  BY DialStep, ResetStep DEF Deep, Inv, TypeOK, Slots
<1>1. met \subseteq met' /\ ~NoRefusal'
  BY FaultsGrow DEF AgentRestarts, ServerRestarts, NoRefusal
<1>2. NoOverlap \in BOOLEAN /\ (NoOverlap' => NoOverlap)
  BY <1>1 DEF NoOverlap
<1>3. \A t \in Sockets : sock[t] \in Socket /\ Good(NoRefusal, NoOverlap, sock[t])
  BY <1>0 DEF Deep, Handshakes, Slots
<1>4. CASE AgentRestarts
  <2>1. ASSUME NEW t \in Sockets
        PROVE  Same(sock[t], sock'[t]) /\ Good(FALSE, NoOverlap, sock'[t])
               /\ (sock'[t].cut \/ sock[t] = sock'[t])
               /\ ~Speaks(sock'[t])
    <3>1. CASE sock[t].agt = "none"
      <4>1. sock'[t] = sock[t]
        BY <1>4, <3>1 DEF AgentRestarts
      <4> QED
        BY <1>3, <3>1, <4>1 DEF Same, Good, Speaks
    <3>2. CASE sock[t].agt # "none"
      <4>1. sock'[t] = [Cut(sock[t]) EXCEPT !.agt = "closed"]
        BY <1>4, <3>2 DEF AgentRestarts
      <4>2. sock'[t].srv = sock[t].srv
        BY <1>3, <4>1 DEF Cut, Socket
      <4>3. /\ Good(FALSE, NoOverlap, sock'[t]) /\ sock'[t].cut
            /\ sock'[t].to = sock[t].to /\ sock'[t].first = sock[t].first
            /\ sock'[t].authed = sock[t].authed
        <5> DEFINE n == sock'[t]
        <5>1. /\ sock[t] \in Socket /\ Good(NoRefusal, NoOverlap, sock[t])
              /\ n = [Cut(sock[t]) EXCEPT !.agt = "closed"] /\ sock[t].agt # "none"
              /\ NoOverlap \in BOOLEAN
          BY <1>2, <1>3, <3>2, <4>1
        <5> HIDE DEF n
        <5> QED
          BY <5>1, CutSocket DEF n
      <4> QED
        BY <4>2, <4>3 DEF Same, Live, Speaks
    <3> QED
      BY <3>1, <3>2
  <2>2. /\ UNCHANGED <<row, timer, registered, told>> /\ current' = None
    BY <1>4 DEF AgentRestarts
  <2>3. Pursuit'
    BY <1>1, <2>1, <2>2, SameAttempts
  <2>4. Handshakes'
    BY <1>1, <1>2, <2>1 DEF Handshakes, Good
  <2>5. CurrentIsOpen'
    BY <2>2 DEF CurrentIsOpen
  <2>6. AgentSpeaks'
    BY <2>1 DEF AgentSpeaks, Speaks
  <2> QED
    BY <1>0, <2>3, <2>4, <2>5, <2>6 DEF Deep, Pursuit
<1>5. CASE ServerRestarts
  <2> DEFINE ended == [t \in Sockets |->
                         IF sock[t].srv = "none" THEN sock[t]
                         ELSE [Cut(sock[t]) EXCEPT !.srv = "closed"]]
  <2>1. ASSUME NEW t \in Sockets
        PROVE  /\ ended[t] \in Socket /\ ~Live(ended[t])
               /\ Ebbs(sock[t], ended[t]) /\ Good(NoRefusal', NoOverlap', ended[t])
               /\ ended[t].ready = sock[t].ready /\ ended[t].agt = sock[t].agt
    <3>1. CASE sock[t].srv = "none"
      <4>1. ended[t] = sock[t]
        BY <3>1
      <4> QED
        BY <1>1, <1>3, <3>1, <4>1, StillGood DEF Ebbs, Live
    <3>2. CASE sock[t].srv # "none"
      <4>1. ended[t] = [Cut(sock[t]) EXCEPT !.srv = "closed"]
        BY <3>2
      <4> HIDE DEF ended
      <4>2. /\ ended[t] \in Socket /\ ended[t].srv = "closed"
            /\ ended[t].agt = sock[t].agt
        BY <1>3, <4>1 DEF Cut, Socket
      <4>3. /\ Good(FALSE, NoOverlap, ended[t])
            /\ ended[t].to = sock[t].to /\ ended[t].first = sock[t].first
            /\ ended[t].authed = sock[t].authed /\ ended[t].ready = sock[t].ready
        BY <1>2, <1>3, <4>1, CutSocket
      <4>4. Good(NoRefusal', NoOverlap', ended[t])
        BY <1>1, <1>2, <4>3 DEF Good
      <4> QED
        BY <4>2, <4>3, <4>4 DEF Ebbs, Live
    <3> QED
      BY <3>1, <3>2
  <2>2. ended \in Slots
    BY <2>1 DEF Slots
  <2>3. /\ sock' = IF Stored THEN Dial(ended, row, FALSE) ELSE ended
        /\ Stored => Free(ended) # {}
        /\ registered' = None /\ timer' = FALSE /\ UNCHANGED <<row, current>>
        /\ told' = "nothing" => told = "nothing"
    BY <1>5 DEF ServerRestarts
  <2> HIDE DEF ended
  <2>4. \A t \in Sockets : ~Speaks(ended[t])
    BY <2>1 DEF Speaks, Live
  <2>5. CASE Stored
    <3>1. row \in Addresses /\ row # NoRow /\ FALSE \in BOOLEAN
      BY <2>5, AddressesAssumption DEF Stored
    <3> QED
      BY <1>0, <1>1, <2>1, <2>2, <2>3, <2>4, <2>5, <3>1, DialDeep
  <2>6. CASE ~Stored
    <3>1. sock' = ended /\ row' \notin Addresses
      BY <2>3, <2>6 DEF Stored
    <3>2. Pursuit'
      BY <1>1, <2>1, <2>3, <3>1, NobodyToPursue
    <3>3. Handshakes' /\ CurrentIsOpen'
      BY <2>1, <2>3, <3>1, CurrentStays DEF Handshakes
    <3>4. AgentSpeaks'
      BY <2>4, <3>1 DEF AgentSpeaks, Speaks
    <3> QED
      BY <1>0, <3>2, <3>3, <3>4 DEF Deep, Pursuit
  <2> QED
    BY <2>5, <2>6
<1> QED
  BY <1>4, <1>5

LEMMA InitDeep == Init => Deep
<1> SUFFICES ASSUME Init PROVE Deep
  OBVIOUS
<1> DEFINE none == [s \in Sockets |-> Unused]
<1>1. /\ none \in Slots /\ Free(none) = Sockets
      /\ \A t \in Sockets :
           /\ ~Live(none[t]) /\ ~none[t].first /\ ~none[t].ready
           /\ \A g, p \in BOOLEAN : Good(g, p, none[t])
  BY DEF Slots, Free, Unused, Socket, Live, Good, Shaped, Greeted, Patient
<1>2. Sockets # {}
  BY SocketsAssumption DEF Sockets
<1>3. /\ timer = FALSE /\ current = None /\ registered = None /\ told = "nothing"
  BY DEF Init
<1>4. NoRefusal \in BOOLEAN /\ NoOverlap \in BOOLEAN
  BY DEF NoRefusal, NoOverlap
<1>5. CASE row = NoRow /\ sock = none
  <2>1. Handshakes
    BY <1>1, <1>4, <1>5 DEF Handshakes
  <2>2. FirstOnce /\ BeforeRow /\ OneAttempt
    BY <1>1, <1>3, <1>5 DEF FirstOnce, BeforeRow, OneAttempt
  <2>3. NeverForgotten
    BY <1>5, AddressesAssumption DEF NeverForgotten, Stored
  <2>4. CurrentIsOpen /\ AgentSpeaks
    BY <1>1, <1>3, <1>5 DEF CurrentIsOpen, AgentSpeaks
  <2> QED
    BY <2>1, <2>2, <2>3, <2>4, InitHolds DEF Deep
<1>6. CASE row \in Addresses /\ sock = Dial(none, row, FALSE)
  <2> HIDE DEF none
  <2>1. FALSE \in BOOLEAN /\ row \in Addresses /\ Free(none) # {} /\ row # NoRow
    BY <1>1, <1>2, <1>6, AddressesAssumption
  <2>2. PICK s \in Sockets, new \in Socket :
          /\ ~Live(none[s]) /\ none[s].agt \in {"none", "closed"}
          /\ Dial(none, row, FALSE) = [none EXCEPT ![s] = new]
          /\ Live(new) /\ new.agt = "none" /\ new.to = row /\ new.first = FALSE
          /\ ~new.authed /\ ~new.ready
          /\ \A g, p \in BOOLEAN : Good(g, p, new)
    <3>1. none \in Slots
      BY <1>1
    <3> QED
      BY <2>1, <3>1, DialsOne, Zenon
  <2>3. sock[s] = new /\ \A t \in Sockets : t # s => sock[t] = none[t]
    BY <1>1, <1>6, <2>2 DEF Slots
  <2>4. Handshakes
    BY <1>1, <1>4, <2>2, <2>3 DEF Handshakes
  <2>5. FirstOnce /\ BeforeRow /\ OneAttempt
    BY <1>1, <1>3, <2>1, <2>2, <2>3 DEF FirstOnce, BeforeRow, OneAttempt
  <2>6. NeverForgotten
    BY <2>2, <2>3 DEF NeverForgotten, Live
  <2>7. CurrentIsOpen /\ AgentSpeaks
    BY <1>1, <1>3, <2>2, <2>3 DEF CurrentIsOpen, AgentSpeaks
  <2> QED
    BY <2>4, <2>5, <2>6, <2>7, InitHolds DEF Deep
<1> QED
  BY <1>5, <1>6 DEF Init

LEMMA StepDeep == Deep /\ [Next]_vars => Deep'
<1> SUFFICES ASSUME Deep, [Next]_vars PROVE Deep'
  OBVIOUS
<1>1. CASE TimerFires \/ Reconnect \/ (\E a \in Addresses : Add(a))
  BY <1>1, PlainDialStep
<1>2. CASE Delete \/ (\E a \in Addresses : ChangeAddress(a))
  BY <1>2, OperatorStep
<1>3. CASE ServerRestarts \/ AgentRestarts
  BY <1>3, RestartStep
<1>4. ASSUME NEW s \in Sockets,
             \/ Open(s) \/ AuthTimesOut(s) \/ Reject(s) \/ HandleAuthSuccess(s)
             \/ AgtAuthTimesOut(s) \/ AgtSeesClose(s) \/ Break(s)
      PROVE  Deep'
  BY <1>4, SameStep
<1>5. ASSUME NEW s \in Sockets, Accept(s) PROVE Deep'
  BY <1>5, AcceptStep
<1>6. ASSUME NEW s \in Sockets, HandleAuth(s) PROVE Deep'
  BY <1>6, AuthStep
<1>7. ASSUME NEW s \in Sockets,
             GiveUpDial(s) \/ \E error \in BOOLEAN : SrvSeesClose(s, error)
      PROVE  Deep'
  BY <1>7, EndStep
<1>8. CASE UNCHANGED vars
  <2>1. Inv'
    BY StepHolds DEF Deep
  <2> QED
    BY <1>8, <2>1 DEF vars, Deep, Handshakes, FirstOnce, BeforeRow, OneAttempt, CurrentIsOpen,
                NeverForgotten, AgentSpeaks, Stored, NoRefusal, NoOverlap
<1> QED
  BY <1>1, <1>2, <1>3, <1>4, <1>5, <1>6, <1>7, <1>8 DEF Next

\* The second inductive invariant holds throughout.
THEOREM HandshakesKept == Spec => []Deep
<1>1. Init => Deep
  BY InitDeep
<1>2. Deep /\ [Next]_vars => Deep'
  BY StepDeep
<1> QED
  BY <1>1, <1>2, PTL DEF Spec

\* ClientConnector never drops a stored client: while no connection was
\* closed quietly before AUTH, an attempt, a session or the timer exists.
THEOREM ForgetsNobody == Spec => []NeverForgotten
<1>1. Deep => NeverForgotten
  BY DEF Deep
<1> QED
  BY <1>1, HandshakesKept, PTL

\* Connection.setupConnection: the close of a replaced socket never clears
\* its successor, so both ends agree on the session unless handshakes
\* overlapped.
THEOREM SpeaksOverSession == Spec => []AgentSpeaks
<1>1. Deep => AgentSpeaks
  BY DEF Deep
<1> QED
  BY <1>1, HandshakesKept, PTL

-----------------------------------------------------------------------------
(* The timer of a scheduled job (ScheduledJob).                            *)

HIDE DEF FaultsOK, faultVars

Busy(c) == chain[c].state = "running"
Pending(c) == chain[c].state = "waiting"

JobTypes ==
  /\ process \in {"up", "stopping", "down"} /\ interval \in Intervals
  /\ chain \in [Chains -> [state : {"idle", "waiting", "running"}, left : 0 .. Longest]]
  /\ own \in Chains \cup {NoChain}
  /\ manual \in BOOLEAN /\ doubled \in BOOLEAN
  /\ since \in 0 .. Never /\ last \in 0 .. Never /\ planned \in 0 .. Never
  /\ rest \in 0 .. Longest

\* A process that is down has no timeouts and no runs.
Down ==
  process = "down" =>
    /\ \A c \in Chains : chain[c].state = "idle"
    /\ own = NoChain /\ ~manual /\ ~doubled

\* There is at most one run, and its beginning is noted.
OneRun ==
  /\ \A c, d \in Chains : Busy(c) /\ Busy(d) => c = d
  /\ manual => \A c \in Chains : ~Busy(c)
  /\ Running => since # Never

\* What the scheduler has noted is no older than the timer's own last run:
\* the beginning of the run in progress, and without one of the timer's that
\* of the last run.
Dated ==
  /\ since # Never => since <= rest
  /\ since = Never \/ (Alive /\ \A c \in Chains : ~Busy(c)) =>
       last <= rest \/ (last = Never /\ rest = Longest)

\* Unless the interval was changed during a run, there is one chain, it is
\* the one this.timer holds, and what is left of it makes up the interval.
OneChain ==
  ~doubled =>
    /\ \A c, d \in Chains : chain[c].state # "idle" /\ chain[d].state # "idle" => c = d
    /\ \A c \in Chains : Pending(c) => c = own /\ chain[c].left + rest >= interval

JobInv == JobTypes /\ Down /\ OneRun /\ Dated /\ OneChain

LEMMA Lengths ==
  /\ Longest \in Nat /\ Longest > 0 /\ Longest \in Intervals
  /\ Intervals \subseteq 0 .. Longest
  /\ Never = Longest + 1
<1>1. PICK i \in Intervals : i > 0 /\ \A j \in Intervals : j <= i
  BY IntervalsAssumption
<1>2. Longest \in Intervals /\ \A j \in Intervals : j <= Longest
  BY <1>1 DEF Longest
<1>3. Intervals \subseteq Nat
  BY IntervalsAssumption
<1>4. Longest \in Nat /\ i \in Nat /\ i <= Longest
  BY <1>1, <1>2, <1>3
<1> QED
  BY <1>1, <1>2, <1>3, <1>4 DEF Never

LEMMA FirstWithin ==
  ASSUME NEW i \in Intervals, NEW began \in 0 .. Never, JobTypes
  PROVE  /\ First(i, began) \in 0 .. i
         /\ began # Never => First(i, began) + began >= i
<1>1. i \in 0 .. Longest /\ Longest \in Nat /\ Never = Longest + 1
  BY Lengths
<1>2. planned \in 0 .. Never
  BY DEF JobTypes
<1> QED
  BY <1>1, <1>2 DEF First

\* What start() leaves when no run of the timer is under way.
LEMMA StartLeaves ==
  ASSUME JobInv, NEW i \in Intervals, NEW began \in 0 .. Never, Start(i, began)
  PROVE  /\ chain' \in [Chains -> [state : {"idle", "waiting", "running"}, left : 0 .. Longest]]
         /\ own' \in Chains \cup {NoChain} /\ planned' \in 0 .. Never
         /\ \A c \in Chains : (chain'[c].state = "running") <=> Busy(c)
         /\ ~doubled /\ (\A c \in Chains : ~Busy(c)) /\ (began <= rest \/ rest = Longest) =>
              /\ \A c, d \in Chains :
                   chain'[c].state # "idle" /\ chain'[d].state # "idle" => c = d
              /\ \A c \in Chains : chain'[c].state = "waiting" =>
                   c = own' /\ chain'[c].left + rest >= i
<1> DEFINE S == Stop(chain)
<1> DEFINE R == [state : {"idle", "waiting", "running"}, left : 0 .. Longest]
<1>1. /\ Longest \in Nat /\ Never = Longest + 1 /\ i \in 0 .. Longest
      /\ First(i, began) \in 0 .. i /\ First(i, began) \in 0 .. Longest
      /\ began # Never => First(i, began) + began >= i
      /\ rest \in 0 .. Longest
  BY Lengths, FirstWithin DEF JobInv, JobTypes
<1>2. /\ S \in [Chains -> R]
      /\ \A c \in Chains : (S[c].state = "running") <=> Busy(c)
      /\ \A c \in Chains : S[c].state = "waiting" => Pending(c) /\ c # own
      /\ \A c \in Chains : S[c].state # "idle" => chain[c].state # "idle"
  <2>1. chain \in [Chains -> R] /\ own \in Chains \cup {NoChain}
    BY DEF JobInv, JobTypes
  <2>2. CASE own # NoChain /\ chain[own].state = "waiting"
    <3>1. S = [chain EXCEPT ![own] = Idle] /\ own \in Chains
      BY <2>1, <2>2 DEF Stop
    <3>2. Idle \in R /\ Idle.state = "idle"
      BY <1>1 DEF Idle
    <3>3. \A c \in Chains : S[c] = IF c = own THEN Idle ELSE chain[c]
      BY <2>1, <3>1
    <3> QED
      BY <2>1, <2>2, <3>1, <3>2, <3>3 DEF Busy, Pending
  <2>3. CASE ~(own # NoChain /\ chain[own].state = "waiting")
    <3>1. S = chain
      BY <2>3 DEF Stop
    <3> QED
      BY <2>1, <2>3, <3>1, ChainAssumption DEF Busy, Pending
  <2> QED
    BY <2>2, <2>3
<1>3. ~doubled /\ (\A c \in Chains : ~Busy(c)) => \A c \in Chains : S[c].state = "idle"
  <2> SUFFICES ASSUME ~doubled, \A c \in Chains : ~Busy(c), NEW c \in Chains
               PROVE  S[c].state = "idle"
    OBVIOUS
  <2>1. Pending(c) => c = own
    BY DEF JobInv, OneChain
  <2>2. S[c] \in R
    BY <1>2
  <2> QED
    BY <1>2, <2>1, <2>2
<1>4. CASE i = 0
  <2>1. chain' = S /\ own' = NoChain /\ planned' = Never
    BY <1>4 DEF Start
  <2> HIDE DEF S
  <2> QED
    BY <1>1, <1>2, <1>3, <2>1
<1>5. CASE i # 0
  <2>1. PICK c \in Chains :
          /\ S[c] = Idle /\ chain' = [S EXCEPT ![c] = Waiting(First(i, began))]
          /\ own' = c /\ planned' = First(i, began)
    BY <1>5 DEF Start
  <2>2. /\ Waiting(First(i, began)) \in R
        /\ Waiting(First(i, began)).state = "waiting"
        /\ Waiting(First(i, began)).left = First(i, began)
        /\ Idle.state = "idle"
    BY <1>1 DEF Waiting, Idle
  <2> HIDE DEF S
  <2>3. \A d \in Chains : chain'[d] = IF d = c THEN Waiting(First(i, began)) ELSE S[d]
    BY <1>2, <2>1
  <2>4. chain' \in [Chains -> R]
    BY <1>2, <2>1, <2>2
  <2>5. \A d \in Chains : (chain'[d].state = "running") <=> Busy(d)
    BY <1>2, <2>1, <2>2, <2>3
  <2>6. ASSUME ~doubled, \A d \in Chains : ~Busy(d), began <= rest \/ rest = Longest
        PROVE  /\ \A d \in Chains : chain'[d].state # "idle" => d = c
               /\ chain'[c].left + rest >= i
    <3>1. \A d \in Chains : chain'[d].state # "idle" => d = c
      BY <1>3, <2>3, <2>6
    <3>2. chain'[c].left = First(i, began)
      BY <2>2, <2>3
    <3>3. First(i, began) + rest >= i
      BY <1>1, <2>6
    <3> QED
      BY <3>1, <3>2, <3>3
  <2>7. own' \in Chains /\ planned' \in 0 .. Never
    BY <1>1, <2>1
  <2> QED
    BY <2>1, <2>4, <2>5, <2>6, <2>7
<1> QED
  BY <1>4, <1>5

LEMMA GoOnLeaves ==
  ASSUME JobInv, NEW c \in Chains, GoOn(c)
  PROVE  /\ chain' \in [Chains -> [state : {"idle", "waiting", "running"}, left : 0 .. Longest]]
         /\ own' \in Chains \cup {NoChain} /\ planned' \in 0 .. Never
         /\ \A d \in Chains : d # c => chain'[d] = chain[d]
         /\ \/ chain'[c].state = "waiting" /\ chain'[c].left = interval /\ own' = c
            \/ chain'[c].state = "idle" /\ own' = own
<1> DEFINE R == [state : {"idle", "waiting", "running"}, left : 0 .. Longest]
<1>1. /\ chain \in [Chains -> R] /\ own \in Chains \cup {NoChain}
      /\ interval \in 0 .. Longest /\ Longest \in Nat /\ Never = Longest + 1
  BY Lengths DEF JobInv, JobTypes
<1>2. CASE interval > 0
  <2>1. chain' = [chain EXCEPT ![c] = Waiting(interval)] /\ own' = c /\ planned' = interval
    BY <1>2 DEF GoOn
  <2>2. /\ Waiting(interval) \in R
        /\ Waiting(interval).state = "waiting" /\ Waiting(interval).left = interval
    BY <1>1 DEF Waiting
  <2> QED
    BY <1>1, <2>1, <2>2
<1>3. CASE ~(interval > 0)
  <2>1. chain' = [chain EXCEPT ![c] = Idle] /\ own' = own /\ planned' = Never
    BY <1>3 DEF GoOn
  <2>2. Idle \in R /\ Idle.state = "idle"
    BY <1>1 DEF Idle
  <2> QED
    BY <1>1, <2>1, <2>2
<1> QED
  BY <1>2, <1>3

LEMMA JobInitially ==
  ASSUME JobInit
  PROVE  JobInv
<1>1. /\ process = "down" /\ interval \in Intervals /\ own = NoChain /\ manual = FALSE
      /\ since = Never /\ last = Never /\ planned = Never /\ rest = Longest /\ doubled = FALSE
      /\ chain = [c \in Chains |-> Idle]
  BY DEF JobInit
<1>2. /\ Idle \in [state : {"idle", "waiting", "running"}, left : 0 .. Longest]
      /\ Idle.state = "idle"
  BY Lengths DEF Idle
<1>3. \A c \in Chains : chain[c].state = "idle"
  BY <1>1, <1>2
<1>4. JobTypes
  <2>1. /\ since \in 0 .. Never /\ last \in 0 .. Never /\ planned \in 0 .. Never
        /\ rest \in 0 .. Longest
    BY <1>1, Lengths
  <2>2. chain \in [Chains -> [state : {"idle", "waiting", "running"}, left : 0 .. Longest]]
    BY <1>1, <1>2
  <2> QED
    BY <1>1, <2>1, <2>2 DEF JobTypes
<1>5. Down /\ OneRun /\ Dated /\ OneChain
  BY <1>1, <1>3 DEF Down, OneRun, Dated, OneChain, Running, Busy, Pending
<1> QED
  BY <1>4, <1>5 DEF JobInv

LEMMA BootStep ==
  ASSUME JobInv, Boot
  PROVE  JobInv'
<1>1. /\ JobTypes /\ Longest \in Nat /\ Longest > 0 /\ Never = Longest + 1
      /\ since = Never => last <= rest \/ (last = Never /\ rest = Longest)
      /\ since # Never => since <= rest
      /\ \A c \in Chains : ~Busy(c)
      /\ ~manual /\ ~doubled
  BY Lengths DEF JobInv, Down, Dated, Boot, Busy
<1>2. /\ process' = "up" /\ since' = Never
      /\ last' = IF since # Never THEN since ELSE last
      /\ interval' = interval /\ manual' = manual /\ rest' = rest /\ doubled' = doubled
      /\ Start(interval, last')
  BY DEF Boot
<1>3. /\ last' \in 0 .. Never
      /\ last' <= rest \/ (last' = Never /\ rest = Longest)
  BY <1>1, <1>2 DEF JobTypes
<1>4. /\ chain' \in [Chains -> [state : {"idle", "waiting", "running"}, left : 0 .. Longest]]
      /\ own' \in Chains \cup {NoChain} /\ planned' \in 0 .. Never
      /\ \A c \in Chains : (chain'[c].state = "running") <=> Busy(c)
      /\ \A c, d \in Chains : chain'[c].state # "idle" /\ chain'[d].state # "idle" => c = d
      /\ \A c \in Chains : chain'[c].state = "waiting" =>
           c = own' /\ chain'[c].left + rest >= interval
  BY <1>1, <1>2, <1>3, StartLeaves DEF JobTypes
<1>5. JobTypes'
  BY <1>1, <1>2, <1>3, <1>4 DEF JobTypes
<1>6. Down' /\ OneRun'
  BY <1>1, <1>2, <1>4 DEF Down, OneRun, Running, Busy
<1>7. Dated'
  BY <1>2, <1>3 DEF Dated
<1>8. OneChain'
  BY <1>2, <1>4 DEF OneChain, Pending
<1> QED
  BY <1>5, <1>6, <1>7, <1>8 DEF JobInv

LEMMA ChangeStep ==
  ASSUME JobInv, NEW i \in Intervals, ChangeInterval(i)
  PROVE  JobInv'
<1>1. JobTypes /\ OneRun /\ Dated /\ OneChain
  BY DEF JobInv
<1>2. /\ process = "up" /\ process' = process /\ interval' = i
      /\ Start(i, last)
      /\ doubled' = (doubled \/ \E c \in Chains : chain[c].state = "running")
      /\ manual' = manual /\ since' = since /\ last' = last /\ rest' = rest
  BY DEF ChangeInterval
<1>3. /\ chain' \in [Chains -> [state : {"idle", "waiting", "running"}, left : 0 .. Longest]]
      /\ own' \in Chains \cup {NoChain} /\ planned' \in 0 .. Never
      /\ \A c \in Chains : (chain'[c].state = "running") <=> Busy(c)
      /\ ~doubled /\ (\A c \in Chains : ~Busy(c)) /\ (last <= rest \/ rest = Longest) =>
           /\ \A c, d \in Chains :
                chain'[c].state # "idle" /\ chain'[d].state # "idle" => c = d
           /\ \A c \in Chains : chain'[c].state = "waiting" =>
                c = own' /\ chain'[c].left + rest >= i
  BY <1>1, <1>2, StartLeaves DEF JobTypes
<1>4. JobTypes'
  BY <1>1, <1>2, <1>3 DEF JobTypes
<1>5. Down' /\ OneRun'
  BY <1>1, <1>2, <1>3 DEF Down, OneRun, Running, Busy
<1>6. Dated'
  BY <1>1, <1>2, <1>3 DEF Dated, Alive, Busy
<1>7. OneChain'
  <2> SUFFICES ASSUME ~doubled'
               PROVE  /\ \A c, d \in Chains :
                           chain'[c].state # "idle" /\ chain'[d].state # "idle" => c = d
                      /\ \A c \in Chains : chain'[c].state = "waiting" =>
                           c = own' /\ chain'[c].left + rest >= i
    BY <1>2 DEF OneChain, Pending
  <2>1. ~doubled /\ \A c \in Chains : ~Busy(c)
    BY <1>2 DEF Busy
  <2>2. last <= rest \/ rest = Longest
    BY <1>1, <1>2, <2>1 DEF Dated, Alive
  <2> QED
    BY <1>3, <2>1, <2>2
<1> QED
  BY <1>4, <1>5, <1>6, <1>7 DEF JobInv

\* A due timeout at which no run begins.
LEMMA GoesOnStep ==
  ASSUME JobInv, NEW c \in Chains, Alive, chain[c] = Waiting(0), GoOn(c),
         UNCHANGED <<process, interval, manual, since, last, rest, doubled>>
  PROVE  JobInv'
<1>1. /\ JobTypes /\ OneRun /\ Dated /\ OneChain
      /\ Longest \in Nat /\ Longest > 0 /\ Never = Longest + 1
      /\ interval \in 0 .. Longest
  BY Lengths DEF JobInv, JobTypes
<1>2. chain[c].state = "waiting" /\ chain[c].left = 0
  BY DEF Waiting
<1>3. /\ chain' \in [Chains -> [state : {"idle", "waiting", "running"}, left : 0 .. Longest]]
      /\ own' \in Chains \cup {NoChain} /\ planned' \in 0 .. Never
      /\ \A d \in Chains : d # c => chain'[d] = chain[d]
      /\ \/ chain'[c].state = "waiting" /\ chain'[c].left = interval /\ own' = c
         \/ chain'[c].state = "idle" /\ own' = own
  BY <1>1, GoOnLeaves
<1>4. JobTypes'
  BY <1>1, <1>3 DEF JobTypes
<1>5. \A d \in Chains : (chain'[d].state = "running") <=> Busy(d)
  BY <1>2, <1>3 DEF Busy
<1>6. Down' /\ OneRun' /\ Dated'
  BY <1>1, <1>5 DEF Down, OneRun, Dated, Running, Busy, Alive
<1>7. OneChain'
  BY <1>1, <1>2, <1>3 DEF OneChain, Pending, JobTypes
<1> QED
  BY <1>4, <1>6, <1>7 DEF JobInv

LEMMA FireStep ==
  ASSUME JobInv, NEW c \in Chains, Fire(c) \/ PassOver(c)
  PROVE  JobInv'
<1>1. /\ JobTypes /\ OneRun /\ Dated /\ OneChain
      /\ Longest \in Nat /\ Longest > 0 /\ Never = Longest + 1
      /\ interval \in 0 .. Longest
  BY Lengths DEF JobInv, JobTypes
<1>2. /\ Alive /\ process' = process /\ interval' = interval /\ manual' = manual
      /\ last' = last /\ doubled' = doubled
      /\ chain[c] = Waiting(0) /\ chain[c].state = "waiting" /\ chain[c].left = 0
  BY DEF Fire, PassOver, Waiting
<1>3. CASE PassOver(c) \/ Running
  <2>1. GoOn(c) /\ since' = since /\ rest' = rest
    BY <1>3 DEF Fire, PassOver
  <2> QED
    BY <1>2, <2>1, GoesOnStep
<1>4. CASE Fire(c) /\ ~Running
  <2>1. /\ chain' = [chain EXCEPT ![c] = InRun] /\ since' = 0 /\ rest' = 0
        /\ own' = own /\ planned' = planned
    BY <1>4 DEF Fire
  <2>2. /\ InRun.state = "running"
        /\ InRun \in [state : {"idle", "waiting", "running"}, left : 0 .. Longest]
    BY <1>1 DEF InRun
  <2>3. \A d \in Chains : chain'[d] = IF d = c THEN InRun ELSE chain[d]
    BY <1>1, <2>1 DEF JobTypes
  <2>4. JobTypes'
    BY <1>1, <1>2, <2>1, <2>2 DEF JobTypes
  <2>5. ~manual /\ \A d \in Chains : ~Busy(d)
    BY <1>4 DEF Running, Busy
  <2>6. Down' /\ OneRun'
    BY <1>1, <1>2, <2>1, <2>2, <2>3, <2>5 DEF Down, OneRun, Running, Busy, Alive
  <2>7. Dated'
    BY <1>1, <2>1, <2>2, <2>3 DEF Dated, Busy
  <2>8. OneChain'
    BY <1>1, <1>2, <2>2, <2>3 DEF OneChain, Pending
  <2> QED
    BY <2>4, <2>6, <2>7, <2>8 DEF JobInv
<1> QED
  BY <1>3, <1>4

LEMMA FinishStep ==
  ASSUME JobInv, NEW c \in Chains, Finish(c)
  PROVE  JobInv'
<1>1. /\ JobTypes /\ OneRun /\ Dated /\ OneChain
      /\ Longest \in Nat /\ Longest > 0 /\ Never = Longest + 1
      /\ interval \in 0 .. Longest
  BY Lengths DEF JobInv, JobTypes
<1>2. /\ Alive /\ chain[c].state = "running" /\ last' = since /\ since' = Never
      /\ process' = process /\ interval' = interval /\ manual' = manual
      /\ rest' = rest /\ doubled' = doubled /\ GoOn(c)
  BY DEF Finish
<1>3. /\ chain' \in [Chains -> [state : {"idle", "waiting", "running"}, left : 0 .. Longest]]
      /\ own' \in Chains \cup {NoChain} /\ planned' \in 0 .. Never
      /\ \A d \in Chains : d # c => chain'[d] = chain[d]
      /\ \/ chain'[c].state = "waiting" /\ chain'[c].left = interval /\ own' = c
         \/ chain'[c].state = "idle" /\ own' = own
  BY <1>2, GoOnLeaves
<1>4. JobTypes'
  BY <1>1, <1>2, <1>3 DEF JobTypes
<1>5. ~manual /\ \A d \in Chains : d # c => ~Busy(d)
  BY <1>1, <1>2 DEF OneRun, Busy
<1>6. ~manual' /\ \A d \in Chains : chain'[d].state # "running"
  BY <1>2, <1>3, <1>5 DEF Busy
<1>7. Down' /\ OneRun'
  BY <1>2, <1>6 DEF Down, OneRun, Running, Busy, Alive
<1>8. since # Never /\ since <= rest
  BY <1>1, <1>2 DEF OneRun, Running, Dated
<1>9. Dated'
  BY <1>2, <1>8 DEF Dated
<1>10. OneChain'
  BY <1>1, <1>2, <1>3 DEF OneChain, Pending, JobTypes
<1> QED
  BY <1>4, <1>7, <1>9, <1>10 DEF JobInv

LEMMA ByHandStep ==
  ASSUME JobInv, RunByHand \/ FinishByHand
  PROVE  JobInv'
<1>1. /\ JobTypes /\ OneRun /\ Dated /\ OneChain
      /\ Longest \in Nat /\ Never = Longest + 1
  BY Lengths DEF JobInv
<1>2. /\ Alive /\ process' = process /\ interval' = interval /\ chain' = chain
      /\ own' = own /\ planned' = planned /\ rest' = rest /\ doubled' = doubled
  BY DEF RunByHand, FinishByHand, Alive
<1>3. \A c \in Chains : ~Busy(c)
  BY <1>1 DEF RunByHand, FinishByHand, OneRun, Running, Busy
<1>4. /\ manual' \in BOOLEAN
      /\ \/ manual' /\ since' = 0 /\ last' = last
         \/ ~manual' /\ since' = Never /\ last' = since /\ since # Never
  BY <1>1 DEF RunByHand, FinishByHand, OneRun, Running
<1>5. JobTypes'
  BY <1>1, <1>2, <1>4 DEF JobTypes
<1>6. Down' /\ OneChain'
  BY <1>1, <1>2 DEF Down, OneChain, Pending, Alive
<1>7. OneRun'
  BY <1>1, <1>2, <1>3, <1>4 DEF OneRun, Running, Busy
<1>8. Dated'
  BY <1>1, <1>2, <1>3, <1>4 DEF Dated, JobTypes, Busy
<1> QED
  BY <1>5, <1>6, <1>7, <1>8 DEF JobInv

LEMMA ShutdownStep ==
  ASSUME JobInv, Shutdown
  PROVE  JobInv'
<1> DEFINE R == [state : {"idle", "waiting", "running"}, left : 0 .. Longest]
<1>1. JobTypes /\ OneRun /\ Dated /\ OneChain /\ Longest \in Nat
  BY Lengths DEF JobInv
<1>2. /\ process = "up" /\ process' = "stopping" /\ own' = NoChain
      /\ interval' = interval /\ manual' = manual /\ since' = since /\ last' = last
      /\ planned' = planned /\ rest' = rest /\ doubled' = doubled
      /\ chain' = Stop(chain)
  BY DEF Shutdown
<1>3. /\ chain' \in [Chains -> R]
      /\ \A c \in Chains : IF Pending(c) /\ c = own THEN chain'[c].state = "idle"
                                              ELSE chain'[c] = chain[c]
  <2>1. chain \in [Chains -> R] /\ own \in Chains \cup {NoChain}
    BY <1>1 DEF JobTypes
  <2>2. Idle \in R /\ Idle.state = "idle"
    BY <1>1 DEF Idle
  <2>3. CASE own # NoChain /\ chain[own].state = "waiting"
    BY <1>2, <2>1, <2>2, <2>3 DEF Stop, Pending
  <2>4. CASE ~(own # NoChain /\ chain[own].state = "waiting")
    BY <1>2, <2>1, <2>4, ChainAssumption DEF Stop, Pending
  <2> QED
    BY <2>3, <2>4
<1>4. JobTypes'
  BY <1>1, <1>2, <1>3 DEF JobTypes
<1>5. \A c \in Chains : (chain'[c].state = "running") <=> Busy(c)
  BY <1>3 DEF Busy, Pending
<1>6. Down' /\ OneRun' /\ Dated'
  BY <1>1, <1>2, <1>5 DEF Down, OneRun, Dated, Running, Busy, Alive
<1>7. OneChain'
  BY <1>1, <1>2, <1>3 DEF OneChain, Pending
<1> QED
  BY <1>4, <1>6, <1>7 DEF JobInv

LEMMA ExitStep ==
  ASSUME JobInv, Exit
  PROVE  JobInv'
<1>1. JobTypes /\ Dated /\ Longest \in Nat
  BY Lengths DEF JobInv
<1>2. /\ process' = "down" /\ own' = NoChain /\ manual' = FALSE /\ doubled' = FALSE
      /\ interval' = interval /\ since' = since /\ last' = last
      /\ planned' = planned /\ rest' = rest
      /\ chain' = [c \in Chains |-> Idle]
  BY DEF Exit
<1>3. /\ Idle \in [state : {"idle", "waiting", "running"}, left : 0 .. Longest]
      /\ Idle.state = "idle"
  BY <1>1 DEF Idle
<1>4. /\ chain' \in [Chains -> [state : {"idle", "waiting", "running"}, left : 0 .. Longest]]
      /\ \A c \in Chains : chain'[c].state = "idle"
  BY <1>2, <1>3
<1>5. JobTypes'
  BY <1>1, <1>2, <1>4 DEF JobTypes
<1>6. Down' /\ OneRun'
  BY <1>2, <1>4 DEF Down, OneRun, Running, Busy
<1>7. Dated' /\ OneChain'
  BY <1>1, <1>2, <1>4 DEF Dated, OneChain, Pending, Alive
<1> QED
  BY <1>5, <1>6, <1>7 DEF JobInv

LEMMA TickStep ==
  ASSUME JobInv, Tick
  PROVE  JobInv'
<1> DEFINE R == [state : {"idle", "waiting", "running"}, left : 0 .. Longest]
<1>1. /\ JobTypes /\ Down /\ OneRun /\ Dated /\ OneChain
      /\ Longest \in Nat /\ Longest > 0 /\ Never = Longest + 1
      /\ interval \in 0 .. Longest
  BY Lengths DEF JobInv, JobTypes
<1>2. /\ process' = process /\ interval' = interval /\ own' = own /\ manual' = manual
      /\ doubled' = doubled /\ since' = Aged(since) /\ last' = Aged(last)
      /\ rest' = Aged(rest) /\ planned' = Nearer(planned)
      /\ chain' = [c \in Chains |-> [chain[c] EXCEPT !.left = Nearer(@)]]
  BY DEF Tick
<1>3. \A c \in Chains : /\ chain[c] \in R /\ chain'[c] \in R
                        /\ chain'[c].state = chain[c].state
                        /\ chain'[c].left = Nearer(chain[c].left)
  <2> SUFFICES ASSUME NEW c \in Chains
               PROVE  /\ chain[c] \in R /\ chain'[c] \in R
                      /\ chain'[c].state = chain[c].state
                      /\ chain'[c].left = Nearer(chain[c].left)
    OBVIOUS
  <2>1. chain[c] \in R
    BY <1>1 DEF JobTypes
  <2>2. Nearer(chain[c].left) \in 0 .. Longest
    BY <1>1, <2>1 DEF Nearer
  <2>3. chain'[c] = [chain[c] EXCEPT !.left = Nearer(chain[c].left)]
    BY <1>2
  <2> QED
    BY <2>1, <2>2, <2>3
<1>4. chain' \in [Chains -> R]
  BY <1>2, <1>3
<1>5. /\ since' \in 0 .. Never /\ last' \in 0 .. Never /\ rest' \in 0 .. Longest
      /\ planned' \in 0 .. Never
  BY <1>1, <1>2 DEF JobTypes, Aged, Nearer
<1>6. JobTypes'
  BY <1>1, <1>2, <1>4, <1>5 DEF JobTypes
<1>7. since' = Never <=> since = Never
  BY <1>1, <1>2 DEF JobTypes, Aged
<1>8. Down' /\ OneRun'
  BY <1>1, <1>2, <1>3, <1>7 DEF Down, OneRun, Running, Busy
<1>9. /\ since # Never => since' <= rest'
      /\ last <= rest \/ (last = Never /\ rest = Longest) =>
           last' <= rest' \/ (last' = Never /\ rest' = Longest)
  BY <1>1, <1>2 DEF JobTypes, Dated, Aged
<1>10. Dated'
  BY <1>1, <1>2, <1>3, <1>7, <1>9 DEF Dated, Alive, Busy
<1>11. OneChain'
  <2>1. \A c \in Chains : Pending(c) => Alive /\ chain[c].left # 0
    <3> SUFFICES ASSUME NEW c \in Chains, Pending(c) PROVE Alive /\ chain[c].left # 0
      OBVIOUS
    <3>1. Alive
      BY <1>1 DEF Down, Pending, Alive
    <3>2. chain[c] # Waiting(0)
      BY <3>1 DEF Tick
    <3>3. chain[c] = [state |-> chain[c].state, left |-> chain[c].left]
      BY <1>3
    <3> QED
      BY <3>1, <3>2, <3>3 DEF Pending, Waiting
  <2>2. ASSUME NEW c \in Chains, chain[c].left # 0, chain[c].left + rest >= interval
        PROVE  chain'[c].left + rest' >= interval
    BY <1>1, <1>2, <1>3, <2>2 DEF JobTypes, Aged, Nearer
  <2>3. \A c \in Chains : Pending(c)' => Pending(c)
    BY <1>3 DEF Pending
  <2> QED
    BY <1>1, <1>2, <1>3, <2>1, <2>2, <2>3 DEF OneChain, Pending
<1> QED
  BY <1>6, <1>8, <1>10, <1>11 DEF JobInv

LEMMA JobInductive ==
  ASSUME JobInv, [JobNext]_jobVars
  PROVE  JobInv'
<1>1. CASE Boot
  BY <1>1, BootStep
<1>2. CASE RunByHand \/ FinishByHand
  BY <1>2, ByHandStep
<1>3. CASE Shutdown
  BY <1>3, ShutdownStep
<1>4. CASE Exit
  BY <1>4, ExitStep
<1>5. CASE Tick
  BY <1>5, TickStep
<1>6. CASE \E c \in Chains : Fire(c) \/ PassOver(c) \/ Finish(c)
  BY <1>6, FireStep, FinishStep
<1>7. CASE \E i \in Intervals : ChangeInterval(i)
  BY <1>7, ChangeStep
<1>8. CASE UNCHANGED jobVars
  BY <1>8 DEF jobVars, JobInv, JobTypes, Down, OneRun, Dated, OneChain, Running, Busy, Pending,
    Alive
<1> QED
  BY <1>1, <1>2, <1>3, <1>4, <1>5, <1>6, <1>7, <1>8 DEF JobNext

\* The timer's own bookkeeping: one run at a time and its beginning noted,
\* one chain unless the interval was changed during a run, and never less
\* left of its wait than what is missing of the interval.
THEOREM JobKept == JobSpec => []JobInv
<1>1. JobInit => JobInv
  BY JobInitially
<1>2. JobInv /\ [JobNext]_jobVars => JobInv'
  BY JobInductive
<1> QED
  BY <1>1, <1>2, PTL DEF JobSpec

\* Whatever the intervals, and however often the server is restarted, runs
\* are asked for and the interval is changed: two runs of the timer begin one
\* interval apart, unless a change came during a run.
THEOREM RunsSpacedOut == JobSpec => SpacedOut
<1>1. ASSUME JobInv, NEW c \in Chains, Fire(c), ~Running
      PROVE  rest >= interval \/ doubled
  <2>1. chain[c].state = "waiting" /\ chain[c].left = 0
    BY <1>1 DEF Fire, Waiting
  <2>2. ~doubled => 0 + rest >= interval
    BY <1>1, <2>1 DEF JobInv, OneChain, Pending
  <2>3. rest \in Nat
    BY <1>1, Lengths DEF JobInv, JobTypes
  <2> QED
    BY <2>2, <2>3
<1>2. JobInv /\ [JobNext]_jobVars =>
        [\A c \in Chains : Fire(c) /\ ~Running => rest >= interval \/ doubled]_jobVars
  BY <1>1
<1> QED
  BY <1>2, JobKept, PTL DEF JobSpec, SpacedOut

-----------------------------------------------------------------------------
(* The sweep over the registries (RegistrySweep).                          *)

\* The place of image i in a list of n that is rotated to begin at s.
Spot(s, n, i) == IF i >= s THEN i - s + 1 ELSE i - s + 1 + n

SweepTypes ==
  /\ sweeping \in BOOLEAN /\ due \subseteq Registries
  /\ start \in [Registries -> Nat] /\ next \in [Registries -> Nat]
  /\ limited \in [Registries -> BOOLEAN] /\ paused \in [Registries -> BOOLEAN]
  /\ resume \in [Registries -> Nat]
  /\ saved \in [Registries -> [paused : BOOLEAN, resume : Nat]]
  /\ asking \in [Registries -> SUBSET Nat]
  /\ DOMAIN outcome = Registries
  /\ \A r \in Registries :
       /\ start[r] \in Images(r) /\ next[r] \in 0 .. Size[r]
       /\ resume[r] \in 0 .. Size[r] /\ saved[r].resume \in 0 .. Size[r]
       /\ asking[r] \subseteq Images(r)
       /\ DOMAIN outcome[r] = Images(r)

\* A sweep that is over asks about nothing, and a registry it leaves out is
\* not asked; neither has a resume point that is not saved.
AtRest ==
  \A r \in Registries : ~sweeping \/ r \notin due =>
    asking[r] = {} /\ saved[r].resume = resume[r]

\* Of a registry that is asked, the images the workers have taken are being
\* asked about or have an outcome, and the others have none; there is a worker
\* while there are others.
InTurn ==
  \A r \in Registries : sweeping /\ r \in due =>
    /\ \A i \in Images(r) :
         i \in asking[r] <=> outcome[r][i] = "none" /\ Spot(start[r], Size[r], i) <= next[r]
    /\ \A i \in Images(r) : Spot(start[r], Size[r], i) > next[r] => outcome[r][i] = "none"
    /\ next[r] < Size[r] => asking[r] # {}

\* What was skipped does not lie before the resume point.
NoGapBefore(s, n, res, results) ==
  \A i \in 1 .. n : results[i] = "skipped" =>
    res # 0 /\ Spot(s, n, res) <= Spot(s, n, i)

Settled ==
  \A r \in Registries \ torn : asking[r] = {} =>
    NoGapBefore(start[r], Size[r], resume[r], outcome[r])

SweepInv == SweepTypes /\ AtRest /\ InTurn /\ Settled

LEMMA Rotation ==
  ASSUME NEW n \in Nat \ {0}, NEW s \in 1 .. n, NEW k \in 1 .. n
  PROVE  /\ ((s + k - 2) % n) + 1 \in 1 .. n
         /\ ((s + k - 2) % n) + 1 = IF s + k - 1 <= n THEN s + k - 1 ELSE s + k - 1 - n
<1> DEFINE x == s + k - 2
<1>1. x \in Nat /\ x < 2 * n
  OBVIOUS
<1>2. CASE x < n
  <2>1. x % n = x
    BY <1>1, <1>2
  <2> QED
    BY <2>1, <1>2
<1>3. CASE x >= n
  <2>1. x % n = x - n
    BY <1>1, <1>3
  <2> QED
    BY <2>1, <1>3
<1> QED
  BY <1>1, <1>2, <1>3

\* The k-th image of such a list.
Rot(s, n, k) == ((s + k - 2) % n) + 1

LEMMA SpotRot ==
  ASSUME NEW n \in Nat \ {0}, NEW s \in 1 .. n
  PROVE  /\ \A k \in 1 .. n : Rot(s, n, k) \in 1 .. n /\ Spot(s, n, Rot(s, n, k)) = k
         /\ \A i \in 1 .. n : Spot(s, n, i) \in 1 .. n /\ Rot(s, n, Spot(s, n, i)) = i
         /\ Spot(s, n, s) = 1
<1>1. ASSUME NEW k \in 1 .. n
      PROVE  Rot(s, n, k) \in 1 .. n /\ Spot(s, n, Rot(s, n, k)) = k
  BY Rotation DEF Rot, Spot
<1>2. ASSUME NEW i \in 1 .. n
      PROVE  Spot(s, n, i) \in 1 .. n /\ Rot(s, n, Spot(s, n, i)) = i
  <2>1. Spot(s, n, i) \in 1 .. n
    BY DEF Spot
  <2>2. Rot(s, n, Spot(s, n, i)) =
          IF s + Spot(s, n, i) - 1 <= n THEN s + Spot(s, n, i) - 1
          ELSE s + Spot(s, n, i) - 1 - n
    BY <2>1, Rotation DEF Rot
  <2> QED
    BY <2>1, <2>2 DEF Spot
<1> QED
  BY <1>1, <1>2 DEF Spot

LEMMA AtPlace ==
  ASSUME NEW r \in Registries, start[r] \in Images(r)
  PROVE  /\ Size[r] \in Nat \ {0}
         /\ \A k \in Images(r) : /\ At(r, k) = Rot(start[r], Size[r], k)
                                 /\ At(r, k) \in Images(r)
                                 /\ Spot(start[r], Size[r], At(r, k)) = k
         /\ \A i \in Images(r) : /\ Spot(start[r], Size[r], i) \in Images(r)
                                 /\ At(r, Spot(start[r], Size[r], i)) = i
                                 /\ Place(r, i) = Spot(start[r], Size[r], i)
<1>1. Size[r] \in Nat \ {0}
  BY SizeAssumption
<1>2. \A k \in Images(r) : At(r, k) = Rot(start[r], Size[r], k)
  BY DEF At, Rot
<1>6. /\ \A k \in 1 .. Size[r] : /\ Rot(start[r], Size[r], k) \in 1 .. Size[r]
                              /\ Spot(start[r], Size[r], Rot(start[r], Size[r], k)) = k
      /\ \A i \in 1 .. Size[r] : /\ Spot(start[r], Size[r], i) \in 1 .. Size[r]
                              /\ Rot(start[r], Size[r], Spot(start[r], Size[r], i)) = i
  BY <1>1, SpotRot DEF Images
<1>3. \A k \in Images(r) : At(r, k) \in Images(r) /\ Spot(start[r], Size[r], At(r, k)) = k
  BY <1>2, <1>6 DEF Images
<1>4. \A i \in Images(r) : /\ Spot(start[r], Size[r], i) \in Images(r)
                          /\ At(r, Spot(start[r], Size[r], i)) = i
  BY <1>2, <1>6 DEF Images
<1>5. ASSUME NEW i \in Images(r)
      PROVE  Place(r, i) = Spot(start[r], Size[r], i)
  <2>1. \E k \in Images(r) : At(r, k) = i
    BY <1>4
  <2>2. \A k \in Images(r) : At(r, k) = i => k = Spot(start[r], Size[r], i)
    BY <1>3
  <2> QED
    BY <2>1, <2>2 DEF Place
<1> QED
  BY <1>1, <1>2, <1>3, <1>4, <1>5

LEMMA LeastPlace ==
  ASSUME NEW S \in SUBSET Nat, S # {}
  PROVE  \E m \in S : \A k \in S : m <= k
<1>1. IsWellFoundedOn(OpToRel(<, Nat), Nat)
  BY NatLessThanWellFounded
<1>2. PICK m \in S : \A k \in S : ~(<<k, m>> \in OpToRel(<, Nat))
  BY <1>1, WFMin, Zenon
<1>3. \A k \in S : m \in Nat /\ k \in Nat /\ ~(k < m)
  BY <1>2 DEF OpToRel
<1> QED
  BY <1>3

LEMMA FirstSkippedIs ==
  ASSUME NEW r \in Registries, start[r] \in Images(r), NEW results
  PROVE  /\ FirstSkipped(r, results) \in 0 .. Size[r]
         /\ NoGapBefore(start[r], Size[r], FirstSkipped(r, results), results)
<1> DEFINE skipped == {k \in Images(r) : results[At(r, k)] = "skipped"}
<1> DEFINE first == CHOOSE k \in skipped : \A l \in skipped : k <= l
<1>1. Size[r] \in Nat \ {0}
  BY AtPlace
<1>2. ASSUME NEW i \in Images(r), results[i] = "skipped"
      PROVE  Spot(start[r], Size[r], i) \in skipped
  BY <1>2, AtPlace
<1>3. CASE skipped = {}
  <2>1. FirstSkipped(r, results) = 0
    BY <1>3 DEF FirstSkipped
  <2>2. \A i \in Images(r) : results[i] # "skipped"
    BY <1>2, <1>3
  <2> QED
    BY <1>1, <2>1, <2>2 DEF NoGapBefore, Images
<1>4. CASE skipped # {}
  <2>1. FirstSkipped(r, results) = At(r, first)
    BY <1>4 DEF FirstSkipped
  <2>2. skipped \in SUBSET Nat
    BY <1>1 DEF Images
  <2>3. \E m \in skipped : \A k \in skipped : m <= k
    BY <1>4, <2>2, LeastPlace
  <2>4. first \in skipped /\ \A l \in skipped : first <= l
    BY <2>3
  <2>5. first \in Images(r)
    BY <2>4
  <2> HIDE DEF first
  <2>6. At(r, first) \in Images(r) /\ Spot(start[r], Size[r], At(r, first)) = first
    BY <2>5, AtPlace
  <2> QED
    BY <1>1, <1>2, <2>1, <2>4, <2>6 DEF NoGapBefore, Images
<1> QED
  BY <1>3, <1>4

LEMMA SweepInitially ==
  ASSUME SweepInit
  PROVE  SweepInv
<1>1. \A r \in Registries : Size[r] \in Nat \ {0}
  BY SizeAssumption
<1>2. SweepTypes
  <2>1. saved \in [Registries -> [paused : BOOLEAN, resume : Nat]]
    BY DEF SweepInit
  <2>2. \A r \in Registries : saved[r].resume = 0
    BY DEF SweepInit
  <2>3. DOMAIN outcome = Registries /\ \A r \in Registries : DOMAIN outcome[r] = Images(r)
    BY DEF SweepInit
  <2>4. \A r \in Registries :
          start[r] = 1 /\ next[r] = 0 /\ resume[r] = 0 /\ asking[r] = {}
    BY DEF SweepInit
  <2>5. /\ start \in [Registries -> Nat] /\ next \in [Registries -> Nat]
        /\ limited \in [Registries -> BOOLEAN] /\ paused \in [Registries -> BOOLEAN]
        /\ resume \in [Registries -> Nat] /\ asking \in [Registries -> SUBSET Nat]
        /\ sweeping \in BOOLEAN /\ due \subseteq Registries
    BY DEF SweepInit
  <2> QED
    BY <1>1, <2>1, <2>2, <2>3, <2>4, <2>5 DEF SweepTypes, Images
<1>3. AtRest /\ InTurn
  BY DEF SweepInit, AtRest, InTurn
<1>4. Settled
  <2> SUFFICES ASSUME NEW r \in Registries, NEW i \in Images(r), outcome[r][i] = "skipped"
               PROVE  FALSE
    BY DEF Settled, NoGapBefore, Images
  <2>1. outcome[r][i] = "none"
    BY DEF SweepInit
  <2> QED
    BY <2>1
<1> QED
  BY <1>2, <1>3, <1>4 DEF SweepInv

LEMMA BeginStep ==
  ASSUME SweepInv, NEW byHand \in BOOLEAN, Begin(byHand)
  PROVE  SweepInv'
<1> DEFINE first(r) == IF Concurrency < Size[r] THEN Concurrency ELSE Size[r]
<1>1. /\ ~sweeping /\ sweeping' = TRUE /\ due' \subseteq Registries
      /\ start' = [r \in Registries |-> IF resume[r] = 0 THEN 1 ELSE resume[r]]
      /\ next' = [r \in Registries |-> IF r \in due' THEN first(r) ELSE 0]
      /\ asking' = [r \in Registries |->
                      IF r \in due' THEN {At(r, k)' : k \in 1 .. first(r)} ELSE {}]
      /\ limited' = [r \in Registries |-> FALSE]
      /\ outcome' = [r \in Registries |->
                       IF r \in due' THEN [i \in Images(r) |-> "none"] ELSE outcome[r]]
      /\ torn' = torn \ due'
      /\ paused' = paused /\ resume' = resume /\ saved' = saved
  BY DEF Begin
<1>2. /\ SweepTypes /\ AtRest /\ Settled
      /\ \A r \in Registries : /\ Size[r] \in Nat \ {0} /\ first(r) \in 1 .. Size[r]
                              /\ start'[r] \in Images(r)
                              /\ start'[r] = IF resume[r] = 0 THEN 1 ELSE resume[r]
  BY <1>1, SizeAssumption, ConcurrencyAssumption DEF SweepInv, SweepTypes, Images
<1>3. ASSUME NEW r \in Registries, r \in due'
      PROVE  /\ asking'[r] = {Rot(start'[r], Size[r], k) : k \in 1 .. first(r)}
             /\ asking'[r] \subseteq Images(r) /\ asking'[r] # {}
             /\ next'[r] = first(r)
             /\ \A i \in Images(r) : outcome'[r][i] = "none"
             /\ \A i \in Images(r) :
                  i \in asking'[r] <=> Spot(start'[r], Size[r], i) <= first(r)
  <2>1. asking'[r] = {Rot(start'[r], Size[r], k) : k \in 1 .. first(r)}
    BY <1>1, <1>3 DEF At, Rot
  <2>2. /\ \A k \in 1 .. Size[r] : /\ Rot(start'[r], Size[r], k) \in 1 .. Size[r]
                                /\ Spot(start'[r], Size[r], Rot(start'[r], Size[r], k)) = k
        /\ \A i \in 1 .. Size[r] : /\ Spot(start'[r], Size[r], i) \in 1 .. Size[r]
                                /\ Rot(start'[r], Size[r], Spot(start'[r], Size[r], i)) = i
    BY <1>2, SpotRot DEF Images
  <2>3. first(r) \in 1 .. Size[r] /\ Size[r] \in Nat
    BY <1>2
  <2>4. /\ next'[r] = first(r)
        /\ \A i \in Images(r) : outcome'[r][i] = "none"
    BY <1>1, <1>3
  <2> HIDE DEF first
  <2>5. asking'[r] \subseteq Images(r)
    BY <2>1, <2>2, <2>3 DEF Images
  <2>6. Rot(start'[r], Size[r], 1) \in asking'[r]
    BY <2>1, <2>3
  <2>7. ASSUME NEW i \in Images(r)
        PROVE  i \in asking'[r] <=> Spot(start'[r], Size[r], i) <= first(r)
    BY <2>1, <2>2, <2>3 DEF Images
  <2> QED
    BY <2>1, <2>4, <2>5, <2>6, <2>7
<1>4. \A r \in Registries \ due' : asking'[r] = {} /\ outcome'[r] = outcome[r] /\ next'[r] = 0
  BY <1>1
<1>5. SweepTypes'
  <2>1. /\ start' \in [Registries -> Nat] /\ next' \in [Registries -> Nat]
        /\ limited' \in [Registries -> BOOLEAN]
    BY <1>1, <1>2 DEF SweepTypes
  <2>2. \A r \in Registries : asking'[r] \subseteq Images(r) /\ Images(r) \subseteq Nat
    BY <1>2, <1>3, <1>4 DEF Images
  <2>3. asking' \in [Registries -> SUBSET Nat]
    BY <1>1, <2>2
  <2>4. DOMAIN outcome' = Registries /\ \A r \in Registries : DOMAIN outcome'[r] = Images(r)
    BY <1>1, <1>2 DEF SweepTypes
  <2>5. \A r \in Registries : next'[r] \in 0 .. Size[r]
    BY <1>2, <1>3, <1>4
  <2> QED
    BY <1>1, <1>2, <2>1, <2>2, <2>3, <2>4, <2>5 DEF SweepTypes
<1>6. AtRest'
  BY <1>1, <1>2, <1>4 DEF AtRest
<1>7. InTurn'
  <2> HIDE DEF first
  <2>1. ASSUME NEW r \in Registries, r \in due'
        PROVE  /\ \A i \in Images(r) : i \in asking'[r] <=>
                    outcome'[r][i] = "none" /\ Spot(start'[r], Size[r], i) <= next'[r]
               /\ \A i \in Images(r) :
                    Spot(start'[r], Size[r], i) > next'[r] => outcome'[r][i] = "none"
               /\ next'[r] < Size[r] => asking'[r] # {}
    BY <1>3, <2>1
  <2> QED
    BY <2>1 DEF InTurn
<1>8. Settled'
  <2> SUFFICES ASSUME NEW r \in Registries, r \notin torn', asking'[r] = {}
               PROVE  NoGapBefore(start'[r], Size[r], resume[r], outcome'[r])
    BY <1>1 DEF Settled
  <2>1. r \notin due' /\ r \notin torn
    BY <1>1, <1>3
  <2>2. NoGapBefore(start[r], Size[r], resume[r], outcome[r])
    BY <1>1, <1>2, <2>1 DEF AtRest, Settled
  <2>3. outcome'[r] = outcome[r]
    BY <1>4, <2>1
  <2>4. resume[r] # 0 => Spot(start'[r], Size[r], resume[r]) = 1
    BY <1>2, SpotRot DEF Images
  <2>5. \A i \in 1 .. Size[r] : Spot(start'[r], Size[r], i) \in 1 .. Size[r]
    BY <1>2, SpotRot DEF Images
  <2> QED
    BY <2>2, <2>3, <2>4, <2>5 DEF NoGapBefore
<1> QED
  BY <1>5, <1>6, <1>7, <1>8 DEF SweepInv

LEMMA SweepRestartStep ==
  ASSUME SweepInv, Restart
  PROVE  SweepInv'
<1>1. /\ sweeping' = FALSE /\ due' = {}
      /\ torn' = torn \cup {r \in due : sweeping}
      /\ asking' = [r \in Registries |-> {}]
      /\ paused' = [r \in Registries |-> saved[r].paused]
      /\ resume' = [r \in Registries |-> saved[r].resume]
      /\ start' = start /\ next' = next /\ limited' = limited /\ outcome' = outcome
      /\ saved' = saved
  BY DEF Restart
<1>2. SweepTypes'
  BY <1>1 DEF SweepInv, SweepTypes
<1>3. AtRest' /\ InTurn'
  BY <1>1 DEF AtRest, InTurn
<1>4. Settled'
  <2> SUFFICES ASSUME NEW r \in Registries, r \notin torn'
               PROVE  NoGapBefore(start[r], Size[r], resume'[r], outcome[r])
    BY <1>1 DEF Settled
  <2>1. r \notin torn /\ (~sweeping \/ r \notin due)
    BY <1>1
  <2> QED
    BY <1>1, <2>1 DEF SweepInv, AtRest, Settled
<1> QED
  BY <1>2, <1>3, <1>4 DEF SweepInv

LEMMA PauseEndsStep ==
  ASSUME SweepInv, NEW r \in Registries, PauseEnds(r)
  PROVE  SweepInv'
<1>1. /\ paused' = [paused EXCEPT ![r] = FALSE]
      /\ saved' = [saved EXCEPT ![r].paused = FALSE]
      /\ sweeping' = sweeping /\ due' = due /\ start' = start /\ next' = next
      /\ asking' = asking /\ limited' = limited /\ outcome' = outcome /\ resume' = resume
      /\ torn' = torn
  BY DEF PauseEnds
<1>2. /\ saved' \in [Registries -> [paused : BOOLEAN, resume : Nat]]
      /\ \A q \in Registries : saved'[q].resume = saved[q].resume
      /\ paused' \in [Registries -> BOOLEAN]
  <2>1. /\ saved \in [Registries -> [paused : BOOLEAN, resume : Nat]]
        /\ paused \in [Registries -> BOOLEAN]
    BY DEF SweepInv, SweepTypes
  <2>2. [saved[r] EXCEPT !.paused = FALSE] \in [paused : BOOLEAN, resume : Nat]
    BY <2>1
  <2>3. [saved[r] EXCEPT !.paused = FALSE].resume = saved[r].resume
    BY <2>1
  <2>4. saved' = [saved EXCEPT ![r] = [saved[r] EXCEPT !.paused = FALSE]]
    BY <1>1
  <2>5. \A q \in Registries :
          saved'[q] = IF q = r THEN [saved[r] EXCEPT !.paused = FALSE] ELSE saved[q]
    BY <2>1, <2>4
  <2> QED
    BY <1>1, <2>1, <2>2, <2>3, <2>4, <2>5
<1>3. SweepTypes' /\ AtRest'
  BY <1>1, <1>2 DEF SweepInv, SweepTypes, AtRest
<1>4. InTurn' /\ Settled'
  BY <1>1 DEF SweepInv, InTurn, Settled
<1> QED
  BY <1>3, <1>4 DEF SweepInv


\* What a worker leaves of its own registry once it has its answer.
LEMMA WorkerLeaves ==
  ASSUME SweepInv, NEW r \in Registries, NEW i \in Images(r), i \in asking[r],
         NEW result, result # "none", Worker(r, i, result)
  PROVE  /\ \A q \in Registries \ {r} :
              asking'[q] = asking[q] /\ next'[q] = next[q] /\ outcome'[q] = outcome[q]
         /\ next' \in [Registries -> Nat] /\ next'[r] \in 0 .. Size[r]
         /\ asking' \in [Registries -> SUBSET Nat] /\ asking'[r] \subseteq Images(r)
         /\ DOMAIN outcome' = Registries /\ DOMAIN outcome'[r] = Images(r)
         /\ \A j \in Images(r) :
              j \in asking'[r] <=>
                outcome'[r][j] = "none" /\ Spot(start[r], Size[r], j) <= next'[r]
         /\ \A j \in Images(r) :
              Spot(start[r], Size[r], j) > next'[r] => outcome'[r][j] = "none"
         /\ next'[r] < Size[r] => asking'[r] # {}
<1>1. /\ SweepTypes /\ sweeping /\ r \in due
      /\ Size[r] \in Nat \ {0} /\ start[r] \in Images(r) /\ next[r] \in 0 .. Size[r]
      /\ asking[r] \subseteq Images(r)
      /\ DOMAIN outcome = Registries /\ DOMAIN outcome[r] = Images(r)
  BY SizeAssumption DEF SweepInv, SweepTypes, AtRest
<1>2. /\ \A j \in Images(r) :
           j \in asking[r] <=> outcome[r][j] = "none" /\ Spot(start[r], Size[r], j) <= next[r]
      /\ \A j \in Images(r) : Spot(start[r], Size[r], j) > next[r] => outcome[r][j] = "none"
  BY <1>1 DEF SweepInv, InTurn
<1>3. /\ \A k \in Images(r) : At(r, k) \in Images(r) /\ Spot(start[r], Size[r], At(r, k)) = k
      /\ \A j \in Images(r) : /\ Spot(start[r], Size[r], j) \in 1 .. Size[r]
                              /\ At(r, Spot(start[r], Size[r], j)) = j
                              /\ Place(r, j) = Spot(start[r], Size[r], j)
  BY <1>1, AtPlace DEF Images
<1>4. Images(r) \subseteq Nat
  BY <1>1 DEF Images
<1>5. CASE limited'[r]
  <2>1. /\ outcome' = [outcome EXCEPT ![r] =
             [j \in Images(r) |->
                IF j = i THEN result
                ELSE IF Place(r, j) > next[r] THEN "skipped" ELSE @[j]]]
        /\ asking' = [asking EXCEPT ![r] = @ \ {i}]
        /\ next' = [next EXCEPT ![r] = Size[r]]
    BY <1>5 DEF Worker
  <2>2. /\ \A q \in Registries \ {r} :
             asking'[q] = asking[q] /\ next'[q] = next[q] /\ outcome'[q] = outcome[q]
        /\ asking'[r] = asking[r] \ {i} /\ next'[r] = Size[r]
        /\ outcome'[r] = [j \in Images(r) |->
             IF j = i THEN result
             ELSE IF Place(r, j) > next[r] THEN "skipped" ELSE outcome[r][j]]
        /\ DOMAIN outcome' = Registries
    BY <1>1, <2>1 DEF SweepTypes
  <2>3. /\ next' \in [Registries -> Nat] /\ asking' \in [Registries -> SUBSET Nat]
        /\ next'[r] \in 0 .. Size[r] /\ asking'[r] \subseteq Images(r)
    BY <1>1, <2>1, <2>2 DEF SweepTypes
  <2>4. DOMAIN outcome'[r] = Images(r)
    BY <2>2
  <2>5. ASSUME NEW j \in Images(r)
        PROVE  /\ j \in asking'[r] <=>
                    outcome'[r][j] = "none" /\ Spot(start[r], Size[r], j) <= next'[r]
               /\ ~(Spot(start[r], Size[r], j) > next'[r])
    <3>1. outcome'[r][j] = IF j = i THEN result
            ELSE IF Spot(start[r], Size[r], j) > next[r] THEN "skipped" ELSE outcome[r][j]
      BY <1>3, <2>2
    <3>2. Spot(start[r], Size[r], j) \in 1 .. Size[r]
      BY <1>3
    <3> QED
      BY <1>1, <1>2, <2>2, <3>1, <3>2
  <2>6. ~(next'[r] < Size[r])
    BY <1>1, <2>2
  <2> QED
    BY <2>2, <2>3, <2>4, <2>5, <2>6
<1>6. CASE ~limited'[r]
  <2>1. /\ outcome' = [outcome EXCEPT ![r][i] = result]
        /\ asking' = [asking EXCEPT ![r] = (@ \ {i}) \cup
                        IF next[r] < Size[r] THEN {At(r, next[r] + 1)} ELSE {}]
        /\ next' = [next EXCEPT ![r] = IF @ < Size[r] THEN @ + 1 ELSE @]
    BY <1>6 DEF Worker
  <2>2. /\ \A q \in Registries \ {r} :
             asking'[q] = asking[q] /\ next'[q] = next[q] /\ outcome'[q] = outcome[q]
        /\ asking'[r] = (asking[r] \ {i}) \cup
             IF next[r] < Size[r] THEN {At(r, next[r] + 1)} ELSE {}
        /\ next'[r] = IF next[r] < Size[r] THEN next[r] + 1 ELSE next[r]
        /\ outcome'[r] = [outcome[r] EXCEPT ![i] = result]
        /\ DOMAIN outcome' = Registries
    BY <1>1, <2>1 DEF SweepTypes
  <2>3. next[r] < Size[r] => next[r] + 1 \in Images(r)
    BY <1>1 DEF Images
  <2>4. /\ asking'[r] \subseteq Images(r) /\ next'[r] \in 0 .. Size[r]
        /\ asking' \in [Registries -> SUBSET Nat] /\ next' \in [Registries -> Nat]
    BY <1>1, <1>3, <1>4, <2>1, <2>2, <2>3 DEF SweepTypes
  <2>5. DOMAIN outcome'[r] = Images(r)
    BY <1>1, <2>2
  <2>6. ASSUME NEW j \in Images(r)
        PROVE  /\ j \in asking'[r] <=>
                    outcome'[r][j] = "none" /\ Spot(start[r], Size[r], j) <= next'[r]
               /\ Spot(start[r], Size[r], j) > next'[r] => outcome'[r][j] = "none"
    <3>1. outcome'[r][j] = IF j = i THEN result ELSE outcome[r][j]
      BY <1>1, <2>2
    <3>2. Spot(start[r], Size[r], j) \in 1 .. Size[r]
      BY <1>3
    <3>3. outcome[r][i] = "none" /\ Spot(start[r], Size[r], i) <= next[r]
      BY <1>2
    <3>4. CASE next[r] < Size[r]
      <4>1. j = At(r, next[r] + 1) <=> Spot(start[r], Size[r], j) = next[r] + 1
        BY <1>3, <2>3, <3>4
      <4>2. j \in asking'[r] <=> (j \in asking[r] /\ j # i) \/ j = At(r, next[r] + 1)
        BY <2>2, <3>4
      <4> QED
        BY <1>1, <1>2, <2>2, <3>1, <3>2, <3>3, <3>4, <4>1, <4>2
    <3>5. CASE ~(next[r] < Size[r])
      <4>1. j \in asking'[r] <=> j \in asking[r] /\ j # i
        BY <2>2, <3>5
      <4> QED
        BY <1>1, <1>2, <2>2, <3>1, <3>2, <3>3, <3>5, <4>1
    <3> QED
      BY <3>4, <3>5
  <2>7. next'[r] < Size[r] => asking'[r] # {}
    BY <1>1, <2>2
  <2> QED
    BY <2>2, <2>4, <2>5, <2>6, <2>7
<1> QED
  BY <1>5, <1>6

\* What follows from an answer: the resume point, if the registry is done,
\* and what is saved, if it was the last.
LEMMA ConcludeLeaves ==
  ASSUME SweepInv, NEW r \in Registries, start[r] \in Images(r), Conclude(r),
         limited' \in [Registries -> BOOLEAN]
  PROVE  /\ \A q \in Registries \ {r} : resume'[q] = resume[q]
         /\ resume' \in [Registries -> Nat] /\ resume'[r] \in 0 .. Size[r]
         /\ paused' \in [Registries -> BOOLEAN]
         /\ asking'[r] # {} => resume' = resume /\ saved' = saved /\ sweeping' = sweeping
         /\ asking'[r] = {} => NoGapBefore(start[r], Size[r], resume'[r], outcome'[r])
         /\ \/ sweeping' = sweeping /\ saved' = saved
            \/ /\ ~sweeping' /\ \A q \in Registries : asking'[q] = {}
               /\ sweeping' \in BOOLEAN
               /\ saved' = [q \in Registries |->
                              [paused |-> paused'[q], resume |-> resume'[q]]]
<1>1. SweepTypes /\ Size[r] \in Nat \ {0}
  BY SizeAssumption DEF SweepInv
<1>2. CASE asking'[r] # {}
  <2>1. paused' = paused /\ resume' = resume /\ saved' = saved /\ sweeping' = sweeping
    BY <1>2 DEF Conclude
  <2> QED
    BY <1>1, <1>2, <2>1 DEF SweepTypes
<1>3. CASE asking'[r] = {}
  <2>1. /\ paused' = [paused EXCEPT ![r] = limited'[r]]
        /\ resume' = [resume EXCEPT ![r] = FirstSkipped(r, outcome'[r])]
        /\ \/ sweeping' = sweeping /\ saved' = saved
           \/ /\ sweeping' = FALSE /\ \A q \in Registries : asking'[q] = {}
              /\ saved' = [q \in Registries |->
                             [paused |-> paused'[q], resume |-> resume'[q]]]
    BY <1>3 DEF Conclude
  <2>2. /\ FirstSkipped(r, outcome'[r]) \in 0 .. Size[r]
        /\ NoGapBefore(start[r], Size[r], FirstSkipped(r, outcome'[r]), outcome'[r])
    BY FirstSkippedIs
  <2>3. /\ \A q \in Registries \ {r} : resume'[q] = resume[q]
        /\ resume'[r] = FirstSkipped(r, outcome'[r])
        /\ resume' \in [Registries -> Nat] /\ paused' \in [Registries -> BOOLEAN]
    BY <1>1, <2>1, <2>2 DEF SweepTypes
  <2> QED
    BY <1>3, <2>1, <2>2, <2>3
<1> QED
  BY <1>2, <1>3

LEMMA AnswerStep ==
  ASSUME SweepInv, NEW r \in Registries, NEW i \in Images(r),
         Answers(r, i) \/ Refuses(r, i) \/ Throws(r, i)
  PROVE  SweepInv'
<1>1. /\ i \in asking[r] /\ Conclude(r) /\ due' = due /\ start' = start /\ torn' = torn
      /\ \E result \in {"answered", "skipped", "threw"} : Worker(r, i, result)
  BY DEF Answers, Refuses, Throws
<1>2. /\ SweepTypes /\ AtRest /\ InTurn /\ Settled /\ sweeping /\ r \in due
      /\ start[r] \in Images(r)
  BY <1>1 DEF SweepInv, SweepTypes, AtRest
<1>3. limited' \in [Registries -> BOOLEAN]
  BY <1>2 DEF Answers, Refuses, Throws, SweepTypes
<1>4. /\ \A q \in Registries \ {r} :
           asking'[q] = asking[q] /\ next'[q] = next[q] /\ outcome'[q] = outcome[q]
      /\ next' \in [Registries -> Nat] /\ next'[r] \in 0 .. Size[r]
      /\ asking' \in [Registries -> SUBSET Nat] /\ asking'[r] \subseteq Images(r)
      /\ DOMAIN outcome' = Registries /\ DOMAIN outcome'[r] = Images(r)
      /\ \A j \in Images(r) :
           j \in asking'[r] <=>
             outcome'[r][j] = "none" /\ Spot(start[r], Size[r], j) <= next'[r]
      /\ \A j \in Images(r) :
           Spot(start[r], Size[r], j) > next'[r] => outcome'[r][j] = "none"
      /\ next'[r] < Size[r] => asking'[r] # {}
  <2>1. PICK result \in {"answered", "skipped", "threw"} : Worker(r, i, result)
    BY <1>1
  <2>2. result # "none"
    BY <2>1
  <2> QED
    BY <1>1, <2>1, <2>2, WorkerLeaves
<1>5. /\ \A q \in Registries \ {r} : resume'[q] = resume[q]
      /\ resume' \in [Registries -> Nat] /\ resume'[r] \in 0 .. Size[r]
      /\ paused' \in [Registries -> BOOLEAN]
      /\ asking'[r] = {} => NoGapBefore(start[r], Size[r], resume'[r], outcome'[r])
      /\ \/ sweeping' = sweeping /\ saved' = saved
         \/ /\ ~sweeping' /\ \A q \in Registries : asking'[q] = {}
            /\ sweeping' \in BOOLEAN
            /\ saved' = [q \in Registries |->
                           [paused |-> paused'[q], resume |-> resume'[q]]]
  BY <1>1, <1>2, <1>3, ConcludeLeaves
<1>6. \A q \in Registries : resume'[q] \in 0 .. Size[q]
  BY <1>2, <1>5 DEF SweepTypes
<1>7. /\ saved' \in [Registries -> [paused : BOOLEAN, resume : Nat]]
      /\ \A q \in Registries : saved'[q].resume \in 0 .. Size[q]
  <2>1. CASE saved' = saved
    BY <1>2, <2>1 DEF SweepTypes
  <2>2. CASE saved' = [q \in Registries |-> [paused |-> paused'[q], resume |-> resume'[q]]]
    BY <1>5, <1>6, <2>2
  <2> QED
    BY <1>5, <2>1, <2>2
<1>8. SweepTypes'
  <2>1. \A q \in Registries :
          /\ start'[q] \in Images(q) /\ next'[q] \in 0 .. Size[q]
          /\ asking'[q] \subseteq Images(q) /\ DOMAIN outcome'[q] = Images(q)
    <3> SUFFICES ASSUME NEW q \in Registries
                 PROVE  /\ start'[q] \in Images(q) /\ next'[q] \in 0 .. Size[q]
                        /\ asking'[q] \subseteq Images(q) /\ DOMAIN outcome'[q] = Images(q)
      OBVIOUS
    <3>1. CASE q = r
      BY <1>1, <1>2, <1>4, <3>1
    <3>2. CASE q # r
      BY <1>1, <1>2, <1>4, <3>2 DEF SweepTypes
    <3> QED
      BY <3>1, <3>2
  <2>2. sweeping' \in BOOLEAN /\ due' \subseteq Registries /\ start' \in [Registries -> Nat]
    BY <1>1, <1>2, <1>5 DEF SweepTypes
  <2> QED
    BY <1>3, <1>4, <1>5, <1>6, <1>7, <2>1, <2>2 DEF SweepTypes
<1>9. AtRest'
  <2>1. CASE sweeping' = sweeping /\ saved' = saved
    BY <1>1, <1>2, <1>4, <1>5, <2>1 DEF AtRest
  <2>2. CASE /\ ~sweeping' /\ \A q \in Registries : asking'[q] = {}
             /\ saved' = [q \in Registries |->
                            [paused |-> paused'[q], resume |-> resume'[q]]]
    BY <2>2 DEF AtRest
  <2> QED
    BY <1>5, <2>1, <2>2
<1>10. InTurn'
  <2> SUFFICES ASSUME NEW q \in Registries, sweeping', q \in due
               PROVE  /\ \A j \in Images(q) : j \in asking'[q] <=>
                           outcome'[q][j] = "none" /\ Spot(start[q], Size[q], j) <= next'[q]
                      /\ \A j \in Images(q) :
                           Spot(start[q], Size[q], j) > next'[q] => outcome'[q][j] = "none"
                      /\ next'[q] < Size[q] => asking'[q] # {}
    BY <1>1 DEF InTurn
  <2>1. CASE q = r
    BY <1>4, <2>1
  <2>2. CASE q # r
    BY <1>2, <1>4, <2>2 DEF InTurn
  <2> QED
    BY <2>1, <2>2
<1>11. Settled'
  <2> SUFFICES ASSUME NEW q \in Registries, q \notin torn, asking'[q] = {}
               PROVE  NoGapBefore(start[q], Size[q], resume'[q], outcome'[q])
    BY <1>1 DEF Settled
  <2>1. CASE q = r
    BY <1>5, <2>1
  <2>2. CASE q # r
    BY <1>2, <1>4, <1>5, <2>2 DEF Settled
  <2> QED
    BY <2>1, <2>2
<1> QED
  BY <1>8, <1>9, <1>10, <1>11 DEF SweepInv

LEMMA SweepInductive ==
  ASSUME SweepInv, [SweepNext]_sweepVars
  PROVE  SweepInv'
<1>1. CASE \E byHand \in BOOLEAN : Begin(byHand)
  BY <1>1, BeginStep
<1>2. CASE Restart
  BY <1>2, SweepRestartStep
<1>3. CASE \E r \in Registries : PauseEnds(r)
  BY <1>3, PauseEndsStep
<1>4. CASE \E r \in Registries : \E i \in Images(r) :
             Answers(r, i) \/ Refuses(r, i) \/ Throws(r, i)
  BY <1>4, AnswerStep
<1>5. CASE UNCHANGED sweepVars
  BY <1>5 DEF sweepVars, SweepInv, SweepTypes, AtRest, InTurn, Settled
<1> QED
  BY <1>1, <1>2, <1>3, <1>4, <1>5 DEF SweepNext

LEMMA SweepInvGives ==
  ASSUME SweepInv
  PROVE  EachInItsTurn
<1>1. SweepTypes /\ AtRest /\ InTurn /\ Settled
  BY DEF SweepInv
<1>2. ASSUME sweeping, NEW r \in due
      PROVE  /\ \A i \in asking[r] : outcome[r][i] = "none"
             /\ asking[r] = {} => \A i \in Images(r) : outcome[r][i] # "none"
  <2>1. /\ r \in Registries /\ start[r] \in Images(r) /\ asking[r] \subseteq Images(r)
        /\ next[r] \in 0 .. Size[r] /\ Size[r] \in Nat
    BY <1>1, <1>2, SizeAssumption DEF SweepTypes
  <2>2. /\ \A i \in Images(r) :
             i \in asking[r] <=> outcome[r][i] = "none" /\ Spot(start[r], Size[r], i) <= next[r]
        /\ next[r] < Size[r] => asking[r] # {}
    BY <1>1, <1>2, <2>1 DEF InTurn
  <2>3. \A i \in Images(r) : Spot(start[r], Size[r], i) \in 1 .. Size[r]
    BY <2>1, AtPlace DEF Images
  <2> QED
    BY <2>1, <2>2, <2>3
<1>3. ASSUME ~sweeping, NEW r \in Registries \ torn
      PROVE  IF resume[r] = 0 THEN \A k \in Images(r) : outcome[r][At(r, k)] # "skipped"
             ELSE \A k \in Images(r) :
                    k < Place(r, resume[r]) => outcome[r][At(r, k)] # "skipped"
  <2>1. /\ start[r] \in Images(r) /\ resume[r] \in 0 .. Size[r] /\ Size[r] \in Nat
        /\ NoGapBefore(start[r], Size[r], resume[r], outcome[r])
    BY <1>1, <1>3, SizeAssumption DEF SweepTypes, AtRest, Settled
  <2>2. /\ \A k \in Images(r) : At(r, k) \in Images(r) /\ Spot(start[r], Size[r], At(r, k)) = k
        /\ resume[r] # 0 => Place(r, resume[r]) = Spot(start[r], Size[r], resume[r])
                            /\ Spot(start[r], Size[r], resume[r]) \in Images(r)
    BY <2>1, AtPlace DEF Images
  <2>3. ASSUME NEW k \in Images(r), outcome[r][At(r, k)] = "skipped"
        PROVE  resume[r] # 0 /\ Spot(start[r], Size[r], resume[r]) <= k
    BY <2>1, <2>2, <2>3 DEF NoGapBefore, Images
  <2>4. \A k \in Images(r) : k \in Nat
    BY <2>1 DEF Images
  <2> QED
    BY <2>2, <2>3, <2>4
<1> QED
  BY <1>2, <1>3 DEF EachInItsTurn

\* Of any registries, of any sizes and however many workers each has: no
\* image is asked twice in a sweep and none is left out, and no image that got
\* no answer lies before the one the next sweep starts at, whatever order the
\* answers came in and whatever restarts followed.
THEOREM EachImageInItsTurn == SweepSpec => []EachInItsTurn
<1>1. SweepInit => SweepInv
  BY SweepInitially
<1>2. SweepInv /\ [SweepNext]_sweepVars => SweepInv'
  BY SweepInductive
<1>3. SweepInv => EachInItsTurn
  BY SweepInvGives
<1> QED
  BY <1>1, <1>2, <1>3, PTL DEF SweepSpec
=============================================================================
