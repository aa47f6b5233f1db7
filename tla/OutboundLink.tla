---------------------------- MODULE OutboundLink ----------------------------
(***************************************************************************)
(* Outbound mode: the server dials the agent. The server side is           *)
(* ClientConnector (dialling, the reconnect timer), attachAgentSession     *)
(* (the handshake), ProxyService (which socket speaks for the client) and  *)
(* the handlers of ClientController; the agent side is                     *)
(* Connection.handleIncoming and setupConnection.                          *)
(*                                                                         *)
(* One client and one agent. A connection attempt takes a slot, from the   *)
(* dial until both ends have seen the close, and the slot may then be used *)
(* again. The two ends of a slot change separately, with one frame of the  *)
(* handshake possibly under way in each direction; a close() is seen by    *)
(* the peer after the frames sent before it, and frames that arrive        *)
(* between an end's own close() and its close event are still handled, as  *)
(* the ws library does. The length of the reconnect ladder's delays is     *)
(* left out: the timer may fire at any time.                               *)
(***************************************************************************)
EXTENDS Naturals

CONSTANTS
  Addresses,    \* the addresses the agent can be dialled at
  MaxSockets,   \* connection attempts alive at once
  FaultKinds,   \* what may go wrong, and what the operator may do
  MaxFaults     \* how often, all kinds together

ASSUME SocketsAssumption == MaxSockets \in Nat \ {0}
ASSUME FaultsAssumption == MaxFaults \in Nat

Sockets == 1 .. MaxSockets
None == 0
NoRow == "no row"
Deleted == "deleted"

ASSUME AddressesAssumption == NoRow \notin Addresses /\ Deleted \notin Addresses

VARIABLES
  row,         \* the client's address in the database, NoRow, or Deleted
  timer,       \* reconnectTimers holds a timer for the client
  registered,  \* connectedClients: the socket that speaks for the client
  sock,        \* the connection attempts
  current,     \* the agent's wsInstance
  told,        \* what the operator who added the client was answered
  faults,      \* how many things went wrong so far, and of which kinds
  met

faultVars == <<faults, met>>
vars == <<row, timer, registered, sock, current, told, faultVars>>

Socket ==
  [to : Addresses \cup {NoRow},
   first : BOOLEAN,       \* dialled by firstConnect
   srv : {"none", "dialing", "open", "closing", "closed"},
   agt : {"none", "open", "closing", "closed"},
   authed : BOOLEAN,      \* the server's isAuthenticated
   ready : BOOLEAN,       \* the agent has called setupConnection
   hello : BOOLEAN,       \* AUTH under way
   welcome : BOOLEAN,     \* AUTH_SUCCESS under way
   cut : BOOLEAN]         \* the connection is broken

Unused ==
  [to |-> NoRow, first |-> FALSE, srv |-> "none", agt |-> "none",
   authed |-> FALSE, ready |-> FALSE, hello |-> FALSE, welcome |-> FALSE,
   cut |-> FALSE]

Stored == row \in Addresses

Happens(kind) ==
  /\ kind \in FaultKinds /\ faults < MaxFaults
  /\ faults' = faults + 1 /\ met' = met \cup {kind}

-----------------------------------------------------------------------------
(* Dialling and closing, as functions of the slots. *)

Free(sk) ==
  {s \in Sockets : sk[s].srv \in {"none", "closed"} /\ sk[s].agt \in {"none", "closed"}}

Slot(sk) == CHOOSE s \in Sockets : s \in Free(sk)

Dial(sk, address, first) ==
  [sk EXCEPT ![Slot(sk)] =
    [Unused EXCEPT !.to = address, !.first = first, !.srv = "dialing"]]

\* socket.close() on the server, for the socket that was looked up if any.
Closes(sk, s) ==
  [t \in Sockets |-> IF t = s /\ sk[t].srv = "open"
                     THEN [sk[t] EXCEPT !.srv = "closing"] ELSE sk[t]]

\* ws.close() on the agent.
AgentCloses(sk, s) ==
  [t \in Sockets |-> IF t = s /\ sk[t].agt = "open"
                     THEN [sk[t] EXCEPT !.agt = "closing"] ELSE sk[t]]

\* A broken connection loses what is under way.
Cut(c) == [c EXCEPT !.cut = TRUE, !.hello = FALSE, !.welcome = FALSE]

\* The promise of firstConnect settles once.
Answer(s, outcome) ==
  told' = IF sock[s].first /\ told = "waiting" THEN outcome ELSE told

Init ==
  /\ \/ row = NoRow /\ sock = [s \in Sockets |-> Unused]
     \/ row \in Addresses /\ sock = Dial([s \in Sockets |-> Unused], row, FALSE)
  /\ timer = FALSE /\ registered = None /\ current = None
  /\ told = "nothing" /\ faults = 0 /\ met = {}

-----------------------------------------------------------------------------
(* Server: dialling. *)

\* firstConnect, once the agent has accepted the registration.
Add(a) ==
  /\ row = NoRow /\ told = "nothing" /\ Free(sock) # {}
  /\ sock' = Dial(sock, a, TRUE)
  /\ told' = "waiting"
  /\ UNCHANGED <<row, timer, registered, current, faultVars>>

TimerFires ==
  /\ timer
  /\ Stored => Free(sock) # {}
  /\ timer' = FALSE
  /\ sock' = IF Stored THEN Dial(sock, row, FALSE) ELSE sock
  /\ UNCHANGED <<row, registered, current, told, faultVars>>

Open(s) ==
  /\ sock[s].srv = "dialing" /\ sock[s].agt # "none" /\ ~sock[s].cut
  /\ sock' = [sock EXCEPT ![s].srv = "open"]
  /\ UNCHANGED <<row, timer, registered, current, told, faultVars>>

GiveUpDialForGood(s) ==
  /\ sock[s].srv = "dialing"
  /\ IF sock[s].cut THEN UNCHANGED faultVars ELSE Happens("refused")
  /\ sock' = [sock EXCEPT ![s].srv = "closed"]
  /\ Answer(s, "failed")
  /\ UNCHANGED <<row, timer, registered, current>>

\* Refused, unreachable, or not open within ten seconds.
GiveUpDial(s) ==
  /\ sock[s].srv = "dialing"
  /\ IF sock[s].cut THEN UNCHANGED faultVars ELSE Happens("refused")
  /\ sock' = [sock EXCEPT ![s].srv = "closed"]
  /\ timer' = (timer \/ ~sock[s].first)
  /\ Answer(s, "failed")
  /\ UNCHANGED <<row, registered, current>>

-----------------------------------------------------------------------------
(* Server: the session. *)

\* AUTH arrived: a new client is stored, the socket is registered in place
\* of the one before, and AUTH_SUCCESS goes out if the socket is still open.
HandleAuth(s) ==
  /\ sock[s].srv \in {"open", "closing"} /\ sock[s].hello /\ ~sock[s].authed
  /\ sock' = [Closes(sock, registered) EXCEPT
                ![s].hello = FALSE, ![s].authed = TRUE,
                ![s].welcome = (sock[s].srv = "open")]
  /\ registered' = s
  /\ row' = IF sock[s].first THEN sock[s].to ELSE row
  /\ Answer(s, "ok")
  /\ UNCHANGED <<timer, current, faultVars>>

AuthTimesOut(s) ==
  /\ sock[s].srv = "open" /\ ~sock[s].authed
  /\ Happens("slow")
  /\ sock' = Closes(sock, s)
  /\ Answer(s, "failed")
  /\ UNCHANGED <<row, timer, registered, current>>

\* The server's end is closed by the peer, its own close(), the heartbeat or
\* an error of the socket.
EndsAtServer(s, error) ==
  /\ sock[s].srv \in {"open", "closing"}
  /\ \/ sock[s].cut
     \/ ~error /\ sock[s].agt \in {"closing", "closed"} /\ ~sock[s].hello
  /\ sock' = [sock EXCEPT ![s].srv = "closed"]
  /\ Answer(s, "failed")
  /\ UNCHANGED <<row, current, faultVars>>

SrvSeesCloseSilently(s, error) ==
  /\ EndsAtServer(s, error)
  /\ registered' = IF registered = s THEN None ELSE registered
  /\ timer' = (timer \/ (error /\ ~sock[s].first))

SrvSeesCloseUnregisters(s, error) ==
  /\ EndsAtServer(s, error)
  /\ registered' = IF sock[s].authed THEN None ELSE registered
  /\ timer' = (timer \/ sock[s].authed \/ (error /\ ~sock[s].first))

\* Only an authenticated session schedules the reconnect on its close; the
\* error handler of connectClient schedules it in any case.
SrvSeesClose(s, error) ==
  /\ EndsAtServer(s, error)
  /\ registered' = IF registered = s THEN None ELSE registered
  /\ timer' = (timer \/ sock[s].authed \/ (error /\ ~sock[s].first))

-----------------------------------------------------------------------------
(* Server: the operator. *)

\* POST .../reconnect
Reconnect ==
  /\ Stored /\ Free(sock) # {} /\ Happens("reconnect")
  /\ timer' = FALSE
  /\ sock' = Dial(sock, row, FALSE)
  /\ UNCHANGED <<row, registered, current, told>>

ChangeAddress(a) ==
  /\ Stored /\ a # row /\ Free(sock) # {} /\ Happens("change")
  /\ row' = a
  /\ sock' = Dial(Closes(sock, registered), a, FALSE)
  /\ registered' = None
  /\ timer' = FALSE
  /\ UNCHANGED <<current, told>>

Delete ==
  /\ Stored /\ Happens("delete")
  /\ row' = Deleted
  /\ sock' = Closes(sock, registered)
  /\ registered' = None
  /\ timer' = FALSE
  /\ UNCHANGED <<current, told>>

\* The process ends, every socket with it; connectAll dials what is stored.
ServerRestarts ==
  LET ended == [s \in Sockets |->
                  IF sock[s].srv = "none" THEN sock[s]
                  ELSE [Cut(sock[s]) EXCEPT !.srv = "closed"]]
  IN /\ Happens("restart")
     /\ Stored => Free(ended) # {}
     /\ sock' = IF Stored THEN Dial(ended, row, FALSE) ELSE ended
     /\ registered' = None
     /\ timer' = FALSE
     /\ told' = IF told = "waiting" THEN "failed" ELSE told
     /\ UNCHANGED <<row, current>>

-----------------------------------------------------------------------------
(* Agent. *)

\* handleIncoming: the connection before is closed and forgotten, AUTH goes
\* out. A dial the server has given up meanwhile may still be accepted.
Accept(s) ==
  /\ sock[s].srv \in {"dialing", "closed"} /\ sock[s].agt = "none" /\ ~sock[s].cut
  /\ sock' = [AgentCloses(sock, current) EXCEPT ![s].agt = "open", ![s].hello = TRUE]
  /\ current' = None
  /\ UNCHANGED <<row, timer, registered, told, faultVars>>

\* The socket is opened and closed at once: wrong token, another client's id
\* (the address leads to another host), or an address that is not allowed.
Reject(s) ==
  /\ sock[s].srv = "dialing" /\ sock[s].agt = "none" /\ ~sock[s].cut
  /\ Happens("reject")
  /\ sock' = [sock EXCEPT ![s].agt = "closing"]
  /\ UNCHANGED <<row, timer, registered, current, told>>

\* setupConnection on AUTH_SUCCESS.
HandleAuthSuccess(s) ==
  /\ sock[s].agt \in {"open", "closing"} /\ sock[s].welcome
  /\ sock' = [sock EXCEPT ![s].welcome = FALSE, ![s].ready = TRUE]
  /\ current' = s
  /\ UNCHANGED <<row, timer, registered, told, faultVars>>

AgtAuthTimesOut(s) ==
  /\ sock[s].agt = "open" /\ ~sock[s].ready
  /\ Happens("slow")
  /\ sock' = AgentCloses(sock, s)
  /\ UNCHANGED <<row, timer, registered, current, told>>

AgtSeesCloseForgets(s) ==
  /\ sock[s].agt \in {"open", "closing"}
  /\ sock[s].cut \/ (sock[s].srv \in {"closing", "closed"} /\ ~sock[s].welcome)
  /\ sock' = [sock EXCEPT ![s].agt = "closed"]
  /\ current' = IF sock[s].ready THEN None ELSE current
  /\ UNCHANGED <<row, timer, registered, told, faultVars>>

AgtSeesClose(s) ==
  /\ sock[s].agt \in {"open", "closing"}
  /\ sock[s].cut \/ (sock[s].srv \in {"closing", "closed"} /\ ~sock[s].welcome)
  /\ sock' = [sock EXCEPT ![s].agt = "closed"]
  /\ current' = IF current = s THEN None ELSE current
  /\ UNCHANGED <<row, timer, registered, told, faultVars>>

AgentRestarts ==
  /\ Happens("restart")
  /\ sock' = [s \in Sockets |->
                IF sock[s].agt = "none" THEN sock[s]
                ELSE [Cut(sock[s]) EXCEPT !.agt = "closed"]]
  /\ current' = None
  /\ UNCHANGED <<row, timer, registered, told>>

\* The network breaks the connection, after or before the handshake.
Break(s) ==
  /\ sock[s].srv \in {"open", "closing"} /\ ~sock[s].cut
  /\ Happens(IF sock[s].authed THEN "drop" ELSE "early")
  /\ sock' = [sock EXCEPT ![s] = Cut(@)]
  /\ UNCHANGED <<row, timer, registered, current, told>>

-----------------------------------------------------------------------------
Next ==
  \/ \E a \in Addresses : Add(a) \/ ChangeAddress(a)
  \/ TimerFires \/ Reconnect \/ Delete \/ ServerRestarts \/ AgentRestarts
  \/ \E s \in Sockets :
       \/ Open(s) \/ GiveUpDial(s) \/ HandleAuth(s) \/ AuthTimesOut(s)
       \/ \E error \in BOOLEAN : SrvSeesClose(s, error)
       \/ Accept(s) \/ Reject(s) \/ HandleAuthSuccess(s)
       \/ AgtAuthTimesOut(s) \/ AgtSeesClose(s) \/ Break(s)

Spec == Init /\ [][Next]_vars

\* The event loops run what is due, frames arrive, and a closed connection is
\* noticed (by the heartbeat at the latest). The rest is never owed.
Fairness ==
  /\ WF_vars(TimerFires)
  /\ \A s \in Sockets :
       /\ WF_vars(sock[s].srv = "dialing" /\ Accept(s))
       /\ WF_vars(Open(s)) /\ WF_vars(HandleAuth(s))
       /\ WF_vars(sock[s].cut /\ GiveUpDial(s))
       /\ WF_vars(\E error \in BOOLEAN : SrvSeesClose(s, error))
       /\ WF_vars(HandleAuthSuccess(s)) /\ WF_vars(AgtSeesClose(s))

FairSpec == Spec /\ Fairness

-----------------------------------------------------------------------------
(* Properties *)

FaultsOK == faults \in 0 .. MaxFaults /\ met \subseteq FaultKinds

TypeOK ==
  /\ row \in Addresses \cup {NoRow, Deleted}
  /\ timer \in BOOLEAN
  /\ registered \in Sockets \cup {None} /\ current \in Sockets \cup {None}
  /\ sock \in [Sockets -> Socket]
  /\ told \in {"nothing", "waiting", "ok", "failed"}
  /\ FaultsOK

\* An authenticated session that is not being closed is the one messages for
\* the client are sent over: the close of a replaced socket never unregisters
\* its successor, and no second session stays open beside it
\* (ProxyService.registerClient and unregisterClient).
OneSession ==
  \A s \in Sockets : sock[s].srv = "open" /\ sock[s].authed => registered = s

\* The socket that is registered is one whose close event is still to come,
\* so that what waits for an answer over it will be failed.
RegisteredEnds ==
  registered # None =>
    sock[registered].authed /\ sock[registered].srv \in {"open", "closing"}

\* A stored client is never forgotten: an attempt or a session exists, or a
\* reconnect is queued. That is so unless a socket was closed without an error
\* before AUTH, which an agent that refuses, a connection that breaks and a
\* restarted agent may cause.
NeverForgotten ==
  Stored /\ met \cap {"reject", "early", "restart"} = {} =>
    \/ timer
    \/ \E s \in Sockets : sock[s].srv \in {"dialing", "open", "closing"}

\* Once the handshake is through on both ends, the agent sends over the
\* socket the server has registered (Connection.setupConnection: "A socket
\* that has already been replaced must not clear its successor"), unless two
\* handshakes overlapped: the second dial then came from the operator, or
\* after a timeout of the first.
AgentSpeaks ==
  met \cap {"slow", "reconnect", "change"} = {} =>
    \A s \in Sockets :
      /\ registered = s /\ sock[s].srv = "open"
      /\ sock[s].agt = "open" /\ sock[s].ready /\ ~sock[s].cut
      => current = s

\* Once faults are over, a stored client is connected and stays so. A socket
\* closed quietly before AUTH ends the pursuit, and a dial the operator makes
\* beside a session may go on replacing it for ever.
SettlesDown ==
  <>[](Stored /\ met \subseteq {"refused", "drop", "slow", "delete"} => registered # None)
=============================================================================
