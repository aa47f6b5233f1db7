------------------------------ MODULE AgentLink ------------------------------
(***************************************************************************)
(* Inbound mode: the agent dials the server and keeps the connection up    *)
(* (Connection.connect, scheduleReconnect), and what travels over it as    *)
(* soon as it stands: the states of StateReporter. The server side is      *)
(* WebSocketController.handleAgentConnection, attachAgentSession and       *)
(* ProxyService with what it keeps of the agent: which socket speaks for   *)
(* it, its live status, and the stored state of its host.                  *)
(*                                                                         *)
(* Two channels stand for the three: the status (deduplicated, read when   *)
(* it is sent; IMAGE_CHECKS is another of its kind) and the Docker state   *)
(* (sent whenever a read ends; HostWatch has the reads). Both are version  *)
(* numbers. A slot is one socket with its two ends and the frames between  *)
(* them, and is used again once both ends have closed. The delays of the   *)
(* reconnect ladder are left out: the timer may fire at any time.          *)
(***************************************************************************)
EXTENDS Naturals, Sequences, FiniteSets

CONSTANTS
  MaxSockets,   \* sockets alive at once
  MaxChanges,   \* changes of the status, and of the host
  FaultKinds,   \* what may go wrong, and what users may do
  MaxFaults     \* how often, all kinds together

ASSUME SizesAssumption ==
  MaxSockets \in Nat \ {0} /\ MaxChanges \in Nat /\ MaxFaults \in Nat

Sockets == 1 .. MaxSockets
None == 0
Unsent == MaxChanges + 1
Versions == 0 .. MaxChanges

VARIABLES
  sock,         \* the sockets
  wsInstance,   \* the agent's socket
  connecting,   \* the socket whose attempt is not settled
  timer,        \* reconnectTimer is set
  status, host, \* the agent's status, the state of its host
  owed,         \* a read of the host was asked for and has not ended
  lastSent,     \* the status last sent on this connection
  registered,   \* connectedClients
  live,         \* liveStatus
  stored,       \* the stored Docker state
  overtaken,    \* channels whose last message came over a replaced socket
  faults

agentVars == <<wsInstance, connecting, timer>>
stateVars == <<status, host, owed, lastSent>>
serverVars == <<registered, live, stored, overtaken>>
vars == <<sock, agentVars, stateVars, serverVars, faults>>

Auth == [type |-> "AUTH", version |-> 0]
Status(v) == [type |-> "AGENT_STATUS", version |-> v]
State(v) == [type |-> "DOCKER_UPDATE", version |-> v]
Frames == [type : {"AUTH", "AGENT_STATUS", "DOCKER_UPDATE"}, version : Versions]

Socket ==
  [agt : {"none", "dialing", "open", "closing", "dead", "closed"},
   srv : {"none", "open", "rejecting", "closing", "closed"},
   authed : BOOLEAN,     \* the server's isAuthenticated
   up : Seq(Frames),     \* frames on their way to the server
   welcome : BOOLEAN,    \* AUTH_SUCCESS on its way to the agent
   cut : BOOLEAN]        \* the connection is broken

Unused == [agt |-> "none", srv |-> "none", authed |-> FALSE, up |-> <<>>,
           welcome |-> FALSE, cut |-> FALSE]

TypeOK ==
  /\ sock \in [Sockets -> Socket]
  /\ wsInstance \in Sockets \cup {None} /\ connecting \in Sockets \cup {None}
  /\ timer \in BOOLEAN
  /\ status \in Versions /\ host \in Versions
  /\ owed \in BOOLEAN /\ lastSent \in Versions \cup {Unsent}
  /\ registered \in Sockets \cup {None}
  /\ live \in Versions \cup {Unsent} /\ stored \in Versions \cup {Unsent}
  /\ overtaken \subseteq {"AGENT_STATUS", "DOCKER_UPDATE"}
  /\ faults \in 0 .. MaxFaults

Happens(kind) ==
  /\ kind \in FaultKinds /\ faults < MaxFaults /\ faults' = faults + 1

-----------------------------------------------------------------------------
(* Connecting. *)

Free(sk) ==
  {s \in Sockets : sk[s].agt \in {"none", "closed"} /\ sk[s].srv \in {"none", "closed"}}

Slot(sk) == CHOOSE s \in Free(sk) : \A t \in Free(sk) : s <= t

\* connect(): joins the attempt under way, or supersedes the queued one.
\* A socket still standing in the way is closing or dead already.
ConnectFrom(sk, ws, pending) ==
  IF pending # None
  THEN UNCHANGED <<wsInstance, connecting, timer>> /\ sock' = sk
  ELSE /\ timer' = FALSE
       /\ IF ws # None /\ sk[ws].agt = "open"
          THEN UNCHANGED <<wsInstance, connecting>> /\ sock' = sk
          ELSE /\ Free(sk) # {}
               /\ sock' = [sk EXCEPT ![Slot(sk)] = [Unused EXCEPT !.agt = "dialing"]]
               /\ wsInstance' = Slot(sk)
               /\ connecting' = Slot(sk)

Init ==
  /\ sock = [[s \in Sockets |-> Unused] EXCEPT ![1].agt = "dialing"]
  /\ wsInstance = 1 /\ connecting = 1 /\ timer = FALSE
  /\ status = 0 /\ host = 0 /\ owed = FALSE /\ lastSent = Unsent
  /\ registered = None /\ live = Unsent /\ stored = Unsent /\ overtaken = {}
  /\ faults = 0

TimerFires ==
  /\ timer
  /\ ConnectFrom(sock, wsInstance, connecting)
  /\ UNCHANGED <<stateVars, serverVars, faults>>

\* The status page's retry.
ManualConnect ==
  /\ Happens("manual")
  /\ ConnectFrom(sock, wsInstance, connecting)
  /\ UNCHANGED <<stateVars, serverVars>>

\* The server takes the connection, or turns its credentials away.
Accept(s) ==
  /\ sock[s].agt = "dialing" /\ sock[s].srv = "none" /\ ~sock[s].cut
  /\ sock' = [sock EXCEPT ![s].srv = "open"]
  /\ UNCHANGED <<agentVars, stateVars, serverVars, faults>>

Reject(s) ==
  /\ sock[s].agt = "dialing" /\ sock[s].srv = "none" /\ ~sock[s].cut
  /\ Happens("rejected")
  /\ sock' = [sock EXCEPT ![s].srv = "rejecting"]
  /\ UNCHANGED <<agentVars, stateVars, serverVars>>

\* The dial fails: an error, and then the close event.
DialFails(s) ==
  /\ sock[s].agt = "dialing"
  /\ IF sock[s].srv = "closed" THEN UNCHANGED faults ELSE Happens("refused")
  /\ sock' = [sock EXCEPT ![s].agt = "dead"]
  /\ UNCHANGED <<agentVars, stateVars, serverVars>>

\* "open" on the agent. AUTH goes out over wsInstance, which is this socket.
Opened(s) ==
  /\ sock[s].agt = "dialing" /\ sock[s].srv \notin {"none", "closed"} /\ ~sock[s].cut
  /\ sock' = [sock EXCEPT ![s].agt = "open", ![wsInstance].up = Append(@, Auth)]
  /\ UNCHANGED <<agentVars, stateVars, serverVars, faults>>

\* The five seconds are over.
AttemptTimeout(s) ==
  /\ connecting = s /\ sock[s].agt \in {"dialing", "open", "closing"}
  /\ IF sock[s].cut THEN UNCHANGED faults ELSE Happens("slow")
  /\ connecting' = None
  /\ sock' = [sock EXCEPT ![s].agt = "dead"]
  /\ UNCHANGED <<wsInstance, timer, stateVars, serverVars>>

-----------------------------------------------------------------------------
(* StateReporter. *)

\* Connection.send: over wsInstance, if it is open.
Goes(sk, ws) == ws # None /\ sk[ws].agt = "open"

Sent(sk, ws, frame) ==
  IF Goes(sk, ws) /\ ~sk[ws].cut
  THEN [sk EXCEPT ![ws].up = Append(@, frame)] ELSE sk

\* offer() of the status, for what was last sent on this connection.
Offer(sk, ws, last, v) ==
  IF last = v THEN lastSent' = last /\ sock' = sk
  ELSE /\ sock' = Sent(sk, ws, Status(v))
       /\ lastSent' = IF Goes(sk, ws) THEN v ELSE last

StatusChanges ==
  /\ status < MaxChanges
  /\ status' = status + 1
  /\ Offer(sock, wsInstance, lastSent, status')
  /\ UNCHANGED <<agentVars, host, owed, serverVars, faults>>

HostChanges ==
  /\ host < MaxChanges
  /\ host' = host + 1 /\ owed' = TRUE
  /\ UNCHANGED <<sock, agentVars, status, lastSent, serverVars, faults>>

\* The last read asked for ends: it began after the last change.
ReadEnds ==
  /\ owed
  /\ owed' = FALSE
  /\ sock' = Sent(sock, wsInstance, State(host))
  /\ UNCHANGED <<agentVars, status, host, lastSent, serverVars, faults>>

WelcomeRemembers(s) ==
  /\ sock[s].welcome /\ sock[s].agt \in {"open", "closing"}
  /\ connecting' = IF connecting = s THEN None ELSE connecting
  /\ Offer([sock EXCEPT ![s].welcome = FALSE], wsInstance, lastSent, status)
  /\ owed' = TRUE
  /\ UNCHANGED <<wsInstance, timer, status, host, serverVars, faults>>

\* AUTH_SUCCESS: the attempt has succeeded, and every state is sent.
Welcome(s) ==
  /\ sock[s].welcome /\ sock[s].agt \in {"open", "closing"}
  /\ connecting' = IF connecting = s THEN None ELSE connecting
  /\ Offer([sock EXCEPT ![s].welcome = FALSE], wsInstance, Unsent, status)
  /\ owed' = TRUE
  /\ UNCHANGED <<wsInstance, timer, status, host, serverVars, faults>>

-----------------------------------------------------------------------------
(* The agent's end closes. *)

\* The server's close reaches the agent, after the frames before it.
PeerCloses(s) ==
  /\ sock[s].agt = "open" /\ sock[s].srv \in {"rejecting", "closing", "closed"}
  /\ ~sock[s].welcome
  /\ sock' = [sock EXCEPT ![s].agt = "closing"]
  /\ UNCHANGED <<agentVars, stateVars, serverVars, faults>>

\* Nothing was heard for 35 seconds: the connection is broken, or stalled with
\* frames that may still arrive.
Heartbeat(s) ==
  /\ sock[s].agt \in {"open", "closing"} /\ connecting # s
  /\ IF sock[s].cut THEN UNCHANGED faults ELSE Happens("stall")
  /\ sock' = [sock EXCEPT ![s].agt = "dead"]
  /\ UNCHANGED <<agentVars, stateVars, serverVars>>

AgentClosedAlways(s) ==
  /\ \/ sock[s].agt = "dead"
     \/ sock[s].agt = "closing" /\ sock[s].srv # "open"
  /\ sock' = [sock EXCEPT ![s].agt = "closed", ![s].welcome = FALSE]
  /\ connecting' = IF connecting = s THEN None ELSE connecting
  /\ wsInstance' = None /\ timer' = TRUE
  /\ UNCHANGED <<stateVars, serverVars, faults>>

\* The close event. A socket that was superseded starts nothing.
AgentClosed(s) ==
  /\ \/ sock[s].agt = "dead"
     \/ sock[s].agt = "closing" /\ sock[s].srv # "open"
  /\ sock' = [sock EXCEPT ![s].agt = "closed", ![s].welcome = FALSE]
  /\ connecting' = IF connecting = s THEN None ELSE connecting
  /\ IF wsInstance # s THEN UNCHANGED <<wsInstance, timer>>
     ELSE wsInstance' = None /\ timer' = TRUE
  /\ UNCHANGED <<stateVars, serverVars, faults>>

\* The process ends and the next one connects. What it sent is still on its way.
AgentRestarts ==
  LET gone == [s \in Sockets |->
                 IF sock[s].agt = "none" THEN sock[s]
                 ELSE [sock[s] EXCEPT !.agt = "closed", !.welcome = FALSE]]
  IN /\ Happens("agent restart")
     /\ ConnectFrom(gone, None, None)
     /\ owed' = FALSE /\ lastSent' = Unsent
     /\ UNCHANGED <<status, host, serverVars>>

-----------------------------------------------------------------------------
(* The server. *)

Receives(s) == sock[s].up # <<>> /\ sock[s].srv \in {"open", "closing"}

\* registerClient: what is replaced is closed.
Registers(s) ==
  [t \in Sockets |->
     IF t = s THEN [sock[s] EXCEPT !.authed = TRUE, !.up = Tail(@),
                                   !.welcome = (sock[s].srv = "open" /\ sock[s].agt # "closed")]
     ELSE IF t = registered /\ sock[t].srv = "open"
     THEN [sock[t] EXCEPT !.srv = "closing"] ELSE sock[t]]

ServerAuth(s) ==
  /\ Receives(s) /\ ~sock[s].authed
  /\ sock' = Registers(s)
  /\ registered' = s
  /\ UNCHANGED <<agentVars, stateVars, live, stored, overtaken, faults>>

\* handleAgentStatus and handleDockerUpdate: for the client, whichever of its
\* sockets the frame came over.
ServerFrame(s) ==
  LET frame == Head(sock[s].up)
  IN /\ Receives(s) /\ sock[s].authed
     /\ sock' = [sock EXCEPT ![s].up = Tail(@)]
     /\ IF frame.type = "AGENT_STATUS"
        THEN /\ live' = IF registered # None THEN frame.version ELSE live
             /\ UNCHANGED stored
        ELSE stored' = frame.version /\ UNCHANGED live
     /\ overtaken' = IF registered = s THEN overtaken \ {frame.type}
                     ELSE overtaken \cup {frame.type}
     /\ UNCHANGED <<agentVars, stateVars, registered, faults>>

\* No AUTH within five seconds.
AuthTimeout(s) ==
  /\ sock[s].srv = "open" /\ ~sock[s].authed /\ sock[s].agt # "dialing"
  /\ Happens("slow")
  /\ sock' = [sock EXCEPT ![s].srv = "closing"]
  /\ UNCHANGED <<agentVars, stateVars, serverVars>>

ServerClosedAny(s) ==
  /\ sock[s].srv \in {"open", "rejecting", "closing"}
  /\ \/ sock[s].cut
     \/ sock[s].agt \in {"closing", "dead", "closed"} /\ ~Receives(s)
  /\ sock' = [sock EXCEPT ![s].srv = "closed", ![s].up = <<>>]
  /\ registered' = None /\ live' = Unsent
  /\ UNCHANGED <<agentVars, stateVars, stored, overtaken, faults>>

\* The close event: the peer has closed after its frames, or the heartbeat
\* found the connection broken. unregisterClient looks at the socket.
ServerClosed(s) ==
  /\ sock[s].srv \in {"open", "rejecting", "closing"}
  /\ \/ sock[s].cut
     \/ sock[s].agt \in {"closing", "dead", "closed"} /\ ~Receives(s)
  /\ sock' = [sock EXCEPT ![s].srv = "closed", ![s].up = <<>>]
  /\ IF registered = s
     THEN registered' = None /\ live' = Unsent
     ELSE UNCHANGED <<registered, live>>
  /\ UNCHANGED <<agentVars, stateVars, stored, overtaken, faults>>

ServerRestarts ==
  /\ Happens("server restart")
  /\ sock' = [s \in Sockets |->
                IF sock[s].srv = "none" THEN sock[s]
                ELSE [sock[s] EXCEPT !.srv = "closed", !.up = <<>>, !.welcome = FALSE]]
  /\ registered' = None /\ live' = Unsent
  /\ UNCHANGED <<agentVars, stateVars, stored, overtaken>>

\* The network loses the connection and what is under way.
CutLink(s) ==
  /\ ~sock[s].cut /\ sock[s].agt = "open"
  /\ Happens("cut")
  /\ sock' = [sock EXCEPT ![s].cut = TRUE, ![s].up = <<>>, ![s].welcome = FALSE]
  /\ UNCHANGED <<agentVars, stateVars, serverVars>>

-----------------------------------------------------------------------------
Dialling(s) == Accept(s) \/ Reject(s) \/ DialFails(s) \/ Opened(s) \/ AttemptTimeout(s)
AgentEnd(s) == Welcome(s) \/ PeerCloses(s) \/ Heartbeat(s) \/ AgentClosed(s)
ServerEnd(s) ==
  ServerAuth(s) \/ ServerFrame(s) \/ AuthTimeout(s) \/ ServerClosed(s) \/ CutLink(s)

Next ==
  \/ TimerFires \/ ManualConnect \/ AgentRestarts \/ ServerRestarts
  \/ StatusChanges \/ HostChanges \/ ReadEnds
  \/ \E s \in Sockets : Dialling(s) \/ AgentEnd(s) \/ ServerEnd(s)

Spec == Init /\ [][Next]_vars

\* A timer fires, a read ends, frames arrive and close events are raised. A
\* timeout is only due where the connection is broken.
Fairness ==
  /\ WF_vars(TimerFires) /\ WF_vars(ReadEnds)
  /\ \A s \in Sockets :
       /\ WF_vars(Accept(s)) /\ WF_vars(Opened(s)) /\ WF_vars(Welcome(s))
       /\ WF_vars(sock[s].srv = "closed" /\ DialFails(s))
       /\ WF_vars(sock[s].cut /\ AttemptTimeout(s))
       /\ WF_vars(sock[s].cut /\ Heartbeat(s))
       /\ WF_vars(PeerCloses(s)) /\ WF_vars(AgentClosed(s))
       /\ WF_vars(ServerAuth(s)) /\ WF_vars(ServerFrame(s)) /\ WF_vars(ServerClosed(s))

FairSpec == Spec /\ Fairness

-----------------------------------------------------------------------------
(* The agent runs one reconnect loop: it has at most one socket dialling or *)
(* open, and no reconnect is queued beside it. Two loops closed each        *)
(* other's connections once (comments at Connection.ts:383 and 519).        *)
Alive == {s \in Sockets : sock[s].agt \in {"dialing", "open"}}

OneLoop ==
  /\ Cardinality(Alive) <= 1
  /\ timer => Alive = {}

(* However the connection broke, in the end it stands: both sides take the  *)
(* same socket for the connection, and neither is about to close it.        *)
LinkSettles ==
  <>[](/\ wsInstance # None /\ registered = wsInstance
       /\ sock[wsInstance].agt = "open" /\ sock[wsInstance].srv = "open"
       /\ ~timer /\ connecting = None)

(* In the end the server holds what the agent last had to say, its status   *)
(* and the state of its host, after whatever was lost with a connection.    *)
(* Excepted is a channel whose last message came over a socket that had     *)
(* been replaced: such a message is not told from a new one, and stands     *)
(* until the next change.                                                   *)
LastWordHeld ==
  <>[](/\ "AGENT_STATUS" \in overtaken \/ live = status
       /\ "DOCKER_UPDATE" \in overtaken \/ stored = host)
=============================================================================
