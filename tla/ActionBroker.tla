---------------------------- MODULE ActionBroker ----------------------------
(***************************************************************************)
(* An action the dashboard asks for, from the request to the outcome: the  *)
(* server's map of connected agents and of actions waiting for an answer   *)
(* (ProxyService), the frames on the agent's socket, the agent that works  *)
(* on the action (DockerService.executeAction) and reports its outcome     *)
(* once as the answer, over the socket the action came in on, and once as  *)
(* an event, over whatever connection there is.                            *)
(*                                                                         *)
(* One agent, which dials again when its socket is gone; each session gets *)
(* a new socket. The two ends of a socket go down one after the other, and *)
(* a frame on the way then is lost. The handshake is one step: what comes  *)
(* before it is OutboundLink's. That a queued event reaches the server     *)
(* once a connection is there is AckDelivery's.                            *)
(***************************************************************************)

CONSTANTS
  Actions,    \* the requests made
  Sockets,    \* the sockets a run has: a bound on how often links break
  NoSocket,
  Kinds       \* "slow" answers, "reject" by the agent's check, "crash" of the
              \* agent, "restart" of the server, "half" open links

ASSUME SocketAssumption == NoSocket \notin Sockets

VARIABLES
  server,     \* the server's end of each socket: "none", "open", "closing" or "closed"
  agent,      \* the agent's end: "none", "open" or "closed"
  connected,  \* the socket in connectedClients
  asked,      \* actions on their way to the agent
  answers,    \* answers on their way to the server
  request,    \* the caller's side: "none", "waiting", and how it settled
  via,        \* the socket the action was sent on
  work,       \* the agent's side: "none", "running", and how it ended
  event,      \* where the outcome event of each action is: "none", "queued" at the
              \* agent, "filed" by the server or "lost" with the agent's process
  filed       \* what the server has recorded of each action

vars == <<server, agent, connected, asked, answers, request, via, work, event, filed>>

Unused == {s \in Sockets : server[s] = "none"}

\* The readyState check on the agent's socket.
Reachable == connected # NoSocket /\ server[connected] = "open"

AgentOnline == \E s \in Sockets : agent[s] = "open"

Pending(s) == {a \in Actions : request[a] = "waiting" /\ via[a] = s}

Init ==
  /\ server = [s \in Sockets |-> "none"] /\ agent = [s \in Sockets |-> "none"]
  /\ connected = NoSocket
  /\ asked = {} /\ answers = {}
  /\ request = [a \in Actions |-> "none"] /\ via = [a \in Actions |-> NoSocket]
  /\ work = [a \in Actions |-> "none"]
  /\ event = [a \in Actions |-> "none"] /\ filed = [a \in Actions |-> {}]

-----------------------------------------------------------------------------
(* Connections *)

\* registerClient: a socket still registered is told to close, and the new
\* one takes its place.
Replaced(s) ==
  [t \in Sockets |-> IF t = s THEN "open"
                     ELSE IF t = connected /\ server[t] = "open" THEN "closing"
                     ELSE server[t]]

Connect(s) ==
  /\ s \in Unused /\ ~AgentOnline
  /\ server' = Replaced(s) /\ agent' = [agent EXCEPT ![s] = "open"]
  /\ connected' = s
  /\ UNCHANGED <<asked, answers, request, via, work, event, filed>>

\* The agent's end goes: its watchdog, a network error, or the server's close.
\* `half`: it may be long before the server notices.
AgentCloses(s) ==
  /\ agent[s] = "open" /\ Unused # {}
  /\ "half" \in Kinds \/ server[s] # "open"
  /\ agent' = [agent EXCEPT ![s] = "closed"]
  /\ asked' = asked \ {a \in asked : via[a] = s}
  /\ UNCHANGED <<server, connected, answers, request, via, work, event, filed>>

\* The heartbeat gives the socket up, or the server closes it on purpose.
ServerCloses(s) ==
  /\ server[s] = "open" /\ Unused # {}
  /\ server' = [server EXCEPT ![s] = "closing"]
  /\ UNCHANGED <<agent, connected, asked, answers, request, via, work, event, filed>>

\* Which actions fail when socket s has closed, and who is registered then.
UnregisteredOnlyIfCurrent(s) ==
  /\ connected' = IF connected = s THEN NoSocket ELSE connected
  /\ LET failing == IF connected = s THEN Pending(s) ELSE {}
     IN /\ request' = [a \in Actions |-> IF a \in failing THEN "disconnected" ELSE request[a]]
        /\ filed' = [a \in Actions |-> IF a \in failing THEN filed[a] \cup {"unconfirmed"} ELSE filed[a]]

Unregistered(s) ==
  /\ connected' = IF connected = s THEN NoSocket ELSE connected
  /\ request' = [a \in Actions |-> IF a \in Pending(s) THEN "disconnected" ELSE request[a]]
  /\ filed' = [a \in Actions |-> IF a \in Pending(s) THEN filed[a] \cup {"unconfirmed"} ELSE filed[a]]

\* The close event: the map forgets the socket, and what waits on it fails.
CloseEvent(s) ==
  /\ server[s] = "closing" \/ (server[s] = "open" /\ agent[s] = "closed")
  /\ server' = [server EXCEPT ![s] = "closed"]
  /\ Unregistered(s)
  /\ answers' = answers \ {a \in answers : via[a] = s}
  /\ UNCHANGED <<agent, asked, via, work, event>>

-----------------------------------------------------------------------------
(* Requests *)

\* requestDockerAction, called by the controller.
Request(a) ==
  /\ request[a] = "none"
  /\ IF Reachable
       THEN /\ request' = [request EXCEPT ![a] = "waiting"]
            /\ via' = [via EXCEPT ![a] = connected]
            /\ filed' = [filed EXCEPT ![a] = {"requested"}]
            /\ asked' = IF agent[connected] = "open" THEN asked \cup {a} ELSE asked
       ELSE /\ request' = [request EXCEPT ![a] = "not-connected"]
            /\ UNCHANGED <<via, filed, asked>>
  /\ UNCHANGED <<server, agent, connected, answers, work, event>>

\* The two minutes are over.
Timeout(a) ==
  /\ "slow" \in Kinds /\ request[a] = "waiting"
  /\ request' = [request EXCEPT ![a] = "timeout"]
  /\ filed' = [filed EXCEPT ![a] = @ \cup {"unconfirmed"}]
  /\ UNCHANGED <<server, agent, connected, asked, answers, via, work, event>>

AnswerToAnyone(a) ==
  /\ a \in answers /\ server[via[a]] \in {"open", "closing"}
  /\ answers' = answers \ {a}
  /\ \E b \in Actions :
       /\ request[b] = "waiting"
       /\ request' = [request EXCEPT ![b] = IF work[a] = "completed" THEN "success" ELSE "failure"]
       /\ filed' = [filed EXCEPT ![b] = IF work[a] = "rejected" THEN @ \cup {"failed by server"} ELSE @]
  /\ UNCHANGED <<server, agent, connected, asked, via, work, event>>

\* An answer arrives: the action that waits under its id is settled, and a
\* failure the agent has not reported is reported for it.
Answer(a) ==
  /\ a \in answers /\ server[via[a]] \in {"open", "closing"}
  /\ answers' = answers \ {a}
  /\ IF request[a] = "waiting"
       THEN /\ request' = [request EXCEPT ![a] = IF work[a] = "completed" THEN "success" ELSE "failure"]
            /\ filed' = [filed EXCEPT ![a] = IF work[a] = "rejected" THEN @ \cup {"failed by server"} ELSE @]
       ELSE UNCHANGED <<request, filed>>
  /\ UNCHANGED <<server, agent, connected, asked, via, work, event>>

\* The outcome event of an action reaches the server.
FileEvent(a) ==
  /\ event[a] = "queued" /\ Reachable /\ agent[connected] = "open"
  /\ event' = [event EXCEPT ![a] = "filed"]
  /\ filed' = [filed EXCEPT ![a] = @ \cup {work[a]}]
  /\ UNCHANGED <<server, agent, connected, asked, answers, request, via, work>>

-----------------------------------------------------------------------------
(* The agent *)

SentBack(a) == IF agent[via[a]] = "open" THEN answers \cup {a} ELSE answers

\* The action reaches the agent: it does not pass its check, or work begins.
Receive(a) ==
  /\ a \in asked /\ asked' = asked \ {a}
  /\ \/ /\ work' = [work EXCEPT ![a] = "running"] /\ UNCHANGED answers
     \/ /\ "reject" \in Kinds
        /\ work' = [work EXCEPT ![a] = "rejected"]
        /\ answers' = SentBack(a)
  /\ UNCHANGED <<server, agent, connected, request, via, event, filed>>

FinishTellsSocketOnly(a) ==
  /\ work[a] = "running"
  /\ \E result \in {"completed", "failed"} : work' = [work EXCEPT ![a] = result]
  /\ event' = IF agent[via[a]] = "open" THEN event ELSE [event EXCEPT ![a] = "queued"]
  /\ answers' = SentBack(a)
  /\ UNCHANGED <<server, agent, connected, asked, request, via, filed>>

\* The work ends, or the work gate has turned it away: the outcome is an
\* event, and an answer if the socket is still there.
Finish(a) ==
  /\ work[a] = "running"
  /\ \E result \in {"completed", "failed"} : work' = [work EXCEPT ![a] = result]
  /\ event' = [event EXCEPT ![a] = "queued"]
  /\ answers' = SentBack(a)
  /\ UNCHANGED <<server, agent, connected, asked, request, via, filed>>

\* The agent's process ends; events its queue has not written are lost.
Crash ==
  /\ "crash" \in Kinds /\ Unused # {}
  /\ \E s \in Sockets : agent[s] = "open"
  /\ agent' = [s \in Sockets |-> IF agent[s] = "open" THEN "closed" ELSE agent[s]]
  /\ asked' = {}
  /\ work' = [a \in Actions |-> IF work[a] = "running" THEN "cut" ELSE work[a]]
  /\ \E unwritten \in SUBSET {a \in Actions : event[a] = "queued"} :
       event' = [a \in Actions |-> IF a \in unwritten THEN "lost" ELSE event[a]]
  /\ UNCHANGED <<server, connected, answers, request, via, filed>>

\* The server's process ends, and with it the requests.
Restart ==
  /\ "restart" \in Kinds /\ Unused # {}
  /\ server' = [s \in Sockets |-> IF server[s] = "none" THEN "none" ELSE "closed"]
  /\ server # server'
  /\ connected' = NoSocket /\ answers' = {}
  /\ request' = [a \in Actions |-> IF request[a] = "waiting" THEN "gone" ELSE request[a]]
  /\ UNCHANGED <<agent, asked, via, work, event, filed>>

Next ==
  \/ \E s \in Sockets : Connect(s) \/ AgentCloses(s) \/ ServerCloses(s) \/ CloseEvent(s)
  \/ \E a \in Actions :
       \/ Request(a) \/ Timeout(a) \/ Answer(a) \/ FileEvent(a)
       \/ Receive(a) \/ Finish(a)
  \/ Crash \/ Restart

Spec == Init /\ [][Next]_vars

\* The agent dials again, a socket whose other end is gone closes, and the
\* agent hands its events over. Nothing makes Docker answer: work may hang.
Fairness ==
  /\ WF_vars(\E s \in Sockets : Connect(s))
  /\ \A s \in Sockets :
       /\ WF_vars(CloseEvent(s))
       /\ WF_vars(server[s] \in {"closing", "closed"} /\ AgentCloses(s))
  /\ \A a \in Actions : WF_vars(FileEvent(a))

FairSpec == Spec /\ Fairness

-----------------------------------------------------------------------------
(* Properties *)

Settled == {"not-connected", "disconnected", "timeout", "success", "failure", "gone"}

\* No caller waits on a socket that has closed, replaced or not: the answer
\* could only have come over it.
NoneWaitsOnClosed == \A a \in Actions : request[a] = "waiting" => server[via[a]] \in {"open", "closing"}

\* The agent the map holds is the one with the open socket: a socket that
\* closes late does not take its successor's entry along.
OpenIsConnected == \A s \in Sockets : server[s] = "open" => connected = s

\* A caller that got its answer got the outcome of its own action, and one
\* told that the agent is not connected can rely on nothing having been done.
AnswersAgree ==
  \A a \in Actions :
    /\ request[a] = "success" => work[a] = "completed"
    /\ request[a] = "failure" => work[a] \in {"failed", "rejected"}
    /\ request[a] = "not-connected" => work[a] = "none"

\* The dashboard is told what became of an action, by the agent or on its
\* behalf, and an action left unconfirmed was not answered.
RecordsAgree ==
  \A a \in Actions :
    /\ "completed" \in filed[a] => work[a] = "completed"
    /\ "failed" \in filed[a] => work[a] = "failed"
    /\ "failed by server" \in filed[a] => work[a] = "rejected"
    /\ "unconfirmed" \in filed[a] => request[a] \in {"timeout", "disconnected"}

\* What the caller is told and what the activity list says of an action are
\* what became of that action, whatever is late, lost or answered for it: no
\* action has two outcomes, and none has another's.
AnswerIsTheOutcome == AnswersAgree /\ RecordsAgree

\* A request settles once: an answer that comes late changes nothing.
SettlesOnce == [][\A a \in Actions : request[a] \in Settled => request'[a] = request[a]]_vars

\* An action that ended is accounted for, whatever became of the socket it
\* came in on and of the caller, unless the agent's process ended before it
\* had written its queue.
OutcomeFiled ==
  \A a \in Actions :
    work[a] \in {"completed", "failed"} ~> (work[a] \in filed[a] \/ event[a] = "lost")
=============================================================================
