-------------------------- MODULE DashboardProofs --------------------------
(***************************************************************************)
(* The two ways the dashboard meets the server, for any bounds and         *)
(* whatever may happen. ActionBroker: no caller waits on a closed socket,  *)
(* the open socket is the registered one, and a caller that got an answer  *)
(* got the outcome of its own action. Announcements: a page that is quiet  *)
(* shows what is stored, and a webhook sees the events in their order.     *)
(***************************************************************************)
EXTENDS ActionBroker, Announcements, FiniteSetTheorems, SequenceTheorems, TLAPS

\* A caller that waits does so on a socket the server still has.
WaitsOnLive ==
  \A a \in Actions : request[a] = "waiting" =>
    via[a] \in Sockets /\ server[via[a]] \in {"open", "closing"}

\* An action on its way to the agent was sent and has not been taken up.
AskedIsUntouched ==
  \A a \in asked : work[a] = "none" /\ request[a] \notin {"none", "not-connected"}

\* An answer is on its way only when the work has ended.
AnswersHaveEnded == \A a \in answers : work[a] \in {"completed", "failed", "rejected"}

\* What was never sent was never worked on.
UnsentIsUntouched == \A a \in Actions : request[a] = "none" => work[a] = "none"

Links == WaitsOnLive /\ OpenIsConnected

\* An outcome that waits for the server is one the work came to.
QueuedIsAnOutcome == \A a \in Actions : event[a] = "queued" => work[a] \in {"completed", "failed"}

Course ==
  /\ AskedIsUntouched /\ AnswersHaveEnded /\ UnsentIsUntouched
  /\ QueuedIsAnOutcome /\ AnswersAgree

\* The types of the variables, but for the records.
Typed ==
  /\ server \in [Sockets -> {"none", "open", "closing", "closed"}]
  /\ agent \in [Sockets -> {"none", "open", "closed"}]
  /\ connected \in Sockets \cup {NoSocket}
  /\ asked \subseteq Actions /\ answers \subseteq Actions
  /\ event \in [Actions -> {"none", "queued", "filed", "lost"}]
  /\ request \in [Actions -> Settled \cup {"none", "waiting"}]
  /\ via \in [Actions -> Sockets \cup {NoSocket}]
  /\ work \in [Actions -> {"none", "running", "completed", "failed", "rejected", "cut"}]

\* What the activity list may say of an action.
Records == {"requested", "unconfirmed", "failed by server", "completed", "failed"}
Recorded == filed \in [Actions -> SUBSET Records]

-----------------------------------------------------------------------------
\* What is filed of an action is one of the records: what FileEvent files is an outcome.
LEMMA RecordedKept == Recorded /\ QueuedIsAnOutcome /\ [Next]_vars => Recorded'
<1> SUFFICES ASSUME Recorded, QueuedIsAnOutcome, [Next]_vars PROVE Recorded'
  OBVIOUS
<1> USE DEF Recorded, Records
<1>1. ASSUME NEW s \in Sockets, CloseEvent(s) PROVE Recorded'
  <2>1. filed' = [a \in Actions |-> IF a \in Pending(s) THEN filed[a] \cup {"unconfirmed"} ELSE filed[a]]
    BY <1>1 DEF CloseEvent, Unregistered
  <2>2. \A a \in Actions : filed[a] \subseteq Records
    OBVIOUS
  <2> QED
    BY <2>1, <2>2
<1>2. ASSUME NEW a \in Actions, Request(a) PROVE Recorded'
  BY <1>2 DEF Request
<1>3. ASSUME NEW a \in Actions, Timeout(a) PROVE Recorded'
  BY <1>3 DEF Timeout
<1>4. ASSUME NEW a \in Actions, Answer(a) PROVE Recorded'
  BY <1>4 DEF Answer
<1>5. ASSUME NEW a \in Actions, FileEvent(a) PROVE Recorded'
  BY <1>5 DEF FileEvent, QueuedIsAnOutcome
<1>6. ASSUME UNCHANGED filed PROVE Recorded'
  BY <1>6
<1> QED
  BY <1>1, <1>2, <1>3, <1>4, <1>5, <1>6 DEF Next, vars, Connect, AgentCloses, ServerCloses,
     Receive, Finish, Crash, Restart

\* The variables have their types.
LEMMA TypedKept == Typed /\ [Next]_vars => Typed'
<1> SUFFICES ASSUME Typed, [Next]_vars PROVE Typed'
  OBVIOUS
<1> USE SocketAssumption
<1>1. ASSUME NEW s \in Sockets, Connect(s) PROVE Typed'
  BY <1>1 DEF Typed, Connect, Replaced, Unused
<1>2. ASSUME NEW s \in Sockets, AgentCloses(s) PROVE Typed'
  BY <1>2 DEF Typed, AgentCloses
<1>3. ASSUME NEW s \in Sockets, ServerCloses(s) PROVE Typed'
  BY <1>3 DEF Typed, ServerCloses
<1>4. ASSUME NEW s \in Sockets, CloseEvent(s) PROVE Typed'
  BY <1>4 DEF Typed, CloseEvent, Unregistered, Settled
<1>5. ASSUME NEW a \in Actions, Request(a) PROVE Typed'
  BY <1>5 DEF Typed, Request, Settled, Reachable
<1>6. ASSUME NEW a \in Actions, Timeout(a) PROVE Typed'
  BY <1>6 DEF Typed, Timeout, Settled
<1>7. ASSUME NEW a \in Actions, Answer(a) PROVE Typed'
  BY <1>7 DEF Typed, Answer, Settled
<1>8. ASSUME NEW a \in Actions, FileEvent(a) PROVE Typed'
  BY <1>8 DEF Typed, FileEvent
<1>9. ASSUME NEW a \in Actions, Receive(a) PROVE Typed'
  BY <1>9 DEF Typed, Receive, SentBack
<1>10. ASSUME NEW a \in Actions, Finish(a) PROVE Typed'
  BY <1>10 DEF Typed, Finish, SentBack
<1>11. CASE Crash
  BY <1>11 DEF Typed, Crash
<1>12. CASE Restart
  BY <1>12 DEF Typed, Restart, Settled
<1>13. CASE UNCHANGED vars
  BY <1>13 DEF Typed, vars
<1> QED
  BY <1>1, <1>2, <1>3, <1>4, <1>5, <1>6, <1>7, <1>8, <1>9, <1>10, <1>11, <1>12, <1>13 DEF Next

LEMMA LinksKept == Typed /\ Links /\ [Next]_vars => Links'
<1> SUFFICES ASSUME Typed, Links, [Next]_vars PROVE Links'
  OBVIOUS
<1> USE SocketAssumption DEF Typed, Links, WaitsOnLive, OpenIsConnected
<1>1. ASSUME NEW s \in Sockets, Connect(s) PROVE Links'
  BY <1>1 DEF Connect, Replaced, Unused
<1>2. ASSUME NEW s \in Sockets, AgentCloses(s) PROVE Links'
  BY <1>2 DEF AgentCloses
<1>3. ASSUME NEW s \in Sockets, ServerCloses(s) PROVE Links'
  BY <1>3 DEF ServerCloses
<1>4. ASSUME NEW s \in Sockets, CloseEvent(s) PROVE Links'
  BY <1>4 DEF CloseEvent, Unregistered, Pending
<1>5. ASSUME NEW a \in Actions, Request(a) PROVE Links'
  BY <1>5 DEF Request, Reachable
<1>6. ASSUME NEW a \in Actions, Timeout(a) PROVE Links'
  BY <1>6 DEF Timeout
<1>7. ASSUME NEW a \in Actions, Answer(a) PROVE Links'
  BY <1>7 DEF Answer
<1>8. ASSUME NEW a \in Actions, FileEvent(a) PROVE Links'
  BY <1>8 DEF FileEvent
<1>9. ASSUME NEW a \in Actions, Receive(a) PROVE Links'
  BY <1>9 DEF Receive
<1>10. ASSUME NEW a \in Actions, Finish(a) PROVE Links'
  BY <1>10 DEF Finish
<1>11. CASE Crash
  BY <1>11 DEF Crash
<1>12. CASE Restart
  BY <1>12 DEF Restart
<1>13. CASE UNCHANGED vars
  BY <1>13 DEF vars
<1> QED
  BY <1>1, <1>2, <1>3, <1>4, <1>5, <1>6, <1>7, <1>8, <1>9, <1>10, <1>11, <1>12, <1>13 DEF Next

LEMMA CourseKept == Typed /\ Course /\ [Next]_vars => Course'
<1> SUFFICES ASSUME Typed, Course, [Next]_vars PROVE Course'
  OBVIOUS
<1> USE DEF Typed, Course, AskedIsUntouched, AnswersHaveEnded, UnsentIsUntouched,
        QueuedIsAnOutcome, AnswersAgree
<1>1. ASSUME NEW s \in Sockets, Connect(s) PROVE Course'
  BY <1>1 DEF Connect
<1>2. ASSUME NEW s \in Sockets, AgentCloses(s) PROVE Course'
  BY <1>2 DEF AgentCloses
<1>3. ASSUME NEW s \in Sockets, ServerCloses(s) PROVE Course'
  BY <1>3 DEF ServerCloses
<1>4. ASSUME NEW s \in Sockets, CloseEvent(s) PROVE Course'
  BY <1>4 DEF CloseEvent, Unregistered, Pending
<1>5. ASSUME NEW a \in Actions, Request(a) PROVE Course'
  BY <1>5 DEF Request
<1>6. ASSUME NEW a \in Actions, Timeout(a) PROVE Course'
  BY <1>6 DEF Timeout
<1>7. ASSUME NEW a \in Actions, Answer(a) PROVE Course'
  <2>1. work[a] \in {"completed", "failed", "rejected"}
    BY <1>7 DEF Answer
  <2>2. CASE request[a] = "waiting"
    <3>1. request' = [request EXCEPT ![a] = IF work[a] = "completed" THEN "success" ELSE "failure"]
      BY <1>7, <2>2 DEF Answer
    <3>2. UNCHANGED <<work, asked>> /\ answers' \subseteq answers
      BY <1>7 DEF Answer
    <3>3. request'[a] = "success" => work'[a] = "completed"
      BY <3>1, <3>2
    <3>4. request'[a] \in {"success", "failure"}
      BY <3>1
    <3>5. request'[a] = "failure" => work'[a] \in {"failed", "rejected"}
      BY <2>1, <3>1, <3>2
    <3>6. \A b \in Actions \ {a} : request'[b] = request[b]
      BY <3>1
    <3>7. AskedIsUntouched'
      BY <3>2, <3>4, <3>6
    <3>8. AnswersHaveEnded' /\ UnsentIsUntouched' /\ QueuedIsAnOutcome'
      BY <1>7, <3>2, <3>4, <3>6 DEF Answer
    <3>9. AnswersAgree'
      BY <3>2, <3>3, <3>4, <3>5, <3>6
    <3> QED
      BY <3>7, <3>8, <3>9
  <2>3. CASE request[a] # "waiting"
    BY <1>7, <2>3 DEF Answer
  <2> QED
    BY <2>2, <2>3
<1>8. ASSUME NEW a \in Actions, FileEvent(a) PROVE Course'
  BY <1>8 DEF FileEvent
<1>9. ASSUME NEW a \in Actions, Receive(a) PROVE Course'
  BY <1>9 DEF Receive, SentBack
<1>10. ASSUME NEW a \in Actions, Finish(a) PROVE Course'
  BY <1>10 DEF Finish, SentBack
<1>11. CASE Crash
  BY <1>11 DEF Crash
<1>12. CASE Restart
  BY <1>12 DEF Restart
<1>13. CASE UNCHANGED vars
  BY <1>13 DEF vars
<1> QED
  BY <1>1, <1>2, <1>3, <1>4, <1>5, <1>6, <1>7, <1>8, <1>9, <1>10, <1>11, <1>12, <1>13 DEF Next

\* What is filed of an action agrees with what became of it.
LEMMA RecordsKept == Typed /\ Recorded /\ Course /\ RecordsAgree /\ [Next]_vars => RecordsAgree'
<1> SUFFICES ASSUME Typed, Recorded, Course, RecordsAgree, [Next]_vars PROVE RecordsAgree'
  OBVIOUS
<1>0. \A a \in Actions : request[a] \notin {"timeout", "disconnected"} => "unconfirmed" \notin filed[a]
  BY DEF RecordsAgree
<1> USE DEF Typed, Recorded, RecordsAgree
<1>1. ASSUME NEW s \in Sockets, CloseEvent(s) PROVE RecordsAgree'
  <2>1. UNCHANGED work
    BY <1>1 DEF CloseEvent
  <2>2. \A a \in Actions \ Pending(s) : request'[a] = request[a] /\ filed'[a] = filed[a]
    BY <1>1 DEF CloseEvent, Unregistered
  <2>3. \A a \in Pending(s) : request'[a] = "disconnected" /\ filed'[a] = filed[a] \cup {"unconfirmed"}
    BY <1>1 DEF CloseEvent, Unregistered, Pending
  <2>4. \A a \in Actions, r \in {"completed", "failed", "failed by server"} :
          r \in filed'[a] => r \in filed[a]
    BY <2>2, <2>3
  <2>5. \A a \in Actions : "unconfirmed" \in filed'[a] => request'[a] \in {"timeout", "disconnected"}
    BY <2>2, <2>3
  <2> QED
    BY <2>1, <2>4, <2>5
<1>2. ASSUME NEW a \in Actions, Request(a) PROVE RecordsAgree'
  <2>1. UNCHANGED work /\ \A b \in Actions \ {a} : request'[b] = request[b] /\ filed'[b] = filed[b]
    BY <1>2 DEF Request
  <2>2. filed'[a] = {"requested"} \/ (filed'[a] = filed[a] /\ request[a] = "none")
    BY <1>2 DEF Request
  <2>3. \A b \in Actions \ {a} : "unconfirmed" \in filed'[b] => request'[b] \in {"timeout", "disconnected"}
    BY <2>1
  <2>4. "unconfirmed" \notin filed'[a]
    <3>1. CASE filed'[a] = {"requested"}
      BY <3>1
    <3>2. CASE filed'[a] = filed[a] /\ request[a] = "none"
      <4>1. "unconfirmed" \notin filed[a]
        BY <1>0, <3>2
      <4> QED
        BY <3>2, <4>1
    <3> QED
      BY <2>2, <3>1, <3>2
  <2>5. \A b \in Actions, r \in {"completed", "failed", "failed by server"} :
          r \in filed'[b] => r \in filed[b]
    BY <2>1, <2>2
  <2> QED
    BY <2>1, <2>3, <2>4, <2>5
<1>3. ASSUME NEW a \in Actions, Timeout(a) PROVE RecordsAgree'
  BY <1>3 DEF Timeout
<1>4. ASSUME NEW a \in Actions, Answer(a) PROVE RecordsAgree'
  <2>1. CASE request[a] = "waiting"
    <3>0. /\ request' = [request EXCEPT ![a] = IF work[a] = "completed" THEN "success" ELSE "failure"]
          /\ filed' = [filed EXCEPT ![a] = IF work[a] = "rejected" THEN @ \cup {"failed by server"} ELSE @]
          /\ UNCHANGED work
      BY <1>4, <2>1 DEF Answer
    <3>1. UNCHANGED work /\ \A b \in Actions \ {a} : request'[b] = request[b] /\ filed'[b] = filed[b]
      BY <3>0
    <3>2. filed'[a] = IF work[a] = "rejected" THEN filed[a] \cup {"failed by server"} ELSE filed[a]
      BY <3>0
    <3>3. "unconfirmed" \notin filed'[a]
      <4>1. "unconfirmed" \notin filed[a]
        BY <1>0, <2>1
      <4>2. filed'[a] \subseteq filed[a] \cup {"failed by server"}
        BY <3>2
      <4> QED
        BY <4>1, <4>2
    <3>4. \A r \in {"completed", "failed"} : r \in filed'[a] => r \in filed[a]
      BY <3>2
    <3>5. "failed by server" \in filed'[a] => work[a] = "rejected"
      BY <3>2
    <3> QED
      BY <3>1, <3>3, <3>4, <3>5
  <2>2. CASE request[a] # "waiting"
    BY <1>4, <2>2 DEF Answer
  <2> QED
    BY <2>1, <2>2
<1>5. ASSUME NEW a \in Actions, FileEvent(a) PROVE RecordsAgree'
  BY <1>5 DEF FileEvent, Course, QueuedIsAnOutcome
<1>6. ASSUME NEW a \in Actions, Receive(a) PROVE RecordsAgree'
  BY <1>6 DEF Receive, Course, AskedIsUntouched
<1>7. ASSUME NEW a \in Actions, Finish(a) PROVE RecordsAgree'
  BY <1>7 DEF Finish
<1>8. CASE Crash
  BY <1>8 DEF Crash
<1>9. CASE Restart
  BY <1>9 DEF Restart
<1>10. ASSUME UNCHANGED <<request, work, filed>> PROVE RecordsAgree'
  BY <1>10
<1> QED
  BY <1>1, <1>2, <1>3, <1>4, <1>5, <1>6, <1>7, <1>8, <1>9, <1>10
     DEF Next, vars, Connect, AgentCloses, ServerCloses

-----------------------------------------------------------------------------
\* The invariant the theorems rest on.
THEOREM Invariance == Spec => [](Typed /\ Recorded /\ Links /\ Course /\ RecordsAgree)
<1>1. Init => Typed /\ Recorded /\ Links /\ Course /\ RecordsAgree
  BY DEF Init, Typed, Recorded, Links, Course, WaitsOnLive, OpenIsConnected, AskedIsUntouched,
         AnswersHaveEnded, UnsentIsUntouched, QueuedIsAnOutcome, AnswersAgree, RecordsAgree, Settled, Records
<1>2. (Typed /\ Recorded /\ Links /\ Course /\ RecordsAgree) /\ [Next]_vars => (Typed /\ Recorded /\ Links /\ Course /\ RecordsAgree)'
  BY TypedKept, RecordedKept, LinksKept, CourseKept, RecordsKept DEF Course
<1> QED
  BY <1>1, <1>2, PTL DEF Spec

\* No caller waits on a socket that has closed.
THEOREM NobodyWaitsOnClosed == Spec => []NoneWaitsOnClosed
<1>1. Links => NoneWaitsOnClosed
  BY DEF Links, WaitsOnLive, NoneWaitsOnClosed
<1> QED
  BY <1>1, Invariance, PTL

\* The open socket is the one in connectedClients.
THEOREM TheOpenOneIsConnected == Spec => []OpenIsConnected
<1>1. Links => OpenIsConnected
  BY DEF Links
<1> QED
  BY <1>1, Invariance, PTL

\* Whoever got an answer got the outcome of its own action, an action answered
\* with "not connected" was never begun, and no action has two outcomes.
THEOREM AnswersAreTrue == Spec => []AnswerIsTheOutcome
<1>1. Course /\ RecordsAgree => AnswerIsTheOutcome
  BY DEF Course, AnswerIsTheOutcome
<1> QED
  BY <1>1, Invariance, PTL

\* A settled request stays as it is.
THEOREM SettledStays == Spec => SettlesOnce
<1>1. Typed /\ Course /\ [Next]_vars => (\A a \in Actions : request[a] \in Settled => request'[a] = request[a])
  <2> SUFFICES ASSUME Typed, [Next]_vars, NEW b \in Actions, request[b] \in Settled
               PROVE  request'[b] = request[b]
    OBVIOUS
  <2>0. request[b] # "none" /\ request[b] # "waiting"
    BY DEF Settled
  <2>1. ASSUME NEW s \in Sockets, CloseEvent(s) PROVE request'[b] = request[b]
    BY <2>0, <2>1 DEF CloseEvent, Unregistered, Pending
  <2>2. ASSUME NEW a \in Actions, Request(a) \/ Timeout(a) \/ Answer(a)
        PROVE  request'[b] = request[b]
    BY <2>0, <2>2 DEF Request, Timeout, Answer, Typed
  <2>3. CASE Restart
    BY <2>0, <2>3 DEF Restart
  <2>4. ASSUME NEW s \in Sockets, Connect(s) \/ AgentCloses(s) \/ ServerCloses(s)
        PROVE  request'[b] = request[b]
    BY <2>4 DEF Connect, AgentCloses, ServerCloses
  <2>5. ASSUME NEW a \in Actions, FileEvent(a) \/ Receive(a) \/ Finish(a)
        PROVE  request'[b] = request[b]
    BY <2>5 DEF FileEvent, Receive, Finish
  <2>6. CASE Crash \/ UNCHANGED vars
    BY <2>6 DEF Crash, vars
  <2> QED
    BY <2>1, <2>2, <2>3, <2>4, <2>5, <2>6 DEF Next
<1> QED
  BY <1>1, Invariance, PTL DEF Spec, SettlesOnce

-----------------------------------------------------------------------------
(* What the frames on their way carry.                                     *)

\* What the frames of a kind bring that lie behind the k-th.
Carried(p, k, kind) == UNION {p[i].ids : i \in {j \in k + 1 .. Len(p) : p[j].type = kind}}

\* The k-th frame is the last with the whole list.
LastWhole(p, k) ==
  /\ k \in 1 .. Len(p) /\ p[k].type = "ACTIVITY_UPDATE"
  /\ \A i \in k + 1 .. Len(p) : p[i].type # "ACTIVITY_UPDATE"

NoWhole(p) == \A i \in 1 .. Len(p) : p[i].type # "ACTIVITY_UPDATE"

\* Behind the k-th frame, what is told as seen is stored and was told before.
Orderly(p, k, stored) ==
  \A i \in k + 1 .. Len(p) : p[i].type = "ACTIVITY_SEEN" =>
    /\ p[i].ids \subseteq stored
    /\ \A j \in i + 1 .. Len(p) : p[j].type = "ACTIVITY_APPENDED" => p[i].ids \cap p[j].ids = {}

LEMMA InCarried ==
  ASSUME NEW p, NEW k, NEW kind, NEW e
  PROVE  e \in Carried(p, k, kind) <=>
           \E i \in k + 1 .. Len(p) : p[i].type = kind /\ e \in p[i].ids
BY DEF Carried

LEMMA CarriedAppend ==
  ASSUME NEW S, NEW p \in Seq(S), NEW f \in S, NEW k \in 0 .. Len(p), NEW kind
  PROVE  Carried(Append(p, f), k, kind) =
           Carried(p, k, kind) \cup (IF f.type = kind THEN f.ids ELSE {})
<1> DEFINE q == Append(p, f)
<1>1. Len(q) = Len(p) + 1 /\ q[Len(p) + 1] = f /\ \A i \in 1 .. Len(p) : q[i] = p[i]
  OBVIOUS
<1> HIDE DEF q
<1>2. ASSUME NEW e
      PROVE e \in Carried(q, k, kind) <=>
              e \in Carried(p, k, kind) \/ (f.type = kind /\ e \in f.ids)
  <2>1. (\E i \in k + 1 .. Len(q) : q[i].type = kind /\ e \in q[i].ids) <=>
          (\E i \in k + 1 .. Len(p) : p[i].type = kind /\ e \in p[i].ids)
            \/ (f.type = kind /\ e \in f.ids)
    BY <1>1
  <2> QED BY <2>1, InCarried
<1>3. QED BY <1>2 DEF q

LEMMA CarriedTail ==
  ASSUME NEW S, NEW p \in Seq(S), p # <<>>, NEW k \in 1 .. Len(p), NEW kind
  PROVE  Carried(Tail(p), k - 1, kind) = Carried(p, k, kind)
<1> DEFINE q == Tail(p)
<1>1. Len(q) = Len(p) - 1 /\ \A i \in 1 .. Len(q) : q[i] = p[i + 1]
  OBVIOUS
<1> HIDE DEF q
<1>2. ASSUME NEW e PROVE e \in Carried(q, k - 1, kind) <=> e \in Carried(p, k, kind)
  <2>1. ASSUME NEW i \in (k - 1) + 1 .. Len(q), q[i].type = kind, e \in q[i].ids
        PROVE \E j \in k + 1 .. Len(p) : p[j].type = kind /\ e \in p[j].ids
    <3>1. i + 1 \in k + 1 .. Len(p) /\ p[i + 1] = q[i]
      BY <1>1, <2>1
    <3> QED BY <3>1, <2>1
  <2>2. ASSUME NEW j \in k + 1 .. Len(p), p[j].type = kind, e \in p[j].ids
        PROVE \E i \in (k - 1) + 1 .. Len(q) : q[i].type = kind /\ e \in q[i].ids
    <3>1. j - 1 \in (k - 1) + 1 .. Len(q) /\ q[j - 1] = p[j]
      BY <1>1, <2>2
    <3> QED BY <3>1, <2>2
  <2> QED BY <2>1, <2>2, InCarried
<1>3. QED BY <1>2 DEF q

LEMMA CarriedHead ==
  ASSUME NEW S, NEW p \in Seq(S), p # <<>>, NEW kind
  PROVE  Carried(p, 0, kind) =
           Carried(Tail(p), 0, kind) \cup (IF Head(p).type = kind THEN Head(p).ids ELSE {})
<1>1. Carried(Tail(p), 0, kind) = Carried(p, 1, kind)
  <2>1. 1 \in 1 .. Len(p) /\ 1 - 1 = 0
    OBVIOUS
  <2> QED BY <2>1, CarriedTail
<1>2. Head(p) = p[1] /\ Len(p) \in Nat \ {0}
  OBVIOUS
<1>3. ASSUME NEW e
      PROVE e \in Carried(p, 0, kind) <=>
              e \in Carried(p, 1, kind) \/ (p[1].type = kind /\ e \in p[1].ids)
  <2>1. (\E i \in 0 + 1 .. Len(p) : p[i].type = kind /\ e \in p[i].ids) <=>
          (\E i \in 1 + 1 .. Len(p) : p[i].type = kind /\ e \in p[i].ids)
            \/ (p[1].type = kind /\ e \in p[1].ids)
    BY <1>2
  <2> QED BY <2>1, InCarried
<1>4. QED BY <1>1, <1>2, <1>3

LEMMA CarriedEnd ==
  ASSUME NEW S, NEW p \in Seq(S), NEW kind
  PROVE  Carried(p, Len(p), kind) = {}
<1>1. \A i \in Len(p) + 1 .. Len(p) : FALSE
  OBVIOUS
<1> QED BY <1>1, InCarried

LEMMA OrderlyAppend ==
  ASSUME NEW S, NEW p \in Seq(S), NEW f \in S, NEW k \in 0 .. Len(p), NEW stored, NEW more,
         Orderly(p, k, stored), stored \subseteq more,
         f.type = "ACTIVITY_SEEN" => f.ids \subseteq more,
         f.type = "ACTIVITY_APPENDED" => f.ids \cap stored = {}
  PROVE  Orderly(Append(p, f), k, more)
<1> DEFINE q == Append(p, f)
<1>1. Len(q) = Len(p) + 1 /\ q[Len(p) + 1] = f /\ \A i \in 1 .. Len(p) : q[i] = p[i]
  OBVIOUS
<1> HIDE DEF q
<1>2. ASSUME NEW i \in k + 1 .. Len(q), q[i].type = "ACTIVITY_SEEN"
      PROVE /\ q[i].ids \subseteq more
            /\ \A j \in i + 1 .. Len(q) : q[j].type = "ACTIVITY_APPENDED" => q[i].ids \cap q[j].ids = {}
  <2>1. CASE i = Len(p) + 1
    BY <1>1, <1>2, <2>1
  <2>2. CASE i \in k + 1 .. Len(p)
    <3>1. p[i] = q[i] /\ q[i].ids \subseteq stored
      BY <1>1, <1>2, <2>2 DEF Orderly
    <3>2. ASSUME NEW j \in i + 1 .. Len(q), q[j].type = "ACTIVITY_APPENDED"
          PROVE  q[i].ids \cap q[j].ids = {}
      <4>1. CASE j = Len(p) + 1
        BY <1>1, <3>1, <3>2, <4>1
      <4>2. CASE j \in i + 1 .. Len(p)
        BY <1>1, <1>2, <2>2, <3>1, <3>2, <4>2 DEF Orderly
      <4> QED BY <1>1, <4>1, <4>2
    <3> QED BY <3>1, <3>2
  <2> QED BY <1>1, <2>1, <2>2
<1> QED BY <1>2 DEF Orderly, q

LEMMA OrderlyTail ==
  ASSUME NEW S, NEW p \in Seq(S), p # <<>>, NEW k \in 0 .. Len(p) - 1, NEW stored,
         NEW n \in {k, k + 1}, Orderly(p, n, stored)
  PROVE  Orderly(Tail(p), k, stored)
<1> DEFINE q == Tail(p)
<1>1. Len(q) = Len(p) - 1 /\ \A i \in 1 .. Len(q) : q[i] = p[i + 1]
  OBVIOUS
<1> HIDE DEF q
<1>2. ASSUME NEW i \in k + 1 .. Len(q), q[i].type = "ACTIVITY_SEEN"
      PROVE /\ q[i].ids \subseteq stored
            /\ \A j \in i + 1 .. Len(q) : q[j].type = "ACTIVITY_APPENDED" => q[i].ids \cap q[j].ids = {}
  <2>1. i + 1 \in n + 1 .. Len(p) /\ p[i + 1] = q[i]
    BY <1>1
  <2>2. ASSUME NEW j \in i + 1 .. Len(q), q[j].type = "ACTIVITY_APPENDED"
        PROVE  q[i].ids \cap q[j].ids = {}
    <3>1. j + 1 \in (i + 1) + 1 .. Len(p) /\ p[j + 1] = q[j]
      BY <1>1, <2>1
    <3> QED BY <1>2, <2>1, <2>2, <3>1 DEF Orderly
  <2> QED BY <1>2, <2>1, <2>2 DEF Orderly
<1> QED BY <1>2 DEF Orderly, q

-----------------------------------------------------------------------------
(* The types of the page and its server (DashboardFeed).                   *)

LEMMA Numbers ==
  /\ Feed!Unread \in Nat /\ Feed!Unread \notin Feed!Events /\ Feed!Unread \notin Feed!Updates
  /\ Feed!Events \subseteq 1 .. Feed!Unread /\ Feed!Updates \subseteq 1 .. Feed!Unread
  /\ \A s \in SUBSET Feed!Events : Feed!Loaded(s)
  /\ \A s \in SUBSET Feed!Updates : Feed!Loaded(s)
<1>1. /\ Feed!Unread \in Nat /\ Feed!Unread \notin Feed!Events /\ Feed!Unread \notin Feed!Updates
      /\ Feed!Events \subseteq 1 .. Feed!Unread /\ Feed!Updates \subseteq 1 .. Feed!Unread
  BY SizesAssumption DEF Feed!Unread, Feed!Events, Feed!Updates
<1>2. ASSUME NEW s, Feed!Unread \notin s PROVE Feed!Loaded(s)
  BY <1>2 DEF Feed!Loaded, Feed!NoList
<1> QED BY <1>1, <1>2

LEMMA ListLoaded ==
  ASSUME NEW l \in Feed!List
  PROVE  Feed!Loaded(l) <=> l \subseteq Feed!Events
BY Numbers DEF Feed!List, Feed!Loaded, Feed!NoList

LEMMA HistoryLoaded ==
  ASSUME NEW l \in Feed!History
  PROVE  Feed!Loaded(l) <=> l \subseteq Feed!Updates
BY Numbers DEF Feed!History, Feed!Loaded, Feed!NoList

LEMMA FrameTyped ==
  ASSUME NEW kind \in {"open", "ACTIVITY_UPDATE", "ACTIVITY_APPENDED", "ACTIVITY_SEEN",
                       "UPDATES_APPENDED"},
         NEW ids \in SUBSET (1 .. Feed!Unread), NEW shown \in SUBSET Feed!Events
  PROVE  LET f == Feed!Message(kind, ids, shown)
         IN f \in Feed!Frame /\ f.type = kind /\ f.ids = ids /\ f.seen = shown
BY DEF Feed!Message, Feed!Frame

LEMMA SentTyped ==
  ASSUME Feed!TypeOK, NEW f \in Feed!Frame
  PROVE  Feed!Sent(f) \in Seq(Feed!Frame)
BY DEF Feed!Sent, Feed!TypeOK

\* The fields of frames and requests that are typed.
LEMMA FieldsTyped ==
  ASSUME Feed!TypeOK
  PROVE  /\ \A r \in {get, getUpdates, mark, clear} :
              /\ r.state \in {"none", "asked", "answered", "failed"}
              /\ r.got \in Feed!List \cup Feed!History /\ r.seen \subseteq Feed!Events
              /\ r.pushed \in BOOLEAN
         /\ \A i \in 1 .. Len(pipe) :
              /\ pipe[i] \in Feed!Frame
              /\ pipe[i].ids \subseteq 1 .. Feed!Unread /\ pipe[i].seen \subseteq Feed!Events
<1>1. \A r \in Feed!Request :
        /\ r.state \in {"none", "asked", "answered", "failed"}
        /\ r.got \in Feed!List \cup Feed!History /\ r.seen \subseteq Feed!Events
        /\ r.pushed \in BOOLEAN
  BY DEF Feed!Request
<1>2. \A f \in Feed!Frame : f.ids \subseteq 1 .. Feed!Unread /\ f.seen \subseteq Feed!Events
  BY DEF Feed!Frame
<1>3. /\ get \in Feed!Request /\ getUpdates \in Feed!Request
      /\ mark \in Feed!Request /\ clear \in Feed!Request /\ pipe \in Seq(Feed!Frame)
  BY DEF Feed!TypeOK
<1>4. \A i \in 1 .. Len(pipe) : pipe[i] \in Feed!Frame
  BY <1>3
<1> QED BY <1>1, <1>2, <1>3, <1>4

LEMMA SameCardinality == \A S : Feed!Cardinality(S) = Cardinality(S)
BY DEF Feed!Cardinality, Cardinality

LEMMA HistorySize ==
  ASSUME Feed!TypeOK
  PROVE  Feed!Cardinality(history) \in Nat
<1>1. IsFiniteSet(Feed!Updates)
  BY SizesAssumption, FS_Interval DEF Feed!Updates
<1>2. IsFiniteSet(history)
  BY <1>1, FS_Subset DEF Feed!TypeOK
<1> QED BY <1>2, FS_CardinalityType, SameCardinality

\* What the requests and the frames are about.
Contents ==
  /\ get.got \subseteq Feed!Events /\ mark.got \subseteq Feed!Events
  /\ clear.got \subseteq Feed!Events /\ getUpdates.got \subseteq Feed!Updates
  /\ \A i \in 1 .. Len(pipe) :
       pipe[i].ids \subseteq IF pipe[i].type = "UPDATES_APPENDED" THEN Feed!Updates ELSE Feed!Events

FeedTypes == Feed!TypeOK /\ Contents

FeedNext == Feed!Page \/ Feed!Server \/ Feed!Insert \/ ServerRestart

About(f) == f.ids \subseteq IF f.type = "UPDATES_APPENDED" THEN Feed!Updates ELSE Feed!Events

LEMMA PipeKept ==
  ASSUME FeedTypes, pipe' = pipe
  PROVE  /\ pipe' \in Seq(Feed!Frame)
         /\ \A i \in 1 .. Len(pipe') : About(pipe'[i])
BY DEF FeedTypes, Contents, Feed!TypeOK, About

LEMMA PipeSent ==
  ASSUME FeedTypes, NEW f \in Feed!Frame, About(f), pipe' = Feed!Sent(f)
  PROVE  /\ pipe' \in Seq(Feed!Frame)
         /\ \A i \in 1 .. Len(pipe') : About(pipe'[i])
<1>1. pipe \in Seq(Feed!Frame) /\ \A i \in 1 .. Len(pipe) : About(pipe[i])
  BY DEF FeedTypes, Contents, Feed!TypeOK, About
<1>2. CASE open
  <2>1. pipe' = Append(pipe, f)
    BY <1>2 DEF Feed!Sent
  <2>2. /\ pipe' \in Seq(Feed!Frame) /\ Len(pipe') = Len(pipe) + 1 /\ Len(pipe) \in Nat
        /\ pipe'[Len(pipe) + 1] = f /\ \A i \in 1 .. Len(pipe) : pipe'[i] = pipe[i]
    BY <1>1, <2>1
  <2>3. ASSUME NEW i \in 1 .. Len(pipe') PROVE About(pipe'[i])
    <3>1. CASE i = Len(pipe) + 1
      BY <2>2, <3>1
    <3>2. CASE i \in 1 .. Len(pipe)
      BY <1>1, <2>2, <3>2
    <3> QED BY <2>2, <3>1, <3>2
  <2> QED BY <2>2, <2>3
<1>3. CASE ~open
  BY <1>1, <1>3 DEF Feed!Sent
<1> QED BY <1>2, <1>3

LEMMA PipeEmptied ==
  ASSUME pipe' = <<>>
  PROVE  /\ pipe' \in Seq(Feed!Frame)
         /\ \A i \in 1 .. Len(pipe') : About(pipe'[i])
OBVIOUS

LEMMA PipeHandled ==
  ASSUME FeedTypes, pipe # <<>>, pipe' = Tail(pipe)
  PROVE  /\ pipe' \in Seq(Feed!Frame)
         /\ \A i \in 1 .. Len(pipe') : About(pipe'[i])
         /\ Head(pipe) \in Feed!Frame /\ About(Head(pipe)) /\ Head(pipe) = pipe[1]
         /\ 1 \in 1 .. Len(pipe)
<1>1. pipe \in Seq(Feed!Frame) /\ \A i \in 1 .. Len(pipe) : About(pipe[i])
  BY DEF FeedTypes, Contents, Feed!TypeOK, About
<1>2. /\ pipe' \in Seq(Feed!Frame) /\ Len(pipe') = Len(pipe) - 1
      /\ \A i \in 1 .. Len(pipe') : pipe'[i] = pipe[i + 1]
      /\ Head(pipe) = pipe[1] /\ 1 \in 1 .. Len(pipe) /\ Head(pipe) \in Feed!Frame
  BY <1>1
<1>3. ASSUME NEW i \in 1 .. Len(pipe') PROVE About(pipe'[i])
  <2>1. i + 1 \in 1 .. Len(pipe)
    BY <1>2
  <2> QED BY <1>1, <1>2, <2>1
<1> QED BY <1>1, <1>2, <1>3

\* The other parts of the types.
Shapes ==
  /\ count \in 0 .. MaxEvents /\ rows \subseteq Feed!Events /\ seen \subseteq rows
  /\ history \subseteq Feed!Updates
  /\ list \in Feed!List /\ read \subseteq Feed!Events /\ updates \in Feed!History
  /\ faults \in 0 .. MaxFaults /\ clicks \in 0 .. MaxClicks
Flags ==
  /\ open \in BOOLEAN /\ hasConnected \in BOOLEAN
  /\ undone \in BOOLEAN /\ behind \in BOOLEAN
Requests ==
  /\ get \in Feed!Request /\ getUpdates \in Feed!Request
  /\ mark \in Feed!Request /\ clear \in Feed!Request
  /\ get.got \subseteq Feed!Events /\ mark.got \subseteq Feed!Events
  /\ clear.got \subseteq Feed!Events /\ getUpdates.got \subseteq Feed!Updates
Frames == pipe \in Seq(Feed!Frame) /\ \A i \in 1 .. Len(pipe) : About(pipe[i])

LEMMA TypedParts == FeedTypes <=> Shapes /\ Flags /\ Requests /\ Frames
BY DEF FeedTypes, Feed!TypeOK, Contents, Shapes, Flags, Requests, Frames, About

LEMMA TypedPartsNext == FeedTypes' <=> Shapes' /\ Flags' /\ Requests' /\ Frames'
BY DEF FeedTypes, Feed!TypeOK, Contents, Shapes, Flags, Requests, Frames, About

LEMMA AbortKept ==
  ASSUME NEW r \in Feed!Request
  PROVE  /\ Abort(r) \in Feed!Request /\ Abort(r).got = r.got /\ Abort(r).seen = r.seen
         /\ Abort(r).pushed = r.pushed
         /\ Abort(r).state = (IF r.state \in {"asked", "answered"} THEN "failed" ELSE r.state)
BY DEF Feed!Request, Abort

LEMMA FailedKept ==
  ASSUME NEW r \in Feed!Request
  PROVE  /\ Feed!Failed(r) \in Feed!Request
         /\ Feed!Failed(r).got = r.got /\ Feed!Failed(r).seen = r.seen
         /\ Feed!Failed(r).pushed = r.pushed /\ Feed!Failed(r).state = "failed"
BY DEF Feed!Request, Feed!Failed

LEMMA PushedKept ==
  ASSUME NEW r \in Feed!Request
  PROVE  /\ Feed!Pushed(r) \in Feed!Request
         /\ Feed!Pushed(r).got = r.got /\ Feed!Pushed(r).seen = r.seen
         /\ Feed!Pushed(r).pushed = (r.state # "none") /\ Feed!Pushed(r).state = r.state
BY DEF Feed!Request, Feed!Pushed

LEMMA AnsweredKept ==
  ASSUME NEW r \in Feed!Request
  PROVE  LET a == [r EXCEPT !.state = "answered"]
         IN /\ a \in Feed!Request /\ a.got = r.got /\ a.seen = r.seen /\ a.pushed = r.pushed
            /\ a.state = "answered"
BY DEF Feed!Request

LEMMA AnsweredWith ==
  ASSUME NEW r \in Feed!Request, NEW l \in Feed!List \cup Feed!History,
         NEW s \in SUBSET Feed!Events
  PROVE  /\ LET a == [r EXCEPT !.state = "answered", !.got = l, !.seen = s]
            IN /\ a \in Feed!Request /\ a.got = l /\ a.seen = s /\ a.pushed = r.pushed
               /\ a.state = "answered"
         /\ LET a == [r EXCEPT !.state = "answered", !.got = l]
            IN /\ a \in Feed!Request /\ a.got = l /\ a.pushed = r.pushed
               /\ a.state = "answered"
BY DEF Feed!Request

LEMMA FreshRequests ==
  /\ Feed!NoRequest \in Feed!Request /\ Feed!Asked \in Feed!Request
  /\ Feed!NoRequest.got = {} /\ Feed!NoRequest.seen = {}
  /\ Feed!NoRequest.state = "none" /\ Feed!NoRequest.pushed = FALSE
  /\ Feed!Asked.got = {} /\ Feed!Asked.seen = {}
  /\ Feed!Asked.state = "asked" /\ Feed!Asked.pushed = FALSE
<1>1. {} \in Feed!List
  BY DEF Feed!List
<1> QED BY <1>1 DEF Feed!NoRequest, Feed!Asked, Feed!Request

LEMMA AskedWith ==
  ASSUME NEW l \in Feed!List, NEW s \in SUBSET Feed!Events
  PROVE  /\ LET a == [Feed!Asked EXCEPT !.got = l, !.seen = s]
            IN /\ a \in Feed!Request /\ a.got = l /\ a.seen = s /\ a.pushed = FALSE
               /\ a.state = "asked"
         /\ LET a == [Feed!Asked EXCEPT !.got = l]
            IN /\ a \in Feed!Request /\ a.got = l /\ a.seen = {} /\ a.pushed = FALSE
               /\ a.state = "asked"
BY FreshRequests DEF Feed!Request

LEMMA AcceptTyped ==
  ASSUME FeedTypes, Feed!Accept PROVE Shapes' /\ Requests' /\ Frames'
<1> USE DEF Feed!Accept, Feed!serverVars, Feed!cacheVars, Feed!requestVars, Feed!faultVars
<1>0. Shapes /\ Requests /\ Frames
  BY TypedParts
<1>1. Shapes' /\ Requests'
  BY <1>0 DEF Shapes, Requests
<1>2. Frames'
  <2> DEFINE f == Feed!Message("open", {}, {})
             g == Feed!Message("ACTIVITY_UPDATE", rows, seen)
  <2>1. rows \in SUBSET (1 .. Feed!Unread) /\ seen \in SUBSET Feed!Events
    BY <1>0, Numbers DEF Shapes
  <2>2. f \in Feed!Frame /\ f.type = "open" /\ f.ids = {}
    BY FrameTyped
  <2>3. g \in Feed!Frame /\ g.type = "ACTIVITY_UPDATE" /\ g.ids = rows
    BY <2>1, FrameTyped
  <2>4. About(f) /\ About(g)
    BY <1>0, <2>2, <2>3 DEF About, Shapes
  <2>5. pipe' = <<f, g>>
    BY DEF Feed!Accept
  <2> HIDE DEF f, g
  <2>6. <<f, g>> \in Seq(Feed!Frame) /\ Len(<<f, g>>) = 2
    BY <2>2, <2>3
  <2> QED BY <2>4, <2>5, <2>6 DEF Frames
<1> QED BY <1>1, <1>2

LEMMA CutTyped ==
  ASSUME FeedTypes, Feed!Cut PROVE Shapes' /\ Requests' /\ Frames'
<1>0. Shapes /\ Requests /\ Frames
  BY TypedParts
<1> USE DEF Feed!Cut, Feed!Broken, Feed!Happens, Feed!serverVars, Feed!cacheVars, Feed!requestVars
<1>1. faults' \in 0 .. MaxFaults /\ clicks' \in 0 .. MaxClicks
  BY <1>0, SizesAssumption DEF Shapes
<1>2. Shapes' /\ Requests'
  BY <1>0, <1>1 DEF Shapes, Requests
<1>3. Frames'
  BY PipeEmptied DEF Frames
<1> QED BY <1>2, <1>3

LEMMA ServerRestartTyped ==
  ASSUME FeedTypes, ServerRestart PROVE Shapes' /\ Requests' /\ Frames'
<1>0. Shapes /\ Requests /\ Frames
  BY TypedParts
<1> USE DEF ServerRestart, Feed!Broken, Feed!Happens
<1>1. faults' \in 0 .. MaxFaults /\ clicks' \in 0 .. MaxClicks
  BY <1>0, SizesAssumption DEF Shapes
<1>2. Shapes'
  BY <1>0, <1>1 DEF Shapes
<1>3. \A r \in Feed!Request : Abort(r) \in Feed!Request /\ Abort(r).got = r.got
  BY AbortKept
<1>4. get' = Abort(get) /\ getUpdates' = Abort(getUpdates) /\ mark' = Abort(mark) /\ clear' = Abort(clear)
  OBVIOUS
<1>5. Requests'
  BY <1>0, <1>3, <1>4 DEF Requests
<1>6. Frames'
  BY PipeEmptied DEF Frames
<1> QED BY <1>2, <1>5, <1>6

LEMMA InsertTyped ==
  ASSUME FeedTypes, Feed!Insert PROVE Shapes' /\ Requests' /\ Frames'
<1> USE DEF Feed!cacheVars, Feed!requestVars, Feed!faultVars
<1>0. Shapes /\ Requests /\ Frames
  BY TypedParts
<1>1. count + 1 .. count' \subseteq Feed!Events /\ count' \in 0 .. MaxEvents
  BY <1>0, SizesAssumption DEF Feed!Insert, Shapes, Feed!Events
<1>2. Shapes' /\ Requests'
  BY <1>0, <1>1 DEF Shapes, Requests, Feed!Insert
<1>3. Frames'
  <2> DEFINE new == count + 1 .. count'
             f == Feed!Message("ACTIVITY_APPENDED", new, {})
  <2>1. new \in SUBSET (1 .. Feed!Unread)
    BY <1>1, Numbers
  <2>2. pipe' = Feed!Sent(f)
    BY DEF Feed!Insert
  <2>3. new \subseteq Feed!Events
    BY <1>1
  <2> HIDE DEF new
  <2>4. f \in Feed!Frame /\ f.type = "ACTIVITY_APPENDED" /\ f.ids = new
    BY <2>1, FrameTyped
  <2>5. About(f)
    BY <2>3, <2>4 DEF About
  <2> HIDE DEF f
  <2> QED BY <2>2, <2>4, <2>5, PipeSent DEF Frames
<1> QED BY <1>2, <1>3

LEMMA InsertUpdateTyped ==
  ASSUME FeedTypes, Feed!InsertUpdate PROVE Shapes' /\ Requests' /\ Frames'
<1> USE DEF Feed!cacheVars, Feed!requestVars, Feed!faultVars
<1>0. Shapes /\ Requests /\ Frames
  BY TypedParts
<1> DEFINE new == {Feed!Cardinality(history) + 1}
<1>1. new \subseteq Feed!Updates
  <2>1. Feed!Cardinality(history) \in Nat /\ Feed!Cardinality(history) < MaxUpdates
    BY HistorySize DEF Feed!InsertUpdate, FeedTypes
  <2> QED BY <2>1, SizesAssumption DEF Feed!Updates
<1>2. Shapes' /\ Requests'
  BY <1>0, <1>1 DEF Shapes, Requests, Feed!InsertUpdate
<1>3. Frames'
  <2> DEFINE f == Feed!Message("UPDATES_APPENDED", new, {})
  <2>1. pipe' = Feed!Sent(f)
    BY DEF Feed!InsertUpdate
  <2> HIDE DEF new
  <2>2. new \in SUBSET (1 .. Feed!Unread)
    BY <1>1, Numbers
  <2>3. f \in Feed!Frame /\ f.type = "UPDATES_APPENDED" /\ f.ids = new
    BY <2>2 DEF Feed!Message, Feed!Frame
  <2>4. About(f)
    BY <1>1, <2>3 DEF About
  <2> HIDE DEF f
  <2> QED BY <2>1, <2>3, <2>4, PipeSent DEF Frames
<1> QED BY <1>2, <1>3

LEMMA MarkSeenTyped ==
  ASSUME FeedTypes, NEW ids, Feed!MarkSeen(ids)
  PROVE  Frames' /\ seen' \subseteq rows' /\ UNCHANGED <<count, rows, history, open, hasConnected>>
<1>0. Shapes /\ Requests /\ Frames
  BY TypedParts
<1> DEFINE marked == (ids \cap rows) \ seen
           f == Feed!Message("ACTIVITY_SEEN", marked, {})
<1>1. marked \subseteq rows /\ marked \in SUBSET (1 .. Feed!Unread)
  BY <1>0, Numbers DEF Shapes
<1>2. f \in Feed!Frame /\ f.type = "ACTIVITY_SEEN" /\ f.ids = marked
  BY <1>1, FrameTyped
<1>3. About(f)
  BY <1>0, <1>1, <1>2 DEF About, Shapes
<1>4. /\ pipe' = pipe \/ pipe' = Feed!Sent(f)
      /\ seen' = seen \cup marked /\ UNCHANGED <<count, rows, history, open, hasConnected>>
  BY DEF Feed!MarkSeen
<1> HIDE DEF f
<1>5. Frames'
  BY <1>2, <1>3, <1>4, PipeKept, PipeSent DEF Frames
<1> QED BY <1>0, <1>1, <1>4, <1>5 DEF Shapes

LEMMA DeleteAllTyped ==
  ASSUME FeedTypes, Feed!DeleteAll
  PROVE  Frames' /\ rows' = {} /\ seen' = {} /\ UNCHANGED <<count, history, open, hasConnected>>
<1> DEFINE f == Feed!Message("ACTIVITY_UPDATE", {}, {})
<1>1. f \in Feed!Frame /\ f.type = "ACTIVITY_UPDATE" /\ f.ids = {}
  BY FrameTyped
<1>2. /\ About(f) /\ pipe' = Feed!Sent(f)
      /\ rows' = {} /\ seen' = {} /\ UNCHANGED <<count, history, open, hasConnected>>
  BY <1>1 DEF About, Feed!DeleteAll
<1> HIDE DEF f
<1> QED BY <1>1, <1>2, PipeSent DEF Frames

LEMMA MarkedElsewhereTyped ==
  ASSUME FeedTypes, NEW e \in Feed!Events, Feed!MarkedElsewhere(e)
  PROVE  Shapes' /\ Requests' /\ Frames'
<1>0. Shapes /\ Requests /\ Frames
  BY TypedParts
<1> USE DEF Feed!MarkedElsewhere, Feed!cacheVars, Feed!requestVars, Feed!Clicked
<1>1. Frames' /\ seen' \subseteq rows' /\ UNCHANGED <<count, rows, history>>
  BY MarkSeenTyped
<1>2. clicks' \in 0 .. MaxClicks /\ faults' \in 0 .. MaxFaults
  BY <1>0, SizesAssumption DEF Shapes
<1> QED BY <1>0, <1>1, <1>2 DEF Shapes, Requests

LEMMA ClearedElsewhereTyped ==
  ASSUME FeedTypes, Feed!ClearedElsewhere
  PROVE  Shapes' /\ Requests' /\ Frames'
<1>0. Shapes /\ Requests /\ Frames
  BY TypedParts
<1> USE DEF Feed!ClearedElsewhere, Feed!cacheVars, Feed!requestVars, Feed!Clicked
<1>1. Frames' /\ rows' = {} /\ seen' = {} /\ UNCHANGED <<count, history>>
  BY DeleteAllTyped
<1>2. clicks' \in 0 .. MaxClicks /\ faults' \in 0 .. MaxFaults
  BY <1>0, SizesAssumption DEF Shapes
<1> QED BY <1>0, <1>1, <1>2 DEF Shapes, Requests

LEMMA AnswerMarkTyped ==
  ASSUME FeedTypes, Feed!AnswerMark
  PROVE  Shapes' /\ Requests' /\ Frames'
<1>0. Shapes /\ Requests /\ Frames
  BY TypedParts
<1>1. Frames' /\ seen' \subseteq rows' /\ UNCHANGED <<count, rows, history>>
  BY MarkSeenTyped DEF Feed!AnswerMark
<1>2. /\ mark' = [mark EXCEPT !.state = "answered"] \/ mark' = Feed!Failed(mark)
      /\ UNCHANGED <<list, read, updates, get, getUpdates, clear>>
  BY DEF Feed!AnswerMark, Feed!cacheVars
<1>3. mark' \in Feed!Request /\ mark'.got = mark.got
  BY <1>0, <1>2, AnsweredKept, FailedKept DEF Requests
<1>4. /\ clicks' = clicks
      /\ faults' = faults \/ (faults < MaxFaults /\ faults' = faults + 1)
  BY DEF Feed!AnswerMark, Feed!Happens, Feed!faultVars
<1>5. clicks' \in 0 .. MaxClicks /\ faults' \in 0 .. MaxFaults
  BY <1>0, <1>4, SizesAssumption DEF Shapes
<1> QED BY <1>0, <1>1, <1>2, <1>3, <1>5 DEF Shapes, Requests

LEMMA AnswerClearTyped ==
  ASSUME FeedTypes, Feed!AnswerClear
  PROVE  Shapes' /\ Requests' /\ Frames'
<1>0. Shapes /\ Requests /\ Frames
  BY TypedParts
<1>1. Frames' /\ rows' = {} /\ seen' = {} /\ UNCHANGED <<count, history>>
  BY DeleteAllTyped DEF Feed!AnswerClear
<1>2. /\ clear' = [clear EXCEPT !.state = "answered"] \/ clear' = Feed!Failed(clear)
      /\ UNCHANGED <<list, read, updates, get, getUpdates, mark>>
  BY DEF Feed!AnswerClear, Feed!cacheVars
<1>3. clear' \in Feed!Request /\ clear'.got = clear.got
  BY <1>0, <1>2, AnsweredKept, FailedKept DEF Requests
<1>4. /\ clicks' = clicks
      /\ faults' = faults \/ (faults < MaxFaults /\ faults' = faults + 1)
  BY DEF Feed!AnswerClear, Feed!Happens, Feed!faultVars
<1>5. clicks' \in 0 .. MaxClicks /\ faults' \in 0 .. MaxFaults
  BY <1>0, <1>4, SizesAssumption DEF Shapes
<1> QED BY <1>0, <1>1, <1>2, <1>3, <1>5 DEF Shapes, Requests

LEMMA AnswerListTyped ==
  ASSUME FeedTypes, Feed!AnswerList
  PROVE  Shapes' /\ Requests' /\ Frames'
<1>0. Shapes /\ Requests /\ Frames
  BY TypedParts
<1>1. /\ get' = [get EXCEPT !.state = "answered", !.got = rows, !.seen = seen]
      /\ UNCHANGED <<count, rows, seen, history, pipe, list, read, updates, getUpdates, mark, clear, faults, clicks>>
  BY DEF Feed!AnswerList, Feed!serverVars, Feed!socketVars, Feed!cacheVars, Feed!faultVars
<1>2. rows \in Feed!List \cup Feed!History /\ seen \in SUBSET Feed!Events /\ rows \subseteq Feed!Events
  BY <1>0 DEF Shapes, Feed!List
<1>3. get' \in Feed!Request /\ get'.got = rows
  BY <1>0, <1>1, <1>2 DEF Requests, Feed!Request
<1>4. Frames'
  BY <1>1, PipeKept DEF Frames
<1> QED BY <1>0, <1>1, <1>2, <1>3, <1>4 DEF Shapes, Requests

LEMMA AnswerUpdatesTyped ==
  ASSUME FeedTypes, Feed!AnswerUpdates
  PROVE  Shapes' /\ Requests' /\ Frames'
<1>0. Shapes /\ Requests /\ Frames
  BY TypedParts
<1>1. /\ getUpdates' = [getUpdates EXCEPT !.state = "answered", !.got = history]
      /\ UNCHANGED <<count, rows, seen, history, pipe, list, read, updates, get, mark, clear, faults, clicks>>
  BY DEF Feed!AnswerUpdates, Feed!serverVars, Feed!socketVars, Feed!cacheVars, Feed!faultVars
<1>2. history \in Feed!List \cup Feed!History /\ history \subseteq Feed!Updates
  BY <1>0 DEF Shapes, Feed!History
<1>3. getUpdates' \in Feed!Request /\ getUpdates'.got = history
  BY <1>0, <1>1, <1>2, AnsweredWith DEF Requests
<1>4. Frames'
  BY <1>1, PipeKept DEF Frames
<1> QED BY <1>0, <1>1, <1>2, <1>3, <1>4 DEF Shapes, Requests

LEMMA RefusedTyped ==
  ASSUME FeedTypes, Feed!Refused
  PROVE  Shapes' /\ Requests' /\ Frames'
<1>0. Shapes /\ Requests /\ Frames
  BY TypedParts
<1>1. UNCHANGED <<count, rows, seen, history, pipe, list, read, updates>>
  BY DEF Feed!Refused, Feed!serverVars, Feed!socketVars, Feed!cacheVars
<1>2. clicks' \in 0 .. MaxClicks /\ faults' \in 0 .. MaxFaults
  BY <1>0, SizesAssumption DEF Shapes, Feed!Refused, Feed!Happens
<1>3. Shapes' /\ Frames'
  BY <1>0, <1>1, <1>2, PipeKept DEF Shapes, Frames
<1>4. \A r \in Feed!Request : Feed!Failed(r) \in Feed!Request /\ Feed!Failed(r).got = r.got
  BY FailedKept
<1>5. Requests'
  BY <1>0, <1>4 DEF Requests, Feed!Refused
<1> QED BY <1>3, <1>5

LEMMA AskListTyped ==
  ASSUME FeedTypes, Feed!AskList \/ Feed!AskUpdates
  PROVE  Shapes' /\ Requests' /\ Frames'
<1>0. Shapes /\ Requests /\ Frames
  BY TypedParts
<1>1. /\ UNCHANGED <<count, rows, seen, history, pipe, list, read, updates, mark, clear, faults, clicks>>
      /\ get' \in {get, Feed!Asked} /\ getUpdates' \in {getUpdates, Feed!Asked}
  BY DEF Feed!AskList, Feed!AskUpdates, Feed!serverVars, Feed!socketVars, Feed!cacheVars, Feed!faultVars
<1>2. Frames'
  BY <1>1, PipeKept DEF Frames
<1>3. Requests'
  BY <1>0, <1>1, FreshRequests DEF Requests
<1> QED BY <1>0, <1>1, <1>2, <1>3 DEF Shapes

LEMMA TakeListTyped ==
  ASSUME FeedTypes, Feed!TakeList
  PROVE  Shapes' /\ Requests' /\ Frames'
<1>0. Shapes /\ Requests /\ Frames
  BY TypedParts
<1>1. /\ UNCHANGED <<count, rows, seen, history, pipe, updates, getUpdates, mark, clear, faults, clicks>>
      /\ get' = Feed!NoRequest
      /\ UNCHANGED <<list, read>> \/ (list' = get.got /\ read' = get.seen)
  BY DEF Feed!TakeList, Feed!serverVars, Feed!socketVars, Feed!cacheVars, Feed!faultVars
<1>2. Frames'
  BY <1>1, PipeKept DEF Frames
<1>3. get.seen \subseteq Feed!Events
  BY <1>0 DEF Requests, Feed!Request
<1>4. Requests'
  BY <1>0, <1>1, FreshRequests DEF Requests
<1>5. list' \in Feed!List /\ read' \subseteq Feed!Events
  BY <1>0, <1>1, <1>3 DEF Shapes, Requests, Feed!List
<1> QED BY <1>0, <1>1, <1>2, <1>4, <1>5 DEF Shapes

LEMMA TakeUpdatesTyped ==
  ASSUME FeedTypes, Feed!TakeUpdates
  PROVE  Shapes' /\ Requests' /\ Frames'
<1>0. Shapes /\ Requests /\ Frames
  BY TypedParts
<1>1. /\ UNCHANGED <<count, rows, seen, history, pipe, list, read, get, mark, clear, faults, clicks>>
      /\ getUpdates' = Feed!NoRequest
      /\ updates' \in {updates, getUpdates.got}
  BY DEF Feed!TakeUpdates, Feed!serverVars, Feed!socketVars, Feed!cacheVars, Feed!faultVars
<1>2. Frames'
  BY <1>1, PipeKept DEF Frames
<1>4. Requests'
  BY <1>0, <1>1, FreshRequests DEF Requests
<1>5. updates' \in Feed!History
  BY <1>0, <1>1 DEF Shapes, Requests, Feed!History
<1> QED BY <1>0, <1>1, <1>2, <1>4, <1>5 DEF Shapes

LEMMA MarkTyped ==
  ASSUME FeedTypes, NEW e \in Feed!Events, Feed!Mark(e)
  PROVE  Shapes' /\ Requests' /\ Frames'
<1>0. Shapes /\ Requests /\ Frames
  BY TypedParts
<1>1. /\ UNCHANGED <<count, rows, seen, history, pipe, list, updates, getUpdates, clear, faults>>
      /\ get' = Feed!NoRequest /\ mark' = [Feed!Asked EXCEPT !.got = {e}]
      /\ read' = read \cup {e} /\ clicks < MaxClicks /\ clicks' = clicks + 1
  BY DEF Feed!Mark, Feed!Clicked, Feed!serverVars, Feed!socketVars
<1>2. Frames'
  BY <1>1, PipeKept DEF Frames
<1>3. {e} \in Feed!List
  BY DEF Feed!List
<1>4. mark' \in Feed!Request /\ mark'.got = {e}
  BY <1>1, <1>3, AskedWith
<1>5. Requests'
  BY <1>0, <1>1, <1>4, FreshRequests DEF Requests
<1>6. clicks' \in 0 .. MaxClicks
  BY <1>0, <1>1, SizesAssumption DEF Shapes
<1> QED BY <1>0, <1>1, <1>2, <1>5, <1>6 DEF Shapes

LEMMA MarkEndsTyped ==
  ASSUME FeedTypes, Feed!MarkEnds
  PROVE  Shapes' /\ Requests' /\ Frames'
<1>0. Shapes /\ Requests /\ Frames
  BY TypedParts
<1>1. /\ UNCHANGED <<count, rows, seen, history, pipe, list, updates, get, getUpdates, faults, clicks>>
      /\ mark' = Feed!NoRequest /\ clear' \in {clear, Feed!Pushed(clear)}
      /\ read' \subseteq read
  BY DEF Feed!MarkEnds, Feed!serverVars, Feed!socketVars, Feed!faultVars
<1>2. Frames'
  BY <1>1, PipeKept DEF Frames
<1>3. clear' \in Feed!Request /\ clear'.got = clear.got
  BY <1>0, <1>1, PushedKept DEF Requests
<1>5. Requests'
  BY <1>0, <1>1, <1>3, FreshRequests DEF Requests
<1> QED BY <1>0, <1>1, <1>2, <1>5 DEF Shapes

LEMMA ClearTyped ==
  ASSUME FeedTypes, Feed!Clear
  PROVE  Shapes' /\ Requests' /\ Frames'
<1>0. Shapes /\ Requests /\ Frames
  BY TypedParts
<1>1. /\ UNCHANGED <<count, rows, seen, history, pipe, updates, getUpdates, mark, faults>>
      /\ get' = Feed!NoRequest /\ clear' = [Feed!Asked EXCEPT !.got = list, !.seen = read]
      /\ list' = {} /\ read' = {} /\ clicks < MaxClicks /\ clicks' = clicks + 1
      /\ Feed!Loaded(list)
  BY DEF Feed!Clear, Feed!Clicked, Feed!serverVars, Feed!socketVars
<1>2. Frames'
  BY <1>1, PipeKept DEF Frames
<1>3. list \in Feed!List /\ read \in SUBSET Feed!Events /\ list \subseteq Feed!Events
  BY <1>0, <1>1, ListLoaded DEF Shapes
<1>4. clear' \in Feed!Request /\ clear'.got = list
  BY <1>1, <1>3, AskedWith
<1>5. Requests'
  BY <1>0, <1>1, <1>3, <1>4, FreshRequests DEF Requests
<1>6. clicks' \in 0 .. MaxClicks
  BY <1>0, <1>1, SizesAssumption DEF Shapes
<1>7. list' \in Feed!List
  BY <1>1 DEF Feed!List
<1> QED BY <1>0, <1>1, <1>2, <1>5, <1>6, <1>7 DEF Shapes

LEMMA ClearEndsTyped ==
  ASSUME FeedTypes, Feed!ClearEnds
  PROVE  Shapes' /\ Requests' /\ Frames'
<1>0. Shapes /\ Requests /\ Frames
  BY TypedParts
<1>1. /\ UNCHANGED <<count, rows, seen, history, pipe, updates, get, getUpdates, mark, faults, clicks>>
      /\ clear' = Feed!NoRequest
      /\ UNCHANGED <<list, read>> \/ (list' = clear.got /\ read' = clear.seen)
  BY DEF Feed!ClearEnds, Feed!serverVars, Feed!socketVars, Feed!faultVars
<1>2. Frames'
  BY <1>1, PipeKept DEF Frames
<1>3. clear.seen \subseteq Feed!Events
  BY <1>0 DEF Requests, Feed!Request
<1>4. Requests'
  BY <1>0, <1>1, FreshRequests DEF Requests
<1>5. list' \in Feed!List /\ read' \subseteq Feed!Events
  BY <1>0, <1>1, <1>3 DEF Shapes, Requests, Feed!List
<1> QED BY <1>0, <1>1, <1>2, <1>4, <1>5 DEF Shapes

\* What a frame makes of the page, kind by kind.
LEMMA HandledByKind ==
  ASSUME NEW f \in Feed!Frame, Feed!Handle(f)
  PROVE  \/ f.type = "open" /\ Feed!Opened
         \/ f.type = "ACTIVITY_UPDATE" /\ Feed!WholeList(f)
         \/ f.type = "ACTIVITY_APPENDED" /\ Feed!Appended(f)
         \/ f.type = "ACTIVITY_SEEN" /\ Feed!Seen(f)
         \/ f.type = "UPDATES_APPENDED" /\ Feed!UpdatesAppended(f)
<1>1. f.type \in {"open", "ACTIVITY_UPDATE", "ACTIVITY_APPENDED", "ACTIVITY_SEEN", "UPDATES_APPENDED"}
  BY DEF Feed!Frame
<1> QED BY <1>1 DEF Feed!Handle

LEMMA OnMessageTyped ==
  ASSUME FeedTypes, Feed!OnMessage
  PROVE  Shapes' /\ Requests' /\ Frames'
<1>0. Shapes /\ Requests /\ Frames
  BY TypedParts
<1> DEFINE f == Head(pipe)
<1>1. /\ Frames' /\ f \in Feed!Frame /\ About(f)
  BY PipeHandled DEF Feed!OnMessage, Frames
<1>2. UNCHANGED <<count, rows, seen, history, faults, clicks>> /\ Feed!Handle(f)
  BY DEF Feed!OnMessage, Feed!serverVars, Feed!faultVars
<1>3. f.ids \subseteq 1 .. Feed!Unread /\ f.seen \subseteq Feed!Events
  BY <1>1 DEF Feed!Frame
<1> HIDE DEF f
<1>4. SUFFICES /\ list' \in Feed!List /\ read' \subseteq Feed!Events /\ updates' \in Feed!History
               /\ get' \in {get, Feed!Pushed(get)} /\ clear' \in {clear, Feed!Pushed(clear)}
               /\ mark' \in {mark, Feed!Pushed(mark)}
               /\ getUpdates' \in {getUpdates, Feed!Asked}
  <2>1. Shapes'
    BY <1>0, <1>2, <1>4 DEF Shapes
  <2>2. \A r \in Feed!Request : Feed!Pushed(r) \in Feed!Request /\ Feed!Pushed(r).got = r.got
    BY PushedKept
  <2>3. Requests'
    BY <1>0, <1>4, <2>2, FreshRequests DEF Requests
  <2> QED BY <1>1, <2>1, <2>3
<1>5. list \in Feed!List /\ read \subseteq Feed!Events /\ updates \in Feed!History
  BY <1>0 DEF Shapes
<1>6. f.type # "UPDATES_APPENDED" => f.ids \subseteq Feed!Events
  BY <1>1 DEF About
<1>7. CASE f.type = "open" /\ Feed!Opened
  BY <1>5, <1>7 DEF Feed!Opened, Feed!cacheVars, Feed!Invalidated
<1>8. CASE f.type = "ACTIVITY_UPDATE" /\ Feed!WholeList(f)
  <2>1. f.ids \in Feed!List
    BY <1>6, <1>8 DEF Feed!List
  <2> QED BY <1>3, <1>5, <1>8, <2>1 DEF Feed!WholeList, Feed!WriteList, Feed!Confirms
<1>9. CASE f.type = "ACTIVITY_APPENDED" /\ Feed!Appended(f)
  <2>1. Feed!Loaded(list) => list \cup f.ids \in Feed!List
    BY <1>5, <1>6, <1>9, ListLoaded DEF Feed!List
  <2> QED BY <1>5, <1>9, <2>1 DEF Feed!Appended, Feed!WriteList
<1>10. CASE f.type = "ACTIVITY_SEEN" /\ Feed!Seen(f)
  BY <1>5, <1>6, <1>10 DEF Feed!Seen, Feed!WriteList, Feed!Confirms
<1>11. CASE f.type = "UPDATES_APPENDED" /\ Feed!UpdatesAppended(f)
  <2>1. Feed!Loaded(updates) => updates \cup f.ids \in Feed!History
    BY <1>1, <1>5, <1>11, HistoryLoaded DEF Feed!History, About
  <2> QED BY <1>5, <1>11, <2>1 DEF Feed!UpdatesAppended, Feed!Invalidated
<1> QED BY <1>1, <1>2, <1>7, <1>8, <1>9, <1>10, <1>11, HandledByKind

LEMMA FlagsKept ==
  ASSUME FeedTypes, FeedNext
  PROVE  Flags'
<1> USE TypedParts DEF Flags
<1>1. ASSUME Feed!Accept PROVE Flags'
  BY <1>1 DEF Feed!Accept
<1>2. ASSUME Feed!Cut \/ ServerRestart PROVE Flags'
  BY <1>2 DEF Feed!Cut, ServerRestart, Feed!Broken
<1>3. ASSUME Feed!Insert \/ Feed!InsertUpdate PROVE Flags'
  BY <1>3 DEF Feed!Insert, Feed!InsertUpdate
<1>4. ASSUME NEW e \in Feed!Events, Feed!MarkedElsewhere(e) PROVE Flags'
  BY <1>4 DEF Feed!MarkedElsewhere, Feed!MarkSeen
<1>5. ASSUME Feed!ClearedElsewhere \/ Feed!AnswerClear PROVE Flags'
  BY <1>5 DEF Feed!ClearedElsewhere, Feed!AnswerClear, Feed!DeleteAll
<1>6. ASSUME Feed!AnswerMark PROVE Flags'
  BY <1>6 DEF Feed!AnswerMark, Feed!MarkSeen
<1>7. ASSUME Feed!AnswerList \/ Feed!AnswerUpdates \/ Feed!Refused PROVE Flags'
  BY <1>7 DEF Feed!AnswerList, Feed!AnswerUpdates, Feed!Refused, Feed!socketVars
<1>8. ASSUME Feed!AskList \/ Feed!AskUpdates \/ Feed!TakeList PROVE Flags'
  BY <1>8 DEF Feed!AskList, Feed!AskUpdates, Feed!TakeList, Feed!socketVars
<1>9. ASSUME Feed!TakeUpdates PROVE Flags'
  BY <1>9 DEF Feed!TakeUpdates, Feed!socketVars
<1>10. ASSUME (\E e \in Feed!Events : Feed!Mark(e)) \/ Feed!Clear PROVE Flags'
  BY <1>10 DEF Feed!Mark, Feed!Clear, Feed!socketVars
<1>11. ASSUME Feed!MarkEnds \/ Feed!ClearEnds PROVE Flags'
  BY <1>11 DEF Feed!MarkEnds, Feed!ClearEnds, Feed!socketVars
<1>12. ASSUME Feed!OnMessage PROVE Flags'
  <2> DEFINE f == Head(pipe)
  <2>1. open' = open /\ Feed!Handle(f) /\ f \in Feed!Frame
    BY <1>12, PipeHandled DEF Feed!OnMessage
  <2> HIDE DEF f
  <2>2. CASE Feed!Opened
    BY <2>1, <2>2 DEF Feed!Opened, Feed!Invalidated
  <2>3. CASE Feed!WholeList(f) \/ Feed!Appended(f) \/ Feed!Seen(f)
    BY <2>1, <2>3 DEF Feed!WholeList, Feed!Appended, Feed!Seen
  <2>4. CASE Feed!UpdatesAppended(f)
    BY <2>1, <2>4 DEF Feed!UpdatesAppended, Feed!Invalidated
  <2> QED BY <2>1, <2>2, <2>3, <2>4, HandledByKind
<1> QED BY <1>1, <1>2, <1>3, <1>4, <1>5, <1>6, <1>7, <1>8, <1>9, <1>10, <1>11, <1>12
        DEF FeedNext, Feed!Page, Feed!Server

LEMMA TypedStep ==
  ASSUME FeedTypes, FeedNext
  PROVE  FeedTypes'
<1>1. Flags'
  BY FlagsKept, TypedParts
<1>2. Shapes' /\ Requests' /\ Frames'
  BY AcceptTyped, CutTyped, ServerRestartTyped, InsertTyped, InsertUpdateTyped,
     MarkedElsewhereTyped, ClearedElsewhereTyped, AnswerMarkTyped, AnswerClearTyped,
     AnswerListTyped, AnswerUpdatesTyped, RefusedTyped, AskListTyped, TakeListTyped,
     TakeUpdatesTyped, MarkTyped, MarkEndsTyped, ClearTyped, ClearEndsTyped, OnMessageTyped
     DEF FeedNext, Feed!Page, Feed!Server
<1> QED BY <1>1, <1>2, TypedPartsNext

LEMMA TypedInit == AnnounceInit => FeedTypes
<1> SUFFICES ASSUME AnnounceInit PROVE FeedTypes
  OBVIOUS
<1> USE DEF AnnounceInit, Feed!Init
<1>1. Shapes
  BY SizesAssumption DEF Shapes, Feed!List, Feed!History
<1>2. Flags
  BY DEF Flags
<1>3. Requests
  BY FreshRequests DEF Requests
<1>4. Frames
  BY DEF Frames
<1> QED BY <1>1, <1>2, <1>3, <1>4, TypedParts

\* A step is one of the page and its server, or leaves them alone.
LEMMA FeedSteps ==
  ASSUME [AnnounceNext]_announceVars
  PROVE  FeedNext \/ UNCHANGED feed
BY DEF AnnounceNext, announceVars, Announce, FeedNext

LEMMA TypedUnchanged ==
  ASSUME FeedTypes, UNCHANGED feed
  PROVE  FeedTypes'
BY DEF FeedTypes, Feed!TypeOK, Contents, feed

\* The types of the page and its server.
THEOREM FeedTyped == AnnounceSpec => []Feed!TypeOK
<1>1. FeedTypes /\ [AnnounceNext]_announceVars => FeedTypes'
  BY TypedStep, FeedSteps, TypedUnchanged
<1>2. FeedTypes => Feed!TypeOK
  BY DEF FeedTypes
<1> QED BY <1>1, <1>2, TypedInit, PTL DEF AnnounceSpec

-----------------------------------------------------------------------------
(* The update history: what is known of it, with what is on its way, is what *)
(* is stored, unless `behind' says otherwise.                              *)

\* A closed socket carries nothing, and the first frame of an open one opens it.
SocketBegins ==
  /\ ~open => pipe = <<>>
  /\ \A i \in 1 .. Len(pipe) : pipe[i].type = "open" => i = 1

\* The page makes up for what it misses of the history, or will with the next
\* opening of its socket.
Followed == hasConnected => open /\ \A i \in 1 .. Len(pipe) : pipe[i].type # "open"

UpdatesTold == Carried(pipe, 0, "UPDATES_APPENDED")

FollowsHistory ==
  /\ ~behind /\ Followed =>
       /\ getUpdates.state = "none" /\ Feed!Loaded(updates) => history = updates \cup UpdatesTold
       /\ getUpdates.state = "answered" => history = getUpdates.got \cup UpdatesTold
  /\ UpdatesTold \subseteq history
  /\ Feed!Loaded(updates) => updates \subseteq history
  /\ getUpdates.state = "answered" => getUpdates.got \subseteq history

LEMMA SocketBeginsSent ==
  ASSUME FeedTypes, SocketBegins, NEW f \in Feed!Frame, f.type # "open",
         pipe' = pipe \/ pipe' = Feed!Sent(f), open' = open
  PROVE  SocketBegins'
<1>1. pipe \in Seq(Feed!Frame)
  BY DEF FeedTypes, Feed!TypeOK
<1>2. CASE open /\ pipe' = Append(pipe, f)
  <2>1. /\ Len(pipe') = Len(pipe) + 1 /\ Len(pipe) \in Nat
        /\ pipe'[Len(pipe) + 1] = f /\ \A i \in 1 .. Len(pipe) : pipe'[i] = pipe[i]
    BY <1>1, <1>2
  <2>2. ASSUME NEW i \in 1 .. Len(pipe'), pipe'[i].type = "open" PROVE i = 1
    BY <2>1, <2>2 DEF SocketBegins
  <2> QED BY <1>2, <2>2 DEF SocketBegins
<1>3. CASE pipe' = pipe
  BY <1>3 DEF SocketBegins
<1> QED BY <1>2, <1>3 DEF Feed!Sent

LEMMA SocketBeginsHandled ==
  ASSUME FeedTypes, SocketBegins, Feed!OnMessage
  PROVE  SocketBegins' /\ \A i \in 1 .. Len(pipe') : pipe'[i].type # "open"
<1>1. pipe \in Seq(Feed!Frame) /\ pipe # <<>> /\ pipe' = Tail(pipe) /\ open' = open
  BY DEF FeedTypes, Feed!TypeOK, Feed!OnMessage
<1>2. Len(pipe') = Len(pipe) - 1 /\ \A i \in 1 .. Len(pipe') : pipe'[i] = pipe[i + 1]
  BY <1>1
<1>3. ASSUME NEW i \in 1 .. Len(pipe') PROVE pipe'[i].type # "open"
  <2>1. i + 1 \in 1 .. Len(pipe) /\ i + 1 # 1
    BY <1>1, <1>2
  <2> QED BY <1>2, <2>1 DEF SocketBegins
<1>4. open
  BY <1>1 DEF SocketBegins
<1> QED BY <1>1, <1>3, <1>4 DEF SocketBegins

LEMMA SocketBeginsAccept ==
  ASSUME Feed!Accept
  PROVE  /\ SocketBegins' /\ pipe' \in Seq(Feed!Frame \cup {pipe'[2]}) /\ Len(pipe') = 2
         /\ pipe'[1].type = "open" /\ pipe'[1].ids = {}
         /\ pipe'[2].type = "ACTIVITY_UPDATE" /\ pipe'[2].ids = rows /\ pipe'[2].seen = seen
<1> DEFINE f == Feed!Message("open", {}, {})
           g == Feed!Message("ACTIVITY_UPDATE", rows, seen)
<1>1. f.type = "open" /\ f.ids = {} /\ f \in Feed!Frame
  BY DEF Feed!Message, Feed!Frame
<1>2. g.type = "ACTIVITY_UPDATE" /\ g.ids = rows /\ g.seen = seen
  BY DEF Feed!Message
<1>3. pipe' = <<f, g>> /\ open' = TRUE
  BY DEF Feed!Accept
<1> HIDE DEF f, g
<1>4. Len(pipe') = 2 /\ pipe'[1] = f /\ pipe'[2] = g
  BY <1>3
<1>5. ASSUME NEW i \in 1 .. Len(pipe'), pipe'[i].type = "open" PROVE i = 1
  <2>1. i = 1 \/ i = 2
    BY <1>4
  <2> QED BY <1>2, <1>4, <1>5, <2>1
<1>6. pipe' \in Seq(Feed!Frame \cup {g})
  BY <1>1, <1>3
<1> QED BY <1>1, <1>2, <1>3, <1>4, <1>5, <1>6 DEF SocketBegins

\* A frame is sent to the page, if it is connected.
Sends(f, kind, ids) ==
  /\ f \in Feed!Frame /\ f.type = kind /\ f.ids = ids /\ f.seen = {}
  /\ pipe' = Feed!Sent(f)

LEMMA InsertSends ==
  ASSUME FeedTypes, Feed!Insert
  PROVE  /\ \E f : Sends(f, "ACTIVITY_APPENDED", count + 1 .. count')
         /\ count' \in Nat /\ count \in Nat /\ count' = count + Batch
<1>0. count \in 0 .. MaxEvents /\ count' = count + Batch
  BY DEF FeedTypes, Feed!TypeOK, Feed!Insert
<1>1. count + 1 .. count' \subseteq Feed!Events /\ count' \in Nat /\ count \in Nat
  BY <1>0, SizesAssumption DEF Feed!Insert, Feed!Events
<1> DEFINE new == count + 1 .. count'
           f == Feed!Message("ACTIVITY_APPENDED", new, {})
<1>2. pipe' = Feed!Sent(f)
  BY DEF Feed!Insert
<1>3. new \in SUBSET (1 .. Feed!Unread)
  BY <1>1, Numbers
<1> HIDE DEF new
<1>4. f \in Feed!Frame /\ f.type = "ACTIVITY_APPENDED" /\ f.ids = new /\ f.seen = {}
  BY <1>3, FrameTyped
<1> HIDE DEF f
<1>5. Sends(f, "ACTIVITY_APPENDED", new)
  BY <1>2, <1>4 DEF Sends
<1> QED BY <1>0, <1>1, <1>5 DEF new

LEMMA InsertUpdateSends ==
  ASSUME FeedTypes, Feed!InsertUpdate
  PROVE  \E f : Sends(f, "UPDATES_APPENDED", {Feed!Cardinality(history) + 1})
<1> DEFINE new == {Feed!Cardinality(history) + 1}
           f == Feed!Message("UPDATES_APPENDED", new, {})
<1>1. new \subseteq Feed!Updates
  <2>1. Feed!Cardinality(history) \in Nat /\ Feed!Cardinality(history) < MaxUpdates
    BY HistorySize DEF Feed!InsertUpdate, FeedTypes
  <2> QED BY <2>1, SizesAssumption DEF Feed!Updates
<1>2. pipe' = Feed!Sent(f)
  BY DEF Feed!InsertUpdate
<1> HIDE DEF new
<1>3. new \in SUBSET (1 .. Feed!Unread)
  BY <1>1, Numbers
<1>4. f \in Feed!Frame /\ f.type = "UPDATES_APPENDED" /\ f.ids = new /\ f.seen = {}
  BY <1>3, FrameTyped
<1> HIDE DEF f
<1>5. Sends(f, "UPDATES_APPENDED", new)
  BY <1>2, <1>4 DEF Sends
<1> QED BY <1>5 DEF new

LEMMA MarkSeenSends ==
  ASSUME FeedTypes, NEW ids, Feed!MarkSeen(ids)
  PROVE  /\ \/ \E f : Sends(f, "ACTIVITY_SEEN", (ids \cap rows) \ seen)
            \/ pipe' = pipe /\ (ids \cap rows) \ seen = {}
         /\ seen' = seen \cup ((ids \cap rows) \ seen)
         /\ UNCHANGED <<count, rows, history, open, hasConnected>>
<1> DEFINE marked == (ids \cap rows) \ seen
           f == Feed!Message("ACTIVITY_SEEN", marked, {})
<1>1. marked \in SUBSET (1 .. Feed!Unread)
  BY Numbers DEF FeedTypes, Feed!TypeOK
<1>2. /\ pipe' = Feed!Sent(f) \/ (pipe' = pipe /\ marked = {})
      /\ seen' = seen \cup marked /\ UNCHANGED <<count, rows, history, open, hasConnected>>
  BY DEF Feed!MarkSeen
<1> HIDE DEF marked
<1>3. f \in Feed!Frame /\ f.type = "ACTIVITY_SEEN" /\ f.ids = marked /\ f.seen = {}
  BY <1>1, FrameTyped
<1> HIDE DEF f
<1>4. Sends(f, "ACTIVITY_SEEN", marked) \/ (pipe' = pipe /\ marked = {})
  BY <1>2, <1>3 DEF Sends
<1> QED BY <1>2, <1>4 DEF marked

LEMMA DeleteAllSends ==
  ASSUME FeedTypes, Feed!DeleteAll
  PROVE  /\ \E f : Sends(f, "ACTIVITY_UPDATE", {})
         /\ rows' = {} /\ seen' = {} /\ UNCHANGED <<count, history, open, hasConnected>>
<1> DEFINE f == Feed!Message("ACTIVITY_UPDATE", {}, {})
<1>1. f \in Feed!Frame /\ f.type = "ACTIVITY_UPDATE" /\ f.ids = {} /\ f.seen = {}
  BY FrameTyped
<1>2. pipe' = Feed!Sent(f) /\ rows' = {} /\ seen' = {} /\ UNCHANGED <<count, history, open, hasConnected>>
  BY DEF Feed!DeleteAll
<1> HIDE DEF f
<1>3. Sends(f, "ACTIVITY_UPDATE", {})
  BY <1>1, <1>2 DEF Sends
<1> QED BY <1>2, <1>3

\* Nothing but frames about the activity is sent.
SendsActivity ==
  \/ pipe' = pipe
  \/ \E f : \/ Sends(f, "ACTIVITY_UPDATE", f.ids) \/ Sends(f, "ACTIVITY_APPENDED", f.ids)
            \/ Sends(f, "ACTIVITY_SEEN", f.ids)

\* The steps that have no part in the update history.
LEMMA ActivitySteps ==
  ASSUME FeedTypes,
         \/ Feed!Insert \/ \E e \in Feed!Events : Feed!MarkedElsewhere(e)
         \/ Feed!ClearedElsewhere \/ Feed!AnswerMark \/ Feed!AnswerClear \/ Feed!AnswerList
         \/ Feed!AskList \/ Feed!TakeList \/ \E e \in Feed!Events : Feed!Mark(e)
         \/ Feed!MarkEnds \/ Feed!Clear \/ Feed!ClearEnds
  PROVE  SendsActivity /\ UNCHANGED <<history, open, hasConnected, updates, getUpdates, behind>>
<1> USE DEF Feed!cacheVars, Feed!requestVars, Feed!serverVars, Feed!socketVars
<1>1. ASSUME NEW f, NEW kind \in {"ACTIVITY_UPDATE", "ACTIVITY_APPENDED", "ACTIVITY_SEEN"}, NEW ids,
             Sends(f, kind, ids)
      PROVE  SendsActivity
  BY <1>1 DEF Sends, SendsActivity
<1>2. CASE Feed!Insert
  BY <1>1, <1>2, InsertSends DEF Feed!Insert
<1>3. ASSUME NEW ids, Feed!MarkSeen(ids)
      PROVE  SendsActivity /\ UNCHANGED <<history, open, hasConnected>>
  BY <1>1, <1>3, MarkSeenSends DEF SendsActivity
<1>4. ASSUME Feed!DeleteAll
      PROVE  SendsActivity /\ UNCHANGED <<history, open, hasConnected>>
  BY <1>1, <1>4, DeleteAllSends
<1>5. CASE (\E e \in Feed!Events : Feed!MarkedElsewhere(e)) \/ Feed!AnswerMark
  BY <1>3, <1>5 DEF Feed!MarkedElsewhere, Feed!AnswerMark
<1>6. CASE Feed!ClearedElsewhere \/ Feed!AnswerClear
  BY <1>4, <1>6 DEF Feed!ClearedElsewhere, Feed!AnswerClear
<1>7. CASE Feed!AnswerList \/ Feed!AskList \/ Feed!TakeList
  BY <1>7 DEF Feed!AnswerList, Feed!AskList, Feed!TakeList, SendsActivity
<1>8. CASE (\E e \in Feed!Events : Feed!Mark(e)) \/ Feed!MarkEnds \/ Feed!Clear \/ Feed!ClearEnds
  BY <1>8 DEF Feed!Mark, Feed!MarkEnds, Feed!Clear, Feed!ClearEnds, SendsActivity
<1> QED BY <1>2, <1>5, <1>6, <1>7, <1>8

LEMMA SentCarried ==
  ASSUME FeedTypes, NEW f, NEW kind, NEW ids, Sends(f, kind, ids), open,
         NEW k \in 0 .. Len(pipe), NEW t
  PROVE  /\ Carried(pipe', k, t) = Carried(pipe, k, t) \cup (IF kind = t THEN ids ELSE {})
         /\ Len(pipe') = Len(pipe) + 1 /\ pipe'[Len(pipe) + 1] = f
         /\ \A i \in 1 .. Len(pipe) : pipe'[i] = pipe[i]
<1>1. pipe \in Seq(Feed!Frame) /\ pipe' = Append(pipe, f) /\ f \in Feed!Frame
  BY DEF FeedTypes, Feed!TypeOK, Sends, Feed!Sent
<1>2. Carried(pipe', k, t) = Carried(pipe, k, t) \cup (IF f.type = t THEN f.ids ELSE {})
  BY <1>1, CarriedAppend
<1> QED BY <1>1, <1>2 DEF Sends

LEMMA SocketBeginsKept ==
  ASSUME FeedTypes, SocketBegins, SendsActivity \/ (\E f : Sends(f, "UPDATES_APPENDED", f.ids)),
         open' = open
  PROVE  SocketBegins'
<1>1. ASSUME NEW f, NEW kind \in {"ACTIVITY_UPDATE", "ACTIVITY_APPENDED", "ACTIVITY_SEEN", "UPDATES_APPENDED"},
             Sends(f, kind, f.ids)
      PROVE  SocketBegins'
  <2>1. f \in Feed!Frame /\ f.type # "open" /\ pipe' = Feed!Sent(f)
    BY <1>1 DEF Sends
  <2> QED BY <2>1, SocketBeginsSent
<1>2. CASE pipe' = pipe
  BY <1>2 DEF SocketBegins
<1> QED BY <1>1, <1>2 DEF SendsActivity

LEMMA HistoryIdle ==
  ASSUME FeedTypes, FollowsHistory, SocketBegins, SendsActivity,
         UNCHANGED <<history, open, hasConnected, updates, getUpdates, behind>>
  PROVE  FollowsHistory'
<1>1. ASSUME NEW f, NEW kind \in {"ACTIVITY_UPDATE", "ACTIVITY_APPENDED", "ACTIVITY_SEEN"},
             Sends(f, kind, f.ids), open
      PROVE  UpdatesTold' = UpdatesTold /\ (Followed' => Followed)
  <2>1. Len(pipe) \in Nat /\ 0 \in 0 .. Len(pipe) /\ kind # "UPDATES_APPENDED"
    BY <1>1 DEF FeedTypes, Feed!TypeOK
  <2>2. UpdatesTold' = UpdatesTold
    <3>1. \A t : Carried(pipe', 0, t) = Carried(pipe, 0, t) \cup (IF kind = t THEN f.ids ELSE {})
      BY <1>1, <2>1, SentCarried
    <3> QED BY <2>1, <3>1 DEF UpdatesTold
  <2>3. /\ Len(pipe') = Len(pipe) + 1
        /\ \A i \in 1 .. Len(pipe) : pipe'[i] = pipe[i]
    BY <1>1, <2>1, SentCarried
  <2> QED BY <2>1, <2>2, <2>3 DEF Followed
<1>2. CASE pipe' = pipe
  BY <1>2 DEF FollowsHistory, Followed, UpdatesTold
<1>3. ASSUME NEW f, NEW kind, Sends(f, kind, f.ids), ~open PROVE pipe' = pipe
  BY <1>3 DEF Sends, Feed!Sent
<1>4. CASE UpdatesTold' = UpdatesTold /\ (Followed' => Followed)
  BY <1>4 DEF FollowsHistory
<1> QED BY <1>1, <1>2, <1>3, <1>4 DEF SendsActivity

LEMMA NothingCarried ==
  ASSUME NEW k, NEW t PROVE Carried(<<>>, 0, t) = {}
BY DEF Carried

LEMMA HistoryAccept ==
  ASSUME FeedTypes, FollowsHistory, SocketBegins, Feed!Accept
  PROVE  FollowsHistory' /\ SocketBegins'
<1>1. /\ SocketBegins' /\ Len(pipe') = 2
      /\ pipe'[1].type = "open" /\ pipe'[2].type = "ACTIVITY_UPDATE"
  BY SocketBeginsAccept
<1>2. UpdatesTold' = {}
  <2>1. ASSUME NEW e, e \in UpdatesTold' PROVE FALSE
    <3>1. PICK i \in 0 + 1 .. Len(pipe') : pipe'[i].type = "UPDATES_APPENDED"
      BY <2>1, InCarried DEF UpdatesTold
    <3>2. i = 1 \/ i = 2
      BY <1>1
    <3> QED BY <1>1, <3>1, <3>2
  <2> QED BY <2>1
<1>3. pipe = <<>> /\ ~open
  BY DEF Feed!Accept, SocketBegins
<1>4. UpdatesTold = {}
  BY <1>3, NothingCarried DEF UpdatesTold
<1>5. UNCHANGED <<history, updates, getUpdates, behind, hasConnected>>
  BY DEF Feed!Accept, Feed!serverVars, Feed!cacheVars, Feed!requestVars
<1>6. ~hasConnected => Followed
  BY DEF Followed
<1>7. Followed' => ~hasConnected
  <2>1. 1 \in 1 .. Len(pipe')
    BY <1>1
  <2> QED BY <1>1, <1>5, <2>1 DEF Followed
<1>8. FollowsHistory'
  BY <1>2, <1>4, <1>5, <1>6, <1>7 DEF FollowsHistory
<1> QED BY <1>1, <1>8

LEMMA HistoryBroken ==
  ASSUME FeedTypes, FollowsHistory, SocketBegins, Feed!Cut \/ ServerRestart
  PROVE  FollowsHistory' /\ SocketBegins'
<1>1. /\ open' = FALSE /\ pipe' = <<>>
      /\ behind' = (behind \/ (Feed!Unfollowed /\ \E i \in DOMAIN pipe : pipe[i].type = "UPDATES_APPENDED"))
      /\ UNCHANGED <<history, updates, hasConnected>>
  BY DEF Feed!Cut, ServerRestart, Feed!Broken, Feed!serverVars, Feed!cacheVars
<1>2. \/ getUpdates' = getUpdates
      \/ getUpdates' = Abort(getUpdates)
  BY DEF Feed!Cut, ServerRestart, Feed!requestVars
<1>3. getUpdates'.got = getUpdates.got /\ (getUpdates'.state \in {"none", "answered"} => getUpdates'.state = getUpdates.state)
  BY <1>2, AbortKept DEF FeedTypes, Feed!TypeOK
<1>4. UpdatesTold' = {}
  BY <1>1, NothingCarried DEF UpdatesTold
<1>5. SocketBegins'
  BY <1>1 DEF SocketBegins
<1>6. ASSUME ~behind', Followed'
      PROVE  /\ getUpdates'.state = "none" /\ Feed!Loaded(updates) => history = updates
             /\ getUpdates'.state = "answered" => history = getUpdates.got
  <2>1. ~hasConnected /\ Followed /\ ~behind
    BY <1>1, <1>6 DEF Followed
  <2>2. ASSUME Feed!Loaded(updates) \/ getUpdates.state = "answered"
        PROVE  UpdatesTold = {}
    <3>1. Feed!Unfollowed
      BY <2>1, <2>2 DEF Feed!Unfollowed
    <3>2. ASSUME NEW e, e \in UpdatesTold PROVE FALSE
      <4>1. PICK i \in 0 + 1 .. Len(pipe) : pipe[i].type = "UPDATES_APPENDED"
        BY <3>2, InCarried DEF UpdatesTold
      <4>2. i \in DOMAIN pipe
        BY DEF FeedTypes, Feed!TypeOK
      <4> QED BY <1>1, <1>6, <3>1, <4>1, <4>2
    <3> QED BY <3>2
  <2> QED BY <1>3, <2>1, <2>2 DEF FollowsHistory
<1>7. FollowsHistory'
  BY <1>1, <1>3, <1>4, <1>6 DEF FollowsHistory
<1> QED BY <1>5, <1>7

LEMMA HistoryInsertUpdate ==
  ASSUME FeedTypes, FollowsHistory, SocketBegins, Feed!InsertUpdate
  PROVE  FollowsHistory' /\ SocketBegins'
<1> DEFINE new == {Feed!Cardinality(history) + 1}
<1>1. PICK f : Sends(f, "UPDATES_APPENDED", new)
  BY InsertUpdateSends
<1>2. /\ history' = history \cup new
      /\ behind' = (behind \/ (~open /\ Feed!Unfollowed))
      /\ UNCHANGED <<open, hasConnected, updates, getUpdates>>
  BY DEF Feed!InsertUpdate, Feed!cacheVars, Feed!requestVars
<1> HIDE DEF new
<1>3. SocketBegins'
  <2>1. Sends(f, "UPDATES_APPENDED", f.ids)
    BY <1>1 DEF Sends
  <2> QED BY <1>2, <2>1, SocketBeginsKept
<1>4. CASE open
  <2>1. Len(pipe) \in Nat
    BY DEF FeedTypes, Feed!TypeOK
  <2>2. UpdatesTold' = UpdatesTold \cup new
    BY <1>1, <1>4, <2>1, SentCarried DEF UpdatesTold
  <2>3. /\ Len(pipe') = Len(pipe) + 1
        /\ \A i \in 1 .. Len(pipe) : pipe'[i] = pipe[i]
    BY <1>1, <1>4, <2>1, SentCarried
  <2>4. Followed' => Followed
    BY <1>2, <2>1, <2>3 DEF Followed
  <2>5. ~behind' => ~behind
    BY <1>2
  <2> QED BY <1>2, <1>3, <2>2, <2>4, <2>5 DEF FollowsHistory
<1>5. CASE ~open
  <2>1. pipe' = pipe
    BY <1>1, <1>5 DEF Sends, Feed!Sent
  <2>2. UpdatesTold' = UpdatesTold
    BY <2>1 DEF UpdatesTold
  <2>3. ~behind' /\ Followed' => ~Feed!Loaded(updates) /\ getUpdates.state # "answered"
    BY <1>2, <1>5 DEF Followed, Feed!Unfollowed
  <2> QED BY <1>2, <1>3, <2>2, <2>3 DEF FollowsHistory
<1> QED BY <1>4, <1>5

LEMMA HistoryRequests ==
  ASSUME FeedTypes, FollowsHistory, SocketBegins,
         Feed!AnswerUpdates \/ Feed!Refused \/ Feed!AskUpdates \/ Feed!TakeUpdates
  PROVE  FollowsHistory' /\ SocketBegins'
<1>1. UNCHANGED <<history, open, pipe, hasConnected>>
  BY DEF Feed!AnswerUpdates, Feed!Refused, Feed!AskUpdates, Feed!TakeUpdates,
         Feed!serverVars, Feed!socketVars
<1>2. SocketBegins' /\ UpdatesTold' = UpdatesTold /\ Followed' = Followed
  BY <1>1 DEF SocketBegins, UpdatesTold, Followed
<1>3. CASE Feed!AnswerUpdates
  <2>1. getUpdates' = [getUpdates EXCEPT !.state = "answered", !.got = history]
        /\ UNCHANGED <<updates, behind>>
    BY <1>3 DEF Feed!AnswerUpdates, Feed!cacheVars
  <2>2. getUpdates'.state = "answered" /\ getUpdates'.got = history
    BY <2>1 DEF FeedTypes, Feed!TypeOK, Feed!Request
  <2> QED BY <1>1, <1>2, <2>1, <2>2 DEF FollowsHistory
<1>4. CASE Feed!Refused
  <2>1. UNCHANGED <<updates, behind>> /\ (getUpdates' = getUpdates \/ getUpdates' = Feed!Failed(getUpdates))
    BY <1>4 DEF Feed!Refused, Feed!cacheVars
  <2>2. getUpdates' = getUpdates \/ getUpdates'.state = "failed"
    BY <2>1, FailedKept DEF FeedTypes, Feed!TypeOK
  <2> QED BY <1>1, <1>2, <2>1, <2>2 DEF FollowsHistory
<1>5. CASE Feed!AskUpdates
  <2>1. updates' = updates /\ getUpdates' = Feed!Asked
    BY <1>5 DEF Feed!AskUpdates, Feed!cacheVars
  <2>2. getUpdates'.state = "asked"
    BY <2>1, FreshRequests
  <2> QED BY <1>1, <1>2, <2>1, <2>2 DEF FollowsHistory
<1>6. CASE Feed!TakeUpdates
  <2>1. /\ getUpdates' = Feed!NoRequest /\ getUpdates.state \in {"answered", "failed"}
        /\ updates' = IF getUpdates.state = "failed" THEN updates ELSE getUpdates.got
        /\ behind' = (behind \/ (getUpdates.state = "failed" /\ Feed!Loaded(updates)))
    BY <1>6 DEF Feed!TakeUpdates
  <2>2. getUpdates'.state = "none"
    BY <2>1, FreshRequests
  <2>3. ~behind' => ~behind /\ ~(getUpdates.state = "failed" /\ Feed!Loaded(updates))
    BY <2>1
  <2>4. CASE getUpdates.state = "failed"
    BY <1>1, <1>2, <2>1, <2>2, <2>3, <2>4 DEF FollowsHistory
  <2>5. CASE getUpdates.state = "answered"
    BY <1>1, <1>2, <2>1, <2>2, <2>3, <2>5 DEF FollowsHistory
  <2> QED BY <2>1, <2>4, <2>5
<1> QED BY <1>3, <1>4, <1>5, <1>6

\* What is still on its way once the first frame is handled.
LEMMA HeadCarried ==
  ASSUME FeedTypes, Feed!OnMessage, NEW t
  PROVE  Carried(pipe, 0, t) = Carried(pipe', 0, t) \cup (IF Head(pipe).type = t THEN Head(pipe).ids ELSE {})
<1>1. pipe \in Seq(Feed!Frame) /\ pipe # <<>> /\ pipe' = Tail(pipe)
  BY DEF FeedTypes, Feed!TypeOK, Feed!OnMessage
<1> QED BY <1>1, CarriedHead

LEMMA InvalidatedHistory ==
  ASSUME FeedTypes, FollowsHistory, history' = history, updates' = updates, UpdatesTold' \subseteq history,
         NEW ids, Feed!Invalidated(ids),
         \/ ids = history
         \/ /\ UpdatesTold = UpdatesTold' \cup ids
            /\ ~Feed!Loaded(updates) /\ Followed
  PROVE  FollowsHistory'
<1>1. CASE getUpdates' = Feed!Asked
  BY <1>1, FreshRequests DEF FollowsHistory
<1>2. CASE /\ getUpdates.state # "none" /\ ~Feed!Loaded(updates)
           /\ getUpdates' = getUpdates /\ behind' = (behind \/ Feed!Overtakes(ids))
  <2>1. ~behind' => ~behind /\ ~Feed!Overtakes(ids)
    BY <1>2
  <2>2. ~behind' /\ getUpdates.state = "answered" => ids \subseteq getUpdates.got
    BY <2>1 DEF Feed!Overtakes
  <2>3. ASSUME ~behind', getUpdates.state = "answered"
        PROVE  history = getUpdates.got \cup UpdatesTold'
    BY <2>1, <2>2, <2>3 DEF FollowsHistory
  <2> QED BY <1>2, <2>3 DEF FollowsHistory
<1> QED BY <1>1, <1>2 DEF Feed!Invalidated

LEMMA HistoryMessage ==
  ASSUME FeedTypes, FollowsHistory, SocketBegins, Feed!OnMessage
  PROVE  FollowsHistory' /\ SocketBegins'
<1> DEFINE f == Head(pipe)
<1>1. SocketBegins' /\ \A i \in 1 .. Len(pipe') : pipe'[i].type # "open"
  BY SocketBeginsHandled
<1>2. /\ f \in Feed!Frame /\ About(f) /\ f = pipe[1] /\ 1 \in 1 .. Len(pipe)
      /\ Feed!Handle(f) /\ history' = history /\ open' = open /\ pipe # <<>>
  BY PipeHandled DEF Feed!OnMessage, Feed!serverVars
<1>3. UpdatesTold = UpdatesTold' \cup (IF f.type = "UPDATES_APPENDED" THEN f.ids ELSE {})
  BY HeadCarried DEF UpdatesTold
<1>4. open
  BY <1>2 DEF SocketBegins
<1> HIDE DEF f
<1>5. UpdatesTold' \subseteq history
  BY <1>3 DEF FollowsHistory
<1>6. CASE f.type = "open" /\ Feed!Opened
  <2>1. updates' = updates
    BY <1>6 DEF Feed!Opened, Feed!cacheVars
  <2>2. CASE hasConnected
    <3>1. Feed!Invalidated(history)
      BY <1>6, <2>2 DEF Feed!Opened
    <3> QED BY <1>1, <1>2, <1>5, <2>1, <3>1, InvalidatedHistory
  <2>3. CASE ~hasConnected
    <3>1. UNCHANGED <<getUpdates, behind>> /\ Followed /\ UpdatesTold' = UpdatesTold
      BY <1>3, <1>6, <2>3 DEF Feed!Opened, Followed
    <3> QED BY <1>1, <1>2, <2>1, <3>1 DEF FollowsHistory
  <2> QED BY <2>2, <2>3
<1>7. CASE \/ f.type = "ACTIVITY_UPDATE" /\ Feed!WholeList(f)
           \/ f.type = "ACTIVITY_APPENDED" /\ Feed!Appended(f)
           \/ f.type = "ACTIVITY_SEEN" /\ Feed!Seen(f)
  <2>1. UNCHANGED <<updates, getUpdates, behind, hasConnected>> /\ UpdatesTold' = UpdatesTold
    BY <1>3, <1>7 DEF Feed!WholeList, Feed!Appended, Feed!Seen
  <2>2. Followed
    BY <1>1, <1>2, <1>4, <1>7 DEF Followed, SocketBegins
  <2> QED BY <1>1, <1>2, <2>1, <2>2 DEF FollowsHistory
<1>8. CASE f.type = "UPDATES_APPENDED" /\ Feed!UpdatesAppended(f)
  <2>1. Followed' => Followed
    BY <1>1, <1>2, <1>4, <1>8 DEF Followed, SocketBegins
  <2>2. CASE Feed!Loaded(updates)
    <3>1. /\ updates' = updates \cup f.ids /\ getUpdates' = getUpdates
          /\ behind' = (behind \/ Feed!Overtakes(f.ids))
      BY <1>8, <2>2 DEF Feed!UpdatesAppended
    <3>2. ~behind' => ~behind /\ (getUpdates.state = "answered" => f.ids \subseteq getUpdates.got)
      BY <3>1 DEF Feed!Overtakes
    <3> QED BY <1>1, <1>2, <1>3, <1>5, <1>8, <2>1, <2>2, <3>1, <3>2 DEF FollowsHistory
  <2>3. CASE ~Feed!Loaded(updates)
    <3>1. updates' = updates /\ Feed!Invalidated(f.ids) /\ hasConnected' = hasConnected
      BY <1>8, <2>3 DEF Feed!UpdatesAppended
    <3>2. Followed
      BY <1>2, <1>4, <1>8 DEF Followed, SocketBegins
    <3> QED BY <1>1, <1>2, <1>3, <1>5, <1>8, <2>3, <3>1, <3>2, InvalidatedHistory
  <2> QED BY <2>2, <2>3
<1> QED BY <1>2, <1>6, <1>7, <1>8, HandledByKind

LEMMA HistoryStep ==
  ASSUME FeedTypes, FollowsHistory, SocketBegins, FeedNext
  PROVE  FollowsHistory' /\ SocketBegins'
<1>1. CASE \/ Feed!Insert \/ \E e \in Feed!Events : Feed!MarkedElsewhere(e)
           \/ Feed!ClearedElsewhere \/ Feed!AnswerMark \/ Feed!AnswerClear \/ Feed!AnswerList
           \/ Feed!AskList \/ Feed!TakeList \/ \E e \in Feed!Events : Feed!Mark(e)
           \/ Feed!MarkEnds \/ Feed!Clear \/ Feed!ClearEnds
  <2>1. SendsActivity /\ UNCHANGED <<history, open, hasConnected, updates, getUpdates, behind>>
    BY <1>1, ActivitySteps
  <2> QED BY <2>1, HistoryIdle, SocketBeginsKept
<1> QED BY <1>1, HistoryAccept, HistoryBroken, HistoryInsertUpdate, HistoryRequests, HistoryMessage
        DEF FeedNext, Feed!Page, Feed!Server

LEMMA HistoryShown ==
  ASSUME FeedTypes, FollowsHistory
  PROVE  Feed!ShowsTheHistory
<1> SUFFICES ASSUME Feed!Quiet, ~behind, getUpdates = Feed!NoRequest, Feed!Loaded(updates)
             PROVE  updates = history
  BY DEF Feed!ShowsTheHistory
<1>1. UpdatesTold = {} /\ Followed
  BY NothingCarried DEF UpdatesTold, Feed!Quiet, Followed
<1> QED BY <1>1, FreshRequests DEF FollowsHistory

-----------------------------------------------------------------------------
(* The activity list. What makes it what is stored is on its way: a whole  *)
(* list, or what the list on screen, or the one that comes back, misses.   *)

\* A clear under way, or failed: what it emptied may come back.
TakenBack == clear.state \in {"asked", "failed"}
Marking == mark.state \in {"asked", "failed"}

\* The list the page goes on from: the one on screen, or the one that comes back.
Base == IF TakenBack THEN clear.got ELSE list
BaseRead == IF TakenBack THEN clear.seen ELSE read
Lost == undone \/ (TakenBack /\ clear.pushed)

ListTold == Carried(pipe, 0, "ACTIVITY_APPENDED")
SeenTold == Carried(pipe, 0, "ACTIVITY_SEEN")

\* What is on its way makes the list of what is stored, and shows as seen what
\* is -- up to a marking that may yet fail, and without it as long as no frame
\* has confirmed it.
Lined ==
  /\ Orderly(pipe, 0, rows)
  /\ rows = Base \cup ListTold
  /\ ~Marking => seen = BaseRead \cup SeenTold
  /\ Marking => /\ seen \subseteq BaseRead \cup SeenTold
                /\ BaseRead \cup SeenTold \subseteq seen \cup mark.got
                /\ ~mark.pushed => seen = (BaseRead \ mark.got) \cup SeenTold

\* A whole list is on its way, and what follows it makes it what is stored.
RenewedAt(k) ==
  /\ LastWhole(pipe, k) /\ Orderly(pipe, k, rows)
  /\ rows = pipe[k].ids \cup Carried(pipe, k, "ACTIVITY_APPENDED")
  /\ seen = pipe[k].seen \cup Carried(pipe, k, "ACTIVITY_SEEN")
Renewed == \E k \in 1 .. Len(pipe) : RenewedAt(k)

FollowsList == open => Renewed \/ (NoWhole(pipe) /\ Feed!Loaded(list) /\ (Lost \/ Lined))

\* Events are numbered as they come, and a whole list shows as seen what it lists.
WholeFrames ==
  /\ rows \subseteq 1 .. count
  /\ \A i \in 1 .. Len(pipe) : pipe[i].type = "ACTIVITY_UPDATE" => pipe[i].seen \subseteq pipe[i].ids

\* What is shown as seen is listed, and an answer read before a list that came
\* by socket is not taken over it.
ListBasics ==
  /\ read \subseteq list /\ clear.seen \subseteq clear.got /\ get.seen \subseteq get.got
  /\ Feed!Loaded(list) /\ get.state # "none" => get.pushed
  /\ clear.state # "none" => Feed!Loaded(list)
  /\ clear.state # "none" /\ ~clear.pushed => list = {}

LEMMA PipeSteps ==
  ASSUME FeedTypes, FeedNext
  PROVE  \/ Feed!Accept
         \/ open' = FALSE /\ pipe' = <<>> /\ UNCHANGED <<count, rows, seen>>
         \/ Feed!OnMessage
         \/ /\ open' = open
            /\ SendsActivity \/ (\E f : Sends(f, "UPDATES_APPENDED", f.ids) /\ UNCHANGED <<count, rows, seen>>)
<1>1. CASE \/ Feed!Insert \/ \E e \in Feed!Events : Feed!MarkedElsewhere(e)
           \/ Feed!ClearedElsewhere \/ Feed!AnswerMark \/ Feed!AnswerClear \/ Feed!AnswerList
           \/ Feed!AskList \/ Feed!TakeList \/ \E e \in Feed!Events : Feed!Mark(e)
           \/ Feed!MarkEnds \/ Feed!Clear \/ Feed!ClearEnds
  BY <1>1, ActivitySteps
<1>2. CASE Feed!Cut \/ ServerRestart
  BY <1>2 DEF Feed!Cut, ServerRestart, Feed!Broken, Feed!serverVars
<1>3. CASE Feed!InsertUpdate
  <2>1. PICK f : Sends(f, "UPDATES_APPENDED", {Feed!Cardinality(history) + 1})
    BY <1>3, InsertUpdateSends
  <2>2. Sends(f, "UPDATES_APPENDED", f.ids)
    BY <2>1 DEF Sends
  <2> QED BY <1>3, <2>2 DEF Feed!InsertUpdate
<1>4. CASE Feed!AnswerUpdates \/ Feed!Refused \/ Feed!AskUpdates \/ Feed!TakeUpdates
  BY <1>4 DEF Feed!AnswerUpdates, Feed!Refused, Feed!AskUpdates, Feed!TakeUpdates,
         Feed!serverVars, Feed!socketVars, SendsActivity
<1> QED BY <1>1, <1>2, <1>3, <1>4 DEF FeedNext, Feed!Page, Feed!Server

LEMMA StoredSteps ==
  ASSUME FeedTypes, WholeFrames, FeedNext
  PROVE  rows' \subseteq 1 .. count'
<1>1. CASE Feed!Insert
  <2>1. count' \in Nat /\ count \in Nat /\ count' = count + Batch
    BY <1>1, InsertSends
  <2>2. rows' = rows \cup (count + 1 .. count')
    BY <1>1 DEF Feed!Insert
  <2>3. 1 .. count \subseteq 1 .. count' /\ count + 1 .. count' \subseteq 1 .. count'
    BY <2>1, SizesAssumption
  <2> QED BY <2>2, <2>3 DEF WholeFrames
<1>2. CASE \/ \E e \in Feed!Events : Feed!MarkedElsewhere(e)
           \/ Feed!ClearedElsewhere \/ Feed!AnswerMark \/ Feed!AnswerClear
  BY <1>2 DEF Feed!MarkedElsewhere, Feed!ClearedElsewhere, Feed!AnswerMark, Feed!AnswerClear,
     Feed!MarkSeen, Feed!DeleteAll, WholeFrames
<1>3. CASE ~Feed!Insert /\ ~(\/ \E e \in Feed!Events : Feed!MarkedElsewhere(e)
           \/ Feed!ClearedElsewhere \/ Feed!AnswerMark \/ Feed!AnswerClear)
  BY <1>3 DEF FeedNext, Feed!Page, Feed!Server, WholeFrames, Feed!Accept, Feed!Cut, ServerRestart,
     Feed!InsertUpdate, Feed!AnswerList, Feed!AnswerUpdates, Feed!Refused, Feed!AskList,
     Feed!AskUpdates, Feed!TakeList, Feed!TakeUpdates, Feed!Mark, Feed!MarkEnds, Feed!Clear,
     Feed!ClearEnds, Feed!OnMessage, Feed!serverVars
<1> QED BY <1>1, <1>2, <1>3

LEMMA WholeFramesStep ==
  ASSUME FeedTypes, WholeFrames, FeedNext
  PROVE  WholeFrames'
<1> DEFINE P(f) == f.type = "ACTIVITY_UPDATE" => f.seen \subseteq f.ids
<1>0. SUFFICES \A i \in 1 .. Len(pipe') : P(pipe'[i])
  BY StoredSteps DEF WholeFrames
<1>1. pipe \in Seq(Feed!Frame) /\ \A i \in 1 .. Len(pipe) : P(pipe[i])
  BY DEF FeedTypes, Feed!TypeOK, WholeFrames
<1>2. CASE Feed!Accept
  <2>1. /\ Len(pipe') = 2 /\ pipe'[1].type = "open" /\ pipe'[2].ids = rows /\ pipe'[2].seen = seen
        /\ seen \subseteq rows
    BY <1>2, SocketBeginsAccept DEF FeedTypes, Feed!TypeOK
  <2>2. P(pipe'[1]) /\ P(pipe'[2])
    BY <2>1
  <2>3. \A i \in 1 .. Len(pipe') : i = 1 \/ i = 2
    BY <2>1
  <2> HIDE DEF P
  <2> QED BY <2>2, <2>3
<1>3. CASE pipe' = <<>>
  BY <1>3
<1>4. CASE Feed!OnMessage
  <2>1. pipe' = Tail(pipe) /\ pipe # <<>>
    BY <1>4 DEF Feed!OnMessage
  <2>2. Len(pipe') = Len(pipe) - 1 /\ \A i \in 1 .. Len(pipe') : pipe'[i] = pipe[i + 1] /\ i + 1 \in 1 .. Len(pipe)
    BY <1>1, <2>1
  <2> HIDE DEF P
  <2> QED BY <1>1, <2>2
<1>5. ASSUME NEW f, NEW kind, Sends(f, kind, f.ids) PROVE \A i \in 1 .. Len(pipe') : P(pipe'[i])
  <2>1. P(f) /\ f \in Feed!Frame
    BY <1>5 DEF Sends
  <2> HIDE DEF P
  <2>2. CASE open
    <3>1. /\ Len(pipe') = Len(pipe) + 1 /\ pipe'[Len(pipe) + 1] = f /\ Len(pipe) \in Nat
          /\ \A i \in 1 .. Len(pipe) : pipe'[i] = pipe[i]
      BY <1>1, <1>5, <2>2 DEF Sends, Feed!Sent
    <3>2. ASSUME NEW i \in 1 .. Len(pipe') PROVE P(pipe'[i])
      <4>1. i = Len(pipe) + 1 \/ i \in 1 .. Len(pipe)
        BY <3>1
      <4> QED BY <1>1, <2>1, <3>1, <4>1
    <3> QED BY <3>2
  <2>3. CASE ~open
    BY <1>1, <1>5, <2>3 DEF Sends, Feed!Sent
  <2> QED BY <2>2, <2>3
<1>6. CASE pipe' = pipe
  BY <1>1, <1>6
<1> QED BY <1>2, <1>3, <1>4, <1>5, <1>6, PipeSteps DEF SendsActivity

\* The steps that neither write the list nor change a request about it.
ListAlone == UNCHANGED <<list, read, get, clear>>

LEMMA AloneSteps ==
  ASSUME \/ Feed!Accept \/ Feed!Cut \/ Feed!Insert \/ Feed!InsertUpdate
         \/ \E e \in Feed!Events : Feed!MarkedElsewhere(e)
         \/ Feed!ClearedElsewhere \/ Feed!AnswerUpdates \/ Feed!AnswerMark
         \/ Feed!AskUpdates \/ Feed!TakeUpdates
  PROVE  ListAlone
BY DEF ListAlone, Feed!Accept, Feed!Cut, Feed!Insert, Feed!InsertUpdate, Feed!MarkedElsewhere,
       Feed!ClearedElsewhere, Feed!AnswerUpdates, Feed!AnswerMark, Feed!AskUpdates,
       Feed!TakeUpdates, Feed!cacheVars, Feed!requestVars

LEMMA EmptyLoaded == Feed!Loaded({})
BY Numbers DEF Feed!Loaded

\* The requests of the page, as they are typed.
LEMMA RequestsTyped ==
  ASSUME FeedTypes
  PROVE  /\ get \in Feed!Request /\ getUpdates \in Feed!Request
         /\ mark \in Feed!Request /\ clear \in Feed!Request
         /\ list \in Feed!List /\ read \in SUBSET Feed!Events /\ rows \in SUBSET Feed!Events
         /\ seen \in SUBSET Feed!Events /\ seen \subseteq rows
         /\ get.got \in SUBSET Feed!Events /\ clear.got \in SUBSET Feed!Events
         /\ clear.got \in Feed!List /\ get.got \in Feed!List
         /\ mark.got \in SUBSET Feed!Events
         /\ clear.seen \in SUBSET Feed!Events /\ get.seen \in SUBSET Feed!Events
BY FieldsTyped DEF FeedTypes, Feed!TypeOK, Contents, Feed!List

LEMMA BasicsAnswers ==
  ASSUME FeedTypes, ListBasics, Feed!AnswerList \/ Feed!AnswerClear \/ Feed!Refused \/ ServerRestart
  PROVE  ListBasics'
<1>1. UNCHANGED <<list, read>>
  BY DEF Feed!AnswerList, Feed!AnswerClear, Feed!Refused, ServerRestart, Feed!cacheVars
<1>2. /\ get'.state # "none" => get.state # "none"
      /\ get'.pushed = get.pushed /\ get'.seen \subseteq get'.got
  <2>1. CASE Feed!AnswerList
    <3>1. /\ get' = [get EXCEPT !.state = "answered", !.got = rows, !.seen = seen]
          /\ get.state = "asked" /\ rows \in Feed!List
      BY <2>1, RequestsTyped DEF Feed!AnswerList, Feed!List
    <3>3. rows \in Feed!List \cup Feed!History
      BY <3>1
    <3>2. get'.state = "answered" /\ get'.got = rows /\ get'.seen = seen /\ get'.pushed = get.pushed
      <4>1. get \in Feed!Request /\ seen \in SUBSET Feed!Events
        BY RequestsTyped
      <4> QED BY <3>1, <4>1 DEF Feed!Request
    <3> QED BY <3>1, <3>2, RequestsTyped
  <2>2. CASE get' = get
    BY <2>2 DEF ListBasics
  <2>3. CASE get' = Feed!Failed(get) /\ get.state = "asked"
    BY <2>3, RequestsTyped, FailedKept DEF ListBasics
  <2>4. CASE get' = Abort(get)
    BY <2>4, RequestsTyped, AbortKept DEF ListBasics
  <2> QED BY <2>1, <2>2, <2>3, <2>4
          DEF Feed!AnswerClear, Feed!Refused, ServerRestart
<1>3. /\ clear'.state # "none" => clear.state # "none"
      /\ clear'.pushed = clear.pushed /\ clear'.seen \subseteq clear'.got
  <2>1. CASE clear' = clear
    BY <2>1 DEF ListBasics
  <2>2. CASE clear' = Feed!Failed(clear) /\ clear.state = "asked"
    BY <2>2, RequestsTyped, FailedKept DEF ListBasics
  <2>3. CASE clear' = Abort(clear)
    BY <2>3, RequestsTyped, AbortKept DEF ListBasics
  <2>4. CASE clear' = [clear EXCEPT !.state = "answered"] /\ clear.state = "asked"
    BY <2>4, RequestsTyped, AnsweredKept DEF ListBasics
  <2> QED BY <2>1, <2>2, <2>3, <2>4
          DEF Feed!AnswerList, Feed!AnswerClear, Feed!Refused, ServerRestart
<1> QED BY <1>1, <1>2, <1>3 DEF ListBasics

LEMMA BasicsPage ==
  ASSUME FeedTypes, ListBasics,
         \/ Feed!AskList \/ Feed!TakeList \/ \E e \in Feed!Events : Feed!Mark(e)
         \/ Feed!MarkEnds \/ Feed!Clear \/ Feed!ClearEnds
  PROVE  ListBasics'
<1>1. CASE Feed!AskList
  <2>1. /\ ~Feed!Loaded(list) /\ get' = Feed!Asked /\ UNCHANGED <<list, read, clear>>
    BY <1>1 DEF Feed!AskList, Feed!cacheVars
  <2> QED BY <2>1, FreshRequests DEF ListBasics
<1>2. CASE Feed!TakeList
  <2>1. /\ get' = Feed!NoRequest /\ clear' = clear /\ get.state # "none"
        /\ \/ UNCHANGED <<list, read>>
           \/ ~(get.pushed /\ Feed!Loaded(list)) /\ list' = get.got /\ read' = get.seen
    BY <1>2 DEF Feed!TakeList, Feed!cacheVars
  <2>2. clear.state # "none" => UNCHANGED <<list, read>>
    BY <2>1 DEF ListBasics
  <2> QED BY <2>1, <2>2, FreshRequests DEF ListBasics
<1>3. CASE \E e \in Feed!Events : Feed!Mark(e)
  <2>1. PICK e \in Feed!Events : Feed!Mark(e)
    BY <1>3
  <2>2. /\ get' = Feed!NoRequest /\ UNCHANGED <<list, clear>>
        /\ read' = read \cup {e} /\ e \in list
    BY <2>1 DEF Feed!Mark
  <2> QED BY <2>2, FreshRequests DEF ListBasics
<1>4. CASE Feed!MarkEnds
  <2>1. /\ UNCHANGED <<list, get>> /\ read' \subseteq read
        /\ clear' = clear \/ clear' = Feed!Pushed(clear)
    BY <1>4 DEF Feed!MarkEnds
  <2>2. /\ clear'.got = clear.got /\ clear'.seen = clear.seen /\ clear'.state = clear.state
        /\ clear'.state # "none" /\ ~clear'.pushed => ~clear.pushed
    BY <2>1, RequestsTyped, PushedKept
  <2> QED BY <2>1, <2>2 DEF ListBasics
<1>5. CASE Feed!Clear
  <2>1. /\ get' = Feed!NoRequest /\ list' = {} /\ read' = {}
        /\ clear' = [Feed!Asked EXCEPT !.got = list, !.seen = read]
    BY <1>5 DEF Feed!Clear
  <2>2. clear'.got = list /\ clear'.seen = read
    BY <2>1, AskedWith, RequestsTyped
  <2> QED BY <2>1, <2>2, FreshRequests, EmptyLoaded DEF ListBasics
<1>6. CASE Feed!ClearEnds
  <2>1. /\ clear' = Feed!NoRequest /\ get' = get /\ clear.state # "none"
        /\ \/ UNCHANGED <<list, read>>
           \/ list' = clear.got /\ read' = clear.seen
    BY <1>6 DEF Feed!ClearEnds
  <2>2. Feed!Loaded(list)
    BY <2>1 DEF ListBasics
  <2> QED BY <2>1, <2>2, FreshRequests DEF ListBasics
<1> QED BY <1>1, <1>2, <1>3, <1>4, <1>5, <1>6

LEMMA BasicsMessage ==
  ASSUME FeedTypes, ListBasics, WholeFrames, Feed!OnMessage
  PROVE  ListBasics'
<1> DEFINE f == Head(pipe)
<1>1. /\ f \in Feed!Frame /\ About(f) /\ f = pipe[1] /\ 1 \in 1 .. Len(pipe) /\ Feed!Handle(f)
  BY PipeHandled DEF Feed!OnMessage
<1>2. f.type = "ACTIVITY_UPDATE" => f.seen \subseteq f.ids
  BY <1>1 DEF WholeFrames
<1> HIDE DEF f
<1>3. ASSUME NEW ids, NEW shown, Feed!WriteList(ids, shown), shown \subseteq ids, Feed!Loaded(ids)
      PROVE  ListBasics'
  <2>1. /\ list' = ids /\ read' = shown
        /\ get' = Feed!Pushed(get) /\ clear' = Feed!Pushed(clear)
    BY <1>3 DEF Feed!WriteList
  <2>2. /\ get'.state = get.state /\ get'.got = get.got /\ get'.seen = get.seen
        /\ get'.pushed = (get.state # "none")
        /\ clear'.state = clear.state /\ clear'.got = clear.got /\ clear'.seen = clear.seen
        /\ clear'.pushed = (clear.state # "none")
    BY <2>1, RequestsTyped, PushedKept
  <2> QED BY <1>3, <2>1, <2>2 DEF ListBasics
<1>4. CASE UNCHANGED <<list, read, get, clear>>
  BY <1>4 DEF ListBasics
<1>5. f.type # "UPDATES_APPENDED" => f.ids \subseteq Feed!Events
  BY <1>1 DEF About
<1>6. CASE f.type = "ACTIVITY_UPDATE" /\ Feed!WholeList(f)
  <2>1. Feed!WriteList(f.ids, f.seen) /\ Feed!Loaded(f.ids)
    BY <1>5, <1>6, Numbers DEF Feed!WholeList
  <2> QED BY <1>2, <1>3, <1>6, <2>1
<1>7. CASE f.type = "ACTIVITY_APPENDED" /\ Feed!Appended(f) /\ Feed!Loaded(list)
  <2>1. Feed!WriteList(list \cup f.ids, read)
    BY <1>7 DEF Feed!Appended
  <2>2. list \cup f.ids \in SUBSET Feed!Events
    BY <1>5, <1>7, ListLoaded, RequestsTyped
  <2>3. Feed!Loaded(list \cup f.ids)
    BY <2>2, Numbers
  <2>4. read \subseteq list \cup f.ids
    BY DEF ListBasics
  <2> QED BY <1>3, <2>1, <2>3, <2>4
<1>8. CASE f.type = "ACTIVITY_SEEN" /\ Feed!Seen(f) /\ Feed!Loaded(list)
  <2>1. Feed!WriteList(list, read \cup (f.ids \cap list))
    BY <1>8 DEF Feed!Seen
  <2>2. read \cup (f.ids \cap list) \subseteq list
    BY DEF ListBasics
  <2> QED BY <1>3, <1>8, <2>1, <2>2
<1>9. CASE ~Feed!Loaded(list) /\ (Feed!Appended(f) \/ Feed!Seen(f))
  BY <1>4, <1>9 DEF Feed!Appended, Feed!Seen
<1>10. CASE \/ f.type = "open" /\ Feed!Opened
            \/ f.type = "UPDATES_APPENDED" /\ Feed!UpdatesAppended(f)
  BY <1>4, <1>10 DEF Feed!Opened, Feed!UpdatesAppended, Feed!cacheVars
<1> QED BY <1>1, <1>6, <1>7, <1>8, <1>9, <1>10, HandledByKind

LEMMA ListBasicsStep ==
  ASSUME FeedTypes, ListBasics, WholeFrames, FeedNext
  PROVE  ListBasics'
<1>1. ASSUME ListAlone PROVE ListBasics'
  BY <1>1 DEF ListAlone, ListBasics
<1> QED BY <1>1, AloneSteps, BasicsAnswers, BasicsPage, BasicsMessage
        DEF FeedNext, Feed!Page, Feed!Server

\* A frame behind the others: the whole lists among them are those there were,
\* and it.
LEMMA WholeAppend ==
  ASSUME NEW S, NEW p \in Seq(S), NEW f \in S
  PROVE  LET q == Append(p, f)
         IN /\ f.type # "ACTIVITY_UPDATE" =>
                 /\ NoWhole(p) => NoWhole(q)
                 /\ \A k \in 1 .. Len(p) : LastWhole(p, k) => LastWhole(q, k) /\ q[k] = p[k]
            /\ f.type = "ACTIVITY_UPDATE" => LastWhole(q, Len(q)) /\ q[Len(q)] = f /\ Len(q) \in Nat
<1> DEFINE q == Append(p, f)
<1>1. /\ Len(q) = Len(p) + 1 /\ q[Len(p) + 1] = f /\ \A i \in 1 .. Len(p) : q[i] = p[i]
      /\ Len(p) \in Nat
  OBVIOUS
<1> HIDE DEF q
<1>2. ASSUME f.type # "ACTIVITY_UPDATE", NoWhole(p) PROVE NoWhole(q)
  <2>1. ASSUME NEW i \in 1 .. Len(q) PROVE q[i].type # "ACTIVITY_UPDATE"
    <3>1. i = Len(p) + 1 \/ i \in 1 .. Len(p)
      BY <1>1
    <3> QED BY <1>1, <1>2, <3>1 DEF NoWhole
  <2> QED BY <2>1 DEF NoWhole
<1>3. ASSUME f.type # "ACTIVITY_UPDATE", NEW k \in 1 .. Len(p), LastWhole(p, k)
      PROVE  LastWhole(q, k) /\ q[k] = p[k]
  <2>1. ASSUME NEW i \in k + 1 .. Len(q) PROVE q[i].type # "ACTIVITY_UPDATE"
    <3>1. i = Len(p) + 1 \/ (i \in 1 .. Len(p) /\ i \in k + 1 .. Len(p))
      BY <1>1
    <3> QED BY <1>1, <1>3, <3>1 DEF LastWhole
  <2>2. k \in 1 .. Len(q)
    BY <1>1
  <2> QED BY <1>1, <1>3, <2>1, <2>2 DEF LastWhole
<1>4. ASSUME f.type = "ACTIVITY_UPDATE" PROVE LastWhole(q, Len(q)) /\ q[Len(q)] = f /\ Len(q) \in Nat
  <2>1. Len(q) \in 1 .. Len(q) /\ \A i \in Len(q) + 1 .. Len(q) : FALSE
    BY <1>1
  <2> QED BY <1>1, <1>4, <2>1 DEF LastWhole
<1> QED BY <1>2, <1>3, <1>4 DEF q

\* What a frame other than a whole list tells of the change it is sent for.
Tells(kind, ids) ==
  /\ kind \in {"ACTIVITY_APPENDED", "ACTIVITY_SEEN", "UPDATES_APPENDED"}
  /\ rows' = rows \cup (IF kind = "ACTIVITY_APPENDED" THEN ids ELSE {})
  /\ seen' = seen \cup (IF kind = "ACTIVITY_SEEN" THEN ids ELSE {})
  /\ kind = "ACTIVITY_APPENDED" => ids \cap rows = {}
  /\ kind = "ACTIVITY_SEEN" => ids \subseteq rows

LEMMA OrderlySent ==
  ASSUME FeedTypes, open, NEW f, NEW kind, NEW ids, Sends(f, kind, ids), Tells(kind, ids),
         NEW k \in 0 .. Len(pipe), Orderly(pipe, k, rows)
  PROVE  Orderly(pipe', k, rows')
<1>1. /\ pipe \in Seq(Feed!Frame) /\ f \in Feed!Frame /\ f.type = kind /\ f.ids = ids
      /\ pipe' = Append(pipe, f)
  BY DEF FeedTypes, Feed!TypeOK, Sends, Feed!Sent
<1>2. /\ rows \subseteq rows'
      /\ f.type = "ACTIVITY_SEEN" => f.ids \subseteq rows'
      /\ f.type = "ACTIVITY_APPENDED" => f.ids \cap rows = {}
  BY <1>1 DEF Tells
<1>3. Orderly(Append(pipe, f), k, rows')
  BY <1>1, <1>2, OrderlyAppend
<1> QED BY <1>1, <1>3

LEMMA RenewedSent ==
  ASSUME FeedTypes, open, NEW f, NEW kind, NEW ids, Sends(f, kind, ids), Tells(kind, ids), Renewed
  PROVE  Renewed'
<1>1. /\ pipe \in Seq(Feed!Frame) /\ f \in Feed!Frame /\ f.type = kind /\ f.ids = ids
      /\ pipe' = Append(pipe, f) /\ kind # "ACTIVITY_UPDATE"
  BY DEF FeedTypes, Feed!TypeOK, Sends, Feed!Sent, Tells
<1>2. PICK k \in 1 .. Len(pipe) : RenewedAt(k)
  BY DEF Renewed
<1>3. k \in 0 .. Len(pipe) /\ k \in 1 .. Len(pipe')
  BY <1>1
<1>4. LastWhole(pipe', k) /\ pipe'[k] = pipe[k]
  BY <1>1, <1>2, WholeAppend DEF RenewedAt
<1>5. Orderly(pipe', k, rows')
  BY <1>2, <1>3, OrderlySent DEF RenewedAt
<1>6. \A t : Carried(pipe', k, t) = Carried(pipe, k, t) \cup (IF kind = t THEN ids ELSE {})
  BY <1>3, SentCarried
<1>7. /\ Carried(pipe', k, "ACTIVITY_APPENDED") = Carried(pipe, k, "ACTIVITY_APPENDED") \cup (IF kind = "ACTIVITY_APPENDED" THEN ids ELSE {})
      /\ Carried(pipe', k, "ACTIVITY_SEEN") = Carried(pipe, k, "ACTIVITY_SEEN") \cup (IF kind = "ACTIVITY_SEEN" THEN ids ELSE {})
  BY <1>6
<1>8. rows' = pipe'[k].ids \cup Carried(pipe', k, "ACTIVITY_APPENDED")
  BY <1>2, <1>4, <1>7 DEF RenewedAt, Tells
<1>9. seen' = pipe'[k].seen \cup Carried(pipe', k, "ACTIVITY_SEEN")
  BY <1>2, <1>4, <1>7 DEF RenewedAt, Tells
<1> QED BY <1>3, <1>4, <1>5, <1>8, <1>9 DEF Renewed, RenewedAt

LEMMA LinedSent ==
  ASSUME FeedTypes, open, NEW f, NEW kind, NEW ids, Sends(f, kind, ids), Tells(kind, ids),
         NoWhole(pipe), UNCHANGED <<list, read, clear>>
  PROVE  /\ NoWhole(pipe') /\ Base' = Base /\ BaseRead' = BaseRead
         /\ Lined => Orderly(pipe', 0, rows') /\ rows' = Base \cup ListTold'
         /\ SeenTold' = SeenTold \cup (IF kind = "ACTIVITY_SEEN" THEN ids ELSE {})
<1>1. /\ pipe \in Seq(Feed!Frame) /\ f \in Feed!Frame /\ f.type = kind /\ f.ids = ids
      /\ pipe' = Append(pipe, f) /\ kind # "ACTIVITY_UPDATE" /\ 0 \in 0 .. Len(pipe)
  BY DEF FeedTypes, Feed!TypeOK, Sends, Feed!Sent, Tells
<1>2. NoWhole(pipe')
  BY <1>1, WholeAppend
<1>3. Base' = Base /\ BaseRead' = BaseRead
  BY DEF Base, BaseRead, TakenBack
<1>4. \A t : Carried(pipe', 0, t) = Carried(pipe, 0, t) \cup (IF kind = t THEN ids ELSE {})
  BY <1>1, SentCarried
<1>5. /\ SeenTold' = SeenTold \cup (IF kind = "ACTIVITY_SEEN" THEN ids ELSE {})
      /\ ListTold' = ListTold \cup (IF kind = "ACTIVITY_APPENDED" THEN ids ELSE {})
  BY <1>4 DEF SeenTold, ListTold
<1>6. ASSUME Lined PROVE Orderly(pipe', 0, rows') /\ rows' = Base \cup ListTold'
  <2>1. Orderly(pipe', 0, rows')
    BY <1>1, <1>6, OrderlySent DEF Lined
  <2>2. rows' = Base \cup ListTold'
    BY <1>5, <1>6 DEF Lined, Tells
  <2> QED BY <2>1, <2>2
<1> QED BY <1>2, <1>3, <1>5, <1>6

\* What is told as seen, and what is shown as seen, is stored.
LEMMA ToldStored ==
  ASSUME FeedTypes, ListBasics, Lined
  PROVE  BaseRead \cup SeenTold \subseteq rows
<1>1. SeenTold \subseteq rows
  <2>1. ASSUME NEW e \in SeenTold PROVE e \in rows
    <3>1. PICK i \in 0 + 1 .. Len(pipe) : pipe[i].type = "ACTIVITY_SEEN" /\ e \in pipe[i].ids
      BY InCarried DEF SeenTold
    <3> QED BY <3>1 DEF Lined, Orderly
  <2> QED BY <2>1
<1>2. BaseRead \subseteq Base
  BY DEF ListBasics, Base, BaseRead
<1> QED BY <1>1, <1>2 DEF Lined

\* An event is told of, or a marking made elsewhere: the page's own requests
\* stay as they are.
LEMMA FollowsSent ==
  ASSUME FeedTypes, FollowsList, NEW f, NEW kind, NEW ids, Sends(f, kind, ids), Tells(kind, ids),
         UNCHANGED <<open, list, read, mark, clear, undone>>
  PROVE  FollowsList'
<1>1. CASE open /\ Renewed
  BY <1>1, RenewedSent DEF FollowsList
<1>2. CASE open /\ NoWhole(pipe) /\ Feed!Loaded(list) /\ Lost
  <2>1. NoWhole(pipe') /\ Lost'
    BY <1>2, LinedSent DEF Lost, TakenBack
  <2> QED BY <1>2, <2>1 DEF FollowsList
<1>3. CASE open /\ NoWhole(pipe) /\ Feed!Loaded(list) /\ Lined
  <2>1. /\ NoWhole(pipe') /\ Base' = Base /\ BaseRead' = BaseRead
        /\ Orderly(pipe', 0, rows') /\ rows' = Base \cup ListTold'
        /\ SeenTold' = SeenTold \cup (IF kind = "ACTIVITY_SEEN" THEN ids ELSE {})
    BY <1>3, LinedSent
  <2>2. seen' = seen \cup (IF kind = "ACTIVITY_SEEN" THEN ids ELSE {})
    BY DEF Tells
  <2>3. Marking' = Marking /\ mark' = mark
    BY DEF Marking
  <2>4. Lined'
    BY <1>3, <2>1, <2>2, <2>3 DEF Lined
  <2> QED BY <1>3, <2>1, <2>4 DEF FollowsList
<1> QED BY <1>1, <1>2, <1>3 DEF FollowsList

LEMMA FollowsInserts ==
  ASSUME FeedTypes, WholeFrames, FollowsList, Feed!Insert \/ Feed!InsertUpdate
  PROVE  FollowsList'
<1>1. UNCHANGED <<open, list, read, mark, clear, undone>>
  BY DEF Feed!Insert, Feed!InsertUpdate, Feed!cacheVars, Feed!requestVars
<1>2. CASE Feed!Insert
  <2>1. count' \in Nat /\ count \in Nat /\ count' = count + Batch
    BY <1>2, InsertSends
  <2>2. rows' = rows \cup (count + 1 .. count') /\ seen' = seen
    BY <1>2 DEF Feed!Insert
  <2>3. (count + 1 .. count') \cap (1 .. count) = {}
    BY <2>1
  <2>4. Tells("ACTIVITY_APPENDED", count + 1 .. count')
    BY <2>2, <2>3 DEF Tells, WholeFrames
  <2>5. PICK f : Sends(f, "ACTIVITY_APPENDED", count + 1 .. count')
    BY <1>2, InsertSends
  <2> QED BY <1>1, <2>4, <2>5, FollowsSent
<1>3. CASE Feed!InsertUpdate
  <2>1. rows' = rows /\ seen' = seen
    BY <1>3 DEF Feed!InsertUpdate
  <2>2. \A ids : Tells("UPDATES_APPENDED", ids)
    BY <2>1 DEF Tells
  <2>3. PICK f : Sends(f, "UPDATES_APPENDED", {Feed!Cardinality(history) + 1})
    BY <1>3, InsertUpdateSends
  <2> QED BY <1>1, <2>2, <2>3, FollowsSent
<1> QED BY <1>2, <1>3

LEMMA MarkSeenTells ==
  ASSUME FeedTypes, NEW ids, Feed!MarkSeen(ids)
  PROVE  LET marked == (ids \cap rows) \ seen
         IN \/ Tells("ACTIVITY_SEEN", marked) /\ \E f : Sends(f, "ACTIVITY_SEEN", marked)
            \/ marked = {} /\ UNCHANGED <<pipe, rows, seen>>
BY MarkSeenSends DEF Tells

LEMMA FollowsMarkedElsewhere ==
  ASSUME FeedTypes, FollowsList, NEW e \in Feed!Events, Feed!MarkedElsewhere(e)
  PROVE  FollowsList'
<1>1. Feed!MarkSeen({e}) /\ UNCHANGED <<open, list, read, mark, clear, undone>>
  BY DEF Feed!MarkedElsewhere, Feed!MarkSeen, Feed!cacheVars, Feed!requestVars
<1> DEFINE marked == ({e} \cap rows) \ seen
<1>2. CASE Tells("ACTIVITY_SEEN", marked) /\ \E f : Sends(f, "ACTIVITY_SEEN", marked)
  <2> HIDE DEF marked
  <2>1. PICK f : Sends(f, "ACTIVITY_SEEN", marked)
    BY <1>2
  <2> QED BY <1>1, <1>2, <2>1, FollowsSent
<1>3. CASE UNCHANGED <<pipe, rows, seen>>
  BY <1>1, <1>3 DEF FollowsList, Renewed, RenewedAt, Lost, Lined, Marking, TakenBack,
     Base, BaseRead, ListTold, SeenTold
<1> QED BY <1>1, <1>2, <1>3, MarkSeenTells

\* The list empties: the page is sent the empty list.
LEMMA FollowsDeleteAll ==
  ASSUME FeedTypes, Feed!DeleteAll, FollowsList
  PROVE  FollowsList'
<1>1. PICK f : Sends(f, "ACTIVITY_UPDATE", {})
  BY DeleteAllSends
<1>2. rows' = {} /\ seen' = {} /\ open' = open
  BY DeleteAllSends
<1>3. CASE open
  <2>1. /\ pipe \in Seq(Feed!Frame) /\ f \in Feed!Frame /\ f.type = "ACTIVITY_UPDATE"
        /\ f.ids = {} /\ f.seen = {} /\ pipe' = Append(pipe, f)
    BY <1>1, <1>3 DEF FeedTypes, Feed!TypeOK, Sends, Feed!Sent
  <2> DEFINE q == Append(pipe, f)
  <2>2. LastWhole(q, Len(q)) /\ q[Len(q)] = f /\ Len(q) \in Nat /\ q \in Seq(Feed!Frame)
    BY <2>1, WholeAppend
  <2>3. pipe' = q
    BY <2>1
  <2> HIDE DEF q
  <2>4. \A t : Carried(q, Len(q), t) = {}
    BY <2>2, CarriedEnd
  <2>5. Orderly(q, Len(q), rows')
    <3>1. \A i \in Len(q) + 1 .. Len(q) : FALSE
      BY <2>2
    <3> QED BY <3>1 DEF Orderly
  <2>6. Len(q) \in 1 .. Len(q)
    BY <2>2 DEF LastWhole
  <2>7. /\ LastWhole(pipe', Len(q)) /\ Orderly(pipe', Len(q), rows')
        /\ rows' = pipe'[Len(q)].ids \cup Carried(pipe', Len(q), "ACTIVITY_APPENDED")
        /\ seen' = pipe'[Len(q)].seen \cup Carried(pipe', Len(q), "ACTIVITY_SEEN")
        /\ Len(q) \in 1 .. Len(pipe')
    BY <1>2, <2>1, <2>2, <2>3, <2>4, <2>5, <2>6
  <2> QED BY <2>7 DEF FollowsList, Renewed, RenewedAt
<1>4. CASE ~open
  BY <1>2, <1>4 DEF FollowsList
<1> QED BY <1>3, <1>4

LEMMA FollowsAccept ==
  ASSUME FeedTypes, Feed!Accept
  PROVE  FollowsList'
<1>1. /\ Len(pipe') = 2 /\ pipe'[1].type = "open" /\ pipe'[2].type = "ACTIVITY_UPDATE"
      /\ pipe'[2].ids = rows /\ pipe'[2].seen = seen /\ rows' = rows /\ seen' = seen
      /\ pipe' \in Seq(Feed!Frame \cup {pipe'[2]})
  BY SocketBeginsAccept DEF Feed!Accept, Feed!serverVars
<1>2. \A i \in 2 + 1 .. Len(pipe') : FALSE
  BY <1>1
<1>3. LastWhole(pipe', 2) /\ Orderly(pipe', 2, rows') /\ 2 \in 1 .. Len(pipe')
  BY <1>1, <1>2 DEF LastWhole, Orderly
<1>4. \A t : Carried(pipe', 2, t) = {}
  BY <1>2, InCarried
<1>5. /\ rows' = pipe'[2].ids \cup Carried(pipe', 2, "ACTIVITY_APPENDED")
      /\ seen' = pipe'[2].seen \cup Carried(pipe', 2, "ACTIVITY_SEEN")
  BY <1>1, <1>4
<1> QED BY <1>3, <1>5 DEF FollowsList, Renewed, RenewedAt

LEMMA FollowsAnswerMark ==
  ASSUME FeedTypes, ListBasics, FollowsList, Feed!AnswerMark
  PROVE  FollowsList'
<1> DEFINE marked == (mark.got \cap rows) \ seen
<1>1. /\ Feed!MarkSeen(mark.got) /\ mark.state = "asked"
      /\ UNCHANGED <<open, list, read, clear, undone>>
  BY DEF Feed!AnswerMark, Feed!MarkSeen, Feed!cacheVars
<1>2. /\ mark'.got = mark.got /\ mark'.pushed = mark.pushed
      /\ mark'.state \in {"answered", "failed"}
  <2>1. mark' = [mark EXCEPT !.state = "answered"] \/ mark' = Feed!Failed(mark)
    BY DEF Feed!AnswerMark
  <2> QED BY <2>1, RequestsTyped, AnsweredKept, FailedKept
<1>3. \/ Tells("ACTIVITY_SEEN", marked) /\ \E f : Sends(f, "ACTIVITY_SEEN", marked)
      \/ marked = {} /\ UNCHANGED <<pipe, rows, seen>>
  BY <1>1, MarkSeenTells
<1>4. Base' = Base /\ BaseRead' = BaseRead /\ (Lost => Lost')
  BY <1>1 DEF Base, BaseRead, TakenBack, Lost
<1>5. ASSUME open, NoWhole(pipe), Feed!Loaded(list), Lined,
             NoWhole(pipe'), Orderly(pipe', 0, rows'), rows' = Base \cup ListTold',
             SeenTold' = SeenTold \cup marked, seen' = seen \cup marked
      PROVE  FollowsList'
  <2>1. BaseRead \cup SeenTold \subseteq rows
    BY <1>5, ToldStored
  <2>2. /\ seen \subseteq BaseRead \cup SeenTold
        /\ BaseRead \cup SeenTold \subseteq seen \cup mark.got
        /\ ~mark.pushed => seen = (BaseRead \ mark.got) \cup SeenTold
    BY <1>1, <1>5 DEF Lined, Marking
  <2>3. seen' = BaseRead \cup SeenTold'
    BY <1>5, <2>1, <2>2
  <2>4. ~mark.pushed => seen' = (BaseRead \ mark.got) \cup SeenTold'
    BY <1>5, <2>2
  <2>5. Lined'
    BY <1>2, <1>4, <1>5, <2>3, <2>4 DEF Lined, Marking
  <2> QED BY <1>1, <1>5, <2>5 DEF FollowsList
<1>6. CASE open /\ Tells("ACTIVITY_SEEN", marked) /\ \E f : Sends(f, "ACTIVITY_SEEN", marked)
  <2> HIDE DEF marked
  <2>1. PICK f : Sends(f, "ACTIVITY_SEEN", marked)
    BY <1>6
  <2>2. CASE Renewed
    BY <1>1, <1>6, <2>1, <2>2, RenewedSent DEF FollowsList
  <2>3. CASE NoWhole(pipe) /\ Feed!Loaded(list) /\ Lost
    <3>1. NoWhole(pipe')
      BY <1>1, <1>6, <2>1, <2>3, LinedSent
    <3> QED BY <1>1, <1>4, <2>3, <3>1 DEF FollowsList
  <2>4. CASE NoWhole(pipe) /\ Feed!Loaded(list) /\ Lined
    <3>1. /\ NoWhole(pipe') /\ Orderly(pipe', 0, rows') /\ rows' = Base \cup ListTold'
          /\ SeenTold' = SeenTold \cup marked
      BY <1>1, <1>6, <2>1, <2>4, LinedSent
    <3>2. seen' = seen \cup marked
      BY <1>6 DEF Tells
    <3> QED BY <1>5, <1>6, <2>4, <3>1, <3>2
  <2> QED BY <1>6, <2>2, <2>3, <2>4 DEF FollowsList
<1>7. CASE open /\ marked = {} /\ UNCHANGED <<pipe, rows, seen>>
  <2> HIDE DEF marked
  <2>1. CASE Renewed
    BY <1>7, <2>1 DEF FollowsList, Renewed, RenewedAt
  <2>2. CASE NoWhole(pipe) /\ Feed!Loaded(list) /\ Lost
    BY <1>1, <1>4, <1>7, <2>2 DEF FollowsList
  <2>3. CASE NoWhole(pipe) /\ Feed!Loaded(list) /\ Lined
    <3>1. /\ NoWhole(pipe') /\ Orderly(pipe', 0, rows') /\ rows' = Base \cup ListTold'
          /\ SeenTold' = SeenTold \cup marked /\ seen' = seen \cup marked
      BY <1>7, <2>3 DEF Lined, ListTold, SeenTold
    <3> QED BY <1>5, <1>7, <2>3, <3>1
  <2> QED BY <1>7, <2>1, <2>2, <2>3 DEF FollowsList
<1>8. CASE ~open
  BY <1>1, <1>8 DEF FollowsList
<1> QED BY <1>3, <1>6, <1>7, <1>8

\* A closed socket shows nothing new.
LEMMA FollowsBroken ==
  ASSUME Feed!Cut \/ ServerRestart
  PROVE  FollowsList'
BY DEF Feed!Cut, ServerRestart, Feed!Broken, FollowsList

\* The steps of the page's requests alone.
OwnSteps == UNCHANGED <<rows, seen, open, pipe>>

LEMMA FollowsOwn ==
  ASSUME FollowsList, OwnSteps,
         Feed!Loaded(list) => Feed!Loaded(list') /\ (Lost => Lost'),
         Feed!Loaded(list) /\ NoWhole(pipe) /\ Lined => Lost' \/ Lined'
  PROVE  FollowsList'
<1>1. Renewed' = Renewed /\ NoWhole(pipe') = NoWhole(pipe) /\ open' = open
  BY DEF OwnSteps, Renewed, RenewedAt
<1> QED BY <1>1 DEF FollowsList

LEMMA LinedOwn ==
  ASSUME OwnSteps, Lined, Base' = Base, BaseRead' = BaseRead, Marking' = Marking,
         Marking => mark'.got = mark.got /\ mark'.pushed = mark.pushed
  PROVE  Lined'
BY DEF OwnSteps, Lined, ListTold, SeenTold

LEMMA FollowsRequests ==
  ASSUME FeedTypes, ListBasics, FollowsList,
         \/ Feed!AnswerList \/ Feed!AnswerUpdates \/ Feed!AskList \/ Feed!AskUpdates
         \/ Feed!TakeList \/ Feed!TakeUpdates \/ Feed!Refused
  PROVE  FollowsList'
<1>1. OwnSteps /\ undone' = undone
  BY DEF OwnSteps, Feed!AnswerList, Feed!AnswerUpdates, Feed!AskList, Feed!AskUpdates,
     Feed!TakeList, Feed!TakeUpdates, Feed!Refused, Feed!serverVars, Feed!socketVars
<1>2. Feed!Loaded(list) => UNCHANGED <<list, read>>
  BY DEF Feed!AnswerList, Feed!AnswerUpdates, Feed!AskList, Feed!AskUpdates,
     Feed!TakeList, Feed!TakeUpdates, Feed!Refused, Feed!cacheVars, ListBasics
<1>3. /\ clear' = clear \/ (clear' = Feed!Failed(clear) /\ clear.state = "asked")
      /\ mark' = mark \/ (mark' = Feed!Failed(mark) /\ mark.state = "asked")
  BY DEF Feed!AnswerList, Feed!AnswerUpdates, Feed!AskList, Feed!AskUpdates,
     Feed!TakeList, Feed!TakeUpdates, Feed!Refused, Feed!requestVars
<1>4. /\ TakenBack' = TakenBack /\ clear'.got = clear.got /\ clear'.seen = clear.seen
      /\ clear'.pushed = clear.pushed
  BY <1>3, RequestsTyped, FailedKept DEF TakenBack
<1>5. Marking' = Marking /\ mark'.got = mark.got /\ mark'.pushed = mark.pushed
  BY <1>3, RequestsTyped, FailedKept DEF Marking
<1>6. Lost' = Lost
  BY <1>1, <1>4 DEF Lost
<1>7. ASSUME Feed!Loaded(list), Lined PROVE Lined'
  <2>1. Base' = Base /\ BaseRead' = BaseRead
    BY <1>2, <1>4, <1>7 DEF Base, BaseRead
  <2> QED BY <1>1, <1>5, <1>7, <2>1, LinedOwn
<1> QED BY <1>1, <1>2, <1>6, <1>7, FollowsOwn

LEMMA FollowsMark ==
  ASSUME FeedTypes, ListBasics, FollowsList, NEW e \in Feed!Events, Feed!Mark(e)
  PROVE  FollowsList'
<1>1. /\ OwnSteps /\ UNCHANGED <<undone, list, clear>> /\ mark.state = "none"
      /\ e \in list \ read /\ read' = read \cup {e} /\ mark' = [Feed!Asked EXCEPT !.got = {e}]
  BY DEF OwnSteps, Feed!Mark, Feed!serverVars, Feed!socketVars
<1>2. mark'.state = "asked" /\ mark'.got = {e} /\ mark'.pushed = FALSE
  BY <1>1 DEF Feed!Asked, Feed!NoRequest
<1>3. Lost' = Lost /\ TakenBack' = TakenBack
  BY <1>1 DEF Lost, TakenBack
<1>4. TakenBack => Lost
  BY <1>1 DEF Lost, TakenBack, ListBasics
<1>5. ASSUME Lined, ~TakenBack PROVE Lined'
  <2>1. Base' = list /\ BaseRead' = read \cup {e} /\ Base = list /\ BaseRead = read
    BY <1>1, <1>3, <1>5 DEF Base, BaseRead
  <2>2. rows = list \cup ListTold /\ seen = read \cup SeenTold /\ Orderly(pipe, 0, rows)
    BY <1>1, <1>5, <2>1 DEF Lined, Marking
  <2>3. /\ rows' = Base' \cup ListTold' /\ Orderly(pipe', 0, rows')
        /\ SeenTold' = SeenTold /\ seen' = seen
    BY <1>1, <2>1, <2>2 DEF OwnSteps, ListTold, SeenTold
  <2>4. /\ seen' \subseteq BaseRead' \cup SeenTold'
        /\ BaseRead' \cup SeenTold' \subseteq seen' \cup {e}
        /\ seen' = (BaseRead' \ {e}) \cup SeenTold'
    BY <1>1, <2>1, <2>2, <2>3
  <2> QED BY <1>2, <2>3, <2>4 DEF Lined, Marking
<1> QED BY <1>1, <1>3, <1>4, <1>5, FollowsOwn

LEMMA FollowsMarkEnds ==
  ASSUME FeedTypes, FollowsList, Feed!MarkEnds
  PROVE  FollowsList'
<1>1. OwnSteps /\ list' = list /\ mark' = Feed!NoRequest
  BY DEF OwnSteps, Feed!MarkEnds, Feed!serverVars, Feed!socketVars
<1>2. ~Marking'
  BY <1>1, FreshRequests DEF Marking
<1>3. CASE mark.state = "answered"
  <2>1. UNCHANGED <<read, undone, clear>>
    BY <1>3 DEF Feed!MarkEnds
  <2>2. Base' = Base /\ BaseRead' = BaseRead /\ Lost' = Lost /\ ~Marking
        /\ Marking' = Marking
    BY <1>1, <1>2, <1>3, <2>1, FreshRequests DEF Base, BaseRead, Lost, TakenBack, Marking
  <2>3. Lined => Lined'
    BY <1>1, <1>2, <2>2, LinedOwn
  <2> QED BY <1>1, <2>2, <2>3, FollowsOwn
<1>4. CASE mark.state = "failed"
  <2>1. /\ read' = read \ mark.got /\ undone' = (undone \/ mark.pushed)
        /\ clear' = Feed!Pushed(clear)
    BY <1>4 DEF Feed!MarkEnds
  <2>2. clear'.state = clear.state /\ (clear.state # "none" => clear'.pushed)
    BY <2>1, RequestsTyped, PushedKept
  <2>3. (Lost => Lost') /\ (TakenBack => Lost') /\ (mark.pushed => Lost')
    BY <2>1, <2>2 DEF Lost, TakenBack
  <2>4. ASSUME Lined, ~TakenBack, ~mark.pushed PROVE Lined'
    <3>1. Base' = list /\ BaseRead' = read' /\ Base = list /\ BaseRead = read
      BY <1>1, <2>2, <2>4 DEF Base, BaseRead, TakenBack
    <3>2. SeenTold' = SeenTold /\ ListTold' = ListTold /\ rows' = rows /\ seen' = seen /\ pipe' = pipe
      BY <1>1 DEF OwnSteps, SeenTold, ListTold
    <3>3. rows = list \cup ListTold /\ seen = (read \ mark.got) \cup SeenTold /\ Orderly(pipe, 0, rows)
      BY <1>4, <2>4, <3>1 DEF Lined, Marking
    <3> QED BY <1>2, <2>1, <3>1, <3>2, <3>3 DEF Lined
  <2> QED BY <1>1, <2>3, <2>4, FollowsOwn
<1> QED BY <1>3, <1>4 DEF Feed!MarkEnds

LEMMA FollowsClear ==
  ASSUME FeedTypes, FollowsList, Feed!Clear
  PROVE  FollowsList'
<1>1. /\ OwnSteps /\ UNCHANGED <<undone, mark>> /\ clear.state = "none" /\ list' = {}
      /\ clear' = [Feed!Asked EXCEPT !.got = list, !.seen = read]
  BY DEF OwnSteps, Feed!Clear, Feed!serverVars, Feed!socketVars
<1>2. clear'.state = "asked" /\ clear'.got = list /\ clear'.seen = read
  BY <1>1 DEF Feed!Asked, Feed!NoRequest
<1>3. Base' = Base /\ BaseRead' = BaseRead /\ (Lost => Lost') /\ Marking' = Marking
  BY <1>1, <1>2 DEF Base, BaseRead, TakenBack, Lost, Marking
<1> QED BY <1>1, <1>3, EmptyLoaded, FollowsOwn, LinedOwn

LEMMA FollowsClearEnds ==
  ASSUME FeedTypes, FollowsList, Feed!ClearEnds
  PROVE  FollowsList'
<1>1. OwnSteps /\ mark' = mark /\ clear' = Feed!NoRequest
  BY DEF OwnSteps, Feed!ClearEnds, Feed!serverVars, Feed!socketVars
<1>2. ~TakenBack' /\ Marking' = Marking
  BY <1>1, FreshRequests DEF TakenBack, Marking
<1>3. CASE clear.state = "failed"
  <2>1. list' = clear.got /\ read' = clear.seen /\ undone' = (undone \/ clear.pushed) /\ TakenBack
    BY <1>3 DEF Feed!ClearEnds, TakenBack
  <2>2. Feed!Loaded(list')
    BY <2>1, RequestsTyped, Numbers
  <2>3. Base' = Base /\ BaseRead' = BaseRead /\ (Lost => Lost')
    BY <1>2, <2>1 DEF Base, BaseRead, Lost
  <2> QED BY <1>1, <1>2, <2>2, <2>3, FollowsOwn, LinedOwn
<1>4. CASE clear.state = "answered"
  <2>1. UNCHANGED <<list, read, undone>> /\ ~TakenBack
    BY <1>4 DEF Feed!ClearEnds, TakenBack
  <2>2. Base' = Base /\ BaseRead' = BaseRead /\ (Lost => Lost')
    BY <1>2, <2>1 DEF Base, BaseRead, Lost
  <2> QED BY <1>1, <1>2, <2>1, <2>2, FollowsOwn, LinedOwn
<1> QED BY <1>3, <1>4 DEF Feed!ClearEnds

LEMMA PipeHead ==
  ASSUME FeedTypes, Feed!OnMessage
  PROVE  /\ pipe \in Seq(Feed!Frame) /\ pipe # <<>> /\ pipe' = Tail(pipe)
         /\ Head(pipe) = pipe[1] /\ 1 \in 1 .. Len(pipe) /\ Len(pipe') = Len(pipe) - 1
         /\ Len(pipe) \in Nat
         /\ \A i \in 1 .. Len(pipe') : pipe'[i] = pipe[i + 1]
         /\ UNCHANGED <<rows, seen, open>>
<1>1. /\ pipe \in Seq(Feed!Frame) /\ pipe # <<>> /\ pipe' = Tail(pipe)
      /\ UNCHANGED <<rows, seen, open>>
  BY DEF FeedTypes, Feed!TypeOK, Feed!OnMessage, Feed!serverVars
<1> QED BY <1>1

LEMMA RenewedLater ==
  ASSUME FeedTypes, Feed!OnMessage, NEW k \in 2 .. Len(pipe), RenewedAt(k)
  PROVE  Renewed'
<1>1. /\ pipe \in Seq(Feed!Frame) /\ pipe # <<>> /\ pipe' = Tail(pipe)
      /\ Len(pipe') = Len(pipe) - 1 /\ Len(pipe) \in Nat
      /\ \A i \in 1 .. Len(pipe') : pipe'[i] = pipe[i + 1]
      /\ UNCHANGED <<rows, seen>>
  BY PipeHead
<1>2. k - 1 \in 1 .. Len(pipe') /\ k - 1 \in 0 .. Len(pipe) - 1 /\ k \in {k - 1, (k - 1) + 1}
      /\ k \in 1 .. Len(pipe) /\ pipe'[k - 1] = pipe[k]
  BY <1>1
<1>3. LastWhole(pipe', k - 1)
  <2>1. ASSUME NEW i \in (k - 1) + 1 .. Len(pipe') PROVE pipe'[i].type # "ACTIVITY_UPDATE"
    <3>1. i + 1 \in k + 1 .. Len(pipe) /\ i \in 1 .. Len(pipe')
      BY <1>1
    <3> QED BY <1>1, <3>1 DEF RenewedAt, LastWhole
  <2> QED BY <1>2, <2>1 DEF RenewedAt, LastWhole
<1>4. Orderly(pipe', k - 1, rows')
  <2>1. Orderly(Tail(pipe), k - 1, rows)
    BY <1>1, <1>2, OrderlyTail DEF RenewedAt
  <2> QED BY <1>1, <2>1
<1>5. \A t : Carried(pipe', k - 1, t) = Carried(pipe, k, t)
  <2>1. \A t : Carried(Tail(pipe), k - 1, t) = Carried(pipe, k, t)
    BY <1>1, <1>2, CarriedTail
  <2> QED BY <1>1, <2>1
<1>6. /\ rows' = pipe'[k - 1].ids \cup Carried(pipe', k - 1, "ACTIVITY_APPENDED")
      /\ seen' = pipe'[k - 1].seen \cup Carried(pipe', k - 1, "ACTIVITY_SEEN")
  BY <1>1, <1>2, <1>5 DEF RenewedAt
<1> QED BY <1>2, <1>3, <1>4, <1>6 DEF Renewed, RenewedAt

\* A write to the list leaves a clear under way nothing to take back unnoticed.
LEMMA WriteLost ==
  ASSUME FeedTypes, NEW ids, NEW shown, Feed!WriteList(ids, shown)
  PROVE  /\ list' = ids /\ read' = shown /\ TakenBack' = TakenBack
         /\ TakenBack => Lost'
         /\ ~TakenBack => Base' = ids /\ BaseRead' = shown
<1>1. list' = ids /\ read' = shown /\ clear' = Feed!Pushed(clear)
  BY DEF Feed!WriteList
<1>2. clear'.state = clear.state /\ clear'.pushed = (clear.state # "none")
  BY <1>1, RequestsTyped, PushedKept
<1> QED BY <1>1, <1>2 DEF TakenBack, Lost, Base, BaseRead

LEMMA Confirmed ==
  ASSUME FeedTypes, NEW shown, Feed!Confirms(shown)
  PROVE  /\ Marking' = Marking /\ mark'.got = mark.got
         /\ Marking /\ ~mark'.pushed => ~mark.pushed /\ mark.got \cap shown = {}
<1>1. CASE mark.got \cap shown # {}
  <2>1. mark' = Feed!Pushed(mark)
    BY <1>1 DEF Feed!Confirms
  <2>2. mark'.state = mark.state /\ mark'.got = mark.got /\ mark'.pushed = (mark.state # "none")
    BY <2>1, RequestsTyped, PushedKept
  <2> QED BY <2>2 DEF Marking
<1>2. CASE mark.got \cap shown = {}
  BY <1>2 DEF Feed!Confirms, Marking
<1> QED BY <1>1, <1>2

LEMMA WholeListHandled ==
  ASSUME FeedTypes, Feed!OnMessage, Feed!WholeList(Head(pipe)), RenewedAt(1),
         Feed!Loaded(Head(pipe).ids)
  PROVE  NoWhole(pipe') /\ Feed!Loaded(list') /\ (Lost' \/ Lined')
<1> DEFINE f == Head(pipe)
<1>1. /\ pipe \in Seq(Feed!Frame) /\ pipe # <<>> /\ pipe' = Tail(pipe)
      /\ Len(pipe') = Len(pipe) - 1 /\ Len(pipe) \in Nat /\ f = pipe[1]
      /\ \A i \in 1 .. Len(pipe') : pipe'[i] = pipe[i + 1]
      /\ 1 \in 1 .. Len(pipe) /\ 0 \in 0 .. Len(pipe) - 1 /\ 1 \in {0, 0 + 1}
      /\ UNCHANGED <<rows, seen>>
  BY PipeHead
<1>2. Feed!WriteList(f.ids, f.seen) /\ Feed!Confirms(f.seen) /\ Feed!Loaded(f.ids)
  BY DEF Feed!WholeList
<1> HIDE DEF f
<1>3. NoWhole(pipe')
  <2>1. ASSUME NEW i \in 1 .. Len(pipe') PROVE pipe'[i].type # "ACTIVITY_UPDATE"
    <3>1. i + 1 \in 1 + 1 .. Len(pipe)
      BY <1>1
    <3> QED BY <1>1, <3>1 DEF RenewedAt, LastWhole
  <2> QED BY <2>1 DEF NoWhole
<1>4. Orderly(pipe', 0, rows')
  <2>1. Orderly(Tail(pipe), 0, rows)
    BY <1>1, OrderlyTail DEF RenewedAt
  <2> QED BY <1>1, <2>1
<1>5. \A t : Carried(pipe', 0, t) = Carried(pipe, 1, t)
  <2>1. \A t : Carried(Tail(pipe), 1 - 1, t) = Carried(pipe, 1, t)
    BY <1>1, CarriedTail
  <2> QED BY <1>1, <2>1
<1>6. rows' = f.ids \cup ListTold' /\ seen' = f.seen \cup SeenTold'
  BY <1>1, <1>5 DEF RenewedAt, ListTold, SeenTold
<1>7. /\ list' = f.ids /\ TakenBack' = TakenBack
      /\ TakenBack => Lost'
      /\ ~TakenBack => Base' = f.ids /\ BaseRead' = f.seen
  BY <1>2, WriteLost
<1>8. ASSUME ~TakenBack PROVE Lined'
  <2>1. /\ Marking' = Marking /\ mark'.got = mark.got
        /\ Marking /\ ~mark'.pushed => mark.got \cap f.seen = {}
    BY <1>2, Confirmed
  <2>2. Base' = f.ids /\ BaseRead' = f.seen
    BY <1>7, <1>8
  <2>3. Marking' /\ ~mark'.pushed => seen' = (BaseRead' \ mark'.got) \cup SeenTold'
    BY <1>6, <2>1, <2>2
  <2> QED BY <1>4, <1>6, <2>2, <2>3 DEF Lined
<1> QED BY <1>2, <1>3, <1>7, <1>8

\* What the first frame told leaves the rest to tell.
LEMMA HeadHandled ==
  ASSUME FeedTypes, Feed!OnMessage, NoWhole(pipe)
  PROVE  LET f == Head(pipe)
         IN /\ NoWhole(pipe')
            /\ f.type # "ACTIVITY_UPDATE"
            /\ ListTold = ListTold' \cup (IF f.type = "ACTIVITY_APPENDED" THEN f.ids ELSE {})
            /\ SeenTold = SeenTold' \cup (IF f.type = "ACTIVITY_SEEN" THEN f.ids ELSE {})
            /\ Lined => /\ Orderly(pipe', 0, rows)
                        /\ f.type = "ACTIVITY_SEEN" => f.ids \subseteq Base
<1> DEFINE f == Head(pipe)
<1>1. /\ pipe \in Seq(Feed!Frame) /\ pipe # <<>> /\ pipe' = Tail(pipe)
      /\ Len(pipe') = Len(pipe) - 1 /\ Len(pipe) \in Nat /\ f = pipe[1]
      /\ \A i \in 1 .. Len(pipe') : pipe'[i] = pipe[i + 1]
      /\ 1 \in 1 .. Len(pipe) /\ 0 \in 0 .. Len(pipe) - 1 /\ 0 \in {0, 0 + 1}
      /\ \A i \in 1 .. Len(pipe') : i + 1 \in 1 + 1 .. Len(pipe)
      /\ \A i \in 2 .. Len(pipe) : i \in 1 + 1 .. Len(pipe)
  BY PipeHead
<1>2. /\ ListTold = ListTold' \cup (IF f.type = "ACTIVITY_APPENDED" THEN f.ids ELSE {})
      /\ SeenTold = SeenTold' \cup (IF f.type = "ACTIVITY_SEEN" THEN f.ids ELSE {})
  BY HeadCarried DEF ListTold, SeenTold
<1> HIDE DEF f
<1>3. NoWhole(pipe') /\ f.type # "ACTIVITY_UPDATE"
  BY <1>1 DEF NoWhole
<1>4. ASSUME Lined
      PROVE  Orderly(pipe', 0, rows) /\ (f.type = "ACTIVITY_SEEN" => f.ids \subseteq Base)
  <2>1. Orderly(Tail(pipe), 0, rows)
    BY <1>1, <1>4, OrderlyTail DEF Lined
  <2>2. ASSUME f.type = "ACTIVITY_SEEN", NEW e \in f.ids PROVE e \in Base
    <3>1. e \in rows /\ \A j \in 1 + 1 .. Len(pipe) : pipe[j].type = "ACTIVITY_APPENDED" => e \notin pipe[j].ids
      <4>1. 1 \in 0 + 1 .. Len(pipe)
        BY <1>1
      <4> QED BY <1>1, <1>4, <2>2, <4>1 DEF Lined, Orderly
    <3>2. e \notin ListTold
      <4>1. ASSUME e \in ListTold PROVE FALSE
        <5>1. PICK i \in 0 + 1 .. Len(pipe) : pipe[i].type = "ACTIVITY_APPENDED" /\ e \in pipe[i].ids
          BY <4>1, InCarried DEF ListTold
        <5>2. i = 1 \/ i \in 1 + 1 .. Len(pipe)
          BY <1>1
        <5> QED BY <1>1, <2>2, <3>1, <5>1, <5>2
      <4> QED BY <4>1
    <3> QED BY <1>4, <3>1, <3>2 DEF Lined
  <2> QED BY <1>1, <2>1, <2>2
<1> QED BY <1>2, <1>3, <1>4 DEF f

LEMMA FrameHandled ==
  ASSUME FeedTypes, Feed!OnMessage, NoWhole(pipe), Feed!Loaded(list), Feed!Loaded(list'),
         Lost \/ Lined
  PROVE  Lost' \/ Lined'
<1> DEFINE f == Head(pipe)
<1>1. /\ f \in Feed!Frame /\ Feed!Handle(f) /\ UNCHANGED <<rows, seen>>
  BY PipeHandled, PipeHead DEF Feed!OnMessage
<1>2. /\ f.type # "ACTIVITY_UPDATE"
      /\ ListTold = ListTold' \cup (IF f.type = "ACTIVITY_APPENDED" THEN f.ids ELSE {})
      /\ SeenTold = SeenTold' \cup (IF f.type = "ACTIVITY_SEEN" THEN f.ids ELSE {})
      /\ Lined => /\ Orderly(pipe', 0, rows)
                  /\ f.type = "ACTIVITY_SEEN" => f.ids \subseteq Base
  BY HeadHandled
<1> HIDE DEF f
<1>3. CASE \/ f.type = "open" /\ Feed!Opened
           \/ f.type = "UPDATES_APPENDED" /\ Feed!UpdatesAppended(f)
  <2>1. UNCHANGED <<list, read, mark, clear, undone>>
    BY <1>3 DEF Feed!Opened, Feed!UpdatesAppended, Feed!cacheVars
  <2>2. ListTold' = ListTold /\ SeenTold' = SeenTold
    BY <1>2, <1>3
  <2>3. Base' = Base /\ BaseRead' = BaseRead /\ Lost' = Lost /\ Marking' = Marking
    BY <2>1 DEF Base, BaseRead, Lost, TakenBack, Marking
  <2>4. Lined => Lined'
    BY <1>1, <1>2, <2>1, <2>2, <2>3 DEF Lined
  <2>5. Lost => Lost'
    BY <2>3
  <2> QED BY <2>4, <2>5
<1>4. CASE f.type = "ACTIVITY_APPENDED" /\ Feed!Appended(f)
  <2>1. Feed!WriteList(list \cup f.ids, read) /\ UNCHANGED <<mark, undone>>
    BY <1>4 DEF Feed!Appended
  <2>2. /\ TakenBack' = TakenBack
        /\ TakenBack => Lost'
        /\ ~TakenBack => Base' = list \cup f.ids /\ BaseRead' = read
    BY <2>1, WriteLost
  <2>3. ListTold = ListTold' \cup f.ids /\ SeenTold' = SeenTold
    BY <1>2, <1>4
  <2>4. ASSUME Lined, ~TakenBack PROVE Lined'
    <3>1. Base = list /\ BaseRead = read /\ Marking' = Marking
      BY <2>1, <2>4 DEF Base, BaseRead, Marking
    <3> QED BY <1>1, <1>2, <2>1, <2>2, <2>3, <2>4, <3>1 DEF Lined
  <2>5. undone => Lost'
    BY <2>1 DEF Lost
  <2> QED BY <2>2, <2>4, <2>5 DEF Lost
<1>5. CASE f.type = "ACTIVITY_SEEN" /\ Feed!Seen(f)
  <2>1. /\ Feed!WriteList(list, read \cup (f.ids \cap list)) /\ undone' = undone
        /\ Feed!Confirms(f.ids)
    BY <1>5 DEF Feed!Seen
  <2>2. /\ TakenBack' = TakenBack
        /\ TakenBack => Lost'
        /\ ~TakenBack => Base' = list /\ BaseRead' = read \cup (f.ids \cap list)
    BY <2>1, WriteLost
  <2>3. ListTold' = ListTold /\ SeenTold = SeenTold' \cup f.ids
    BY <1>2, <1>5
  <2>4. ASSUME Lined, ~TakenBack PROVE Lined'
    <3>1. Base = list /\ BaseRead = read
      BY <2>4 DEF Base, BaseRead
    <3>2. Base' = Base /\ BaseRead' = BaseRead \cup f.ids
      BY <1>2, <1>5, <2>2, <2>4, <3>1
    <3>3. BaseRead' \cup SeenTold' = BaseRead \cup SeenTold
      BY <2>3, <3>2
    <3>4. /\ Marking' = Marking /\ mark'.got = mark.got
          /\ Marking /\ ~mark'.pushed => ~mark.pushed /\ mark.got \cap f.ids = {}
      BY <2>1, Confirmed
    <3>5. Marking /\ ~mark'.pushed => seen = (BaseRead' \ mark.got) \cup SeenTold'
      BY <2>3, <2>4, <3>2, <3>4 DEF Lined
    <3>6. /\ Orderly(pipe', 0, rows') /\ rows' = Base' \cup ListTold'
      BY <1>1, <1>2, <2>3, <2>4, <3>2 DEF Lined
    <3> QED BY <1>1, <2>4, <3>3, <3>4, <3>5, <3>6 DEF Lined
  <2>5. undone => Lost'
    BY <2>1 DEF Lost
  <2> QED BY <2>2, <2>4, <2>5 DEF Lost
<1> QED BY <1>1, <1>2, <1>3, <1>4, <1>5, HandledByKind

LEMMA FollowsMessage ==
  ASSUME FeedTypes, ListBasics, FollowsList, SocketBegins, Feed!OnMessage
  PROVE  FollowsList'
<1> DEFINE f == Head(pipe)
<1>1. /\ f \in Feed!Frame /\ About(f) /\ f = pipe[1] /\ Feed!Handle(f) /\ open' = open
  BY PipeHandled, PipeHead DEF Feed!OnMessage
<1>2. open /\ Len(pipe) \in Nat
  BY PipeHead DEF SocketBegins
<1>3. CASE \E k \in 2 .. Len(pipe) : RenewedAt(k)
  BY <1>3, RenewedLater DEF FollowsList
<1>4. CASE RenewedAt(1)
  <2>1. f.type = "ACTIVITY_UPDATE"
    BY <1>1, <1>4 DEF RenewedAt, LastWhole
  <2> HIDE DEF f
  <2>2. Feed!WholeList(f)
    BY <1>1, <2>1, HandledByKind
  <2>3. Feed!Loaded(f.ids)
    BY <1>1, <2>1, Numbers DEF About
  <2>4. Feed!WholeList(Head(pipe)) /\ Feed!Loaded(Head(pipe).ids)
    BY <2>2, <2>3 DEF f
  <2> QED BY <1>4, <2>4, WholeListHandled DEF FollowsList
<1>5. CASE NoWhole(pipe) /\ Feed!Loaded(list) /\ (Lost \/ Lined)
  <2>1. NoWhole(pipe') /\ f.type # "ACTIVITY_UPDATE"
    BY <1>5, HeadHandled
  <2> HIDE DEF f
  <2>2. Feed!Loaded(list')
    <3>1. \/ list' = list
          \/ f.type = "ACTIVITY_APPENDED" /\ list' = list \cup f.ids
      BY <1>1, <2>1, HandledByKind DEF Feed!Opened, Feed!Appended, Feed!Seen, Feed!UpdatesAppended,
         Feed!WriteList, Feed!cacheVars
    <3>2. CASE f.type = "ACTIVITY_APPENDED" /\ list' = list \cup f.ids
      <4>1. list \subseteq Feed!Events
        BY <1>5, ListLoaded, RequestsTyped
      <4>2. list \cup f.ids \in SUBSET Feed!Events
        BY <1>1, <3>2, <4>1 DEF About
      <4> QED BY <3>2, <4>2, Numbers
    <3> QED BY <1>5, <3>1, <3>2
  <2> QED BY <1>5, <2>1, <2>2, FrameHandled DEF FollowsList
<1>6. \A k \in 1 .. Len(pipe) : k = 1 \/ k \in 2 .. Len(pipe)
  BY <1>2
<1> QED BY <1>2, <1>3, <1>4, <1>5, <1>6 DEF FollowsList, Renewed

LEMMA FollowsListStep ==
  ASSUME FeedTypes, WholeFrames, ListBasics, SocketBegins, FollowsList, FeedNext
  PROVE  FollowsList'
<1>1. CASE Feed!ClearedElsewhere \/ Feed!AnswerClear
  BY <1>1, FollowsDeleteAll DEF Feed!ClearedElsewhere, Feed!AnswerClear
<1> QED BY <1>1, FollowsInserts, FollowsMarkedElsewhere, FollowsAccept, FollowsAnswerMark,
           FollowsBroken, FollowsRequests, FollowsMark, FollowsMarkEnds, FollowsClear,
           FollowsClearEnds, FollowsMessage
        DEF FeedNext, Feed!Page, Feed!Server

LEMMA ListShown ==
  ASSUME FeedTypes, FollowsList
  PROVE  Feed!ShowsTheList
<1> SUFFICES ASSUME Feed!Quiet, ~undone
             PROVE  list = rows /\ read = seen
  BY DEF Feed!ShowsTheList
<1>1. open /\ pipe = <<>> /\ clear.state = "none" /\ mark.state = "none"
  BY FreshRequests DEF Feed!Quiet
<1>2. ~Renewed /\ ~Lost /\ Base = list /\ BaseRead = read /\ ~Marking
  BY <1>1 DEF Renewed, Lost, TakenBack, Base, BaseRead, Marking
<1>3. ListTold = {} /\ SeenTold = {}
  BY <1>1, NothingCarried DEF ListTold, SeenTold
<1> QED BY <1>1, <1>2, <1>3 DEF FollowsList, Lined

Follows == FeedTypes /\ WholeFrames /\ ListBasics /\ SocketBegins /\ FollowsList /\ FollowsHistory

LEMMA FollowsInit == AnnounceInit => Follows
<1> SUFFICES ASSUME AnnounceInit PROVE Follows
  OBVIOUS
<1>1. /\ rows = {} /\ open = FALSE /\ pipe = <<>> /\ list = Feed!NoList /\ read = {}
      /\ updates = Feed!NoList /\ get = Feed!NoRequest /\ clear = Feed!NoRequest
      /\ getUpdates = Feed!NoRequest
  BY DEF AnnounceInit, Feed!Init
<1>2. UpdatesTold = {}
  BY <1>1, NothingCarried DEF UpdatesTold
<1>3. ~Feed!Loaded(updates) /\ ~Feed!Loaded(list)
  BY <1>1 DEF Feed!Loaded
<1>4. FollowsHistory
  BY <1>1, <1>2, <1>3, FreshRequests DEF FollowsHistory
<1>5. ListBasics
  BY <1>1, FreshRequests DEF ListBasics
<1>6. WholeFrames /\ SocketBegins /\ FollowsList
  BY <1>1 DEF WholeFrames, SocketBegins, FollowsList
<1> QED BY <1>4, <1>5, <1>6, TypedInit DEF Follows

LEMMA FollowsUnchanged ==
  ASSUME Follows, UNCHANGED feed
  PROVE  Follows'
<1>1. FeedTypes'
  BY TypedUnchanged DEF Follows
<1>2. UNCHANGED <<count, rows, seen, history, open, pipe, hasConnected, list, read, updates,
                  get, getUpdates, mark, clear, undone, behind>>
  BY DEF feed
<1>3. WholeFrames' /\ ListBasics' /\ SocketBegins'
  BY <1>2 DEF Follows, WholeFrames, ListBasics, SocketBegins
<1>4. FollowsHistory'
  BY <1>2 DEF Follows, FollowsHistory, UpdatesTold, Followed
<1>5. FollowsList'
  BY <1>2 DEF Follows, FollowsList, Renewed, RenewedAt, Lost, Lined, TakenBack, Marking,
     Base, BaseRead, ListTold, SeenTold
<1> QED BY <1>1, <1>3, <1>4, <1>5 DEF Follows

LEMMA FollowsStep ==
  ASSUME Follows, FeedNext
  PROVE  Follows'
BY TypedStep, WholeFramesStep, ListBasicsStep, FollowsListStep, HistoryStep DEF Follows

\* A quiet page shows what is stored.
THEOREM ShownAsStored == AnnounceSpec => []ShowsWhatIsStored
<1>1. Follows /\ [AnnounceNext]_announceVars => Follows'
  BY FollowsStep, FollowsUnchanged, FeedSteps
<1>2. Follows => ShowsWhatIsStored
  BY ListShown, HistoryShown DEF Follows, ShowsWhatIsStored
<1> QED BY <1>1, <1>2, FollowsInit, PTL DEF AnnounceSpec

-----------------------------------------------------------------------------
(* The webhook's queue (WebhookQueue).                                     *)

\* The deliveries of one chain, in their order: none before `low' or after `high'.
InLine(s, low, high) ==
  /\ s \in Seq(Nat)
  /\ \A i \in 1 .. Len(s) : s[i] \in low .. high
  /\ \A i, j \in 1 .. Len(s) : j < i => s[j] < s[i]

\* The chain the map holds is the one with deliveries, of events from the last
\* that was tried to the last there is.
Queued ==
  /\ count \in Nat /\ last \in Nat /\ last <= count /\ queue \in {Hooks!None} \cup Hooks!Chains
  /\ chains \in [Hooks!Chains -> Seq(Nat)]
  /\ \A c \in Hooks!Chains : InLine(chains[c], last, count) /\ (chains[c] # <<>> <=> c = queue)

LEMMA CountKept ==
  ASSUME Feed!Page \/ Feed!Server
  PROVE  count' = count
BY DEF Feed!Page, Feed!Server, Feed!Accept, Feed!Cut, Feed!InsertUpdate, Feed!MarkedElsewhere,
   Feed!ClearedElsewhere, Feed!AnswerList, Feed!AnswerUpdates, Feed!AnswerMark, Feed!AnswerClear,
   Feed!Refused, Feed!AskList, Feed!AskUpdates, Feed!TakeList, Feed!TakeUpdates, Feed!Mark,
   Feed!MarkEnds, Feed!Clear, Feed!ClearEnds, Feed!OnMessage, Feed!MarkSeen, Feed!DeleteAll,
   Feed!serverVars

\* As many of the new events as there is room for, behind the others.
LEMMA InLineTaken ==
  ASSUME NEW low \in Nat, NEW high \in Nat, low <= high, NEW s, InLine(s, low, high),
         NEW m \in Nat, NEW n \in Int, n <= m
  PROVE  LET taken == SubSeq([i \in 1 .. m |-> high + i], 1, n)
         IN /\ InLine(s \o taken, low, high + m)
            /\ s # <<>> \/ n > 0 => s \o taken # <<>>
<1> DEFINE events == [i \in 1 .. m |-> high + i]
           taken == SubSeq(events, 1, n)
           t == s \o taken
<1>1. s \in Seq(Nat) /\ Len(s) \in Nat
  BY DEF InLine
<1>2. events \in Seq(Nat) /\ Len(events) = m /\ \A i \in 1 .. m : events[i] = high + i
  OBVIOUS
<1> HIDE DEF events
<1>3. /\ taken \in Seq(Nat) /\ Len(taken) = IF 1 <= n THEN n ELSE 0
      /\ \A i \in 1 .. Len(taken) : taken[i] = high + i
  BY <1>2
<1>4. Len(taken) \in Nat /\ Len(taken) <= m
  BY <1>3
<1> HIDE DEF taken
<1>0. /\ t \in Seq(Nat) /\ Len(t) = Len(s) + Len(taken)
      /\ \A i \in 1 .. Len(s) + Len(taken) : t[i] = IF i <= Len(s) THEN s[i] ELSE taken[i - Len(s)]
  <2>1. s \in Seq(Nat) /\ taken \in Seq(Nat)
    BY <1>1, <1>3
  <2> QED BY <2>1, ConcatProperties
<1> HIDE DEF t
<1>5. /\ t \in Seq(Nat) /\ Len(t) = Len(s) + Len(taken)
      /\ \A i \in 1 .. Len(s) : t[i] = s[i]
      /\ \A i \in Len(s) + 1 .. Len(t) : t[i] = taken[i - Len(s)] /\ i - Len(s) \in 1 .. Len(taken)
  BY <1>0, <1>1, <1>4
<1>6. ASSUME NEW i \in 1 .. Len(t), i \in 1 .. Len(s)
      PROVE  t[i] = s[i] /\ t[i] \in low .. high
  BY <1>5, <1>6 DEF InLine
<1>7. ASSUME NEW i \in 1 .. Len(t), i \notin 1 .. Len(s)
      PROVE  t[i] = high + (i - Len(s)) /\ i - Len(s) \in 1 .. m
  <2>1. i \in Len(s) + 1 .. Len(t)
    BY <1>1, <1>4, <1>5, <1>7
  <2>2. t[i] = taken[i - Len(s)] /\ i - Len(s) \in 1 .. Len(taken)
    BY <1>5, <2>1
  <2> QED BY <1>3, <1>4, <2>2
<1>8. ASSUME NEW i \in 1 .. Len(t) PROVE t[i] \in low .. high + m
  BY <1>6, <1>7
<1>9. ASSUME NEW i \in 1 .. Len(t), NEW j \in 1 .. Len(t), j < i PROVE t[j] < t[i]
  <2>1. CASE i \in 1 .. Len(s)
    <3>1. j \in 1 .. Len(s)
      BY <1>1, <1>9, <2>1
    <3>2. t[i] = s[i] /\ t[j] = s[j]
      BY <1>6, <2>1, <3>1
    <3> QED BY <1>9, <2>1, <3>1, <3>2 DEF InLine
  <2>2. CASE i \notin 1 .. Len(s) /\ j \in 1 .. Len(s)
    BY <1>6, <1>7, <2>2
  <2>3. CASE i \notin 1 .. Len(s) /\ j \notin 1 .. Len(s)
    BY <1>1, <1>7, <1>9, <2>3
  <2> QED BY <2>1, <2>2, <2>3
<1>10. s # <<>> \/ n > 0 => t # <<>>
  BY <1>1, <1>3, <1>5
<1>11. InLine(t, low, high + m)
  BY <1>5, <1>8, <1>9 DEF InLine
<1> QED BY <1>10, <1>11 DEF t, taken, events

LEMMA InLineTail ==
  ASSUME NEW low \in Nat, NEW high \in Nat, NEW s, InLine(s, low, high), s # <<>>
  PROVE  /\ InLine(Tail(s), Head(s), high) /\ Head(s) \in low .. high
         /\ InLine(s, Head(s), high)
         /\ Tail(s) = <<>> <=> Len(s) = 1
<1>1. /\ s \in Seq(Nat) /\ \A i \in 1 .. Len(s) : s[i] \in low .. high
      /\ \A i, j \in 1 .. Len(s) : j < i => s[j] < s[i]
  BY DEF InLine
<1>2. /\ Head(s) = s[1] /\ 1 \in 1 .. Len(s) /\ Tail(s) \in Seq(Nat) /\ Len(Tail(s)) = Len(s) - 1
      /\ Len(s) \in Nat
      /\ \A i \in 1 .. Len(Tail(s)) : Tail(s)[i] = s[i + 1] /\ i + 1 \in 1 .. Len(s)
  BY <1>1
<1>3. \A i \in 1 .. Len(s) : s[i] \in s[1] .. high
  <2>1. ASSUME NEW i \in 1 .. Len(s) PROVE s[i] \in s[1] .. high
    <3>1. CASE i = 1
      BY <1>1, <1>2, <3>1
    <3>2. CASE i # 1
      <4>1. s[1] < s[i]
        BY <1>1, <1>2, <3>2
      <4> QED BY <1>1, <1>2, <4>1
    <3> QED BY <3>1, <3>2
  <2> QED BY <2>1
<1> DEFINE t == Tail(s)
<1>4. t \in Seq(Nat) /\ \A i \in 1 .. Len(t) : t[i] = s[i + 1] /\ i + 1 \in 1 .. Len(s)
  BY <1>2
<1> HIDE DEF t
<1>5. \A i \in 1 .. Len(t) : t[i] \in s[1] .. high
  BY <1>3, <1>4
<1>6. ASSUME NEW i \in 1 .. Len(t), NEW j \in 1 .. Len(t), j < i PROVE t[j] < t[i]
  BY <1>1, <1>4, <1>6
<1>7. InLine(t, Head(s), high)
  BY <1>2, <1>4, <1>5, <1>6 DEF InLine
<1>8. InLine(s, Head(s), high)
  BY <1>1, <1>2, <1>3 DEF InLine
<1>9. t = <<>> <=> Len(t) = 0
  BY <1>4
<1>10. Len(t) = Len(s) - 1 /\ Len(s) \in Nat
  BY <1>2 DEF t
<1>11. Tail(s) = <<>> <=> Len(s) = 1
  BY <1>9, <1>10 DEF t
<1> QED BY <1>1, <1>2, <1>7, <1>8, <1>11 DEF t

LEMMA QueuedEnqueue ==
  ASSUME Queued, Announce
  PROVE  Queued' /\ last' = last
<1> DEFINE events == [i \in 1 .. Batch |-> count + i]
           c == IF queue = Hooks!None THEN Hooks!FreeChain ELSE queue
           room == MaxPending - Len(chains[c])
           n == IF room < Len(events) THEN room ELSE Len(events)
           taken == SubSeq(events, 1, n)
<1>1. /\ chains' = [chains EXCEPT ![c] = @ \o taken]
      /\ queue' = c /\ last' = last /\ count' = count + Batch
  BY DEF Announce, Hooks!Enqueue, Feed!Insert
<1>2. Batch \in Nat \ {0} /\ count \in Nat /\ Len(events) = Batch /\ MaxPending \in Nat \ {0}
  BY SizesAssumption DEF Queued
<1>3. c \in Hooks!Chains /\ (queue = Hooks!None => chains[c] = <<>>) /\ (queue # Hooks!None => c = queue)
  <2>1. CASE queue = Hooks!None
    <3>1. \A d \in Hooks!Chains : d # queue
      BY <2>1 DEF Hooks!Chains, Hooks!None
    <3>2. \E d \in Hooks!Chains : chains[d] = <<>>
      BY <3>1 DEF Queued, Hooks!Chains
    <3> QED BY <2>1, <3>2 DEF Hooks!FreeChain
  <2>2. CASE queue # Hooks!None
    BY <2>2 DEF Queued
  <2> QED BY <2>1, <2>2
<1> HIDE DEF c
<1>4. chains[c] \in Seq(Nat) /\ InLine(chains[c], last, count)
  BY <1>3 DEF Queued
<1>5. n \in Int /\ n <= Batch /\ (chains[c] = <<>> => n > 0)
  BY <1>2, <1>4
<1> HIDE DEF n
<1>6. InLine(chains[c] \o taken, last, count + Batch) /\ chains[c] \o taken # <<>>
  <2>1. chains[c] # <<>> \/ n > 0
    BY <1>5
  <2>2. last \in Nat /\ count \in Nat /\ last <= count /\ Batch \in Nat
    BY <1>2 DEF Queued
  <2>3. /\ InLine(chains[c] \o taken, last, count + Batch)
        /\ chains[c] # <<>> \/ n > 0 => chains[c] \o taken # <<>>
    BY <1>4, <1>5, <2>2, InLineTaken
  <2> QED BY <2>1, <2>3
<1> HIDE DEF taken, events
<1>7. /\ \A d \in Hooks!Chains : d # c => chains'[d] = chains[d] /\ chains[d] = <<>>
      /\ chains'[c] = chains[c] \o taken
      /\ chains' \in [Hooks!Chains -> Seq(Nat)]
  <2>1. chains \in [Hooks!Chains -> Seq(Nat)] /\ chains[c] \o taken \in Seq(Nat)
    BY <1>6 DEF Queued, InLine
  <2>2. \A d \in Hooks!Chains : d # c => chains[d] = <<>>
    BY <1>3 DEF Queued, Hooks!Chains, Hooks!None
  <2> QED BY <1>1, <1>3, <2>1, <2>2
<1>8. \A low, high \in Nat : InLine(<<>>, low, high)
  BY DEF InLine
<1>9. ASSUME NEW d \in Hooks!Chains
      PROVE  InLine(chains'[d], last', count') /\ (chains'[d] # <<>> <=> d = queue')
  <2>1. CASE d = c
    BY <1>1, <1>6, <1>7, <2>1
  <2>2. CASE d # c
    <3>1. chains'[d] = <<>> /\ last' \in Nat /\ count' \in Nat
      BY <1>1, <1>2, <1>7, <2>2 DEF Queued
    <3> QED BY <1>1, <1>8, <2>2, <3>1
  <2> QED BY <2>1, <2>2
<1>10. last' <= count' /\ last' \in Nat /\ count' \in Nat
  BY <1>1, <1>2 DEF Queued
<1> QED BY <1>1, <1>3, <1>7, <1>9, <1>10 DEF Queued

LEMMA QueuedAttempt ==
  ASSUME Queued, count' = count, Hooks!Next
  PROVE  Queued' /\ last' >= last
<1>1. PICK c \in Hooks!Chains, retry \in BOOLEAN : Hooks!Attempt(c, retry)
  BY DEF Hooks!Next
<1>2. /\ chains[c] # <<>> /\ last' = Head(chains[c])
      /\ \/ UNCHANGED <<queue, chains>>
         \/ /\ chains' = [chains EXCEPT ![c] = Tail(@)]
            /\ queue' = IF Len(chains[c]) = 1 THEN Hooks!None ELSE queue
  BY <1>1 DEF Hooks!Attempt, Hooks!Finish
<1>3. InLine(chains[c], last, count) /\ c = queue /\ last \in Nat /\ count \in Nat /\ chains[c] \in Seq(Nat)
  BY <1>2 DEF Queued
<1>4. /\ InLine(Tail(chains[c]), last', count) /\ last' \in last .. count
      /\ InLine(chains[c], last', count)
      /\ Tail(chains[c]) = <<>> <=> Len(chains[c]) = 1
  <2>1. /\ InLine(Tail(chains[c]), Head(chains[c]), count) /\ Head(chains[c]) \in last .. count
        /\ InLine(chains[c], Head(chains[c]), count)
        /\ Tail(chains[c]) = <<>> <=> Len(chains[c]) = 1
    BY <1>2, <1>3, InLineTail
  <2> QED BY <1>2, <2>1
<1>5. last' \in Nat /\ last' >= last /\ last' <= count
  BY <1>3, <1>4
<1>6. \A low, high \in Nat : InLine(<<>>, low, high)
  BY DEF InLine
<1>7. \A d \in Hooks!Chains : d # c => chains[d] = <<>> /\ d # queue
  BY <1>3 DEF Queued
<1>8. CASE UNCHANGED <<queue, chains>>
  <2>1. \A d \in Hooks!Chains : InLine(chains[d], last', count)
    BY <1>3, <1>4, <1>5, <1>6, <1>7
  <2> QED BY <1>5, <1>8, <2>1 DEF Queued
<1>9. CASE /\ chains' = [chains EXCEPT ![c] = Tail(@)]
           /\ queue' = IF Len(chains[c]) = 1 THEN Hooks!None ELSE queue
  <2>1. Tail(chains[c]) \in Seq(Nat)
    BY <1>4 DEF InLine
  <2>2. /\ chains' \in [Hooks!Chains -> Seq(Nat)] /\ chains'[c] = Tail(chains[c])
        /\ \A d \in Hooks!Chains : d # c => chains'[d] = <<>>
    BY <1>7, <1>9, <2>1 DEF Queued
  <2>3. Hooks!None \notin Hooks!Chains /\ queue' \in {Hooks!None} \cup Hooks!Chains
    BY <1>9 DEF Queued, Hooks!None, Hooks!Chains
  <2>4. ASSUME NEW d \in Hooks!Chains
        PROVE  InLine(chains'[d], last', count) /\ (chains'[d] # <<>> <=> d = queue')
    <3>1. CASE d = c
      BY <1>3, <1>4, <1>9, <2>2, <2>3, <3>1
    <3>2. CASE d # c
      <4>1. d # queue'
        BY <1>3, <1>9, <2>3, <3>2
      <4> QED BY <1>3, <1>5, <1>6, <2>2, <3>2, <4>1
    <3> QED BY <3>1, <3>2
  <2> QED BY <1>3, <1>5, <2>2, <2>3, <2>4 DEF Queued
<1> QED BY <1>2, <1>5, <1>8, <1>9

LEMMA QueuedForgotten ==
  ASSUME Queued, Hooks!Forgotten, count' = count
  PROVE  Queued' /\ last' = last
<1>1. queue' = Hooks!None /\ chains' = [c \in Hooks!Chains |-> <<>>] /\ last' = last
  BY DEF Hooks!Forgotten
<1>2. \A c \in Hooks!Chains : chains'[c] = <<>> /\ c # Hooks!None
  BY <1>1 DEF Hooks!Chains, Hooks!None
<1>3. InLine(<<>>, last', count')
  BY <1>1 DEF InLine, Queued
<1> QED BY <1>1, <1>2, <1>3 DEF Queued

LEMMA QueuedStep ==
  ASSUME Queued, [AnnounceNext]_announceVars
  PROVE  Queued' /\ last' >= last
<1>0. last \in Nat
  BY DEF Queued
<1>1. CASE Announce
  BY <1>0, <1>1, QueuedEnqueue
<1>2. CASE ServerRestart
  <2>1. Hooks!Forgotten /\ count' = count
    BY <1>2 DEF ServerRestart
  <2> QED BY <1>0, <2>1, QueuedForgotten
<1>3. CASE count' = count /\ UNCHANGED <<queue, chains, last>>
  BY <1>0, <1>3 DEF Queued
<1>4. CASE Hooks!Next /\ count' = count
  BY <1>4, QueuedAttempt
<1>5. CASE (Feed!Page \/ Feed!Server) /\ UNCHANGED <<hooks, forgotten>>
  BY <1>3, <1>5, CountKept DEF hooks
<1>6. CASE UNCHANGED announceVars
  BY <1>3, <1>6 DEF announceVars, feed, hooks
<1> QED BY <1>1, <1>2, <1>4, <1>5, <1>6 DEF AnnounceNext, feed

LEMMA QueuedInit == AnnounceInit => Queued
<1> SUFFICES ASSUME AnnounceInit PROVE Queued
  OBVIOUS
<1>1. /\ queue = Hooks!None /\ chains = [c \in Hooks!Chains |-> <<>>] /\ last = 0 /\ count = 0
  BY DEF AnnounceInit, Feed!Init, Hooks!Init, Hooks!None
<1>2. \A c \in Hooks!Chains : c # Hooks!None /\ chains[c] = <<>>
  BY <1>1 DEF Hooks!Chains, Hooks!None
<1>3. InLine(<<>>, 0, 0)
  BY DEF InLine
<1> QED BY <1>1, <1>2, <1>3 DEF Queued

\* A webhook sees the events in their order.
THEOREM SeenInOrder == AnnounceSpec => InOrder
<1>1. Queued /\ [AnnounceNext]_announceVars => Queued'
  BY QueuedStep
<1>2. Queued /\ [AnnounceNext]_announceVars => [last' >= last]_Hooks!hookVars
  BY QueuedStep
<1> QED BY <1>1, <1>2, QueuedInit, PTL DEF AnnounceSpec, InOrder, Hooks!InOrder
=============================================================================
