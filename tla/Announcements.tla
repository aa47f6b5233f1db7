---------------------------- MODULE Announcements ----------------------------
(***************************************************************************)
(* What the server does with a new activity event (broadcastAppended in    *)
(* ActivityService): it goes to the open pages (DashboardFeed) and to the  *)
(* webhooks (WebhookQueue), in one step and at once to both. The rows      *)
(* survive a restart of the server; the sockets, the queues of the         *)
(* webhooks and the requests under way do not.                             *)
(***************************************************************************)
EXTENDS Naturals, Sequences, FiniteSets

CONSTANTS MaxEvents, Batch, MaxUpdates, MaxNews, PageFaults, MaxFaults, Clicks, MaxClicks,
          MaxPending, MaxAttempts, HookFaults

ASSUME SizesAssumption ==
  /\ MaxEvents \in Nat /\ Batch \in Nat \ {0} /\ MaxUpdates \in Nat /\ MaxNews \in Nat
  /\ MaxFaults \in Nat /\ MaxClicks \in Nat
  /\ MaxPending \in Nat \ {0} /\ MaxAttempts \in Nat \ {0}

VARIABLES
  count, rows, seen, history, open, pipe, hasConnected, list, read, updates, get,
  getUpdates, mark, clear, undone, behind, faults, clicks,
  queue, chains, attempt, last, settled, dropped,
  forgotten   \* events whose delivery a restart took

Feed == INSTANCE DashboardFeed
Hooks == INSTANCE WebhookQueue

feed == <<count, rows, seen, history, open, pipe, hasConnected, list, read, updates,
          get, getUpdates, mark, clear, undone, behind, faults, clicks>>
hooks == <<queue, chains, attempt, last, settled, dropped>>
announceVars == <<feed, hooks, forgotten>>

AnnounceInit == Feed!Init /\ Hooks!Init /\ forgotten = {}

Announce ==
  /\ Feed!Insert
  /\ Hooks!Enqueue([i \in 1 .. Batch |-> count + i])
  /\ forgotten' = forgotten

Underway == UNION {{chains[c][i] : i \in DOMAIN chains[c]} : c \in Hooks!Chains}

Abort(request) ==
  IF request.state \in {"asked", "answered"} THEN [request EXCEPT !.state = "failed"]
  ELSE request

ServerRestart ==
  /\ open /\ Feed!Happens("restart")
  /\ Feed!Broken
  /\ get' = Abort(get) /\ getUpdates' = Abort(getUpdates)
  /\ mark' = Abort(mark) /\ clear' = Abort(clear)
  /\ Hooks!Forgotten
  /\ forgotten' = forgotten \cup Underway
  /\ UNCHANGED <<count, rows, seen, history, hasConnected, list, read, updates, undone>>

AnnounceNext ==
  \/ Announce \/ ServerRestart
  \/ (Feed!Page \/ Feed!Server) /\ UNCHANGED <<hooks, forgotten>>
  \/ Hooks!Next /\ UNCHANGED <<feed, forgotten>>

AnnounceSpec == AnnounceInit /\ [][AnnounceNext]_announceVars

AnnounceFairness ==
  /\ WF_announceVars(Hooks!Next /\ UNCHANGED <<feed, forgotten>>)

AnnounceFairSpec == AnnounceSpec /\ AnnounceFairness

-----------------------------------------------------------------------------
(* A page that is connected, has handled what was sent and waits for no     *)
(* answer of its own shows the activity as the server holds it, however     *)
(* requests and frames crossed -- except where a request that failed was    *)
(* taken back over something written since (a frame, or a marking that had  *)
(* failed before), until the next whole list. And the update history too,   *)
(* once its request is answered -- except where an update was told while an *)
(* older answer was on its way, or stored between the first answer and the  *)
(* first connection, or where the request that was to make up for a broken  *)
(* socket failed.                                                           *)
ShowsWhatIsStored == Feed!ShowsTheList /\ Feed!ShowsTheHistory

(* A webhook sees the events in their order: none is tried again after a    *)
(* later one has been, retries and a queue that ran empty notwithstanding.  *)
InOrder == Hooks!InOrder

(* Every event is taken through its delivery, tried as often as is allowed, *)
(* unless the webhook was too far behind or the server was restarted.       *)
EveryEventTried ==
  <>[](\A e \in 1 .. count : e \in settled \cup dropped \cup forgotten)
=============================================================================
