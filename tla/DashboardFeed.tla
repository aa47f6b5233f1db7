---------------------------- MODULE DashboardFeed ----------------------------
(***************************************************************************)
(* One page of the dashboard and what it shows of the server's activity    *)
(* and update history: WebSocketController.handleDashboardConnection and   *)
(* the senders of ProxyService on one side, WebSocketProvider, the query   *)
(* cache and the requests of queries/activity.ts and queries/updates.ts on *)
(* the other. What other pages do is what the server makes of it: a page   *)
(* learns of the others through the server only.                           *)
(*                                                                         *)
(* The list of events stands for the client list too, which is delivered   *)
(* and read the same way; the Docker states carry a time and are left out. *)
(* A frame is in `pipe' until the page handles it; those of a socket that  *)
(* breaks are gone. The first frame is the opening of the socket.          *)
(***************************************************************************)
EXTENDS Naturals, Sequences, FiniteSets

CONSTANTS
  MaxEvents,    \* activity events
  Batch,        \* events an agent hands over at once
  MaxUpdates,   \* container updates
  MaxNews,      \* batches and updates, both together
  PageFaults,   \* "cut", "refused" and "answer lost" requests, "restart"
  MaxFaults,    \* how often, all kinds together
  Clicks,       \* "mark" and "clear" by the user, here or elsewhere
  MaxClicks     \* how often, both together

Events == 1 .. MaxEvents
Updates == 1 .. MaxUpdates
Unread == MaxEvents + MaxUpdates + 1   \* an entry of the cache without data
NoList == {Unread}
Loaded(entry) == entry # NoList

VARIABLES
  count,        \* events so far
  rows, seen,   \* the events stored, and those this user has seen
  history,      \* the updates stored
  open,         \* the page is among the server's dashboard clients
  pipe,         \* the frames on their way to the page
  hasConnected, \* the socket has been open before
  list, read,   \* the cached list, and which of it are shown as seen
  updates,      \* the cached update history
  get, getUpdates,  \* the two requests that read them
  mark, clear,  \* the two that change something
  undone,       \* a failed request was taken back over something written since
  behind,       \* the history misses something nothing will make up for
  faults, clicks

serverVars == <<count, rows, seen, history>>
socketVars == <<open, pipe, hasConnected>>
faultVars == <<faults, clicks>>
cacheVars == <<list, read, updates>>
requestVars == <<get, getUpdates, mark, clear>>
feedVars == <<serverVars, socketVars, cacheVars, requestVars, undone, behind, faults, clicks>>

List == {NoList} \cup SUBSET Events
History == {NoList} \cup SUBSET Updates
Frame ==
  [type : {"open", "ACTIVITY_UPDATE", "ACTIVITY_APPENDED", "ACTIVITY_SEEN",
           "UPDATES_APPENDED"},
   ids : SUBSET (1 .. Unread), seen : SUBSET Events]
Request ==
  [state : {"none", "asked", "answered", "failed"},
   got : List \cup History, seen : SUBSET Events,
   pushed : BOOLEAN]         \* the entry was written in the meantime
NoRequest == [state |-> "none", got |-> {}, seen |-> {}, pushed |-> FALSE]
Asked == [NoRequest EXCEPT !.state = "asked"]
Pushed(request) == [request EXCEPT !.pushed = request.state # "none"]

TypeOK ==
  /\ count \in 0 .. MaxEvents /\ rows \subseteq Events /\ seen \subseteq rows
  /\ history \subseteq Updates
  /\ open \in BOOLEAN /\ pipe \in Seq(Frame) /\ hasConnected \in BOOLEAN
  /\ list \in List /\ read \subseteq Events /\ updates \in History
  /\ get \in Request /\ getUpdates \in Request
  /\ mark \in Request /\ clear \in Request
  /\ undone \in BOOLEAN /\ behind \in BOOLEAN /\ faults \in 0 .. MaxFaults
  /\ clicks \in 0 .. MaxClicks

Init ==
  /\ count = 0 /\ rows = {} /\ seen = {} /\ history = {}
  /\ open = FALSE /\ pipe = <<>> /\ hasConnected = FALSE
  /\ list = NoList /\ read = {} /\ updates = NoList
  /\ get = NoRequest /\ getUpdates = NoRequest
  /\ mark = NoRequest /\ clear = NoRequest
  /\ undone = FALSE /\ behind = FALSE /\ faults = 0 /\ clicks = 0

Happens(kind) ==
  /\ kind \in PageFaults /\ faults < MaxFaults /\ faults' = faults + 1
  /\ clicks' = clicks

Clicked(kind) ==
  /\ kind \in Clicks /\ clicks < MaxClicks /\ clicks' = clicks + 1
  /\ faults' = faults

-----------------------------------------------------------------------------
(* The server. *)

Message(type, ids, shown) == [type |-> type, ids |-> ids, seen |-> shown]

\* broadcastToDashboard and sendToUser: to a page that is connected.
Sent(frame) == IF open THEN Append(pipe, frame) ELSE pipe

\* handleDashboardConnection, up to the list every connection begins with.
Accept ==
  /\ ~open
  /\ open' = TRUE
  /\ pipe' = <<Message("open", {}, {}), Message("ACTIVITY_UPDATE", rows, seen)>>
  /\ UNCHANGED <<serverVars, hasConnected, cacheVars, requestVars, undone, behind,
                 faultVars>>

\* The history has been read and the page has never been connected: nothing
\* will make up for an update it is not sent now.
Unfollowed == ~hasConnected /\ (Loaded(updates) \/ getUpdates.state = "answered")

\* The socket is gone; the page dials again three seconds later.
Broken ==
  /\ open' = FALSE /\ pipe' = <<>>
  /\ behind' = (behind \/ (Unfollowed
                  /\ \E i \in DOMAIN pipe : pipe[i].type = "UPDATES_APPENDED"))

Cut ==
  /\ open /\ Happens("cut")
  /\ Broken
  /\ UNCHANGED <<serverVars, hasConnected, cacheVars, requestVars, undone>>

News == count \div Batch + Cardinality(history)

\* insertMany and broadcastAppended.
Insert ==
  /\ count + Batch <= MaxEvents /\ News < MaxNews
  /\ count' = count + Batch /\ rows' = rows \cup (count + 1 .. count')
  /\ pipe' = Sent(Message("ACTIVITY_APPENDED", count + 1 .. count', {}))
  /\ UNCHANGED <<seen, history, open, hasConnected, cacheVars, requestVars, undone,
                 behind, faultVars>>

\* ContainerUpdateService.ingest.
InsertUpdate ==
  /\ Cardinality(history) < MaxUpdates /\ News < MaxNews
  /\ history' = history \cup {Cardinality(history) + 1}
  /\ pipe' = Sent(Message("UPDATES_APPENDED", {Cardinality(history) + 1}, {}))
  /\ behind' = (behind \/ (~open /\ Unfollowed))
  /\ UNCHANGED <<count, rows, seen, open, hasConnected, cacheVars, requestVars,
                 undone, faultVars>>

\* ActivityService.markManySeen and deleteAll, whoever asked.
MarkSeen(ids) ==
  LET marked == (ids \cap rows) \ seen
  IN /\ seen' = seen \cup marked
     /\ pipe' = IF marked = {} THEN pipe
                ELSE Sent(Message("ACTIVITY_SEEN", marked, {}))
     /\ UNCHANGED <<count, rows, history, open, hasConnected>>

DeleteAll ==
  /\ rows' = {} /\ seen' = {}
  /\ pipe' = Sent(Message("ACTIVITY_UPDATE", {}, {}))
  /\ UNCHANGED <<count, history, open, hasConnected>>

MarkedElsewhere(e) ==
  /\ e \in rows \ seen /\ Clicked("mark")
  /\ MarkSeen({e})
  /\ UNCHANGED <<cacheVars, requestVars, undone, behind>>

ClearedElsewhere ==
  /\ Clicked("clear")
  /\ DeleteAll
  /\ UNCHANGED <<cacheVars, requestVars, undone, behind>>

Failed(request) == [request EXCEPT !.state = "failed"]

\* The requests are answered from what is stored.
AnswerList ==
  /\ get.state = "asked"
  /\ get' = [get EXCEPT !.state = "answered", !.got = rows, !.seen = seen]
  /\ UNCHANGED <<serverVars, socketVars, cacheVars, getUpdates, mark, clear, undone,
                 behind, faultVars>>

AnswerUpdates ==
  /\ getUpdates.state = "asked"
  /\ getUpdates' = [getUpdates EXCEPT !.state = "answered", !.got = history]
  /\ UNCHANGED <<serverVars, socketVars, cacheVars, get, mark, clear, undone,
                 behind, faultVars>>

AnswerMark ==
  /\ mark.state = "asked"
  /\ MarkSeen(mark.got)
  /\ \/ mark' = [mark EXCEPT !.state = "answered"] /\ UNCHANGED faultVars
     \/ mark' = Failed(mark) /\ Happens("answer lost")
  /\ UNCHANGED <<cacheVars, get, getUpdates, clear, undone, behind>>

AnswerClear ==
  /\ clear.state = "asked"
  /\ DeleteAll
  /\ \/ clear' = [clear EXCEPT !.state = "answered"] /\ UNCHANGED faultVars
     \/ clear' = Failed(clear) /\ Happens("answer lost")
  /\ UNCHANGED <<cacheVars, get, getUpdates, mark, undone, behind>>

\* A request that is refused, or never arrives, changes nothing.
Refused ==
  /\ Happens("refused")
  /\ \/ /\ get.state = "asked" /\ get' = Failed(get)
        /\ UNCHANGED <<getUpdates, mark, clear>>
     \/ /\ getUpdates.state = "asked" /\ getUpdates' = Failed(getUpdates)
        /\ UNCHANGED <<get, mark, clear>>
     \/ /\ mark.state = "asked" /\ mark' = Failed(mark)
        /\ UNCHANGED <<get, getUpdates, clear>>
     \/ /\ clear.state = "asked" /\ clear' = Failed(clear)
        /\ UNCHANGED <<get, getUpdates, mark>>
  /\ UNCHANGED <<serverVars, socketVars, cacheVars, undone, behind>>

-----------------------------------------------------------------------------
(* The page's requests. *)

\* A page that shows an entry nothing is known of has it read.
AskList ==
  /\ ~Loaded(list) /\ get.state = "none"
  /\ get' = Asked
  /\ UNCHANGED <<serverVars, socketVars, cacheVars, getUpdates, mark, clear, undone,
                 behind, faultVars>>

AskUpdates ==
  /\ ~Loaded(updates) /\ getUpdates.state = "none"
  /\ getUpdates' = Asked /\ behind' = FALSE
  /\ UNCHANGED <<serverVars, socketVars, cacheVars, get, mark, clear, undone, faultVars>>

TakeListBlindly ==
  /\ get.state \in {"answered", "failed"}
  /\ get' = NoRequest
  /\ IF get.state = "failed" THEN UNCHANGED cacheVars
     ELSE list' = get.got /\ read' = get.seen /\ updates' = updates
  /\ UNCHANGED <<serverVars, socketVars, getUpdates, mark, clear, undone, behind,
                 faultVars>>

\* readUnlessPushed.
TakeList ==
  /\ get.state \in {"answered", "failed"}
  /\ get' = NoRequest
  /\ IF get.state = "failed" \/ (get.pushed /\ Loaded(list))
     THEN UNCHANGED cacheVars
     ELSE list' = get.got /\ read' = get.seen /\ updates' = updates
  /\ UNCHANGED <<serverVars, socketVars, getUpdates, mark, clear, undone, behind,
                 faultVars>>

\* The history is taken as it was answered.
TakeUpdates ==
  /\ getUpdates.state \in {"answered", "failed"}
  /\ getUpdates' = NoRequest
  /\ updates' = IF getUpdates.state = "failed" THEN updates ELSE getUpdates.got
  /\ behind' = (behind \/ (getUpdates.state = "failed" /\ Loaded(updates)))
  /\ UNCHANGED <<serverVars, socketVars, list, read, get, mark, clear, undone,
                 faultVars>>

\* useMarkActivitySeen: the rows turn seen at once, and back if it fails. The
\* copy a clear keeps to take back is not told of that.
Mark(e) ==
  /\ Clicked("mark") /\ mark.state = "none"
  /\ Loaded(list) /\ e \in list \ read
  /\ get' = NoRequest
  /\ mark' = [Asked EXCEPT !.got = {e}]
  /\ read' = read \cup {e}
  /\ UNCHANGED <<serverVars, socketVars, list, updates, getUpdates, clear, undone,
                 behind>>

MarkEnds ==
  /\ mark.state \in {"answered", "failed"}
  /\ mark' = NoRequest
  /\ IF mark.state = "failed"
     THEN /\ read' = read \ mark.got
          /\ undone' = (undone \/ mark.pushed)
          /\ clear' = Pushed(clear)
     ELSE UNCHANGED <<read, undone, clear>>
  /\ UNCHANGED <<serverVars, socketVars, list, updates, get, getUpdates, behind,
                 faultVars>>

\* useClearActivity: the list empties at once, and comes back if it fails.
Clear ==
  /\ Clicked("clear") /\ clear.state = "none" /\ Loaded(list)
  /\ get' = NoRequest
  /\ clear' = [Asked EXCEPT !.got = list, !.seen = read]
  /\ list' = {} /\ read' = {}
  /\ UNCHANGED <<serverVars, socketVars, updates, getUpdates, mark, undone, behind>>

ClearEnds ==
  /\ clear.state \in {"answered", "failed"}
  /\ clear' = NoRequest
  /\ IF clear.state = "failed"
     THEN /\ list' = clear.got /\ read' = clear.seen
          /\ undone' = (undone \/ clear.pushed)
     ELSE UNCHANGED <<list, read, undone>>
  /\ UNCHANGED <<serverVars, socketVars, updates, get, getUpdates, mark, behind,
                 faultVars>>

-----------------------------------------------------------------------------
(* The page's socket. *)

\* The answer under way was read before these were stored.
Overtakes(ids) == getUpdates.state = "answered" /\ ~(ids \subseteq getUpdates.got)

\* What a reconnect does to an entry that is not pushed on connect, and a frame
\* to an entry without data: the cache's own rule (TanStack Query). A request
\* under way is given up for a new one where there is data; where there is
\* none it is joined.
Invalidated(ids) ==
  IF getUpdates.state # "none" /\ ~Loaded(updates)
  THEN getUpdates' = getUpdates /\ behind' = (behind \/ Overtakes(ids))
  ELSE getUpdates' = Asked /\ behind' = FALSE

WriteList(ids, shown) ==
  /\ list' = ids /\ read' = shown
  /\ get' = Pushed(get) /\ clear' = Pushed(clear)

Confirms(shown) == mark' = IF mark.got \cap shown # {} THEN Pushed(mark) ELSE mark

Opened ==
  /\ hasConnected' = TRUE
  /\ IF hasConnected THEN Invalidated(history) ELSE UNCHANGED <<getUpdates, behind>>
  /\ UNCHANGED <<cacheVars, get, mark, clear, undone>>

WholeList(frame) ==
  /\ WriteList(frame.ids, frame.seen)
  /\ Confirms(frame.seen)
  /\ undone' = FALSE
  /\ UNCHANGED <<hasConnected, updates, getUpdates, behind>>

Appended(frame) ==
  /\ IF Loaded(list) THEN WriteList(list \cup frame.ids, read)
     ELSE UNCHANGED <<list, read, get, clear>>
  /\ UNCHANGED <<hasConnected, updates, getUpdates, mark, undone, behind>>

Seen(frame) ==
  /\ IF Loaded(list) THEN WriteList(list, read \cup (frame.ids \cap list))
     ELSE UNCHANGED <<list, read, get, clear>>
  /\ Confirms(frame.ids)
  /\ UNCHANGED <<hasConnected, updates, getUpdates, undone, behind>>

UpdatesAppended(frame) ==
  /\ IF Loaded(updates)
     THEN /\ updates' = updates \cup frame.ids
          /\ behind' = (behind \/ Overtakes(frame.ids))
          /\ getUpdates' = getUpdates
     ELSE updates' = updates /\ Invalidated(frame.ids)
  /\ UNCHANGED <<hasConnected, list, read, get, mark, clear, undone>>

Handle(frame) ==
  CASE frame.type = "open" -> Opened
    [] frame.type = "ACTIVITY_UPDATE" -> WholeList(frame)
    [] frame.type = "ACTIVITY_APPENDED" -> Appended(frame)
    [] frame.type = "ACTIVITY_SEEN" -> Seen(frame)
    [] frame.type = "UPDATES_APPENDED" -> UpdatesAppended(frame)

OnMessage ==
  /\ pipe # <<>>
  /\ Handle(Head(pipe))
  /\ pipe' = Tail(pipe)
  /\ UNCHANGED <<serverVars, open, faultVars>>

-----------------------------------------------------------------------------
Page ==
  \/ AskList \/ AskUpdates \/ TakeList \/ TakeUpdates
  \/ \E e \in Events : Mark(e)
  \/ MarkEnds \/ Clear \/ ClearEnds \/ OnMessage

Server ==
  \/ Accept \/ Cut \/ InsertUpdate
  \/ \E e \in Events : MarkedElsewhere(e)
  \/ ClearedElsewhere
  \/ AnswerList \/ AnswerUpdates \/ AnswerMark \/ AnswerClear \/ Refused

Quiet == open /\ pipe = <<>> /\ mark = NoRequest /\ clear = NoRequest

(* Connected, everything sent is handled, and no answer of its own awaited. *)
ShowsTheList == Quiet /\ ~undone => list = rows /\ read = seen

ShowsTheHistory ==
  Quiet /\ ~behind /\ getUpdates = NoRequest /\ Loaded(updates)
    => updates = history
=============================================================================
