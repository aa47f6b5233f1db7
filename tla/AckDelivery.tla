----------------------------- MODULE AckDelivery -----------------------------
(***************************************************************************)
(* The at-least-once delivery of an agent's entries to the server:         *)
(* client/src/core/AckQueue.ts on one side, handleBatch and insertMany of   *)
(* ActivityService.ts or ContainerUpdateService.ts on the other, and the   *)
(* socket, the file and the process between them.                          *)
(*                                                                         *)
(* Entries are numbered in the order they are pushed.  push appends,       *)
(* everything else only removes, and the file holds an earlier queue, so   *)
(* the array of the code is at all times the increasing sequence of the    *)
(* numbers in the set `entries`: "the oldest" is its least element.        *)
(***************************************************************************)
EXTENDS Naturals, Sequences, FiniteSets

CONSTANTS
  MaxEvents,             \* bound: entries the agent produces
  MaxItems,              \* AckQueueOptions.maxItems
  Unreadable,            \* entries this build of the server cannot parse
  SwitchedOff,           \* entries of a kind the settings switch off
  CatchesStoreFailure,   \* ContainerUpdateService catches a failed insert
  FaultKinds,            \* which of the faults below happen
  MaxFaults,             \* bound: faults in one behaviour
  MaxInFlight            \* bound: frames on the wire in one direction

Event == 1..MaxEvents
Fault == {"break", "crash", "shutdown", "store", "write", "purge"}

ASSUME AckAssumption ==
  /\ MaxEvents \in Nat
  /\ MaxItems \in Nat \ {0}
  /\ Unreadable \subseteq Event
  /\ SwitchedOff \subseteq Event
  /\ CatchesStoreFailure \in BOOLEAN
  /\ FaultKinds \subseteq Fault
  /\ MaxFaults \in Nat
  /\ MaxInFlight \in Nat

VARIABLES
  up, stopping,          \* the agent's process; persistNow has run for its end
  loaded, entries,       \* AckQueue.loaded, AckQueue.entries
  writePending,          \* AckQueue.writeTimer is set
  retryArmed,            \* AckQueue.retryTimer is set
  file,                  \* the entries in the queue's file
  linked,                \* the authenticated socket is open
  toServer, toAgent,     \* batches and acks on the wire
  stored,                \* the rows of the server's table
  horizon,               \* entries up to here are older than maxAgeMs
  next,                  \* the entry pushed next
  faults                 \* faults so far

VARIABLES                \* history: what the properties compare with
  ruled,                 \* entries the server stored or refused for good
  excused,               \* entries dropped for a reason the queue documents
  told, wiped,           \* how often an entry was announced, and deleted
  stale                  \* the last write of the file failed

agent  == <<up, stopping, loaded, entries, writePending, retryArmed>>
wire   == <<linked, toServer, toAgent>>
ledger == <<ruled, excused, told, wiped>>
vars   == <<agent, wire, file, stored, horizon, next, faults, ledger, stale>>

Emitted == 1..(next - 1)

-----------------------------------------------------------------------------
(* A fault is taken from the budget of the run.                            *)
Happens(kind) == kind \in FaultKinds /\ faults < MaxFaults /\ faults' = faults + 1

(* What is not older than maxAgeMs (expire, and the filter of load).       *)
Fresh(S) == {e \in S : e > horizon}

(* What is left after the oldest beyond maxItems have been dropped.        *)
Newest(S) == {e \in S : Cardinality({f \in S : f > e}) < MaxItems}

(* load(): the file is read once per process, when the queue is first used. *)
Loaded == IF loaded THEN entries ELSE Newest(Fresh(file))

(* flush() on a queue that holds q, with the socket open or not: clearRetry, *)
(* expire, send.  A batch that went out arms the retry timer.              *)
FlushUnarmed(q, open) ==
  /\ Len(toServer) < MaxInFlight
  /\ loaded' = TRUE
  /\ entries' = Fresh(q)
  /\ retryArmed' = FALSE
  /\ toServer' = IF open /\ Fresh(q) # {} THEN Append(toServer, Fresh(q)) ELSE toServer
Flush(q, open) ==
  /\ Len(toServer) < MaxInFlight
  /\ loaded' = TRUE
  /\ entries' = Fresh(q)
  /\ retryArmed' = (open /\ Fresh(q) # {})
  /\ toServer' = IF open /\ Fresh(q) # {} THEN Append(toServer, Fresh(q)) ELSE toServer

(* What the agent holds: its queue, or the file its process has yet to read. *)
Held == IF loaded THEN entries ELSE file

-----------------------------------------------------------------------------
(* push(): a new entry, the oldest go beyond maxItems, persist, flush.     *)
Push ==
  /\ up
  /\ next <= MaxEvents
  /\ LET q == Newest(Loaded \cup {next})
     IN  /\ Flush(q, linked)
         /\ excused' = excused \cup ((Held \cup {next}) \ Fresh(q))
  /\ next' = next + 1
  /\ writePending' = TRUE
  /\ UNCHANGED <<up, stopping, linked, toAgent, file, stored, horizon, faults,
                 ruled, told, wiped, stale>>

(* The flush of the retry timer or of a new connection.  expire() schedules *)
(* a write if it dropped anything, load() does not.                        *)
Offer(open) ==
  /\ Flush(Loaded, open)
  /\ writePending' = (writePending \/ Fresh(Loaded) # Loaded)
  /\ excused' = excused \cup (Held \ Fresh(Loaded))

Retry ==
  /\ up /\ retryArmed
  /\ Offer(linked)
  /\ UNCHANGED <<up, stopping, linked, toAgent, file, stored, horizon, next, faults,
                 ruled, told, wiped, stale>>

(* Connection.onAuthenticated: the socket is open and the queue is offered. *)
Connect ==
  /\ up /\ ~linked
  /\ linked' = TRUE
  /\ Offer(TRUE)
  /\ UNCHANGED <<up, stopping, toAgent, file, stored, horizon, next, faults,
                 ruled, told, wiped, stale>>

(* acknowledge(): the ids leave the queue; an empty queue needs no retry.  *)
UnackedForgetsAll(ids) == {}
Unacked(ids) == Loaded \ ids

Acknowledge ==
  /\ up /\ toAgent # <<>>
  /\ toAgent' = Tail(toAgent)
  /\ loaded' = TRUE
  /\ entries' = Unacked(Head(toAgent))
  /\ writePending' = (writePending \/ entries' # Loaded)
  /\ retryArmed' = (retryArmed /\ entries' # {})
  /\ excused' = excused \cup (Held \ Loaded)
  /\ UNCHANGED <<up, stopping, linked, toServer, file, stored, horizon, next, faults,
                 ruled, told, wiped, stale>>

(* The write timer: writeJsonFile replaces the file or leaves it alone.    *)
Write ==
  /\ up /\ writePending
  /\ writePending' = FALSE
  /\ \/ file' = entries /\ stale' = FALSE /\ UNCHANGED faults
     \/ Happens("write") /\ stale' = TRUE /\ UNCHANGED file
  /\ UNCHANGED <<up, stopping, loaded, entries, retryArmed, wire, stored, horizon, next,
                 ledger>>

(* Time passes the age limit of the oldest entry that is still young.      *)
Age ==
  /\ horizon + 1 < next
  /\ horizon' = horizon + 1
  /\ UNCHANGED <<agent, wire, file, stored, next, faults, ledger, stale>>

-----------------------------------------------------------------------------
(* A signal or an uncaught exception: persistNow writes a queue that has   *)
(* been loaded, and the process carries on until stopWebServer is through. *)
PersistNowUnloaded == entries
PersistNow == IF loaded THEN entries ELSE file

Shutdown ==
  /\ up /\ ~stopping /\ Happens("shutdown")
  /\ stopping' = TRUE
  /\ writePending' = FALSE
  /\ \/ file' = PersistNow /\ stale' = (stale /\ ~loaded)
     \/ loaded /\ "write" \in FaultKinds /\ stale' = TRUE /\ UNCHANGED file
  /\ UNCHANGED <<up, loaded, entries, retryArmed, wire, stored, horizon, next, ledger>>

(* The process ends: the memory and both timers are gone, the socket with  *)
(* them.  Frames the server has already received are still handled.        *)
Gone ==
  /\ up' = FALSE /\ stopping' = FALSE /\ loaded' = FALSE /\ entries' = {}
  /\ writePending' = FALSE /\ retryArmed' = FALSE /\ linked' = FALSE
  /\ toAgent' = <<>>
  /\ \E k \in 0..Len(toServer) : toServer' = SubSeq(toServer, 1, k)
  /\ excused' = excused \cup (Held \ file)
  /\ stale' = FALSE
  /\ UNCHANGED <<file, stored, horizon, next, ruled, told, wiped>>

Exit  == up /\ stopping /\ Gone /\ UNCHANGED faults
Crash == up /\ Happens("crash") /\ Gone

Start ==
  /\ ~up
  /\ up' = TRUE
  /\ UNCHANGED <<stopping, loaded, entries, writePending, retryArmed, wire, file, stored,
                 horizon, next, faults, ledger, stale>>

(* The socket closes.  What either side has received by then is handled.   *)
Break ==
  /\ linked /\ Happens("break")
  /\ linked' = FALSE
  /\ \E k \in 0..Len(toServer) : toServer' = SubSeq(toServer, 1, k)
  /\ \E k \in 0..Len(toAgent) : toAgent' = SubSeq(toAgent, 1, k)
  /\ UNCHANGED <<agent, file, stored, horizon, next, ledger, stale>>

-----------------------------------------------------------------------------
(* handleBatch on the server.  `Wanted` are the entries it can read and    *)
(* wants to keep.                                                          *)
Wanted(batch) == (batch \ Unreadable) \ SwitchedOff

(* sendToAgent on the socket the agent has now; without one the ack is lost. *)
SendAck(ids) ==
  IF ids # {} /\ linked
  THEN Len(toAgent) < MaxInFlight /\ toAgent' = Append(toAgent, ids)
  ELSE UNCHANGED toAgent

(* ON CONFLICT DO NOTHING: the rows a batch adds.                          *)
InsertedWithRepeats(batch) == Wanted(batch)
Inserted(batch) == Wanted(batch) \ stored

(* insertMany goes through: rows that were not there are announced, and the *)
(* whole batch is acknowledged.                                            *)
Ingest ==
  /\ toServer # <<>>
  /\ LET batch == Head(toServer)
     IN  /\ stored' = stored \cup Wanted(batch)
         /\ told' = [e \in Event |-> IF e \in Inserted(batch) THEN told[e] + 1 ELSE told[e]]
         /\ ruled' = ruled \cup batch
         /\ SendAck(batch)
  /\ toServer' = Tail(toServer)
  /\ UNCHANGED <<agent, linked, file, horizon, next, faults, excused, wiped, stale>>

(* What is acknowledged although insertMany threw: of the updates those    *)
(* that are unreadable, of the activity nothing.                           *)
Refused(batch) == IF CatchesStoreFailure THEN batch \cap Unreadable ELSE {}

(* insertMany throws: the transaction is rolled back.                      *)
IngestFails ==
  /\ toServer # <<>> /\ Happens("store")
  /\ LET batch == Head(toServer)
     IN  /\ Wanted(batch) # {}
         /\ ruled' = ruled \cup (Refused(batch) \cap Unreadable)
         /\ SendAck(Refused(batch))
  /\ toServer' = Tail(toServer)
  /\ UNCHANGED <<agent, linked, file, stored, horizon, next, excused, told, wiped, stale>>

(* deleteAll by a user, or cleanupOld by the retention job: rows of the    *)
(* older entries go.                                                       *)
Purge(k) ==
  /\ Happens("purge")
  /\ stored' = {e \in stored : e > k}
  /\ wiped' = [e \in Event |-> IF e \in stored /\ e <= k THEN wiped[e] + 1 ELSE wiped[e]]
  /\ UNCHANGED <<agent, wire, file, horizon, next, ruled, excused, told, stale>>

-----------------------------------------------------------------------------
Init ==
  /\ up = FALSE /\ stopping = FALSE /\ loaded = FALSE /\ entries = {}
  /\ writePending = FALSE /\ retryArmed = FALSE
  /\ file = {} /\ linked = FALSE /\ toServer = <<>> /\ toAgent = <<>>
  /\ stored = {} /\ horizon = 0 /\ next = 1 /\ faults = 0
  /\ ruled = {} /\ excused = {} /\ stale = FALSE
  /\ told = [e \in Event |-> 0] /\ wiped = [e \in Event |-> 0]

Next ==
  \/ Push \/ Retry \/ Connect \/ Acknowledge \/ Write \/ Age
  \/ Shutdown \/ Exit \/ Crash \/ Start \/ Break
  \/ Ingest \/ IngestFails
  \/ \E k \in Event : Purge(k)

Spec == Init /\ [][Next]_vars

(* Timers fire, frames that arrived are handled, a process that ended is   *)
(* restarted by its supervisor, and the agent keeps dialling.  Nothing     *)
(* makes a fault happen, and nothing makes the host produce an entry.      *)
Fairness ==
  /\ WF_vars(Retry) /\ WF_vars(Connect) /\ WF_vars(Acknowledge) /\ WF_vars(Write)
  /\ WF_vars(Exit) /\ WF_vars(Start) /\ WF_vars(Ingest)

FairSpec == Spec /\ Fairness

-----------------------------------------------------------------------------
(* The types of the state: the queue and its file hold pushed entries only, *)
(* and a queue that has not been read from disk is empty in memory.        *)
TypeOK ==
  /\ up \in BOOLEAN /\ stopping \in BOOLEAN /\ loaded \in BOOLEAN
  /\ writePending \in BOOLEAN /\ retryArmed \in BOOLEAN /\ linked \in BOOLEAN
  /\ entries \subseteq Emitted /\ file \subseteq Emitted
  /\ ~loaded => entries = {}
  /\ toServer \in Seq(SUBSET Event) /\ toAgent \in Seq(SUBSET Event)
  /\ stored \subseteq Event /\ ruled \subseteq Event /\ excused \subseteq Event
  /\ told \in [Event -> Nat] /\ wiped \in [Event -> Nat]
  /\ horizon \in Nat /\ faults \in Nat /\ next \in 1..(MaxEvents + 1)
  /\ stale \in BOOLEAN

(* The limit of AckQueueOptions ("How many entries the queue holds while it *)
(* has nowhere to send them") holds on disk and in memory, restarts included. *)
QueueBounded == Cardinality(entries) <= MaxItems /\ Cardinality(file) <= MaxItems

(* "Never acknowledge what was not stored -- unless it can never be         *)
(* stored": every id on its way back to the agent belongs to an entry the   *)
(* server wrote, does not want or cannot read.                             *)
AcksRuled == \A i \in 1..Len(toAgent) : toAgent[i] \subseteq ruled

(* Never lost in silence: every entry pushed so far is held by the agent   *)
(* (in memory, or in the file of a process that has not read it yet), was  *)
(* stored or refused by the server, or was dropped by the limit, the age   *)
(* or an end of the process.                                               *)
NothingVanishes == Emitted \subseteq Held \cup ruled \cup excused

(* A timer for every offer: whatever an authenticated agent still holds    *)
(* will be offered again even if the host stays quiet and no ack comes     *)
(* (ACK_RETRY_MS: "without a retry those entries would wait for the next   *)
(* entry or the next reconnect").                                          *)
RetryCoversQueue == up /\ linked /\ entries # {} => retryArmed

(* Memory and disk agree unless a write is scheduled: every path that      *)
(* changes the queue also calls persist(), except an end of the process    *)
(* that is already under way, and a write that failed.                     *)
DiskFollows == up /\ loaded /\ ~writePending /\ ~stale => file \ (1..horizon) = entries \ (1..horizon)

(* A repeat is a no-op: dashboards and webhooks hear of an entry once, and *)
(* again only after its row was deleted in between.                        *)
ToldOncePerRow == \A e \in Event : told[e] <= 1 + wiped[e]

(* The agent does not offer for ever: faults being finite, the queue in     *)
(* the end runs empty, in memory and on a disk nobody has read yet.        *)
QueueDrains == <>[](Held = {})

(* The queue implements the promise: what it owes is what it would offer.  *)
Abstract == INSTANCE AtLeastOnce WITH Entry <- Event, emitted <- Emitted, owed <- Held
ImplementsAtLeastOnce == Abstract!Spec
=============================================================================
