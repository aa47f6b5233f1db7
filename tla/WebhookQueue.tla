---------------------------- MODULE WebhookQueue ----------------------------
(***************************************************************************)
(* WebhookService for one webhook: its queue of deliveries, kept in a map  *)
(* while it is not empty, and the attempts of one delivery. Events are     *)
(* numbered in the order they are dispatched. Templates, filters and the   *)
(* delays before an attempt are left out.                                  *)
(***************************************************************************)
EXTENDS Naturals, SequencesExt

CONSTANTS
  MaxPending,   \* MAX_PENDING_PER_WEBHOOK
  MaxAttempts,  \* the first and the two retries
  HookFaults    \* what a target may do: "silent", "failing", "refusing"

None == 0
Chains == 1 .. 2

VARIABLES
  queue,      \* the chain the map holds for the webhook
  chains,     \* the deliveries of each chain, the one under way first
  attempt,    \* of the delivery under way: attempts that failed
  last,       \* the event that was tried last
  settled,    \* events whose delivery ended, one way or the other
  dropped     \* events the full queue was not given

hookVars == <<queue, chains, attempt, last, settled, dropped>>

Init ==
  /\ queue = None
  /\ chains = [c \in Chains |-> <<>>]
  /\ attempt = [c \in Chains |-> 0]
  /\ last = None /\ settled = {} /\ dropped = {}

\* Promise.resolve().then(...): a queue the map does not hold begins a chain.
FreeChain == CHOOSE c \in Chains : chains[c] = <<>>

\* dispatch: events in their order, as many as the queue has room for.
Enqueue(events) ==
  LET c == IF queue = None THEN FreeChain ELSE queue
      room == MaxPending - Len(chains[c])
      taken == SubSeq(events, 1, IF room < Len(events) THEN room ELSE Len(events))
  IN /\ chains' = [chains EXCEPT ![c] = @ \o taken]
     /\ queue' = c
     /\ dropped' = dropped \cup (Range(events) \ Range(taken))
     /\ UNCHANGED <<attempt, last, settled>>

FinishForgets(c) ==
  /\ chains' = [chains EXCEPT ![c] = Tail(@)]
  /\ attempt' = [attempt EXCEPT ![c] = 0]
  /\ settled' = settled \cup {Head(chains[c])}
  /\ queue' = None

FinishBreaks(c) ==
  /\ chains' = [chains EXCEPT ![c] = <<>>]
  /\ attempt' = [attempt EXCEPT ![c] = 0]
  /\ settled' = settled \cup {Head(chains[c])}
  /\ queue' = None

\* finally: the map forgets a queue that has run empty.
Finish(c) ==
  /\ chains' = [chains EXCEPT ![c] = Tail(@)]
  /\ attempt' = [attempt EXCEPT ![c] = 0]
  /\ settled' = settled \cup {Head(chains[c])}
  /\ queue' = IF Len(chains[c]) = 1 THEN None ELSE queue

\* One attempt, from the request to what came back or the end of its time: an
\* answer that ends the delivery, or one worth another attempt. An event that
\* comes in meanwhile only looks at how much is pending.
Attempt(c, retry) ==
  /\ chains[c] # <<>>
  /\ last' = Head(chains[c])
  /\ retry => HookFaults # {}
  /\ IF retry /\ attempt[c] + 1 < MaxAttempts
     THEN /\ attempt' = [attempt EXCEPT ![c] = @ + 1]
          /\ UNCHANGED <<queue, chains, settled>>
     ELSE Finish(c)
  /\ UNCHANGED dropped

\* The queues are in memory only.
Forgotten ==
  /\ queue' = None /\ chains' = [c \in Chains |-> <<>>]
  /\ attempt' = [c \in Chains |-> 0]
  /\ UNCHANGED <<last, settled, dropped>>

Next == \E c \in Chains : \E retry \in BOOLEAN : Attempt(c, retry)

-----------------------------------------------------------------------------
(* The target sees the events in their order: an event is not tried again   *)
(* after a later one has been, and no two deliveries run side by side.      *)
InOrder == [][last' >= last]_hookVars
=============================================================================
