---------------------------- MODULE RegistrySweep ----------------------------
(***************************************************************************)
(* The image update check: ImageUpdateCheckSchedulerService.run asks every *)
(* registry about its images, the registries side by side, and within one  *)
(* registry sweepTargets asks for up to Concurrency images at a time, in   *)
(* list order from the point the last sweep got to. A rate limit stops the *)
(* group: nothing further is asked, what is left is recorded as skipped,   *)
(* the registry is paused, and the next sweep starts at the first image    *)
(* that got no answer. What is known of the registries is in memory, and   *)
(* saved when the whole sweep is over.                                     *)
(*                                                                         *)
(* An image is its place in the group's list. An answer with an error of   *)
(* its own (a missing tag) counts as an answer. One action is one answer   *)
(* with everything that follows before the next one.                       *)
(***************************************************************************)
EXTENDS Naturals, FiniteSets

CONSTANTS
  Registries,
  Size,          \* how many images each registry is asked about
  Concurrency

ASSUME SizeAssumption == Size \in [Registries -> Nat \ {0}]
ASSUME ConcurrencyAssumption == Concurrency \in Nat \ {0}

VARIABLES
  sweeping,   \* a run is under way (job.isRunning)
  due,        \* the registries it asks
  start,      \* where the group's rotated list begins
  next,       \* how many images the workers have taken
  asking,     \* the images being asked about
  limited,    \* the registry has turned a request away
  outcome,    \* what became of each image in the sweep
  paused,     \* pausedUntil lies ahead
  resume,     \* resumeKey: the image to start at, 0 for none
  saved,      \* paused and resume as scheduler_state has them
  torn        \* history: the registries whose last sweep a restart cut short

sweepVars == <<sweeping, due, start, next, asking, limited, outcome, paused, resume, saved, torn>>

Images(r) == 1 .. Size[r]

\* The k-th image of the rotated list.
At(r, k) == ((start[r] + k - 2) % Size[r]) + 1

\* The rotated place of an image.
Place(r, i) == CHOOSE k \in Images(r) : At(r, k) = i

SweepInit ==
  /\ sweeping = FALSE /\ due = {}
  /\ start = [r \in Registries |-> 1] /\ next = [r \in Registries |-> 0]
  /\ asking = [r \in Registries |-> {}] /\ limited = [r \in Registries |-> FALSE]
  /\ outcome = [r \in Registries |-> [i \in Images(r) |-> "none"]]
  /\ paused = [r \in Registries |-> FALSE] /\ resume = [r \in Registries |-> 0]
  /\ saved = [r \in Registries |-> [paused |-> FALSE, resume |-> 0]]
  /\ torn = {}

-----------------------------------------------------------------------------
BeginFromFront(byHand) ==
  /\ ~sweeping
  /\ due' = {r \in Registries : byHand \/ ~paused[r]}
  /\ due' # {}
  /\ sweeping' = TRUE
  /\ start' = [r \in Registries |-> 1]
  /\ LET first(r) == IF Concurrency < Size[r] THEN Concurrency ELSE Size[r]
     IN /\ next' = [r \in Registries |-> IF r \in due' THEN first(r) ELSE 0]
        /\ asking' = [r \in Registries |->
                        IF r \in due' THEN {At(r, k)' : k \in 1 .. first(r)} ELSE {}]
  /\ limited' = [r \in Registries |-> FALSE]
  /\ outcome' = [r \in Registries |->
                   IF r \in due' THEN [i \in Images(r) |-> "none"] ELSE outcome[r]]
  /\ torn' = torn \ due'
  /\ UNCHANGED <<paused, resume, saved>>

\* run(): a registry still paused is left out, unless the user asks; with
\* none left there is no run. Each group starts at its resume point.
Begin(byHand) ==
  /\ ~sweeping
  /\ due' = {r \in Registries : byHand \/ ~paused[r]}
  /\ due' # {}
  /\ sweeping' = TRUE
  /\ start' = [r \in Registries |-> IF resume[r] = 0 THEN 1 ELSE resume[r]]
  /\ LET first(r) == IF Concurrency < Size[r] THEN Concurrency ELSE Size[r]
     IN /\ next' = [r \in Registries |-> IF r \in due' THEN first(r) ELSE 0]
        /\ asking' = [r \in Registries |->
                        IF r \in due' THEN {At(r, k)' : k \in 1 .. first(r)} ELSE {}]
  /\ limited' = [r \in Registries |-> FALSE]
  /\ outcome' = [r \in Registries |->
                   IF r \in due' THEN [i \in Images(r) |-> "none"] ELSE outcome[r]]
  /\ torn' = torn \ due'
  /\ UNCHANGED <<paused, resume, saved>>

\* The worker that has its answer takes the next image, or skips all that
\* are left once the registry has turned a request away.
Worker(r, i, result) ==
  IF limited'[r]
    THEN /\ outcome' = [outcome EXCEPT ![r] =
              [j \in Images(r) |->
                 IF j = i THEN result
                 ELSE IF Place(r, j) > next[r] THEN "skipped" ELSE @[j]]]
         /\ asking' = [asking EXCEPT ![r] = @ \ {i}]
         /\ next' = [next EXCEPT ![r] = Size[r]]
    ELSE /\ outcome' = [outcome EXCEPT ![r][i] = result]
         /\ asking' = [asking EXCEPT ![r] = (@ \ {i}) \cup
                         IF next[r] < Size[r] THEN {At(r, next[r] + 1)} ELSE {}]
         /\ next' = [next EXCEPT ![r] = IF @ < Size[r] THEN @ + 1 ELSE @]

\* The first image of the rotated list without an answer, 0 for none.
LastSkipped(r, results) ==
  LET skipped == {k \in Images(r) : results[At(r, k)] = "skipped"}
  IN IF skipped = {} THEN 0
     ELSE At(r, CHOOSE k \in skipped : \A l \in skipped : k >= l)

FirstSkipped(r, results) ==
  LET skipped == {k \in Images(r) : results[At(r, k)] = "skipped"}
  IN IF skipped = {} THEN 0
     ELSE At(r, CHOOSE k \in skipped : \A l \in skipped : k <= l)

\* sweepRegistry after its sweep, and the end of the run with the last group.
Conclude(r) ==
  IF asking'[r] # {}
    THEN UNCHANGED <<paused, resume, saved, sweeping>>
    ELSE /\ paused' = [paused EXCEPT ![r] = limited'[r]]
         /\ resume' = [resume EXCEPT ![r] = FirstSkipped(r, outcome'[r])]
         /\ IF \E q \in Registries : asking'[q] # {}
              THEN UNCHANGED <<saved, sweeping>>
              ELSE /\ sweeping' = FALSE
                   /\ saved' = [q \in Registries |->
                                  [paused |-> paused'[q], resume |-> resume'[q]]]

\* The registry answers about image i.
Answers(r, i) ==
  /\ i \in asking[r]
  /\ UNCHANGED limited
  /\ Worker(r, i, "answered") /\ Conclude(r)
  /\ UNCHANGED <<due, start, torn>>

\* It turns the request away; the image is skipped like those never asked.
Refuses(r, i) ==
  /\ i \in asking[r]
  /\ limited' = [limited EXCEPT ![r] = TRUE]
  /\ Worker(r, i, "skipped") /\ Conclude(r)
  /\ UNCHANGED <<due, start, torn>>

\* The check throws: the image stays as it was.
Throws(r, i) ==
  /\ i \in asking[r]
  /\ UNCHANGED limited
  /\ Worker(r, i, "threw") /\ Conclude(r)
  /\ UNCHANGED <<due, start, torn>>

PauseEnds(r) ==
  /\ paused[r]
  /\ paused' = [paused EXCEPT ![r] = FALSE]
  /\ saved' = [saved EXCEPT ![r].paused = FALSE]
  /\ UNCHANGED <<sweeping, due, start, next, asking, limited, outcome, resume, torn>>

\* The process ends and starts again; restoreRegistries reads what was saved.
Restart ==
  /\ sweeping' = FALSE /\ due' = {}
  /\ torn' = torn \cup {r \in due : sweeping}
  /\ asking' = [r \in Registries |-> {}]
  /\ paused' = [r \in Registries |-> saved[r].paused]
  /\ resume' = [r \in Registries |-> saved[r].resume]
  /\ UNCHANGED <<start, next, limited, outcome, saved>>

SweepNext ==
  \/ \E byHand \in BOOLEAN : Begin(byHand)
  \/ Restart
  \/ \E r \in Registries :
       \/ PauseEnds(r)
       \/ \E i \in Images(r) : Answers(r, i) \/ Refuses(r, i) \/ Throws(r, i)

SweepSpec == SweepInit /\ [][SweepNext]_sweepVars

\* Sweeps begin over and over (ScheduledJob), every request ends in one way or
\* another, and none of several images is the unlucky one in every sweep.
SweepFairness ==
  /\ WF_sweepVars(Begin(FALSE))
  /\ \A r \in Registries :
       /\ WF_sweepVars(PauseEnds(r))
       /\ \A i \in Images(r) :
            /\ WF_sweepVars(Answers(r, i) \/ Refuses(r, i) \/ Throws(r, i))
            /\ SF_sweepVars(Answers(r, i))

SweepFairSpec == SweepSpec /\ SweepFairness

-----------------------------------------------------------------------------
(* Properties *)

\* No image is asked twice in a sweep, and none is left out: when a registry
\* is done, every image has been answered, skipped or has thrown. The next
\* sweep starts at the first image, in the order of the last one, that got no
\* answer, in whatever order the answers came and whatever restarts followed.
EachInItsTurn ==
  /\ sweeping => \A r \in due :
       /\ \A i \in asking[r] : outcome[r][i] = "none"
       /\ asking[r] = {} => \A i \in Images(r) : outcome[r][i] # "none"
  /\ ~sweeping => \A r \in Registries \ torn :
       LET gap(k) == outcome[r][At(r, k)] = "skipped"
       IN IF resume[r] = 0 THEN \A k \in Images(r) : ~gap(k)
          ELSE \A k \in Images(r) : k < Place(r, resume[r]) => ~gap(k)

\* A sweep that told the server nothing, was cut short by a restart, or had a
\* check that threw.
Fruitless(r) ==
  \/ r \in torn
  \/ /\ ~sweeping
     /\ \/ \A i \in Images(r) : outcome[r][i] # "answered"
        \/ \E i \in Images(r) : outcome[r][i] = "threw"

\* A limit that comes back in every sweep does not keep asking about the head
\* of the list and never about its tail: as long as the sweeps bear fruit,
\* each image gets its answer again and again.
EveryImageAnswered ==
  \A r \in Registries : \A i \in Images(r) :
    []<>Fruitless(r) \/ []<>(outcome[r][i] = "answered")
=============================================================================
