----------------------------- MODULE AgentProofs -----------------------------
(***************************************************************************)
(* What the agent does of its own accord, for any constants: the schedules *)
(* of auto-update (AutoUpdateSchedule) and the watch over Docker's event   *)
(* stream (HostWatch).                                                     *)
(*                                                                         *)
(* Of the schedules three invariants, proved by one walk over the actions. *)
(* Base holds by itself: above all, a stored date that has passed and      *)
(* belongs to the plan there is now is one that is owed. StartedIsUnderWay *)
(* ties the marks in state.json to the run at work; a policy that leaves   *)
(* its schedule out drops the entry they are kept in, so it speaks of the  *)
(* other schedules. Kept is what a process that starts must find, and what *)
(* one that has stamped a coming date over it must have on its way.        *)
(*                                                                         *)
(* Of the watch one (WatchInv): what the daemon has announced after the    *)
(* cursor and the watcher has not seen is on its way in the last stream,   *)
(* in the order of its numbers, so the cursor's second and what was seen   *)
(* in it tell a repeated event from a new one.                             *)
(***************************************************************************)
EXTENDS AutoUpdateSchedule, HostWatch, FiniteSetTheorems, SequenceTheorems, TLAPS

Runs == [key : Keys, how : {"clock", "catchup", "manual"}]
Dues == [key : Keys, why : {"interrupted", "missed"}]

TypeOK ==
  /\ up \in BOOLEAN
  /\ policy \in [Keys -> Crons \cup {Off}]
  /\ state \in [Keys -> {Absent} \cup Entries]
  /\ catchup \subseteq Dues
  /\ queue \in Seq(Runs)
  /\ phase \in {"idle", "jitter", "working", "replacing"}
  /\ gate \in {"open", "closed"}
  /\ owed \in [Keys -> BOOLEAN]
  /\ note \in [Keys -> {"kept", "covered", "lost"}]
  /\ ended \in [Keys -> {"no", "refused", "cut", "self"}]
  /\ leftOut \subseteq Keys

\* What is in memory goes with the process, and only a run that has been
\* taken up is in a phase.
Memory ==
  /\ ~up => catchup = {} /\ queue = <<>> /\ phase = "idle" /\ gate = "open"
  /\ queue = <<>> => phase = "idle"

\* While the agent is up its entries are those of the policy, and a planned
\* one has a date.
Stamped ==
  up => \A k \in Keys :
    /\ state[k] = Absent => policy[k] = Off
    /\ state[k] # Absent => state[k].cron = policy[k]
    /\ policy[k] # Off => state[k].next # "none"

\* Owed is only what the policy plans, under the expression it was stored with.
OwedPlanned ==
  \A k \in Keys : owed[k] =>
    policy[k] # Off /\ state[k] # Absent /\ state[k].cron = policy[k]

\* A passed date of the plan there is now is owed.
PastIsOwed ==
  \A k \in Keys :
    state[k] # Absent /\ state[k].next = "past" /\ policy[k] # Off /\ state[k].cron = policy[k]
      => owed[k]

Begun(k) == state[k] # Absent /\ state[k].started

\* The entry of the run under way is marked as begun and no other, as the
\* agent's own once it is; and when the process ends, what was cut short is.
\* Nothing of it is said of a schedule that was left out under its run.
StartedIsUnderWay ==
  /\ \A k \in Keys \ leftOut : state[k] # Absent /\ state[k].self => state[k].started
  /\ up => \A k \in Keys : ended[k] \in {"no", "refused"}
  /\ up => \A k \in Keys \ leftOut :
       /\ Begun(k) <=> UnderWay(k)
       /\ Begun(k) => (state[k].self <=> phase = "replacing")
  /\ ~up => \A k \in Keys \ leftOut : Begun(k) /\ ~state[k].self <=> ended[k] = "cut"

\* The next process finds the run in state.json.
Marked(k) == state[k] # Absent /\ (state[k].next = "past" \/ state[k].started)

\* A run the schedule itself asked for is queued, or one is under way.
Scheduled(k) ==
  \E i \in 1 .. Len(queue) :
    queue[i].key = k /\ (queue[i].how # "manual" \/ (i = 1 /\ AtWork))

\* What is owed the next process finds, and where planning covered it this
\* one has it on its way. An owed run that was not refused is with the chain,
\* so that planning can cover nothing that no run is left for.
Kept ==
  \A k \in Keys : owed[k] =>
    /\ note[k] = "kept" => Marked(k)
    /\ note[k] = "covered" => up /\ OnItsWay(k)
    /\ up /\ note[k] = "kept" /\ ended[k] # "refused" => Scheduled(k)

Base == TypeOK /\ Memory /\ Stamped /\ OwedPlanned /\ PastIsOwed

USE DEF AtWork

-----------------------------------------------------------------------------
(* The operators the model is built from. *)

\* The entry a schedule is taken to have.
LEMMA EntryTyped ==
  ASSUME TypeOK, NEW k \in Keys
  PROVE  /\ Entry(k) \in Entries
         /\ state[k] # Absent => Entry(k) = state[k]
         /\ state[k] = Absent =>
              /\ Entry(k).cron = Off /\ Entry(k).next = "none"
              /\ ~Entry(k).started /\ ~Entry(k).self
<1>1. CASE state[k] = Absent
  <2>1. Entry(k) = NewEntry
    BY <1>1 DEF Entry
  <2>2. /\ NewEntry \in Entries /\ NewEntry.cron = Off /\ NewEntry.next = "none"
        /\ ~NewEntry.started /\ ~NewEntry.self
    BY DEF NewEntry, Entries
  <2> QED
    BY <1>1, <2>1, <2>2
<1>2. CASE state[k] # Absent
  BY <1>2 DEF Entry, TypeOK
<1> QED
  BY <1>1, <1>2

\* Planning stamps what is planned and keeps the rest of the entry.
LEMMA PlanTyped ==
  ASSUME TypeOK, NEW p \in [Keys -> Crons \cup {Off}]
  PROVE  /\ Plan(p) \in [Keys -> {Absent} \cup Entries]
         /\ \A k \in Keys :
              /\ p[k] = Off => Plan(p)[k] = Absent
              /\ p[k] # Off =>
                   /\ Plan(p)[k] \in Entries /\ Plan(p)[k] # Absent
                   /\ Plan(p)[k].cron = p[k] /\ Plan(p)[k].next = "ahead"
                   /\ Plan(p)[k].started <=> Entry(k).started
                   /\ Plan(p)[k].self <=> Entry(k).self
<1>1. ASSUME NEW k \in Keys
      PROVE  /\ p[k] = Off => Plan(p)[k] = Absent
             /\ p[k] # Off =>
                  /\ Plan(p)[k] \in Entries /\ Plan(p)[k] # Absent
                  /\ Plan(p)[k].cron = p[k] /\ Plan(p)[k].next = "ahead"
                  /\ Plan(p)[k].started <=> Entry(k).started
                  /\ Plan(p)[k].self <=> Entry(k).self
  <2>1. CASE p[k] = Off
    BY <2>1 DEF Plan, Planned
  <2>2. CASE p[k] # Off
    <3> DEFINE e == [Entry(k) EXCEPT !.cron = p[k], !.next = "ahead"]
    <3>1. Plan(p)[k] = e
      BY <2>2 DEF Plan, Planned
    <3>2. /\ e \in Entries /\ e.cron = p[k] /\ e.next = "ahead"
          /\ e.started <=> Entry(k).started
          /\ e.self <=> Entry(k).self
      BY EntryTyped DEF Entries
    <3> QED
      BY <2>2, <3>1, <3>2, AbsentAssumption
  <2> QED
    BY <2>1, <2>2
<1>2. Plan(p) = [k \in Keys |-> Plan(p)[k]]
  BY DEF Plan
<1> QED
  BY <1>1, <1>2

\* SetToSeq puts the members of a finite set in some order.
LEMMA InSomeOrder ==
  ASSUME NEW S, IsFiniteSet(S)
  PROVE  /\ SetToSeq(S) \in Seq(S)
         /\ \A x \in S : \E i \in 1 .. Len(SetToSeq(S)) : SetToSeq(S)[i] = x
<1> DEFINE n == Cardinality(S)
           f == SetToSeq(S)
<1>1. n \in Nat /\ ExistsBijection(1 .. n, S)
  BY FS_CardinalityType
<1>2. \E g \in [1 .. n -> S] : IsInjective(g)
  BY <1>1 DEF ExistsBijection, Bijection, Injection
<1>3. f \in [1 .. n -> S] /\ IsInjective(f)
  BY <1>2 DEF SetToSeq
<1> HIDE DEF f
<1>4. f \in Injection(1 .. n, S)
  BY <1>3 DEF Injection
<1>5. Cardinality(1 .. n) = n
  BY <1>1, FS_Interval
<1>6. f \in Surjection(1 .. n, S)
  BY <1>4, <1>5, FS_Injection
<1>7. f \in Seq(S) /\ Len(f) = n
  BY <1>1, <1>3, SeqDef, LenProperties
<1> QED
  BY <1>6, <1>7 DEF f, Surjection

\* There are finitely many runs of one kind.
LEMMA FinitelyMany ==
  ASSUME NEW how \in {"clock", "catchup", "manual"}, NEW S \in SUBSET Runs,
         \A r \in S : r.how = how
  PROVE  IsFiniteSet(S)
<1> DEFINE T == {[key |-> k, how |-> how] : k \in Keys}
           f == [k \in Keys |-> [key |-> k, how |-> how]]
<1>1. f \in Surjection(Keys, T)
  BY DEF Surjection
<1>2. IsFiniteSet(T)
  BY <1>1, KeysAssumption, FS_Surjection
<1>3. S \subseteq T
  <2> SUFFICES ASSUME NEW r \in S PROVE r \in T
    OBVIOUS
  <2>1. r.key \in Keys /\ r = [key |-> r.key, how |-> r.how]
    BY DEF Runs
  <2> QED
    BY <2>1
<1> QED
  BY <1>2, <1>3, FS_Subset

\* What is queued at once comes behind what was queued before.
LEMMA Queues ==
  ASSUME queue \in Seq(Runs), NEW how \in {"clock", "catchup", "manual"},
         NEW S \in SUBSET Runs, \A r \in S : r.how = how
  PROVE  LET new == queue \o SetToSeq(S) IN
         /\ new \in Seq(Runs) /\ Len(new) >= Len(queue)
         /\ queue # <<>> => new # <<>>
         /\ \A i \in 1 .. Len(queue) : new[i] = queue[i]
         /\ \A i \in 1 .. Len(new) : i > Len(queue) => new[i].how = how
         /\ \A r \in S : \E i \in 1 .. Len(new) : i > Len(queue) /\ new[i] = r
<1> DEFINE q == SetToSeq(S)
           new == queue \o q
<1>1. /\ q \in Seq(S)
      /\ \A x \in S : \E i \in 1 .. Len(q) : q[i] = x
  BY FinitelyMany, InSomeOrder
<1>2. /\ q \in Seq(Runs)
      /\ \A i \in 1 .. Len(q) : q[i] \in S
  BY <1>1, ElementOfSeq, SeqMonotonic
<1> HIDE DEF q
<1>3. /\ new \in Seq(Runs) /\ Len(new) = Len(queue) + Len(q)
      /\ \A i \in 1 .. Len(queue) + Len(q) :
           new[i] = IF i <= Len(queue) THEN queue[i] ELSE q[i - Len(queue)]
  BY <1>2, ConcatProperties
<1>4. Len(queue) \in Nat /\ Len(q) \in Nat
  BY <1>2, LenProperties
<1>5. queue # <<>> => new # <<>>
  BY <1>2, ConcatSimplifications
<1> HIDE DEF new
<1>6. \A i \in 1 .. Len(queue) : new[i] = queue[i]
  BY <1>3, <1>4
<1>7. \A i \in 1 .. Len(new) : i > Len(queue) => new[i].how = how
  BY <1>2, <1>3, <1>4
<1>8. ASSUME NEW r \in S
      PROVE  \E i \in 1 .. Len(new) : i > Len(queue) /\ new[i] = r
  <2>1. PICK j \in 1 .. Len(q) : q[j] = r
    BY <1>1 DEF q
  <2> DEFINE i == Len(queue) + j
  <2>2. /\ i \in 1 .. Len(queue) + Len(q) /\ i > Len(queue) /\ ~(i <= Len(queue))
        /\ i - Len(queue) = j
    BY <1>4
  <2> HIDE DEF i
  <2>3. i \in 1 .. Len(new) /\ new[i] = r
    BY <1>3, <2>1, <2>2
  <2> QED
    BY <2>2, <2>3
<1> QED
  BY <1>3, <1>4, <1>5, <1>6, <1>7, <1>8 DEF new, q

\* The run that is taken up first.
LEMMA First ==
  ASSUME TypeOK, queue # <<>>
  PROVE  /\ Head(queue) \in Runs /\ Head(queue).key \in Keys
         /\ Head(queue) = queue[1] /\ Len(queue) \in Nat /\ Len(queue) >= 1
         /\ Tail(queue) \in Seq(Runs) /\ Len(Tail(queue)) = Len(queue) - 1
         /\ \A i \in 1 .. Len(Tail(queue)) : Tail(queue)[i] = queue[i + 1]
<1>1. queue \in Seq(Runs)
  BY DEF TypeOK
<1>2. /\ Head(queue) \in Runs
      /\ Tail(queue) \in Seq(Runs) /\ Len(Tail(queue)) = Len(queue) - 1
      /\ \A i \in 1 .. Len(Tail(queue)) : Tail(queue)[i] = queue[i + 1]
  BY <1>1, HeadTailProperties
<1>3. Len(queue) \in Nat /\ Len(queue) # 0
  BY <1>1, LenProperties, EmptySeq
<1>4. Head(queue) = queue[1] /\ Head(queue).key \in Keys
  BY <1>1, <1>2 DEF Runs
<1> QED
  BY <1>2, <1>3, <1>4

-----------------------------------------------------------------------------
(* The steps. Base holds by itself, StartedIsUnderWay needs Base, and Kept *)
(* both, as planning keeps the note of the run that is under way.          *)

Holds ==
  /\ Base'
  /\ StartedIsUnderWay => StartedIsUnderWay'
  /\ StartedIsUnderWay /\ Kept => Kept'

\* The typing of one entry that a step changes.
LEMMA OneEntry ==
  ASSUME TypeOK, NEW k \in Keys, NEW e \in Entries, state' = [state EXCEPT ![k] = e]
  PROVE  /\ state' \in [Keys -> {Absent} \cup Entries]
         /\ state'[k] = e /\ e # Absent
         /\ \A j \in Keys : j # k => state'[j] = state[j]
BY AbsentAssumption DEF TypeOK

LEMMA StartStep == ASSUME Base, Start PROVE Holds
<1> DEFINE e(k) == [Plan(policy)[k] EXCEPT !.started = FALSE,
                       !.self = IF Entry(k).started THEN FALSE ELSE @]
<1>0. /\ TypeOK /\ policy \in [Keys -> Crons \cup {Off}]
      /\ ~up /\ up' = TRUE /\ catchup' = Due
      /\ catchup = {} /\ queue = <<>> /\ phase = "idle" /\ gate = "open"
      /\ UNCHANGED <<policy, queue, phase, gate, owed, leftOut, upsets>>
      /\ ended' = [k \in Keys |-> "no"]
      /\ note' = [k \in Keys |-> IF owed[k] /\ note[k] = "kept" THEN "covered" ELSE note[k]]
  BY DEF Base, Memory, TypeOK, Start
<1>1. ASSUME NEW k \in Keys
      PROVE  /\ policy[k] = Off => state'[k] = Absent
             /\ policy[k] # Off =>
                  /\ state'[k] \in Entries /\ state'[k] # Absent
                  /\ state'[k].cron = policy[k] /\ state'[k].next = "ahead"
                  /\ ~state'[k].started
                  /\ state'[k].self => Entry(k).self /\ ~Entry(k).started
  <2>1. CASE policy[k] = Off
    BY <1>0, <2>1, PlanTyped DEF Start
  <2>2. CASE policy[k] # Off
    <3>1. /\ Plan(policy)[k] \in Entries /\ Plan(policy)[k] # Absent
          /\ Plan(policy)[k].cron = policy[k] /\ Plan(policy)[k].next = "ahead"
          /\ Plan(policy)[k].self <=> Entry(k).self
      BY <1>0, <2>2, PlanTyped
    <3>2. state'[k] = e(k)
      BY <3>1 DEF Start
    <3>3. Entry(k).started \in BOOLEAN
      BY <1>0, EntryTyped DEF Entries
    <3>4. /\ e(k) \in Entries /\ e(k).cron = policy[k] /\ e(k).next = "ahead"
          /\ ~e(k).started
          /\ e(k).self => Entry(k).self /\ ~Entry(k).started
      BY <3>1, <3>3 DEF Entries
    <3> QED
      BY <2>2, <3>2, <3>4, AbsentAssumption
  <2> QED
    BY <2>1, <2>2
<1>2. TypeOK'
  <2>1. state' \in [Keys -> {Absent} \cup Entries]
    <3>1. state' = [k \in Keys |-> state'[k]]
      BY DEF Start
    <3> QED
      BY <1>1, <3>1
  <2>2. catchup' \subseteq Dues
    BY <1>0 DEF Due, Dues, Planned
  <2> QED
    BY <1>0, <2>1, <2>2 DEF TypeOK
<1>3. Memory' /\ Stamped' /\ PastIsOwed' /\ OwedPlanned'
  <2>1. Memory'
    BY <1>0 DEF Memory
  <2>2. Stamped'
    BY <1>0, <1>1 DEF Stamped
  <2>3. PastIsOwed'
    BY <1>0, <1>1 DEF PastIsOwed
  <2>4. OwedPlanned'
    BY <1>0, <1>1 DEF Base, OwedPlanned
  <2> QED
    BY <2>1, <2>2, <2>3, <2>4
<1>4. ASSUME StartedIsUnderWay PROVE StartedIsUnderWay'
  <2>1. \A k \in Keys \ leftOut : Entry(k).self => Entry(k).started
    BY <1>0, <1>4, EntryTyped DEF StartedIsUnderWay
  <2>2. \A k \in Keys \ leftOut : state'[k] # Absent => ~state'[k].self /\ ~state'[k].started
    BY <1>1, <2>1
  <2>3. \A k \in Keys : ~UnderWay(k)' /\ ended'[k] = "no"
    BY <1>0 DEF UnderWay
  <2> QED
    BY <1>0, <2>2, <2>3 DEF StartedIsUnderWay, Begun
<1>5. ASSUME Kept PROVE Kept'
  <2>1. ASSUME NEW k \in Keys, owed'[k], note'[k] # "lost"
        PROVE  note'[k] = "covered" /\ OnItsWay(k)'
    <3>1. owed[k] /\ note[k] = "kept" /\ note'[k] = "covered"
      BY <1>0, <1>5, <2>1 DEF Kept, TypeOK
    <3>2. /\ policy[k] # Off /\ state[k] # Absent /\ state[k].cron = policy[k]
          /\ Marked(k)
      BY <1>5, <3>1 DEF Base, OwedPlanned, Kept
    <3>3. CASE state[k].started
      <4>1. [key |-> k, why |-> "interrupted"] \in Due
        BY <3>2, <3>3 DEF Due, Planned
      <4> QED
        BY <1>0, <3>1, <4>1 DEF OnItsWay
    <3>4. CASE ~state[k].started /\ state[k].next = "past"
      <4>1. [key |-> k, why |-> "missed"] \in Due
        BY <3>2, <3>4 DEF Due, Planned
      <4> QED
        BY <1>0, <3>1, <4>1 DEF OnItsWay
    <3> QED
      BY <3>2, <3>3, <3>4 DEF Marked
  <2> QED
    BY <1>0, <2>1 DEF Kept
<1> QED
  BY <1>2, <1>3, <1>4, <1>5 DEF Holds, Base

\* What is queued more comes behind what is there.
LEMMA QueueGrows ==
  ASSUME Base, queue' \in Seq(Runs), UNCHANGED phase, queue # <<>> => queue' # <<>>,
         Len(queue') >= Len(queue), \A i \in 1 .. Len(queue) : queue'[i] = queue[i]
  PROVE  /\ \A k \in Keys : UnderWay(k)' <=> UnderWay(k)
         /\ \A k \in Keys : Scheduled(k) => Scheduled(k)'
         /\ \A k \in Keys : QueuedFor(k) => QueuedFor(k)'
<1>0. Len(queue) \in Nat /\ Len(queue') \in Nat
  BY LenProperties DEF Base, TypeOK
<1>1. ASSUME AtWork PROVE Head(queue') = Head(queue)
  <2>1. queue # <<>> /\ queue' # <<>>
    BY <1>1 DEF Base, Memory
  <2>2. Head(queue) = queue[1] /\ Len(queue) >= 1
    BY <2>1, First DEF Base
  <2>3. Head(queue') = queue'[1]
    BY <2>1, HeadTailProperties
  <2> QED
    BY <1>0, <2>2, <2>3
<1>2. \A i \in 1 .. Len(queue) : i \in 1 .. Len(queue')
  BY <1>0
<1> QED
  BY <1>1, <1>2 DEF UnderWay, Scheduled, QueuedFor

\* Then the marks say what they said.
LEMMA SameMarks ==
  ASSUME Base, StartedIsUnderWay, up, \A k \in Keys : UnderWay(k)' <=> UnderWay(k),
         UNCHANGED <<up, state, leftOut, phase>>,
         \A k \in Keys : ended'[k] = ended[k] \/ ended'[k] \in {"no", "refused"}
  PROVE  StartedIsUnderWay'
BY DEF StartedIsUnderWay, Begun

LEMMA CatchUpStep == ASSUME Base, CatchUp PROVE Holds
<1> DEFINE S == {[key |-> c.key, how |-> "catchup"] : c \in catchup}
<1>0. /\ TypeOK /\ up /\ up' = up /\ catchup # {} /\ queue' = queue \o SetToSeq(S)
      /\ catchup' = {} /\ UNCHANGED <<up, policy, state, phase, gate, owed, note, ended, leftOut>>
      /\ catchup \subseteq Dues /\ queue \in Seq(Runs)
  BY DEF Base, TypeOK, CatchUp
<1>1. S \in SUBSET Runs /\ (\A r \in S : r.how = "catchup")
  BY <1>0 DEF Dues, Runs
<1>2. \A c \in catchup : [key |-> c.key, how |-> "catchup"] \in S
  OBVIOUS
<1> HIDE DEF S
<1> DEFINE new == queue \o SetToSeq(S)
<1>a. "catchup" \in {"clock", "catchup", "manual"}
  OBVIOUS
<1>b. /\ new \in Seq(Runs) /\ Len(new) >= Len(queue)
      /\ queue # <<>> => new # <<>>
      /\ \A i \in 1 .. Len(queue) : new[i] = queue[i]
      /\ \A i \in 1 .. Len(new) : i > Len(queue) => new[i].how = "catchup"
      /\ \A r \in S : \E i \in 1 .. Len(new) : i > Len(queue) /\ new[i] = r
  BY <1>0, <1>1, <1>a, Queues, Zenon
<1>c. queue' = new
  BY <1>0
<1> HIDE DEF new
<1>3. /\ queue' \in Seq(Runs) /\ Len(queue') >= Len(queue)
      /\ queue # <<>> => queue' # <<>>
      /\ \A i \in 1 .. Len(queue) : queue'[i] = queue[i]
      /\ \A r \in S : \E i \in 1 .. Len(queue') : queue'[i] = r
  BY <1>b, <1>c
<1>4. /\ \A k \in Keys : UnderWay(k)' <=> UnderWay(k)
      /\ \A k \in Keys : Scheduled(k) => Scheduled(k)'
      /\ \A k \in Keys : QueuedFor(k) => QueuedFor(k)'
  BY <1>0, <1>3, QueueGrows
<1>5. Base'
  BY <1>0, <1>3 DEF Base, TypeOK, Memory, Stamped, OwedPlanned, PastIsOwed
<1>6. ASSUME NEW k \in Keys, OnItsWay(k) PROVE OnItsWay(k)'
  <2>1. CASE \E c \in catchup : c.key = k
    <3>1. [key |-> k, how |-> "catchup"] \in S
      BY <1>2, <2>1
    <3>2. PICK i \in 1 .. Len(queue') : queue'[i] = [key |-> k, how |-> "catchup"]
      BY <1>3, <3>1
    <3> QED
      BY <3>2 DEF OnItsWay, QueuedFor
  <2> QED
    BY <1>4, <1>6, <2>1 DEF OnItsWay
<1>7. ASSUME StartedIsUnderWay PROVE StartedIsUnderWay'
  BY <1>0, <1>4, <1>7, SameMarks
<1>8. ASSUME Kept PROVE Kept'
  BY <1>0, <1>4, <1>6, <1>8 DEF Kept, Marked
<1> QED
  BY <1>5, <1>7, <1>8 DEF Holds

LEMMA ApplyStep == ASSUME Base, NEW p \in [Keys -> Crons \cup {Off}], Apply(p) PROVE Holds
<1>0. /\ TypeOK /\ up /\ policy' = p /\ state' = Plan(p)
      /\ owed' = [k \in Keys |-> owed[k] /\ p[k] = policy[k]]
      /\ leftOut' = leftOut \cup {k \in Keys \ Planned(p) : UnderWay(k)}
      /\ UNCHANGED <<up, catchup, queue, phase, gate, ended, upsets>>
  BY DEF Base, Apply
<1>1. /\ state' \in [Keys -> {Absent} \cup Entries]
      /\ \A k \in Keys :
           /\ p[k] = Off => state'[k] = Absent
           /\ p[k] # Off =>
                /\ state'[k] \in Entries /\ state'[k] # Absent
                /\ state'[k].cron = p[k] /\ state'[k].next = "ahead"
                /\ state'[k].started <=> Entry(k).started
                /\ state'[k].self <=> Entry(k).self
  BY <1>0, PlanTyped
<1>2. \A k \in Keys : owed'[k] => owed[k] /\ p[k] = policy[k] /\ policy[k] # Off
  BY <1>0 DEF Base, OwedPlanned
<1>n. /\ note' \in [Keys -> {"kept", "covered", "lost"}]
      /\ \A k \in Keys : owed'[k] /\ note'[k] = "kept" =>
           note[k] = "kept" /\ UnderWay(k) /\ k \notin leftOut
      /\ \A k \in Keys : owed'[k] /\ note'[k] = "covered" =>
           \/ note[k] = "covered"
           \/ note[k] = "kept" /\ (ended[k] # "refused" \/ OnItsWay(k))
  <2> DEFINE n(k) ==
        IF ~(owed[k] /\ p[k] = policy[k]) THEN "kept"
        ELSE IF UnderWay(k) /\ k \notin leftOut THEN note[k]
        ELSE IF note[k] = "lost" \/ (ended[k] = "refused" /\ ~OnItsWay(k)) THEN "lost"
        ELSE "covered"
  <2>1. note' = [k \in Keys |-> n(k)]
    BY DEF Apply
  <2>2. ASSUME NEW k \in Keys
        PROVE  /\ n(k) \in {"kept", "covered", "lost"}
               /\ owed'[k] /\ n(k) = "kept" =>
                    note[k] = "kept" /\ UnderWay(k) /\ k \notin leftOut
               /\ owed'[k] /\ n(k) = "covered" =>
                    \/ note[k] = "covered"
                    \/ note[k] = "kept" /\ (ended[k] # "refused" \/ OnItsWay(k))
    <3>1. note[k] \in {"kept", "covered", "lost"}
      BY <1>0 DEF TypeOK
    <3>2. owed'[k] <=> owed[k] /\ p[k] = policy[k]
      BY <1>0
    <3>3. CASE ~owed'[k]
      BY <3>2, <3>3
    <3>4. CASE owed'[k]
      BY <3>1, <3>2, <3>4
    <3> QED
      BY <3>3, <3>4
  <2> HIDE DEF n
  <2> QED
    BY <2>1, <2>2
<1>3. TypeOK'
  BY <1>0, <1>1, <1>n DEF TypeOK
<1>4. Memory'
  BY <1>0 DEF Base, Memory
<1>5. Stamped' /\ OwedPlanned' /\ PastIsOwed'
  BY <1>0, <1>1, <1>2 DEF Stamped, OwedPlanned, PastIsOwed
<1>u. \A k \in Keys : UnderWay(k)' <=> UnderWay(k)
  BY <1>0 DEF UnderWay
<1>6. ASSUME StartedIsUnderWay PROVE StartedIsUnderWay'
  <2>1. ASSUME NEW k \in Keys \ leftOut'
        PROVE  /\ Begun(k)' <=> Begun(k)
               /\ UnderWay(k) => p[k] # Off
               /\ state'[k] # Absent => (state'[k].self <=> Entry(k).self)
               /\ Entry(k).self => state[k] # Absent /\ state[k].self
    <3>1. k \in Keys \ leftOut /\ (UnderWay(k) => p[k] # Off)
      BY <1>0, <2>1 DEF Planned
    <3>2. CASE p[k] = Off
      BY <1>0, <1>1, <1>6, <3>1, <3>2, EntryTyped DEF StartedIsUnderWay, Begun
    <3>3. CASE p[k] # Off
      BY <1>0, <1>1, <3>1, <3>3, EntryTyped DEF Begun
    <3> QED
      BY <3>2, <3>3
  <2>2. ASSUME NEW k \in Keys \ leftOut'
        PROVE  /\ state'[k] # Absent /\ state'[k].self => state'[k].started
               /\ Begun(k)' <=> UnderWay(k)'
               /\ Begun(k)' => (state'[k].self <=> phase' = "replacing")
    <3>1. k \in Keys \ leftOut
      BY <1>0, <2>2
    <3>2. /\ state[k] # Absent /\ state[k].self => state[k].started
          /\ Begun(k) <=> UnderWay(k)
          /\ Begun(k) => (state[k].self <=> phase = "replacing")
      BY <1>0, <1>6, <3>1 DEF StartedIsUnderWay
    <3>3. Begun(k) => Entry(k) = state[k]
      BY <1>0, <3>1, EntryTyped DEF Begun
    <3>4. Begun(k)' => state'[k] # Absent /\ (state'[k].self <=> phase' = "replacing")
      BY <1>0, <2>1, <3>2, <3>3 DEF Begun
    <3>5. state'[k] # Absent /\ state'[k].self => state'[k].started
      BY <1>0, <2>1, <3>2 DEF Begun
    <3> QED
      BY <1>u, <2>1, <3>2, <3>4, <3>5
  <2> QED
    BY <1>0, <1>6, <2>2 DEF StartedIsUnderWay
<1>7. ASSUME StartedIsUnderWay, Kept PROVE Kept'
  <2>1. ASSUME NEW k \in Keys, owed'[k], note'[k] = "kept"
        PROVE  Marked(k)' /\ Scheduled(k)'
    <3>1. UnderWay(k) /\ k \notin leftOut
      BY <1>n, <2>1
    <3>2. Begun(k) /\ Entry(k) = state[k] /\ p[k] # Off
      BY <1>0, <1>2, <1>7, <2>1, <3>1, EntryTyped DEF StartedIsUnderWay, Begun
    <3>3. Marked(k)'
      BY <1>1, <3>2 DEF Marked, Begun
    <3>4. queue # <<>>
      BY <3>1 DEF Base, Memory, UnderWay
    <3>5. Head(queue) = queue[1] /\ 1 \in 1 .. Len(queue)
      BY <1>0, <3>4, First
    <3> QED
      BY <1>0, <3>1, <3>3, <3>5 DEF UnderWay, Scheduled
  <2>2. ASSUME NEW k \in Keys, owed'[k], note'[k] = "covered"
        PROVE  OnItsWay(k)'
    <3>1. owed[k]
      BY <1>2, <2>2
    <3>2. note[k] = "covered" => OnItsWay(k)
      BY <1>7, <3>1 DEF Kept
    <3>3. note[k] = "kept" /\ ended[k] # "refused" => OnItsWay(k)
      BY <1>0, <1>7, <3>1 DEF Kept, Scheduled, OnItsWay, QueuedFor
    <3> QED
      BY <1>0, <1>n, <2>2, <3>2, <3>3 DEF OnItsWay, QueuedFor
  <2> QED
    BY <1>0, <2>1, <2>2 DEF Kept
<1> QED
  BY <1>3, <1>4, <1>5, <1>6, <1>7 DEF Holds, Base

LEMMA ClockStep == ASSUME Base, NEW k \in Keys, Clock(k) PROVE Holds
<1>0. /\ TypeOK /\ UNCHANGED <<up, policy, catchup, phase, gate, leftOut>>
      /\ policy[k] # Off /\ queue \in Seq(Runs)
      /\ note' = [note EXCEPT ![k] = "kept"]
  BY DEF Base, TypeOK, Clock, Planned
<1>n. /\ note' \in [Keys -> {"kept", "covered", "lost"}] /\ note'[k] = "kept"
      /\ \A j \in Keys : j # k => note'[j] = note[j]
  BY <1>0 DEF TypeOK
<1>1. /\ state' \in [Keys -> {Absent} \cup Entries]
      /\ \A j \in Keys : j # k => state'[j] = state[j]
      /\ state[k] = Absent => state'[k] = Absent
      /\ state[k] # Absent =>
           /\ state'[k] # Absent /\ state'[k].cron = state[k].cron
           /\ state'[k].started <=> state[k].started
           /\ state'[k].self <=> state[k].self
           /\ state[k].next # "none" => state'[k].next = "past"
           /\ state[k].next = "none" => state'[k].next = "none"
  <2>1. CASE state[k] # Absent /\ state[k].next = "ahead"
    <3> DEFINE e == [state[k] EXCEPT !.next = "past"]
    <3>1. state[k] \in Entries
      BY <1>0, <2>1 DEF TypeOK
    <3>2. state' = [state EXCEPT ![k] = e]
      BY <2>1 DEF Clock
    <3>3. /\ e \in Entries /\ e.cron = state[k].cron /\ e.next = "past"
          /\ e.started <=> state[k].started
          /\ e.self <=> state[k].self
      BY <3>1 DEF Entries
    <3> HIDE DEF e
    <3> QED
      BY <1>0, <2>1, <3>2, <3>3, OneEntry
  <2>2. CASE ~(state[k] # Absent /\ state[k].next = "ahead")
    <3>1. state' = state
      BY <2>2 DEF Clock
    <3>2. state[k] # Absent => state[k].next \in {"none", "past"}
      BY <1>0, <2>2 DEF TypeOK, Entries
    <3> QED
      BY <1>0, <3>1, <3>2 DEF TypeOK
  <2> QED
    BY <2>1, <2>2
<1>2. CASE up
  <2> DEFINE r == [key |-> k, how |-> "clock"]
  <2>1. r \in Runs /\ r.how # "manual" /\ r.key = k
    BY DEF Runs
  <2>2. /\ queue' = Append(queue, r) /\ owed' = [owed EXCEPT ![k] = TRUE]
        /\ ended' = [ended EXCEPT ![k] = "no"]
    BY <1>2 DEF Clock
  <2> HIDE DEF r
  <2>3. /\ queue' \in Seq(Runs) /\ queue' # <<>> /\ Len(queue') = Len(queue) + 1
        /\ \A i \in 1 .. Len(queue) : queue'[i] = queue[i]
        /\ queue'[Len(queue) + 1] = r
    BY <1>0, <2>1, <2>2, AppendProperties
  <2>4. Len(queue) \in Nat
    BY <1>0, LenProperties
  <2>5. Len(queue') >= Len(queue) /\ Len(queue) + 1 \in 1 .. Len(queue')
    BY <2>3, <2>4
  <2>6. /\ \A j \in Keys : UnderWay(j)' <=> UnderWay(j)
        /\ \A j \in Keys : Scheduled(j) => Scheduled(j)'
        /\ \A j \in Keys : QueuedFor(j) => QueuedFor(j)'
    BY <1>0, <2>3, <2>5, QueueGrows
  <2>e. /\ ended' \in [Keys -> {"no", "refused", "cut", "self"}] /\ ended'[k] = "no"
        /\ \A j \in Keys : j # k => ended'[j] = ended[j]
    BY <1>0, <2>2 DEF TypeOK
  <2>7. state[k] # Absent /\ state[k].next # "none" /\ state[k].cron = policy[k]
    BY <1>0, <1>2 DEF Base, Stamped
  <2>8. TypeOK'
    BY <1>0, <1>1, <1>n, <2>2, <2>3, <2>e DEF TypeOK
  <2>9. Memory' /\ Stamped' /\ OwedPlanned' /\ PastIsOwed'
    <3>1. Memory'
      BY <1>0, <1>2, <2>3 DEF Memory
    <3>2. Stamped'
      BY <1>0, <1>1, <1>2, <2>7 DEF Base, Stamped
    <3>3. OwedPlanned'
      BY <1>0, <1>1, <2>2, <2>7 DEF Base, OwedPlanned, TypeOK
    <3>4. PastIsOwed'
      BY <1>0, <1>1, <2>2, <2>7 DEF Base, PastIsOwed, TypeOK
    <3> QED
      BY <3>1, <3>2, <3>3, <3>4
  <2>10. ASSUME StartedIsUnderWay PROVE StartedIsUnderWay'
    <3>1. ASSUME NEW j \in Keys
          PROVE  /\ Begun(j)' <=> Begun(j)
                 /\ state'[j] = Absent <=> state[j] = Absent
                 /\ state[j] # Absent =>
                      /\ state'[j].self <=> state[j].self
                      /\ state'[j].started <=> state[j].started
      BY <1>1, <2>7 DEF Begun
    <3>2. \A j \in Keys : ended'[j] \in {"no", "refused"}
      BY <1>2, <2>10, <2>e DEF StartedIsUnderWay
    <3>3. \A j \in Keys : Begun(j) => state[j] # Absent
      BY DEF Begun
    <3> QED
      BY <1>0, <1>2, <2>6, <2>10, <3>1, <3>2, <3>3 DEF StartedIsUnderWay
  <2>11. ASSUME Kept PROVE Kept'
    <3>1. Marked(k)' /\ Scheduled(k)'
      BY <1>1, <2>1, <2>3, <2>5, <2>7 DEF Marked, Scheduled
    <3>2. ASSUME NEW j \in Keys, j # k, owed'[j]
          PROVE  /\ owed[j] /\ (Marked(j) => Marked(j)')
                 /\ note'[j] = note[j] /\ ended'[j] = ended[j]
                 /\ OnItsWay(j) => OnItsWay(j)'
      BY <1>0, <1>1, <1>n, <2>2, <2>6, <2>e, <3>2 DEF TypeOK, Marked, OnItsWay
    <3> QED
      BY <1>0, <1>2, <1>n, <2>6, <2>11, <3>1, <3>2 DEF Kept
  <2> QED
    BY <2>8, <2>9, <2>10, <2>11 DEF Holds, Base
<1>3. CASE ~up
  <2>1. /\ state[k] # Absent /\ state'[k].next = "past" /\ UNCHANGED <<queue, ended>>
        /\ owed' = [owed EXCEPT ![k] = @ \/ state[k].cron = policy[k]]
    BY <1>1, <1>3 DEF Clock
  <2>2. /\ \A j \in Keys : j # k => owed'[j] = owed[j]
        /\ owed'[k] <=> owed[k] \/ state[k].cron = policy[k]
        /\ owed' \in [Keys -> BOOLEAN]
    BY <1>0, <2>1 DEF TypeOK
  <2>3. TypeOK'
    BY <1>0, <1>1, <1>n, <2>1, <2>2 DEF TypeOK
  <2>4. Memory'
    BY <1>0, <1>3, <2>1 DEF Base, Memory
  <2>5. Stamped'
    BY <1>0, <1>3 DEF Stamped
  <2>6. OwedPlanned'
    BY <1>0, <1>1, <2>1, <2>2 DEF Base, OwedPlanned
  <2>7. PastIsOwed'
    BY <1>0, <1>1, <2>1, <2>2 DEF Base, PastIsOwed
  <2>8. ASSUME StartedIsUnderWay PROVE StartedIsUnderWay'
    BY <1>0, <1>1, <1>3, <2>1, <2>8 DEF StartedIsUnderWay, Begun
  <2>9. ASSUME Kept PROVE Kept'
    <3>1. Marked(k)'
      BY <1>1, <2>1 DEF Marked
    <3>2. ASSUME NEW j \in Keys, j # k
          PROVE  /\ owed'[j] = owed[j] /\ note'[j] = note[j]
                 /\ Marked(j) => Marked(j)'
      BY <1>1, <1>n, <2>2, <3>2 DEF Marked
    <3> QED
      BY <1>0, <1>3, <1>n, <2>9, <3>1, <3>2 DEF Kept
  <2> QED
    BY <2>3, <2>4, <2>5, <2>6, <2>7, <2>8, <2>9 DEF Holds, Base
<1> QED
  BY <1>2, <1>3

LEMMA RunNowStep == ASSUME Base, RunNow PROVE Holds
<1> DEFINE S == {[key |-> k, how |-> "manual"] : k \in Planned(policy)}
           new == queue \o SetToSeq(S)
<1>0. /\ TypeOK /\ up /\ queue' = new /\ queue \in Seq(Runs) /\ catchup' \subseteq Dues
      /\ UNCHANGED <<up, policy, state, catchup, phase, gate, owed, note, ended, leftOut>>
  BY DEF Base, TypeOK, RunNow
<1>1. S \in SUBSET Runs /\ (\A r \in S : r.how = "manual")
  BY DEF Planned, Runs
<1> HIDE DEF S
<1>2. "manual" \in {"clock", "catchup", "manual"}
  OBVIOUS
<1>3. /\ new \in Seq(Runs) /\ Len(new) >= Len(queue)
      /\ queue # <<>> => new # <<>>
      /\ \A i \in 1 .. Len(queue) : new[i] = queue[i]
      /\ \A i \in 1 .. Len(new) : i > Len(queue) => new[i].how = "manual"
      /\ \A r \in S : \E i \in 1 .. Len(new) : i > Len(queue) /\ new[i] = r
  BY <1>0, <1>1, <1>2, Queues, Zenon
<1> HIDE DEF new
<1>4. /\ queue' \in Seq(Runs) /\ Len(queue') >= Len(queue)
      /\ queue # <<>> => queue' # <<>>
      /\ \A i \in 1 .. Len(queue) : queue'[i] = queue[i]
  BY <1>0, <1>3
<1>5. Base'
  BY <1>0, <1>4 DEF Base, TypeOK, Memory, Stamped, OwedPlanned, PastIsOwed
<1>6. /\ \A k \in Keys : UnderWay(k)' <=> UnderWay(k)
      /\ \A k \in Keys : Scheduled(k) => Scheduled(k)'
      /\ \A k \in Keys : OnItsWay(k) => OnItsWay(k)'
  BY <1>0, <1>4, QueueGrows DEF OnItsWay
<1>7. ASSUME StartedIsUnderWay PROVE StartedIsUnderWay'
  BY <1>0, <1>6, <1>7, SameMarks
<1>8. ASSUME Kept PROVE Kept'
  BY <1>0, <1>6, <1>8 DEF Kept, Marked
<1> QED
  BY <1>5, <1>7, <1>8 DEF Holds

LEMMA TakeUpStep == ASSUME Base, TakeUp PROVE Holds
<1>0. /\ TypeOK /\ up /\ queue # <<>> /\ phase = "idle" /\ phase' = "jitter"
      /\ UNCHANGED <<up, policy, state, catchup, queue, gate, owed, note, ended, leftOut>>
  BY DEF Base, TakeUp
<1>1. Base'
  BY <1>0 DEF Base, TypeOK, Memory, Stamped, OwedPlanned, PastIsOwed
<1>2. ASSUME StartedIsUnderWay PROVE StartedIsUnderWay'
  BY <1>0, <1>2 DEF StartedIsUnderWay, Begun, UnderWay
<1>4. ASSUME Kept PROVE Kept'
  BY <1>0, <1>4 DEF Kept, Marked, Scheduled, OnItsWay, QueuedFor
<1> QED
  BY <1>1, <1>2, <1>4 DEF Holds

\* The run at the gate is not under way, and it is the first.
LEMMA AtTheGate ==
  ASSUME Base, AtGate
  PROVE  /\ up /\ queue # <<>> /\ ~AtWork /\ phase \in {"idle", "jitter"}
         /\ Head(queue).key \in Keys /\ Head(queue) = queue[1]
         /\ Tail(queue) \in Seq(Runs)
BY First DEF Base, AtGate

LEMMA EnterStep == ASSUME Base, Enter PROVE Holds
<1> DEFINE k == Head(queue).key
           e == [Entry(k) EXCEPT !.started = TRUE]
<1>0. /\ TypeOK /\ up /\ queue # <<>> /\ ~AtWork /\ phase \in {"idle", "jitter"}
      /\ k \in Keys /\ k = queue[1].key
      /\ phase' = "working" /\ gate = "open"
      /\ state' = [state EXCEPT ![k] = e]
      /\ owed' = [owed EXCEPT ![k] = policy[k] # Off]
      /\ note' = [note EXCEPT ![k] = "kept"] /\ 1 \in 1 .. Len(queue)
      /\ UNCHANGED <<up, policy, catchup, queue, gate, ended, leftOut>>
  BY AtTheGate, First DEF Base, Enter
<1>1. /\ e \in Entries /\ e.started /\ e.cron = Entry(k).cron /\ e.next = Entry(k).next
      /\ e.self <=> Entry(k).self
  BY <1>0, EntryTyped DEF Entries
<1>2. Head(queue').key = k /\ Head(queue).key = k
  BY <1>0
<1> HIDE DEF e, k
<1>3. /\ state' \in [Keys -> {Absent} \cup Entries]
      /\ state'[k] = e /\ e # Absent
      /\ \A j \in Keys : j # k => state'[j] = state[j]
  BY <1>0, <1>1, OneEntry
<1>4. /\ owed' \in [Keys -> BOOLEAN] /\ (owed'[k] <=> policy[k] # Off)
      /\ note' \in [Keys -> {"kept", "covered", "lost"}] /\ note'[k] = "kept"
      /\ \A j \in Keys : j # k => owed'[j] = owed[j] /\ note'[j] = note[j]
  BY <1>0 DEF TypeOK
<1>5. /\ state[k] # Absent => e.cron = state[k].cron /\ e.next = state[k].next /\ (e.self <=> state[k].self)
      /\ state[k] = Absent => e.cron = Off /\ ~e.self
  BY <1>0, <1>1, EntryTyped
<1>6. /\ state[k] = Absent => policy[k] = Off
      /\ e.cron = policy[k]
      /\ policy[k] # Off => e.next # "none"
  BY <1>0, <1>5 DEF Base, Stamped
<1>7. Base'
  <2>1. TypeOK'
    BY <1>0, <1>3, <1>4 DEF TypeOK
  <2>2. Memory'
    BY <1>0 DEF Memory
  <2>3. Stamped'
    BY <1>0, <1>3, <1>6 DEF Base, Stamped
  <2>4. OwedPlanned'
    BY <1>0, <1>3, <1>4, <1>6 DEF Base, OwedPlanned
  <2>5. PastIsOwed'
    BY <1>0, <1>3, <1>4 DEF Base, PastIsOwed
  <2> QED
    BY <2>1, <2>2, <2>3, <2>4, <2>5 DEF Base
<1>8. ASSUME StartedIsUnderWay PROVE StartedIsUnderWay'
  <2>1. \A j \in Keys \ leftOut : ~Begun(j) /\ (state[j] # Absent => ~state[j].self)
    BY <1>0, <1>8 DEF StartedIsUnderWay, Begun, UnderWay
  <2>2. \A j \in Keys \ leftOut : j = k => Begun(j)' /\ ~state'[j].self
    BY <1>0, <1>1, <1>3, <1>5, <2>1 DEF Begun
  <2>3. \A j \in Keys \ leftOut : j # k => ~Begun(j)' /\ (state'[j] # Absent => ~state'[j].self)
    BY <1>3, <2>1 DEF Begun
  <2>4. \A j \in Keys : UnderWay(j)' <=> j = k
    BY <1>0, <1>2 DEF UnderWay
  <2>5. \A j \in Keys \ leftOut : state'[j] # Absent => ~state'[j].self
    BY <1>0, <2>2, <2>3
  <2>6. \A j \in Keys \ leftOut : Begun(j)' <=> UnderWay(j)'
    BY <1>0, <2>2, <2>3, <2>4
  <2>7. \A j \in Keys : Begun(j)' => state'[j] # Absent
    BY DEF Begun
  <2> QED
    BY <1>0, <1>8, <2>5, <2>6, <2>7 DEF StartedIsUnderWay
<1>9. ASSUME Kept PROVE Kept'
  <2>1. \A j \in Keys : j = k => Marked(j)' /\ Scheduled(j)'
    BY <1>0, <1>1, <1>3 DEF Marked, Scheduled
  <2>2. \A j \in Keys : Scheduled(j) => Scheduled(j)'
    BY <1>0 DEF Scheduled
  <2>3. \A j \in Keys : OnItsWay(j)' <=> OnItsWay(j)
    BY <1>0 DEF OnItsWay, QueuedFor
  <2>4. \A j \in Keys : j # k /\ Marked(j) => Marked(j)'
    BY <1>3 DEF Marked
  <2> QED
    BY <1>0, <1>4, <1>9, <2>1, <2>2, <2>3, <2>4 DEF Kept
<1> QED
  BY <1>7, <1>8, <1>9 DEF Holds

\* When the first run leaves the chain, the others stay.
LEMMA FirstLeaves ==
  ASSUME Base, queue # <<>>, queue' = Tail(queue)
  PROVE  \A i \in 1 .. Len(queue) : i # 1 => \E n \in 1 .. Len(queue') : queue'[n] = queue[i]
<1>1. /\ Len(queue) \in Nat /\ Len(queue') = Len(queue) - 1
      /\ \A i \in 1 .. Len(queue') : queue'[i] = queue[i + 1]
  BY First DEF Base
<1> SUFFICES ASSUME NEW i \in 1 .. Len(queue), i # 1
             PROVE  \E n \in 1 .. Len(queue') : queue'[n] = queue[i]
  OBVIOUS
<1> DEFINE n == i - 1
<1>2. n \in 1 .. Len(queue') /\ n + 1 = i
  BY <1>1
<1> HIDE DEF n
<1> QED
  BY <1>1, <1>2

LEMMA RefuseStep == ASSUME Base, Refuse PROVE Holds
<1> DEFINE k == Head(queue).key
           last == \A i \in 2 .. Len(queue) : queue[i].key # k
           alone == note[k] = "covered" /\ last /\ (\A c \in catchup : c.key # k)
<1>0. /\ TypeOK /\ up /\ queue # <<>> /\ ~AtWork /\ gate = "closed" /\ phase' = "idle"
      /\ queue' = Tail(queue) /\ Tail(queue) \in Seq(Runs) /\ k \in Keys
      /\ Head(queue) = queue[1]
      /\ ended' = IF Head(queue).how = "manual" THEN ended ELSE [ended EXCEPT ![k] = "refused"]
      /\ note' = IF alone THEN [note EXCEPT ![k] = "lost"] ELSE note
      /\ UNCHANGED <<up, policy, state, catchup, gate, owed, leftOut>>
  BY AtTheGate DEF Base, Refuse
<1>1. k = queue[1].key
  BY <1>0
<1>2. ~last => \E i \in 1 .. Len(queue) : i # 1 /\ queue[i].key = k
  OBVIOUS
<1> HIDE DEF k, last
<1>3. /\ ended' \in [Keys -> {"no", "refused", "cut", "self"}]
      /\ \A j \in Keys : ended'[j] = ended[j] \/ ended'[j] = "refused"
      /\ ended'[k] # "refused" => queue[1].how = "manual"
  BY <1>0 DEF TypeOK
<1>4. /\ note' \in [Keys -> {"kept", "covered", "lost"}]
      /\ \A j \in Keys : note'[j] # note[j] => note'[j] = "lost"
      /\ note'[k] = "covered" => ~last \/ \E c \in catchup : c.key = k
  BY <1>0 DEF TypeOK
<1>5. Base'
  BY <1>0, <1>3, <1>4 DEF Base, TypeOK, Memory, Stamped, OwedPlanned, PastIsOwed
<1>6. ASSUME StartedIsUnderWay PROVE StartedIsUnderWay'
  BY <1>0, <1>3, <1>6 DEF StartedIsUnderWay, Begun, UnderWay
<1>7. ASSUME Kept PROVE Kept'
  <2>0. \A i \in 1 .. Len(queue) : i # 1 => \E n \in 1 .. Len(queue') : queue'[n] = queue[i]
    BY <1>0, FirstLeaves
  <2>1. ASSUME NEW j \in Keys, OnItsWay(j), j = k => note'[k] = "covered"
        PROVE  OnItsWay(j)'
    <3>1. CASE \E c \in catchup : c.key = j
      BY <1>0, <3>1 DEF OnItsWay
    <3>2. CASE ~ \E c \in catchup : c.key = j
      <4>1. PICK i \in 1 .. Len(queue) : i # 1 /\ queue[i].key = j
        BY <1>1, <1>2, <1>4, <2>1, <3>2 DEF OnItsWay, QueuedFor
      <4>2. PICK n \in 1 .. Len(queue') : queue'[n] = queue[i]
        BY <2>0, <4>1
      <4> QED
        BY <4>1, <4>2 DEF OnItsWay, QueuedFor
    <3> QED
      BY <3>1, <3>2
  <2>2. ASSUME NEW j \in Keys, Scheduled(j), ended'[j] # "refused"
        PROVE  Scheduled(j)'
    <3>1. PICK i \in 1 .. Len(queue) : queue[i].key = j /\ queue[i].how # "manual"
      BY <1>0, <2>2 DEF Scheduled
    <3>2. i # 1
      BY <1>1, <1>3, <2>2, <3>1
    <3>3. PICK n \in 1 .. Len(queue') : queue'[n] = queue[i]
      BY <2>0, <3>2
    <3> QED
      BY <3>1, <3>3 DEF Scheduled
  <2>3. ASSUME NEW j \in Keys, owed'[j]
        PROVE  /\ note'[j] = "kept" => Marked(j)'
               /\ note'[j] = "covered" => up' /\ OnItsWay(j)'
               /\ up' /\ note'[j] = "kept" /\ ended'[j] # "refused" => Scheduled(j)'
    <3>1. owed[j] /\ (Marked(j) => Marked(j)')
      BY <1>0, <2>3 DEF Marked
    <3>2. CASE note'[j] = "kept"
      <4>1. note[j] = "kept" /\ (ended'[j] # "refused" => ended[j] # "refused")
        BY <1>3, <1>4, <3>2
      <4> QED
        BY <1>0, <1>7, <2>2, <3>1, <3>2, <4>1 DEF Kept
    <3>3. CASE note'[j] = "covered"
      <4>1. note[j] = "covered" /\ OnItsWay(j)
        BY <1>4, <1>7, <3>1, <3>3 DEF Kept
      <4> QED
        BY <1>0, <2>1, <3>3, <4>1
    <3> QED
      BY <3>2, <3>3
  <2> QED
    BY <2>3 DEF Kept
<1> QED
  BY <1>5, <1>6, <1>7 DEF Holds

LEMMA NoteOwnStep == ASSUME Base, NoteOwn PROVE Holds
<1> DEFINE k == Head(queue).key
           e == [Entry(k) EXCEPT !.self = TRUE]
<1>0. /\ TypeOK /\ up /\ phase = "working" /\ phase' = "replacing" /\ queue # <<>>
      /\ state' = [state EXCEPT ![k] = e]
      /\ UNCHANGED <<up, policy, catchup, queue, gate, owed, note, ended, leftOut>>
  BY DEF Base, Memory, NoteOwn
<1>1. k \in Keys
  BY <1>0, First
<1>2. /\ e \in Entries /\ e.self /\ e.cron = Entry(k).cron /\ e.next = Entry(k).next
      /\ e.started <=> Entry(k).started
  BY <1>0, <1>1, EntryTyped DEF Entries
<1>3. Head(queue').key = k /\ Head(queue).key = k
  BY <1>0
<1> HIDE DEF e, k
<1>4. /\ state' \in [Keys -> {Absent} \cup Entries]
      /\ state'[k] = e /\ e # Absent
      /\ \A j \in Keys : j # k => state'[j] = state[j]
  BY <1>0, <1>1, <1>2, OneEntry
<1>5. /\ state[k] # Absent => e.cron = state[k].cron /\ e.next = state[k].next /\ (e.started <=> state[k].started)
      /\ state[k] = Absent => e.cron = Off /\ e.next = "none"
  BY <1>0, <1>1, <1>2, EntryTyped
<1>6. /\ state[k] = Absent => policy[k] = Off
      /\ e.cron = policy[k]
      /\ policy[k] # Off => e.next # "none"
  BY <1>0, <1>1, <1>5 DEF Base, Stamped
<1>7. Base'
  <2>1. TypeOK' /\ Memory'
    BY <1>0, <1>4 DEF TypeOK, Memory
  <2>2. Stamped'
    BY <1>0, <1>4, <1>6 DEF Base, Stamped
  <2>3. OwedPlanned'
    BY <1>0, <1>4, <1>6 DEF Base, OwedPlanned
  <2>4. PastIsOwed'
    BY <1>0, <1>4, <1>5 DEF Base, PastIsOwed
  <2> QED
    BY <2>1, <2>2, <2>3, <2>4 DEF Base
<1>8. ASSUME StartedIsUnderWay PROVE StartedIsUnderWay'
  <2>1. \A j \in Keys : UnderWay(j)' <=> j = k
    BY <1>0, <1>3 DEF UnderWay
  <2>2. /\ \A j \in Keys \ leftOut : Begun(j) <=> j = k
        /\ \A j \in Keys \ leftOut : j # k /\ state[j] # Absent => ~state[j].self
        /\ \A j \in Keys : ended[j] \in {"no", "refused"}
    BY <1>0, <1>3, <1>8 DEF StartedIsUnderWay, Begun, UnderWay
  <2>3. k \notin leftOut => state[k] # Absent /\ e.started
    BY <1>1, <1>5, <2>2 DEF Begun
  <2>4. \A j \in Keys \ leftOut : Begun(j)' <=> j = k
    BY <1>4, <2>2, <2>3 DEF Begun
  <2>5. \A j \in Keys \ leftOut : state'[j] # Absent /\ state'[j].self => j = k
    BY <1>4, <2>2
  <2>6. \A j \in Keys \ leftOut : j = k => state'[j].self /\ state'[j].started
    BY <1>2, <1>4, <2>3
  <2> QED
    BY <1>0, <2>1, <2>2, <2>4, <2>5, <2>6 DEF StartedIsUnderWay
<1>9. ASSUME Kept PROVE Kept'
  <2>1. \A j \in Keys : /\ Scheduled(j)' <=> Scheduled(j)
                        /\ OnItsWay(j)' <=> OnItsWay(j)
    BY <1>0 DEF Scheduled, OnItsWay, QueuedFor
  <2>2. \A j \in Keys : Marked(j) => Marked(j)'
    BY <1>4, <1>5 DEF Marked
  <2> QED
    BY <1>0, <1>9, <2>1, <2>2 DEF Kept
<1> QED
  BY <1>7, <1>8, <1>9 DEF Holds

LEMMA FinishStep == ASSUME Base, Finish PROVE Holds
<1> DEFINE k == Head(queue).key
           d == IF k \in Planned(policy) THEN "ahead" ELSE "none"
           e == [Entry(k) EXCEPT !.started = FALSE, !.self = FALSE, !.next = d]
<1>0. /\ TypeOK /\ up /\ AtWork /\ phase' = "idle" /\ queue # <<>> /\ queue' = Tail(queue)
      /\ state' = [state EXCEPT ![k] = e] /\ owed' = [owed EXCEPT ![k] = FALSE]
      /\ note' = [note EXCEPT ![k] = "kept"] /\ leftOut' = leftOut \ {k}
      /\ UNCHANGED <<up, policy, catchup, gate, ended>>
  BY DEF Base, Memory, Finish
<1>1. k \in Keys /\ queue' \in Seq(Runs)
  BY <1>0, First
<1>2. /\ e \in Entries /\ ~e.started /\ ~e.self /\ e.cron = Entry(k).cron
      /\ e.next # "past" /\ (policy[k] # Off => e.next # "none")
  <2>1. d \in {"none", "ahead"} /\ (policy[k] # Off => d = "ahead")
    BY <1>1 DEF Planned
  <2> HIDE DEF d
  <2>2. e \in Entries /\ ~e.started /\ ~e.self /\ e.cron = Entry(k).cron /\ e.next = d
    BY <1>0, <1>1, <2>1, EntryTyped DEF Entries
  <2> QED
    BY <2>1, <2>2
<1>3. Head(queue).key = k
  OBVIOUS
<1> HIDE DEF e, k, d
<1>4. /\ state' \in [Keys -> {Absent} \cup Entries]
      /\ state'[k] = e /\ e # Absent
      /\ \A j \in Keys : j # k => state'[j] = state[j]
  BY <1>0, <1>1, <1>2, OneEntry
<1>5. /\ owed' \in [Keys -> BOOLEAN] /\ ~owed'[k]
      /\ note' \in [Keys -> {"kept", "covered", "lost"}] /\ leftOut' \subseteq Keys
      /\ \A j \in Keys : j # k => owed'[j] = owed[j] /\ note'[j] = note[j]
  BY <1>0, <1>1 DEF TypeOK
<1>6. e.cron = policy[k]
  BY <1>0, <1>1, <1>2, EntryTyped DEF Base, Stamped
<1>7. Base'
  <2>1. TypeOK' /\ Memory'
    BY <1>0, <1>1, <1>4, <1>5 DEF TypeOK, Memory
  <2>2. Stamped'
    BY <1>0, <1>2, <1>4, <1>6 DEF Base, Stamped
  <2>3. OwedPlanned'
    BY <1>0, <1>4, <1>5 DEF Base, OwedPlanned
  <2>4. PastIsOwed'
    BY <1>0, <1>2, <1>4, <1>5 DEF Base, PastIsOwed
  <2> QED
    BY <2>1, <2>2, <2>3, <2>4 DEF Base
<1>8. ASSUME StartedIsUnderWay PROVE StartedIsUnderWay'
  <2>1. /\ \A j \in Keys \ leftOut : Begun(j) <=> j = k
        /\ \A j \in Keys \ leftOut : j # k /\ state[j] # Absent => ~state[j].self
        /\ \A j \in Keys : ended[j] \in {"no", "refused"}
    BY <1>0, <1>3, <1>8 DEF StartedIsUnderWay, Begun, UnderWay
  <2>2. \A j \in Keys \ leftOut' : ~Begun(j)' /\ (state'[j] # Absent => ~state'[j].self)
    BY <1>0, <1>2, <1>4, <2>1 DEF Begun
  <2> QED
    BY <1>0, <2>1, <2>2 DEF StartedIsUnderWay, UnderWay
<1>9. ASSUME Kept PROVE Kept'
  <2>0. /\ \A i \in 1 .. Len(queue) : i # 1 => \E n \in 1 .. Len(queue') : queue'[n] = queue[i]
        /\ k = queue[1].key
    BY <1>0, <1>3, First, FirstLeaves
  <2>1. ASSUME NEW j \in Keys, j # k, NEW i \in 1 .. Len(queue), queue[i].key = j
        PROVE  \E n \in 1 .. Len(queue') : queue'[n] = queue[i]
    BY <2>0, <2>1
  <2>2. ASSUME NEW j \in Keys, j # k, OnItsWay(j) PROVE OnItsWay(j)'
    <3>1. CASE \E c \in catchup : c.key = j
      BY <1>0, <3>1 DEF OnItsWay
    <3>2. CASE QueuedFor(j)
      <4>1. PICK i \in 1 .. Len(queue) : queue[i].key = j
        BY <3>2 DEF QueuedFor
      <4>2. PICK n \in 1 .. Len(queue') : queue'[n] = queue[i]
        BY <2>1, <2>2, <4>1
      <4> QED
        BY <4>1, <4>2 DEF OnItsWay, QueuedFor
    <3> QED
      BY <2>2, <3>1, <3>2 DEF OnItsWay
  <2>3. ASSUME NEW j \in Keys, j # k, Scheduled(j) PROVE Scheduled(j)'
    <3>1. PICK i \in 1 .. Len(queue) :
            queue[i].key = j /\ (queue[i].how # "manual" \/ (i = 1 /\ AtWork))
      BY <2>3 DEF Scheduled
    <3>2. queue[i].how # "manual"
      BY <2>0, <2>3, <3>1
    <3>3. PICK n \in 1 .. Len(queue') : queue'[n] = queue[i]
      BY <2>1, <2>3, <3>1
    <3> QED
      BY <3>1, <3>2, <3>3 DEF Scheduled
  <2>4. \A j \in Keys : j # k /\ Marked(j) => Marked(j)'
    BY <1>4 DEF Marked
  <2> QED
    BY <1>0, <1>5, <1>9, <2>2, <2>3, <2>4 DEF Kept
<1> QED
  BY <1>7, <1>8, <1>9 DEF Holds

\* The process ends: what was under way is cut short, or was the agent
\* replacing itself, and what only the memory knew of is lost.
LEMMA Ends ==
  ASSUME Base, ProcessEnds, UNCHANGED state, owed' \in [Keys -> BOOLEAN],
         \A k \in Keys : owed'[k] => owed[k]
  PROVE  /\ up /\ up' = FALSE /\ catchup' = {} /\ queue' = <<>> /\ phase' = "idle" /\ gate' = "open"
         /\ policy' \in [Keys -> Crons \cup {Off}] => TypeOK'
         /\ Memory' /\ Stamped'
         /\ StartedIsUnderWay => StartedIsUnderWay'
         /\ Kept => Kept'
<1>0. /\ up /\ up' = FALSE /\ catchup' = {} /\ queue' = <<>> /\ phase' = "idle" /\ gate' = "open"
      /\ TypeOK /\ leftOut' = leftOut
      /\ note' = [k \in Keys |-> IF note[k] = "covered" THEN "lost" ELSE note[k]]
  BY DEF ProcessEnds, Base
<1>1. /\ ~AtWork => ended' = ended
      /\ AtWork => /\ Head(queue).key \in Keys
                   /\ ended' = [ended EXCEPT ![Head(queue).key] =
                                  IF phase = "replacing" THEN "self" ELSE "cut"]
  BY <1>0, First DEF Base, Memory, ProcessEnds
<1>2. /\ ended' \in [Keys -> {"no", "refused", "cut", "self"}]
      /\ \A k \in Keys : IF UnderWay(k) THEN ended'[k] = (IF phase = "replacing" THEN "self" ELSE "cut")
                                        ELSE ended'[k] = ended[k]
  BY <1>0, <1>1 DEF TypeOK, UnderWay
<1>3. Memory' /\ Stamped'
  BY <1>0 DEF Memory, Stamped
<1>4. ASSUME policy' \in [Keys -> Crons \cup {Off}] PROVE TypeOK'
  <2>1. queue' \in Seq(Runs)
    BY <1>0, EmptySeq
  <2>2. note' \in [Keys -> {"kept", "covered", "lost"}]
    BY <1>0 DEF TypeOK
  <2> QED
    BY <1>0, <1>2, <1>4, <2>1, <2>2 DEF TypeOK
<1>5. ASSUME StartedIsUnderWay PROVE StartedIsUnderWay'
  <2>1. \A k \in Keys : Begun(k)' = Begun(k) /\ state'[k] = state[k]
    BY DEF Begun
  <2>2. \A k \in Keys \ leftOut :
           /\ Begun(k) <=> UnderWay(k)
           /\ Begun(k) => (state[k].self <=> phase = "replacing")
           /\ ended[k] \in {"no", "refused"}
    BY <1>0, <1>5 DEF StartedIsUnderWay
  <2>3. \A k \in Keys \ leftOut : Begun(k) /\ ~state[k].self <=> ended'[k] = "cut"
    BY <1>2, <2>2
  <2> QED
    BY <1>0, <1>5, <2>1, <2>3 DEF StartedIsUnderWay
<1>6. ASSUME Kept PROVE Kept'
  BY <1>0, <1>6 DEF Kept, Marked
<1> QED
  BY <1>0, <1>3, <1>4, <1>5, <1>6

LEMMA CutShortStep == ASSUME Base, Crash \/ Replaced PROVE Holds
<1>0. ProcessEnds /\ UNCHANGED <<policy, state, owed>> /\ TypeOK
  BY DEF Crash, Replaced, Base
<1>1. /\ TypeOK' /\ Memory' /\ Stamped'
      /\ StartedIsUnderWay => StartedIsUnderWay'
      /\ Kept => Kept'
  BY <1>0, Ends DEF TypeOK
<1>2. OwedPlanned' /\ PastIsOwed'
  BY <1>0 DEF Base, OwedPlanned, PastIsOwed
<1> QED
  BY <1>1, <1>2 DEF Holds, Base

LEMMA ApplyTornStep ==
  ASSUME Base, NEW p \in [Keys -> Crons \cup {Off}], ApplyTorn(p) PROVE Holds
<1>0. /\ ProcessEnds /\ UNCHANGED state /\ policy' = p /\ TypeOK
      /\ owed' = [k \in Keys |-> owed[k] /\ p[k] = policy[k]]
  BY DEF ApplyTorn, Base
<1>1. /\ owed' \in [Keys -> BOOLEAN]
      /\ \A k \in Keys : owed'[k] <=> owed[k] /\ p[k] = policy[k]
  BY <1>0 DEF TypeOK
<1>2. /\ up /\ TypeOK' /\ Memory' /\ Stamped'
      /\ StartedIsUnderWay => StartedIsUnderWay'
      /\ Kept => Kept'
  BY <1>0, <1>1, Ends
<1>3. \A k \in Keys : state[k] # Absent => state[k].cron = policy[k]
  BY <1>2 DEF Base, Stamped
<1>4. OwedPlanned'
  BY <1>0, <1>1 DEF Base, OwedPlanned
<1>5. PastIsOwed'
  BY <1>0, <1>1, <1>3 DEF Base, PastIsOwed
<1> QED
  BY <1>2, <1>4, <1>5 DEF Holds, Base

LEMMA GateStep == ASSUME Base, GateCloses \/ GateOpens \/ UNCHANGED vars PROVE Holds
<1>0. /\ UNCHANGED <<up, policy, state, catchup, queue, phase, owed, note, ended, leftOut>>
      /\ TypeOK /\ gate' \in {"open", "closed"} /\ (gate' # gate => up)
  BY DEF Base, TypeOK, GateCloses, GateOpens, vars
<1>1. Base'
  BY <1>0 DEF Base, TypeOK, Memory, Stamped, OwedPlanned, PastIsOwed
<1>2. ASSUME StartedIsUnderWay PROVE StartedIsUnderWay'
  BY <1>0, <1>2 DEF StartedIsUnderWay, Begun, UnderWay
<1>3. ASSUME Kept PROVE Kept'
  BY <1>0, <1>3 DEF Kept, Marked, Scheduled, OnItsWay, QueuedFor
<1> QED
  BY <1>1, <1>2, <1>3 DEF Holds

LEMMA InitHolds == Init => Base /\ StartedIsUnderWay /\ Kept
<1> SUFFICES ASSUME Init PROVE Base /\ StartedIsUnderWay /\ Kept
  OBVIOUS
<1>0. /\ ~up /\ up \in BOOLEAN /\ catchup = {} /\ queue = <<>> /\ phase = "idle" /\ gate = "open"
      /\ policy \in [Keys -> Crons \cup {Off}]
      /\ \A k \in Keys : state[k] = Absent /\ ~owed[k] /\ ended[k] = "no"
      /\ state \in [Keys -> {Absent} \cup Entries] /\ owed \in [Keys -> BOOLEAN]
      /\ ended \in [Keys -> {"no", "refused", "cut", "self"}]
      /\ note \in [Keys -> {"kept", "covered", "lost"}] /\ leftOut = {}
  BY DEF Init
<1>1. queue \in Seq(Runs)
  BY <1>0, EmptySeq
<1>2. Base
  BY <1>0, <1>1 DEF Base, TypeOK, Memory, Stamped, OwedPlanned, PastIsOwed
<1>3. StartedIsUnderWay
  BY <1>0 DEF StartedIsUnderWay, Begun
<1>4. Kept
  BY <1>0 DEF Kept
<1> QED
  BY <1>2, <1>3, <1>4

LEMMA StepHolds == ASSUME Base, [Next]_vars PROVE Holds
<1>1. CASE Start                     BY <1>1, StartStep
<1>2. CASE CatchUp                   BY <1>2, CatchUpStep
<1>3. CASE RunNow                    BY <1>3, RunNowStep
<1>4. CASE TakeUp                    BY <1>4, TakeUpStep
<1>5. CASE Enter                     BY <1>5, EnterStep
<1>6. CASE Refuse                    BY <1>6, RefuseStep
<1>7. CASE NoteOwn                   BY <1>7, NoteOwnStep
<1>8. CASE Finish                    BY <1>8, FinishStep
<1>9. CASE Crash \/ Replaced         BY <1>9, CutShortStep
<1>10. CASE GateCloses \/ GateOpens \/ UNCHANGED vars
  BY <1>10, GateStep
<1>11. ASSUME NEW k \in Keys, Clock(k) PROVE Holds
  BY <1>11, ClockStep
<1>12. ASSUME NEW p \in [Keys -> Crons \cup {Off}], Apply(p) PROVE Holds
  BY <1>12, ApplyStep
<1>13. ASSUME NEW p \in [Keys -> Crons \cup {Off}], ApplyTorn(p) PROVE Holds
  BY <1>13, ApplyTornStep
<1> QED
  BY <1>1, <1>2, <1>3, <1>4, <1>5, <1>6, <1>7, <1>8, <1>9, <1>10, <1>11, <1>12, <1>13 DEF Next

-----------------------------------------------------------------------------
(* The theorems. *)

\* Whatever may happen to the agent: what is in memory goes with the process,
\* the entries of an agent that is up are stamped with the policy it has,
\* and a date that has passed is one that is owed (AutoUpdateService.plan,
\* run and the clock's callback).
THEOREM Invariance == Spec => []Base
<1>1. Init => Base
  BY InitHolds
<1>2. Base /\ [Next]_vars => Base'
  BY StepHolds DEF Holds
<1> QED
  BY <1>1, <1>2, PTL DEF Spec

\* An agent that starts makes up as missed only dates of the plan there is
\* now (AutoUpdateService.start and missedRuns: the stored expression has to
\* be the policy's), whatever happened to the file and the policy before,
\* and however many schedules there are.
THEOREM OnlyThePresentPlan == Spec => OnlyTheCurrentPlan
<1>1. ASSUME Base, [Next]_vars
      PROVE  [~up /\ up' => \A c \in catchup' : c.why = "missed" => owed[c.key]]_vars
  <2> SUFFICES ASSUME ~up, up', NEW c \in catchup', c.why = "missed"
               PROVE  owed[c.key]
    OBVIOUS
  <2>1. Start
    BY <1>1 DEF Next, CatchUp, Apply, Clock, RunNow, TakeUp, Enter, AtGate, Refuse, NoteOwn,
                Finish, Crash, ProcessEnds, ApplyTorn, GateCloses, GateOpens, Replaced, vars
  <2>2. c \in Due
    BY <2>1 DEF Start
  <2>3. /\ c.key \in Keys /\ policy[c.key] # Off /\ state[c.key] # Absent
        /\ state[c.key].next = "past" /\ state[c.key].cron = policy[c.key]
    BY <2>2 DEF Due, Planned
  <2> QED
    BY <1>1, <2>3 DEF Base, PastIsOwed
<1> QED
  BY <1>1, Invariance, PTL DEF Spec, OnlyTheCurrentPlan

\* The process that comes next reports as interrupted just the runs that were
\* cut short, and not the one that ended by replacing the agent
\* (AutoUpdateService.run, noteSelfUpdate and the startedAt and selfUpdate it
\* writes), whatever policies arrive in between; except for a schedule that a
\* policy left out while its run was under way.
THEOREM TellsTheInterrupted == Spec => []InterruptionsTold
<1> DEFINE I == Base /\ StartedIsUnderWay
<1>1. Init => I
  BY InitHolds
<1>2. I /\ [Next]_vars => I'
  BY StepHolds DEF Holds
<1>3. I => InterruptionsTold
  <2> SUFFICES ASSUME I, ~up, NEW k \in Planned(policy) \ leftOut
               PROVE  Told(k) <=> ended[k] = "cut"
    BY DEF InterruptionsTold
  <2>1. k \in Keys \ leftOut
    BY DEF Planned
  <2> QED
    BY <2>1 DEF Told, StartedIsUnderWay, Begun
<1> HIDE DEF I
<1> QED
  BY <1>1, <1>2, <1>3, PTL DEF Spec

\* A run that is owed is on its way, or state.json says so to the next
\* process, however policies, self-updates and the ends of the process fall;
\* only what planning covered with a coming date goes with the process or the
\* run that knows of it (AutoUpdateService.start, plan, catchUpMissedRuns, run
\* and its `finally`).
THEOREM KeepsWhatIsOwed == Spec => []OwedIsKept
<1> DEFINE I == Base /\ StartedIsUnderWay /\ Kept
<1>1. Init => I
  BY InitHolds
<1>2. I /\ [Next]_vars => I'
  BY StepHolds DEF Holds
<1>3. I => OwedIsKept
  <2> SUFFICES ASSUME I, NEW k \in Keys, owed[k], note[k] # "lost"
               PROVE  Marked(k) \/ (up /\ OnItsWay(k))
    BY DEF OwedIsKept, Marked
  <2>1. note[k] \in {"kept", "covered"}
    BY DEF Base, TypeOK
  <2> QED
    BY <2>1 DEF Kept
<1> HIDE DEF I
<1> QED
  BY <1>1, <1>2, <1>3, PTL DEF Spec

-----------------------------------------------------------------------------
(* The watch over Docker's event stream (HostWatch).                       *)

\* A stream's callbacks come in the order of their numbers.
Rising(p) == \A i, j \in 1 .. Len(p) : i < j => p[i] < p[j]
Carries(p, e) == \E i \in 1 .. Len(p) : p[i] = e

\* The last stream opened is listened to, or will be.
Active == asking = "opened" \/ eventStream # None
Stream == pipes[Len(pipes)]

DaemonTypes ==
  /\ clock \in Nat \ {0} /\ count \in 0 .. MaxEvents
  /\ stamp \in [Events -> Nat]
  /\ ring \subseteq 1 .. count
  /\ \A e \in 1 .. count : stamp[e] <= clock
  /\ second \in 0 .. clock /\ seen \subseteq Events
  /\ told \in [Events -> Nat]

\* The watcher is at one point of its cycle: it listens to the stream opened
\* last, it asks for one from where the cursor is, or it waits for its timer.
Cycle ==
  /\ eventStream # None => eventStream = Len(pipes) /\ asking = "no" /\ ~timer
  /\ timer => asking = "no"
  /\ asking \in {"no", "asked", "broken", "opened"} /\ timer \in BOOLEAN
  /\ asking = "asked" => from = second
  /\ asking = "opened" => pipes # <<>>
  /\ second = NoSecond => eventStream = None

\* A stream carries events in their order, then perhaps an error and its end;
\* the daemon writes to the one opened last, and only events.
Ordered ==
  /\ pipes \in Seq(Seq(1 .. End)) /\ eventStream \in Nat
  /\ joined # None => joined = Len(pipes) /\ pipes # <<>>
  /\ \A s \in 1 .. Len(pipes) :
       /\ Rising(pipes[s])
       /\ \A i \in 1 .. Len(pipes[s]) :
            pipes[s][i] <= count \/ (s # joined /\ pipes[s][i] > MaxEvents)

\* What was told lies behind the cursor.
ToldIsSeen ==
  \A e \in Events : told[e] > 0 =>
    /\ told[e] = 1 /\ e <= count /\ second # NoSecond
    /\ stamp[e] <= second /\ (stamp[e] = second => e \in seen)

\* What the daemon filed before an event that was told and could replay again
\* is not ahead of the cursor: a replay would not move the cursor before it
\* comes to the event.
NoneAhead ==
  \A e \in Events : told[e] > 0 => \A d \in ring : d < e => stamp[d] <= second

\* What is ahead of the cursor is on the stream that is listened to, as long
\* as the daemon writes to it, or an event after it is.
AheadIsOnItsWay ==
  Active /\ second # NoSecond =>
    \A d \in ring : stamp[d] > second =>
      /\ joined # None => Carries(Stream, d)
      /\ \A e \in Events : d < e /\ Carries(Stream, e) => Carries(Stream, d)

\* A replayed event that was told is still at the cursor when its turn comes.
ReplayedIsSeen ==
  Active => \A e \in Events : Carries(Stream, e) /\ told[e] > 0 =>
    /\ stamp[e] = second /\ e \in seen
    /\ \A d \in Events : d < e /\ Carries(Stream, d) => stamp[d] <= second

WatchInv ==
  /\ DaemonTypes /\ Cycle /\ Ordered
  /\ ToldIsSeen /\ NoneAhead /\ AheadIsOnItsWay /\ ReplayedIsSeen

-----------------------------------------------------------------------------
\* A finite set of numbers in order: the i-th is the one of rank i.
Ranked(es) ==
  [i \in 1 .. Cardinality(es) |-> CHOOSE e \in es : Cardinality({d \in es : d <= e}) = i]

LEMMA RankedInOrder ==
  ASSUME NEW es, es \subseteq Nat, IsFiniteSet(es)
  PROVE  /\ Ranked(es) \in Seq(es) /\ Rising(Ranked(es))
         /\ \A e : Carries(Ranked(es), e) <=> e \in es
<1> DEFINE p == Ranked(es)
<1> DEFINE n == Cardinality(es)
<1> DEFINE upTo(e) == {d \in es : d <= e}
<1> DEFINE rank(e) == Cardinality(upTo(e))
<1>1. n \in Nat /\ IsFiniteSet(1 .. n) /\ Cardinality(1 .. n) = n
  BY FS_CardinalityType, FS_Interval
<1>2. ASSUME NEW e \in es
      PROVE  IsFiniteSet(upTo(e)) /\ rank(e) \in 1 .. n /\ rank(e) \in Nat
  <2>1. IsFiniteSet(upTo(e)) /\ rank(e) <= n
    BY FS_Subset
  <2>2. rank(e) \in Nat
    BY <2>1, FS_CardinalityType
  <2>3. e \in upTo(e)
    OBVIOUS
  <2>4. rank(e) # 0
    BY <2>1, <2>3, FS_EmptySet
  <2> QED
    BY <1>1, <2>1, <2>2, <2>4
<1>3. ASSUME NEW e \in es, NEW f \in es, e < f
      PROVE  rank(e) < rank(f)
  <2>1. upTo(e) \subseteq upTo(f) /\ f \in upTo(f) /\ f \notin upTo(e)
    <3>1. e \in Nat /\ f \in Nat /\ \A d \in es : d \in Nat
      OBVIOUS
    <3>2. ~(f <= e) /\ f <= f /\ \A d \in es : d <= e => d <= f
      BY <1>3, <3>1
    <3> QED
      BY <3>2
  <2>2. IsFiniteSet(upTo(f)) /\ rank(e) \in Nat /\ rank(f) \in Nat
    BY <1>2
  <2>3. rank(e) <= rank(f) /\ (rank(e) = rank(f) => upTo(e) = upTo(f))
    BY <2>1, <2>2, FS_Subset
  <2> QED
    BY <2>1, <2>2, <2>3
<1> DEFINE R == [e \in es |-> rank(e)]
<1>4. \A e, f \in es : rank(e) = rank(f) => e = f
  <2> SUFFICES ASSUME NEW e \in es, NEW f \in es, e # f
               PROVE  rank(e) # rank(f)
    OBVIOUS
  <2>1. e < f \/ f < e
    OBVIOUS
  <2>2. rank(e) \in Nat /\ rank(f) \in Nat
    BY <1>2
  <2>3. rank(e) < rank(f) \/ rank(f) < rank(e)
    BY <1>3, <2>1
  <2> QED
    BY <2>2, <2>3
<1> HIDE DEF rank
<1>5. R \in Injection(es, 1 .. n)
  BY <1>2, <1>4 DEF Injection, IsInjective
<1>6. R \in Surjection(es, 1 .. n)
  BY <1>1, <1>5, FS_Injection
<1>7. \A i \in 1 .. n : \E e \in es : rank(e) = i
  BY <1>6 DEF Surjection
<1> DEFINE ith(i) == CHOOSE e \in es : rank(e) = i
<1>12. p = [i \in 1 .. n |-> ith(i)]
  BY DEF rank, Ranked
<1>13. \A i \in 1 .. n : ith(i) \in es /\ rank(ith(i)) = i
  BY <1>7
<1> HIDE DEF ith, p
<1>8. \A i \in 1 .. n : p[i] \in es /\ rank(p[i]) = i
  BY <1>12, <1>13
<1>9. p \in [1 .. n -> es] /\ p \in Seq(es) /\ Len(p) = n
  <2>1. p \in [1 .. n -> es]
    BY <1>12, <1>13
  <2>2. p \in Seq(es)
    BY <1>1, <2>1, SeqDef
  <2> QED
    <3>1. Len(p) \in Nat /\ DOMAIN p = 1 .. Len(p)
      BY <2>2, LenProperties
    <3>2. 1 .. Len(p) = 1 .. n
      BY <2>1, <3>1
    <3>3. Cardinality(1 .. Len(p)) = Len(p)
      <4>1. \A k \in Nat : Cardinality(1 .. k) = k
        BY FS_Interval
      <4> QED
        BY <3>1, <4>1
    <3>4. Len(p) = n
      BY <1>1, <3>2, <3>3
    <3> QED
      BY <2>1, <2>2, <3>4
<1>10. Rising(p)
  <2> SUFFICES ASSUME NEW i \in 1 .. n, NEW j \in 1 .. n, i < j
               PROVE  p[i] < p[j]
    BY <1>9 DEF Rising
  <2>1. /\ p[i] \in es /\ p[j] \in es /\ rank(p[i]) = i /\ rank(p[j]) = j
        /\ p[i] \in Nat /\ p[j] \in Nat
    BY <1>8
  <2>4. i # j
    BY <1>1
  <2>2. p[i] # p[j]
    BY <2>1, <2>4, Zenon
  <2>3. ~(p[j] < p[i])
    BY <1>1, <1>3, <2>1
  <2> QED
    BY <2>1, <2>2, <2>3
<1>11. \A e : Carries(p, e) <=> e \in es
  <2>1. ASSUME NEW e \in es PROVE Carries(p, e)
    <3>1. rank(e) \in 1 .. n
      BY <1>2
    <3>2. p[rank(e)] = e
      BY <1>4, <1>8, <3>1
    <3> QED
      BY <1>9, <3>1, <3>2 DEF Carries
  <2>2. ASSUME NEW e, Carries(p, e) PROVE e \in es
    BY <1>8, <1>9, <2>2 DEF Carries
  <2> QED
    BY <2>1, <2>2
<1> QED
  BY <1>9, <1>10, <1>11 DEF p

LEMMA TailCarries ==
  ASSUME NEW S \in SUBSET Nat, NEW p \in Seq(S), p # <<>>, Rising(p)
  PROVE  /\ Tail(p) \in Seq(S) /\ Rising(Tail(p)) /\ Head(p) \in S
         /\ Head(p) = p[1] /\ Carries(p, Head(p))
         /\ \A i \in 1 .. Len(Tail(p)) : i + 1 \in 1 .. Len(p) /\ Tail(p)[i] = p[i + 1]
         /\ \A e : Carries(Tail(p), e) => Carries(p, e) /\ Head(p) < e
         /\ \A e : Carries(p, e) => e = Head(p) \/ Carries(Tail(p), e)
<1>1. /\ Len(p) \in Nat \ {0} /\ Tail(p) \in Seq(S) /\ Len(Tail(p)) = Len(p) - 1
      /\ \A i \in 1 .. Len(p) - 1 : Tail(p)[i] = p[i + 1]
      /\ Head(p) = p[1]
  BY HeadTailProperties, EmptySeq
<1>2. \A i \in 1 .. Len(p) : p[i] \in S
  BY ElementOfSeq
<1>3. Rising(Tail(p))
  BY <1>1, <1>2 DEF Rising
<1>4. ASSUME NEW e, Carries(Tail(p), e)
      PROVE  Carries(p, e) /\ Head(p) < e
  <2>1. PICK i \in 1 .. Len(p) - 1 : p[i + 1] = e
    BY <1>1, <1>4 DEF Carries
  <2>2. i + 1 \in 1 .. Len(p) /\ 1 \in 1 .. Len(p) /\ 1 < i + 1
    BY <1>1
  <2> QED
    BY <1>1, <2>1, <2>2 DEF Carries, Rising
<1>5. ASSUME NEW e, Carries(p, e), e # Head(p)
      PROVE  Carries(Tail(p), e)
  <2>1. PICK i \in 1 .. Len(p) : p[i] = e
    BY <1>5 DEF Carries
  <2>2. i # 1 /\ i - 1 \in 1 .. Len(p) - 1 /\ (i - 1) + 1 = i
    BY <1>1, <1>5, <2>1
  <2>3. Tail(p)[i - 1] = e
    BY <1>1, <2>1, <2>2
  <2> QED
    BY <1>1, <2>2, <2>3 DEF Carries
<1>6. Head(p) \in S /\ Carries(p, Head(p))
  BY <1>1, <1>2 DEF Carries
<1> QED
  BY <1>1, <1>3, <1>4, <1>5, <1>6

LEMMA AppendCarries ==
  ASSUME NEW S \in SUBSET Nat, NEW p \in Seq(S), Rising(p), NEW e \in S,
         \A i \in 1 .. Len(p) : p[i] < e
  PROVE  /\ Append(p, e) \in Seq(S) /\ Rising(Append(p, e))
         /\ \A i \in 1 .. Len(Append(p, e)) :
              Append(p, e)[i] = e \/ (i \in 1 .. Len(p) /\ Append(p, e)[i] = p[i])
         /\ \A d : Carries(Append(p, e), d) <=> Carries(p, d) \/ d = e
<1>1. /\ Append(p, e) \in Seq(S) /\ Len(Append(p, e)) = Len(p) + 1
      /\ \A i \in 1 .. Len(p) : Append(p, e)[i] = p[i]
      /\ Append(p, e)[Len(p) + 1] = e /\ Len(p) \in Nat
  BY AppendProperties
<1>2. \A i \in 1 .. Len(p) + 1 : i \in 1 .. Len(p) \/ i = Len(p) + 1
  BY <1>1
<1>3. Rising(Append(p, e))
  BY <1>1, <1>2 DEF Rising
<1>4. \A i \in 1 .. Len(p) : i \in 1 .. Len(p) + 1
  BY <1>1
<1>5. ASSUME NEW d
      PROVE  Carries(Append(p, e), d) <=> Carries(p, d) \/ d = e
  <2>1. ASSUME Carries(Append(p, e), d) PROVE Carries(p, d) \/ d = e
    BY <1>1, <1>2, <2>1 DEF Carries
  <2>2. ASSUME Carries(p, d) PROVE Carries(Append(p, e), d)
    BY <1>1, <1>4, <2>2 DEF Carries
  <2>3. Carries(Append(p, e), e)
    BY <1>1 DEF Carries
  <2> QED
    BY <2>1, <2>2, <2>3
<1> QED
  BY <1>1, <1>2, <1>3, <1>5

\* A stream cut short, with what its end adds.
LEMMA CutCarries ==
  ASSUME NEW S \in SUBSET Nat, NEW p \in Seq(S), Rising(p), NEW n \in 0 .. Len(p),
         NEW tail \in Seq(S), Rising(tail),
         \A i \in 1 .. Len(p) : \A j \in 1 .. Len(tail) : p[i] < tail[j]
  PROVE  /\ SubSeq(p, 1, n) \o tail \in Seq(S) /\ Rising(SubSeq(p, 1, n) \o tail)
         /\ \A i \in 1 .. Len(SubSeq(p, 1, n) \o tail) :
              \/ i \in 1 .. Len(p) /\ (SubSeq(p, 1, n) \o tail)[i] = p[i]
              \/ \E j \in 1 .. Len(tail) : (SubSeq(p, 1, n) \o tail)[i] = tail[j]
         /\ \A d : Carries(SubSeq(p, 1, n) \o tail, d) => Carries(p, d) \/ Carries(tail, d)
         /\ \A d, e : d < e /\ Carries(p, d) /\ Carries(p, e)
                        /\ Carries(SubSeq(p, 1, n) \o tail, e) =>
                      Carries(SubSeq(p, 1, n) \o tail, d)
<1> DEFINE h == SubSeq(p, 1, n)
<1> DEFINE q == h \o tail
<1>0. Len(p) \in Nat /\ Len(tail) \in Nat /\ n \in Nat /\ n <= Len(p)
  OBVIOUS
<1>1. /\ h \in Seq(S) /\ Len(h) = n
      /\ \A i \in 1 .. n : h[i] = p[i]
  <2>1. \A i \in 1 .. n : i \in 1 .. Len(p)
    BY <1>0
  <2>2. h \in Seq(S)
    BY <2>1, SubSeqProperties, <1>0, ElementOfSeq
  <2>3. Len(h) = n /\ \A i \in 1 .. n : h[i] = p[i]
    BY <1>0, SubSeqProperties
  <2> QED
    BY <2>2, <2>3
<1> HIDE DEF h
<1>2. /\ q \in Seq(S) /\ Len(q) = n + Len(tail)
      /\ \A i \in 1 .. n : q[i] = p[i]
      /\ \A i \in n + 1 .. n + Len(tail) : q[i] = tail[i - n]
  <2>1. /\ h \o tail \in Seq(S) /\ Len(h \o tail) = Len(h) + Len(tail)
        /\ \A i \in 1 .. Len(h) + Len(tail) :
             (h \o tail)[i] = IF i <= Len(h) THEN h[i] ELSE tail[i - Len(h)]
    BY <1>1, ConcatProperties
  <2>2. \A i \in 1 .. n : i \in 1 .. n + Len(tail) /\ i <= n
    BY <1>0
  <2>3. \A i \in n + 1 .. n + Len(tail) : i \in 1 .. n + Len(tail) /\ ~(i <= n)
    BY <1>0
  <2> QED
    BY <1>0, <1>1, <2>1, <2>2, <2>3
<1> HIDE DEF q
<1>3. ASSUME NEW i \in 1 .. Len(q)
      PROVE  \/ i \in 1 .. n /\ i \in 1 .. Len(p) /\ q[i] = p[i]
             \/ i \in n + 1 .. n + Len(tail) /\ i - n \in 1 .. Len(tail) /\ q[i] = tail[i - n]
  BY <1>0, <1>2
<1>4. Rising(q)
  <2> SUFFICES ASSUME NEW i \in 1 .. Len(q), NEW j \in 1 .. Len(q), i < j
               PROVE  q[i] < q[j]
    BY DEF Rising
  <2>1. CASE j \in 1 .. n
    <3>1. i \in 1 .. n /\ i \in 1 .. Len(p) /\ j \in 1 .. Len(p)
      BY <1>0, <2>1
    <3> QED
      BY <1>2, <2>1, <3>1 DEF Rising
  <2>2. CASE i \in n + 1 .. n + Len(tail)
    <3>1. j \in n + 1 .. n + Len(tail) /\ i - n \in 1 .. Len(tail) /\ j - n \in 1 .. Len(tail)
          /\ i - n < j - n
      BY <1>0, <1>2, <2>2
    <3> QED
      BY <1>2, <2>2, <3>1 DEF Rising
  <2>3. CASE i \in 1 .. n /\ j \in n + 1 .. n + Len(tail)
    <3>1. i \in 1 .. Len(p) /\ j - n \in 1 .. Len(tail)
      BY <1>0, <2>3
    <3> QED
      BY <1>2, <2>3, <3>1
  <2> QED
    BY <1>3, <2>1, <2>2, <2>3
<1>5. \A d : Carries(q, d) => Carries(p, d) \/ Carries(tail, d)
  BY <1>3 DEF Carries
<1>6. ASSUME NEW d, NEW e, d < e, Carries(p, d), Carries(p, e), Carries(q, e)
      PROVE  Carries(q, d)
  <2>1. PICK i \in 1 .. Len(p) : p[i] = d
    BY <1>6 DEF Carries
  <2>2. PICK k \in 1 .. Len(p) : p[k] = e
    BY <1>6 DEF Carries
  <2>3. PICK j \in 1 .. Len(q) : q[j] = e
    BY <1>6 DEF Carries
  <2>4. p[i] \in Nat /\ p[k] \in Nat
    BY ElementOfSeq
  <2>5. j \in 1 .. n /\ j \in 1 .. Len(p) /\ p[j] = e
    <3>1. ASSUME j - n \in 1 .. Len(tail), q[j] = tail[j - n] PROVE FALSE
      <4>1. p[k] < tail[j - n]
        BY <3>1
      <4> QED
        BY <2>2, <2>3, <2>4, <3>1, <4>1
    <3> QED
      BY <1>3, <2>3, <3>1
  <2>6. ~(j < i)
    <3>1. ASSUME j < i PROVE FALSE
      <4>1. p[j] < p[i]
        BY <2>5, <3>1 DEF Rising
      <4> QED
        BY <1>6, <2>1, <2>2, <2>4, <2>5, <4>1
    <3> QED
      BY <3>1
  <2>7. i \in 1 .. n /\ i \in 1 .. Len(q)
    BY <1>0, <1>2, <2>5, <2>6
  <2> QED
    BY <1>2, <2>1, <2>7 DEF Carries
<1>7. \A i \in 1 .. Len(q) : \/ i \in 1 .. Len(p) /\ q[i] = p[i]
                             \/ \E j \in 1 .. Len(tail) : q[i] = tail[j]
  BY <1>3
<1>8. q \in Seq(S)
  BY <1>2
<1> QED
  BY <1>4, <1>5, <1>6, <1>7, <1>8 DEF q, h

-----------------------------------------------------------------------------
LEMMA Numbers ==
  /\ MaxEvents \in Nat /\ Events = 1 .. MaxEvents /\ None = 0 /\ NoSecond = 0
  /\ Error = MaxEvents + 1 /\ End = MaxEvents + 2
  /\ 1 .. End \in SUBSET Nat
BY CountsAssumption DEF Events, None, NoSecond, Error, End

\* What the daemon's last stream carries is known of it when there is one.
LEMMA StreamTyped ==
  ASSUME WatchInv, pipes # <<>>
  PROVE  /\ Len(pipes) \in 1 .. Len(pipes) /\ Len(pipes) \in Nat \ {0}
         /\ Stream \in Seq(1 .. End) /\ Rising(Stream)
         /\ \A i \in 1 .. Len(Stream) : Stream[i] \in 1 .. End
         /\ \A i \in 1 .. Len(Stream) : Stream[i] <= count \/ Stream[i] > MaxEvents
<1>1. Len(pipes) \in Nat \ {0} /\ pipes \in Seq(Seq(1 .. End))
  BY EmptySeq DEF WatchInv, Ordered
<1>2. Stream \in Seq(1 .. End)
  BY <1>1, ElementOfSeq DEF Stream
<1>3. \A i \in 1 .. Len(Stream) : Stream[i] \in 1 .. End
  BY <1>2, ElementOfSeq
<1> QED
  BY <1>1, <1>2, <1>3 DEF WatchInv, Ordered, Stream

LEMMA QuietStep ==
  ASSUME WatchInv, clock' = clock, count' = count, stamp' = stamp, ring' = ring,
         pipes' = pipes, joined' = joined, eventStream' = eventStream, asking' = asking,
         from' = from, timer' = timer, second' = second, seen' = seen, told' = told
  PROVE  WatchInv'
<1>1. DaemonTypes' /\ Cycle' /\ Ordered'
  BY DEF WatchInv, DaemonTypes, Cycle, Ordered
<1>2. ToldIsSeen' /\ NoneAhead'
  BY DEF WatchInv, ToldIsSeen, NoneAhead
<1>3. AheadIsOnItsWay' /\ ReplayedIsSeen'
  BY DEF WatchInv, AheadIsOnItsWay, ReplayedIsSeen, Active, Stream
<1> QED
  BY <1>1, <1>2, <1>3 DEF WatchInv

LEMMA TickStepOfHost ==
  ASSUME WatchInv, Tick
  PROVE  WatchInv'
<1>1. /\ clock' = clock + 1 /\ count' = count /\ stamp' = stamp /\ ring' = ring
      /\ pipes' = pipes /\ joined' = joined /\ eventStream' = eventStream /\ asking' = asking
      /\ from' = from /\ timer' = timer /\ second' = second /\ seen' = seen /\ told' = told
  BY DEF Tick, watchVars, cursorVars
<1>2. DaemonTypes'
  <2>1. /\ clock \in Nat \ {0} /\ second \in 0 .. clock
        /\ \A e \in 1 .. count : e \in Events /\ stamp[e] \in Nat /\ stamp[e] <= clock
    BY Numbers DEF WatchInv, DaemonTypes
  <2> QED
    BY <1>1, <2>1 DEF WatchInv, DaemonTypes
<1>3. Cycle' /\ Ordered'
  BY <1>1 DEF WatchInv, Cycle, Ordered
<1>4. ToldIsSeen' /\ NoneAhead'
  BY <1>1 DEF WatchInv, ToldIsSeen, NoneAhead
<1>5. AheadIsOnItsWay' /\ ReplayedIsSeen'
  BY <1>1 DEF WatchInv, AheadIsOnItsWay, ReplayedIsSeen, Active, Stream
<1> QED
  BY <1>2, <1>3, <1>4, <1>5 DEF WatchInv

\* A watcher that asks, or whose attempt failed, listens to nothing.
LEMMA AskingStep ==
  ASSUME WatchInv, Connect \/ WatchFails \/ TimerFires
  PROVE  WatchInv'
<1>1. /\ clock' = clock /\ count' = count /\ stamp' = stamp /\ ring' = ring
      /\ pipes' = pipes /\ joined' = joined /\ second' = second /\ seen' = seen /\ told' = told
  BY DEF Connect, WatchFails, TimerFires, daemonVars, cursorVars
<1>2. /\ eventStream = None /\ eventStream' = None /\ timer' \in BOOLEAN
      /\ asking' \in {"no", "asked", "broken"} /\ (timer' => asking' = "no")
      /\ asking' = "asked" => from' = second
  <2>1. CASE Connect
    <3>1. asking = "no" /\ ~timer /\ pipes = <<>>
      BY <2>1 DEF Connect, Watching
    <3>2. eventStream = None
      <4>1. Len(pipes) = 0
        BY <3>1, EmptySeq
      <4> QED
        BY <4>1 DEF WatchInv, Cycle, None
    <3>3. eventStream' = eventStream /\ timer' = timer /\ from' = second
          /\ asking' \in {"asked", "broken"}
      BY <2>1 DEF Connect
    <3>4. timer \in BOOLEAN
      BY DEF WatchInv, Cycle
    <3> QED
      BY <3>1, <3>2, <3>3, <3>4
  <2>2. CASE WatchFails
    BY <2>2 DEF WatchFails, Rewatch, WatchInv, Cycle
  <2>3. CASE TimerFires
    <3>1. timer /\ eventStream = None
      BY <2>3 DEF TimerFires, WatchInv, Cycle
    <3>2. eventStream' = eventStream /\ timer' = FALSE /\ from' = second
          /\ asking' \in {"asked", "broken"}
      BY <2>3 DEF TimerFires
    <3> QED
      BY <3>1, <3>2
  <2> QED
    BY <2>1, <2>2, <2>3
<1>3. DaemonTypes'
  BY <1>1 DEF WatchInv, DaemonTypes
<1>4. Cycle'
  BY <1>1, <1>2 DEF Cycle
<1>5. Ordered'
  BY <1>1, <1>2 DEF WatchInv, Ordered
<1>6. ToldIsSeen' /\ NoneAhead'
  BY <1>1 DEF WatchInv, ToldIsSeen, NoneAhead
<1>7. AheadIsOnItsWay' /\ ReplayedIsSeen'
  BY <1>2 DEF AheadIsOnItsWay, ReplayedIsSeen, Active
<1> QED
  BY <1>3, <1>4, <1>5, <1>6, <1>7 DEF WatchInv

\* A stream that is opened replays what lies at the cursor or ahead of it.
LEMMA OpenStreamStep ==
  ASSUME WatchInv, OpenStream
  PROVE  WatchInv'
<1>1. /\ asking = "asked" /\ asking' = "opened" /\ pipes' = Append(pipes, Replay)
      /\ joined' = Len(pipes')
      /\ clock' = clock /\ count' = count /\ stamp' = stamp /\ ring' = ring
      /\ eventStream' = eventStream /\ from' = from /\ timer' = timer
      /\ second' = second /\ seen' = seen /\ told' = told
  BY DEF OpenStream, daemonVars, cursorVars
<1>2. /\ eventStream = None /\ ~timer /\ from = second
      /\ pipes \in Seq(Seq(1 .. End)) /\ ring \subseteq 1 .. count /\ count \in 0 .. MaxEvents
      /\ stamp \in [Events -> Nat] /\ second \in Nat
  BY <1>1 DEF WatchInv, Cycle, Ordered, DaemonTypes
<1> DEFINE es == IF from = NoSecond THEN {} ELSE {e \in ring : stamp[e] >= from}
<1>4. /\ es \subseteq 1 .. count /\ es \subseteq 1 .. End /\ es \subseteq Nat /\ es \subseteq ring
      /\ \A e \in es : from # NoSecond /\ stamp[e] >= from
      /\ from # NoSecond => \A e \in ring : stamp[e] >= from => e \in es
  <2>1. ring \subseteq 1 .. End /\ ring \subseteq Nat
    BY <1>2, Numbers
  <2>2. CASE from = NoSecond
    BY <2>2
  <2>3. CASE from # NoSecond
    BY <1>2, <2>1, <2>3
  <2> QED
    BY <2>2, <2>3
<1>13. Replay = Ranked(es)
  BY DEF Replay, Ranked
<1> HIDE DEF es
<1>3. Replay \in Seq(es) /\ Rising(Replay) /\ \A e : Carries(Replay, e) <=> e \in es
  <2>1. IsFiniteSet(1 .. count)
    BY <1>2, FS_Interval
  <2>2. IsFiniteSet(es)
    BY <1>4, <2>1, FS_Subset
  <2> QED
    BY <1>4, <1>13, <2>2, RankedInOrder
<1>5. Replay \in Seq(1 .. End)
  BY <1>3, <1>4, SeqMonotonic
<1>6. /\ pipes' \in Seq(Seq(1 .. End)) /\ Len(pipes') = Len(pipes) + 1 /\ Len(pipes) \in Nat
      /\ \A s \in 1 .. Len(pipes) : pipes'[s] = pipes[s]
      /\ pipes'[Len(pipes) + 1] = Replay /\ pipes' # <<>>
  BY <1>1, <1>2, <1>5, AppendProperties
<1>7. Stream' = Replay
  BY <1>6 DEF Stream
<1>8. DaemonTypes' /\ Cycle'
  BY <1>1, <1>2, <1>6 DEF WatchInv, DaemonTypes, Cycle
<1>9. Ordered'
  <2>1. \A s \in 1 .. Len(pipes) + 1 : s \in 1 .. Len(pipes) \/ s = Len(pipes) + 1
    BY <1>6
  <2>2. \A s \in 1 .. Len(pipes) :
          /\ Rising(pipes'[s])
          /\ \A i \in 1 .. Len(pipes'[s]) :
               pipes'[s][i] <= count \/ (s # joined' /\ pipes'[s][i] > MaxEvents)
    BY <1>1, <1>6 DEF WatchInv, Ordered
  <2>3. \A i \in 1 .. Len(Replay) : Replay[i] <= count
    <3>1. \A i \in 1 .. Len(Replay) : Replay[i] \in es
      BY <1>3, ElementOfSeq
    <3>2. \A x \in es : x <= count
      BY <1>2, <1>4, Numbers
    <3> QED
      BY <3>1, <3>2, Zenon
  <2> QED
    BY <1>1, <1>2, <1>3, <1>6, <2>1, <2>2, <2>3 DEF WatchInv, Ordered
<1>10. ToldIsSeen' /\ NoneAhead'
  BY <1>1 DEF WatchInv, ToldIsSeen, NoneAhead
<1>11. AheadIsOnItsWay'
  <2> SUFFICES ASSUME second # NoSecond, NEW d \in ring, stamp[d] > second
               PROVE  Carries(Replay, d)
    BY <1>1, <1>7 DEF AheadIsOnItsWay
  <2>1. stamp[d] >= from
    BY <1>2, Numbers
  <2> QED
    BY <1>2, <1>3, <1>4, <2>1
<1>12. ReplayedIsSeen'
  <2> SUFFICES ASSUME NEW e \in Events, Carries(Replay, e), told[e] > 0
               PROVE  /\ stamp[e] = second /\ e \in seen
                      /\ \A d \in Events : d < e /\ Carries(Replay, d) => stamp[d] <= second
    BY <1>1, <1>7 DEF ReplayedIsSeen
  <2>1. e \in ring /\ stamp[e] >= second /\ stamp[e] \in Nat
    BY <1>2, <1>3, <1>4
  <2>2. stamp[e] <= second /\ (stamp[e] = second => e \in seen)
    BY DEF WatchInv, ToldIsSeen
  <2>3. \A d \in Events : d < e /\ Carries(Replay, d) => stamp[d] <= second
    BY <1>3, <1>4 DEF WatchInv, NoneAhead
  <2> QED
    BY <1>2, <2>1, <2>2, <2>3
<1> QED
  BY <1>8, <1>9, <1>10, <1>11, <1>12 DEF WatchInv

\* From the moment the first stream is there the cursor is at the present.
LEMMA ResolvesStep ==
  ASSUME WatchInv, WatchResolves
  PROVE  WatchInv'
<1>1. /\ asking = "opened" /\ asking' = "no" /\ eventStream' = Len(pipes)
      /\ clock' = clock /\ count' = count /\ stamp' = stamp /\ ring' = ring
      /\ pipes' = pipes /\ joined' = joined /\ timer' = timer /\ seen' = seen /\ told' = told
      /\ second' = IF second = NoSecond THEN clock ELSE second
  BY DEF WatchResolves, BeginCursor, daemonVars, cursorVars
<1>2. /\ ~timer /\ pipes # <<>> /\ Active
      /\ clock \in Nat \ {0} /\ second \in 0 .. clock
      /\ \A e \in ring : e \in 1 .. count /\ stamp[e] <= clock
  BY <1>1 DEF WatchInv, Cycle, DaemonTypes, Active
<1>3. Len(pipes) \in Nat \ {0}
  BY <1>2, StreamTyped
<1>4. second' # NoSecond /\ second' \in 0 .. clock
  BY <1>1, <1>2, Numbers
<1>5. DaemonTypes'
  BY <1>1, <1>4 DEF WatchInv, DaemonTypes
<1>6. Cycle'
  <2>1. timer' = FALSE
    BY <1>1, <1>2 DEF WatchInv, Cycle
  <2> QED
    BY <1>1, <1>4, <2>1 DEF Cycle
<1>7. Ordered'
  BY <1>1, <1>3 DEF WatchInv, Ordered
<1>8. CASE second # NoSecond
  <2>1. second' = second
    BY <1>1, <1>8
  <2>2. ToldIsSeen' /\ NoneAhead'
    BY <1>1, <2>1 DEF WatchInv, ToldIsSeen, NoneAhead
  <2>3. AheadIsOnItsWay' /\ ReplayedIsSeen'
    BY <1>1, <1>2, <1>8, <2>1 DEF WatchInv, AheadIsOnItsWay, ReplayedIsSeen, Stream
  <2> QED
    BY <1>5, <1>6, <1>7, <2>2, <2>3 DEF WatchInv
<1>9. CASE second = NoSecond
  <2>1. \A e \in Events : ~(told[e] > 0)
    BY <1>9 DEF WatchInv, ToldIsSeen
  <2>2. ToldIsSeen' /\ NoneAhead' /\ ReplayedIsSeen'
    BY <1>1, <2>1 DEF ToldIsSeen, NoneAhead, ReplayedIsSeen
  <2>3. second' = clock
    BY <1>1, <1>9
  <2>4. \A d \in ring : stamp[d] \in Nat /\ stamp[d] <= clock
    BY <1>2, Numbers DEF WatchInv, DaemonTypes
  <2>5. AheadIsOnItsWay'
    BY <1>1, <1>2, <2>3, <2>4 DEF AheadIsOnItsWay
  <2> QED
    BY <1>5, <1>6, <1>7, <2>2, <2>5 DEF WatchInv
<1> QED
  BY <1>8, <1>9

LEMMA PutStream ==
  ASSUME WatchInv, NEW s \in 1 .. Len(pipes), NEW q \in Seq(1 .. End),
         pipes' = [pipes EXCEPT ![s] = q]
  PROVE  /\ pipes' \in Seq(Seq(1 .. End)) /\ Len(pipes') = Len(pipes)
         /\ pipes'[s] = q
         /\ \A t \in 1 .. Len(pipes) : t # s => pipes'[t] = pipes[t]
         /\ pipes' # <<>>
<1>1. pipes \in Seq(Seq(1 .. End)) /\ Len(pipes) \in Nat
  BY DEF WatchInv, Ordered
<1>2. /\ pipes' \in Seq(Seq(1 .. End)) /\ Len(pipes') = Len(pipes)
      /\ \A t \in 1 .. Len(pipes) : pipes'[t] = IF t = s THEN q ELSE pipes[t]
  BY <1>1, ExceptSeq
<1>3. pipes' # <<>>
  BY <1>1, <1>2, EmptySeq
<1> QED
  BY <1>2, <1>3

\* A new event is at the end of the stream the daemon writes to.
LEMMA ChangeOfHost ==
  ASSUME WatchInv, NEW s, Change(s)
  PROVE  WatchInv'
<1> DEFINE e == count + 1
<1>1. /\ e \in Events /\ s \in {clock, clock - 1} \ {NoSecond} /\ count' = e
      /\ stamp' = [stamp EXCEPT ![e] = s]
      /\ clock' = clock /\ joined' = joined /\ eventStream' = eventStream /\ asking' = asking
      /\ from' = from /\ timer' = timer /\ second' = second /\ seen' = seen /\ told' = told
  BY DEF Change, watchVars, cursorVars
<1>2. /\ DaemonTypes /\ Cycle /\ Ordered /\ ToldIsSeen /\ NoneAhead
      /\ clock \in Nat \ {0} /\ count \in Nat /\ count + 1 <= MaxEvents
      /\ \A d \in 1 .. count : d \in Events
      /\ \A d \in ring : d \in 1 .. count
  BY <1>1, Numbers DEF WatchInv, DaemonTypes
<1>3. s \in Nat /\ s <= clock
  BY <1>1, <1>2, Numbers
<1>4. /\ stamp' \in [Events -> Nat] /\ stamp'[e] = s
      /\ \A d \in Events : d # e => stamp'[d] = stamp[d]
  BY <1>1, <1>2, <1>3 DEF DaemonTypes
<1>5. /\ ring' \subseteq ring \cup {e}
      /\ \/ /\ joined # None /\ pipes' = [pipes EXCEPT ![joined] = Append(@, e)]
         \/ pipes' = pipes /\ (joined = None \/ ring' = ring)
  <2>1. Newest(ring \cup {e}) \subseteq ring \cup {e}
    BY DEF Newest
  <2>2. CASE daemonUp
    <3>1. /\ ring' = Newest(ring \cup {e})
          /\ pipes' = IF joined = None THEN pipes
                      ELSE [pipes EXCEPT ![joined] = Append(@, e)]
      BY <2>2 DEF Change
    <3> QED
      BY <2>1, <3>1
  <2>3. CASE ~daemonUp
    BY <2>3 DEF Change
  <2> QED
    BY <2>2, <2>3
<1>6. e \notin 1 .. count /\ \A d \in 1 .. count : d # e /\ d < e
  BY <1>2
<1>7. \A d \in 1 .. count + 1 : d = e \/ d \in 1 .. count
  BY <1>2
<1>8. DaemonTypes'
  <2>1. ring' \subseteq 1 .. count'
    BY <1>1, <1>2, <1>5
  <2>2. \A d \in 1 .. count' : stamp'[d] <= clock'
    BY <1>1, <1>2, <1>3, <1>4, <1>6, <1>7 DEF DaemonTypes
  <2>3. count' \in 0 .. MaxEvents
    BY <1>1, <1>2, Numbers
  <2> QED
    BY <1>1, <1>2, <1>4, <2>1, <2>2, <2>3 DEF DaemonTypes
<1>9. \A x \in Events : told[x] > 0 => x # e /\ stamp'[x] = stamp[x] /\ x < e
  BY <1>2, <1>4, <1>6, Numbers DEF ToldIsSeen
<1>10. ToldIsSeen'
  BY <1>1, <1>2, <1>9, Numbers DEF ToldIsSeen
<1>11. NoneAhead'
  <2> SUFFICES ASSUME NEW x \in Events, told[x] > 0, NEW d \in ring', d < x
               PROVE  stamp'[d] <= second
    BY <1>1 DEF NoneAhead
  <2>1. d # e
    BY <1>2, <1>9, Numbers
  <2>2. d \in ring /\ d \in Events
    BY <1>2, <1>5, <2>1
  <2> QED
    BY <1>2, <1>4, <2>1, <2>2 DEF NoneAhead
<1> HIDE DEF e
<1>12. CASE joined # None /\ pipes' = [pipes EXCEPT ![joined] = Append(@, e)]
  <2>1. joined = Len(pipes) /\ pipes # <<>> /\ joined \in 1 .. Len(pipes)
    BY <1>2, <1>12, StreamTyped DEF Ordered
  <2>2. pipes \in Seq(Seq(1 .. End)) /\ Stream = pipes[joined]
    BY <1>2, <2>1 DEF Ordered, Stream
  <2>3. /\ Stream \in Seq(1 .. End) /\ Rising(Stream)
        /\ \A i \in 1 .. Len(Stream) : Stream[i] <= count /\ Stream[i] \in Nat
    BY <1>2, <2>1, <2>2, StreamTyped, Numbers DEF Ordered
  <2>4. e \in 1 .. End /\ e = count + 1 /\ \A i \in 1 .. Len(Stream) : Stream[i] < e
    BY <1>1, <1>2, <2>3, Numbers DEF e
  <2> DEFINE q == Append(Stream, e)
  <2>5. /\ q \in Seq(1 .. End) /\ Rising(q)
        /\ \A i \in 1 .. Len(q) : q[i] = e \/ (i \in 1 .. Len(Stream) /\ q[i] = Stream[i])
        /\ \A d : Carries(q, d) <=> Carries(Stream, d) \/ d = e
    BY <2>3, <2>4, AppendCarries, Numbers
  <2>6. pipes' = [pipes EXCEPT ![joined] = q]
    BY <1>12, <2>2
  <2> HIDE DEF q
  <2>7. /\ pipes' \in Seq(Seq(1 .. End)) /\ Len(pipes') = Len(pipes)
        /\ pipes'[joined] = q /\ pipes' # <<>>
        /\ \A t \in 1 .. Len(pipes) : t # joined => pipes'[t] = pipes[t]
    BY <2>1, <2>5, <2>6, PutStream
  <2>8. Stream' = q
    BY <2>1, <2>7 DEF Stream
  <2>9. Cycle'
    BY <1>1, <1>2, <2>7 DEF Cycle
  <2>10. Ordered'
    <3>1. \A i \in 1 .. Len(q) : q[i] <= count'
      BY <1>1, <1>2, <2>3, <2>4, <2>5
    <3>2. \A t \in 1 .. Len(pipes) : t # joined =>
            /\ Rising(pipes[t])
            /\ \A i \in 1 .. Len(pipes[t]) : pipes[t][i] <= count' \/ pipes[t][i] > MaxEvents
      <4>1. \A t \in 1 .. Len(pipes) : \A i \in 1 .. Len(pipes[t]) : pipes[t][i] \in Nat
        BY <2>2, ElementOfSeq, Numbers
      <4> QED
        BY <1>1, <1>2, <2>4, <4>1 DEF Ordered
    <3> QED
      BY <1>1, <1>2, <2>1, <2>5, <2>7, <3>1, <3>2 DEF Ordered
  <2>11. AheadIsOnItsWay'
    <3> SUFFICES ASSUME Active, second # NoSecond, NEW d \in ring', stamp'[d] > second
                 PROVE  Carries(q, d)
      BY <1>1, <2>8 DEF AheadIsOnItsWay, Active
    <3>1. CASE d = e
      BY <2>5, <3>1
    <3>2. CASE d # e
      <4>1. d \in ring /\ d \in Events /\ stamp[d] > second
        BY <1>2, <1>4, <1>5, <3>2 DEF e
      <4>2. Carries(Stream, d)
        BY <1>12, <4>1 DEF WatchInv, AheadIsOnItsWay
      <4> QED
        BY <2>5, <4>2
    <3> QED
      BY <3>1, <3>2
  <2>12. ReplayedIsSeen'
    <3> SUFFICES ASSUME Active, NEW x \in Events, Carries(q, x), told[x] > 0
                 PROVE  /\ stamp'[x] = second /\ x \in seen
                        /\ \A d \in Events : d < x /\ Carries(q, d) => stamp'[d] <= second
      BY <1>1, <2>8 DEF ReplayedIsSeen, Active
    <3>1. x # e /\ stamp'[x] = stamp[x] /\ x < e
      BY <1>9 DEF e
    <3>2. Carries(Stream, x)
      BY <2>5, <3>1
    <3>3. /\ stamp[x] = second /\ x \in seen
          /\ \A d \in Events : d < x /\ Carries(Stream, d) => stamp[d] <= second
      BY <3>2 DEF WatchInv, ReplayedIsSeen
    <3>4. ASSUME NEW d \in Events, d < x, Carries(q, d) PROVE stamp'[d] <= second
      <4>1. d # e
        BY <3>1, <3>4, <2>4, <1>2, Numbers
      <4> QED
        BY <1>4, <2>5, <3>3, <3>4, <4>1 DEF e
    <3> QED
      BY <3>1, <3>3, <3>4
  <2> QED
    BY <1>8, <1>10, <1>11, <2>9, <2>10, <2>11, <2>12 DEF WatchInv
<1>13. CASE pipes' = pipes /\ (joined = None \/ ring' = ring)
  <2>1. Cycle'
    BY <1>1, <1>2, <1>13 DEF Cycle
  <2>2. \A t \in 1 .. Len(pipes) : \A i \in 1 .. Len(pipes[t]) : pipes[t][i] \in Nat
    BY <1>2, ElementOfSeq, Numbers DEF Ordered
  <2>3. Ordered'
    BY <1>1, <1>2, <1>13, <2>2 DEF Ordered, e
  <2>4. AheadIsOnItsWay'
    <3> SUFFICES ASSUME Active, second # NoSecond, NEW d \in ring', stamp'[d] > second
                 PROVE  /\ joined # None => Carries(Stream, d)
                        /\ \A x \in Events : d < x /\ Carries(Stream, x) => Carries(Stream, d)
      BY <1>1, <1>13 DEF AheadIsOnItsWay, Active, Stream
    <3>1. CASE d = e
      <4>1. joined = None
        BY <1>2, <1>6, <1>13, <3>1 DEF e
      <4>2. ASSUME NEW x \in Events, d < x, Carries(Stream, x) PROVE FALSE
        <5>1. pipes # <<>>
          BY <1>2, EmptySeq DEF Active, Cycle, Ordered, None
        <5>2. PICK i \in 1 .. Len(Stream) : Stream[i] = x
          BY <4>2 DEF Carries
        <5>3. x <= count \/ x > MaxEvents
          BY <5>1, <5>2, StreamTyped
        <5> QED
          BY <1>2, <3>1, <4>2, <5>3, Numbers DEF e
      <4> QED
        BY <4>1, <4>2
    <3>2. CASE d # e
      <4>1. d \in ring /\ d \in Events /\ stamp[d] > second
        BY <1>2, <1>4, <1>5, <3>2 DEF e
      <4> QED
        BY <4>1 DEF WatchInv, AheadIsOnItsWay
    <3> QED
      BY <3>1, <3>2
  <2>5. ReplayedIsSeen'
    <3> SUFFICES ASSUME Active, NEW x \in Events, Carries(Stream, x), told[x] > 0
                 PROVE  /\ stamp'[x] = second /\ x \in seen
                        /\ \A d \in Events : d < x /\ Carries(Stream, d) => stamp'[d] <= second
      BY <1>1, <1>13 DEF ReplayedIsSeen, Active, Stream
    <3>1. x # e /\ stamp'[x] = stamp[x] /\ x < e
      BY <1>9 DEF e
    <3>2. /\ stamp[x] = second /\ x \in seen
          /\ \A d \in Events : d < x /\ Carries(Stream, d) => stamp[d] <= second
      BY DEF WatchInv, ReplayedIsSeen
    <3>3. \A d \in Events : d < x => d # e
      BY <3>1, <1>2, Numbers DEF e
    <3> QED
      BY <1>4, <3>1, <3>2, <3>3 DEF e
  <2> QED
    BY <1>8, <1>10, <1>11, <2>1, <2>3, <2>4, <2>5 DEF WatchInv
<1> QED
  BY <1>5, <1>12, <1>13 DEF e

\* The stream the daemon writes to is cut short, or there is none.
LEMMA CutStep ==
  ASSUME WatchInv, NEW n, joined # None => n \in 0 .. Len(pipes[joined]),
         NEW tail \in {<<Error, End>>, <<End>>}, pipes' = Severed(n, tail),
         joined' = None, ring' \subseteq ring,
         asking' = asking \/ (asking = "asked" /\ asking' = "broken"),
         clock' = clock, count' = count, stamp' = stamp, eventStream' = eventStream,
         from' = from, timer' = timer, second' = second, seen' = seen, told' = told
  PROVE  WatchInv'
<1>1. /\ DaemonTypes /\ Cycle /\ Ordered /\ ToldIsSeen /\ NoneAhead
      /\ pipes \in Seq(Seq(1 .. End)) /\ Len(pipes) \in Nat /\ count \in 0 .. MaxEvents
  BY DEF WatchInv, Ordered, DaemonTypes
<1>2. DaemonTypes'
  BY <1>1 DEF DaemonTypes
<1>3. ToldIsSeen' /\ NoneAhead'
  BY <1>1 DEF ToldIsSeen, NoneAhead
<1>4. Active' = Active
  BY DEF Active
<1>5. Active => pipes # <<>>
  BY <1>1, EmptySeq DEF Active, Cycle, None
<1>6. CASE joined = None
  <2>1. pipes' = pipes
    BY <1>6 DEF Severed
  <2>2. Cycle' /\ Ordered'
    BY <1>1, <1>6, <2>1 DEF Cycle, Ordered
  <2>3. AheadIsOnItsWay' /\ ReplayedIsSeen'
    BY <1>4, <1>6, <2>1 DEF WatchInv, AheadIsOnItsWay, ReplayedIsSeen, Stream
  <2> QED
    BY <1>2, <1>3, <2>2, <2>3 DEF WatchInv
<1>7. CASE joined # None
  <2>1. joined = Len(pipes) /\ pipes # <<>> /\ joined \in 1 .. Len(pipes) /\ Stream = pipes[joined]
    BY <1>1, <1>7, StreamTyped DEF Ordered, Stream
  <2>2. /\ Stream \in Seq(1 .. End) /\ Rising(Stream) /\ n \in 0 .. Len(Stream)
        /\ \A i \in 1 .. Len(Stream) : Stream[i] <= count /\ Stream[i] \in Nat
    BY <1>1, <1>7, <2>1, StreamTyped, Numbers DEF Ordered
  <2>3. /\ tail \in Seq(1 .. End) /\ Rising(tail)
        /\ \A j \in 1 .. Len(tail) : tail[j] > MaxEvents /\ tail[j] \in 1 .. End
    <3>1. Error \in 1 .. End /\ End \in 1 .. End /\ Error < End /\ Error > MaxEvents
          /\ End > MaxEvents
      BY Numbers
    <3>2. CASE tail = <<End>>
      BY <3>1, <3>2 DEF Rising
    <3>3. CASE tail = <<Error, End>>
      BY <3>1, <3>3 DEF Rising
    <3> QED
      BY <3>2, <3>3
  <2> DEFINE q == SubSeq(Stream, 1, n) \o tail
  <2>4. \A i \in 1 .. Len(Stream) : \A j \in 1 .. Len(tail) : Stream[i] < tail[j]
    BY <1>1, <2>2, <2>3, Numbers
  <2>5. /\ q \in Seq(1 .. End) /\ Rising(q)
        /\ \A i \in 1 .. Len(q) : \/ i \in 1 .. Len(Stream) /\ q[i] = Stream[i]
                                  \/ \E j \in 1 .. Len(tail) : q[i] = tail[j]
        /\ \A d : Carries(q, d) => Carries(Stream, d) \/ Carries(tail, d)
        /\ \A d, e : d < e /\ Carries(Stream, d) /\ Carries(Stream, e) /\ Carries(q, e) =>
             Carries(q, d)
    BY <2>2, <2>3, <2>4, CutCarries, Numbers
  <2>6. pipes' = [pipes EXCEPT ![joined] = q]
    BY <1>7, <2>1 DEF Severed
  <2>7. \A d \in Events : Carries(q, d) => Carries(Stream, d)
    <3>1. \A d : Carries(tail, d) => d > MaxEvents
      BY <2>3 DEF Carries
    <3>2. \A d \in Events : ~(d > MaxEvents)
      BY Numbers
    <3> QED
      BY <2>5, <3>1, <3>2
  <2> HIDE DEF q
  <2>8. /\ pipes' \in Seq(Seq(1 .. End)) /\ Len(pipes') = Len(pipes)
        /\ pipes'[joined] = q /\ pipes' # <<>>
        /\ \A t \in 1 .. Len(pipes) : t # joined => pipes'[t] = pipes[t]
    BY <2>1, <2>5, <2>6, PutStream
  <2>9. Stream' = q
    BY <2>1, <2>8 DEF Stream
  <2>10. Cycle'
    BY <1>1, <2>8 DEF Cycle
  <2>11. Ordered'
    <3>1. \A i \in 1 .. Len(q) : q[i] <= count \/ q[i] > MaxEvents
      BY <2>2, <2>3, <2>5
    <3>2. \A t \in 1 .. Len(pipes) :
            /\ t # None /\ Rising(pipes'[t])
            /\ \A i \in 1 .. Len(pipes'[t]) : pipes'[t][i] <= count \/ pipes'[t][i] > MaxEvents
      <4>1. \A t \in 1 .. Len(pipes) : t # None
        BY Numbers
      <4> QED
        BY <1>1, <2>5, <2>8, <3>1, <4>1 DEF Ordered
    <3> QED
      BY <1>1, <2>8, <3>2 DEF Ordered
  <2>12. AheadIsOnItsWay'
    <3> SUFFICES ASSUME Active, second # NoSecond, NEW d \in ring, stamp[d] > second,
                        NEW e \in Events, d < e, Carries(q, e)
                 PROVE  Carries(q, d)
      BY <1>4, <2>9 DEF AheadIsOnItsWay
    <3>1. Carries(Stream, e)
      BY <2>7
    <3>2. Carries(Stream, d)
      BY <3>1 DEF WatchInv, AheadIsOnItsWay
    <3> QED
      BY <2>5, <3>1, <3>2
  <2>13. ReplayedIsSeen'
    <3> SUFFICES ASSUME Active, NEW e \in Events, Carries(q, e), told[e] > 0
                 PROVE  /\ stamp[e] = second /\ e \in seen
                        /\ \A d \in Events : d < e /\ Carries(q, d) => stamp[d] <= second
      BY <1>4, <2>9 DEF ReplayedIsSeen
    <3> QED
      BY <2>7 DEF WatchInv, ReplayedIsSeen
  <2> QED
    BY <1>2, <1>3, <2>10, <2>11, <2>12, <2>13 DEF WatchInv
<1> QED
  BY <1>6, <1>7

LEMMA BreakStep ==
  ASSUME WatchInv, NEW n, Blip(n) \/ Down(n)
  PROVE  WatchInv'
<1>1. /\ clock' = clock /\ count' = count /\ stamp' = stamp /\ eventStream' = eventStream
      /\ from' = from /\ timer' = timer /\ second' = second /\ seen' = seen /\ told' = told
      /\ joined' = None
  BY DEF Blip, Down, daemonVars, watchVars, cursorVars
<1>2. CASE Blip(n)
  <2>1. /\ n \in 0 .. Len(pipes[joined]) /\ pipes' = Severed(n, <<Error, End>>)
        /\ ring' = ring /\ asking' = asking
    BY <1>2 DEF Blip, daemonVars, watchVars
  <2> QED
    BY <1>1, <2>1, CutStep
<1>3. CASE Down(n)
  <2>1. /\ joined # None => n \in 0 .. Len(pipes[joined])
        /\ pipes' = Severed(n, <<End>>) /\ ring' = {}
        /\ asking' = IF asking = "asked" THEN "broken" ELSE asking
    BY <1>3 DEF Down
  <2> QED
    BY <1>1, <2>1, CutStep
<1> QED
  BY <1>2, <1>3

\* What EventCursor.advance leaves.
LEMMA AdvanceLeaves ==
  ASSUME WatchInv, NEW h \in Events, Advance(h)
  PROVE  /\ second' \in Nat /\ second <= second' /\ stamp[h] <= second' /\ seen' \subseteq Events
         /\ second' = second \/ second' = stamp[h]
         /\ second' = second => seen \subseteq seen'
         /\ second' = stamp[h] => h \in seen'
<1>1. second \in Nat /\ stamp[h] \in Nat /\ seen \subseteq Events
  BY DEF WatchInv, DaemonTypes
<1>2. /\ second' = IF stamp[h] > second THEN stamp[h] ELSE second
      /\ seen' = IF stamp[h] < second THEN seen
                 ELSE IF stamp[h] > second THEN {h} ELSE seen \cup {h}
  BY DEF Advance
<1> QED
  BY <1>1, <1>2

\* One callback: of a stream that was given up, its error or its end, or an
\* event.
LEMMA CallbackStep ==
  ASSUME WatchInv, NEW s, Callback(s)
  PROVE  WatchInv'
<1> DEFINE p == pipes[s]
<1> DEFINE q == Tail(p)
<1> DEFINE h == Head(p)
<1>1. /\ s \in DOMAIN pipes /\ p # <<>> /\ (s = Len(pipes) => asking # "opened")
      /\ pipes' = [pipes EXCEPT ![s] = q]
      /\ clock' = clock /\ count' = count /\ stamp' = stamp /\ ring' = ring /\ joined' = joined
  BY DEF Callback, daemonVars
<1>2. /\ DaemonTypes /\ Cycle /\ Ordered /\ ToldIsSeen /\ NoneAhead /\ AheadIsOnItsWay
      /\ ReplayedIsSeen
      /\ pipes \in Seq(Seq(1 .. End)) /\ Len(pipes) \in Nat
  BY DEF WatchInv, Ordered
<1>3. s \in 1 .. Len(pipes) /\ p \in Seq(1 .. End) /\ Rising(p)
  <2>1. s \in 1 .. Len(pipes)
    BY <1>1, <1>2, LenProperties
  <2> QED
    BY <1>2, <2>1, ElementOfSeq DEF Ordered
<1>4. /\ q \in Seq(1 .. End) /\ Rising(q) /\ h \in 1 .. End /\ h = p[1] /\ Carries(p, h)
      /\ \A i \in 1 .. Len(q) : i + 1 \in 1 .. Len(p) /\ q[i] = p[i + 1]
      /\ \A e : Carries(q, e) => Carries(p, e) /\ h < e
      /\ \A e : Carries(p, e) => e = h \/ Carries(q, e)
  BY <1>1, <1>3, TailCarries, Numbers
<1> HIDE DEF q, h
<1>5. /\ pipes' \in Seq(Seq(1 .. End)) /\ Len(pipes') = Len(pipes) /\ pipes'[s] = q
      /\ \A t \in 1 .. Len(pipes) : t # s => pipes'[t] = pipes[t]
      /\ pipes' # <<>>
  BY <1>1, <1>3, <1>4, PutStream
<1>6. ASSUME eventStream' \in Nat
      PROVE  Ordered'
  <2>1. \A i \in 1 .. Len(q) : q[i] <= count \/ (s # joined /\ q[i] > MaxEvents)
    BY <1>2, <1>3, <1>4 DEF Ordered
  <2> QED
    BY <1>1, <1>2, <1>4, <1>5, <1>6, <2>1 DEF Ordered
<1>7. CASE eventStream # s
  <2>1. /\ second' = second /\ seen' = seen /\ told' = told /\ eventStream' = eventStream
        /\ asking' = asking /\ from' = from /\ timer' = timer
    BY <1>7 DEF Callback, cursorVars, watchVars
  <2>2. DaemonTypes'
    BY <1>1, <1>2, <2>1 DEF DaemonTypes
  <2>3. Cycle'
    BY <1>2, <1>5, <2>1 DEF Cycle
  <2>4. Ordered'
    BY <1>2, <1>6, <2>1 DEF Ordered
  <2>5. ToldIsSeen' /\ NoneAhead'
    BY <1>1, <1>2, <2>1 DEF ToldIsSeen, NoneAhead
  <2>6. Active' <=> Active
    BY <2>1 DEF Active
  <2>7. CASE s = Len(pipes)
    <3>1. ~Active
      BY <1>1, <1>2, <1>7, <2>7 DEF Active, Cycle
    <3> QED
      BY <2>2, <2>3, <2>4, <2>5, <2>6, <3>1 DEF WatchInv, AheadIsOnItsWay, ReplayedIsSeen
  <2>8. CASE s # Len(pipes)
    <3>1. Stream' = Stream
      BY <1>2, <1>3, <1>5, <2>8 DEF Stream
    <3>2. AheadIsOnItsWay' /\ ReplayedIsSeen'
      BY <1>1, <1>2, <2>1, <2>6, <3>1 DEF AheadIsOnItsWay, ReplayedIsSeen
    <3> QED
      BY <2>2, <2>3, <2>4, <2>5, <3>2 DEF WatchInv
  <2> QED
    BY <2>7, <2>8
<1>8. CASE eventStream = s /\ h \in {Error, End}
  <2>1. StreamGone
    BY <1>8 DEF Callback, h
  <2>2. /\ second' = second /\ seen' = seen /\ told' = told /\ eventStream' = None
        /\ asking' = asking /\ from' = from /\ timer' = TRUE
    BY <2>1 DEF StreamGone, Rewatch, cursorVars
  <2>3. asking = "no"
    BY <1>2, <1>3, <1>8, Numbers DEF Cycle
  <2>4. DaemonTypes'
    BY <1>1, <1>2, <2>2 DEF DaemonTypes
  <2>5. Cycle'
    BY <2>2, <2>3 DEF Cycle
  <2>6. Ordered'
    BY <1>6, <2>2, Numbers
  <2>7. ToldIsSeen' /\ NoneAhead'
    BY <1>1, <1>2, <2>2 DEF ToldIsSeen, NoneAhead
  <2>8. ~Active'
    BY <2>2, <2>3 DEF Active
  <2> QED
    BY <2>4, <2>5, <2>6, <2>7, <2>8 DEF WatchInv, AheadIsOnItsWay, ReplayedIsSeen
<1>9. CASE eventStream = s /\ h \notin {Error, End}
  <2>1. HandleEvent(h)
    BY <1>9 DEF Callback, h
  <2>2. /\ Advance(h) /\ eventStream' = eventStream /\ asking' = asking /\ from' = from
        /\ timer' = timer
        /\ told' = IF New(h) THEN [told EXCEPT ![h] = IF @ = 2 THEN 2 ELSE @ + 1] ELSE told
    BY <2>1 DEF HandleEvent, watchVars
  <2>3. /\ s = Len(pipes) /\ Stream = p /\ Active /\ second # NoSecond /\ asking = "no" /\ ~timer
    BY <1>2, <1>3, <1>9, Numbers DEF Cycle, Active, Stream
  <2>4. h \in Events /\ h \in 1 .. count /\ stamp[h] \in Nat /\ told[h] \in Nat /\ second \in Nat
    <3>1. h \in 1 .. MaxEvents /\ count \in Nat
      <4>1. h \in 1 .. End /\ h # Error /\ h # End
        BY <1>4, <1>9
      <4>2. h \in 1 .. MaxEvents
        BY <4>1, Numbers
      <4>3. count \in Nat
        BY <1>2, Numbers DEF DaemonTypes
      <4> QED
        BY <4>2, <4>3
    <3>2. Len(p) # 0 /\ Len(p) \in Nat
      BY <1>1, <1>3, EmptySeq
    <3>3. h <= count \/ h > MaxEvents
      BY <1>2, <1>3, <1>4, <3>2 DEF Ordered
    <3>4. h \in 1 .. count /\ h \in Events
      BY <3>1, <3>3, Numbers
    <3> QED
      BY <1>2, <3>4 DEF DaemonTypes
  <2>5. /\ second' \in Nat /\ second <= second' /\ stamp[h] <= second' /\ seen' \subseteq Events
        /\ second' = second \/ second' = stamp[h]
        /\ second' = second => seen \subseteq seen'
        /\ second' = stamp[h] => h \in seen'
    BY <2>2, <2>4, AdvanceLeaves
  <2>6. told[h] > 0 => ~New(h)
    BY <1>2, <1>4, <2>3, <2>4 DEF ReplayedIsSeen, New
  <2>7. /\ told' \in [Events -> Nat]
        /\ \A e \in Events : e # h => told'[e] = told[e]
        /\ told'[h] > 0 => told'[h] = 1
    <3>1. told \in [Events -> Nat] /\ (told[h] > 0 => told[h] = 1)
      BY <1>2, <2>4 DEF DaemonTypes, ToldIsSeen
    <3>2. CASE New(h)
      <4>1. told[h] = 0
        BY <2>4, <2>6, <3>2
      <4>2. told' = [told EXCEPT ![h] = 1]
        BY <2>2, <3>1, <3>2, <4>1
      <4> QED
        BY <2>4, <3>1, <4>2
    <3>3. CASE ~New(h)
      BY <2>2, <3>1, <3>3
    <3> QED
      BY <3>2, <3>3
  <2>8. Stream' = q
    BY <1>5, <2>3 DEF Stream
  <2>9. DaemonTypes'
    <3>1. second' <= clock
      BY <1>2, <2>4, <2>5 DEF DaemonTypes
    <3> QED
      BY <1>1, <1>2, <2>5, <2>7, <3>1 DEF DaemonTypes
  <2>10. Cycle'
    <3>1. second' # NoSecond
      BY <2>3, <2>4, <2>5, Numbers
    <3> QED
      BY <1>2, <1>5, <2>2, <2>3, <3>1 DEF Cycle
  <2>11. Ordered'
    BY <1>2, <1>6, <2>2 DEF Ordered
  <2>12. \A d \in ring : d \in Events /\ stamp[d] \in Nat
    BY <1>2, Numbers DEF DaemonTypes
  <2>13. \A e \in Events : stamp[e] \in Nat /\ e \in Nat
    BY <1>2, Numbers DEF DaemonTypes
  <2>14. ToldIsSeen'
    <3> SUFFICES ASSUME NEW e \in Events, told'[e] > 0
                 PROVE  /\ told'[e] = 1 /\ e <= count /\ second' # NoSecond
                        /\ stamp[e] <= second' /\ (stamp[e] = second' => e \in seen')
      BY <1>1 DEF ToldIsSeen
    <3>1. second' # NoSecond
      BY <2>3, <2>4, <2>5, Numbers
    <3>2. CASE e = h
      BY <2>4, <2>5, <2>7, <3>1, <3>2
    <3>3. CASE e # h
      <4>1. /\ told'[e] = 1 /\ e <= count /\ stamp[e] <= second
            /\ stamp[e] = second => e \in seen
        BY <1>2, <2>7, <3>3 DEF ToldIsSeen
      <4> QED
        BY <2>4, <2>5, <2>13, <3>1, <4>1
    <3> QED
      BY <3>2, <3>3
  <2>15. NoneAhead'
    <3> SUFFICES ASSUME NEW e \in Events, told'[e] > 0, NEW d \in ring, d < e
                 PROVE  stamp[d] <= second'
      BY <1>1 DEF NoneAhead
    <3>1. CASE e = h
      <4>1. ASSUME stamp[d] > second PROVE FALSE
        <5>1. Carries(p, d)
          BY <1>2, <1>4, <2>3, <2>4, <3>1, <4>1 DEF AheadIsOnItsWay
        <5>2. d = h \/ h < d
          BY <1>4, <5>1
        <5> QED
          BY <2>12, <2>13, <3>1, <5>2
      <4> QED
        BY <2>4, <2>5, <2>12, <4>1
    <3>2. CASE e # h
      <4>1. stamp[d] <= second
        BY <1>2, <2>7, <3>2 DEF NoneAhead
      <4> QED
        BY <2>4, <2>5, <2>12, <4>1
    <3> QED
      BY <3>1, <3>2
  <2>16. AheadIsOnItsWay'
    <3> SUFFICES ASSUME NEW d \in ring, stamp[d] > second'
                 PROVE  /\ joined # None => Carries(q, d)
                        /\ \A e \in Events : d < e /\ Carries(q, e) => Carries(q, d)
      BY <1>1, <2>8 DEF AheadIsOnItsWay
    <3>1. stamp[d] > second /\ d # h
      BY <2>4, <2>5, <2>12
    <3>2. /\ joined # None => Carries(p, d)
          /\ \A e \in Events : d < e /\ Carries(p, e) => Carries(p, d)
      BY <1>2, <2>3, <3>1 DEF AheadIsOnItsWay
    <3> QED
      BY <1>4, <3>1, <3>2
  <2>17. ReplayedIsSeen'
    <3> SUFFICES ASSUME NEW e \in Events, Carries(q, e), told'[e] > 0
                 PROVE  /\ stamp[e] = second' /\ e \in seen'
                        /\ \A d \in Events : d < e /\ Carries(q, d) => stamp[d] <= second'
      BY <1>1, <2>8 DEF ReplayedIsSeen
    <3>1. Carries(p, e) /\ h < e
      BY <1>4
    <3>2. e # h /\ told[e] > 0
      BY <2>7, <2>13, <2>4, <3>1
    <3>3. /\ stamp[e] = second /\ e \in seen
          /\ \A d \in Events : d < e /\ Carries(p, d) => stamp[d] <= second
      BY <1>2, <2>3, <3>1, <3>2 DEF ReplayedIsSeen
    <3>4. stamp[h] <= second
      BY <1>4, <2>4, <3>1, <3>3
    <3>5. second' = second /\ seen \subseteq seen'
      BY <2>4, <2>5, <3>4
    <3> QED
      BY <1>4, <3>3, <3>5
  <2> QED
    BY <2>9, <2>10, <2>11, <2>14, <2>15, <2>16, <2>17 DEF WatchInv
<1> QED
  BY <1>7, <1>8, <1>9

LEMMA WatchInitially ==
  ASSUME WatchInit
  PROVE  WatchInv
<1>1. /\ clock = 1 /\ count = 0 /\ stamp = [e \in Events |-> NoSecond] /\ ring = {}
      /\ pipes = <<>> /\ joined = None /\ eventStream = None /\ asking = "no" /\ timer = FALSE
      /\ second = NoSecond /\ seen = {} /\ told = [e \in Events |-> 0]
  BY DEF WatchInit
<1>2. DaemonTypes
  BY <1>1, Numbers DEF DaemonTypes
<1>3. Cycle
  BY <1>1 DEF Cycle
<1>4. Ordered
  <2>1. Len(pipes) = 0 /\ pipes \in Seq(Seq(1 .. End))
    BY <1>1, EmptySeq
  <2> QED
    BY <1>1, <2>1, Numbers DEF Ordered
<1>5. ToldIsSeen /\ NoneAhead
  BY <1>1 DEF ToldIsSeen, NoneAhead
<1>6. AheadIsOnItsWay /\ ReplayedIsSeen
  BY <1>1 DEF AheadIsOnItsWay, ReplayedIsSeen, Active
<1> QED
  BY <1>2, <1>3, <1>4, <1>5, <1>6 DEF WatchInv

LEMMA WatchInductive ==
  ASSUME WatchInv, [WatchNext]_hostVars
  PROVE  WatchInv'
<1>1. CASE Tick
  BY <1>1, TickStepOfHost
<1>2. CASE \E s \in 1 .. MaxSeconds : Change(s)
  BY <1>2, ChangeOfHost
<1>3. CASE \E n \in 0 .. MaxEvents : Blip(n) \/ Down(n)
  BY <1>3, BreakStep
<1>4. CASE OpenStream
  BY <1>4, OpenStreamStep
<1>5. CASE Connect \/ WatchFails \/ TimerFires
  BY <1>5, AskingStep
<1>6. CASE WatchResolves
  BY <1>6, ResolvesStep
<1>7. CASE \E s \in 1 .. (MaxFaults + 1) : Callback(s)
  BY <1>7, CallbackStep
<1>8. CASE Up \/ Ask \/ (\E r \in ReadSlots : Reading(r)) \/ UNCHANGED hostVars
  <2>1. /\ clock' = clock /\ count' = count /\ stamp' = stamp /\ ring' = ring
        /\ pipes' = pipes /\ joined' = joined /\ eventStream' = eventStream /\ asking' = asking
        /\ from' = from /\ timer' = timer /\ second' = second /\ seen' = seen /\ told' = told
    BY <1>8 DEF Up, Ask, Reading, Answer, ReadDone, ReadFails, hostVars, daemonVars, watchVars,
      cursorVars
  <2> QED
    BY <2>1, QuietStep
<1> QED
  BY <1>1, <1>2, <1>3, <1>4, <1>5, <1>6, <1>7, <1>8 DEF WatchNext

\* What was told lies behind the cursor, and no replay carries it in front of
\* something that would move the cursor past it.
THEOREM WatchKept == WatchSpec => []WatchInv
<1>1. WatchInit => WatchInv
  BY WatchInitially
<1>2. WatchInv /\ [WatchNext]_hostVars => WatchInv'
  BY WatchInductive
<1> QED
  BY <1>1, <1>2, PTL DEF WatchSpec

\* However many events there are, however late they are filed, however many
\* the daemon can replay and however often its streams break: none is reported
\* twice.
THEOREM TellsOnce == WatchSpec => []EventsToldOnce
<1>1. WatchInv => EventsToldOnce
  BY DEF WatchInv, DaemonTypes, ToldIsSeen, EventsToldOnce
<1> QED
  BY <1>1, WatchKept, PTL
=============================================================================
