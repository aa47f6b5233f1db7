-------------------------- MODULE SelfUpdateProofs --------------------------
(***************************************************************************)
(* OneAgent and OutcomeTrue of SelfUpdate for every selection and number   *)
(* of faults. The inductive invariant says what the helper knows at each   *)
(* of its steps: what its variables renamed and created tell of Docker     *)
(* while no answer was lost, that the old container is down before the     *)
(* new one is there while no call failed, and that the outcome file holds  *)
(* what was decided from the decision to the report, and nothing after.    *)
(***************************************************************************)
EXTENDS SelfUpdate, SequenceTheorems, TLAPS

Steps == {"inspect", "image", "aside", "stop", "create", "start", "verify", "removeOld",
          "undoNew", "undoName", "undoOld", "gone", "dead"}

TypeOK ==
  /\ step \in Steps
  /\ old \in {"running", "stopped", "absent"}
  /\ new \in {"absent", "created", "running", "exited"}
  /\ name \in {"original", "parked"}
  /\ renamed \in BOOLEAN /\ created \in BOOLEAN /\ proven \in BOOLEAN
  /\ file \in {"none", "pending"} \cup Decided
  /\ outcome \in {"none"} \cup Decided
  /\ reports \in Seq(Decided)

\* The helper gets on only with an answer.
Progress ==
  /\ step \in {"stop", "create", "start", "verify", "removeOld"} => renamed
  /\ step \in {"start", "verify", "removeOld"} => created

\* The helper removes the old container only after the verification, and
\* whatever completes has the new one running.
ProvenFirst ==
  /\ old = "absent" => proven
  /\ step = "removeOld" \/ outcome = "completed" => proven /\ new = "running"

\* Until the decision there is no outcome; from then to the report the file
\* may hold it, and never again something else.
ToldOnce ==
  /\ step # "gone" => outcome = "none" /\ reports = <<>> /\ file \notin Decided
  /\ file \in Decided => file = outcome /\ reports = <<>>
  /\ reports # <<>> => file = "none" /\ Len(reports) = 1 /\ reports[1] = outcome

\* While Docker carries out and answers every call, one container is down.
InTurn ==
  met \cap {"refused", "lost"} = {} =>
    /\ old # "running" \/ new = "absent"
    /\ step \in {"inspect", "image", "aside", "stop", "create", "undoName", "undoOld"}
         => new = "absent"
    /\ step \in {"create", "start", "verify", "removeOld", "undoNew"} => old # "running"
    /\ step = "undoNew" => created

\* While no answer is lost, the helper's variables tell what there is.
Knows ==
  "lost" \notin met =>
    /\ step \in {"inspect", "image", "aside"} => old = "running" /\ ~renamed
    /\ step \in {"inspect", "image", "aside", "stop", "create"} => new = "absent" /\ ~created
    /\ step \in {"undoNew", "undoName", "aside", "image", "inspect"}
         => renamed \/ name = "original"
    /\ step = "undoNew" => created \/ new = "absent"
    /\ step = "undoName" => new = "absent"
    /\ step = "undoOld" => new = "absent" /\ name = "original"
    /\ outcome = "rolled-back" => old = "running" /\ name = "original" /\ new = "absent"

Inv == TypeOK /\ Progress /\ ProvenFirst /\ ToldOnce /\ InTurn /\ Knows

USE DEF Steps, Decided, faultVars, dockerVars, agentVars, helperVars

\* A call that is not answered is a fault, and faults are not forgotten.
LEMMA CallMeets ==
  ASSUME NEW k \in Calls, Call(k)
  PROVE  met \subseteq met' /\ (k # "ok" => k \in met') /\ (k = "ok" \/ k = "refused" \/ k = "lost")
BY DEF Calls, Call, Answered, Happens

LEMMA InitHolds == Init => Inv
<1> SUFFICES ASSUME Init PROVE Inv
  OBVIOUS
<1>1. reports = <<>> /\ <<>> \in Seq(Decided)
  BY EmptySeq DEF Init
<1>2. TypeOK
  BY <1>1 DEF Init, TypeOK
<1>3. ProvenFirst /\ Progress /\ ToldOnce
  BY <1>1 DEF Init, ProvenFirst, Progress, ToldOnce
<1>4. InTurn /\ Knows
  BY DEF Init, InTurn, Knows
<1> QED
  BY <1>2, <1>3, <1>4 DEF Inv

\* Every step of the helper keeps the invariant.
LEMMA HelperStep ==
  ASSUME Inv, Helper
  PROVE  Inv'
<1>1. CASE Inspect
  <2>0. met \subseteq met'
    BY <1>1, CallMeets DEF Inspect
  <2>1. TypeOK'
    BY <1>1, <2>0, CallMeets
         DEF Inv, Inspect, Finish, Writes, Answered, TypeOK
  <2>2. Progress'
    BY <1>1, <2>0, CallMeets
         DEF Inv, Inspect, Finish, Writes, Answered, Progress, TypeOK
  <2>3. ProvenFirst'
    BY <1>1, <2>0, CallMeets
         DEF Inv, Inspect, Finish, Writes, Answered, ProvenFirst, ToldOnce, TypeOK
  <2>4. ToldOnce'
    BY <1>1, <2>0, CallMeets
         DEF Inv, Inspect, Finish, Writes, Answered, ToldOnce, TypeOK
  <2>5. InTurn'
    BY <1>1, <2>0, CallMeets
         DEF Inv, Inspect, Finish, Writes, Answered, InTurn, TypeOK, Progress, ToldOnce
  <2>6. Knows'
    BY <1>1, <2>0, CallMeets
         DEF Inv, Inspect, Finish, Writes, Answered, Knows, TypeOK, Progress, ToldOnce
  <2> QED
    BY <2>1, <2>2, <2>3, <2>4, <2>5, <2>6 DEF Inv
<1>2. CASE ReadImage
  <2>0. met \subseteq met'
    BY <1>2, CallMeets DEF ReadImage
  <2>1. TypeOK'
    BY <1>2, <2>0, CallMeets
         DEF Inv, ReadImage, Answered, TypeOK
  <2>2. Progress'
    BY <1>2, <2>0, CallMeets
         DEF Inv, ReadImage, Answered, Progress, TypeOK
  <2>3. ProvenFirst'
    BY <1>2, <2>0, CallMeets
         DEF Inv, ReadImage, Answered, ProvenFirst, ToldOnce, TypeOK
  <2>4. ToldOnce'
    BY <1>2, <2>0, CallMeets
         DEF Inv, ReadImage, Answered, ToldOnce, TypeOK
  <2>5. InTurn'
    BY <1>2, <2>0, CallMeets
         DEF Inv, ReadImage, Answered, InTurn, TypeOK, Progress, ToldOnce
  <2>6. Knows'
    BY <1>2, <2>0, CallMeets
         DEF Inv, ReadImage, Answered, Knows, TypeOK, Progress, ToldOnce
  <2> QED
    BY <2>1, <2>2, <2>3, <2>4, <2>5, <2>6 DEF Inv
<1>3. CASE SetAside
  <2>0. met \subseteq met'
    BY <1>3, CallMeets DEF SetAside
  <2>1. TypeOK'
    BY <1>3, <2>0, CallMeets
         DEF Inv, SetAside, Writes, Carried, Answered, TypeOK
  <2>2. Progress'
    BY <1>3, <2>0, CallMeets
         DEF Inv, SetAside, Writes, Carried, Answered, Progress, TypeOK
  <2>3. ProvenFirst'
    BY <1>3, <2>0, CallMeets
         DEF Inv, SetAside, Writes, Carried, Answered, ProvenFirst, ToldOnce, TypeOK
  <2>4. ToldOnce'
    BY <1>3, <2>0, CallMeets
         DEF Inv, SetAside, Writes, Carried, Answered, ToldOnce, TypeOK
  <2>5. InTurn'
    BY <1>3, <2>0, CallMeets
         DEF Inv, SetAside, Writes, Carried, Answered, InTurn, TypeOK, Progress, ToldOnce
  <2>6. Knows'
    BY <1>3, <2>0, CallMeets
         DEF Inv, SetAside, Writes, Carried, Answered, Knows, TypeOK, Progress, ToldOnce
  <2> QED
    BY <2>1, <2>2, <2>3, <2>4, <2>5, <2>6 DEF Inv
<1>4. CASE StopOld
  <2>0. met \subseteq met'
    BY <1>4, CallMeets DEF StopOld
  <2>1. TypeOK'
    BY <1>4, <2>0, CallMeets
         DEF Inv, StopOld, Carried, Process, Answered, TypeOK
  <2>2. Progress'
    BY <1>4, <2>0, CallMeets
         DEF Inv, StopOld, Carried, Process, Answered, Progress, TypeOK
  <2>3. ProvenFirst'
    BY <1>4, <2>0, CallMeets
         DEF Inv, StopOld, Carried, Process, Answered, ProvenFirst, ToldOnce, TypeOK
  <2>4. ToldOnce'
    BY <1>4, <2>0, CallMeets
         DEF Inv, StopOld, Carried, Process, Answered, ToldOnce, TypeOK
  <2>5. InTurn'
    BY <1>4, <2>0, CallMeets
         DEF Inv, StopOld, Carried, Process, Answered, InTurn, TypeOK, Progress, ToldOnce
  <2>6. Knows'
    BY <1>4, <2>0, CallMeets
         DEF Inv, StopOld, Carried, Process, Answered, Knows, TypeOK, Progress, ToldOnce
  <2> QED
    BY <2>1, <2>2, <2>3, <2>4, <2>5, <2>6 DEF Inv
<1>5. CASE CreateNew
  <2>0. met \subseteq met'
    BY <1>5, CallMeets DEF CreateNew
  <2>1. TypeOK'
    BY <1>5, <2>0, CallMeets
         DEF Inv, CreateNew, Carried, Answered, TypeOK
  <2>2. Progress'
    BY <1>5, <2>0, CallMeets
         DEF Inv, CreateNew, Carried, Answered, Progress, TypeOK
  <2>3. ProvenFirst'
    BY <1>5, <2>0, CallMeets
         DEF Inv, CreateNew, Carried, Answered, ProvenFirst, ToldOnce, TypeOK
  <2>4. ToldOnce'
    BY <1>5, <2>0, CallMeets
         DEF Inv, CreateNew, Carried, Answered, ToldOnce, TypeOK
  <2>5. InTurn'
    BY <1>5, <2>0, CallMeets
         DEF Inv, CreateNew, Carried, Answered, InTurn, TypeOK, Progress, ToldOnce
  <2>6. Knows'
    BY <1>5, <2>0, CallMeets
         DEF Inv, CreateNew, Carried, Answered, Knows, TypeOK, Progress, ToldOnce
  <2> QED
    BY <2>1, <2>2, <2>3, <2>4, <2>5, <2>6 DEF Inv
<1>6. CASE StartNew
  <2>0. met \subseteq met'
    BY <1>6, CallMeets DEF StartNew
  <2>1. TypeOK'
    BY <1>6, <2>0, CallMeets
         DEF Inv, StartNew, Carried, Process, Answered, TypeOK
  <2>2. Progress'
    BY <1>6, <2>0, CallMeets
         DEF Inv, StartNew, Carried, Process, Answered, Progress, TypeOK
  <2>3. ProvenFirst'
    BY <1>6, <2>0, CallMeets
         DEF Inv, StartNew, Carried, Process, Answered, ProvenFirst, ToldOnce, TypeOK
  <2>4. ToldOnce'
    BY <1>6, <2>0, CallMeets
         DEF Inv, StartNew, Carried, Process, Answered, ToldOnce, TypeOK
  <2>5. InTurn'
    BY <1>6, <2>0, CallMeets
         DEF Inv, StartNew, Carried, Process, Answered, InTurn, TypeOK, Progress, ToldOnce
  <2>6. Knows'
    BY <1>6, <2>0, CallMeets
         DEF Inv, StartNew, Carried, Process, Answered, Knows, TypeOK, Progress, ToldOnce
  <2> QED
    BY <2>1, <2>2, <2>3, <2>4, <2>5, <2>6 DEF Inv
<1>7. CASE VerifyReplacement
  <2>1. TypeOK'
    BY <1>7 DEF Inv, VerifyReplacement, TypeOK
  <2>2. Progress'
    BY <1>7 DEF Inv, VerifyReplacement, Progress, TypeOK
  <2>3. ProvenFirst'
    BY <1>7 DEF Inv, VerifyReplacement, ProvenFirst, TypeOK
  <2>4. ToldOnce'
    BY <1>7 DEF Inv, VerifyReplacement, ToldOnce, TypeOK
  <2>5. InTurn'
    BY <1>7 DEF Inv, VerifyReplacement, InTurn, TypeOK, Progress
  <2>6. Knows'
    BY <1>7 DEF Inv, VerifyReplacement, Knows, TypeOK, Progress
  <2> QED
    BY <2>1, <2>2, <2>3, <2>4, <2>5, <2>6 DEF Inv
<1>8. CASE UndoNew
  <2>0. met \subseteq met'
    BY <1>8, CallMeets DEF UndoNew
  <2>1. TypeOK'
    BY <1>8, <2>0, CallMeets
         DEF Inv, UndoNew, Finish, Writes, Carried, Process, Answered, TypeOK
  <2>2. Progress'
    BY <1>8, <2>0, CallMeets
         DEF Inv, UndoNew, Finish, Writes, Carried, Process, Answered, Progress, TypeOK
  <2>3. ProvenFirst'
    BY <1>8, <2>0, CallMeets
         DEF Inv, UndoNew, Finish, Writes, Carried, Process, Answered, ProvenFirst, ToldOnce, TypeOK
  <2>4. ToldOnce'
    BY <1>8, <2>0, CallMeets
         DEF Inv, UndoNew, Finish, Writes, Carried, Process, Answered, ToldOnce, TypeOK
  <2>5. InTurn'
    BY <1>8, <2>0, CallMeets
         DEF Inv, UndoNew, Finish, Writes, Carried, Process, Answered, InTurn, TypeOK, Progress, ToldOnce
  <2>6. Knows'
    BY <1>8, <2>0, CallMeets
         DEF Inv, UndoNew, Finish, Writes, Carried, Process, Answered, Knows, TypeOK, Progress, ToldOnce
  <2> QED
    BY <2>1, <2>2, <2>3, <2>4, <2>5, <2>6 DEF Inv
<1>9. CASE UndoName
  <2>0. met \subseteq met'
    BY <1>9, CallMeets DEF UndoName
  <2>1. TypeOK'
    BY <1>9, <2>0, CallMeets
         DEF Inv, UndoName, Finish, Writes, Carried, Answered, TypeOK
  <2>2. Progress'
    BY <1>9, <2>0, CallMeets
         DEF Inv, UndoName, Finish, Writes, Carried, Answered, Progress, TypeOK
  <2>3. ProvenFirst'
    BY <1>9, <2>0, CallMeets
         DEF Inv, UndoName, Finish, Writes, Carried, Answered, ProvenFirst, ToldOnce, TypeOK
  <2>4. ToldOnce'
    BY <1>9, <2>0, CallMeets
         DEF Inv, UndoName, Finish, Writes, Carried, Answered, ToldOnce, TypeOK
  <2>5. InTurn'
    BY <1>9, <2>0, CallMeets
         DEF Inv, UndoName, Finish, Writes, Carried, Answered, InTurn, TypeOK, Progress, ToldOnce
  <2>6. Knows'
    BY <1>9, <2>0, CallMeets
         DEF Inv, UndoName, Finish, Writes, Carried, Answered, Knows, TypeOK, Progress, ToldOnce
  <2> QED
    BY <2>1, <2>2, <2>3, <2>4, <2>5, <2>6 DEF Inv
<1>10. CASE UndoOld
  <2>0. met \subseteq met'
    BY <1>10, CallMeets DEF UndoOld
  <2>1. TypeOK'
    BY <1>10, <2>0, CallMeets
         DEF Inv, UndoOld, Finish, Writes, Carried, Process, Answered, TypeOK
  <2>2. Progress'
    BY <1>10, <2>0, CallMeets
         DEF Inv, UndoOld, Finish, Writes, Carried, Process, Answered, Progress, TypeOK
  <2>3. ProvenFirst'
    BY <1>10, <2>0, CallMeets
         DEF Inv, UndoOld, Finish, Writes, Carried, Process, Answered, ProvenFirst, ToldOnce, TypeOK
  <2>4. ToldOnce'
    BY <1>10, <2>0, CallMeets
         DEF Inv, UndoOld, Finish, Writes, Carried, Process, Answered, ToldOnce, TypeOK
  <2>5. InTurn'
    BY <1>10, <2>0, CallMeets
         DEF Inv, UndoOld, Finish, Writes, Carried, Process, Answered, InTurn, TypeOK, Progress, ToldOnce
  <2>6. Knows'
    BY <1>10, <2>0, CallMeets
         DEF Inv, UndoOld, Finish, Writes, Carried, Process, Answered, Knows, TypeOK, Progress, ToldOnce
  <2> QED
    BY <2>1, <2>2, <2>3, <2>4, <2>5, <2>6 DEF Inv
<1>11. CASE RemoveOld
  <2>0. met \subseteq met'
    BY <1>11, CallMeets DEF RemoveOld
  <2>1. TypeOK'
    BY <1>11, <2>0, CallMeets
         DEF Inv, RemoveOld, Finish, Writes, Carried, Process, Answered, TypeOK
  <2>2. Progress'
    BY <1>11, <2>0, CallMeets
         DEF Inv, RemoveOld, Finish, Writes, Carried, Process, Answered, Progress, TypeOK
  <2>3. ProvenFirst'
    BY <1>11, <2>0, CallMeets
         DEF Inv, RemoveOld, Finish, Writes, Carried, Process, Answered, ProvenFirst, ToldOnce, TypeOK
  <2>4. ToldOnce'
    BY <1>11, <2>0, CallMeets
         DEF Inv, RemoveOld, Finish, Writes, Carried, Process, Answered, ToldOnce, TypeOK
  <2>5. InTurn'
    BY <1>11, <2>0, CallMeets
         DEF Inv, RemoveOld, Finish, Writes, Carried, Process, Answered, InTurn, TypeOK, Progress, ToldOnce
  <2>6. Knows'
    BY <1>11, <2>0, CallMeets
         DEF Inv, RemoveOld, Finish, Writes, Carried, Process, Answered, Knows, TypeOK, Progress, ToldOnce
  <2> QED
    BY <2>1, <2>2, <2>3, <2>4, <2>5, <2>6 DEF Inv
<1> QED
  BY <1>1, <1>2, <1>3, <1>4, <1>5, <1>6, <1>7, <1>8, <1>9, <1>10, <1>11 DEF Helper

\* So does what happens to the helper, the containers and the disk.
LEMMA FateStep ==
  ASSUME Inv, NewExits \/ HelperDies \/ DiskFills \/ Exited
  PROVE  Inv'
<1>0. met \subseteq met'
  BY DEF NewExits, HelperDies, DiskFills, Exited, Happens
<1>1. TypeOK'
  BY DEF Inv, NewExits, HelperDies, DiskFills, Exited, TypeOK, Process
<1>2. Progress' /\ ProvenFirst' /\ ToldOnce'
  BY DEF Inv, NewExits, HelperDies, DiskFills, Exited, Progress, ProvenFirst, ToldOnce
<1>3. InTurn'
  BY <1>0 DEF Inv, NewExits, HelperDies, DiskFills, Exited, InTurn
<1>4. Knows'
  BY <1>0 DEF Inv, NewExits, HelperDies, DiskFills, Exited, Knows, ToldOnce
<1> QED
  BY <1>1, <1>2, <1>3, <1>4 DEF Inv

\* And every step of an agent's process.
LEMMA AgentStep ==
  ASSUME Inv, NEW a \in Agents, Agent(a) \/ AgentRestarts(a)
  PROVE  Inv'
<1>0. /\ met \subseteq met' /\ UNCHANGED helperVars /\ UNCHANGED dockerVars
  BY DEF Agent, AgentRestarts, NothingToReport, KeepWatching, GiveUp, Report, Happens
<1>1. \/ reports' = reports /\ file' \in {file, "none"}
      \/ file \in Decided /\ reports' = Append(reports, file) /\ file' = "none"
  BY DEF Agent, AgentRestarts, NothingToReport, KeepWatching, GiveUp, Report
<1>2. CASE reports' = reports /\ file' \in {file, "none"}
  <2>1. TypeOK' /\ Progress' /\ ProvenFirst'
    BY <1>0, <1>2 DEF Inv, TypeOK, Progress, ProvenFirst
  <2>2. ToldOnce'
    BY <1>0, <1>2 DEF Inv, ToldOnce
  <2>3. InTurn' /\ Knows'
    BY <1>0 DEF Inv, InTurn, Knows
  <2> QED
    BY <2>1, <2>2, <2>3 DEF Inv
<1>3. CASE file \in Decided /\ reports' = Append(reports, file) /\ file' = "none"
  <2>1. step = "gone" /\ file = outcome /\ reports = <<>> /\ reports \in Seq(Decided)
    BY <1>3 DEF Inv, ToldOnce, TypeOK
  <2>2. reports' \in Seq(Decided) /\ Len(reports') = 1 /\ reports'[1] = outcome
    BY <1>3, <2>1, AppendProperties
  <2>3. TypeOK' /\ Progress' /\ ProvenFirst'
    BY <1>0, <1>3, <2>2 DEF Inv, TypeOK, Progress, ProvenFirst
  <2>4. ToldOnce'
    BY <1>0, <1>3, <2>1, <2>2 DEF ToldOnce
  <2>5. InTurn' /\ Knows'
    BY <1>0 DEF Inv, InTurn, Knows
  <2> QED
    BY <2>3, <2>4, <2>5 DEF Inv
<1> QED
  BY <1>1, <1>2, <1>3

LEMMA StepHolds == Inv /\ [Next]_vars => Inv'
<1> SUFFICES ASSUME Inv, [Next]_vars PROVE Inv'
  OBVIOUS
<1>1. CASE Helper
  BY <1>1, HelperStep
<1>2. CASE NewExits \/ HelperDies \/ DiskFills \/ Exited
  BY <1>2, FateStep
<1>3. ASSUME NEW a \in Agents, Agent(a) \/ AgentRestarts(a) PROVE Inv'
  BY <1>3, AgentStep
<1>4. CASE UNCHANGED vars
  BY <1>4 DEF vars, Inv, TypeOK, Progress, ProvenFirst, ToldOnce, InTurn, Knows
<1> QED
  BY <1>1, <1>2, <1>3, <1>4 DEF Next

\* The inductive invariant holds throughout.
THEOREM Invariance == Spec => []Inv
<1>1. Init => Inv
  BY InitHolds
<1>2. Inv /\ [Next]_vars => Inv'
  BY StepHolds
<1> QED
  BY <1>1, <1>2, PTL DEF Spec

\* executeHelperMode keeps an agent that can run until the next has proved
\* itself, and while Docker answers never lets the two run side by side.
THEOREM KeepsOneAgent == Spec => []OneAgent
<1>1. Inv => OneAgent
  BY DEF Inv, ProvenFirst, InTurn, OneAgent
<1> QED
  BY <1>1, Invariance, PTL

\* What the helper decided is how it left the host, and what
\* reportSelfUpdateOutcome reports, once.
THEOREM ReportsTheTruth == Spec => []OutcomeTrue
<1>1. Inv => OutcomeTrue
  <2> SUFFICES ASSUME Inv PROVE OutcomeTrue
    OBVIOUS
  <2>1. Len(reports) <= 1 /\ \A i \in DOMAIN reports : reports[i] = outcome
    <3>1. reports \in Seq(Decided) /\ DOMAIN reports = 1 .. Len(reports)
      BY LenProperties DEF Inv, TypeOK
    <3>2. CASE reports = <<>>
      <4>1. Len(reports) = 0
        BY <3>2
      <4> QED
        BY <3>1, <4>1
    <3>3. CASE reports # <<>>
      BY <3>1, <3>3 DEF Inv, ToldOnce
    <3> QED
      BY <3>2, <3>3
  <2>2. outcome = "completed" => proven /\ new = "running"
    BY DEF Inv, ProvenFirst
  <2>3. outcome = "rolled-back" /\ "lost" \notin met
          => old = "running" /\ name = "original" /\ new = "absent"
    BY DEF Inv, Knows
  <2> QED
    BY <2>1, <2>2, <2>3 DEF OutcomeTrue
<1> QED
  BY <1>1, Invariance, PTL
=============================================================================
