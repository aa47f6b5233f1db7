----------------------------- MODULE AtLeastOnce -----------------------------
(***************************************************************************)
(* What AckQueue.ts and the two services behind it promise an entry: the   *)
(* agent owes it to the server until the server has ruled on it -- stored   *)
(* it, or said that it never will -- and the agent stops owing it without  *)
(* such a ruling only by excusing it openly (the limit of the queue, its   *)
(* age, a process that ended before the queue was on disk).  A restart may  *)
(* bring back an entry that is done with, which is why delivery is         *)
(* at least once and not exactly once.                                     *)
(***************************************************************************)
EXTENDS Naturals

CONSTANT Entry           \* the entries the agent may produce

VARIABLES
  emitted,               \* entries handed to the queue so far
  owed,                  \* entries the agent still offers to the server
  ruled,                 \* entries the server stored or refused for good
  excused                \* entries given up without a ruling

vars == <<emitted, owed, ruled, excused>>

Init == emitted = {} /\ owed = {} /\ ruled = {} /\ excused = {}

(* A new entry; the queue may have to give up others to hold it.           *)
Emit(e) ==
  /\ e \notin emitted
  /\ emitted' = emitted \cup {e}
  /\ \E lost \in SUBSET (owed \cup {e}) :
       /\ owed' = (owed \cup {e}) \ lost
       /\ excused' = excused \cup lost
  /\ UNCHANGED ruled

(* The server rules on entries it was offered.                             *)
Rule(S) ==
  /\ S \subseteq emitted
  /\ ruled' = ruled \cup S
  /\ UNCHANGED <<emitted, owed, excused>>

(* The agent learns of a ruling and lets go of the entries.                *)
Release(S) ==
  /\ S \subseteq ruled
  /\ owed' = owed \ S
  /\ UNCHANGED <<emitted, ruled, excused>>

GiveUp(S) ==
  /\ S \subseteq owed
  /\ owed' = owed \ S
  /\ excused' = excused \cup S
  /\ UNCHANGED <<emitted, ruled>>

(* A new process owes what it finds on disk.  What was owed and is not     *)
(* there is excused, and what is there again was done with before.         *)
Restart(back) ==
  /\ back \subseteq owed \cup ruled \cup excused
  /\ owed' = back
  /\ excused' = excused \cup (owed \ back)
  /\ UNCHANGED <<emitted, ruled>>

Next ==
  \/ \E e \in Entry : Emit(e)
  \/ \E S \in SUBSET Entry : Rule(S) \/ Release(S) \/ GiveUp(S) \/ Restart(S)

Spec == Init /\ [][Next]_vars

(* No entry goes missing: whatever was handed over is owed, ruled on or    *)
(* openly excused.                                                         *)
NothingVanishes == emitted \subseteq owed \cup ruled \cup excused
=============================================================================
