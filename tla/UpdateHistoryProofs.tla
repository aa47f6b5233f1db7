------------------------ MODULE UpdateHistoryProofs ------------------------
(***************************************************************************)
(* Why the update history is one story, told of the right one. Inv has     *)
(* four parts beside the types:                                            *)
(*   Numbered   a container's number stands for one image, wherever it is  *)
(*              noted, so that an image that differs is another container; *)
(*   Story      every update begins where the one before it ended, and the *)
(*              memory is where the last one ended;                        *)
(*   Credit     while nothing overlaps and no memory was lost, whatever is *)
(*              still to be seen is what is remembered, what a helper put  *)
(*              back, or the work of the one that is expected -- for that, *)
(*              an announcement holds until its container is seen          *)
(*              (Awaited, UnderWay), and a state that is read is of one of *)
(*              two containers (Recent);                                   *)
(*   Unknown    only what is remembered is announced.                      *)
(* CreditedRight is then preserved where an update is told, and every      *)
(* other step leaves the log as it is, cuts it or adds a failure.          *)
(***************************************************************************)
EXTENDS UpdateHistory, SequenceTheorems, WellFoundedInduction, TLAPS

\* The helper's phases are those of the agent's own container, and what it
\* has created is up under the operation's name.
Shape ==
  /\ op.phase # "idle" => op.n \in Operations
  /\ op.phase \in {"parked", "stopped", "created"} => own
  /\ op.phase = "removed" => ~own
  /\ op.phase = "created" => host.by = op.n
  /\ ~alive => ~read.done
  /\ made \subseteq 1 .. started /\ op.n <= started

Base == TypeOK /\ Shape

-----------------------------------------------------------------------------
(* The operators the model is built from. *)

LEMMA SizesTyped ==
  /\ MaxContainers \in Nat /\ MaxOperations \in Nat /\ MaxFaults \in Nat
  /\ 1 \in Containers /\ AnImage \in Images /\ Images # {}
  /\ \A n \in Operations : n # External
BY SizesAssumption DEF SizesAssumption, Containers, AnImage, Operations, External

LEMMA NothingTyped ==
  /\ NoContainer \in Container /\ ~NoContainer.up
  /\ NoContainer.id = 1 /\ NoContainer.image = AnImage
  /\ NoEntry \in Entry /\ ~NoEntry.known /\ NoEntry.op = External /\ NoEntry.gone = "no"
  /\ NoEntry.id = 1 /\ NoEntry.image = AnImage
  /\ Idle \in Operation /\ Idle.phase = "idle" /\ Idle.n = External
BY SizesTyped DEF NoContainer, NoEntry, Idle, Container, Entry, Operation, External

\* A container that is created.
LEMMA FreshTyped ==
  ASSUME NEW img \in Images, NEW n \in 0 .. MaxOperations, NextId \in Containers
  PROVE  /\ Fresh(img, n) \in Container /\ Fresh(img, n).up /\ Fresh(img, n).id = NextId
         /\ Fresh(img, n).image = img /\ Fresh(img, n).by = n /\ ~Fresh(img, n).back
BY DEF Fresh, Container

\* What an announcement, and its withdrawal, do to an entry.
LEMMA EntryTyped ==
  ASSUME NEW entry \in Entry, NEW n \in 0 .. MaxOperations
  PROVE  /\ WithExpectation(entry, n) \in Entry
         /\ ~entry.known => WithExpectation(entry, n) = entry
         /\ entry.known => WithExpectation(entry, n).op = n
         /\ WithExpectation(entry, n).known = entry.known
         /\ WithExpectation(entry, n).id = entry.id
         /\ WithExpectation(entry, n).image = entry.image
         /\ WithExpectation(entry, n).gone = entry.gone
         /\ WithoutExpectation(entry) \in Entry
         /\ WithoutExpectation(entry).op = External
         /\ WithoutExpectation(entry).known = entry.known
         /\ WithoutExpectation(entry).id = entry.id
         /\ WithoutExpectation(entry).image = entry.image
         /\ WithoutExpectation(entry).gone = entry.gone
<1>1. External \in 0 .. MaxOperations
  BY SizesTyped DEF External
<1>2. CASE entry.known
  BY <1>1, <1>2 DEF WithExpectation, WithoutExpectation, Entry
<1>3. CASE ~entry.known
  BY <1>1, <1>3 DEF WithExpectation, WithoutExpectation, Entry
<1> QED
  BY <1>2, <1>3

\* What is remembered of a name once a state has been compared.
LEMMA RememberedTyped ==
  ASSUME NEW entry \in Entry, NEW s \in Container
  PROVE  /\ Remembered(entry, s) \in Entry
         /\ s.up => /\ Remembered(entry, s).known /\ Remembered(entry, s).gone = "no"
                    /\ Remembered(entry, s).id = s.id /\ Remembered(entry, s).image = s.image
                    /\ Remembered(entry, s).op =
                         IF entry.known /\ entry.image = s.image /\ entry.id = s.id
                           THEN entry.op ELSE External
         /\ ~s.up =>
              \/ Remembered(entry, s) = entry
              \/ entry.known /\ entry.gone = "old" /\ Remembered(entry, s) = NoEntry
              \/ /\ entry.known /\ Remembered(entry, s).known
                 /\ Remembered(entry, s).gone = "yes"
                 /\ Remembered(entry, s).id = entry.id
                 /\ Remembered(entry, s).image = entry.image
                 /\ Remembered(entry, s).op = entry.op
         /\ ~s.up /\ entry.known => Remembered(entry, s).gone # "no" \/ ~Remembered(entry, s).known
<1>1. External \in 0 .. MaxOperations
  BY SizesTyped DEF External
<1>2. CASE s.up
  <2> DEFINE r == [known |-> TRUE, id |-> s.id, image |-> s.image, gone |-> "no",
                   op |-> IF entry.known /\ entry.image = s.image /\ entry.id = s.id
                            THEN entry.op ELSE External]
  <2>1. Remembered(entry, s) = r
    BY <1>2 DEF Remembered
  <2>2. r \in Entry
    BY <1>1 DEF Entry, Container
  <2> QED
    BY <1>2, <2>1, <2>2
<1>3. CASE ~s.up /\ (~entry.known \/ entry.gone = "yes")
  <2>1. Remembered(entry, s) = entry
    BY <1>3 DEF Remembered
  <2> QED
    BY <1>3, <2>1
<1>4. CASE ~s.up /\ entry.known /\ entry.gone = "no"
  <2>1. Remembered(entry, s) = [entry EXCEPT !.gone = "yes"]
    BY <1>4 DEF Remembered
  <2> QED
    BY <1>4, <2>1 DEF Entry
<1>5. CASE ~s.up /\ entry.known /\ entry.gone = "old"
  <2>1. Remembered(entry, s) = NoEntry
    BY <1>5 DEF Remembered
  <2> QED
    BY <1>5, <2>1, NothingTyped
<1> QED
  BY <1>2, <1>3, <1>4, <1>5 DEF Entry

\* The memory is saved, on the disk perhaps not.
LEMMA Saves ==
  ASSUME TypeOK, NEW next \in Entry, Save(next)
  PROVE  /\ mem' = next /\ mem' \in Entry /\ disk' \in Entry /\ faults' \in 0 .. MaxFaults
         /\ disk' = next \/ disk' = disk
BY SizesTyped DEF TypeOK, Save, Happens

\* What is left of a process.
LEMMA EndsSo ==
  ASSUME TypeOK, NEW kept \in 0 .. Len(log), Ends(kept)
  PROVE  /\ alive' = FALSE /\ read' = NoRead /\ mem' = disk /\ disk' = disk /\ base' = base
         /\ log' \in Seq(Report) /\ Len(log') = kept /\ secured' = kept
         /\ \A i \in 1 .. kept : log'[i] = log[i]
         /\ kept = Len(log) => log' = log
         /\ forgot' <=> forgot \/ mem # disk
         /\ forgot' \in BOOLEAN
<1>1. log \in Seq(Report) /\ Len(log) \in Nat /\ \A i \in 1 .. Len(log) : log[i] \in Report
  BY LenProperties, ElementOfSeq DEF TypeOK
<1>2. /\ SubSeq(log, 1, kept) \in Seq(Report) /\ Len(SubSeq(log, 1, kept)) = kept
      /\ \A i \in 1 .. kept : SubSeq(log, 1, kept)[i] = log[i]
  <2>1. kept \in Int /\ 1 \in Int /\ kept - 1 + 1 = kept /\ \A i \in 1 .. kept : log[i] \in Report
    BY <1>1
  <2>2. /\ SubSeq(log, 1, kept) \in Seq(Report)
        /\ Len(SubSeq(log, 1, kept)) = IF 1 <= kept THEN kept - 1 + 1 ELSE 0
        /\ \A i \in 1 .. kept - 1 + 1 : SubSeq(log, 1, kept)[i] = log[1 + i - 1]
    BY <2>1, SubSeqProperties
  <2> QED
    BY <2>1, <2>2
<1>3. kept = Len(log) => SubSeq(log, 1, kept) = log
  BY <1>1, SubSeqFull
<1> QED
  BY <1>2, <1>3 DEF Ends, TypeOK

\* A set of places in a list has a last one.
LEMMA LastOne ==
  ASSUME NEW n \in Nat, NEW S \in SUBSET (1 .. n), S # {}
  PROVE  \E j \in S : \A k \in S : k <= j
<1> DEFINE T == {m \in Nat : n - m \in S}
<1>1. T # {}
  <2>1. PICK j \in S : TRUE
    OBVIOUS
  <2>2. n - j \in Nat /\ n - (n - j) = j
    OBVIOUS
  <2> QED
    BY <2>1, <2>2
<1>2. PICK m \in T : \A y \in T : ~(<<y, m>> \in OpToRel(<, Nat))
  BY <1>1, NatLessThanWellFounded, WFMin
<1>3. \A y \in T : ~(y < m)
  BY <1>2 DEF OpToRel
<1>4. \A k \in S : k <= n - m
  <2> SUFFICES ASSUME NEW k \in S, ~(k <= n - m) PROVE FALSE
    OBVIOUS
  <2>1. n - k \in T /\ n - k < m
    OBVIOUS
  <2> QED
    BY <1>3, <2>1
<1> QED
  BY <1>4

-----------------------------------------------------------------------------
(* A number stands for one container with one image, wherever it is noted. *)

Fits(image) ==
  /\ image[1] = AnImage
  /\ host.image = image[host.id] /\ parked.image = image[parked.id]
  /\ read.state.image = image[read.state.id]
  /\ mem.image = image[mem.id] /\ disk.image = image[disk.id]

Numbered ==
  /\ host.id <= created /\ parked.id <= created /\ read.state.id <= created
  /\ mem.id <= created /\ disk.id <= created
  /\ \E image \in [Containers -> Images] : Fits(image)

\* A container that is known already.
Old(id, img) ==
  \/ id = 1 /\ img = AnImage
  \/ id = host.id /\ img = host.image
  \/ id = parked.id /\ img = parked.image
  \/ id = read.state.id /\ img = read.state.image
  \/ id = mem.id /\ img = mem.image
  \/ id = disk.id /\ img = disk.image

LEMMA OldStays ==
  ASSUME Base, Numbered, created' = created,
         Old(host.id', host.image'), Old(parked.id', parked.image'),
         Old(read.state.id', read.state.image'),
         Old(mem.id', mem.image'), Old(disk.id', disk.image')
  PROVE  Numbered'
<1>1. PICK image \in [Containers -> Images] : Fits(image)
  BY DEF Numbered
<1>2. 1 <= created
  BY SizesTyped DEF Base, TypeOK, Containers
<1>3. \A id, img : Old(id, img) => id <= created /\ img = image[id]
  BY <1>1, <1>2 DEF Old, Fits, Numbered
<1>4. Fits(image)'
  BY <1>1, <1>3 DEF Fits
<1> QED
  BY <1>3, <1>4 DEF Numbered

LEMMA FreshJoins ==
  ASSUME Base, Numbered, NextId \in Containers, created' = NextId,
         host.id' = NextId, host.image' \in Images, Old(parked.id', parked.image'),
         Old(read.state.id', read.state.image'),
         Old(mem.id', mem.image'), Old(disk.id', disk.image')
  PROVE  Numbered'
<1>1. PICK image \in [Containers -> Images] : Fits(image)
  BY DEF Numbered
<1>2. 1 <= created /\ created \in Nat /\ NextId \in Nat /\ created < NextId /\ 1 \in Containers
  BY SizesTyped DEF Base, TypeOK, Containers, NextId
<1>3. \A id, img : Old(id, img) => id <= created /\ img = image[id] /\ id \in Containers
  BY <1>1, <1>2 DEF Old, Fits, Numbered, Base, TypeOK, Container, Entry
<1>4. PICK more \in [Containers -> Images] :
        /\ more[NextId] = host.image'
        /\ \A id \in Containers : id # NextId => more[id] = image[id]
  <2> DEFINE f == [image EXCEPT ![NextId] = host.image']
  <2>1. /\ f \in [Containers -> Images] /\ f[NextId] = host.image'
        /\ \A id \in Containers : id # NextId => f[id] = image[id]
    BY <1>1
  <2> QED
    BY <2>1
<1>5. \A id \in Containers : id <= created => more[id] = image[id]
  BY <1>2, <1>4 DEF Containers
<1>6. \A id, img : Old(id, img) => id <= created' /\ img = more[id]
  BY <1>2, <1>3, <1>5 DEF Containers
<1>7. Old(1, AnImage)
  BY DEF Old
<1>8. more[1] = AnImage
  BY <1>6, <1>7
<1>9. Fits(more)'
  BY <1>4, <1>6, <1>8 DEF Fits
<1>10. \E f \in [Containers -> Images] : Fits(f)'
  BY <1>4, <1>9
<1>11. /\ host.id' <= created' /\ parked.id' <= created' /\ read.state.id' <= created'
       /\ mem.id' <= created' /\ disk.id' <= created'
  BY <1>2, <1>6
<1> QED
  BY <1>10, <1>11 DEF Numbered

\* Containers of one number are one.
LEMMA OneImage ==
  ASSUME Numbered
  PROVE  /\ host.id = mem.id => host.image = mem.image
         /\ parked.id = mem.id => parked.image = mem.image
         /\ read.state.id = mem.id => read.state.image = mem.image
BY DEF Numbered, Fits

-----------------------------------------------------------------------------
(* What the reports say the container runs. *)

Chain ==
  /\ base.at <= Len(log)
  /\ mem.known => mem.image = ToldBefore(Len(log) + 1)
  /\ \A i \in Updates : log[i].from = ToldBefore(i)

Story == lost \/ forgot \/ Chain

LEMMA LogTyped ==
  ASSUME Base
  PROVE  /\ log \in Seq(Report) /\ Len(log) \in Nat /\ base.at \in Nat
         /\ \A i \in 1 .. Len(log) : log[i] \in Report
BY LenProperties, ElementOfSeq DEF Base, TypeOK

\* What was told before a place is not changed by what is told after it.
LEMMA ToldStays ==
  ASSUME Base, log' \in Seq(Report), Len(log') >= Len(log), base' = base,
         \A i \in 1 .. Len(log) : log'[i] = log[i],
         NEW n \in 1 .. Len(log) + 1
  PROVE  /\ ToldBefore(n)' = ToldBefore(n)
         /\ \A j \in 1 .. Len(log) : j \in Updates' <=> j \in Updates
<1> DEFINE earlier == {j \in Updates : j < n}
           last(S) == CHOOSE j \in S : \A k \in S : k <= j
<1>1. Len(log) \in Nat /\ Len(log') \in Nat
  BY LogTyped, LenProperties
<1>2. \A j \in 1 .. Len(log) : j \in Updates' <=> j \in Updates
  BY <1>1 DEF Updates
<1>3. {j \in Updates' : j < n} = earlier
  BY <1>1, <1>2 DEF Updates
<1>4. CASE earlier = {}
  BY <1>2, <1>3, <1>4 DEF ToldBefore
<1>5. CASE earlier # {}
  <2>1. earlier \in SUBSET (1 .. Len(log))
    BY DEF Updates
  <2>2. \E j \in earlier : \A k \in earlier : k <= j
    BY <1>1, <1>5, <2>1, LastOne
  <2>3. last(earlier) \in earlier
    BY <2>2
  <2>4. log'[last(earlier)] = log[last(earlier)]
    BY <2>1, <2>3
  <2>5. ToldBefore(n) = log[last(earlier)].to
    BY <1>5 DEF ToldBefore
  <2>6. ToldBefore(n)' = log'[last(earlier)].to
    BY <1>3, <1>5 DEF ToldBefore
  <2> QED
    BY <1>2, <2>4, <2>5, <2>6
<1> QED
  BY <1>4, <1>5

\* A report more: an update is what is told last, and a failure tells nothing.
LEMMA ToldNext ==
  ASSUME Base, NEW r \in Report, log' = Append(log, r), base' = base, base.at <= Len(log)
  PROVE  /\ log' \in Seq(Report) /\ Len(log') = Len(log) + 1
         /\ \A i \in 1 .. Len(log) : log'[i] = log[i]
         /\ log'[Len(log) + 1] = r
         /\ Updates' = IF r.result = "updated" THEN Updates \cup {Len(log) + 1} ELSE Updates
         /\ ToldBefore(Len(log) + 1)' =
              IF r.result = "updated" THEN r.to ELSE ToldBefore(Len(log) + 1)
<1> DEFINE n == Len(log) + 1
<1>0. Len(log) \in Nat /\ log \in Seq(Report) /\ base.at \in Nat
  BY LogTyped
<1>1. /\ log' \in Seq(Report) /\ Len(log') = n
      /\ \A i \in 1 .. Len(log) : log'[i] = log[i]
      /\ log'[n] = r
  BY <1>0, AppendProperties
<1>2. Updates' = IF r.result = "updated" THEN Updates \cup {n} ELSE Updates
  <2>1. \A j : j \in Updates' <=> j \in 1 .. n /\ j > base.at /\ log'[j].result = "updated"
    BY <1>1 DEF Updates
  <2>2. \A j \in 1 .. n : j = n \/ j \in 1 .. Len(log)
    BY <1>0
  <2>3. \A j \in 1 .. Len(log) : j \in Updates' <=> j \in Updates
    BY <1>0, <1>1, <2>1 DEF Updates
  <2>4. n \in Updates' <=> r.result = "updated"
    BY <1>0, <1>1, <2>1
  <2>5. \A j : j \in Updates' => j \in 1 .. n
    BY <2>1
  <2>6. \A j : j \in Updates => j \in 1 .. Len(log)
    BY DEF Updates
  <2>7. n \notin 1 .. Len(log)
    BY <1>0
  <2> HIDE DEF n
  <2>8. \A j : j \in Updates' <=> j \in Updates \/ (j = n /\ r.result = "updated")
    BY <2>2, <2>3, <2>4, <2>5, <2>6, <2>7
  <2>9. CASE r.result = "updated"
    BY <2>8, <2>9
  <2>10. CASE r.result # "updated"
    <3>1. Updates' = Updates
      BY <2>8, <2>10
    <3> QED
      BY <2>10, <3>1
  <2> QED
    BY <2>9, <2>10
<1>3. CASE r.result = "updated"
  <2> DEFINE earlier == {j \in Updates' : j < Len(log') + 1}
  <2>1. \A j \in earlier : j <= n
    BY <1>1 DEF Updates
  <2>2. n \in earlier
    BY <1>0, <1>1, <1>2, <1>3
  <2>3. (CHOOSE j \in earlier : \A k \in earlier : k <= j) = n
    <3>1. \A j \in earlier : j \in Nat
      BY DEF Updates
    <3>2. n \in earlier /\ \A k \in earlier : k <= n
      BY <2>1, <2>2
    <3>3. \A j \in earlier : (\A k \in earlier : k <= j) => j = n
      BY <1>0, <2>1, <2>2, <3>1
    <3> QED
      BY <3>2, <3>3
  <2>4. ToldBefore(Len(log) + 1)' = log'[n].to
    BY <2>2, <2>3 DEF ToldBefore
  <2> QED
    BY <1>1, <1>2, <1>3, <2>4
<1>4. CASE r.result # "updated"
  <2>1. Updates' = Updates
    BY <1>2, <1>4
  <2>2. {j \in Updates' : j < Len(log') + 1} = {j \in Updates : j < n}
    BY <1>0, <1>1, <2>1 DEF Updates
  <2>3. PICK m : m = n
    OBVIOUS
  <2>4. ToldBefore(Len(log) + 1)' = ToldBefore(m)'
    <3> DEFINE told(S) == IF S = {} THEN base'.image
                          ELSE log'[CHOOSE j \in S : \A k \in S : k <= j].to
    <3>1. {j \in Updates' : j < Len(log') + 1} = {j \in Updates' : j < m}
      BY <2>1, <2>2, <2>3
    <3>2. ToldBefore(Len(log) + 1)' = told({j \in Updates' : j < Len(log') + 1})
      BY Zenon DEF ToldBefore
    <3>3. ToldBefore(m)' = told({j \in Updates' : j < m})
      BY Zenon DEF ToldBefore
    <3> HIDE DEF told
    <3> QED
      BY <3>1, <3>2, <3>3
  <2>5. m \in 1 .. Len(log) + 1 /\ Len(log') >= Len(log)
    BY <1>0, <1>1, <2>3
  <2>6. ToldBefore(m)' = ToldBefore(m)
    BY <1>1, <2>5, ToldStays
  <2> QED
    BY <1>1, <1>2, <1>4, <2>3, <2>4, <2>6
<1> QED
  BY <1>3, <1>4

LEMMA StorySame ==
  ASSUME Base, Story, log' = log, base' = base, lost => lost', forgot => forgot',
         lost' \/ forgot' \/ (mem'.known => mem.known /\ mem'.image = mem.image)
  PROVE  Story'
<1>1. ASSUME Chain, ~lost', ~forgot' PROVE Chain'
  <2>1. Updates' = Updates
    BY DEF Updates
  <2>2. \A n : ToldBefore(n)' = ToldBefore(n)
    BY <2>1 DEF ToldBefore
  <2> QED
    BY <1>1, <2>1, <2>2 DEF Chain
<1> QED
  BY <1>1 DEF Story

LEMMA StoryFails ==
  ASSUME Base, Story, NEW r \in Report, r.result = "failed", log' = Append(log, r),
         base' = base, lost => lost', forgot => forgot',
         mem'.known => mem.known /\ mem'.image = mem.image
  PROVE  Story'
<1>1. ASSUME Chain PROVE Chain'
  <2>1. Len(log) \in Nat /\ Updates \subseteq 1 .. Len(log)
    BY LogTyped DEF Updates
  <2>2. /\ log' \in Seq(Report) /\ Len(log') = Len(log) + 1
        /\ \A i \in 1 .. Len(log) : log'[i] = log[i]
        /\ Updates' = Updates
        /\ ToldBefore(Len(log) + 1)' = ToldBefore(Len(log) + 1)
    BY <1>1, ToldNext DEF Chain
  <2>3. \A i \in Updates : ToldBefore(i)' = ToldBefore(i) /\ log'[i] = log[i]
    <3> SUFFICES ASSUME NEW i \in Updates
                 PROVE  ToldBefore(i)' = ToldBefore(i) /\ log'[i] = log[i]
      OBVIOUS
    <3>1. i \in 1 .. Len(log) + 1 /\ i \in 1 .. Len(log) /\ Len(log') >= Len(log)
      BY <2>1, <2>2
    <3> QED
      BY <2>2, <3>1, ToldStays
  <2>4. (base.at <= Len(log))'
    BY <1>1, <2>1, <2>2, LogTyped DEF Chain
  <2>5. (mem.known => mem.image = ToldBefore(Len(log) + 1))'
    BY <1>1, <2>1, <2>2 DEF Chain
  <2>6. (\A i \in Updates : log[i].from = ToldBefore(i))'
    BY <1>1, <2>1, <2>2, <2>3 DEF Chain
  <2> QED
    BY <2>4, <2>5, <2>6 DEF Chain
<1> QED
  BY <1>1 DEF Story

LEMMA StoryGoesOn ==
  ASSUME Base, Story, NEW r \in Report, r.result = "updated", log' = Append(log, r),
         r.from = mem.image, mem.known, base' = base, lost => lost', forgot => forgot',
         mem'.image = r.to
  PROVE  Story'
<1>1. ASSUME Chain PROVE Chain'
  <2>1. Len(log) \in Nat /\ Updates \subseteq 1 .. Len(log)
    BY LogTyped DEF Updates
  <2> DEFINE n == Len(log) + 1
  <2>2. /\ log' \in Seq(Report) /\ Len(log') = n
        /\ \A i \in 1 .. Len(log) : log'[i] = log[i]
        /\ log'[n] = r /\ Updates' = Updates \cup {n}
        /\ ToldBefore(Len(log) + 1)' = r.to
    BY <1>1, ToldNext DEF Chain
  <2>3. \A i \in Updates' : log'[i].from = ToldBefore(i)'
    <3> SUFFICES ASSUME NEW i \in Updates' PROVE log'[i].from = ToldBefore(i)'
      OBVIOUS
    <3>1. i \in 1 .. Len(log) + 1 /\ Len(log') >= Len(log)
      BY <2>1, <2>2
    <3>2. ToldBefore(i)' = ToldBefore(i)
      BY <2>2, <3>1, ToldStays
    <3>3. CASE i = n
      BY <1>1, <2>2, <3>2, <3>3 DEF Chain
    <3>4. CASE i # n
      BY <1>1, <2>1, <2>2, <3>2, <3>4 DEF Chain
    <3> QED
      BY <3>3, <3>4
  <2>4. (base.at <= Len(log))'
    BY <1>1, <2>1, <2>2, LogTyped DEF Chain
  <2>5. (mem.known => mem.image = ToldBefore(Len(log) + 1))'
    BY <1>1, <2>1, <2>2 DEF Chain
  <2>6. (\A i \in Updates : log[i].from = ToldBefore(i))'
    BY <1>1, <2>1, <2>2, <2>3 DEF Chain
  <2> QED
    BY <2>4, <2>5, <2>6 DEF Chain
<1> QED
  BY <1>1 DEF Story

-----------------------------------------------------------------------------
(* Who is credited. Everything here is said while no two changes overlap    *)
(* and no memory was lost.                                                  *)

Clear == ~blurred /\ ~forgot

\* A state to come is the container that is remembered, one that a helper put
\* back, or the work of whoever is expected.
Expected(s) == s.up /\ mem.known => s.id = mem.id \/ s.back \/ s.by = mem.op

\* A container that was read is the one remembered or the one there is.
Recent ==
  read.done /\ read.state.up =>
    IF mem.known THEN read.state.id \in {mem.id, host.id}
    ELSE host.up => read.state.id = host.id \/ host.back \/ host.by = External

\* An announcement whose container is there waits to be taken up with it.
Awaited == mem.op \in made => mem.known /\ mem.id # host.id /\ host.by = mem.op

\* While an operation has not come to its container, it is announced, and the
\* memory is of the container it set out to replace.
UnderWay ==
  op.phase \in {"announced", "removed", "parked", "stopped"} =>
    /\ op.n \notin made
    /\ mem.known => mem.op = op.n /\ mem.id = host.id
    /\ ~mem.known /\ read.done => ~read.state.up
    /\ op.phase = "announced" =>
         /\ mem.known /\ host.up
         /\ mem.gone # "no" /\ read.done => read.state.up
    /\ op.phase # "announced" => ~host.up
    /\ op.phase \in {"parked", "stopped"} => parked.id = host.id

Credit ==
  Clear => /\ Expected(host) /\ (read.done => Expected(read.state))
           /\ Recent /\ Awaited /\ UnderWay

\* Only what is remembered is announced.
Unknown == (~mem.known => mem.op = External) /\ (~disk.known => disk.op = External)

Inv == Base /\ Numbered /\ Story /\ Unknown /\ Credit /\ CreditedRight

\* What was credited stays so; a failure credits nobody.
LEMMA RightStays ==
  ASSUME Base, CreditedRight, log' \in Seq(Report), forgot => forgot',
         \A i \in 1 .. Len(log') :
           \/ i \in 1 .. Len(log) /\ log'[i] = log[i]
           \/ log'[i].result # "updated" \/ ~log'[i].sure \/ log'[i].back
           \/ log'[i].by = log'[i].truth
  PROVE  CreditedRight'
<1>1. DOMAIN log = 1 .. Len(log) /\ DOMAIN log' = 1 .. Len(log')
  BY LogTyped, LenProperties
<1> QED
  BY <1>1 DEF CreditedRight

LEMMA RightFails ==
  ASSUME Base, CreditedRight, NEW r \in Report, r.result = "failed", log' = Append(log, r),
         forgot => forgot'
  PROVE  CreditedRight' /\ log' \in Seq(Report) /\ Len(log') = Len(log) + 1
<1>1. /\ log' \in Seq(Report) /\ Len(log') = Len(log) + 1
      /\ \A i \in 1 .. Len(log) : log'[i] = log[i]
      /\ log'[Len(log) + 1] = r /\ Len(log) \in Nat
  BY LogTyped, AppendProperties
<1>2. \A i \in 1 .. Len(log') : i \in 1 .. Len(log) \/ i = Len(log) + 1
  BY <1>1
<1>3. \A i \in 1 .. Len(log') :
           \/ i \in 1 .. Len(log) /\ log'[i] = log[i]
           \/ log'[i].result # "updated"
  BY <1>1, <1>2
<1> QED
  BY <1>1, <1>3, RightStays

LEMMA OldOnes ==
  /\ Old(host.id, host.image) /\ Old(parked.id, parked.image)
  /\ Old(read.state.id, read.state.image)
  /\ Old(mem.id, mem.image) /\ Old(disk.id, disk.image)
  /\ Old(NoContainer.id, NoContainer.image) /\ Old(NoEntry.id, NoEntry.image)
  /\ Old(NoRead.state.id, NoRead.state.image)
BY NothingTyped DEF Old, NoRead

\* The end of the process leaves what is on the disk.
LEMMA EndsHolds ==
  ASSUME Inv, NEW kept \in 0 .. Len(log), Ends(kept), lost => lost', lost' \/ kept = Len(log)
  PROVE  /\ alive' = FALSE /\ read' = NoRead /\ read'.done = FALSE /\ read'.state \in Container
         /\ mem' \in Entry /\ disk' \in Entry /\ base' = base
         /\ log' \in Seq(Report) /\ secured' \in 0 .. Len(log') /\ forgot' \in BOOLEAN
         /\ Old(read.state.id', read.state.image')
         /\ Old(mem.id', mem.image') /\ Old(disk.id', disk.image')
         /\ Story' /\ Unknown' /\ CreditedRight'
         /\ ~forgot' => ~forgot /\ mem' = mem
<1>1. TypeOK /\ Base /\ log \in Seq(Report) /\ Len(log) \in Nat
  BY LogTyped DEF Inv, Base
<1>2. /\ alive' = FALSE /\ read' = NoRead /\ mem' = disk /\ disk' = disk /\ base' = base
      /\ log' \in Seq(Report) /\ Len(log') = kept /\ secured' = kept
      /\ \A i \in 1 .. kept : log'[i] = log[i]
      /\ kept = Len(log) => log' = log
      /\ forgot' <=> forgot \/ mem # disk
      /\ forgot' \in BOOLEAN
  BY <1>1, EndsSo
<1>3. /\ read'.done = FALSE /\ read'.state = NoContainer
      /\ mem' \in Entry /\ disk' \in Entry /\ read'.state \in Container
  BY <1>1, <1>2, NothingTyped DEF NoRead, TypeOK
<1>4. secured' \in 0 .. Len(log')
  BY <1>1, <1>2
<1>5. Old(read.state.id', read.state.image') /\ Old(mem.id', mem.image') /\ Old(disk.id', disk.image')
  BY <1>2, OldOnes
<1>6. Story'
  <2>1. CASE lost' \/ forgot'
    BY <2>1 DEF Story
  <2>2. CASE ~lost' /\ ~forgot'
    <3>1. log' = log /\ mem' = mem
      BY <1>2, <2>2
    <3>2. Story
      BY DEF Inv
    <3> QED
      BY <1>1, <1>2, <3>1, <3>2, StorySame
  <2> QED
    BY <2>1, <2>2
<1>7. Unknown'
  BY <1>2 DEF Inv, Unknown
<1>8. CreditedRight'
  <2>1. \A i \in 1 .. Len(log') : i \in 1 .. Len(log) /\ log'[i] = log[i]
    BY <1>1, <1>2
  <2>2. CreditedRight
    BY DEF Inv
  <2> QED
    BY <1>1, <1>2, <2>1, <2>2, RightStays
<1> QED
  BY <1>2, <1>3, <1>4, <1>5, <1>6, <1>7, <1>8

-----------------------------------------------------------------------------
(* The steps. *)

LEMMA NothingMade ==
  ASSUME Base
  PROVE  External \notin made /\ External \in 0 .. MaxOperations /\ started \in Nat
BY SizesTyped DEF Base, Shape, TypeOK, External

LEMMA ObserveStep == ASSUME Inv, Observe PROVE Inv'
<1> DEFINE s == read.state
           m == Remembered(mem, s)
           r == Updated(s)
<1>0. /\ Base /\ TypeOK /\ Shape /\ s \in Container /\ mem \in Entry
      /\ alive /\ read.done /\ read' = NoRead
      /\ log' = IF IsUpdate(mem, s) THEN Append(log, r) ELSE log
      /\ Save(m)
      /\ base' = IF ~mem.known /\ s.up THEN [image |-> s.image, at |-> Len(log)] ELSE base
      /\ blurred' = (blurred /\ ~(s = host /\ mem'.op = External /\ op.phase = "idle"))
      /\ UNCHANGED <<own, host, created, op, parked, started, outcome, failed, untold, made, alive,
                     secured, lost, forgot>>
  BY DEF Inv, Base, TypeOK, Observe, hostVars, opVars
<1>1. /\ m \in Entry
      /\ s.up => /\ m.known /\ m.gone = "no" /\ m.id = s.id /\ m.image = s.image
                 /\ m.op = IF mem.known /\ mem.image = s.image /\ mem.id = s.id
                             THEN mem.op ELSE External
      /\ ~s.up => \/ m = mem
                  \/ mem.known /\ mem.gone = "old" /\ m = NoEntry
                  \/ /\ mem.known /\ m.known /\ m.gone = "yes"
                     /\ m.id = mem.id /\ m.image = mem.image /\ m.op = mem.op
  BY <1>0, RememberedTyped
<1>2. /\ mem' = m /\ mem' \in Entry /\ disk' \in Entry /\ faults' \in 0 .. MaxFaults
      /\ disk' = m \/ disk' = disk
  <2> HIDE DEF m
  <2> QED
    BY <1>0, <1>1, Saves
<1>3. /\ r \in Report /\ r.result = "updated" /\ r.from = mem.image /\ r.to = s.image
      /\ r.by = mem.op /\ r.truth = s.by /\ r.back = s.back /\ r.sure = ~blurred
  <2>1. /\ s.id \in Containers /\ mem.image \in Images /\ s.image \in Images
        /\ mem.op \in 0 .. MaxOperations /\ s.by \in 0 .. MaxOperations /\ s.back \in BOOLEAN
    BY <1>0 DEF Container, Entry
  <2>2. (~blurred) \in BOOLEAN
    OBVIOUS
  <2> QED
    BY <2>1, <2>2 DEF Updated, Report
<1> HIDE DEF m, r
<1>4. read'.done = FALSE /\ read'.state \in Container /\ Old(read.state.id', read.state.image')
  BY <1>0, NothingTyped, OldOnes DEF NoRead
<1>5. IsUpdate(mem, s) => /\ log' = Append(log, r) /\ log' \in Seq(Report)
                          /\ Len(log') = Len(log) + 1 /\ log'[Len(log) + 1] = r
                          /\ \A i \in 1 .. Len(log) : log'[i] = log[i]
  BY <1>0, <1>3, LogTyped, AppendProperties
<1>6. /\ log' \in Seq(Report) /\ secured \in 0 .. Len(log')
      /\ Len(log) \in Nat /\ Len(log') \in Nat
  BY <1>0, <1>5, LogTyped DEF TypeOK
<1>7. Base'
  <2>1. base'.image \in Images /\ base'.at \in Nat
    BY <1>0, <1>6 DEF TypeOK, Container
  <2>2. blurred' \in BOOLEAN
    BY <1>0 DEF TypeOK
  <2>3. TypeOK'
    BY <1>0, <1>2, <1>4, <1>6, <2>1, <2>2 DEF TypeOK
  <2>4. Shape'
    BY <1>0 DEF Shape
  <2> QED
    BY <2>3, <2>4 DEF Base
<1>8. Numbered'
  <2>1. Old(m.id, m.image)
    BY <1>1, OldOnes
  <2>2. /\ Old(host.id', host.image') /\ Old(parked.id', parked.image')
        /\ Old(mem.id', mem.image') /\ Old(disk.id', disk.image')
    BY <1>0, <1>2, <2>1, OldOnes
  <2> QED
    BY <1>0, <1>4, <2>2, OldStays DEF Inv
<1>9. Story'
  <2>0. Story /\ lost' = lost /\ forgot' = forgot
    BY <1>0 DEF Inv
  <2>1. CASE s.up /\ ~mem.known
    <3>1. /\ log' = log /\ base'.at = Len(log) /\ base'.image = s.image
          /\ mem'.image = s.image
      BY <1>0, <1>1, <1>2, <2>1 DEF IsUpdate
    <3>2. Updates' = {}
      BY <1>6, <3>1 DEF Updates
    <3>3. ToldBefore(Len(log) + 1)' = s.image
      BY <3>1, <3>2 DEF ToldBefore
    <3>4. Chain'
      BY <1>6, <3>1, <3>2, <3>3 DEF Chain
    <3> QED
      BY <3>4 DEF Story
  <2>2. CASE IsUpdate(mem, s)
    <3>1. mem.known /\ s.up /\ base' = base /\ mem'.image = r.to
      BY <1>0, <1>1, <1>2, <1>3, <2>2 DEF IsUpdate
    <3> QED
      BY <1>0, <1>3, <1>5, <2>0, <2>2, <3>1, StoryGoesOn
  <2>3. CASE ~IsUpdate(mem, s) /\ ~(s.up /\ ~mem.known)
    <3>1. log' = log /\ base' = base
      BY <1>0, <2>3
    <3>2. mem'.known => mem.known /\ mem'.image = mem.image
      BY <1>1, <1>2, <2>3, NothingTyped DEF IsUpdate
    <3> QED
      BY <1>0, <2>0, <3>1, <3>2, StorySame
  <2> QED
    BY <2>1, <2>2, <2>3
<1>10. Unknown'
  <2>1. ~m.known => m.op = External
    BY <1>1, NothingTyped DEF Inv, Unknown
  <2> QED
    BY <1>2, <2>1 DEF Inv, Unknown
<1>11. CreditedRight'
  <2>1. CASE forgot
    BY <1>0, <2>1 DEF CreditedRight
  <2>2. CASE ~IsUpdate(mem, s)
    <3>1. \A i \in 1 .. Len(log') : i \in 1 .. Len(log) /\ log'[i] = log[i]
      BY <1>0, <2>2
    <3> QED
      BY <1>0, <1>6, <3>1, RightStays DEF Inv
  <2>3. CASE ~forgot /\ IsUpdate(mem, s)
    <3>1. ~r.sure \/ r.back \/ r.by = r.truth
      <4> SUFFICES ASSUME Clear PROVE r.back \/ r.by = r.truth
        BY <1>0, <1>3, <2>3 DEF Clear
      <4>1. Expected(s)
        BY <1>0 DEF Inv, Credit
      <4>2. s.id # mem.id
        BY <2>3, OneImage DEF Inv, IsUpdate
      <4> QED
        BY <1>3, <2>3, <4>1, <4>2 DEF Expected, IsUpdate
    <3>2. \A i \in 1 .. Len(log') : i \in 1 .. Len(log) \/ i = Len(log) + 1
      BY <1>5, <1>6, <2>3
    <3>3. \A i \in 1 .. Len(log') :
             \/ i \in 1 .. Len(log) /\ log'[i] = log[i]
             \/ ~log'[i].sure \/ log'[i].back \/ log'[i].by = log'[i].truth
      BY <1>5, <2>3, <3>1, <3>2
    <3> QED
      BY <1>0, <1>6, <3>3, RightStays DEF Inv
  <2> QED
    BY <2>1, <2>2, <2>3
<1>12. Credit'
  <2> SUFFICES ASSUME Clear' PROVE Expected(host)' /\ Awaited' /\ UnderWay'
    BY <1>4 DEF Credit, Recent
  <2>0. External \notin made /\ ~forgot
    BY <1>0, NothingMade DEF Clear
  <2>1. CASE blurred
    <3>1. s = host /\ mem'.op = External /\ op.phase = "idle"
      BY <1>0, <2>1 DEF Clear
    <3>2. Expected(host)'
      BY <1>0, <1>1, <1>2, <3>1 DEF Expected
    <3> QED
      BY <1>0, <2>0, <3>1, <3>2 DEF Awaited, UnderWay
  <2>2. CASE ~blurred
    <3>0. Expected(host) /\ Expected(s) /\ Recent /\ Awaited /\ UnderWay
      BY <1>0, <2>0, <2>2 DEF Inv, Credit, Clear
    <3>1. CASE s.up /\ mem.known /\ s.id = mem.id
      <4>1. mem'.known /\ mem'.id = mem.id /\ mem'.op = mem.op /\ mem'.gone = "no"
        BY <1>1, <1>2, <3>1, OneImage DEF Inv
      <4> QED
        BY <1>0, <1>4, <3>0, <3>1, <4>1 DEF Expected, Awaited, UnderWay
    <3>2. CASE s.up /\ mem.known /\ s.id # mem.id
      <4>1. s.id = host.id
        BY <1>0, <3>0, <3>2 DEF Recent
      <4>2. mem'.known /\ mem'.id = host.id /\ mem'.op = External
        BY <1>1, <1>2, <3>2, <4>1
      <4>3. ~(op.phase \in {"announced", "removed", "parked", "stopped"})
        BY <3>0, <3>2, <4>1 DEF UnderWay
      <4> QED
        BY <1>0, <2>0, <4>2, <4>3 DEF Expected, Awaited, UnderWay
    <3>3. CASE s.up /\ ~mem.known
      <4>1. mem'.known /\ mem'.id = s.id /\ mem'.op = External
        BY <1>1, <1>2, <3>3
      <4>2. ~(op.phase \in {"announced", "removed", "parked", "stopped"})
        BY <1>0, <3>0, <3>3 DEF UnderWay
      <4>3. host.up => s.id = host.id \/ host.back \/ host.by = External
        BY <1>0, <3>0, <3>3 DEF Recent
      <4> QED
        BY <1>0, <2>0, <4>1, <4>2, <4>3 DEF Expected, Awaited, UnderWay
    <3>4. CASE ~s.up /\ m = NoEntry /\ mem.known /\ mem.gone = "old"
      <4>1. ~mem'.known /\ mem'.op = External
        BY <1>2, <3>4, NothingTyped
      <4>2. op.phase # "announced"
        BY <1>0, <3>0, <3>4 DEF UnderWay
      <4> QED
        BY <1>0, <1>4, <2>0, <3>0, <4>1, <4>2 DEF Expected, Awaited, UnderWay
    <3>5. CASE ~s.up /\ m.known = mem.known /\ m.id = mem.id /\ m.op = mem.op
      BY <1>0, <1>2, <1>4, <3>0, <3>5 DEF Expected, Awaited, UnderWay
    <3> QED
      BY <1>1, <3>1, <3>2, <3>3, <3>4, <3>5
  <2> QED
    BY <2>1, <2>2
<1> QED
  BY <1>7, <1>8, <1>9, <1>10, <1>11, <1>12 DEF Inv

LEMMA ReadStep == ASSUME Inv, Read PROVE Inv'
<1>0. /\ Base /\ TypeOK /\ Shape /\ Numbered /\ alive /\ read'.done = TRUE /\ read'.state = host
      /\ UNCHANGED <<own, host, created, op, parked, started, outcome, failed, untold, made, alive,
                     mem, disk, log, secured, base, blurred, lost, forgot, faults>>
  BY DEF Inv, Base, Read, hostVars, opVars, memoryVars, logVars, ghostVars
<1>1. Base'
  BY <1>0 DEF Base, TypeOK, Shape
<1>2. Numbered'
  <2>1. /\ Old(host.id', host.image') /\ Old(parked.id', parked.image')
        /\ Old(read.state.id', read.state.image')
        /\ Old(mem.id', mem.image') /\ Old(disk.id', disk.image')
    BY <1>0, OldOnes
  <2> QED
    BY <1>0, <2>1, OldStays
<1>3. Story'
  BY <1>0, StorySame DEF Inv
<1>4. Unknown' /\ CreditedRight'
  BY <1>0 DEF Inv, Unknown, CreditedRight
<1>5. Credit'
  BY <1>0 DEF Inv, Credit, Clear, Expected, Recent, Awaited, UnderWay
<1> QED
  BY <1>1, <1>2, <1>3, <1>4, <1>5 DEF Inv

LEMMA SecureStep == ASSUME Inv, Secure \/ AgentStarts \/ UNCHANGED vars PROVE Inv'
<1>0. /\ Base /\ TypeOK /\ Shape /\ Numbered
      /\ UNCHANGED <<own, host, created, op, parked, started, outcome, failed, untold, made, read,
                     mem, disk, log, base, blurred, lost, forgot, faults>>
      /\ secured' \in {secured, Len(log)} /\ alive' \in BOOLEAN /\ (alive => alive')
  BY DEF Inv, Base, TypeOK, Secure, AgentStarts, vars, hostVars, opVars, memoryVars, logVars,
         ghostVars
<1>1. Base'
  <2>1. secured' \in 0 .. Len(log')
    BY <1>0, LogTyped DEF TypeOK
  <2> QED
    BY <1>0, <2>1 DEF Base, TypeOK, Shape
<1>2. Numbered'
  BY <1>0 DEF Numbered, Fits
<1>3. Story'
  BY <1>0, StorySame DEF Inv
<1>4. Unknown' /\ CreditedRight'
  BY <1>0 DEF Inv, Unknown, CreditedRight
<1>5. Credit'
  BY <1>0 DEF Inv, Credit, Clear, Expected, Recent, Awaited, UnderWay
<1> QED
  BY <1>1, <1>2, <1>3, <1>4, <1>5 DEF Inv

\* Nothing is told or remembered.
LEMMA Quietly ==
  ASSUME Inv, UNCHANGED <<mem, disk, log, base, lost, forgot>>
  PROVE  Story' /\ Unknown' /\ CreditedRight'
<1>1. Story'
  BY StorySame DEF Inv
<1> QED
  BY <1>1 DEF Inv, Unknown, CreditedRight

\* A failure that nobody reports.
LEMMA UntoldTyped ==
  ASSUME Base
  PROVE  /\ \A n \in Operations :
              FailsUntold(n) => failed' \subseteq Operations /\ untold' \subseteq failed'
         /\ CutsShort => /\ op' = Interrupted
                         /\ failed' \subseteq Operations /\ untold' \subseteq failed'
<1>1. \A n \in Operations :
        FailsUntold(n) => failed' \subseteq Operations /\ untold' \subseteq failed'
  BY DEF FailsUntold, Base, TypeOK
<1>2. op.phase \in {"announced", "removed"} => op.n \in Operations
  BY DEF Base, Shape
<1>3. failed \subseteq Operations /\ untold \subseteq failed
  BY DEF Base, TypeOK
<1> QED
  BY <1>1, <1>2, <1>3 DEF CutsShort

LEMMA AgentEndsStep == ASSUME Inv, AgentStops \/ AgentDies PROVE Inv'
<1>0. /\ Base /\ TypeOK /\ Shape /\ Numbered /\ op' = Interrupted
      /\ Len(log) \in Nat /\ secured \in 0 .. Len(log)
      /\ UNCHANGED <<own, host, created, parked, started, outcome, made, blurred>>
      /\ failed' \subseteq Operations /\ untold' \subseteq failed'
      /\ faults' \in 0 .. MaxFaults /\ lost' \in BOOLEAN
  BY LogTyped, SizesTyped, UntoldTyped
     DEF Inv, Base, TypeOK, AgentStops, AgentDies, Happens, hostVars
<1>1. \E kept \in 0 .. Len(log) : Ends(kept) /\ (lost => lost') /\ (lost' \/ kept = Len(log))
  <2>1. CASE AgentStops
    BY <1>0, <2>1 DEF AgentStops
  <2>2. CASE AgentDies
    <3>1. Ends(secured) /\ lost' = (lost \/ secured < Len(log))
      BY <2>2 DEF AgentDies
    <3>2. secured < Len(log) \/ secured = Len(log)
      BY <1>0
    <3>3. (lost => lost') /\ (lost' \/ secured = Len(log))
      BY <3>1, <3>2, Zenon
    <3> QED
      BY <1>0, <3>1, <3>3
  <2> QED
    BY <2>1, <2>2
<1>2. PICK kept \in 0 .. Len(log) :
        Ends(kept) /\ (lost => lost') /\ (lost' \/ kept = Len(log))
  BY <1>1
<1>3. /\ alive' = FALSE /\ read' = NoRead /\ read'.done = FALSE /\ read'.state \in Container
      /\ mem' \in Entry /\ disk' \in Entry /\ base' = base
      /\ log' \in Seq(Report) /\ secured' \in 0 .. Len(log') /\ forgot' \in BOOLEAN
      /\ Old(read.state.id', read.state.image')
      /\ Old(mem.id', mem.image') /\ Old(disk.id', disk.image')
      /\ Story' /\ Unknown' /\ CreditedRight'
      /\ ~forgot' => ~forgot /\ mem' = mem
  BY <1>2, EndsHolds
<1>4. /\ op' \in Operation
      /\ \/ op' = op /\ op.phase \notin {"announced", "removed"}
         \/ op' = Idle
  BY <1>0, NothingTyped DEF Interrupted, TypeOK
<1>5. Base'
  <2>1. TypeOK'
    BY <1>0, <1>3, <1>4 DEF TypeOK
  <2>2. Shape'
    BY <1>0, <1>3, <1>4, NothingTyped, NothingMade DEF Shape, External
  <2> QED
    BY <2>1, <2>2 DEF Base
<1>6. Numbered'
  BY <1>0, <1>3, OldOnes, OldStays
<1>7. Credit'
  BY <1>0, <1>3, <1>4, NothingTyped
     DEF Inv, Credit, Clear, Expected, Recent, Awaited, UnderWay
<1> QED
  BY <1>3, <1>5, <1>6, <1>7 DEF Inv

\* Somebody else changes the container, and the agent goes with its own.
LEMMA ExternallyHolds ==
  ASSUME Inv, Externally
  PROVE  /\ UNCHANGED <<own, parked, started, outcome, made, lost, faults, base>>
         /\ failed' \subseteq Operations /\ untold' \subseteq failed'
         /\ alive' \in BOOLEAN /\ read'.state \in Container /\ read'.done \in BOOLEAN
         /\ ~alive' => ~read'.done
         /\ mem' \in Entry /\ disk' \in Entry /\ blurred' \in BOOLEAN /\ forgot' \in BOOLEAN
         /\ log' \in Seq(Report) /\ secured' \in 0 .. Len(log')
         /\ Old(read.state.id', read.state.image')
         /\ Old(mem.id', mem.image') /\ Old(disk.id', disk.image')
         /\ Story' /\ Unknown' /\ CreditedRight'
         /\ op' = op \/ op' = Idle
         /\ op.phase # "created" /\ op' \in Operation
         /\ Clear' => /\ Clear /\ op'.phase = "idle" /\ mem' = mem
                      /\ read' = read \/ ~read'.done
                      /\ mem.op = External
                      /\ mem.known => mem.id = host.id
<1>0. /\ Base /\ TypeOK /\ Shape /\ Numbered /\ Unknown /\ Len(log) \in Nat
      /\ UNCHANGED <<own, parked, started, outcome, made, lost, faults>>
      /\ blurred' = (blurred \/ Overlaps)
      /\ op.phase # "created"
      /\ failed' \subseteq Operations /\ untold' \subseteq failed'
  <2>1. Base
    BY DEF Inv
  <2>2. failed' \subseteq Operations /\ untold' \subseteq failed'
    BY <2>1, UntoldTyped DEF Externally, Base, TypeOK
  <2> QED
    BY <2>1, <2>2, LogTyped DEF Inv, Base, Shape, Externally
<1>1. op' \in {op, Idle} /\ op' \in Operation
  BY <1>0, NothingTyped
     DEF Externally, CutsShort, Interrupted, TypeOK, opVars, memoryVars, logVars
<1>2. /\ UNCHANGED base
      /\ alive' \in BOOLEAN /\ read'.state \in Container /\ read'.done \in BOOLEAN
      /\ ~alive' => ~read'.done
      /\ mem' \in Entry /\ disk' \in Entry /\ forgot' \in BOOLEAN
      /\ log' \in Seq(Report) /\ secured' \in 0 .. Len(log')
      /\ Old(read.state.id', read.state.image')
      /\ Old(mem.id', mem.image') /\ Old(disk.id', disk.image')
      /\ Story' /\ Unknown' /\ CreditedRight'
      /\ ~forgot' => ~forgot /\ mem' = mem
      /\ read' = read \/ ~read'.done
  <2>1. CASE own /\ alive
    <3>1. Ends(Len(log)) /\ Len(log) \in 0 .. Len(log)
      BY <1>0, <2>1 DEF Externally
    <3> QED
      BY <1>0, <3>1, EndsHolds, Zenon
  <2>2. CASE ~(own /\ alive)
    <3>1. UNCHANGED <<alive, read, mem, disk, log, secured, base, forgot>>
      BY <2>2 DEF Externally, memoryVars, logVars
    <3>2. Story' /\ Unknown' /\ CreditedRight'
      BY <1>0, <3>1, Quietly
    <3> QED
      BY <1>0, <3>1, <3>2, OldOnes DEF TypeOK, Shape
  <2> QED
    BY <2>1, <2>2
<1>3. blurred' \in BOOLEAN
  <2>1. Overlaps \in BOOLEAN
    BY DEF Overlaps
  <2> QED
    BY <1>0, <2>1 DEF TypeOK
<1>4. Clear' => /\ Clear /\ op'.phase = "idle" /\ mem' = mem
                /\ read' = read \/ ~read'.done
                /\ mem.op = External
                /\ mem.known => mem.id = host.id
  <2> SUFFICES ASSUME Clear'
               PROVE  /\ Clear /\ op'.phase = "idle" /\ mem' = mem
                      /\ read' = read \/ ~read'.done
                      /\ mem.op = External
                      /\ mem.known => mem.id = host.id
    OBVIOUS
  <2>1. /\ Clear /\ ~Overlaps /\ mem' = mem
    BY <1>0, <1>2 DEF Clear
  <2>2. /\ op.phase = "idle" /\ ~Stray /\ ~Unseen
    BY <2>1 DEF Overlaps
  <2>3. Awaited
    BY <2>1 DEF Inv, Credit
  <2>4. mem.known => mem.id = host.id
    BY <2>2 DEF Unseen
  <2>5. mem.op = External
    BY <2>2, <2>3, <2>4 DEF Stray, Awaited
  <2> QED
    BY <1>1, <1>2, <2>1, <2>2, <2>4, <2>5, NothingTyped
<1> QED
  BY <1>0, <1>1, <1>2, <1>3, <1>4

LEMMA ReplaceStep == ASSUME Inv, NEW img \in Images, Replace(img) PROVE Inv'
<1>0. /\ Base /\ TypeOK /\ Shape /\ Numbered /\ Externally
      /\ NextId \in Containers /\ host' = Fresh(img, External) /\ created' = NextId
  BY DEF Inv, Base, Replace
<1>1. /\ host' \in Container /\ host'.up /\ host'.id = NextId
      /\ host'.image = img /\ host'.by = External /\ ~host'.back
  BY <1>0, FreshTyped, NothingMade
<1>2. Base'
  <2>1. TypeOK'
    BY <1>0, <1>1, ExternallyHolds DEF TypeOK
  <2>2. /\ UNCHANGED <<own, made, started>> /\ (op' = op \/ op' = Idle)
        /\ op.phase # "created" /\ (~alive' => ~read'.done)
    BY <1>0, ExternallyHolds
  <2>3. Shape'
    BY <1>0, <2>2, NothingTyped, NothingMade DEF Shape, External
  <2> QED
    BY <2>1, <2>3 DEF Base
<1>3. Numbered'
  <2>1. Old(parked.id', parked.image')
    BY <1>0, ExternallyHolds, OldOnes
  <2> QED
    BY <1>0, <1>1, <2>1, ExternallyHolds, FreshJoins
<1>4. Credit'
  <2> SUFFICES ASSUME Clear'
               PROVE  /\ Expected(host)' /\ (read.done => Expected(read.state))'
                      /\ Recent' /\ Awaited' /\ UnderWay'
    BY DEF Credit
  <2>1. /\ Clear /\ op'.phase = "idle" /\ mem' = mem /\ made' = made
        /\ read' = read \/ ~read'.done
        /\ mem.op = External
        /\ mem.known => mem.id = host.id
    BY <1>0, ExternallyHolds
  <2>2. (read.done => Expected(read.state)) /\ Recent /\ External \notin made
    BY <1>0, <2>1, NothingMade DEF Inv, Credit
  <2> QED
    BY <1>1, <2>1, <2>2 DEF Expected, Recent, Awaited, UnderWay
<1> QED
  BY <1>0, <1>2, <1>3, <1>4, ExternallyHolds DEF Inv

LEMMA RemoveStep == ASSUME Inv, Remove PROVE Inv'
<1>0. /\ Base /\ TypeOK /\ Shape /\ Numbered /\ Externally
      /\ host' = [host EXCEPT !.up = FALSE] /\ created' = created
  BY DEF Inv, Base, Remove
<1>1. /\ host' \in Container /\ ~host'.up /\ host'.id = host.id /\ host'.image = host.image
  BY <1>0 DEF TypeOK, Container
<1>2. Base'
  <2>1. TypeOK'
    BY <1>0, <1>1, ExternallyHolds DEF TypeOK
  <2>2. /\ UNCHANGED <<own, made, started>> /\ (op' = op \/ op' = Idle)
        /\ op.phase # "created" /\ (~alive' => ~read'.done)
    BY <1>0, ExternallyHolds
  <2>3. Shape'
    BY <1>0, <2>2, NothingTyped, NothingMade DEF Shape, External
  <2> QED
    BY <2>1, <2>3 DEF Base
<1>3. Numbered'
  <2>1. Old(host.id', host.image') /\ Old(parked.id', parked.image')
    BY <1>0, <1>1, ExternallyHolds, OldOnes
  <2> QED
    BY <1>0, <2>1, ExternallyHolds, OldStays
<1>4. Credit'
  <2> SUFFICES ASSUME Clear'
               PROVE  /\ Expected(host)' /\ (read.done => Expected(read.state))'
                      /\ Recent' /\ Awaited' /\ UnderWay'
    BY DEF Credit
  <2>1. /\ Clear /\ op'.phase = "idle" /\ mem' = mem /\ made' = made
        /\ read' = read \/ ~read'.done
        /\ mem.op = External
        /\ mem.known => mem.id = host.id
    BY <1>0, ExternallyHolds
  <2>2. (read.done => Expected(read.state)) /\ Recent /\ External \notin made
    BY <1>0, <2>1, NothingMade DEF Inv, Credit
  <2> QED
    BY <1>1, <2>1, <2>2 DEF Expected, Recent, Awaited, UnderWay
<1> QED
  BY <1>0, <1>2, <1>3, <1>4, ExternallyHolds DEF Inv

\* An entry that is saved with another expectation is of the same container.
LEMMA SavesSame ==
  ASSUME Base, Unknown, NEW next \in Entry, Save(next), next.known = mem.known,
         next.id = mem.id, next.image = mem.image, ~next.known => next.op = External
  PROVE  /\ mem' = next /\ mem' \in Entry /\ disk' \in Entry /\ faults' \in 0 .. MaxFaults
         /\ Old(mem.id', mem.image') /\ Old(disk.id', disk.image')
         /\ Unknown'
         /\ mem'.known => mem.known /\ mem'.image = mem.image
<1>1. /\ mem' = next /\ mem' \in Entry /\ disk' \in Entry /\ faults' \in 0 .. MaxFaults
      /\ disk' = next \/ disk' = disk
  BY Saves DEF Base
<1> QED
  BY <1>1, OldOnes DEF Unknown

LEMMA AnnounceStep == ASSUME Inv, NEW img \in Images, Announce(img) PROVE Inv'
<1> DEFINE n == started + 1
           next == WithExpectation(mem, n)
<1>0. /\ Base /\ TypeOK /\ Shape /\ Numbered /\ Unknown /\ mem \in Entry
      /\ alive /\ op.phase = "idle" /\ host.up
      /\ started < MaxOperations /\ started' = n
      /\ op' = [phase |-> "announced", n |-> n, image |-> img, on |-> host.id]
      /\ Save(next)
      /\ blurred' = (blurred \/ mem.op # External \/ ~mem.known \/ mem.id # host.id
                        \/ mem.gone # "no")
      /\ UNCHANGED <<own, host, created, parked, outcome, failed, untold, made, alive, read, log,
                     secured, base, lost, forgot>>
  BY DEF Inv, Base, TypeOK, Announce, hostVars, logVars
<1>1. /\ n \in 1 .. MaxOperations /\ n \in 0 .. MaxOperations /\ n \in Operations
      /\ n \notin made /\ made \subseteq 1 .. n /\ started \in Nat
  BY <1>0, SizesTyped DEF TypeOK, Shape, Operations
<1>2. op' \in Operation /\ op'.phase = "announced" /\ op'.n = n
  BY <1>0, <1>1 DEF Operation, TypeOK, Container
<1> HIDE DEF n
<1>3. /\ next \in Entry /\ next.known = mem.known /\ next.id = mem.id
      /\ next.image = mem.image /\ next.gone = mem.gone
      /\ (next.known => next.op = n) /\ (~next.known => next.op = External)
  BY <1>0, <1>1, EntryTyped DEF Unknown
<1> HIDE DEF next
<1>4. /\ mem' = next /\ mem' \in Entry /\ disk' \in Entry /\ faults' \in 0 .. MaxFaults
      /\ Old(mem.id', mem.image') /\ Old(disk.id', disk.image')
      /\ Unknown'
      /\ mem'.known => mem.known /\ mem'.image = mem.image
  BY <1>0, <1>3, SavesSame
<1>5. Base'
  <2>1. started' \in 0 .. MaxOperations /\ blurred' \in BOOLEAN
    BY <1>0, <1>1 DEF TypeOK
  <2>2. TypeOK'
    BY <1>0, <1>2, <1>4, <2>1 DEF TypeOK
  <2>3. op'.n <= started'
    BY <1>0, <1>1, <1>2
  <2>4. Shape'
    BY <1>0, <1>1, <1>2, <2>3 DEF Shape
  <2> QED
    BY <2>2, <2>4 DEF Base
<1>6. Numbered'
  BY <1>0, <1>4, OldOnes, OldStays
<1>7. Story' /\ CreditedRight'
  BY <1>0, <1>4, StorySame DEF Inv, CreditedRight
<1>8. Credit'
  <2> SUFFICES ASSUME Clear'
               PROVE  /\ Expected(host)' /\ (read.done => Expected(read.state))'
                      /\ Recent' /\ Awaited' /\ UnderWay'
    BY DEF Credit
  <2>1. /\ Clear /\ mem.op = External /\ mem.known /\ mem.id = host.id /\ mem.gone = "no"
    BY <1>0 DEF Clear
  <2>2. Recent
    BY <2>1 DEF Inv, Credit
  <2> QED
    BY <1>0, <1>1, <1>2, <1>3, <1>4, <2>1, <2>2
       DEF Expected, Recent, Awaited, UnderWay
<1> QED
  BY <1>4, <1>5, <1>6, <1>7, <1>8 DEF Inv

LEMMA RemoveOldStep == ASSUME Inv, RemoveOld \/ Park PROVE Inv'
<1>0. /\ Base /\ TypeOK /\ Shape /\ Numbered /\ op.phase = "announced"
      /\ host' = [host EXCEPT !.up = FALSE, !.by = op.n]
      /\ \/ ~own /\ op' = [op EXCEPT !.phase = "removed"] /\ parked' = parked
         \/ own /\ op' = [op EXCEPT !.phase = "parked"] /\ parked' = host
      /\ UNCHANGED <<own, created, started, outcome, failed, untold, made, alive, read, mem, disk,
                     log, secured, base, blurred, lost, forgot, faults>>
  BY DEF Inv, Base, RemoveOld, Park, memoryVars, logVars, ghostVars
<1>1. /\ host' \in Container /\ ~host'.up /\ host'.id = host.id /\ host'.image = host.image
      /\ op' \in Operation /\ op'.n = op.n /\ parked' \in Container
      /\ \/ ~own /\ op'.phase = "removed" /\ parked' = parked
         \/ own /\ op'.phase = "parked" /\ parked' = host
  BY <1>0 DEF TypeOK, Container, Operation
<1>2. Base'
  <2>1. TypeOK'
    BY <1>0, <1>1 DEF TypeOK
  <2>2. Shape'
    BY <1>0, <1>1 DEF Shape
  <2> QED
    BY <2>1, <2>2 DEF Base
<1>3. Numbered'
  BY <1>0, <1>1, OldOnes, OldStays
<1>4. Story' /\ Unknown' /\ CreditedRight'
  BY <1>0, Quietly
<1>5. Credit'
  BY <1>0, <1>1 DEF Inv, Credit, Clear, Expected, Recent, Awaited, UnderWay
<1> QED
  BY <1>2, <1>3, <1>4, <1>5 DEF Inv

LEMMA CreateStep == ASSUME Inv, CreateNew \/ CreateReplacement PROVE Inv'
<1>0. /\ Base /\ TypeOK /\ Shape /\ Numbered /\ Unknown
      /\ op.phase \in {"removed", "stopped"}
      /\ NextId \in Containers /\ host' = Fresh(op.image, op.n) /\ created' = NextId
      /\ made' = made \cup {op.n}
      /\ \/ op' = Idle
         \/ op.phase = "stopped" /\ op' = [op EXCEPT !.phase = "created"]
      /\ UNCHANGED <<own, parked, started, outcome, failed, untold, alive, read, mem, disk,
                     log, secured, base, blurred, lost, forgot, faults>>
  BY DEF Inv, Base, CreateNew, CreateReplacement, memoryVars, logVars, ghostVars
<1>1. /\ op.n \in Operations /\ op.n \in 1 .. started /\ op.image \in Images
      /\ op.n \in 0 .. MaxOperations /\ op.n # External
  BY <1>0, SizesTyped DEF Shape, TypeOK, Operation, Operations, External
<1>2. /\ host' \in Container /\ host'.up /\ host'.id = NextId
      /\ host'.image = op.image /\ host'.by = op.n /\ ~host'.back
  BY <1>0, <1>1, FreshTyped
<1>3. /\ op' \in Operation
      /\ \/ op'.phase = "idle" /\ op'.n = External
         \/ op.phase = "stopped" /\ op'.phase = "created" /\ op'.n = op.n
  BY <1>0, NothingTyped DEF TypeOK, Operation
<1>4. Base'
  <2>1. TypeOK'
    BY <1>0, <1>1, <1>2, <1>3 DEF TypeOK
  <2>2. Shape'
    BY <1>0, <1>1, <1>2, <1>3, NothingMade DEF Shape, External
  <2> QED
    BY <2>1, <2>2 DEF Base
<1>5. Numbered'
  BY <1>0, <1>1, <1>2, OldOnes, FreshJoins
<1>6. Story' /\ Unknown' /\ CreditedRight'
  BY <1>0, Quietly
<1>7. Credit'
  <2> SUFFICES ASSUME Clear'
               PROVE  /\ Expected(host)' /\ (read.done => Expected(read.state))'
                      /\ Recent' /\ Awaited' /\ UnderWay'
    BY DEF Credit
  <2>1. /\ (read.done => Expected(read.state)) /\ Recent /\ UnderWay
        /\ External \notin made
    BY <1>0, NothingMade DEF Inv, Credit, Clear
  <2>2. mem.id # NextId
    BY <1>0 DEF Numbered, NextId, TypeOK, Containers, Entry
  <2>3. mem.op \in made' => mem.known /\ mem.op = op.n
    BY <1>0, <1>1, <2>1 DEF UnderWay, Unknown
  <2>4. Awaited'
    BY <1>0, <1>2, <2>2, <2>3 DEF Awaited
  <2>5. Expected(host)' /\ (read.done => Expected(read.state))' /\ Recent'
    BY <1>0, <1>2, <2>1 DEF Expected, Recent, UnderWay
  <2>6. UnderWay'
    BY <1>3 DEF UnderWay
  <2> QED
    BY <2>4, <2>5, <2>6
<1> QED
  BY <1>4, <1>5, <1>6, <1>7 DEF Inv

\* A failure is told.
LEMMA FailedTyped ==
  ASSUME Base, NEW n \in 0 .. MaxOperations, NEW cause \in 0 .. MaxOperations
  PROVE  Failed(n, cause) \in Report /\ Failed(n, cause).result = "failed"
BY DEF Failed, Report, Base, TypeOK, Entry

LEMMA FailStep == ASSUME Inv, RecreateFails \/ PullFails PROVE Inv'
<1> DEFINE next == WithoutExpectation(mem)
<1>0. /\ Base /\ TypeOK /\ Shape /\ Numbered /\ Unknown /\ mem \in Entry
      /\ Save(next)
      /\ \/ /\ op.phase \in {"announced", "removed"}
            /\ op' = Idle /\ failed' = failed \cup {op.n} /\ started' = started
            /\ log' = Append(log, Failed(op.n, op.n)) /\ blurred' = blurred
         \/ /\ started < MaxOperations /\ started' = started + 1
            /\ failed' = failed \cup {started'} /\ op' = op
            /\ log' = Append(log, Failed(started', started'))
            /\ blurred' = (blurred \/ mem.op # External)
      /\ UNCHANGED <<own, host, created, parked, outcome, untold, made, alive, read,
                     secured, base, lost, forgot>>
  BY DEF Inv, Base, TypeOK, RecreateFails, PullFails, hostVars, ghostVars
<1>1. PICK n \in Operations : failed' = failed \cup {n} /\ log' = Append(log, Failed(n, n))
  <2>1. started \in Nat /\ (started < MaxOperations => started + 1 \in Operations)
    BY <1>0, SizesTyped DEF TypeOK, Operations
  <2> QED
    BY <1>0, <2>1 DEF Shape
<1>2. n \in 0 .. MaxOperations
  BY SizesTyped DEF Operations
<1> DEFINE r == Failed(n, n)
<1>3. r \in Report /\ r.result = "failed"
  BY <1>0, <1>2, FailedTyped
<1> HIDE DEF r
<1>4. CreditedRight' /\ log' \in Seq(Report) /\ Len(log') = Len(log) + 1
  BY <1>0, <1>1, <1>3, RightFails DEF Inv, r
<1>5. /\ next \in Entry /\ next.known = mem.known /\ next.id = mem.id
      /\ next.image = mem.image /\ next.gone = mem.gone /\ next.op = External
  BY <1>0, <1>2, EntryTyped
<1> HIDE DEF next
<1>6. /\ mem' = next /\ mem' \in Entry /\ disk' \in Entry /\ faults' \in 0 .. MaxFaults
      /\ Old(mem.id', mem.image') /\ Old(disk.id', disk.image')
      /\ Unknown'
      /\ mem'.known => mem.known /\ mem'.image = mem.image
  BY <1>0, <1>5, SavesSame
<1>7. /\ op' \in Operation /\ (op' = op \/ op' = Idle) /\ started' \in 0 .. MaxOperations
      /\ started \in Nat /\ started <= started' /\ blurred' \in BOOLEAN
  <2>1. /\ op' \in Operation /\ (op' = op \/ op' = Idle)
        /\ \/ started' = started
           \/ started < MaxOperations /\ started' = started + 1
    BY <1>0, NothingTyped DEF TypeOK
  <2>2. blurred' = blurred \/ blurred' = (blurred \/ mem.op # External)
    BY <1>0, Zenon
  <2>3. blurred' \in BOOLEAN
    BY <1>0, <2>2 DEF TypeOK
  <2>4. /\ started' \in 0 .. MaxOperations /\ started \in Nat /\ started <= started'
    BY <1>0, <2>1, SizesTyped DEF TypeOK
  <2> QED
    BY <2>1, <2>3, <2>4
<1>8. Base'
  <2>1. secured' \in 0 .. Len(log')
    BY <1>0, <1>4, LogTyped DEF TypeOK
  <2>2. TypeOK'
    BY <1>0, <1>1, <1>4, <1>6, <1>7, <2>1 DEF TypeOK
  <2>3. made \subseteq 1 .. started' /\ op'.n <= started'
    BY <1>0, <1>7, NothingTyped DEF Shape, External, TypeOK, Operation
  <2>4. Shape'
    BY <1>0, <1>7, <2>3, NothingTyped DEF Shape
  <2> QED
    BY <2>2, <2>4 DEF Base
<1>9. Numbered'
  BY <1>0, <1>6, OldOnes, OldStays
<1>10. Story'
  BY <1>0, <1>1, <1>3, <1>6, StoryFails DEF Inv, r
<1>11. Credit'
  <2> SUFFICES ASSUME Clear'
               PROVE  /\ Expected(host)' /\ (read.done => Expected(read.state))'
                      /\ Recent' /\ Awaited' /\ UnderWay'
    BY DEF Credit
  <2>1. /\ External \notin made
        /\ mem'.op = External /\ mem'.known = mem.known /\ mem'.id = mem.id
        /\ mem'.gone = mem.gone
    BY <1>0, <1>5, <1>6, NothingMade
  <2>2. /\ Clear
        /\ \/ op.phase \in {"announced", "removed"} /\ op' = Idle
           \/ mem.op = External /\ op' = op
    <3>1. ~forgot /\ ~blurred'
      BY <1>0 DEF Clear
    <3>2. CASE op.phase \in {"announced", "removed"} /\ op' = Idle /\ blurred' = blurred
      BY <3>1, <3>2 DEF Clear
    <3>3. CASE op' = op /\ blurred' = (blurred \/ mem.op # External)
      BY <3>1, <3>3 DEF Clear
    <3> QED
      BY <1>0, <3>2, <3>3, Zenon
  <2>3. /\ Expected(host) /\ (read.done => Expected(read.state))
        /\ Recent /\ Awaited /\ UnderWay
    BY <2>2 DEF Inv, Credit
  <2>4. CASE op.phase \in {"announced", "removed"} /\ op' = Idle
    BY <1>0, <2>1, <2>3, <2>4, NothingTyped
       DEF Expected, Recent, Awaited, UnderWay
  <2>5. CASE mem.op = External /\ op' = op
    <3>1. op.phase \in {"announced", "removed", "parked", "stopped"} => ~mem.known
      BY <1>0, <2>3, <2>5, SizesTyped DEF UnderWay, Shape
    <3> QED
      BY <1>0, <2>1, <2>3, <2>5, <3>1 DEF Expected, Recent, Awaited, UnderWay
  <2> QED
    BY <2>2, <2>4, <2>5
<1> QED
  BY <1>4, <1>6, <1>8, <1>9, <1>10, <1>11 DEF Inv

LEMMA ReportOutcomeStep == ASSUME Inv, ReportOutcome PROVE Inv'
<1> DEFINE next == WithExpectation(mem, mem.op)
           r == Failed(outcome, mem.op)
<1>0. /\ Base /\ TypeOK /\ Shape /\ Numbered /\ Unknown /\ mem \in Entry
      /\ Save(next) /\ log' = Append(log, r) /\ outcome' = External
      /\ UNCHANGED <<own, host, created, op, parked, started, failed, untold, made, alive, read,
                     secured, base, blurred, lost, forgot>>
  BY DEF Inv, Base, TypeOK, ReportOutcome, hostVars, ghostVars
<1>1. mem.op \in 0 .. MaxOperations /\ outcome \in 0 .. MaxOperations
  BY <1>0 DEF TypeOK, Entry
<1>2. r \in Report /\ r.result = "failed"
  BY <1>0, <1>1, FailedTyped
<1>3. /\ next \in Entry /\ next.known = mem.known /\ next.id = mem.id
      /\ next.image = mem.image /\ next.gone = mem.gone /\ next.op = mem.op
  BY <1>0, <1>1, EntryTyped
<1> HIDE DEF r, next
<1>4. CreditedRight' /\ log' \in Seq(Report) /\ Len(log') = Len(log) + 1
  BY <1>0, <1>2, RightFails DEF Inv
<1>5. /\ mem' = next /\ mem' \in Entry /\ disk' \in Entry /\ faults' \in 0 .. MaxFaults
      /\ Old(mem.id', mem.image') /\ Old(disk.id', disk.image')
      /\ Unknown'
      /\ mem'.known => mem.known /\ mem'.image = mem.image
  <2>1. ~next.known => next.op = External
    BY <1>0, <1>3 DEF Unknown
  <2> QED
    BY <1>0, <1>3, <2>1, SavesSame
<1>6. Base'
  <2>1. secured' \in 0 .. Len(log') /\ outcome' \in 0 .. MaxOperations
    BY <1>0, <1>4, LogTyped, NothingMade DEF TypeOK
  <2>2. TypeOK'
    BY <1>0, <1>4, <1>5, <2>1 DEF TypeOK
  <2>3. Shape'
    BY <1>0 DEF Shape
  <2> QED
    BY <2>2, <2>3 DEF Base
<1>7. Numbered'
  BY <1>0, <1>5, OldOnes, OldStays
<1>8. Story'
  BY <1>0, <1>2, <1>5, StoryFails DEF Inv
<1>9. Credit'
  BY <1>0, <1>3, <1>5 DEF Inv, Credit, Clear, Expected, Recent, Awaited, UnderWay
<1> QED
  BY <1>4, <1>5, <1>6, <1>7, <1>8, <1>9 DEF Inv

\* What the helper, or the agent, lets go of.
LEMMA LetGoStep == ASSUME Inv, Abandoned \/ Completes PROVE Inv'
<1>0. /\ Base /\ TypeOK /\ Shape /\ Numbered
      /\ op.phase \in {"announced", "created"} /\ op' = Idle
      /\ parked' \in {parked, NoContainer}
      /\ \/ FailsUntold(op.n)
         \/ failed' = failed /\ untold' = untold
      /\ UNCHANGED <<own, host, created, started, outcome, made, alive, read, mem,
                     disk, log, secured, base, blurred, lost, forgot, faults>>
  BY DEF Inv, Base, Abandoned, Completes, hostVars, memoryVars, logVars, ghostVars
<1>1. Base'
  <2>1. failed' \subseteq Operations /\ untold' \subseteq failed'
    BY <1>0, UntoldTyped DEF TypeOK, Shape
  <2>2. TypeOK'
    BY <1>0, <2>1, NothingTyped DEF TypeOK
  <2>3. Shape'
    BY <1>0, NothingTyped, NothingMade DEF Shape, External
  <2> QED
    BY <2>2, <2>3 DEF Base
<1>2. Numbered'
  BY <1>0, OldOnes, OldStays
<1>3. Story' /\ Unknown' /\ CreditedRight'
  BY <1>0, Quietly
<1>4. Credit'
  BY <1>0, NothingTyped DEF Inv, Credit, Clear, Expected, Recent, Awaited, UnderWay
<1> QED
  BY <1>1, <1>2, <1>3, <1>4 DEF Inv

\* A failure before the announcement, which nobody reports.
LEMMA FailsUnseenStep == ASSUME Inv, FailsUnseen PROVE Inv'
<1>0. /\ Base /\ TypeOK /\ Shape /\ Numbered
      /\ started < MaxOperations /\ started' = started + 1 /\ FailsUntold(started')
      /\ UNCHANGED <<own, host, created, op, parked, outcome, made, alive, read, mem, disk,
                     log, secured, base, blurred, lost, forgot, faults>>
  BY DEF Inv, Base, FailsUnseen, hostVars, memoryVars, logVars, ghostVars
<1>1. started \in Nat /\ started' \in Operations /\ started' \in 0 .. MaxOperations
  BY <1>0, SizesTyped DEF TypeOK, Operations
<1>2. Base'
  <2>1. failed' \subseteq Operations /\ untold' \subseteq failed'
    BY <1>0, <1>1, UntoldTyped
  <2>2. TypeOK'
    BY <1>0, <1>1, <2>1 DEF TypeOK
  <2>3. made' \subseteq 1 .. started' /\ op'.n <= started'
    BY <1>0, <1>1 DEF Shape, TypeOK, Operation
  <2>4. Shape'
    BY <1>0, <2>3 DEF Shape
  <2> QED
    BY <2>2, <2>4 DEF Base
<1>3. Numbered'
  BY <1>0, OldOnes, OldStays
<1>4. Story' /\ Unknown' /\ CreditedRight'
  BY <1>0, Quietly
<1>5. Credit'
  BY <1>0 DEF Inv, Credit, Clear, Expected, Recent, Awaited, UnderWay
<1> QED
  BY <1>2, <1>3, <1>4, <1>5 DEF Inv

LEMMA StopOldStep == ASSUME Inv, StopOld PROVE Inv'
<1>0. /\ Base /\ TypeOK /\ Shape /\ Numbered /\ Len(log) \in Nat
      /\ op.phase = "parked" /\ op' = [op EXCEPT !.phase = "stopped"]
      /\ UNCHANGED <<own, host, created, parked, started, outcome, failed, untold, made, blurred,
                     lost, faults>>
  BY LogTyped DEF Inv, Base, StopOld, hostVars
<1>1. op' \in Operation /\ op'.phase = "stopped" /\ op'.n = op.n
  BY <1>0 DEF TypeOK, Operation
<1>2. /\ UNCHANGED base
      /\ alive' = FALSE /\ read'.state \in Container /\ read'.done = FALSE
      /\ mem' \in Entry /\ disk' \in Entry /\ forgot' \in BOOLEAN
      /\ log' \in Seq(Report) /\ secured' \in 0 .. Len(log')
      /\ Old(read.state.id', read.state.image')
      /\ Old(mem.id', mem.image') /\ Old(disk.id', disk.image')
      /\ Story' /\ Unknown' /\ CreditedRight'
      /\ ~forgot' => ~forgot /\ mem' = mem
  <2>1. CASE alive
    <3>1. Ends(Len(log)) /\ Len(log) \in 0 .. Len(log)
      BY <1>0, <2>1 DEF StopOld
    <3> QED
      BY <1>0, <3>1, EndsHolds, Zenon
  <2>2. CASE ~alive
    <3>1. UNCHANGED <<alive, read, mem, disk, log, secured, base, forgot>>
      BY <2>2 DEF StopOld, memoryVars, logVars
    <3>2. Story' /\ Unknown' /\ CreditedRight'
      BY <1>0, <3>1, Quietly
    <3> QED
      BY <1>0, <2>2, <3>1, <3>2, OldOnes DEF TypeOK, Shape
  <2> QED
    BY <2>1, <2>2
<1>3. Base'
  <2>1. TypeOK'
    BY <1>0, <1>1, <1>2 DEF TypeOK
  <2>2. Shape'
    BY <1>0, <1>1, <1>2 DEF Shape
  <2> QED
    BY <2>1, <2>2 DEF Base
<1>4. Numbered'
  BY <1>0, <1>2, OldOnes, OldStays
<1>5. Credit'
  BY <1>0, <1>1, <1>2 DEF Inv, Credit, Clear, Expected, Recent, Awaited, UnderWay
<1> QED
  BY <1>2, <1>3, <1>4, <1>5 DEF Inv

LEMMA RollBackStep == ASSUME Inv, RollBack PROVE Inv'
<1>0. /\ Base /\ TypeOK /\ Shape /\ Numbered /\ Unknown
      /\ own /\ op.phase \in {"announced", "parked", "stopped", "created"}
      /\ op.phase = "announced" => host' = host
      /\ op.phase = "created" => host' = [parked EXCEPT !.by = op.n, !.back = TRUE]
      /\ op.phase \in {"parked", "stopped"} => host' = parked
      /\ op' = Idle /\ parked' = NoContainer
      /\ outcome' = op.n /\ failed' = failed \cup {op.n} /\ made' = made \ {op.n}
      /\ UNCHANGED <<own, created, started, untold, blurred, faults>>
  BY DEF Inv, Base, RollBack
<1>1. op.n \in Operations /\ op.n \in 0 .. MaxOperations
  BY <1>0 DEF Shape, TypeOK, Operation
<1>2. /\ host' \in Container
      /\ op.phase # "announced" => host'.id = parked.id /\ host'.image = parked.image
      /\ op.phase = "created" => host'.back
  BY <1>0, <1>1 DEF TypeOK, Container
<1>3. /\ UNCHANGED base
      /\ alive' \in BOOLEAN /\ read'.state \in Container /\ read'.done \in BOOLEAN
      /\ ~alive' => ~read'.done
      /\ op.phase = "created" => ~read'.done
      /\ read' = read \/ ~read'.done
      /\ mem' \in Entry /\ disk' \in Entry /\ forgot' \in BOOLEAN /\ lost' \in BOOLEAN
      /\ log' \in Seq(Report) /\ secured' \in 0 .. Len(log')
      /\ Old(read.state.id', read.state.image')
      /\ Old(mem.id', mem.image') /\ Old(disk.id', disk.image')
      /\ Story' /\ Unknown' /\ CreditedRight'
      /\ ~forgot' => ~forgot /\ mem' = mem
  <2>0. Len(log) \in Nat /\ secured \in 0 .. Len(log)
    BY <1>0, LogTyped DEF TypeOK
  <2>1. CASE op.phase = "created" /\ alive
    <3>1. Ends(secured) /\ lost' = (lost \/ secured < Len(log))
      BY <2>1 DEF RollBack
    <3>2. secured < Len(log) \/ secured = Len(log)
      BY <2>0
    <3>3. (lost => lost') /\ (lost' \/ secured = Len(log)) /\ lost' \in BOOLEAN
      <4>1. (lost => lost') /\ (lost' \/ secured = Len(log))
        BY <3>1, <3>2, Zenon
      <4>2. lost' \in BOOLEAN
        BY <1>0, <2>0, <3>1 DEF TypeOK
      <4> QED
        BY <4>1, <4>2
    <3> QED
      BY <2>0, <3>1, <3>3, EndsHolds, Zenon
  <2>2. CASE ~(op.phase = "created" /\ alive)
    <3>1. UNCHANGED <<alive, read, mem, disk, log, secured, base, lost, forgot>>
      BY <2>2 DEF RollBack, memoryVars, logVars
    <3>2. Story' /\ Unknown' /\ CreditedRight'
      BY <3>1, Quietly
    <3> QED
      BY <1>0, <2>2, <3>1, <3>2, OldOnes DEF TypeOK, Shape
  <2> QED
    BY <2>1, <2>2
<1>4. Base'
  <2>1. outcome' \in 0 .. MaxOperations /\ failed' \subseteq Operations
        /\ untold' \subseteq failed' /\ made' \subseteq Operations
        /\ parked' \in Container /\ op' \in Operation
    BY <1>0, <1>1, NothingTyped DEF TypeOK
  <2>2. TypeOK'
    BY <1>0, <1>2, <1>3, <2>1 DEF TypeOK
  <2>3. Shape'
    BY <1>0, <1>3, NothingTyped, NothingMade DEF Shape, External
  <2> QED
    BY <2>2, <2>3 DEF Base
<1>5. Numbered'
  <2>1. Old(host.id', host.image')
    BY <1>0, <1>2, OldOnes
  <2> QED
    BY <1>0, <1>3, <2>1, OldOnes, OldStays
<1>6. Credit'
  <2> SUFFICES ASSUME Clear'
               PROVE  /\ Expected(host)' /\ (read.done => Expected(read.state))'
                      /\ Recent' /\ Awaited' /\ UnderWay'
    BY DEF Credit
  <2>1. /\ Clear /\ mem' = mem
    BY <1>0, <1>3 DEF Clear
  <2>2. /\ Expected(host) /\ (read.done => Expected(read.state))
        /\ Recent /\ Awaited /\ UnderWay /\ External \notin made
    BY <1>0, <2>1, NothingMade DEF Inv, Credit
  <2>3. UnderWay'
    BY <1>0, NothingTyped DEF UnderWay
  <2>4. CASE op.phase = "announced"
    BY <1>0, <1>3, <2>1, <2>2, <2>3, <2>4 DEF Expected, Recent, Awaited, UnderWay
  <2>5. CASE op.phase \in {"parked", "stopped"}
    BY <1>0, <1>2, <1>3, <2>1, <2>2, <2>3, <2>5
       DEF Expected, Recent, Awaited, UnderWay, Unknown
  <2>6. CASE op.phase = "created"
    <3>1. host.by = op.n
      BY <1>0, <2>6 DEF Shape
    <3> QED
      BY <1>0, <1>2, <1>3, <2>1, <2>2, <2>3, <2>6, <3>1 DEF Expected, Recent, Awaited
  <2> QED
    BY <1>0, <2>4, <2>5, <2>6
<1> QED
  BY <1>3, <1>4, <1>5, <1>6 DEF Inv

LEMMA TimeStep == ASSUME Inv, Expires \/ Ages PROVE Inv'
<1>0. /\ Base /\ TypeOK /\ Shape /\ Numbered /\ Unknown /\ mem \in Entry /\ disk \in Entry
      /\ External \in 0 .. MaxOperations
      /\ \/ /\ op.phase = "idle" /\ mem' = [mem EXCEPT !.op = External]
            /\ disk' = [disk EXCEPT !.op = External]
            /\ blurred' = (blurred \/ mem.id # host.id)
         \/ /\ mem.gone = "yes" /\ mem' = [mem EXCEPT !.gone = "old"]
            /\ disk' = [disk EXCEPT !.gone = IF @ = "yes" THEN "old" ELSE @]
            /\ blurred' = blurred
      /\ UNCHANGED <<own, host, created, op, parked, started, outcome, failed, untold, made, alive,
                     read, log, secured, base, lost, forgot>>
      /\ faults' \in 0 .. MaxFaults
  BY SizesTyped, NothingMade
     DEF Inv, Base, TypeOK, Expires, Ages, Happens, hostVars, opVars, logVars, ghostVars
<1>1. /\ mem' \in Entry /\ mem'.known = mem.known /\ mem'.id = mem.id
      /\ mem'.image = mem.image
      /\ disk' \in Entry /\ disk'.known = disk.known /\ disk'.id = disk.id
      /\ disk'.image = disk.image
      /\ mem'.op \in {mem.op, External} /\ disk'.op \in {disk.op, External}
      /\ mem'.gone = "no" <=> mem.gone = "no"
  <2>1. CASE op.phase = "idle" /\ mem' = [mem EXCEPT !.op = External]
             /\ disk' = [disk EXCEPT !.op = External]
    BY <1>0, <2>1 DEF Entry
  <2>2. CASE /\ mem.gone = "yes" /\ mem' = [mem EXCEPT !.gone = "old"]
             /\ disk' = [disk EXCEPT !.gone = IF @ = "yes" THEN "old" ELSE @]
    <3>1. PICK g \in {"no", "yes", "old"} : disk' = [disk EXCEPT !.gone = g]
      BY <1>0, <2>2 DEF Entry
    <3> QED
      BY <1>0, <2>2, <3>1 DEF Entry
  <2> QED
    BY <1>0, <2>1, <2>2
<1>2. blurred' \in BOOLEAN
  BY <1>0 DEF TypeOK
<1>3. Base'
  BY <1>0, <1>1, <1>2 DEF Base, TypeOK, Shape
<1>4. Numbered'
  BY <1>0, <1>1, OldOnes, OldStays
<1>5. Story'
  BY <1>0, <1>1, StorySame DEF Inv
<1>6. Unknown' /\ CreditedRight'
  BY <1>0, <1>1 DEF Inv, Unknown, CreditedRight
<1>7. Credit'
  <2> SUFFICES ASSUME Clear'
               PROVE  /\ Expected(host)' /\ (read.done => Expected(read.state))'
                      /\ Recent' /\ Awaited' /\ UnderWay'
    BY DEF Credit
  <2>1. Clear
    <3>1. blurred' = (blurred \/ mem.id # host.id) \/ blurred' = blurred
      BY <1>0, Zenon
    <3>2. ~blurred' /\ ~forgot
      BY <1>0 DEF Clear
    <3>3. ~blurred
      BY <3>1, <3>2, Zenon
    <3> QED
      BY <3>2, <3>3 DEF Clear
  <2>2. /\ Expected(host) /\ (read.done => Expected(read.state))
        /\ Recent /\ Awaited /\ UnderWay /\ External \notin made
    BY <1>0, <2>1, NothingMade DEF Inv, Credit
  <2>3. CASE op.phase = "idle" /\ mem.id = host.id /\ mem'.op = External
    BY <1>0, <1>1, <2>2, <2>3 DEF Expected, Recent, Awaited, UnderWay
  <2>4. CASE mem'.op = mem.op
    BY <1>0, <1>1, <2>2, <2>4 DEF Expected, Recent, Awaited, UnderWay
  <2>5. \/ op.phase = "idle" /\ mem.id = host.id /\ mem'.op = External
        \/ mem'.op = mem.op
    BY <1>0 DEF Clear, Entry
  <2> QED
    BY <2>3, <2>4, <2>5
<1> QED
  BY <1>3, <1>4, <1>5, <1>6, <1>7 DEF Inv

-----------------------------------------------------------------------------
LEMMA InitHolds == ASSUME Init PROVE Inv
<1> DEFINE h == [NoContainer EXCEPT !.up = TRUE]
<1>1. /\ h \in Container /\ h.id = 1 /\ h.image = AnImage
  BY NothingTyped DEF Container
<1> HIDE DEF h
<1>2. /\ own \in BOOLEAN /\ host = h /\ created = 1
      /\ op = Idle /\ parked = NoContainer
      /\ started = 0 /\ outcome = External /\ failed = {} /\ untold = {} /\ made = {}
      /\ alive = TRUE /\ read = NoRead /\ read.done = FALSE /\ read.state = NoContainer
      /\ mem = NoEntry /\ disk = NoEntry
      /\ log = <<>> /\ secured = 0 /\ base.image = AnImage /\ base.at = 0
      /\ blurred = FALSE /\ lost = FALSE /\ forgot = FALSE /\ faults = 0
  BY DEF Init, h, NoRead
<1>3. log \in Seq(Report) /\ Len(log) = 0 /\ DOMAIN log = {}
  BY <1>2, EmptySeq
<1>4. Base
  <2>1. /\ External \in 0 .. MaxOperations /\ 0 \in 0 .. MaxOperations
        /\ 0 \in 0 .. MaxFaults /\ 1 \in Containers /\ 0 \in 0 .. 0
    BY SizesTyped DEF External
  <2>2. secured \in 0 .. Len(log) /\ log \in Seq(Report)
    BY <1>2, <1>3, <2>1
  <2>3. /\ own \in BOOLEAN /\ host \in Container /\ created \in Containers
        /\ op \in Operation /\ parked \in Container
        /\ started \in 0 .. MaxOperations /\ outcome \in 0 .. MaxOperations
        /\ alive \in BOOLEAN /\ read.done \in BOOLEAN /\ read.state \in Container
        /\ mem \in Entry /\ disk \in Entry
    BY <1>1, <1>2, <2>1, NothingTyped
  <2>4. /\ base.image \in Images /\ base.at \in Nat
        /\ failed \subseteq Operations /\ untold \subseteq failed
        /\ made \subseteq Operations
        /\ blurred \in BOOLEAN /\ lost \in BOOLEAN /\ forgot \in BOOLEAN
        /\ faults \in 0 .. MaxFaults
    <3>1. blurred \in BOOLEAN /\ lost \in BOOLEAN /\ forgot \in BOOLEAN
      BY <1>2
    <3>2. /\ failed \subseteq Operations /\ untold \subseteq failed
          /\ made \subseteq Operations
      BY <1>2
    <3>3. base.image \in Images /\ base.at \in Nat /\ faults \in 0 .. MaxFaults
      BY <1>2, <2>1, SizesTyped
    <3> QED
      BY <3>1, <3>2, <3>3
  <2>5. TypeOK
    BY <2>2, <2>3, <2>4 DEF TypeOK
  <2>6. Shape
    BY <1>2, NothingTyped DEF Shape, External
  <2> QED
    BY <2>5, <2>6 DEF Base
<1>5. Numbered
  <2> DEFINE f == [id \in Containers |-> AnImage]
  <2>1. f \in [Containers -> Images] /\ \A id \in Containers : f[id] = AnImage
    BY SizesTyped
  <2> HIDE DEF f
  <2>2. Fits(f)
    BY <1>1, <1>2, <2>1, NothingTyped, SizesTyped DEF Fits
  <2>3. /\ host.id <= created /\ parked.id <= created /\ read.state.id <= created
        /\ mem.id <= created /\ disk.id <= created
    BY <1>1, <1>2, NothingTyped
  <2> QED
    BY <2>1, <2>2, <2>3 DEF Numbered
<1>6. Story
  BY <1>2, <1>3, NothingTyped DEF Story, Chain, Updates
<1>7. Unknown /\ CreditedRight
  BY <1>2, <1>3, NothingTyped DEF Unknown, CreditedRight
<1>8. Credit
  BY <1>2, NothingTyped
     DEF Credit, Clear, Expected, Recent, Awaited, UnderWay
<1> QED
  BY <1>4, <1>5, <1>6, <1>7, <1>8 DEF Inv

LEMMA StepHolds == ASSUME Inv, [Next]_vars PROVE Inv'
<1>1. CASE Observe
  BY <1>1, ObserveStep
<1>2. CASE Read
  BY <1>2, ReadStep
<1>3. CASE Secure \/ AgentStarts \/ UNCHANGED vars
  BY <1>3, SecureStep
<1>4. CASE AgentStops \/ AgentDies
  BY <1>4, AgentEndsStep
<1>5. CASE \E img \in Images : Replace(img) \/ Announce(img)
  BY <1>5, ReplaceStep, AnnounceStep
<1>6. CASE Remove
  BY <1>6, RemoveStep
<1>7. CASE RemoveOld \/ Park
  BY <1>7, RemoveOldStep
<1>8. CASE CreateNew \/ CreateReplacement
  BY <1>8, CreateStep
<1>9. CASE RecreateFails \/ PullFails
  BY <1>9, FailStep
<1>10. CASE Abandoned \/ Completes
  BY <1>10, LetGoStep
<1>11. CASE StopOld
  BY <1>11, StopOldStep
<1>12. CASE RollBack
  BY <1>12, RollBackStep
<1>13. CASE ReportOutcome
  BY <1>13, ReportOutcomeStep
<1>14. CASE Expires \/ Ages
  BY <1>14, TimeStep
<1>15. CASE FailsUnseen
  BY <1>15, FailsUnseenStep
<1> QED
  BY <1>1, <1>2, <1>3, <1>4, <1>5, <1>6, <1>7, <1>8, <1>9, <1>10, <1>11, <1>12, <1>13,
     <1>14, <1>15 DEF Next

\* The types, and everything above, hold of every state of the agent's updates
\* (UpdateHistoryService, UpdateDetector, SelfUpdateService).
THEOREM Invariance == Spec => []Inv
<1>1. Init => Inv
  BY InitHolds
<1>2. Inv /\ [Next]_vars => Inv'
  BY StepHolds
<1> QED
  BY <1>1, <1>2, PTL DEF Spec

\* The history tells one story: each update detectUpdates finds begins where
\* the one before it ended, and what is remembered of the name is what was told
\* last, whatever order states, restarts and operations come in -- unless the
\* process died before a report or a memory reached the disk.
THEOREM TellsOneStory == Spec => []HistoryChains
<1>1. Inv => HistoryChains
  BY DEF Inv, Story, Chain, HistoryChains
<1> QED
  BY <1>1, Invariance, PTL

\* An update is credited to whoever caused it: to the operation whose recreate
\* was announced (expectUpdate), and to nobody here where somebody else did it.
THEOREM CreditsTheCause == Spec => []CreditedRight
<1>1. Inv => CreditedRight
  BY DEF Inv
<1> QED
  BY <1>1, Invariance, PTL

=============================================================================
