------------------------- MODULE RunLifecycleProofs -------------------------
(***************************************************************************)
(* Proofs about LatestPointer, RunLifecycle and RunViews, for any runs,    *)
(* readers, viewers and bounds.  PInv: every id that is written anywhere,  *)
(* in a file of that name, in latest.txt or in a reader, is of a settled   *)
(* run, because a runner touches the pointer only after settling.  LInv:   *)
(* where the pointer leads while updates repair it.  RInv: what is settled *)
(* by then at every step of run_command.  GInv: what a capture may say at  *)
(* each git command.  VInv: what a view has seen that no later step takes  *)
(* back.                                                                   *)
(***************************************************************************)
EXTENDS RunViews, TLAPS

-----------------------------------------------------------------------------
(* The pointer: LatestPointer *)

\* A runner that changes the pointer, or has changed it, is settled.
PointingIsSettled ==
    \A r \in Runs : pc[r] \in PointerSteps \cup {"check", "done"} => r \in settled

\* Nothing names a run that is not settled.
OnlySettledNamed ==
    /\ \A q \in Runs : body[q] \in {"empty", "cut"} \cup settled
    /\ txt \in {"none", "empty", "cut"} \cup settled
    /\ \A d \in Readers :
          /\ reader[d].run \in {"none"} \cup settled
          /\ reader[d].at \in {"chosen", "found", "reading"} => reader[d].run = "none"
          /\ reader[d].at = "reading" /\ reader[d].file = "latest" => reader[d].handle \in Runs

\* A directory runs/latest is never taken for a file to write.
NoFileForDirectory ==
    \A r \in Runs : pc[r] \in {"unlink", "openLatest", "writeLatest"} => latest # "dir"

PInv ==
    /\ LatestReadsFinished
    /\ PointingIsSettled
    /\ OnlySettledNamed
    /\ NoFileForDirectory

\* The initial states satisfy the invariant.
LEMMA PointerInit == Init => PInv
BY ConstantsAssumption
   DEF Init, PInv, LatestReadsFinished, TypeOK, PointingIsSettled, OnlySettledNamed,
       NoFileForDirectory, PointerSteps

\* Steps of a runner before it turns to the pointer.
LEMMA RunnerStep ==
    ASSUME PInv, NEW r \in Runs, Begin(r) \/ Reopen(r) \/ Rewrite(r)
    PROVE  PInv'
<1> USE ConstantsAssumption
    DEF PInv, LatestReadsFinished, TypeOK, PointingIsSettled, OnlySettledNamed,
        NoFileForDirectory, PointerSteps, Goto, fileVars, readVars
<1>1. CASE Begin(r)
  BY <1>1 DEF Begin
<1>2. CASE Reopen(r)
  BY <1>2 DEF Reopen
<1>3. CASE Rewrite(r)
  BY <1>3 DEF Rewrite
<1>4. QED
  BY <1>1, <1>2, <1>3

\* Steps of update_latest_pointer.
LEMMA UpdateStep ==
    ASSUME PInv, NEW r \in Runs, Update(r)
    PROVE  PInv'
<1> USE ConstantsAssumption
    DEF PInv, LatestReadsFinished, TypeOK, PointingIsSettled, OnlySettledNamed,
        NoFileForDirectory, PointerSteps, Goto, readVars
<1>1. CASE Check(r)
  <2>1. PICK next \in {"openTxt", "openLatest", "unlink"} :
            /\ pc' = [pc EXCEPT ![r] = next]
            /\ next # "openTxt" => latest # "dir"
    BY <1>1 DEF Check
  <2>2. tainted' \in SUBSET Causes /\ quiet' = {}
    BY <1>1 DEF Check, Causes
  <2>3. QED
    BY <1>1, <2>1, <2>2 DEF Check
<1>2. CASE Unlink(r)
  <2>1. PICK next \in {"openTxt", "openLatest"} :
            /\ pc' = [pc EXCEPT ![r] = next]
            /\ next = "openLatest" => latest' = "none"
    BY <1>2 DEF Unlink
  <2>2. latest' \in {latest, "none"} /\ tainted' \in {tainted, tainted \cup {"refused"}}
    BY <1>2 DEF Unlink
  <2>3. latest' # "dir" \/ latest' = latest
    BY <2>2
  <2>4. pc[r] = "unlink" /\ UNCHANGED << settled, body, txt, handle, last, reader, quiet, lost >>
    BY <1>2 DEF Unlink
  <2>5. TypeOK'
    BY <2>1, <2>2, <2>4 DEF Causes
  <2>6. QED
    BY <2>1, <2>3, <2>4, <2>5
<1>8. CASE OpenFails(r)
  BY <1>8 DEF OpenFails, Causes
<1>9. CASE WriteFails(r)
  <2>1. PICK new \in {body, [body EXCEPT ![handle[r]] = "cut"]} : body' = new
    BY <1>9 DEF WriteFails
  <2>2. body' \in [Runs -> {"empty", "cut"} \cup Runs]
    BY <2>1
  <2>3. \A q \in Runs : body'[q] \in {body[q], "cut"}
    BY <2>1
  <2>4. /\ pc[r] = "writeLatest" /\ pc' = [pc EXCEPT ![r] = "openTxt"]
        /\ handle' = [handle EXCEPT ![r] = "none"]
        /\ tainted' \in SUBSET Causes
        /\ UNCHANGED << settled, latest, txt, last, readVars, lost >>
    BY <1>9 DEF WriteFails, Causes
  <2>5. TypeOK'
    BY <2>2, <2>4
  <2>6. QED
    BY <2>3, <2>4, <2>5
<1>3. CASE OpenLatest(r)
  <2>1. PICK file \in Runs :
            /\ latest' = file
            /\ body' = [body EXCEPT ![file] = "empty"]
            /\ handle' = [handle EXCEPT ![r] = file]
    BY <1>3 DEF OpenLatest
  <2>2. latest' # "dir"
    BY <2>1
  <2>3. QED
    BY <1>3, <2>1, <2>2 DEF OpenLatest
<1>4. CASE WriteLatest(r)
  BY <1>4 DEF WriteLatest
<1>5. CASE OpenTxt(r)
  BY <1>5 DEF OpenTxt
<1>6. CASE WriteTxt(r)
  BY <1>6 DEF WriteTxt
<1>7. QED
  BY <1>1, <1>2, <1>3, <1>4, <1>5, <1>6, <1>8, <1>9 DEF Update

\* A lost runner leaves the files as they are, or a part of the id it was writing.
LEMMA LoseStep ==
    ASSUME PInv, NEW r \in Runs, Lose(r)
    PROVE  PInv'
<1>1. /\ body' \in {body, [body EXCEPT ![handle[r]] = "cut"]}
      /\ txt' \in {txt, "cut"}
      /\ tainted' \in {tainted, tainted \cup {"lost"}}
  BY DEF Lose
<1>2. body' \in [Runs -> {"empty", "cut"} \cup Runs]
  BY <1>1 DEF PInv, LatestReadsFinished, TypeOK
<1>3. \A q \in Runs : body'[q] \in {body[q], "cut"}
  BY <1>1 DEF PInv, LatestReadsFinished, TypeOK
<1>4. /\ pc' = [pc EXCEPT ![r] = "lost"] /\ lost' = lost \cup {r}
      /\ handle' = [handle EXCEPT ![r] = "none"]
      /\ UNCHANGED << settled, latest, last, reader, quiet >>
  BY DEF Lose, readVars
<1>5. TypeOK'
  BY <1>1, <1>2, <1>4, ConstantsAssumption DEF PInv, LatestReadsFinished, TypeOK, Causes
<1>6. OnlySettledNamed'
  BY <1>1, <1>3, <1>4 DEF PInv, OnlySettledNamed
<1>7. QED
  BY <1>4, <1>5, <1>6
     DEF PInv, LatestReadsFinished, TypeOK, PointingIsSettled, NoFileForDirectory, PointerSteps

\* What a step of a lookup makes of its reader: the id it has found is of a settled
\* run, it has none before it has read the pointer, and it says "final" of it.
ReaderRecord ==
    [at : {"idle", "chosen", "found", "reading", "manifest", "done"},
     kind : {"cli", "dashboard"}, file : {"latest", "txt"},
     handle : {"none"} \cup Runs, run : {"none"} \cup Runs,
     outcome : {"none", "RUN_NOT_FOUND", "INVALID_RUN_ID", "INTERNAL_ERROR", "final", "unsettled"}]

SoundReader(rec) ==
    /\ rec \in ReaderRecord
    /\ rec.run \in {"none"} \cup settled
    /\ rec.at \in {"chosen", "found", "reading"} => rec.run = "none"
    /\ rec.at = "reading" /\ rec.file = "latest" => rec.handle \in Runs
    /\ rec.at = "done" /\ rec.run # "none" => rec.outcome = "final"

LEMMA SoundReaders ==
    ASSUME PInv, NEW d \in Readers
    PROVE  SoundReader(reader[d])
BY DEF PInv, LatestReadsFinished, TypeOK, OnlySettledNamed, SoundReader, ReaderRecord

LEMMA SetReaderStep ==
    ASSUME PInv, NEW d \in Readers, NEW rec,
           SoundReader(rec), SetReader(d, rec), quiet' \in SUBSET Readers
    PROVE  PInv'
<1> USE DEF SetReader, fileVars
<1>1. \A e \in Readers : reader'[e] = IF e = d THEN rec ELSE reader[e]
  BY DEF PInv, LatestReadsFinished, TypeOK
<1>2. \A e \in Readers : SoundReader(reader'[e])
  BY <1>1, SoundReaders
<1>3. reader' \in [Readers -> ReaderRecord]
  <2>1. reader \in [Readers -> ReaderRecord] /\ rec \in ReaderRecord
    BY DEF PInv, LatestReadsFinished, TypeOK, ReaderRecord, SoundReader
  <2>2. QED
    BY <2>1
<1>4. TypeOK'
  BY <1>3 DEF PInv, LatestReadsFinished, TypeOK, ReaderRecord
<1>5. LatestReadsFinished'
  BY <1>2, <1>4 DEF LatestReadsFinished, SoundReader
<1>6. PointingIsSettled' /\ NoFileForDirectory'
  BY DEF PInv, PointingIsSettled, NoFileForDirectory
<1>7. OnlySettledNamed'
  BY <1>2 DEF PInv, OnlySettledNamed, SoundReader
<1>8. QED
  BY <1>5, <1>6, <1>7 DEF PInv

\* Steps of a lookup.
LEMMA LookupStep ==
    ASSUME PInv, NEW d \in Readers, Lookup(d)
    PROVE  PInv'
<1> USE ConstantsAssumption
<1>1. SoundReader(reader[d]) /\ quiet \in SUBSET Readers
  BY SoundReaders DEF PInv, LatestReadsFinished, TypeOK
<1>2. \A run \in settled : run \in Runs /\ run # "none"
  BY DEF PInv, LatestReadsFinished, TypeOK
<1>3. ASSUME NEW outcome \in {"RUN_NOT_FOUND", "INVALID_RUN_ID", "INTERNAL_ERROR"},
             reader[d].run = "none", Finish(d, outcome), quiet' = quiet
      PROVE  PInv'
  <2>1. SoundReader([reader[d] EXCEPT !.at = "done", !.handle = "none", !.outcome = outcome])
    BY <1>1, <1>3 DEF SoundReader, ReaderRecord
  <2>2. QED
    BY <1>1, <1>3, <2>1, SetReaderStep DEF Finish
<1>4. ASSUME NEW kind \in {"cli", "dashboard"}, Choose(d, kind)
      PROVE  PInv'
  <2>1. PICK file \in {"latest", "txt"} :
            SetReader(d, [at |-> "chosen", kind |-> kind, file |-> file,
                          handle |-> "none", run |-> "none", outcome |-> "none"])
    BY <1>4 DEF Choose
  <2>2. SoundReader([at |-> "chosen", kind |-> kind, file |-> file,
                     handle |-> "none", run |-> "none", outcome |-> "none"])
    BY DEF SoundReader, ReaderRecord
  <2>3. quiet' \in SUBSET Readers
    BY <1>1, <1>4 DEF Choose
  <2>4. QED
    BY <2>1, <2>2, <2>3, SetReaderStep
<1>5. CASE Find(d)
  <2>1. reader[d].run = "none" /\ quiet' = quiet
    BY <1>1, <1>5 DEF Find, SoundReader
  <2>2. SoundReader([reader[d] EXCEPT !.at = "found"])
    BY <1>1, <2>1 DEF SoundReader, ReaderRecord
  <2>3. QED
    BY <1>1, <1>3, <1>5, <2>1, <2>2, SetReaderStep DEF Find
<1>6. CASE OpenPointer(d)
  <2>1. reader[d].run = "none" /\ quiet' = quiet
    BY <1>1, <1>6 DEF OpenPointer, SoundReader
  <2>2. CASE reader[d].file = "latest" /\ latest \in {"none", "dir"}
    BY <1>3, <1>6, <2>1, <2>2 DEF OpenPointer
  <2>3. CASE ~(reader[d].file = "latest" /\ latest \in {"none", "dir"})
    <3>1. PICK handled \in {"none"} \cup Runs :
              /\ SetReader(d, [reader[d] EXCEPT !.at = "reading", !.handle = handled])
              /\ reader[d].file = "latest" => handled \in Runs
      BY <1>6, <2>3 DEF OpenPointer, PInv, LatestReadsFinished, TypeOK
    <3>2. SoundReader([reader[d] EXCEPT !.at = "reading", !.handle = handled])
      BY <1>1, <2>1, <3>1 DEF SoundReader, ReaderRecord
    <3>3. QED
      BY <1>1, <2>1, <3>1, <3>2, SetReaderStep
  <2>4. QED
    BY <2>2, <2>3
<1>7. CASE ReadPointer(d)
  <2>1. reader[d].run = "none" /\ quiet' = quiet
    BY <1>1, <1>7 DEF ReadPointer, SoundReader
  <2>2. CASE Pointed(d) \in {"empty", "cut"}
    BY <1>3, <1>7, <2>1, <2>2 DEF ReadPointer
  <2>3. CASE Pointed(d) \notin {"empty", "cut"}
    <3>1. Pointed(d) \in {"none"} \cup settled
      <4>1. reader[d].at = "reading" /\ reader[d].file \in {"latest", "txt"}
        BY <1>1, <1>7 DEF ReadPointer, SoundReader, ReaderRecord
      <4>2. CASE reader[d].file = "txt"
        BY <2>3, <4>2 DEF Pointed, PInv, OnlySettledNamed
      <4>3. CASE reader[d].file = "latest"
        BY <1>1, <2>3, <4>1, <4>3 DEF Pointed, PInv, OnlySettledNamed, SoundReader
      <4>4. QED
        BY <4>1, <4>2, <4>3
    <3>2. SoundReader([reader[d] EXCEPT !.at = "manifest", !.handle = "none", !.run = Pointed(d)])
      BY <1>1, <1>2, <3>1 DEF SoundReader, ReaderRecord
    <3>3. QED
      BY <1>1, <1>7, <2>1, <2>3, <3>2, SetReaderStep DEF ReadPointer
  <2>4. QED
    BY <2>2, <2>3
<1>8. CASE ReadManifest(d)
  <2>1. PICK outcome \in {"final", "unsettled"} :
            /\ Finish(d, outcome)
            /\ reader[d].run \in settled => outcome = "final"
    BY <1>8 DEF ReadManifest
  <2>2. SoundReader([reader[d] EXCEPT !.at = "done", !.handle = "none", !.outcome = outcome])
    BY <1>1, <2>1 DEF SoundReader, ReaderRecord
  <2>3. QED
    BY <1>1, <1>8, <2>1, <2>2, SetReaderStep DEF Finish, ReadManifest
<1>9. CASE Reset(d)
  <2>1. SoundReader([reader[d] EXCEPT !.at = "idle", !.kind = "cli", !.file = "latest",
                                      !.run = "none", !.outcome = "none"])
    BY <1>1 DEF SoundReader, ReaderRecord
  <2>2. QED
    BY <1>1, <1>9, <2>1, SetReaderStep DEF Reset
<1>10. QED
  BY <1>4, <1>5, <1>6, <1>7, <1>8, <1>9 DEF Lookup

\* Nothing happens.
LEMMA PointerStutter == PInv /\ UNCHANGED pointerVars => PInv'
BY DEF pointerVars, fileVars, readVars, PInv, LatestReadsFinished, TypeOK, PointingIsSettled,
       OnlySettledNamed, NoFileForDirectory

\* Every step keeps the invariant.
LEMMA PointerStep == PInv /\ [PointerNext]_pointerVars => PInv'
BY RunnerStep, UpdateStep, LoseStep, LookupStep, PointerStutter DEF PointerNext

\* The invariant holds in every state.
THEOREM PointerInvariance == PointerSpec => []PInv
BY PointerInit, PointerStep, PTL DEF PointerSpec

\* A lookup that finds a run finds a final manifest (cli.py:201-202), whatever
\* runners overlap, are lost or meet an open file.
THEOREM LatestCorrect == PointerSpec => []LatestReadsFinished
<1>1. PInv => LatestReadsFinished
  BY DEF PInv
<1>2. QED
  BY <1>1, PointerInvariance, PTL

-----------------------------------------------------------------------------
(* Where the pointer leads.  An update that is neither cut off nor          *)
(* overlapped has the pointer to itself; it repairs it, if it could remove  *)
(* runs/latest and write it to the end, or not open it at all.              *)

\* Updates that overlap are known to.
SoleUpdate ==
    "overlap" \notin tainted =>
        \A q, r \in Runs : Updating(q) /\ Updating(r) => q = r

\* What an untroubled update knows of the pointer at each step.
Repairing ==
    tainted \subseteq {"unopened"} =>
        \A r \in Runs :
            /\ pc[r] = "unlink" => latest \in Runs
            /\ pc[r] = "openLatest" => latest = "none"
            /\ pc[r] = "writeLatest" => latest \in Runs /\ handle[r] = latest
            /\ pc[r] \in {"openTxt", "writeTxt"} =>
                  latest = "dir" \/ (latest = "none" /\ tainted = {"unopened"})

\* What it leaves behind.
Repaired ==
    Settled /\ tainted \subseteq {"unopened"} /\ last # "none" =>
        /\ Resolved = last
        /\ latest = "none" => tainted = {"unopened"}

\* A lookup that no update overlaps goes by a file that stays what it is.
QuietLookups ==
    \A d \in quiet :
        /\ Settled /\ tainted \subseteq {"unopened"} /\ last # "none"
        /\ reader[d].file = "txt" => latest \in {"none", "dir"}
        /\ reader[d].file = "latest" => latest \in Runs
        /\ reader[d].at = "reading" /\ reader[d].file = "latest" => reader[d].handle = latest
        /\ reader[d].outcome \notin {"RUN_NOT_FOUND", "INVALID_RUN_ID", "INTERNAL_ERROR"}

LInv == PInv /\ SoleUpdate /\ Repairing /\ Repaired /\ QuietLookups

LEMMA RepairInit == Init => LInv
BY PointerInit DEF Init, LInv, SoleUpdate, Repairing, Repaired, QuietLookups, Updating, PointerSteps

\* Steps of a runner that is not changing the pointer.
LEMMA RepairRunner ==
    ASSUME LInv, NEW r \in Runs,
           Begin(r) \/ Reopen(r) \/ Rewrite(r) \/ (Lose(r) /\ ~Updating(r))
    PROVE  SoleUpdate' /\ Repairing' /\ Repaired' /\ QuietLookups'
<1>1. /\ UNCHANGED << latest, body, txt, last, tainted, reader, quiet >>
      /\ \A q \in Runs : q # r => handle'[q] = handle[q]
      /\ \A q \in Runs : q # r => pc'[q] = pc[q]
      /\ pc[r] \notin PointerSteps /\ pc'[r] \notin PointerSteps
  BY DEF LInv, PInv, LatestReadsFinished, TypeOK, Begin, Reopen, Rewrite, Lose, Goto, fileVars,
         readVars, Updating, PointerSteps
<1>2. \A q \in Runs : Updating(q)' <=> Updating(q)
  BY <1>1 DEF Updating
<1>3. Settled' <=> Settled
  BY <1>2 DEF Settled
<1>4. SoleUpdate'
  BY <1>1, <1>2 DEF LInv, SoleUpdate
<1>5. Repairing'
  BY <1>1 DEF LInv, Repairing, PointerSteps
<1>6. Repaired' /\ QuietLookups'
  BY <1>1, <1>3 DEF LInv, Repaired, QuietLookups, Resolved
<1>7. QED
  BY <1>4, <1>5, <1>6

\* A runner that is lost in an update leaves a pointer nobody relies on.
LEMMA RepairLost ==
    ASSUME LInv, NEW r \in Runs, Lose(r), Updating(r)
    PROVE  SoleUpdate' /\ Repairing' /\ Repaired' /\ QuietLookups'
<1>1. /\ tainted' = tainted \cup {"lost"} /\ quiet' = quiet
      /\ \A q \in Runs : Updating(q)' => Updating(q)
  BY DEF Lose, Updating, PointerSteps, readVars, LInv, PInv, LatestReadsFinished, TypeOK
<1>2. quiet = {}
  BY DEF LInv, QuietLookups, Settled
<1>3. QED
  BY <1>1, <1>2 DEF LInv, SoleUpdate, Repairing, Repaired, QuietLookups

\* Steps of update_latest_pointer.
LEMMA RepairUpdate ==
    ASSUME LInv, NEW r \in Runs, Update(r)
    PROVE  SoleUpdate' /\ Repairing' /\ Repaired' /\ QuietLookups'
<1> USE DEF Goto
<1>1. TypeOK /\ TypeOK'
  BY UpdateStep DEF LInv, PInv, LatestReadsFinished
<1>2. /\ \A q \in Runs : q # r => pc'[q] = pc[q] /\ handle'[q] = handle[q]
      /\ Updating(r) \/ pc[r] = "check"
  BY <1>1 DEF Update, Check, Unlink, OpenLatest, OpenFails, WriteLatest, WriteFails, OpenTxt,
              WriteTxt, Updating, PointerSteps, TypeOK
<1>3. CASE Check(r)
  <2>1. Updating(r)' /\ quiet' = {}
    BY <1>1, <1>3 DEF Check, Updating, PointerSteps, TypeOK
  <2>2. ~Settled'
    BY <2>1 DEF Settled
  <2>3. "overlap" \notin tainted' => \A q \in Runs \ {r} : ~Updating(q)
    BY <1>3 DEF Check
  <2>4. SoleUpdate'
    BY <1>2, <2>3 DEF SoleUpdate, Updating
  <2>5. Repairing'
    <3>1. SUFFICES ASSUME tainted' \subseteq {"unopened"}, NEW q \in Runs
                   PROVE  /\ pc'[q] = "unlink" => latest' \in Runs
                          /\ pc'[q] = "openLatest" => latest' = "none"
                          /\ pc'[q] = "writeLatest" => latest' \in Runs /\ handle'[q] = latest'
                          /\ pc'[q] \in {"openTxt", "writeTxt"} =>
                                latest' = "dir" \/ (latest' = "none" /\ tainted' = {"unopened"})
      BY DEF Repairing
    <3>2. CASE q = r
      BY <1>1, <1>3, <3>2 DEF Check, TypeOK
    <3>3. CASE q # r
      BY <1>2, <2>3, <3>1, <3>3 DEF Updating, PointerSteps
    <3>4. QED
      BY <3>2, <3>3
  <2>6. QED
    BY <2>1, <2>2, <2>4, <2>5 DEF Repaired, QuietLookups
<1>4. CASE ~Check(r)
  <2>1. Updating(r) /\ quiet' = quiet
    BY <1>4 DEF Update, Unlink, OpenLatest, OpenFails, WriteLatest, WriteFails, OpenTxt, WriteTxt,
                Updating, PointerSteps, readVars
  <2>2. quiet = {}
    BY <2>1 DEF LInv, QuietLookups, Settled
  <2>3. tainted \subseteq tainted'
    BY <1>4 DEF Update, Unlink, OpenLatest, OpenFails, WriteLatest, WriteFails, OpenTxt, WriteTxt
  <2>4. SoleUpdate'
    BY <1>2, <2>1, <2>3 DEF LInv, SoleUpdate, Updating
  <2>5. ASSUME tainted' \subseteq {"unopened"}
        PROVE  \A q \in Runs : q # r => ~Updating(q) /\ ~Updating(q)'
    BY <1>2, <2>1, <2>3, <2>5 DEF LInv, SoleUpdate, Updating
  <2>6. ASSUME tainted' \subseteq {"unopened"}
        PROVE  /\ pc'[r] = "unlink" => latest' \in Runs
               /\ pc'[r] = "openLatest" => latest' = "none"
               /\ pc'[r] = "writeLatest" => latest' \in Runs /\ handle'[r] = latest'
               /\ pc'[r] \in {"openTxt", "writeTxt"} =>
                     latest' = "dir" \/ (latest' = "none" /\ tainted' = {"unopened"})
               /\ ~Updating(r)' =>
                     Resolved' = last' /\ (latest' = "none" => tainted' = {"unopened"})
    <3>1. /\ pc[r] = "unlink" => latest \in Runs
          /\ pc[r] = "openLatest" => latest = "none"
          /\ pc[r] = "writeLatest" => latest \in Runs /\ handle[r] = latest
          /\ pc[r] \in {"openTxt", "writeTxt"} =>
                latest = "dir" \/ (latest = "none" /\ tainted = {"unopened"})
      BY <2>3, <2>6 DEF LInv, Repairing
    <3>2. CASE Unlink(r)
      BY <1>1, <2>6, <3>1, <3>2, ConstantsAssumption DEF Unlink, TypeOK, Updating, PointerSteps
    <3>3. CASE OpenLatest(r)
      BY <1>1, <3>1, <3>3 DEF OpenLatest, TypeOK, Updating, PointerSteps
    <3>4. CASE WriteLatest(r)
      BY <1>1, <3>1, <3>4, ConstantsAssumption DEF WriteLatest, TypeOK, Resolved
    <3>5. CASE OpenTxt(r)
      BY <1>1, <3>1, <3>5 DEF OpenTxt, TypeOK, Updating, PointerSteps
    <3>6. CASE WriteTxt(r)
      BY <1>1, <3>1, <3>6, ConstantsAssumption DEF WriteTxt, TypeOK, Resolved
    <3>8. CASE OpenFails(r)
      <4>1. /\ pc[r] = "openLatest" /\ pc'[r] = "openTxt" /\ latest' = latest
            /\ "unopened" \in tainted'
        BY <1>1, <3>8 DEF OpenFails, TypeOK
      <4>2. tainted' = {"unopened"}
        BY <2>6, <4>1
      <4>3. QED
        BY <3>1, <4>1, <4>2 DEF Updating, PointerSteps
    <3>9. CASE WriteFails(r)
      BY <2>6, <3>9 DEF WriteFails
    <3>7. QED
      BY <1>4, <3>2, <3>3, <3>4, <3>5, <3>6, <3>8, <3>9 DEF Update
  <2>7. Repairing'
    BY <2>5, <2>6 DEF Repairing, Updating, PointerSteps
  <2>8. Repaired'
    BY <2>6 DEF Repaired, Settled
  <2>9. QED
    BY <2>1, <2>2, <2>4, <2>7, <2>8 DEF QuietLookups
<1>5. QED
  BY <1>3, <1>4

\* A lookup that is quiet finds the run; the rest of the lookups change nothing here.
LEMMA RepairLookup ==
    ASSUME LInv, NEW d \in Readers, Lookup(d)
    PROVE  SoleUpdate' /\ Repairing' /\ Repaired' /\ QuietLookups'
<1> USE DEF LInv, SetReader, Finish, fileVars
<1>1. TypeOK /\ TypeOK'
  BY LookupStep DEF PInv, LatestReadsFinished
<1>2. UNCHANGED << pc, latest, body, txt, handle, last, tainted >>
  BY DEF Lookup, Choose, Find, OpenPointer, ReadPointer, ReadManifest, Reset
<1>3. SoleUpdate' /\ Repairing' /\ Repaired' /\ (Settled' <=> Settled)
  BY <1>2 DEF SoleUpdate, Repairing, Repaired, Settled, Resolved, Updating
<1>4. \A e \in quiet' : e # d => e \in quiet /\ reader'[e] = reader[e]
  BY <1>1 DEF Lookup, Choose, Find, OpenPointer, ReadPointer, ReadManifest, Reset, TypeOK
<1>5. ASSUME d \in quiet'
      PROVE  /\ Settled /\ tainted \subseteq {"unopened"} /\ last # "none"
             /\ reader'[d].file = "txt" => latest \in {"none", "dir"}
             /\ reader'[d].file = "latest" => latest \in Runs
             /\ reader'[d].at = "reading" /\ reader'[d].file = "latest"
                  => reader'[d].handle = latest
             /\ reader'[d].outcome \notin {"RUN_NOT_FOUND", "INVALID_RUN_ID", "INTERNAL_ERROR"}
  <2>1. CASE \E kind \in {"cli", "dashboard"} : Choose(d, kind)
    <3>1. PICK kind \in {"cli", "dashboard"} : Choose(d, kind)
      BY <2>1
    <3>2. Settled /\ tainted \subseteq Harmless(kind) /\ last # "none"
      BY <1>5, <3>1 DEF Choose
    <3>3. Resolved = last /\ last \in Runs /\ (latest = "none" => tainted = {"unopened"})
      BY <1>1, <3>2 DEF Repaired, TypeOK, Harmless
    <3>4. latest \in Runs \/ (kind = "dashboard" /\ latest \in {"none", "dir"} /\ txt # "none")
      BY <1>1, <3>1, <3>2, <3>3, ConstantsAssumption DEF Choose, Resolved, TypeOK, Harmless
    <3>5. /\ reader'[d].at = "chosen" /\ reader'[d].outcome = "none"
          /\ reader'[d].file = IF kind = "dashboard" /\ latest \in {"none", "dir"} /\ txt # "none"
                               THEN "txt" ELSE "latest"
      BY <1>1, <3>1 DEF Choose, TypeOK
    <3>6. QED
      BY <3>2, <3>4, <3>5, ConstantsAssumption DEF Harmless
  <2>2. CASE ~ \E kind \in {"cli", "dashboard"} : Choose(d, kind)
    <3>1. d \in quiet /\ ~Reset(d)
      BY <1>5, <2>2 DEF Lookup, Find, OpenPointer, ReadPointer, ReadManifest, Reset
    <3>2. /\ Settled /\ tainted \subseteq {"unopened"} /\ last # "none"
          /\ reader[d].file = "txt" => latest \in {"none", "dir"}
          /\ reader[d].file = "latest" => latest \in Runs
          /\ reader[d].at = "reading" /\ reader[d].file = "latest" => reader[d].handle = latest
          /\ reader[d].outcome \notin {"RUN_NOT_FOUND", "INVALID_RUN_ID", "INTERNAL_ERROR"}
      BY <3>1 DEF QuietLookups
    <3>3. last \in Runs /\ Resolved = last
      BY <1>1, <3>2 DEF Repaired, TypeOK
    <3>4. latest \notin {"none", "dir"} \/ reader[d].file # "latest"
      BY <3>2, ConstantsAssumption
    <3>5. reader[d].at = "reading" => Pointed(d) \notin {"empty", "cut"}
      BY <1>1, <3>2, <3>3, ConstantsAssumption DEF Pointed, Resolved, TypeOK
    <3>6. CASE Find(d)
      BY <1>1, <3>2, <3>4, <3>6 DEF Find, TypeOK
    <3>7. CASE OpenPointer(d)
      <4>1. SetReader(d, [reader[d] EXCEPT
                            !.at = "reading",
                            !.handle = IF reader[d].file = "latest" THEN latest ELSE "none"])
        BY <3>4, <3>7 DEF OpenPointer
      <4>2. /\ reader'[d].file = reader[d].file /\ reader'[d].outcome = reader[d].outcome
            /\ reader[d].file = "latest" => reader'[d].handle = latest
        BY <1>1, <4>1 DEF TypeOK
      <4>3. QED
        BY <3>2, <4>2
    <3>8. CASE ReadPointer(d)
      <4>1. SetReader(d, [reader[d] EXCEPT !.at = "manifest", !.handle = "none",
                                           !.run = Pointed(d)])
        BY <3>5, <3>8 DEF ReadPointer
      <4>2. /\ reader'[d].file = reader[d].file /\ reader'[d].outcome = reader[d].outcome
            /\ reader'[d].at = "manifest"
        BY <1>1, <4>1 DEF TypeOK
      <4>3. QED
        BY <3>2, <4>2
    <3>9. CASE ReadManifest(d)
      BY <1>1, <3>2, <3>9 DEF ReadManifest, TypeOK
    <3>10. QED
      BY <2>2, <3>1, <3>6, <3>7, <3>8, <3>9 DEF Lookup
  <2>3. QED
    BY <2>1, <2>2
<1>6. QuietLookups'
  BY <1>2, <1>3, <1>4, <1>5 DEF QuietLookups
<1>7. QED
  BY <1>3, <1>6

LEMMA RepairStutter == LInv /\ UNCHANGED pointerVars => LInv'
<1> SUFFICES ASSUME LInv, UNCHANGED pointerVars
             PROVE  LInv'
  OBVIOUS
<1>1. PInv'
  BY PointerStutter DEF LInv
<1>2. QED
  BY <1>1 DEF pointerVars, fileVars, readVars, LInv, SoleUpdate, Repairing, Repaired, QuietLookups,
              Settled, Resolved, Updating

LEMMA RepairStep == LInv /\ [PointerNext]_pointerVars => LInv'
<1> SUFFICES ASSUME LInv, PointerNext
             PROVE  LInv'
  BY RepairStutter
<1>1. PInv'
  BY PointerStep DEF LInv
<1>2. QED
  BY <1>1, RepairRunner, RepairLost, RepairUpdate, RepairLookup DEF PointerNext, LInv

\* What one update on its own leaves, and what a lookup then finds.
LEMMA RepairInvariance == PointerSpec => []LInv
BY RepairInit, RepairStep, PTL DEF PointerSpec

\* Between updates runs/latest, or latest.txt where there is no such file, leads to the run
\* that completed last, unless the last update met another or was cut off, or could not
\* remove runs/latest or write it to the end (cli.py:90-100).
THEOREM PointerCorrect == PointerSpec => []PointerIsLast
<1>1. LInv => PointerIsLast
  BY DEF LInv, Repaired, PointerIsLast, Harmless
<1>2. QED
  BY <1>1, RepairInvariance, PTL

\* A lookup after such an update, and overlapped by none, finds a run; the CLI's only if
\* runs/latest could be opened as well (cli.py:45-59, export.py:365-374).
THEOREM LookupsSucceed == PointerSpec => []ReadersFindARun
<1>1. LInv => ReadersFindARun
  BY DEF LInv, QuietLookups, ReadersFindARun
<1>2. QED
  BY <1>1, RepairInvariance, PTL

-----------------------------------------------------------------------------
(* The runs: RunLifecycle *)

\* Where a run is: only "rewrite" makes a manifest final, and only at the end; an
\* agent that runs is waited for.
PhaseOK(r) ==
    /\ pc[r] \in {"idle", "busy", "rewrite"} => ~IsFinal(r)
    /\ pc[r] \notin {"idle", "busy", "lost"} => step[r] = "end"
    /\ IsFinal(r) => step[r] = "end"
    /\ agent[r] = "alive" => step[r] = "wait"

\* What the outcome rests on.
OutcomeOK(r) ==
    /\ exit[r] = 0 => agent[r] = "zero"
    /\ manifest[r].status = "completed" => exit[r] = 0
    /\ manifest[r].status = "failed" => exit[r] = 1

\* What the numbers rest on, from the cassette's making to the manifest.
CassetteOK(r) ==
    /\ step[r] \notin {"count", "end"} => cassette[r] = Absent
    /\ step[r] \in {"count", "end"} => summary[r] = cassette[r]
    /\ step[r] \in {"entries", "replace"} =>
          entries[r] <= http[r] /\ (<< r, "http" >> \notin late => entries[r] = http[r])
    /\ cassette[r] <= http[r]
    /\ cassette[r] # Absent =>
          r \notin temporary /\ (<< r, "http" >> \notin late => cassette[r] = http[r])

CountOK(r) ==
    /\ http[r] <= lines[r]
    /\ step[r] = "end" =>
          /\ count[r] <= lines[r]
          /\ cassette[r] <= count[r]
          /\ << r, "events" >> \notin late => count[r] = lines[r]
    /\ IsFinal(r) => manifest[r].count = count[r] /\ manifest[r].cassette = summary[r]

RInv ==
    /\ RunTypeOK
    /\ PInv
    /\ settled = FinalRuns
    /\ \A r \in Runs : PhaseOK(r) /\ OutcomeOK(r) /\ CassetteOK(r) /\ CountOK(r)

-----------------------------------------------------------------------------
(* Steps as LatestPointer sees them *)

\* Every step of a run is one of the pointer's, or leaves its variables alone.
LEMMA StepOfPointer == [Next]_vars => [PointerNext]_pointerVars
<1> SUFFICES ASSUME [Next]_vars PROVE [PointerNext]_pointerVars
  OBVIOUS
<1>1. ASSUME NEW r \in Runs, Runner(r) PROVE PointerNext \/ UNCHANGED pointerVars
  <2>1. Begin(r) \/ Reopen(r) \/ Rewrite(r) \/ Update(r) \/ UNCHANGED pointerVars
    BY <1>1 DEF Runner, Make, Copy, AskGit, OpenGitFile, WriteGitFile, OpenManifest, WriteManifest,
          Launch, LaunchFails, Reap, After, ReadEvents, WriteTemporary, ReplaceCassette,
          CassetteFails, CountLines, ReopenManifest, RewriteManifest, MovePointer, Go
  <2>2. QED
    BY <2>1 DEF PointerNext
<1>2. ASSUME NEW r \in Runs, Interrupt(r) \/ LoseRunner(r) PROVE PointerNext \/ UNCHANGED pointerVars
  BY <1>2 DEF Interrupt, LoseRunner, Go, PointerNext
<1>3. ASSUME NEW r \in Runs,
             \/ Detach(r)
             \/ \E new \in Trees(0 .. MaxHead, Kinds) : Edit(r, new)
             \/ \E type \in {"http", "other"} : Record(r, type)
             \/ RecordFails(r)
             \/ \E how \in {"zero", "nonzero"} : AgentExit(r, how)
      PROVE  UNCHANGED pointerVars
  BY <1>3 DEF Detach, Edit, Record, RecordFails, AddLine, AgentExit, runnerVars
<1>4. ASSUME NEW d \in Readers, LookUp(d) PROVE PointerNext
  BY <1>4 DEF LookUp, PointerNext
<1>5. UNCHANGED vars => UNCHANGED pointerVars
  BY DEF vars
<1>6. QED
  BY <1>1, <1>2, <1>3, <1>4, <1>5 DEF Next

\* The pointer's part of the invariant, for every step.
LEMMA PointerKept == PInv /\ [Next]_vars => PInv'
BY StepOfPointer, PointerStep

-----------------------------------------------------------------------------
\* What a tree consists of.
LEMMA TreeFields ==
    ASSUME NEW Heads, NEW t \in Trees(Heads, Kinds)
    PROVE  /\ t.repo \in BOOLEAN /\ t.dirt \in SUBSET Kinds
           /\ t.repo => t.head \in Heads
           /\ ~t.repo => t = NoRepository
           /\ t.head \in Heads \cup {NoHead}
<1>1. CASE t \in [repo : {TRUE}, head : Heads, dirt : SUBSET Kinds]
  BY <1>1
<1>2. CASE t = NoRepository
  BY <1>2 DEF NoRepository
<1>3. QED
  BY <1>1, <1>2 DEF Trees

\* Whatever a git command answers, what has been collected is a capture.
LEMMA AskType ==
    ASSUME NEW state \in Captures(0 .. MaxHead, Kinds), NEW t \in Trees(0 .. MaxHead, Kinds),
           NEW command, NEW result
    PROVE  command \in GitCommands => Ask(state, command, t, result) \in Captures(0 .. MaxHead, Kinds)
<1> SUFFICES ASSUME command \in GitCommands
             PROVE  Ask(state, command, t, result) \in Captures(0 .. MaxHead, Kinds)
  OBVIOUS
<1> USE RunAssumption DEF Captures
<1>5. t.head \in (0 .. MaxHead) \cup {NoHead} /\ t.dirt \in SUBSET Kinds
  BY TreeFields
<1>1. Answered(state, command, t) \in Captures(0 .. MaxHead, Kinds)
  BY <1>5 DEF Answered, GitCommands
<1>2. Failed(state, command) \in Captures(0 .. MaxHead, Kinds)
  BY DEF Failed
<1>3. [state EXCEPT !.error = TRUE] \in Captures(0 .. MaxHead, Kinds)
  OBVIOUS
<1>4. QED
  BY <1>1, <1>2, <1>3 DEF Ask

\* Whatever repository git finds is one.
LEMMA FoundType ==
    ASSUME NEW t \in Trees(0 .. MaxHead, Kinds), NEW found \in Found(t, Above)
    PROVE  found \in Trees(0 .. MaxHead, Kinds)
BY RunAssumption DEF Found

\* The initial states satisfy the invariant.
LEMMA RunInitial == RunInit => RInv
<1> SUFFICES ASSUME RunInit PROVE RInv
  OBVIOUS
<1>1. PInv /\ TypeOK
  BY PointerInit DEF RunInit, PInv, LatestReadsFinished
<1>2. git \in [Runs -> [{"before", "after"} -> Captures(0 .. MaxHead, Kinds)]]
  <2>1. EmptyState \in Captures(0 .. MaxHead, Kinds)
    BY RunAssumption DEF EmptyState, Captures, NoHead
  <2>2. [before |-> EmptyState, after |-> EmptyState] \in [{"before", "after"} -> Captures(0 .. MaxHead, Kinds)]
    BY <2>1
  <2>3. QED
    BY <2>2 DEF RunInit
<1>3. tree \in [Runs -> Trees(0 .. MaxHead, Kinds)]
  <2>1. Trees({0}, Kinds) \subseteq Trees(0 .. MaxHead, Kinds)
    <3>1. {0} \subseteq 0 .. MaxHead
      BY RunAssumption
    <3>2. [repo : {TRUE}, head : {0}, dirt : SUBSET Kinds]
             \subseteq [repo : {TRUE}, head : 0 .. MaxHead, dirt : SUBSET Kinds]
      BY <3>1
    <3>3. QED
      BY <3>2 DEF Trees
  <2>2. QED
    BY <2>1 DEF RunInit
<1>4. gitFile \in [Runs -> [{"before", "after"} -> {"none", "torn", "whole"}]]
  BY DEF RunInit
<1>5. RunTypeOK
  BY <1>1, <1>2, <1>3, <1>4 DEF RunInit, RunTypeOK, Manifests, Steps, Absent
<1>6. settled = FinalRuns
  BY DEF RunInit, Init, FinalRuns, IsFinal, Final
<1>7. QED
  BY <1>1, <1>5, <1>6 DEF RunInit, Init, RInv, PhaseOK, OutcomeOK, CassetteOK, CountOK, IsFinal, Final, Absent

\* Steps of a runner with its repository: only the captures change.
LEMMA GitStep ==
    ASSUME RInv, PInv', NEW r \in Runs,
           \/ \E result \in GitResults : AskGit(r, result)
           \/ OpenGitFile(r) \/ WriteGitFile(r)
    PROVE  RInv'
<1>1. TypeOK' /\ RunTypeOK
  BY DEF RInv, PInv, LatestReadsFinished
<1>2. PICK to \in Steps :
          /\ pc[r] = "busy" /\ step[r] \in GitCommands \cup {"gitOpen", "gitWrite"}
          /\ to \notin {"wait", "entries", "replace", "count", "end"}
          /\ step' = [step EXCEPT ![r] = to]
          /\ UNCHANGED << pointerVars, exit, manifest, count, cassetteVars, agentVars >>
  <2>1. CASE \E result \in GitResults : AskGit(r, result)
    <3>1. PICK result \in GitResults : AskGit(r, result)
      BY <2>1
    <3>2. step[r] \in GitCommands
      BY <3>1 DEF AskGit
    <3>3. step[r] = "diff" \/ AfterCommand[step[r]] \in {"head", "status", "cached", "diff"}
      BY <3>2 DEF GitCommands, AfterCommand
    <3>4. \A found : step[r] = "diff" => Stops(step[r], found, result)
      BY DEF Stops
    <3>5. PICK to \in {"gitOpen", "head", "status", "cached", "diff"} : Go(r, step[r], to)
      BY <3>1, <3>3, <3>4 DEF AskGit
    <3>6. to \in Steps
      BY DEF Steps, GitCommands
    <3>7. QED
      BY <3>1, <3>2, <3>5, <3>6 DEF AskGit, Go
  <2>2. CASE OpenGitFile(r)
    BY <2>2 DEF OpenGitFile, Go, Steps, gitVars
  <2>3. CASE WriteGitFile(r)
    BY <2>3 DEF WriteGitFile, Go, Steps, gitVars
  <2>4. QED
    BY <2>1, <2>2, <2>3
<1>3. /\ git' \in [Runs -> [{"before", "after"} -> Captures(0 .. MaxHead, Kinds)]]
      /\ gitFile' \in [Runs -> [{"before", "after"} -> {"none", "torn", "whole"}]]
      /\ strayed' \in SUBSET (Runs \X {"before", "after"})
  <2>1. Capture(r) \in {"before", "after"}
    BY DEF Capture
  <2>2. CASE \E result \in GitResults : AskGit(r, result)
    <3>1. PICK result \in GitResults : AskGit(r, result)
      BY <2>2
    <3>2. git[r][Capture(r)] \in Captures(0 .. MaxHead, Kinds) /\ tree[r] \in Trees(0 .. MaxHead, Kinds)
      BY <1>1, <2>1 DEF RunTypeOK
    <3>3. PICK found \in Found(tree[r], Above) :
             git' = [git EXCEPT ![r][Capture(r)] = Ask(@, step[r], found, result)]
      BY <3>1 DEF AskGit
    <3>4. Ask(git[r][Capture(r)], step[r], found, result) \in Captures(0 .. MaxHead, Kinds)
      BY <3>1, <3>2, AskType, FoundType DEF AskGit
    <3>5. git' \in [Runs -> [{"before", "after"} -> Captures(0 .. MaxHead, Kinds)]]
      BY <1>1, <2>1, <3>3, <3>4 DEF RunTypeOK
    <3>6. strayed' \in SUBSET (Runs \X {"before", "after"}) /\ gitFile' = gitFile
      BY <1>1, <2>1, <3>1 DEF AskGit, RunTypeOK
    <3>7. QED
      BY <1>1, <3>5, <3>6 DEF RunTypeOK
  <2>3. CASE OpenGitFile(r)
    BY <1>1, <2>1, <2>3 DEF OpenGitFile, RunTypeOK
  <2>4. CASE WriteGitFile(r)
    BY <1>1, <2>1, <2>4 DEF WriteGitFile, RunTypeOK
  <2>5. QED
    BY <2>2, <2>3, <2>4
<1>4. RunTypeOK'
  BY <1>1, <1>2, <1>3 DEF RunTypeOK, cassetteVars, agentVars, eventVars, treeVars
<1>5. settled' = FinalRuns'
  BY <1>2 DEF RInv, FinalRuns, IsFinal, pointerVars
<1>6. ASSUME NEW q \in Runs PROVE (PhaseOK(q) /\ OutcomeOK(q) /\ CassetteOK(q) /\ CountOK(q))'
  BY <1>1, <1>2 DEF RInv, RunTypeOK, PhaseOK, OutcomeOK, CassetteOK, CountOK, IsFinal, pointerVars,
       cassetteVars, agentVars, eventVars, treeVars, GitCommands
<1>7. QED
  BY <1>4, <1>5, <1>6 DEF RInv

\* Steps of a runner up to the agent's end, and the first one after it.
LEMMA EarlyStep ==
    ASSUME RInv, PInv', NEW r \in Runs,
           \/ Copy(r) \/ OpenManifest(r) \/ WriteManifest(r) \/ Launch(r)
           \/ LaunchFails(r) \/ Reap(r) \/ Interrupt(r) \/ After(r)
    PROVE  RInv'
<1>1. TypeOK' /\ RunTypeOK /\ settled = FinalRuns
  BY DEF RInv, PInv, LatestReadsFinished
<1>2. /\ UNCHANGED << pointerVars, count, cassetteVars, gitVars, background, eventVars, treeVars >>
      /\ \E to \in Steps : step' = [step EXCEPT ![r] = to]
      /\ pc[r] = "busy"
  BY DEF Copy, OpenManifest, WriteManifest, Launch, LaunchFails, Reap, Interrupt, After, Go, Steps,
         GitCommands, agentVars
<1>3. /\ exit' \in [Runs -> {0, 1}]
      /\ agent' \in [Runs -> {"none", "alive", "zero", "nonzero", "stopped"}]
  <2>1. \E code \in {0, 1} : exit' = exit \/ exit' = [exit EXCEPT ![r] = code]
    BY DEF Copy, OpenManifest, WriteManifest, Launch, LaunchFails, Reap, Interrupt, After
  <2>2. \E how \in {"alive", "stopped"} : agent' = agent \/ agent' = [agent EXCEPT ![r] = how]
    <3>1. CASE Launch(r)
      BY <3>1 DEF Launch
    <3>2. CASE Interrupt(r)
      <4>1. agent = [agent EXCEPT ![r] = @]
        BY <1>1 DEF RunTypeOK
      <4>2. QED
        BY <3>2, <4>1 DEF Interrupt
    <3>3. CASE ~Launch(r) /\ ~Interrupt(r)
      <4>1. agent' = agent
        BY <3>3 DEF Copy, OpenManifest, WriteManifest, LaunchFails, Reap, After, agentVars
      <4>2. QED
        BY <4>1
    <3>4. QED
      BY <3>1, <3>2, <3>3
  <2>3. /\ exit \in [Runs -> {0, 1}]
        /\ agent \in [Runs -> {"none", "alive", "zero", "nonzero", "stopped"}]
    BY <1>1 DEF RunTypeOK
  <2>4. exit' \in [Runs -> {0, 1}]
    BY <2>1, <2>3
  <2>5. agent' \in [Runs -> {"none", "alive", "zero", "nonzero", "stopped"}]
    BY <2>2, <2>3
  <2>6. QED
    BY <2>4, <2>5
<1>4. \/ manifest' = manifest
      \/ \E status \in {"torn", "running"} :
            manifest' = [manifest EXCEPT ![r] = [status |-> status, count |-> 0, cassette |-> Absent]]
  BY DEF Copy, OpenManifest, WriteManifest, Launch, LaunchFails, Reap, Interrupt, After, SetManifest
<1>5. manifest' \in [Runs -> Manifests]
  <2>1. \A status \in {"torn", "running"} : [status |-> status, count |-> 0, cassette |-> Absent] \in Manifests
    BY DEF Manifests
  <2>2. manifest \in [Runs -> Manifests]
    BY <1>1 DEF RunTypeOK
  <2>3. QED
    BY <1>4, <2>1, <2>2
<1>6. RunTypeOK'
  <2>1. step' \in [Runs -> Steps]
    BY <1>1, <1>2 DEF RunTypeOK
  <2>2. QED
    BY <1>1, <1>2, <1>3, <1>5, <2>1 DEF RunTypeOK, cassetteVars, gitVars, eventVars, treeVars
<1>7. \A q \in Runs : IsFinal(q)' = IsFinal(q)
  <2>1. ~IsFinal(r) /\ manifest \in [Runs -> Manifests]
    BY <1>1, <1>2 DEF RInv, PhaseOK, RunTypeOK
  <2>2. \A q \in Runs : manifest'[q] = manifest[q] \/ (q = r /\ manifest'[q].status \in {"torn", "running"})
    <3>1. CASE manifest' = manifest
      BY <3>1
    <3>2. ASSUME NEW status \in {"torn", "running"},
                 manifest' = [manifest EXCEPT ![r] = [status |-> status, count |-> 0, cassette |-> Absent]]
          PROVE  \A q \in Runs : manifest'[q] = manifest[q] \/ (q = r /\ manifest'[q].status \in {"torn", "running"})
      BY <2>1, <3>2
    <3>3. QED
      BY <1>4, <3>1, <3>2
  <2>3. QED
    BY <2>1, <2>2 DEF IsFinal, Final
<1>8. settled' = FinalRuns'
  BY <1>1, <1>2, <1>7 DEF FinalRuns, pointerVars
<1>9. ASSUME NEW q \in Runs PROVE PhaseOK(q)' /\ OutcomeOK(q)'
  <2>1. PhaseOK(q) /\ OutcomeOK(q) /\ PhaseOK(r) /\ OutcomeOK(r)
    BY DEF RInv
  <2>2. CASE q # r
    <3>1. step'[q] = step[q] /\ exit'[q] = exit[q] /\ agent'[q] = agent[q] /\ manifest'[q] = manifest[q]
      BY <1>1, <1>2, <1>4, <2>2
         DEF Copy, OpenManifest, WriteManifest, Launch, LaunchFails, Reap, Interrupt, After, agentVars,
             RunTypeOK
    <3>2. QED
      BY <1>2, <1>7, <2>1, <3>1 DEF PhaseOK, OutcomeOK, pointerVars
  <2>3. CASE q = r
    <3>1. ~IsFinal(r)' /\ pc'[r] = "busy"
      BY <1>2, <1>7, <2>1 DEF PhaseOK, pointerVars
    <3>2. agent'[r] = "alive" => step'[r] = "wait"
      BY <1>1, <2>1 DEF Copy, OpenManifest, WriteManifest, Launch, LaunchFails, Reap, Interrupt, After, Go,
                agentVars, RunTypeOK, PhaseOK
    <3>3. exit'[r] = 0 => agent'[r] = "zero"
      BY <1>1, <2>1 DEF Copy, OpenManifest, WriteManifest, Launch, LaunchFails, Reap, Interrupt, After,
                agentVars, RunTypeOK, OutcomeOK
    <3>4. QED
      BY <2>3, <3>1, <3>2, <3>3 DEF PhaseOK, OutcomeOK, IsFinal, Final
  <2>4. QED
    BY <2>2, <2>3
<1>10. ASSUME NEW q \in Runs PROVE CassetteOK(q)' /\ CountOK(q)'
  <2>1. CassetteOK(q) /\ CountOK(q) /\ PhaseOK(r)
    BY DEF RInv
  <2>2. step'[q] = step[q] \/ (q = r /\ step[q] \notin {"count", "end", "entries", "replace"}
                                     /\ step'[q] \notin {"count", "end", "entries", "replace"})
    BY <1>1 DEF Copy, OpenManifest, WriteManifest, Launch, LaunchFails, Reap, Interrupt, After, Go,
                RunTypeOK, Steps
  <2>3. IsFinal(q)' => manifest'[q] = manifest[q] /\ q # r
    BY <1>1, <1>2, <1>4, <1>7, <2>1 DEF RunTypeOK, IsFinal, Final, PhaseOK
  <2>4. QED
    BY <1>2, <1>7, <2>1, <2>2, <2>3 DEF CassetteOK, CountOK, cassetteVars, eventVars, IsFinal
<1>11. QED
  BY <1>6, <1>8, <1>9, <1>10 DEF RInv

\* Steps of a runner that make the cassette and count the events.
LEMMA CassetteStep ==
    ASSUME RInv, PInv', NEW r \in Runs,
           \/ ReadEvents(r) \/ WriteTemporary(r) \/ ReplaceCassette(r) \/ CassetteFails(r)
           \/ CountLines(r)
    PROVE  RInv'
<1>1. TypeOK' /\ RunTypeOK /\ settled = FinalRuns /\ PhaseOK(r)
  BY DEF RInv, PInv, LatestReadsFinished
<1>2. /\ UNCHANGED << pointerVars, exit, manifest, gitVars, agentVars >>
      /\ pc[r] = "busy" /\ step[r] \in {"cassette", "entries", "replace", "count"}
  BY DEF ReadEvents, WriteTemporary, ReplaceCassette, CassetteFails, CountLines, Go, CassetteSteps
<1>3. PICK to \in {"entries", "replace", "count", "end"} : step' = [step EXCEPT ![r] = to]
  BY DEF ReadEvents, WriteTemporary, ReplaceCassette, CassetteFails, CountLines, Go
<1>4. RunTypeOK'
  <2>1. step' \in [Runs -> Steps]
    BY <1>1, <1>3 DEF RunTypeOK, Steps
  <2>2. count' \in [Runs -> Nat] /\ temporary' \in SUBSET Runs
    <3>1. count' = count \/ count' = [count EXCEPT ![r] = lines[r]]
      BY DEF ReadEvents, WriteTemporary, ReplaceCassette, CassetteFails, CountLines
    <3>2. temporary' \in {temporary, temporary \cup {r}, temporary \ {r}}
      BY DEF ReadEvents, WriteTemporary, ReplaceCassette, CassetteFails, CountLines, cassetteVars
    <3>3. QED
      BY <1>1, <3>1, <3>2 DEF RunTypeOK
  <2>3. entries' \in [Runs -> Nat]
    <3>1. entries' = entries \/ \E n \in Nat : entries' = [entries EXCEPT ![r] = n]
      BY <1>1 DEF ReadEvents, WriteTemporary, ReplaceCassette, CassetteFails, CountLines, RunTypeOK,
                  cassetteVars
    <3>2. QED
      BY <1>1, <3>1 DEF RunTypeOK
  <2>4. cassette' \in [Runs -> Nat \cup {Absent}] /\ summary' \in [Runs -> Nat \cup {Absent}]
    BY <1>1 DEF ReadEvents, WriteTemporary, ReplaceCassette, CassetteFails, CountLines, RunTypeOK,
                        cassetteVars
  <2>5. QED
    BY <1>1, <1>2, <2>1, <2>2, <2>3, <2>4 DEF RunTypeOK, gitVars, agentVars, eventVars, treeVars
<1>5. \A q \in Runs : IsFinal(q)' = IsFinal(q)
  BY <1>2 DEF IsFinal
<1>6. settled' = FinalRuns'
  BY <1>1, <1>2, <1>5 DEF FinalRuns, pointerVars
<1>7. ASSUME NEW q \in Runs PROVE PhaseOK(q)' /\ OutcomeOK(q)'
  <2>1. PhaseOK(q) /\ OutcomeOK(q)
    BY DEF RInv
  <2>2. step'[q] = step[q] \/ (q = r /\ step[q] # "wait")
    BY <1>1, <1>2, <1>3 DEF RunTypeOK
  <2>3. QED
    BY <1>1, <1>2, <1>5, <2>1, <2>2 DEF PhaseOK, OutcomeOK, IsFinal, agentVars, pointerVars
<1>8. ASSUME NEW q \in Runs, q # r PROVE CassetteOK(q)' /\ CountOK(q)'
  <2>1. CassetteOK(q) /\ CountOK(q)
    BY DEF RInv
  <2>2. /\ step'[q] = step[q] /\ count'[q] = count[q] /\ entries'[q] = entries[q]
        /\ (q \in temporary' <=> q \in temporary)
    BY <1>1, <1>3, <1>8 DEF ReadEvents, WriteTemporary, ReplaceCassette, CassetteFails, CountLines, RunTypeOK,
                        cassetteVars
  <2>3. cassette'[q] = cassette[q] /\ summary'[q] = summary[q]
    BY <1>1, <1>8 DEF ReadEvents, WriteTemporary, ReplaceCassette, CassetteFails, CountLines, RunTypeOK,
                        cassetteVars
  <2>4. QED
    BY <1>2, <1>5, <2>1, <2>2, <2>3 DEF CassetteOK, CountOK, agentVars, eventVars, IsFinal
<1>9. CassetteOK(r)' /\ CountOK(r)'
  <2>1. CassetteOK(r) /\ CountOK(r) /\ ~IsFinal(r)' /\ ~IsFinal(r)
    BY <1>1, <1>2, <1>5 DEF RInv, PhaseOK
  <2>2. /\ http[r] \in Nat /\ lines[r] \in Nat /\ entries[r] \in Nat
        /\ http' = http /\ lines' = lines /\ late' = late
    BY <1>1, <1>2 DEF RunTypeOK, agentVars, eventVars
  <2>3. CASE ReadEvents(r)
    <3>1. step'[r] = "entries" /\ entries'[r] = http[r] /\ UNCHANGED << count, cassette, summary, temporary >>
      BY <1>1, <2>3 DEF ReadEvents, Go, RunTypeOK
    <3>2. QED
      BY <2>1, <2>2, <2>3, <3>1 DEF CassetteOK, CountOK, ReadEvents, Go
  <2>4. CASE WriteTemporary(r)
    <3>1. /\ step'[r] = "replace" /\ step[r] = "entries"
          /\ UNCHANGED << count, cassette, summary, entries >>
      BY <1>1, <2>4 DEF WriteTemporary, Go, RunTypeOK
    <3>2. QED
      BY <2>1, <2>2, <3>1 DEF CassetteOK, CountOK
  <2>5. CASE ReplaceCassette(r)
    <3>1. /\ step'[r] = "count" /\ step[r] = "replace" /\ r \notin temporary' /\ count' = count
          /\ cassette'[r] = entries[r] /\ summary'[r] = entries[r]
      BY <1>1, <2>5 DEF ReplaceCassette, Go, RunTypeOK
    <3>2. QED
      BY <2>1, <2>2, <3>1 DEF CassetteOK, CountOK
  <2>6. CASE CassetteFails(r)
    <3>1. /\ step'[r] = "count" /\ step[r] \notin {"count", "end"} /\ count' = count
          /\ cassette' = cassette /\ summary'[r] = Absent
      BY <1>1, <2>6 DEF CassetteFails, CassetteSteps, Go, RunTypeOK
    <3>2. QED
      BY <2>1, <2>2, <3>1 DEF CassetteOK, CountOK
  <2>7. CASE CountLines(r)
    <3>1. /\ step'[r] = "end" /\ step[r] = "count" /\ count'[r] = lines[r]
          /\ UNCHANGED << entries, cassette, summary, temporary >>
      BY <1>1, <2>7 DEF CountLines, cassetteVars, Go, RunTypeOK
    <3>2. cassette[r] \in Nat \cup {Absent}
      BY <1>1 DEF RunTypeOK
    <3>3. QED
      BY <2>1, <2>2, <3>1, <3>2 DEF CassetteOK, CountOK, Absent
  <2>8. QED
    BY <2>3, <2>4, <2>5, <2>6, <2>7
<1>10. QED
  BY <1>4, <1>6, <1>7, <1>8, <1>9 DEF RInv

\* The final manifest is emptied and written: the run is settled.
LEMMA ManifestStep ==
    ASSUME RInv, PInv', NEW r \in Runs, ReopenManifest(r) \/ RewriteManifest(r)
    PROVE  RInv'
<1>1. TypeOK' /\ RunTypeOK /\ settled = FinalRuns /\ PhaseOK(r) /\ ~IsFinal(r) /\ step[r] = "end"
  BY DEF RInv, PInv, LatestReadsFinished, PhaseOK, ReopenManifest, RewriteManifest, Reopen, Rewrite, Goto
<1>2. UNCHANGED << step, exit, count, cassetteVars, gitVars, agentVars >>
  BY DEF ReopenManifest, RewriteManifest
<1>3. PICK m \in Manifests : manifest' = [manifest EXCEPT ![r] = m]
  <2>1. count[r] \in Nat /\ summary[r] \in Nat \cup {Absent}
    BY <1>1 DEF RunTypeOK
  <2>2. \E status \in {"torn"} \cup Final, n \in Nat, c \in Nat \cup {Absent} :
            manifest' = [manifest EXCEPT ![r] = [status |-> status, count |-> n, cassette |-> c]]
    BY <2>1 DEF ReopenManifest, RewriteManifest, SetManifest, Final
  <2>3. QED
    BY <2>2 DEF Manifests
<1>4. RunTypeOK'
  BY <1>1, <1>2, <1>3 DEF RunTypeOK, cassetteVars, gitVars, agentVars, eventVars, treeVars
<1>5. ASSUME NEW q \in Runs, q # r
      PROVE  /\ IsFinal(q)' = IsFinal(q)
             /\ (PhaseOK(q) /\ OutcomeOK(q) /\ CassetteOK(q) /\ CountOK(q))'
  <2>1. manifest'[q] = manifest[q]
    BY <1>1, <1>3, <1>5 DEF RunTypeOK
  <2>2. pc'[q] = pc[q]
    BY <1>1, <1>5 DEF ReopenManifest, RewriteManifest, Reopen, Rewrite, Goto, RunTypeOK, TypeOK
  <2>3. QED
    BY <1>2, <2>1, <2>2 DEF RInv, PhaseOK, OutcomeOK, CassetteOK, CountOK, IsFinal, cassetteVars, agentVars,
         eventVars
<1>6. agent[r] # "alive" /\ OutcomeOK(r) /\ CassetteOK(r) /\ CountOK(r)
  BY <1>1 DEF RInv, PhaseOK
<1>7. CASE ReopenManifest(r)
  <2>1. ~IsFinal(r)' /\ pc'[r] = "rewrite" /\ settled' = settled
    BY <1>1, <1>7 DEF ReopenManifest, SetManifest, Reopen, Goto, IsFinal, Final, RunTypeOK, TypeOK
  <2>2. settled' = FinalRuns'
    BY <1>1, <1>5, <2>1 DEF FinalRuns
  <2>3. (PhaseOK(r) /\ OutcomeOK(r) /\ CassetteOK(r) /\ CountOK(r))'
    BY <1>1, <1>2, <1>6, <2>1
       DEF PhaseOK, OutcomeOK, CassetteOK, CountOK, IsFinal, Final, cassetteVars, agentVars, eventVars
  <2>4. QED
    BY <1>4, <1>5, <2>2, <2>3 DEF RInv
<1>8. CASE RewriteManifest(r)
  <2>1. /\ IsFinal(r)' /\ pc'[r] = "check" /\ settled' = settled \cup {r}
        /\ manifest'[r].count = count[r] /\ manifest'[r].cassette = summary[r]
        /\ manifest'[r].status = "completed" => exit[r] = 0
        /\ manifest'[r].status = "failed" => exit[r] = 1
    BY <1>1, <1>8 DEF RewriteManifest, SetManifest, Rewrite, Goto, IsFinal, Final, RunTypeOK, TypeOK
  <2>2. settled' = FinalRuns'
    BY <1>1, <1>5, <2>1 DEF FinalRuns
  <2>3. (PhaseOK(r) /\ OutcomeOK(r) /\ CassetteOK(r) /\ CountOK(r))'
    BY <1>1, <1>2, <1>6, <2>1
       DEF PhaseOK, OutcomeOK, CassetteOK, CountOK, cassetteVars, agentVars, eventVars
  <2>4. QED
    BY <1>4, <1>5, <2>2, <2>3 DEF RInv
<1>9. QED
  BY <1>7, <1>8

\* Steps of update_latest_pointer and of lookups, and the loss of a runner.
LEMMA PointersOwnStep ==
    ASSUME RInv, PInv', UNCHANGED runVars,
           (\E r \in Runs : MovePointer(r) \/ LoseRunner(r)) \/ (\E d \in Readers : LookUp(d))
    PROVE  RInv'
<1>1. TypeOK' /\ TypeOK /\ RunTypeOK
  BY DEF RInv, PInv, LatestReadsFinished
<1>2. settled' = settled
  BY DEF MovePointer, LoseRunner, LookUp, Update, Check, Unlink, OpenLatest, OpenFails, WriteLatest, WriteFails,
         OpenTxt, WriteTxt, Lose, Lookup, Choose, Find, OpenPointer, ReadPointer, ReadManifest, Reset, Finish, SetReader,
         fileVars, readVars
<1>3. \A q \in Runs : pc'[q] = pc[q] \/ pc'[q] = "lost"
                       \/ (pc[q] \notin {"idle", "busy", "rewrite", "lost"} /\ pc'[q] \notin {"idle", "busy", "rewrite"})
  <2>1. ASSUME NEW r \in Runs, MovePointer(r)
        PROVE  \E to : /\ pc' = [pc EXCEPT ![r] = to] /\ to \notin {"idle", "busy", "rewrite"}
                       /\ pc[r] \notin {"idle", "busy", "rewrite", "lost"}
    BY <2>1 DEF MovePointer, Update, Check, Unlink, OpenLatest, OpenFails, WriteLatest, WriteFails, OpenTxt,
       WriteTxt, Goto
  <2>2. ASSUME NEW r \in Runs, LoseRunner(r)
        PROVE  pc' = [pc EXCEPT ![r] = "lost"]
    BY <2>2 DEF LoseRunner, Lose
  <2>3. ASSUME NEW d \in Readers, LookUp(d)
        PROVE  pc' = pc
    BY <2>3 DEF LookUp, Lookup, Choose, Find, OpenPointer, ReadPointer, ReadManifest, Reset, Finish, SetReader
  <2>4. QED
    BY <1>1, <2>1, <2>2, <2>3 DEF TypeOK
<1>4. RunTypeOK'
  BY <1>1 DEF RunTypeOK, runVars, cassetteVars, gitVars, agentVars, eventVars, treeVars
<1>5. settled' = FinalRuns'
  BY <1>2 DEF RInv, FinalRuns, IsFinal, runVars
<1>6. ASSUME NEW q \in Runs PROVE (PhaseOK(q) /\ OutcomeOK(q) /\ CassetteOK(q) /\ CountOK(q))'
  BY <1>3 DEF RInv, PhaseOK, OutcomeOK, CassetteOK, CountOK, IsFinal, runVars, cassetteVars, gitVars,
       agentVars, eventVars, treeVars
<1>7. QED
  BY <1>4, <1>5, <1>6 DEF RInv

\* An agent, or a process it left behind, records an event, or fails to.
LEMMA RecordStep ==
    ASSUME RInv, PInv', NEW r \in Runs, NEW type \in {"http", "other"}, AddLine(r, type),
           torn' \in [Runs -> {"whole", "cut", "broken"}]
    PROVE  RInv'
<1>1. TypeOK' /\ RunTypeOK
  BY DEF RInv, PInv, LatestReadsFinished
<1>2. UNCHANGED << runnerVars, agent, background, treeVars >>
  BY DEF AddLine
<1>3. \E grows \in {0, 1}, calls \in {0, 1} :
        /\ lines' = [lines EXCEPT ![r] = @ + grows]
        /\ http' = [http EXCEPT ![r] = @ + calls]
        /\ calls = 1 => grows = 1 /\ type = "http"
  <2>0. /\ lines[r] \in Nat /\ http[r] \in Nat
        /\ lines \in [Runs -> Nat] /\ http \in [Runs -> Nat]
    BY <1>1 DEF RunTypeOK
  <2>1. CASE torn[r] # "cut" /\ type = "http"
    <3>1. lines' = [lines EXCEPT ![r] = @ + 1] /\ http' = [http EXCEPT ![r] = @ + 1]
      BY <2>1 DEF AddLine
    <3>2. QED
      BY <2>1, <3>1
  <2>2. CASE torn[r] # "cut" /\ type # "http"
    <3>1. lines' = [lines EXCEPT ![r] = @ + 1] /\ http' = http
      BY <2>0, <2>2 DEF AddLine
    <3>2. http = [http EXCEPT ![r] = @ + 0]
      BY <2>0
    <3>3. QED
      BY <2>2, <3>1, <3>2
  <2>3. CASE torn[r] = "cut"
    <3>1. lines' = lines /\ http' = http
      BY <2>0, <2>3 DEF AddLine
    <3>2. http = [http EXCEPT ![r] = @ + 0] /\ lines = [lines EXCEPT ![r] = @ + 0]
      BY <2>0
    <3>3. QED
      BY <3>1, <3>2
  <2>4. QED
    BY <2>1, <2>2, <2>3
<1>4. late \subseteq late' /\ late' \subseteq Runs \X {"events", "http"}
  BY <1>1 DEF AddLine, RunTypeOK
<1>5. /\ step[r] = "end" => << r, "events" >> \in late'
      /\ type = "http" /\ step[r] \in {"entries", "replace", "count", "end"} => << r, "http" >> \in late'
  BY DEF AddLine
<1>6. RunTypeOK'
  <2>1. lines' \in [Runs -> Nat] /\ http' \in [Runs -> Nat]
    BY <1>1, <1>3 DEF RunTypeOK
  <2>2. QED
    BY <1>1, <1>2, <1>4, <2>1 DEF RunTypeOK, runnerVars, pointerVars, cassetteVars, gitVars, treeVars
<1>7. settled' = FinalRuns'
  BY <1>2 DEF RInv, FinalRuns, IsFinal, runnerVars, pointerVars
<1>8. ASSUME NEW q \in Runs PROVE PhaseOK(q)' /\ OutcomeOK(q)'
  BY <1>2 DEF RInv, PhaseOK, OutcomeOK, IsFinal, runnerVars, pointerVars
<1>9. ASSUME NEW q \in Runs PROVE CassetteOK(q)' /\ CountOK(q)'
  <2>1. /\ CassetteOK(q) /\ CountOK(q) /\ PhaseOK(q)
        /\ cassette[q] \in Nat \cup {Absent} /\ entries[q] \in Nat /\ count[q] \in Nat
        /\ step[q] \in Steps
    BY <1>1 DEF RInv, RunTypeOK
  <2>2. UNCHANGED << step, manifest, count, cassetteVars >>
    BY <1>2 DEF runnerVars
  <2>3. CASE q # r
    <3>1. lines'[q] = lines[q] /\ http'[q] = http[q]
      BY <1>1, <1>3, <2>3 DEF RunTypeOK
    <3>2. QED
      BY <1>4, <2>1, <2>2, <3>1 DEF CassetteOK, CountOK, IsFinal, cassetteVars
  <2>4. CASE q = r
    <3>1. /\ lines[q] \in Nat /\ http[q] \in Nat
          /\ \/ lines'[q] = lines[q] /\ http'[q] = http[q]
             \/ lines'[q] = lines[q] + 1 /\ http'[q] = http[q]
             \/ lines'[q] = lines[q] + 1 /\ type = "http" /\ http'[q] = http[q] + 1
      BY <1>1, <1>3, <2>4 DEF RunTypeOK
    <3>2. CassetteOK(q)'
      <4>1. cassette[q] = Absent \/ step[q] \in {"count", "end"}
        BY <2>1 DEF CassetteOK
      <4>2. cassette'[q] <= http'[q]
        BY <2>1, <2>2, <3>1 DEF CassetteOK, Absent, cassetteVars
      <4>3. step[q] \in {"entries", "replace"} =>
               entries'[q] <= http'[q] /\ (<< q, "http" >> \notin late' => entries'[q] = http'[q])
        BY <1>4, <1>5, <2>1, <2>2, <2>4, <3>1 DEF CassetteOK, cassetteVars
      <4>4. cassette[q] # Absent => q \notin temporary' /\ (<< q, "http" >> \notin late' => cassette'[q] = http'[q])
        BY <1>4, <1>5, <2>1, <2>2, <2>4, <3>1, <4>1 DEF CassetteOK, cassetteVars
      <4>5. QED
        BY <2>1, <2>2, <4>2, <4>3, <4>4 DEF CassetteOK, cassetteVars
    <3>3. CountOK(q)'
      BY <1>5, <2>1, <2>2, <2>4, <3>1 DEF CountOK, IsFinal, cassetteVars
    <3>4. QED
      BY <3>2, <3>3
  <2>5. QED
    BY <2>3, <2>4
<1>10. QED
  BY <1>6, <1>7, <1>8, <1>9 DEF RInv

\* An event was recorded, or the write of it failed.
LEMMA RecordsStep ==
    ASSUME RInv, PInv', NEW r \in Runs,
           RecordFails(r) \/ \E type \in {"http", "other"} : Record(r, type)
    PROVE  RInv'
<1>1. torn \in [Runs -> {"whole", "cut", "broken"}]
  BY DEF RInv, RunTypeOK
<1>2. torn' \in [Runs -> {"whole", "cut", "broken"}]
  BY <1>1 DEF RecordFails, Record
<1>3. PICK type \in {"http", "other"} : AddLine(r, type)
  BY DEF RecordFails, Record
<1>4. QED
  BY <1>2, <1>3, RecordStep

\* The other steps of the agent, of what it left behind and of the repository.
LEMMA AgentStep ==
    ASSUME RInv, PInv', NEW r \in Runs,
           \/ Detach(r)
           \/ \E new \in Trees(0 .. MaxHead, Kinds) : Edit(r, new)
           \/ \E how \in {"zero", "nonzero"} : AgentExit(r, how)
    PROVE  RInv'
<1>1. TypeOK' /\ RunTypeOK
  BY DEF RInv, PInv, LatestReadsFinished
<1>2. UNCHANGED << runnerVars, eventVars, work >>
  BY DEF Detach, Edit, AgentExit, treeVars
<1>3. agent' = agent \/ (agent[r] = "alive" /\ \E how \in {"zero", "nonzero"} : agent' = [agent EXCEPT ![r] = how])
  BY DEF Detach, Edit, AgentExit
<1>4. background' \in SUBSET Runs /\ moved' \in SUBSET Runs /\ switched' \in SUBSET Runs
  BY <1>1 DEF Detach, Edit, AgentExit, treeVars, RunTypeOK
<1>5. tree' \in [Runs -> Trees(0 .. MaxHead, Kinds)]
  BY <1>1 DEF Detach, Edit, AgentExit, treeVars, RunTypeOK
<1>6. RunTypeOK'
  <2>1. agent' \in [Runs -> {"none", "alive", "zero", "nonzero", "stopped"}]
    BY <1>1, <1>3 DEF RunTypeOK
  <2>2. QED
    BY <1>1, <1>2, <1>4, <1>5, <2>1 DEF RunTypeOK, runnerVars, pointerVars, cassetteVars, gitVars, eventVars
<1>7. settled' = FinalRuns'
  BY <1>2 DEF RInv, FinalRuns, IsFinal, runnerVars, pointerVars
<1>8. ASSUME NEW q \in Runs PROVE (PhaseOK(q) /\ OutcomeOK(q) /\ CassetteOK(q) /\ CountOK(q))'
  <2>1. agent'[q] = agent[q] \/ (agent[q] = "alive" /\ agent'[q] \in {"zero", "nonzero"})
    BY <1>1, <1>3 DEF RunTypeOK
  <2>2. QED
    BY <1>2, <2>1 DEF RInv, PhaseOK, OutcomeOK, CassetteOK, CountOK, IsFinal, runnerVars, pointerVars, cassetteVars,
         eventVars
<1>9. QED
  BY <1>6, <1>7, <1>8 DEF RInv

-----------------------------------------------------------------------------
\* Every step keeps the invariant.
LEMMA RunStep == RInv /\ [Next]_vars => RInv'
<1> SUFFICES ASSUME RInv, [Next]_vars PROVE RInv'
  OBVIOUS
<1>1. PInv'
  BY PointerKept DEF RInv
<1>2. ASSUME NEW r \in Runs, Runner(r) PROVE RInv'
  <2>1. CASE Make(r)
    <3>1. TypeOK' /\ TypeOK /\ settled' = settled /\ pc' = [pc EXCEPT ![r] = "busy"] /\ pc[r] = "idle"
      BY <1>1, <2>1 DEF Make, Begin, Goto, RInv, PInv, LatestReadsFinished
    <3>2. UNCHANGED runVars
      BY <2>1 DEF Make
    <3>3. RunTypeOK'
      BY <3>1, <3>2 DEF RInv, RunTypeOK, runVars, cassetteVars, gitVars, agentVars, eventVars, treeVars
    <3>4. settled' = FinalRuns'
      BY <3>1, <3>2 DEF RInv, FinalRuns, IsFinal, runVars
    <3>5. ASSUME NEW q \in Runs PROVE (PhaseOK(q) /\ OutcomeOK(q) /\ CassetteOK(q) /\ CountOK(q))'
      BY <3>1, <3>2 DEF RInv, TypeOK, PhaseOK, OutcomeOK, CassetteOK, CountOK, IsFinal, runVars, cassetteVars,
           gitVars, agentVars, eventVars, treeVars
    <3>6. QED
      BY <1>1, <3>3, <3>4, <3>5 DEF RInv
  <2>2. CASE MovePointer(r)
    BY <1>1, <2>2, PointersOwnStep DEF MovePointer
  <2>3. CASE ~Make(r) /\ ~MovePointer(r)
    BY <1>1, <1>2, <2>3, GitStep, EarlyStep, CassetteStep, ManifestStep DEF Runner
  <2>4. QED
    BY <2>1, <2>2, <2>3
<1>3. ASSUME NEW r \in Runs, Interrupt(r) PROVE RInv'
  BY <1>1, <1>3, EarlyStep
<1>4. ASSUME NEW r \in Runs, LoseRunner(r) PROVE RInv'
  BY <1>1, <1>4, PointersOwnStep DEF LoseRunner
<1>5. ASSUME NEW d \in Readers, LookUp(d) PROVE RInv'
  BY <1>1, <1>5, PointersOwnStep DEF LookUp
<1>6. ASSUME UNCHANGED vars PROVE RInv'
  BY <1>1, <1>6 DEF RInv, RunTypeOK, PInv, LatestReadsFinished, FinalRuns, PhaseOK, OutcomeOK, CassetteOK, CountOK,
       IsFinal, vars, pointerVars, runVars, cassetteVars, gitVars, agentVars, eventVars, treeVars
<1>7. QED
  BY <1>1, <1>2, <1>3, <1>4, <1>5, <1>6, RecordsStep, AgentStep DEF Next

\* The invariant holds in every state.
THEOREM RunInvariance == Spec => []RInv
BY RunInitial, RunStep, PTL DEF Spec

\* A run is called "completed" only when its agent ended with 0 (cli.py:168-178, 195).
THEOREM StatusCorrect == Spec => []StatusTruthful
<1>1. RInv => StatusTruthful
  BY DEF RInv, StatusTruthful, OutcomeOK
<1>2. QED
  BY <1>1, RunInvariance, PTL

\* What a final manifest counts was recorded, and what it leaves out came late
\* (cli.py:172, 198-201, http_cassette.py:229-259).
THEOREM CountCorrect == Spec => []CountExplained
<1>1. RInv => CountExplained
  <2> SUFFICES ASSUME RInv, NEW r \in Runs
               PROVE  /\ step[r] \in CassetteSteps \cup {"count", "end"} => agent[r] # "alive"
                      /\ IsFinal(r) =>
                            /\ manifest[r].count <= lines[r]
                            /\ << r, "events" >> \notin late => manifest[r].count = lines[r]
                            /\ manifest[r].cassette = cassette[r]
                            /\ cassette[r] <= manifest[r].count
                            /\ cassette[r] # Absent =>
                                  /\ r \notin temporary
                                  /\ << r, "http" >> \notin late => cassette[r] = http[r]
    BY DEF CountExplained
  <2>1. PhaseOK(r) /\ CassetteOK(r) /\ CountOK(r)
    BY DEF RInv
  <2>2. QED
    BY <2>1 DEF PhaseOK, CassetteOK, CountOK, CassetteSteps
<1>2. QED
  BY <1>1, RunInvariance, PTL

-----------------------------------------------------------------------------
(* The refinement: the steps of LatestPointer, seen through FinalRuns *)

SettledIsFinal == settled = FinalRuns

\* A step of a runner or of a lookup is the same step of the abstract pointer.
LEMMA RunnerMaps ==
    ASSUME SettledIsFinal, SettledIsFinal', NEW r \in Runs,
           Begin(r) \/ Reopen(r) \/ Rewrite(r) \/ Update(r) \/ Lose(r)
    PROVE  Pointer!PointerNext
<1> USE DEF SettledIsFinal, fileVars, readVars, Pointer!fileVars, Pointer!readVars, Goto, Pointer!Goto
<1>1. CASE Begin(r)
  BY <1>1 DEF Begin, Pointer!Begin, Pointer!PointerNext
<1>2. CASE Reopen(r)
  BY <1>2 DEF Reopen, Pointer!Reopen, Pointer!PointerNext
<1>3. CASE Rewrite(r)
  BY <1>3 DEF Rewrite, Pointer!Rewrite, Pointer!PointerNext
<1>4. CASE Lose(r)
  <2>1. Cardinality(lost) = Pointer!Cardinality(lost)
    BY Zenon DEF Cardinality, Pointer!Cardinality
  <2>2. QED
    BY <1>4, <2>1 DEF Lose, Pointer!Lose, Updating, Pointer!Updating, PointerSteps, Pointer!PointerSteps,
       Pointer!PointerNext
<1>5. CASE Update(r)
  <2> USE DEF Updating, Pointer!Updating, PointerSteps, Pointer!PointerSteps, HeldOpen, Pointer!HeldOpen
  <2>1. Update(r) => Pointer!Update(r)
    BY DEF Update, Pointer!Update, Check, Pointer!Check, Unlink, Pointer!Unlink, OpenLatest, Pointer!OpenLatest,
           WriteLatest, Pointer!WriteLatest, OpenTxt, Pointer!OpenTxt, WriteTxt, Pointer!WriteTxt,
           OpenFails, Pointer!OpenFails, WriteFails, Pointer!WriteFails, Causes, Pointer!Causes
  <2>2. QED
    BY <1>5, <2>1 DEF Pointer!PointerNext
<1>6. QED
  BY <1>1, <1>2, <1>3, <1>4, <1>5

LEMMA LookupMaps ==
    ASSUME SettledIsFinal, SettledIsFinal', NEW d \in Readers, Lookup(d)
    PROVE  Pointer!PointerNext
<1> USE DEF SettledIsFinal, fileVars, Pointer!fileVars, SetReader, Pointer!SetReader, Finish, Pointer!Finish
<1>1. ASSUME NEW kind \in {"cli", "dashboard"}, Choose(d, kind) PROVE Pointer!Choose(d, kind)
  BY <1>1 DEF Choose, Pointer!Choose, Updating, Pointer!Updating, PointerSteps, Pointer!PointerSteps,
     Settled, Pointer!Settled, Harmless, Pointer!Harmless
<1>2. Find(d) => Pointer!Find(d)
  BY DEF Find, Pointer!Find
<1>3. OpenPointer(d) => Pointer!OpenPointer(d)
  BY DEF OpenPointer, Pointer!OpenPointer
<1>4. ReadPointer(d) => Pointer!ReadPointer(d)
  BY DEF ReadPointer, Pointer!ReadPointer, Pointed, Pointer!Pointed
<1>5. ReadManifest(d) => Pointer!ReadManifest(d)
  BY DEF ReadManifest, Pointer!ReadManifest
<1>6. Reset(d) => Pointer!Reset(d)
  BY DEF Reset, Pointer!Reset
<1>7. Pointer!Lookup(d)
  BY <1>1, <1>2, <1>3, <1>4, <1>5, <1>6 DEF Lookup, Pointer!Lookup
<1>8. QED
  BY <1>7 DEF Pointer!PointerNext

\* A run implements LatestPointer: its final manifest is what is settled there, and
\* only the pointer's own steps touch the files the readers follow (cli.py:201-202).
THEOREM PointerImplemented == Spec => MovesPointer
<1>1. RunInit => Pointer!Init
  <2>1. RunInit => Init /\ FinalRuns = {}
    BY DEF RunInit, FinalRuns, IsFinal, Final
  <2>2. Init /\ FinalRuns = {} => Pointer!Init
    BY DEF Init, Pointer!Init
  <2>3. QED
    BY <2>1, <2>2
<1>2. RInv /\ RInv' /\ [Next]_vars => [Pointer!PointerNext]_(Pointer!pointerVars)
  <2> SUFFICES ASSUME RInv, RInv', [Next]_vars
               PROVE  Pointer!PointerNext \/ UNCHANGED Pointer!pointerVars
    OBVIOUS
  <2>1. SettledIsFinal /\ SettledIsFinal'
    BY DEF RInv, SettledIsFinal
  <2>2. CASE PointerNext
    BY <2>1, <2>2, RunnerMaps, LookupMaps DEF PointerNext
  <2>3. CASE UNCHANGED pointerVars
    BY <2>1, <2>3 DEF pointerVars, Pointer!pointerVars, fileVars, readVars, Pointer!fileVars, Pointer!readVars,
         SettledIsFinal
  <2>4. QED
    BY <2>2, <2>3, StepOfPointer
<1>3. QED
  BY <1>1, <1>2, RunInvariance, PTL DEF Spec, MovesPointer, Pointer!PointerSpec

-----------------------------------------------------------------------------
(* The repository *)

\* What the commands before `command' say, all together, of a tree that stands still;
\* "over" comes after the last one.
Partial(command, t) ==
    [repo |-> command # "inside",
     head |-> IF command \in {"inside", "head"} THEN NoHead ELSE t.head,
     status |-> IF command \in {"cached", "diff", "over"} THEN t.dirt ELSE {},
     staged |-> IF command \in {"diff", "over"} THEN t.dirt \cap {"staged"} ELSE {},
     unstaged |-> IF command = "over" THEN t.dirt \cap {"unstaged"} ELSE {},
     dirty |-> command = "over" /\ t.dirt # {},
     error |-> FALSE]

\* What a capture may say of tree t when `command' is the next to ask: of one whose
\* HEAD was at first where it is (`same'), and that stands still (`still').
CaptureOK(state, command, t, same, still) ==
    /\ state.dirty => state.status # {}
    /\ command # "over" => ~state.dirty
    /\ ~state.error =>
          /\ same /\ command \notin {"inside", "head"} => state.head = 0
          /\ command = "over" => (state.dirty <=> state.status # {})
          /\ still => state = Partial(command, t)

Asking(r) == IF step[r] \in GitCommands THEN step[r] ELSE "over"

\* What is known of the repository of run r and of the two captures: the first is made
\* before there is a manifest and an agent, the second after the agent's end.
RepoOK(r) ==
    /\ agent[r] = "none" => r \notin background /\ r \notin moved /\ r \notin switched
    /\ r \notin switched => tree[r].head \in {0, NoHead}
    /\ step[r] \in {"copy", "open", "write", "launch"} \/ manifest[r].status = "none"
          => agent[r] = "none"
    /\ step[r] \in {"copy", "open"} => manifest[r].status = "none"
    /\ step[r] \notin GitSteps \cup {"copy", "open"} => manifest[r].status # "none"
    /\ step[r] = "copy" => git[r].before = EmptyState
    /\ step[r] \in {"copy", "open", "write", "launch", "wait", "after"}
          \/ manifest[r].status = "none" => git[r].after = EmptyState
    /\ manifest[r].status = "none" /\ step[r] \in GitSteps
          => CaptureOK(git[r].before, Asking(r), tree[r], << r, "before" >> \notin strayed,
                       << r, "before" >> \notin strayed)
    /\ manifest[r].status # "none" \/ step[r] = "open"
          => /\ git[r].before.error \/ << r, "before" >> \in strayed \/ git[r].before.head = 0
             /\ gitFile[r].before = "whole"
    /\ manifest[r].status # "none" /\ step[r] \in GitSteps \cup CassetteSteps \cup {"count", "end"}
          => CaptureOK(git[r].after, Asking(r), tree[r],
                       << r, "after" >> \notin strayed /\ r \notin switched,
                       << r, "after" >> \notin strayed /\ r \notin moved)
    /\ step[r] \in CassetteSteps \cup {"count", "end"} => gitFile[r].after = "whole"

GInv == RInv /\ \A r \in Runs : RepoOK(r)

LEMMA PartialIsExact ==
    ASSUME NEW t
    PROVE  Partial("over", t) = Exact(t)
BY DEF Partial, Exact

LEMMA PartialType ==
    ASSUME NEW t \in Trees(0 .. MaxHead, Kinds), NEW command
    PROVE  Partial(command, t) \in Captures(0 .. MaxHead, Kinds)
<1>1. t.head \in (0 .. MaxHead) \cup {NoHead} /\ t.dirt \in SUBSET Kinds
  BY TreeFields
<1>2. QED
  BY <1>1 DEF Partial, Captures

LEMMA CapturesEqual ==
    ASSUME NEW a \in Captures(0 .. MaxHead, Kinds), NEW b \in Captures(0 .. MaxHead, Kinds),
           a.repo <=> b.repo, a.head = b.head, a.dirty <=> b.dirty, a.status = b.status,
           a.staged = b.staged, a.unstaged = b.unstaged, a.error <=> b.error
    PROVE  a = b
BY DEF Captures

\* One more command: a capture says no more than the commands before justify.
LEMMA AskKeeps ==
    ASSUME NEW t \in Trees(0 .. MaxHead, Kinds), NEW state \in Captures(0 .. MaxHead, Kinds),
           NEW command \in GitCommands, NEW result \in GitResults, NEW same \in BOOLEAN,
           NEW still \in BOOLEAN, CaptureOK(state, command, t, same, still),
           same => t.head \in {0, NoHead}
    PROVE  CaptureOK(Ask(state, command, t, result),
                     IF Stops(command, t, result) THEN "over" ELSE AfterCommand[command],
                     t, same, still)
<1> DEFINE next == IF Stops(command, t, result) THEN "over" ELSE AfterCommand[command]
           new == Ask(state, command, t, result)
           good == result = "ok" /\ t.repo
<1>1. command \in {"inside", "head", "status", "cached", "diff"}
  BY DEF GitCommands
<1>2. state.dirty = FALSE
  BY <1>1 DEF CaptureOK, Captures
<1>3. CASE good
  <2>0. same => t.head = 0
    <3>1. t.head \in 0 .. MaxHead
      BY <1>3, TreeFields
    <3>2. QED
      BY <3>1, RunAssumption DEF NoHead
  <2>1. new = Answered(state, command, t) /\ next = AfterCommand[command]
    BY <1>1, <1>3 DEF Ask, Stops, AfterCommand, GitResults
  <2>2. CASE command = "inside"
    <3>1. next = "head" /\ new = [state EXCEPT !.repo = TRUE]
      BY <2>1, <2>2 DEF Answered, AfterCommand
    <3>2. still /\ ~state.error => new = Partial("head", t)
      <4> SUFFICES ASSUME still, ~state.error
                   PROVE  new = Partial("head", t)
        OBVIOUS
      <4>1. /\ Partial("head", t) \in Captures(0 .. MaxHead, Kinds)
            /\ new \in Captures(0 .. MaxHead, Kinds)
        BY <2>2, PartialType, AskType
      <4>2. /\ new.repo /\ new.head = state.head /\ new.dirty = state.dirty
            /\ new.status = state.status /\ new.staged = state.staged
            /\ new.unstaged = state.unstaged /\ new.error = state.error
        BY <3>1 DEF Captures
      <4>3. state = Partial("inside", t)
        BY <2>2 DEF CaptureOK
      <4>4. QED
        BY <4>1, <4>2, <4>3, CapturesEqual, ZenonT(60) DEF Partial
    <3>3. QED
      BY <1>2, <3>1, <3>2 DEF CaptureOK, Captures
  <2>3. CASE command = "head"
    <3>1. next = "status" /\ new = [state EXCEPT !.head = t.head]
      BY <2>1, <2>3 DEF Answered, AfterCommand
    <3>2. still /\ ~state.error => new = Partial("status", t)
      BY <2>3, <3>1 DEF CaptureOK, Partial, Captures
    <3>3. QED
      BY <1>2, <2>0, <3>1, <3>2 DEF CaptureOK, Captures
  <2>4. CASE command = "status"
    <3>1. next = "cached" /\ new = [state EXCEPT !.status = t.dirt]
      BY <2>1, <2>4 DEF Answered, AfterCommand
    <3>2. still /\ ~state.error => new = Partial("cached", t)
      BY <2>4, <3>1 DEF CaptureOK, Partial, Captures
    <3>3. QED
      BY <1>2, <2>4, <3>1, <3>2 DEF CaptureOK, Captures
  <2>5. CASE command = "cached"
    <3>1. next = "diff" /\ new = [state EXCEPT !.staged = t.dirt \cap {"staged"}]
      BY <2>1, <2>5 DEF Answered, AfterCommand
    <3>2. still /\ ~state.error => new = Partial("diff", t)
      BY <2>5, <3>1 DEF CaptureOK, Partial, Captures
    <3>3. QED
      BY <1>2, <2>5, <3>1, <3>2 DEF CaptureOK, Captures
  <2>6. CASE command = "diff"
    <3>1. /\ next = "over"
          /\ new = [state EXCEPT !.unstaged = t.dirt \cap {"unstaged"}, !.dirty = state.status # {}]
      BY <2>1, <2>6 DEF Answered, AfterCommand
    <3>2. still /\ ~state.error => new = Partial("over", t)
      <4> SUFFICES ASSUME still, ~state.error
                   PROVE  new = Partial("over", t)
        OBVIOUS
      <4>1. /\ Partial("over", t) \in Captures(0 .. MaxHead, Kinds)
            /\ new \in Captures(0 .. MaxHead, Kinds)
        BY <2>6, PartialType, AskType
      <4>2. /\ new.repo = state.repo /\ new.head = state.head /\ (new.dirty <=> state.status # {})
            /\ new.status = state.status /\ new.staged = state.staged
            /\ new.unstaged = t.dirt \cap {"unstaged"} /\ new.error = state.error
        BY <3>1 DEF Captures
      <4>3. state = Partial("diff", t)
        BY <2>6 DEF CaptureOK
      <4>4. QED
        BY <4>1, <4>2, <4>3, CapturesEqual DEF Partial
    <3>3. QED
      BY <1>2, <2>6, <3>1, <3>2 DEF CaptureOK, Captures
  <2>7. QED
    BY <1>1, <2>2, <2>3, <2>4, <2>5, <2>6
<1>4. CASE ~good
  <2>1. CASE result = "abort"
    <3>1. new = [state EXCEPT !.error = TRUE]
      BY <1>4, <2>1 DEF Ask
    <3>2. QED
      BY <1>2, <3>1 DEF CaptureOK, Captures
  <2>2. CASE result # "abort"
    <3>1. new = [state EXCEPT !.error = TRUE, !.dirty = command = "diff" /\ state.status # {}]
      BY <1>4, <2>2 DEF Ask, Failed
    <3>2. new.error /\ new.status = state.status
          /\ (new.dirty <=> command = "diff" /\ state.status # {})
      BY <3>1 DEF Captures
    <3>3. command = "diff" => next = "over"
      BY DEF Stops
    <3>4. QED
      BY <3>2, <3>3 DEF CaptureOK
  <2>3. QED
    BY <2>1, <2>2
<1>5. QED
  BY <1>3, <1>4

LEMMA RepoInitial == RunInit => GInv
<1> SUFFICES ASSUME RunInit, NEW r \in Runs
             PROVE  RepoOK(r)
  BY RunInitial DEF GInv
<1>1. step[r] = "copy" /\ agent[r] = "none" /\ manifest[r].status = "none"
      /\ r \notin background /\ r \notin moved /\ r \notin switched
      /\ git[r].before = EmptyState /\ git[r].after = EmptyState
  BY DEF RunInit
<1>2. tree[r].head \in {0, NoHead}
  <2>1. tree[r] \in Trees({0}, Kinds)
    BY DEF RunInit
  <2>2. QED
    BY <2>1, TreeFields
<1>3. QED
  BY <1>1, <1>2 DEF RepoOK, GitSteps, GitCommands, CassetteSteps

\* RepoOK is about one run only.
LEMMA OtherRuns ==
    ASSUME GInv, NEW q \in Runs,
           UNCHANGED << step[q], manifest[q], agent[q], tree[q], git[q], gitFile[q] >>,
           q \in background' => q \in background, q \in moved' <=> q \in moved,
           q \in switched' <=> q \in switched,
           << q, "before" >> \in strayed' <=> << q, "before" >> \in strayed,
           << q, "after" >> \in strayed' <=> << q, "after" >> \in strayed
    PROVE  RepoOK(q)'
BY DEF GInv, RepoOK, Asking

\* What is known of a capture that has not begun.
LEMMA EmptyCapture ==
    ASSUME NEW t, NEW same, NEW still
    PROVE  CaptureOK(EmptyState, "inside", t, same, still)
BY DEF CaptureOK, EmptyState, Partial

LEMMA RepoCapture ==
    ASSUME GInv, NEW r \in Runs,
           \/ Copy(r) \/ After(r)
           \/ \E result \in GitResults : AskGit(r, result)
           \/ OpenGitFile(r) \/ WriteGitFile(r)
    PROVE  \A q \in Runs : RepoOK(q)'
<1> DEFINE which == Capture(r)
           first == manifest[r].status = "none"
<1>1. RunTypeOK /\ RepoOK(r)
  BY DEF GInv, RInv
<1>2. UNCHANGED << manifest, agentVars >>
  BY DEF Copy, After, AskGit, OpenGitFile, WriteGitFile
<1>3. ASSUME NEW q \in Runs, q # r
      PROVE  RepoOK(q)'
  <2>1. UNCHANGED << step[q], git[q], gitFile[q] >>
    BY <1>1, <1>3 DEF Copy, After, AskGit, OpenGitFile, WriteGitFile, Go, RunTypeOK, gitVars
  <2>2. \A w : << q, w >> \in strayed' <=> << q, w >> \in strayed
    BY <1>3 DEF Copy, After, AskGit, OpenGitFile, WriteGitFile, gitVars
  <2>3. QED
    BY <1>2, <2>1, <2>2, OtherRuns DEF agentVars, treeVars
<1>4. CASE Copy(r)
  <2>1. step[r] = "copy" /\ step'[r] = "inside" /\ UNCHANGED << git, gitFile, strayed >>
    BY <1>1, <1>4 DEF Copy, Go, RunTypeOK, gitVars
  <2>2. \A same, still : CaptureOK(EmptyState, "inside", tree[r], same, still)
    BY EmptyCapture
  <2>3. Asking(r)' = "inside"
    BY <2>1 DEF Asking, GitCommands
  <2>4. RepoOK(r)'
    BY <1>1, <1>2, <2>1, <2>2, <2>3
       DEF RepoOK, GitSteps, GitCommands, CassetteSteps, agentVars, treeVars
  <2>5. QED
    BY <1>3, <2>4
<1>5. CASE After(r)
  <2>1. step[r] = "after" /\ step'[r] = "inside" /\ UNCHANGED << git, gitFile, strayed >>
    BY <1>1, <1>5 DEF After, Go, RunTypeOK, gitVars
  <2>2. \A same, still : CaptureOK(EmptyState, "inside", tree[r], same, still)
    BY EmptyCapture
  <2>3. Asking(r)' = "inside"
    BY <2>1 DEF Asking, GitCommands
  <2>4. RepoOK(r)'
    BY <1>1, <1>2, <2>1, <2>2, <2>3
       DEF RepoOK, GitSteps, GitCommands, CassetteSteps, agentVars, treeVars
  <2>5. QED
    BY <1>3, <2>4
<1>6. ASSUME NEW result \in GitResults, AskGit(r, result)
      PROVE  RepoOK(r)'
  <2> DEFINE old == git[r][which]
             was == << r, which >> \notin strayed
             own == << r, which >> \notin strayed'
  <2>0. PICK found \in Found(tree[r], Above) :
            /\ Go(r, step[r], IF Stops(step[r], found, result) THEN "gitOpen" ELSE AfterCommand[step[r]])
            /\ git' = [git EXCEPT ![r][which] = Ask(@, step[r], found, result)]
    BY <1>6 DEF AskGit
  <2> DEFINE to == IF Stops(step[r], found, result) THEN "over" ELSE AfterCommand[step[r]]
             new == Ask(old, step[r], found, result)
  <2>1. step[r] \in GitCommands /\ which \in {"before", "after"} /\ gitFile' = gitFile
    BY <1>6 DEF AskGit, Capture
  <2>2. step'[r] \in GitSteps /\ Asking(r) = step[r] /\ Asking(r)' = to
    <3>1. step'[r] = IF Stops(step[r], found, result) THEN "gitOpen" ELSE AfterCommand[step[r]]
      BY <1>1, <2>0 DEF Go, RunTypeOK
    <3>2. Stops(step[r], found, result) \/ AfterCommand[step[r]] \in GitCommands
      BY <2>1 DEF Stops, AfterCommand, GitCommands
    <3>3. QED
      BY <2>1, <3>1, <3>2 DEF Asking, GitSteps, GitCommands
  <2>3. git'[r] = [git[r] EXCEPT ![which] = new]
    BY <1>1, <2>0 DEF RunTypeOK
  <2>4. old \in Captures(0 .. MaxHead, Kinds) /\ found \in Trees(0 .. MaxHead, Kinds)
    BY <1>1, <2>1, FoundType DEF RunTypeOK
  <2>5. /\ own => was /\ found = tree[r]
        /\ \A w \in {"before", "after"} : w # which =>
              (<< r, w >> \in strayed' <=> << r, w >> \in strayed)
    BY <1>6, <2>1 DEF AskGit, Found
  \* The answers of another repository show nothing, those of the run's own as before.
  <2>6. ASSUME NEW same \in BOOLEAN, NEW still \in BOOLEAN,
               CaptureOK(old, step[r], tree[r], was /\ same, was /\ still),
               same => tree[r].head \in {0, NoHead}
        PROVE  CaptureOK(new, to, tree[r], own /\ same, own /\ still)
    <3>1. CaptureOK(old, step[r], found, own /\ same, own /\ still)
      BY <2>5, <2>6 DEF CaptureOK
    <3>2. own /\ same => found.head \in {0, NoHead}
      BY <2>5, <2>6
    <3>3. (own /\ same) \in BOOLEAN /\ (own /\ still) \in BOOLEAN
      OBVIOUS
    <3> HIDE DEF own, old
    <3>4. CaptureOK(new, to, found, own /\ same, own /\ still)
      BY <2>1, <2>4, <3>1, <3>2, <3>3, AskKeeps
    <3> HIDE DEF new, to
    <3>5. own => found = tree[r]
      BY <2>5
    <3>6. QED
      BY <3>4, <3>5 DEF CaptureOK
  <2>7. CASE first
    <3>1. /\ which = "before" /\ agent[r] = "none" /\ tree[r].head \in {0, NoHead}
          /\ CaptureOK(git[r].before, step[r], tree[r], << r, "before" >> \notin strayed,
                       << r, "before" >> \notin strayed)
      BY <1>1, <2>1, <2>2, <2>7 DEF RepoOK, Capture, GitSteps
    <3>2. CaptureOK(new, to, tree[r], own, own)
      BY <2>6, <3>1 DEF CaptureOK
    <3>3. git'[r].before = new /\ git'[r].after = git[r].after
      BY <1>1, <2>3, <3>1 DEF RunTypeOK
    <3> HIDE DEF new, to
    <3>4. QED
      BY <1>1, <1>2, <2>1, <2>2, <2>5, <2>7, <3>1, <3>2, <3>3
         DEF RepoOK, GitSteps, GitCommands, CassetteSteps, agentVars, treeVars
  <2>8. CASE ~first
    <3>1. /\ which = "after" /\ (r \notin switched => tree[r].head \in {0, NoHead})
          /\ CaptureOK(git[r].after, step[r], tree[r],
                       << r, "after" >> \notin strayed /\ r \notin switched,
                       << r, "after" >> \notin strayed /\ r \notin moved)
      BY <1>1, <2>1, <2>2, <2>8 DEF RepoOK, Capture, GitSteps
    <3>2. CaptureOK(new, to, tree[r], own /\ r \notin switched, own /\ r \notin moved)
      BY <2>6, <3>1
    <3>3. git'[r].after = new /\ git'[r].before = git[r].before
      BY <1>1, <2>3, <3>1 DEF RunTypeOK
    <3> HIDE DEF new, to
    <3>4. QED
      BY <1>1, <1>2, <2>1, <2>2, <2>5, <2>8, <3>1, <3>2, <3>3
         DEF RepoOK, GitSteps, GitCommands, CassetteSteps, agentVars, treeVars
  <2>9. QED
    BY <2>7, <2>8
<1>7. CASE OpenGitFile(r)
  <2>1. step[r] = "gitOpen" /\ step'[r] = "gitWrite" /\ git' = git /\ strayed' = strayed
    BY <1>1, <1>7 DEF OpenGitFile, Go, RunTypeOK
  <2>2. ~first => gitFile'[r].before = gitFile[r].before
    BY <1>1, <1>7 DEF OpenGitFile, Capture, RunTypeOK
  <2>3. QED
    BY <1>1, <1>2, <1>3, <2>1, <2>2, ZenonT(60)
       DEF RepoOK, Asking, GitSteps, GitCommands, CassetteSteps, agentVars, treeVars
<1>8. CASE WriteGitFile(r)
  <2>1. step[r] = "gitWrite" /\ step'[r] = (IF first THEN "open" ELSE "cassette")
        /\ git' = git /\ strayed' = strayed
    BY <1>1, <1>8 DEF WriteGitFile, Go, Capture, RunTypeOK
  <2>2. IF first THEN gitFile'[r].before = "whole"
        ELSE gitFile'[r].after = "whole" /\ gitFile'[r].before = gitFile[r].before
    BY <1>1, <1>8 DEF WriteGitFile, Capture, RunTypeOK
  <2>3. first => git[r].before.error \/ << r, "before" >> \in strayed \/ git[r].before.head = 0
    BY <1>1, <2>1 DEF RepoOK, CaptureOK, Asking, GitSteps, GitCommands
  <2>4. Asking(r) = "over" /\ Asking(r)' = "over"
    BY <2>1 DEF Asking, GitCommands
  <2>5. ASSUME first PROVE RepoOK(r)'
    BY <1>1, <1>2, <2>1, <2>2, <2>3, <2>4, <2>5
       DEF RepoOK, GitSteps, GitCommands, CassetteSteps, agentVars, treeVars
  <2>6. ASSUME ~first PROVE RepoOK(r)'
    <3>1. /\ step'[r] = "cassette" /\ UNCHANGED << manifest, git, agent, background, tree, moved, switched, strayed >>
          /\ gitFile'[r].after = "whole" /\ gitFile'[r].before = gitFile[r].before
      BY <1>2, <2>1, <2>2, <2>6 DEF agentVars, treeVars
    <3>2. /\ agent[r] = "none" => r \notin background /\ r \notin moved /\ r \notin switched
          /\ r \notin switched => tree[r].head \in {0, NoHead}
          /\ agent[r] # "none" \/ manifest[r].status # "none"
          /\ git[r].before.error \/ << r, "before" >> \in strayed \/ git[r].before.head = 0
          /\ gitFile[r].before = "whole"
          /\ CaptureOK(git[r].after, "over", tree[r],
                       << r, "after" >> \notin strayed /\ r \notin switched,
                       << r, "after" >> \notin strayed /\ r \notin moved)
      BY <1>1, <2>1, <2>4, <2>6 DEF RepoOK, GitSteps
    <3>3. QED
      BY <2>4, <2>6, <3>1, <3>2 DEF RepoOK, GitSteps, GitCommands, CassetteSteps
  <2>7. QED
    BY <1>3, <2>5, <2>6
<1>9. QED
  BY <1>3, <1>4, <1>5, <1>6, <1>7, <1>8

\* The other steps of a runner ask nothing.
LEMMA RepoRunner ==
    ASSUME GInv, NEW r \in Runs,
           \/ OpenManifest(r) \/ WriteManifest(r)
           \/ Launch(r) \/ LaunchFails(r) \/ Reap(r) \/ Interrupt(r)
           \/ ReadEvents(r) \/ WriteTemporary(r) \/ ReplaceCassette(r) \/ CassetteFails(r)
           \/ CountLines(r) \/ ReopenManifest(r) \/ RewriteManifest(r)
    PROVE  \A q \in Runs : RepoOK(q)'
<1>1. RunTypeOK /\ RepoOK(r)
  BY DEF GInv, RInv
<1>2. UNCHANGED << gitVars, background, treeVars >>
  BY DEF OpenManifest, WriteManifest, Launch, LaunchFails, Reap, Interrupt, ReadEvents,
         WriteTemporary, ReplaceCassette, CassetteFails, CountLines, ReopenManifest,
         RewriteManifest, agentVars
<1>3. ASSUME NEW q \in Runs, q # r
      PROVE  RepoOK(q)'
  <2>1. UNCHANGED << step[q], manifest[q], agent[q] >>
    BY <1>1, <1>3
       DEF OpenManifest, WriteManifest, Launch, LaunchFails, Reap, Interrupt, ReadEvents,
           WriteTemporary, ReplaceCassette, CassetteFails, CountLines, ReopenManifest,
           RewriteManifest, agentVars, SetManifest, Go, RunTypeOK
  <2>2. QED
    BY <1>2, <2>1, OtherRuns DEF gitVars, treeVars
<1>4. /\ OpenManifest(r) => /\ step[r] = "open" /\ step'[r] = "write"
                           /\ manifest'[r].status # "none" /\ agent'[r] = agent[r]
      /\ WriteManifest(r) => /\ step[r] = "write" /\ step'[r] = "launch"
                            /\ manifest'[r].status # "none" /\ agent'[r] = agent[r]
  BY <1>1 DEF OpenManifest, WriteManifest, SetManifest, Go, RunTypeOK, agentVars
<1>5. /\ Launch(r) => /\ step[r] = "launch" /\ step'[r] = "wait" /\ agent'[r] = "alive"
                     /\ manifest' = manifest
      /\ LaunchFails(r) => /\ step[r] = "launch" /\ step'[r] = "after" /\ agent'[r] = agent[r]
                          /\ manifest' = manifest
      /\ Reap(r) \/ Interrupt(r) =>
            /\ step[r] = "wait" /\ step'[r] = "after" /\ agent'[r] \in {agent[r], "stopped"}
            /\ manifest' = manifest
  BY <1>1 DEF Launch, LaunchFails, Reap, Interrupt, Go, RunTypeOK, agentVars
<1>6. RepoOK(r)'
  <2> USE DEF RepoOK, Asking, GitSteps, GitCommands, CassetteSteps, gitVars, treeVars
  <2>1. CASE OpenManifest(r) \/ WriteManifest(r)
    <3>1. /\ \/ step[r] = "open" /\ step'[r] = "write"
             \/ step[r] = "write" /\ step'[r] = "launch"
          /\ manifest'[r].status # "none" /\ agent'[r] = agent[r]
      BY <1>4, <2>1
    <3>2. QED
      BY <1>1, <1>2, <3>1
  <2>2. CASE Launch(r) \/ LaunchFails(r) \/ Reap(r) \/ Interrupt(r)
    <3>1. /\ \/ step[r] = "launch" /\ step'[r] = "wait" /\ agent'[r] = "alive"
             \/ step[r] = "launch" /\ step'[r] = "after" /\ agent'[r] = agent[r]
             \/ step[r] = "wait" /\ step'[r] = "after" /\ agent'[r] \in {agent[r], "stopped"}
          /\ manifest' = manifest
      BY <1>5, <2>2
    <3>2. agent'[r] = "none" => agent[r] = "none"
      BY <3>1
    <3>3. QED
      BY <1>1, <1>2, <3>1, <3>2
  <2>3. CASE \/ ReadEvents(r) \/ WriteTemporary(r) \/ ReplaceCassette(r) \/ CassetteFails(r)
             \/ CountLines(r)
    <3>1. /\ step[r] \in {"cassette", "entries", "replace", "count"}
          /\ step'[r] \in {"entries", "replace", "count", "end"}
          /\ UNCHANGED << manifest, agent >>
      BY <1>1, <2>3 DEF ReadEvents, WriteTemporary, ReplaceCassette, CassetteFails, CountLines, Go,
         RunTypeOK, agentVars
    <3>2. QED
      BY <1>1, <1>2, <3>1
  <2>4. CASE ReopenManifest(r) \/ RewriteManifest(r)
    <3>1. /\ step[r] = "end" /\ step' = step /\ agent' = agent
          /\ manifest'[r].status # "none"
      <4>1. step[r] = "end"
        BY <2>4 DEF ReopenManifest, RewriteManifest, Rewrite, Goto, GInv, RInv, PhaseOK
      <4>2. QED
        BY <1>1, <2>4, <4>1 DEF ReopenManifest, RewriteManifest, SetManifest, RunTypeOK, agentVars
    <3>2. QED
      BY <1>1, <1>2, <3>1
  <2>5. QED
    BY <2>1, <2>2, <2>3, <2>4
<1>7. QED
  BY <1>3, <1>6

\* The agent moves the repository only while it may be seen to.
LEMMA RepoAgent ==
    ASSUME GInv, RInv', NEW r \in Runs,
           \/ Detach(r)
           \/ \E new \in Trees(0 .. MaxHead, Kinds) : Edit(r, new)
           \/ \E how \in {"zero", "nonzero"} : AgentExit(r, how)
    PROVE  \A q \in Runs : RepoOK(q)'
<1>1. RunTypeOK /\ RunTypeOK' /\ RepoOK(r)
  BY DEF GInv, RInv
<1>2. UNCHANGED << step, manifest, git, gitFile, strayed >>
  BY DEF Detach, Edit, AgentExit, runnerVars, gitVars
<1>3. ASSUME NEW q \in Runs, q # r
      PROVE  RepoOK(q)'
  <2>1. /\ UNCHANGED << agent[q], tree[q] >>
        /\ q \in background' => q \in background
        /\ q \in moved' <=> q \in moved
        /\ q \in switched' <=> q \in switched
    BY <1>1, <1>3 DEF Detach, Edit, AgentExit, treeVars, RunTypeOK
  <2>2. QED
    BY <1>2, <2>1, OtherRuns
<1>4. CASE Detach(r) \/ (\E how \in {"zero", "nonzero"} : AgentExit(r, how))
  <2>1. /\ UNCHANGED << tree, moved, switched >>
        /\ agent[r] = "none" <=> agent'[r] = "none"
        /\ agent[r] = "none" => (r \in background' => r \in background)
    BY <1>1, <1>4 DEF Detach, AgentExit, treeVars, RunTypeOK
  <2>2. QED
    BY <1>1, <1>2, <1>3, <2>1, ZenonT(60) DEF RepoOK, Asking
<1>5. ASSUME NEW new \in Trees(0 .. MaxHead, Kinds), Edit(r, new)
      PROVE  \A q \in Runs : RepoOK(q)'
  <2>1. agent[r] # "none" /\ agent' = agent /\ background' = background
    BY <1>1, <1>5 DEF Edit, Working, RepoOK
  <2>2. /\ step[r] \in {"wait", "after"} \cup GitSteps
        /\ step[r] \in GitSteps => r \in moved'
        /\ switched \subseteq switched' /\ tree'[r] = new
        /\ r \notin switched' => tree'[r].head = tree[r].head
    BY <1>1, <1>5 DEF Edit, RunTypeOK
  <2>3. r \notin switched' => tree'[r].head \in {0, NoHead}
    BY <1>1, <2>2 DEF RepoOK
  <2>4. manifest[r].status # "none"
    BY <1>1, <2>1 DEF RepoOK
  <2>5. step[r] \in GitSteps =>
           CaptureOK(git[r].after, Asking(r), tree'[r],
                     << r, "after" >> \notin strayed /\ r \notin switched',
                     << r, "after" >> \notin strayed /\ r \notin moved')
    <3>1. step[r] \in GitSteps =>
             CaptureOK(git[r].after, Asking(r), tree[r],
                       << r, "after" >> \notin strayed /\ r \notin switched,
                       << r, "after" >> \notin strayed /\ r \notin moved)
      BY <1>1, <2>4 DEF RepoOK
    <3>2. QED
      BY <2>2, <3>1 DEF CaptureOK
  <2>6. RepoOK(r)'
    <3>1. CASE step[r] \in GitSteps
      <4>1. Asking(r)' = Asking(r)
        BY <1>2 DEF Asking
      <4>2. QED
        BY <1>1, <1>2, <2>1, <2>3, <2>4, <2>5, <3>1, <4>1
           DEF RepoOK, GitSteps, GitCommands, CassetteSteps
    <3>2. CASE step[r] \in {"wait", "after"}
      BY <1>1, <1>2, <2>1, <2>3, <2>4, <3>2 DEF RepoOK, GitSteps, GitCommands, CassetteSteps
    <3>3. QED
      BY <2>2, <3>1, <3>2
  <2>7. QED
    BY <1>3, <2>6
<1>6. QED
  BY <1>4, <1>5

\* Steps that do not touch the run's repository, captures or manifest.
LEMMA RepoRest ==
    ASSUME GInv, UNCHANGED << step, manifest, agent, background, tree, moved, switched, gitVars >>
    PROVE  \A q \in Runs : RepoOK(q)'
BY OtherRuns DEF gitVars

LEMMA RepoStep == GInv /\ [Next]_vars => GInv'
<1> SUFFICES ASSUME GInv, [Next]_vars
             PROVE  GInv'
  OBVIOUS
<1>1. RInv'
  BY RunStep DEF GInv
<1>2. SUFFICES \A q \in Runs : RepoOK(q)'
  BY <1>1 DEF GInv
<1>3. ASSUME NEW r \in Runs,
             \/ Make(r) \/ MovePointer(r) \/ LoseRunner(r)
             \/ RecordFails(r) \/ \E type \in {"http", "other"} : Record(r, type)
      PROVE  \A q \in Runs : RepoOK(q)'
  BY <1>3, RepoRest DEF Make, MovePointer, LoseRunner, Record, RecordFails, AddLine, runVars,
     runnerVars, agentVars, treeVars
<1>4. ASSUME NEW d \in Readers, LookUp(d)
      PROVE  \A q \in Runs : RepoOK(q)'
  BY <1>4, RepoRest DEF LookUp, runVars, agentVars, treeVars
<1>5. CASE UNCHANGED vars
  BY <1>5, RepoRest DEF vars, runVars, agentVars, treeVars
<1>6. ASSUME NEW r \in Runs, Runner(r) \/ Interrupt(r)
      PROVE  \A q \in Runs : RepoOK(q)'
  BY <1>3, <1>6, RepoCapture, RepoRunner DEF Runner
<1>7. QED
  BY <1>1, <1>3, <1>4, <1>5, <1>6, RepoAgent DEF Next

\* What each capture says of the repository, in every state (git_state.py:86-191).
THEOREM RepoInvariance == Spec => []GInv
BY RepoInitial, RepoStep, PTL DEF Spec

\* What a final manifest says of the repository is so (git_state.py:86-191), whatever
\* commands fail and however the agent, or what it left behind, edits the repository
\* meanwhile; unless another one answered in its place (cli.py:77-79).
THEOREM GitCorrect == Spec => []GitTruthful
<1>1. GInv => GitTruthful
  <2> SUFFICES ASSUME GInv, NEW r \in FinalRuns
               PROVE  LET before == git[r].before
                          after == git[r].after
                          report == SummarizeStates(before, after)
                          own == {which \in {"before", "after"} : << r, which >> \notin strayed}
                      IN  /\ gitFile[r] = [before |-> "whole", after |-> "whole"]
                          /\ after.dirty => after.status # {}
                          /\ ~after.error =>
                                /\ report.dirtyAfter = (after.status # {})
                                /\ "after" \in own /\ r \notin moved => after = Exact(tree[r])
                          /\ ~before.error /\ ~after.error /\ own = {"before", "after"} =>
                                /\ report.headChanged => r \in switched
                                /\ tree[r].head # 0 /\ r \notin moved => report.headChanged
    BY DEF GitTruthful
  <2> DEFINE own == {which \in {"before", "after"} : << r, which >> \notin strayed}
  <2>1. r \in Runs /\ step[r] = "end" /\ manifest[r].status # "none" /\ RepoOK(r)
    BY DEF FinalRuns, IsFinal, Final, GInv, RInv, PhaseOK
  <2>2. /\ CaptureOK(git[r].after, "over", tree[r],
                     << r, "after" >> \notin strayed /\ r \notin switched,
                     << r, "after" >> \notin strayed /\ r \notin moved)
        /\ git[r].before.error \/ << r, "before" >> \in strayed \/ git[r].before.head = 0
        /\ gitFile[r].before = "whole" /\ gitFile[r].after = "whole"
    BY <2>1 DEF RepoOK, Asking, GitCommands, CassetteSteps
  <2>3. /\ gitFile[r] \in [{"before", "after"} -> {"none", "torn", "whole"}]
        /\ git[r].after.dirty \in BOOLEAN
    <3>1. /\ git[r].after \in Captures(0 .. MaxHead, Kinds)
          /\ gitFile[r] \in [{"before", "after"} -> {"none", "torn", "whole"}]
      BY <2>1 DEF GInv, RInv, RunTypeOK
    <3>2. QED
      BY <3>1 DEF Captures
  <2>4. gitFile[r] = [before |-> "whole", after |-> "whole"]
    BY <2>2, <2>3
  <2>5. "after" \in own <=> << r, "after" >> \notin strayed
    OBVIOUS
  <2>6. "before" \in own <=> << r, "before" >> \notin strayed
    OBVIOUS
  <2> HIDE DEF own
  <2>7. ~git[r].after.error =>
           /\ git[r].after.dirty = (git[r].after.status # {})
           /\ "after" \in own /\ r \notin moved => git[r].after = Exact(tree[r])
           /\ "after" \in own /\ r \notin switched => git[r].after.head = 0
    BY <2>2, <2>3, <2>5, PartialIsExact DEF CaptureOK
  <2>8. Exact(tree[r]).head = tree[r].head
    BY DEF Exact
  <2>9. /\ SummarizeStates(git[r].before, git[r].after).dirtyAfter = git[r].after.dirty
        /\ SummarizeStates(git[r].before, git[r].after).headChanged
              <=> git[r].before.head # git[r].after.head
    BY DEF SummarizeStates
  <2>10. git[r].after.dirty => git[r].after.status # {}
    BY <2>2 DEF CaptureOK
  <2>11. ~git[r].before.error /\ ~git[r].after.error /\ own = {"before", "after"} =>
           /\ git[r].before.head # git[r].after.head => r \in switched
           /\ tree[r].head # 0 /\ r \notin moved => git[r].before.head # git[r].after.head
    BY <2>2, <2>6, <2>7, <2>8
  <2>12. QED
    BY <2>4, <2>7, <2>9, <2>10, <2>11 DEF own
<1>2. QED
  BY <1>1, RepoInvariance, PTL

-----------------------------------------------------------------------------
(* Views *)

\* What no step of a run takes back: a final manifest, a cassette, a late event.
Lasts(r) ==
    /\ manifest[r].status # "none" => manifest'[r].status # "none"
    /\ IsFinal(r) => UNCHANGED << manifest[r], cassette[r] >>
    /\ cassette[r] # Absent => UNCHANGED cassette[r]
    /\ late \subseteq late'
    /\ torn[r] # "whole" => torn'[r] # "whole"

\* What a view has seen still holds of the run, file by file as they are read.
ViewOK(v) ==
    LET r == v.run
        final == v.manifest.status \in Final
    IN  /\ v.at = 0 => v.kind = "list"
        /\ v.at <= 1 => v.error = "none" /\ v.manifest = NoManifest
        /\ v.at <= 5 => v.entries = 0
        /\ v.settled => IsFinal(r)
        /\ v.settled /\ v.at > 1 /\ v.error = "none" => final
        /\ v.error # "none" => ~v.settled \/ torn[r] # "whole"
        /\ v.manifest.status # "torn"
        /\ v.manifest.status # "none" => manifest[r].status # "none"
        /\ final => v.manifest = manifest[r]
        /\ v.error = "none" =>
              /\ final /\ v.at > 2 =>
                    /\ v.manifest.count <= v.events
                    /\ << r, "events" >> \notin late => v.events = v.manifest.count
                    /\ cassette[r] <= v.http
              /\ v.at > 3 /\ v.manifest.status # "none" => "before" \in v.git
              /\ v.at > 4 /\ final => "after" \in v.git
              /\ v.at > 5 /\ final =>
                    v.entries = IF cassette[r] = Absent THEN 0
                                ELSE IF cassette[r] < Limit THEN cassette[r] ELSE Limit
              /\ v.entries > 0 =>
                    /\ cassette[r] # Absent
                    /\ v.entries = IF cassette[r] < Limit THEN cassette[r] ELSE Limit

VInv ==
    /\ GInv
    /\ ViewTypeOK
    /\ \A d \in Viewers : ViewOK(view[d])

\* Only the end of a run makes its manifest final, and nothing writes it after that.
LEMMA RunLasts ==
    ASSUME RInv, NEW r \in Runs, Runner(r)
    PROVE  \A q \in Runs : Lasts(q)
<1> USE DEF Lasts, Go, IsFinal
<1>1. RunTypeOK /\ PhaseOK(r) /\ CassetteOK(r)
  BY DEF RInv
<1>2. CASE \/ Make(r) \/ Copy(r)
           \/ \E result \in GitResults : AskGit(r, result)
           \/ OpenGitFile(r) \/ WriteGitFile(r)
           \/ Launch(r) \/ LaunchFails(r) \/ Reap(r) \/ After(r)
           \/ ReadEvents(r) \/ WriteTemporary(r) \/ CassetteFails(r) \/ CountLines(r)
           \/ MovePointer(r)
  <2>1. UNCHANGED << manifest, cassette, late, torn >>
    BY <1>2 DEF Make, Copy, AskGit, OpenGitFile, WriteGitFile, Launch, LaunchFails, Reap, After,
       ReadEvents, WriteTemporary, CassetteFails, CountLines, MovePointer, runVars, agentVars,
       cassetteVars, eventVars
  <2>2. QED
    BY <2>1
<1>3. CASE OpenManifest(r) \/ WriteManifest(r) \/ ReopenManifest(r) \/ RewriteManifest(r)
  <2>1. ~IsFinal(r)
    BY <1>1, <1>3 DEF OpenManifest, WriteManifest, ReopenManifest, RewriteManifest, Reopen, Rewrite,
       Goto, PhaseOK
  <2>2. \E s \in {"torn", "running", "completed", "failed"} : \E n, c : SetManifest(r, s, n, c)
    BY <1>3 DEF OpenManifest, WriteManifest, ReopenManifest, RewriteManifest
  <2>3. UNCHANGED << cassette, late, torn >>
    BY <1>3 DEF OpenManifest, WriteManifest, ReopenManifest, RewriteManifest, cassetteVars, agentVars,
       eventVars
  <2>4. QED
    BY <1>1, <2>1, <2>2, <2>3 DEF SetManifest, RunTypeOK
<1>4. CASE ReplaceCassette(r)
  <2>1. cassette[r] = Absent /\ ~IsFinal(r)
    BY <1>1, <1>4 DEF ReplaceCassette, CassetteOK, PhaseOK
  <2>2. UNCHANGED << manifest, late, torn >> /\ cassette' = [cassette EXCEPT ![r] = entries[r]]
    BY <1>4 DEF ReplaceCassette, agentVars, eventVars
  <2>3. QED
    BY <1>1, <2>1, <2>2 DEF RunTypeOK
<1>5. QED
  BY <1>2, <1>3, <1>4 DEF Runner

LEMMA NextLasts == RInv /\ [Next]_vars => \A q \in Runs : Lasts(q)
<1> SUFFICES ASSUME RInv, [Next]_vars
             PROVE  \A q \in Runs : Lasts(q)
  OBVIOUS
<1>1. ASSUME UNCHANGED << manifest, cassette >>, late \subseteq late',
             \A q \in Runs : torn[q] # "whole" => torn'[q] # "whole"
      PROVE  \A q \in Runs : Lasts(q)
  BY <1>1 DEF Lasts
<1>2. ASSUME NEW r \in Runs,
             \/ Interrupt(r) \/ LoseRunner(r) \/ Detach(r)
             \/ \E new \in Trees(0 .. MaxHead, Kinds) : Edit(r, new)
             \/ \E how \in {"zero", "nonzero"} : AgentExit(r, how)
      PROVE  UNCHANGED << manifest, cassette, late, torn >>
  BY <1>2 DEF Interrupt, LoseRunner, Detach, Edit, AgentExit,
     runVars, runnerVars, agentVars, cassetteVars, eventVars
<1>3. ASSUME NEW r \in Runs, RecordFails(r) \/ \E type \in {"http", "other"} : Record(r, type)
      PROVE  /\ UNCHANGED << manifest, cassette >> /\ late \subseteq late'
             /\ \A q \in Runs : torn[q] # "whole" => torn'[q] # "whole"
  <2>1. torn \in [Runs -> {"whole", "cut", "broken"}]
    BY DEF RInv, RunTypeOK
  <2>2. QED
    BY <1>3, <2>1 DEF Record, RecordFails, AddLine, runnerVars, cassetteVars
<1>4. ASSUME NEW d \in Readers, LookUp(d)
      PROVE  UNCHANGED << manifest, cassette, late, torn >>
  BY <1>4 DEF LookUp, runVars, agentVars, cassetteVars, eventVars
<1>5. CASE UNCHANGED vars
  BY <1>1, <1>5 DEF vars, runVars, agentVars, cassetteVars, eventVars
<1>6. QED
  BY <1>1, <1>2, <1>3, <1>4, <1>5, RunLasts DEF Next

\* A step of the run leaves what was seen true.
LEMMA ViewsLast ==
    ASSUME VInv, GInv', \A q \in Runs : Lasts(q), view' = view
    PROVE  VInv'
<1> SUFFICES ASSUME NEW d \in Viewers
             PROVE  ViewOK(view[d])'
  BY DEF VInv, ViewTypeOK
<1> DEFINE v == view[d]
           r == v.run
<1>1. r \in Runs /\ ViewOK(v) /\ v.entries \in Nat
  BY DEF VInv, ViewTypeOK
<1>2. Lasts(r)
  BY <1>1
<1>3. v.manifest.status \in Final => IsFinal(r)
  BY <1>1 DEF ViewOK, IsFinal
<1>4. QED
  BY <1>1, <1>2, <1>3 DEF ViewOK, Lasts, IsFinal

\* What the invariant of a run says of one whose manifest is final.
LEMMA FinalRun ==
    ASSUME RInv, GInv, NEW r \in Runs, IsFinal(r)
    PROVE  /\ manifest[r].count <= lines[r]
           /\ << r, "events" >> \notin late => manifest[r].count = lines[r]
           /\ manifest[r].cassette = cassette[r]
           /\ cassette[r] <= http[r]
           /\ gitFile[r].after = "whole"
           /\ gitFile[r].before = "whole"
           /\ agent[r] # "alive"
<1>1. PhaseOK(r) /\ CassetteOK(r) /\ CountOK(r) /\ RepoOK(r)
  BY DEF RInv, GInv
<1>2. step[r] = "end" /\ manifest[r].status # "none"
  BY <1>1 DEF PhaseOK, IsFinal, Final
<1>3. QED
  BY <1>1, <1>2 DEF PhaseOK, CassetteOK, CountOK, RepoOK

Views ==
    [run : Runs, kind : Kind, at : 0 .. 6, manifest : Manifests, events : Nat, http : Nat,
     git : SUBSET {"before", "after"}, entries : Nat, error : {"none", "INVALID_JSON"},
     settled : BOOLEAN]

LEMMA ViewType == ViewTypeOK <=> view \in [Viewers -> Views]
<1>1. Len(ReadOrder) + 1 = 6
  BY DEF ReadOrder
<1>2. QED
  BY <1>1 DEF ViewTypeOK, Views, Manifests

LEMMA FilesOf ==
    ASSUME NEW kind \in Kind
    PROVE  Files(kind) = IF kind = "export" THEN 5 ELSE 2
BY DEF Files, ReadOrder

\* What is read, and when.
LEMMA Turn ==
    ASSUME NEW d \in Viewers, NEW what, Reading(d, what), view[d] \in Views
    PROVE  /\ what = "manifest" <=> view[d].at = 1
           /\ what = "events" <=> view[d].at = 2
           /\ what = "before" <=> view[d].at = 3
           /\ what = "after" <=> view[d].at = 4
           /\ what = "cassette" <=> view[d].at = 5
           /\ view[d].at \in 1 .. (IF view[d].kind = "export" THEN 5 ELSE 2)
<1>1. view[d].at \in 1 .. 5 /\ view[d].at \in 1 .. (IF view[d].kind = "export" THEN 5 ELSE 2)
  BY FilesOf DEF Reading, Views
<1>2. QED
  BY <1>1 DEF Reading, ReadOrder

\* A view that has failed.
LEMMA ViewFails ==
    ASSUME VInv, NEW d \in Viewers, FailView(d), view[d].at > 0,
           ~IsFinal(view[d].run) \/ torn[view[d].run] # "whole", view[d].at <= Files(view[d].kind)
    PROVE  view' \in [Viewers -> Views] /\ ViewOK(view'[d])
<1> DEFINE v == view[d]
           w == [v EXCEPT !.error = "INVALID_JSON", !.at = Files(v.kind) + 1]
<1>1. v \in Views /\ view \in [Viewers -> Views] /\ ViewOK(v)
  BY ViewType DEF VInv
<1>2. view' = [view EXCEPT ![d] = w]
  BY <1>1 DEF FailView, Views
<1>3. Files(v.kind) \in {2, 5}
  BY <1>1, FilesOf DEF Views
<1>4. /\ w.run = v.run /\ w.kind = v.kind /\ w.at = Files(v.kind) + 1 /\ w.manifest = v.manifest
      /\ w.error = "INVALID_JSON" /\ (w.settled <=> v.settled) /\ w.entries = v.entries
  BY <1>1 DEF Views
<1>7. w \in Views
  <2>1. Files(v.kind) + 1 \in 0 .. 6
    BY <1>3
  <2>2. QED
    BY <1>1, <2>1 DEF Views
<1>5. ViewOK(w)
  BY <1>1, <1>3, <1>4 DEF ViewOK, Views
<1>6. QED
  BY <1>1, <1>2, <1>4, <1>5, <1>7

\* A view that goes on: what it has read is so when it reads it.
LEMMA ViewReads ==
    ASSUME VInv, NEW d \in Viewers, NEW w, Read(d, w), w \in Views, w.at \in 1 .. 5,
           ViewOK([w EXCEPT !.at = @ + 1])
    PROVE  view' \in [Viewers -> Views] /\ ViewOK(view'[d])
<1>1. view \in [Viewers -> Views]
  BY ViewType DEF VInv
<1>2. w.at + 1 \in 0 .. 6
  OBVIOUS
<1>3. [w EXCEPT !.at = @ + 1] \in Views
  BY <1>2 DEF Views
<1>4. QED
  BY <1>1, <1>3 DEF Read

LEMMA ViewFirst ==
    ASSUME VInv, NEW d \in Viewers, ViewManifest(d)
    PROVE  view' \in [Viewers -> Views] /\ ViewOK(view'[d])
<1> DEFINE v == view[d]
           r == v.run
           w == [v EXCEPT !.manifest = manifest[r]]
           u == [w EXCEPT !.at = @ + 1]
<1>1. v \in Views /\ ViewOK(v) /\ r \in Runs /\ manifest[r] \in Manifests /\ v.at = 1
  BY ViewType, Turn DEF VInv, GInv, RInv, RunTypeOK, ViewManifest, Views
<1>2. CASE manifest[r].status = "torn"
  <2>1. ~IsFinal(r) /\ v.at <= Files(v.kind) /\ FailView(d)
    BY <1>1, <1>2 DEF IsFinal, Final, ViewManifest, Reading
  <2>2. QED
    BY <1>1, <2>1, ViewFails
<1>3. CASE manifest[r].status # "torn"
  <2>1. w \in Views /\ w.at = 1
    BY <1>1 DEF Views
  <2>2. /\ u.run = r /\ u.at = 2 /\ u.manifest = manifest[r] /\ (u.settled <=> v.settled)
        /\ u.error = v.error /\ u.entries = v.entries
    BY <1>1 DEF Views
  <2>3. ViewOK(u)
    <3> HIDE DEF u, w
    <3>1. QED
      BY <1>1, <1>3, <2>2 DEF ViewOK, IsFinal, NoManifest, Manifests
  <2>4. Read(d, w)
    BY <1>3 DEF ViewManifest
  <2> HIDE DEF w
  <2>5. QED
    BY <2>1, <2>3, <2>4, ViewReads
<1>4. QED
  BY <1>2, <1>3

LEMMA ViewSecond ==
    ASSUME VInv, NEW d \in Viewers, ViewEvents(d)
    PROVE  view' \in [Viewers -> Views] /\ ViewOK(view'[d])
<1> DEFINE v == view[d]
           r == v.run
           w == [v EXCEPT !.events = lines[r], !.http = http[r]]
           u == [w EXCEPT !.at = @ + 1]
<1>1. v \in Views /\ ViewOK(v) /\ r \in Runs /\ lines[r] \in Nat /\ http[r] \in Nat /\ v.at = 2
  BY ViewType, Turn DEF VInv, GInv, RInv, RunTypeOK, ViewEvents, Views
<1>2. CASE torn[r] # "whole"
  <2>1. v.at <= Files(v.kind) /\ v.at > 0 /\ FailView(d)
    BY <1>1, <1>2 DEF ViewEvents, Reading
  <2>2. QED
    BY <1>2, <2>1, ViewFails
<1>3. CASE torn[r] = "whole"
  <2>1. w \in Views /\ w.at = 2
    BY <1>1 DEF Views
  <2>2. /\ u.run = r /\ u.at = 3 /\ u.manifest = v.manifest /\ (u.settled <=> v.settled)
        /\ u.error = v.error /\ u.entries = v.entries /\ u.events = lines[r] /\ u.http = http[r]
    BY <1>1 DEF Views
  <2>3. v.manifest.status \in Final => IsFinal(r)
    BY <1>1 DEF ViewOK, IsFinal
  <2>4. v.manifest.status \in Final =>
           /\ manifest[r].count <= lines[r]
           /\ << r, "events" >> \notin late => lines[r] = manifest[r].count
           /\ cassette[r] <= http[r]
    BY <1>1, <2>3, FinalRun DEF VInv, GInv
  <2>5. ViewOK(u)
    <3> HIDE DEF u, w
    <3>1. QED
      BY <1>1, <2>2, <2>4 DEF ViewOK
  <2>6. Read(d, w)
    BY <1>3 DEF ViewEvents
  <2> HIDE DEF w
  <2>7. QED
    BY <2>1, <2>5, <2>6, ViewReads
<1>4. QED
  BY <1>2, <1>3

LEMMA ViewThird ==
    ASSUME VInv, NEW d \in Viewers, NEW which \in {"before", "after"}, ViewGit(d, which)
    PROVE  view' \in [Viewers -> Views] /\ ViewOK(view'[d])
<1> DEFINE v == view[d]
           r == v.run
           file == gitFile[r][which]
           seen == IF file = "whole" \/ IsFinal(r) THEN v.git \cup {which} ELSE v.git
           w == [v EXCEPT !.git = seen]
           u == [w EXCEPT !.at = @ + 1]
<1>1. /\ v \in Views /\ ViewOK(v) /\ r \in Runs
      /\ which = "before" => v.at = 3
      /\ which = "after" => v.at = 4
  BY ViewType, Turn DEF VInv, ViewGit, Views
<1>2. v.manifest.status \in Final => IsFinal(r)
  BY <1>1 DEF ViewOK, IsFinal
<1>3. manifest[r].status # "none" => gitFile[r].before = "whole"
  BY <1>1 DEF VInv, GInv, RepoOK
<1>4. CASE file = "torn"
  <2>1. ~IsFinal(r)
    BY <1>1, <1>4, FinalRun DEF VInv, GInv
  <2>2. v.at <= Files(v.kind) /\ v.at > 0 /\ FailView(d)
    BY <1>1, <1>4 DEF ViewGit, Reading
  <2>3. QED
    BY <2>1, <2>2, ViewFails
<1>5. CASE file # "torn"
  <2>1. w \in Views /\ w.at = v.at /\ w.at \in 3 .. 4
    BY <1>1 DEF Views
  <2>2. /\ u.run = r /\ u.at = v.at + 1 /\ u.manifest = v.manifest /\ (u.settled <=> v.settled)
        /\ u.error = v.error /\ u.entries = v.entries /\ u.events = v.events /\ u.http = v.http
        /\ u.git = seen
    BY <1>1 DEF Views
  <2>3. v.manifest.status \in Final => seen = v.git \cup {which}
    BY <1>2
  <2>4. which = "before" /\ v.manifest.status # "none" => "before" \in seen
    BY <1>1, <1>3 DEF ViewOK
  <2>5. v.git \subseteq seen
    OBVIOUS
  <2>6. ViewOK(u)
    <3>1. (v.at = 3 /\ which = "before") \/ (v.at = 4 /\ which = "after")
      BY <1>1
    <3> HIDE DEF u, w, seen
    <3>2. QED
      BY <1>1, <2>2, <2>3, <2>4, <2>5, <3>1 DEF ViewOK
  <2>7. Read(d, w)
    BY <1>5 DEF ViewGit
  <2> HIDE DEF w
  <2>8. QED
    BY <2>1, <2>6, <2>7, ViewReads
<1>6. QED
  BY <1>4, <1>5

LEMMA ViewLast ==
    ASSUME VInv, NEW d \in Viewers, ViewCassette(d)
    PROVE  view' \in [Viewers -> Views] /\ ViewOK(view'[d])
<1> DEFINE v == view[d]
           r == v.run
           n == cassette[r]
           shown == IF n = Absent THEN 0 ELSE IF n < Limit THEN n ELSE Limit
           w == [v EXCEPT !.entries = shown]
           u == [w EXCEPT !.at = @ + 1]
<1>1. /\ v \in Views /\ ViewOK(v) /\ r \in Runs /\ v.at = 5
      /\ n \in Nat \cup {Absent} /\ shown \in Nat
  BY ViewType, Turn, LimitAssumption DEF VInv, GInv, RInv, RunTypeOK, ViewCassette, Views
<1>2. w \in Views /\ w.at = 5
  BY <1>1 DEF Views
<1>3. /\ u.run = r /\ u.at = 6 /\ u.manifest = v.manifest /\ (u.settled <=> v.settled)
      /\ u.error = v.error /\ u.entries = shown /\ u.events = v.events /\ u.http = v.http
      /\ u.git = v.git
  BY <1>1 DEF Views
<1>4. shown > 0 => n # Absent /\ shown = IF n < Limit THEN n ELSE Limit
  BY <1>1
<1>5. ViewOK(u)
  <2> HIDE DEF u, w
  <2>1. QED
    BY <1>1, <1>3, <1>4 DEF ViewOK
<1>6. Read(d, w)
  BY DEF ViewCassette
<1> HIDE DEF w
<1>7. QED
  BY <1>2, <1>5, <1>6, ViewReads

LEMMA ViewNew ==
    ASSUME VInv, NEW d \in Viewers, NEW r \in Runs, NEW kind \in Kind, ViewAgain(d, r, kind)
    PROVE  view' \in [Viewers -> Views] /\ ViewOK(view'[d])
<1> DEFINE new == NewView(r, kind)
<1>1. view \in [Viewers -> Views] /\ view' = [view EXCEPT ![d] = new]
  BY ViewType DEF VInv, ViewAgain
<1>2. new \in Views
  <2>1. IsFinal(r) \in BOOLEAN
    BY DEF IsFinal
  <2>2. QED
    BY <2>1 DEF NewView, Views, NoManifest, Manifests
<1>3. ViewOK(new)
  BY DEF NewView, ViewOK, NoManifest, Final
<1>4. QED
  BY <1>1, <1>2, <1>3

LEMMA ViewStep ==
    ASSUME VInv, NEW d \in Viewers, View(d)
    PROVE  VInv'
<1>1. view' \in [Viewers -> Views] /\ ViewOK(view'[d])
  BY ViewFirst, ViewSecond, ViewThird, ViewLast, ViewNew DEF View
<1>2. UNCHANGED vars
  BY DEF View, ViewManifest, ViewEvents, ViewCassette, ViewGit, ViewAgain, Read, FailView
<1>3. GInv'
  BY <1>2, RepoStep DEF VInv
<1>4. ViewTypeOK'
  <2>1. Len(ReadOrder) + 1 = 6
    BY DEF ReadOrder
  <2>2. QED
    BY <1>1, <2>1 DEF ViewTypeOK, Views, Manifests
<1>5. ASSUME NEW e \in Viewers
      PROVE  ViewOK(view[e])'
  <2>1. ViewOK(view'[e])
    <3>1. CASE e # d
      <4>1. view'[e] = view[e]
        BY <3>1, ViewType
           DEF VInv, View, ViewManifest, ViewEvents, ViewCassette, ViewGit, ViewAgain, Read, FailView
      <4>2. QED
        BY <4>1 DEF VInv
    <3>2. QED
      BY <1>1, <3>1
  <2>2. QED
    BY <1>2, <2>1 DEF ViewOK, IsFinal, vars, runVars, agentVars, cassetteVars, eventVars
<1>6. QED
  BY <1>3, <1>4, <1>5 DEF VInv

LEMMA ViewInitial == ViewInit => VInv
<1> SUFFICES ASSUME ViewInit
             PROVE  VInv
  OBVIOUS
<1>1. GInv /\ \A r \in Runs : ~IsFinal(r)
  BY RepoInitial DEF ViewInit, RunInit, IsFinal, Final
<1>2. ASSUME NEW r \in Runs
      PROVE  LET w == [NewView(r, "list") EXCEPT !.at = 0]
             IN  w \in Views /\ ViewOK(w)
  <2> DEFINE w == [NewView(r, "list") EXCEPT !.at = 0]
  <2>1. w = [run |-> r, kind |-> "list", at |-> 0, manifest |-> NoManifest, events |-> 0,
             http |-> 0, git |-> {}, entries |-> 0, error |-> "none", settled |-> IsFinal(r)]
    BY DEF NewView
  <2>2. IsFinal(r) \in BOOLEAN
    BY DEF IsFinal
  <2>3. w \in Views
    BY <2>1, <2>2 DEF Views, NoManifest, Manifests, Kind
  <2>4. ViewOK(w)
    BY <2>1 DEF ViewOK, NoManifest, Final
  <2>5. QED
    BY <2>3, <2>4
<1>3. /\ view \in [Viewers -> Views]
      /\ \A d \in Viewers : ViewOK(view[d])
  BY <1>2 DEF ViewInit
<1>4. QED
  BY <1>1, <1>3, ViewType DEF VInv

LEMMA ViewsStep == VInv /\ [ViewNext]_viewVars => VInv'
<1> SUFFICES ASSUME VInv, [ViewNext]_viewVars
             PROVE  VInv'
  OBVIOUS
<1>1. ASSUME [Next]_vars, view' = view
      PROVE  VInv'
  BY <1>1, RepoStep, NextLasts, ViewsLast DEF VInv, GInv
<1>2. QED
  BY <1>1, ViewStep DEF ViewNext, viewVars

\* Whoever looks changes nothing: what is proved of a run holds with viewers too.
LEMMA ViewersOnlyLook == ViewSpec => Spec
<1>1. ViewInit => RunInit
  BY DEF ViewInit
<1>2. [ViewNext]_viewVars => [Next]_vars
  <2>1. ASSUME NEW d \in Viewers, View(d)
        PROVE  UNCHANGED vars
    BY <2>1 DEF View, ViewManifest, ViewEvents, ViewCassette, ViewGit, ViewAgain, Read, FailView
  <2>2. QED
    BY <2>1 DEF ViewNext, viewVars
<1>3. QED
  BY <1>1, <1>2, PTL DEF ViewSpec, Spec

\* What each viewer has read was so when it read it (export.py:308-439).
THEOREM ViewInvariance == ViewSpec => []VInv
BY ViewInitial, ViewsStep, PTL DEF ViewSpec

\* Whoever shows a run shows it as it is, however the runner goes on meanwhile
\* (export.py:409-439, cli.py:138-165).
THEOREM ViewsCorrect == ViewSpec => []ViewsTruthful
<1>1. VInv => ViewsTruthful
  <2> SUFFICES ASSUME VInv, NEW d \in Viewers, Done(view[d])
               PROVE  LET v == view[d]
                          r == v.run
                      IN  /\ Shown(v) = "completed" => agent[r] = "zero"
                          /\ Shown(v) = "failed" /\ v.error = "none" /\ v.manifest.status # "none" =>
                                exit[r] # 0 /\ (agent[r] # "alive" \/ r \in lost)
                          /\ v.error # "none" => ~v.settled \/ torn[r] # "whole"
                          /\ v.settled /\ v.error = "none" => Shown(v) = manifest[r].status
    BY DEF VInv, ViewsTruthful
  <2> DEFINE v == view[d]
             r == v.run
  <2>1. v \in Views /\ r \in Runs /\ ViewOK(v) /\ OutcomeOK(r) /\ v.at > 1
    BY ViewType, FilesOf DEF VInv, GInv, RInv, Views, Done
  <2>2. v.manifest.status \in Final => IsFinal(r) /\ agent[r] # "alive"
    BY <2>1, FinalRun DEF ViewOK, IsFinal, VInv, GInv
  <2>3. v.error = "none" /\ v.manifest.status # "none" => Shown(v) = v.manifest.status
    BY DEF Shown
  <2>4. Shown(v) = "completed" => v.manifest.status = "completed"
    BY DEF Shown
  <2>5. QED
    BY <2>1, <2>2, <2>3, <2>4 DEF ViewOK, OutcomeOK, Final
<1>2. QED
  BY <1>1, ViewInvariance, PTL

\* The parts of an export agree although they were read one after the other
\* (export.py:308-335).
THEOREM ExportsCorrect == ViewSpec => []ExportAgrees
<1>1. VInv => ExportAgrees
  <2> SUFFICES ASSUME VInv, NEW d \in Viewers, Done(view[d]), view[d].kind = "export",
                      view[d].error = "none"
               PROVE  LET v == view[d]
                          r == v.run
                      IN  /\ v.manifest.status \in Final =>
                                /\ v.events >= v.manifest.count
                                /\ << r, "events" >> \notin late => v.events = v.manifest.count
                                /\ v.entries = (IF v.manifest.cassette = Absent THEN 0
                                                ELSE IF v.manifest.cassette < Limit
                                                     THEN v.manifest.cassette ELSE Limit)
                                /\ v.entries <= v.http
                                /\ v.git = {"before", "after"}
                          /\ v.entries > 0 =>
                                v.entries = (IF cassette[r] < Limit THEN cassette[r] ELSE Limit)
                          /\ v.manifest.status = "running" => "before" \in v.git
    BY DEF ExportAgrees
  <2> DEFINE v == view[d]
             r == v.run
  <2>1. v \in Views /\ r \in Runs /\ ViewOK(v) /\ v.at = 6
    BY ViewType, FilesOf DEF VInv, Views, Done
  <2>2. /\ v.events \in Nat /\ v.http \in Nat /\ v.manifest.count \in Nat /\ Limit \in Nat
        /\ cassette[r] \in Nat \cup {Absent} /\ v.git \subseteq {"before", "after"}
    BY <2>1, LimitAssumption DEF VInv, GInv, RInv, RunTypeOK, Views, Manifests
  <2>3. v.manifest.status \in Final => v.manifest.cassette = cassette[r]
    BY <2>1, FinalRun DEF ViewOK, IsFinal, VInv, GInv
  <2>4. QED
    BY <2>1, <2>2, <2>3 DEF ViewOK, Final
<1>2. QED
  BY <1>1, ViewInvariance, PTL
=============================================================================
