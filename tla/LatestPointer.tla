---------------------------- MODULE LatestPointer ----------------------------
(***************************************************************************)
(* The pointer runs/latest: every runner moves it to its own run when it   *)
(* has written the final manifest (traceseal/cli.py run_command and        *)
(* update_latest_pointer), and other commands follow it at the same time   *)
(* (cli.py resolve_run_dir, dashboard/export.py).  Several runs of one     *)
(* project may be under way at once.                                       *)
(*                                                                         *)
(* Path.write_text empties a file and then writes it, in two steps.  A     *)
(* file is named by the run that created it: `latest` says which file has  *)
(* the name runs/latest, `body` what each such file holds, and an open     *)
(* handle goes on referring to its file when the name is moved.  Opening   *)
(* and writing may fail, a failed write leaving a part of the id ("cut").  *)
(***************************************************************************)
EXTENDS Integers, FiniteSets

CONSTANTS
    Runs,       \* run ids
    Readers,    \* processes that look up the latest run
    MaxLost     \* bound: runners that are killed or raise in a behaviour

ASSUME ConstantsAssumption ==
    /\ IsFiniteSet(Runs)
    /\ Runs \cap {"none", "dir", "empty", "cut"} = {}
    /\ MaxLost \in Nat

VARIABLES
    pc,         \* where each runner is: before, in or after the pointer update
    settled,    \* runs whose final manifest is written
    latest,     \* the file linked as runs/latest, "none" or "dir"
    body,       \* what each file created under that name holds
    txt,        \* what runs/latest.txt holds, "none" when there is none
    handle,     \* the file each runner has open for writing
    reader,     \* the readers: [at, kind, file, handle, run, outcome]
    last,       \* history: the run that completed most recently
    lost,       \* history: runners killed or ended by an exception
    tainted,    \* history: what went on since the last pointer update began
    quiet       \* history: readers whose lookup no pointer update overlapped

fileVars == << latest, body, txt, handle, last, tainted >>
readVars == << reader, quiet >>
pointerVars == << pc, settled, fileVars, readVars, lost >>

PointerSteps == {"unlink", "openLatest", "writeLatest", "openTxt", "writeTxt"}

Updating(r) == pc[r] \in PointerSteps

\* What can happen to an update: another one at the same time, the end of its
\* runner, and runs/latest that cannot be removed, opened or written.
Causes == {"overlap", "lost", "refused", "unopened", "unwritten"}

TypeOK ==
    /\ pc \in [Runs -> {"idle", "busy", "rewrite", "check", "done", "lost"} \cup PointerSteps]
    /\ settled \in SUBSET Runs
    /\ latest \in {"none", "dir"} \cup Runs
    /\ body \in [Runs -> {"empty", "cut"} \cup Runs]
    /\ txt \in {"none", "empty", "cut"} \cup Runs
    /\ handle \in [Runs -> {"none"} \cup Runs]
    /\ reader \in [Readers ->
                     [at : {"idle", "chosen", "found", "reading", "manifest", "done"},
                      kind : {"cli", "dashboard"}, file : {"latest", "txt"},
                      handle : {"none"} \cup Runs, run : {"none"} \cup Runs,
                      outcome : {"none", "RUN_NOT_FOUND", "INVALID_RUN_ID", "INTERNAL_ERROR",
                                 "final", "unsettled"}]]
    /\ last \in {"none"} \cup Runs
    /\ lost \in SUBSET Runs
    /\ tainted \in SUBSET Causes
    /\ quiet \in SUBSET Readers

Init ==
    /\ pc = [r \in Runs |-> "idle"]
    /\ settled = {}
    /\ latest \in {"none", "dir"}
    /\ body = [r \in Runs |-> "empty"]
    /\ txt = "none"
    /\ handle = [r \in Runs |-> "none"]
    /\ reader = [d \in Readers |->
                   [at |-> "idle", kind |-> "cli", file |-> "latest",
                    handle |-> "none", run |-> "none", outcome |-> "none"]]
    /\ last = "none"
    /\ lost = {}
    /\ tainted = {}
    /\ quiet = {}

Goto(r, from, to) == pc[r] = from /\ pc' = [pc EXCEPT ![r] = to]

\* Some process has the file open.
HeldOpen(file) ==
    \/ \E q \in Runs : handle[q] = file
    \/ \E d \in Readers : reader[d].handle = file

-----------------------------------------------------------------------------
(* Faulty variants of steps below, used by no specification: each shows     *)
(* which property such a bug would break.                                   *)

\* The pointer is moved before the manifest is final.
ReopenLater(r) ==
    /\ Goto(r, "busy", "check")
    /\ UNCHANGED << settled, fileVars, readVars, lost >>

\* A file that is there is not looked at again: the pointer never moves.
CheckOnce(r) ==
    /\ Goto(r, "check", CASE latest = "dir" -> "openTxt"
                          [] latest = "none" -> "openLatest"
                          [] OTHER -> "done")
    /\ tainted' = IF \E q \in Runs \ {r} : Updating(q) THEN tainted \cup {"overlap"} ELSE {}
    /\ last' = IF latest \in Runs THEN r ELSE last
    /\ quiet' = {}
    /\ UNCHANGED << settled, latest, body, txt, handle, reader, lost >>

\* After the old name is removed, only latest.txt is written.
UnlinkForTxt(r) ==
    /\ Goto(r, "unlink", "openTxt")
    /\ latest' \in {"none", IF HeldOpen(latest) THEN latest ELSE "none"}
    /\ UNCHANGED << settled, body, txt, handle, last, tainted, readVars, lost >>

-----------------------------------------------------------------------------
(* The runner before the pointer update *)

\* The run starts: what it does until its manifest is rewritten is the subject
\* of RunLifecycle.
Begin(r) ==
    /\ Goto(r, "idle", "busy")
    /\ UNCHANGED << settled, fileVars, readVars, lost >>

\* The last write_json of the manifest: emptied, then written.
Reopen(r) ==
    /\ Goto(r, "busy", "rewrite")
    /\ UNCHANGED << settled, fileVars, readVars, lost >>

Rewrite(r) ==
    /\ Goto(r, "rewrite", "check")
    /\ settled' = settled \cup {r}
    /\ UNCHANGED << fileVars, readVars, lost >>

-----------------------------------------------------------------------------
(* update_latest_pointer *)

\* The tests of `latest`: from here on the runner is changing the pointer.
Check(r) ==
    /\ Goto(r, "check", CASE latest = "dir" -> "openTxt"
                          [] latest = "none" -> "openLatest"
                          [] OTHER -> "unlink")
    /\ tainted' = IF \E q \in Runs \ {r} : Updating(q) THEN tainted \cup {"overlap"} ELSE {}
    /\ quiet' = {}
    /\ UNCHANGED << settled, latest, body, txt, handle, last, reader, lost >>

\* latest.unlink(): an OSError, because the name is gone or because somebody has
\* the file open, leads to latest.txt.  Windows does not unlink a file that Python
\* has open, other systems do; both outcomes are possible here.
Unlink(r) ==
    /\ pc[r] = "unlink"
    /\ \/ /\ latest = "none"
          /\ Goto(r, "unlink", "openTxt")
          /\ UNCHANGED << latest, tainted >>
       \/ /\ latest # "none" /\ HeldOpen(latest)
          /\ Goto(r, "unlink", "openTxt")
          /\ tainted' = tainted \cup {"refused"}
          /\ UNCHANGED latest
       \/ /\ latest # "none"
          /\ Goto(r, "unlink", "openLatest")
          /\ latest' = "none"
          /\ UNCHANGED tainted
    /\ UNCHANGED << settled, body, txt, handle, last, readVars, lost >>

\* write_text opens the file that has the name, or creates one, and empties it;
\* an OSError leads to latest.txt here too, with runs/latest as it was.
OpenLatest(r) ==
    /\ Goto(r, "openLatest", "writeLatest")
    /\ latest' = IF latest = "none" THEN r ELSE latest
    /\ body' = [body EXCEPT ![latest'] = "empty"]
    /\ handle' = [handle EXCEPT ![r] = latest']
    /\ UNCHANGED << settled, txt, last, tainted, readVars, lost >>

OpenFails(r) ==
    /\ Goto(r, "openLatest", "openTxt")
    /\ tainted' = tainted \cup {"unopened"}
    /\ UNCHANGED << settled, latest, body, txt, handle, last, readVars, lost >>

\* The id goes to the open file, whatever has its name by now; or a part of it, or
\* nothing, and then to latest.txt.
WriteLatest(r) ==
    /\ Goto(r, "writeLatest", "done")
    /\ body' = [body EXCEPT ![handle[r]] = r]
    /\ handle' = [handle EXCEPT ![r] = "none"]
    /\ last' = r
    /\ UNCHANGED << settled, latest, txt, tainted, readVars, lost >>

WriteFails(r) ==
    /\ Goto(r, "writeLatest", "openTxt")
    /\ body' \in {body, [body EXCEPT ![handle[r]] = "cut"]}
    /\ handle' = [handle EXCEPT ![r] = "none"]
    /\ tainted' = tainted \cup {"unwritten"}
    /\ UNCHANGED << settled, latest, txt, last, readVars, lost >>

OpenTxt(r) ==
    /\ Goto(r, "openTxt", "writeTxt")
    /\ txt' = "empty"
    /\ UNCHANGED << settled, latest, body, handle, last, tainted, readVars, lost >>

WriteTxt(r) ==
    /\ Goto(r, "writeTxt", "done")
    /\ txt' = r
    /\ last' = r
    /\ UNCHANGED << settled, latest, body, handle, tainted, readVars, lost >>

\* The runner is killed, or a step that may raise does (copy_workspace, a
\* snapshot, a write of latest.txt): nothing after it runs.
Lose(r) ==
    /\ pc[r] \notin {"idle", "done", "lost"}
    /\ Cardinality(lost) < MaxLost
    /\ lost' = lost \cup {r}
    /\ pc' = [pc EXCEPT ![r] = "lost"]
    /\ handle' = [handle EXCEPT ![r] = "none"]
    /\ tainted' = IF Updating(r) THEN tainted \cup {"lost"} ELSE tainted
    /\ body' \in {body} \cup (IF pc[r] = "writeLatest"
                             THEN {[body EXCEPT ![handle[r]] = "cut"]} ELSE {})
    /\ txt' \in {txt} \cup (IF pc[r] = "writeTxt" THEN {"cut"} ELSE {})
    /\ UNCHANGED << settled, latest, last, readVars >>

-----------------------------------------------------------------------------
(* Looking up the latest run: resolve_run_dir of the CLI takes runs/latest  *)
(* only; _read_latest_run_id of the dashboard falls back to latest.txt.     *)

\* What may have happened to the last update and leaves a pointer that works: with no
\* runs/latest the dashboard, but not the CLI, goes on to latest.txt.
Harmless(kind) == IF kind = "dashboard" THEN {"unopened"} ELSE {}

Settled == ~ \E r \in Runs : Updating(r)

SetReader(d, r) ==
    /\ reader' = [reader EXCEPT ![d] = r]
    /\ UNCHANGED << pc, settled, fileVars, lost >>

\* The dashboard's choice of the file; the CLI has none.  (A directory
\* runs/latest is taken by the CLI as the run itself: that lookup is left out.)
Choose(d, kind) ==
    /\ reader[d].at = "idle"
    /\ kind = "cli" => latest # "dir"
    /\ SetReader(d, [at |-> "chosen", kind |-> kind,
                     file |-> IF kind = "dashboard" /\ latest \in {"none", "dir"} /\ txt # "none"
                              THEN "txt" ELSE "latest",
                     handle |-> "none", run |-> "none", outcome |-> "none"])
    /\ quiet' = IF last # "none" /\ tainted \subseteq Harmless(kind) /\ Settled
                THEN quiet \cup {d} ELSE quiet \ {d}

Finish(d, outcome) ==
    SetReader(d, [reader[d] EXCEPT !.at = "done", !.handle = "none", !.outcome = outcome])

\* is_file() of the chosen file.
Find(d) ==
    /\ reader[d].at = "chosen"
    /\ IF reader[d].file = "latest" /\ latest \in {"none", "dir"}
       THEN Finish(d, "RUN_NOT_FOUND")
       ELSE SetReader(d, [reader[d] EXCEPT !.at = "found"])
    /\ UNCHANGED quiet

\* read_text opens the file, which may be gone since.
OpenPointer(d) ==
    /\ reader[d].at = "found"
    /\ IF reader[d].file = "latest" /\ latest \in {"none", "dir"}
       THEN Finish(d, "INTERNAL_ERROR")
       ELSE SetReader(d, [reader[d] EXCEPT
                            !.at = "reading",
                            !.handle = IF reader[d].file = "latest" THEN latest ELSE "none"])
    /\ UNCHANGED quiet

Pointed(d) == IF reader[d].file = "txt" THEN txt ELSE body[reader[d].handle]

\* ... and reads it: an empty pointer names no run, a part of an id none that exists.
ReadPointer(d) ==
    /\ reader[d].at = "reading"
    /\ IF Pointed(d) \in {"empty", "cut"}
       THEN \/ Finish(d, "INVALID_RUN_ID")
            \/ Pointed(d) = "cut" /\ Finish(d, "RUN_NOT_FOUND")
       ELSE SetReader(d, [reader[d] EXCEPT !.at = "manifest", !.handle = "none",
                                           !.run = Pointed(d)])
    /\ UNCHANGED quiet

\* The manifest of the run found.
ReadManifest(d) ==
    /\ reader[d].at = "manifest"
    /\ Finish(d, IF reader[d].run \in settled THEN "final" ELSE "unsettled")
    /\ UNCHANGED quiet

\* The process ends; the next lookup is another one.
Reset(d) ==
    /\ reader[d].at = "done"
    /\ SetReader(d, [reader[d] EXCEPT !.at = "idle", !.kind = "cli", !.file = "latest",
                                      !.run = "none", !.outcome = "none"])
    /\ quiet' = quiet \ {d}

-----------------------------------------------------------------------------
Update(r) ==
    \/ Check(r) \/ Unlink(r) \/ OpenLatest(r) \/ OpenFails(r) \/ WriteLatest(r)
    \/ WriteFails(r) \/ OpenTxt(r) \/ WriteTxt(r)

Lookup(d) ==
    \/ \E kind \in {"cli", "dashboard"} : Choose(d, kind)
    \/ Find(d) \/ OpenPointer(d) \/ ReadPointer(d) \/ ReadManifest(d) \/ Reset(d)

PointerNext ==
    \/ \E r \in Runs : Begin(r) \/ Reopen(r) \/ Rewrite(r) \/ Update(r) \/ Lose(r)
    \/ \E d \in Readers : Lookup(d)

PointerSpec == Init /\ [][PointerNext]_pointerVars

-----------------------------------------------------------------------------
(* Properties *)

\* Whoever follows the pointer to a run finds its final manifest: neither one of
\* a run that is going on nor an empty file (cli.py:201-202).
LatestReadsFinished ==
    /\ TypeOK
    /\ \A d \in Readers :
          reader[d].at = "done" /\ reader[d].run # "none" => reader[d].outcome = "final"

\* The run the dashboard would find if nothing moved while it looked.
Resolved == IF latest \in Runs THEN body[latest] ELSE txt

\* Between pointer updates the dashboard finds the run that completed last,
\* whatever went wrong in earlier updates: one update on its own repairs the pointer,
\* unless it is cut off or overlapped, or a runs/latest that it could not remove, or
\* could not write to the end, stays in the way of latest.txt.  One that could not be
\* opened is not in the way (cli.py:90-100, export.py:365-374).
PointerIsLast ==
    Settled /\ tainted \subseteq Harmless("dashboard") /\ last # "none" => Resolved = last

\* A lookup that no pointer update overlaps, and that follows a sound one, finds
\* a run, by the CLI's way as well as the dashboard's; the CLI, which does not look at
\* latest.txt, only if runs/latest could be opened (cli.py:45-59, 90-100).
ReadersFindARun ==
    \A d \in quiet :
        reader[d].outcome \notin {"RUN_NOT_FOUND", "INVALID_RUN_ID", "INTERNAL_ERROR"}

\* docs/dashboard-data-contract.md:27: "`dashboard-data latest` describes the
\* latest available run", at least when updates neither overlap nor are cut off.
LatestIsLatest ==
    Settled /\ tainted \subseteq {"refused"} /\ last # "none" => Resolved = last
=============================================================================
