------------------------------ MODULE RunViews ------------------------------
(***************************************************************************)
(* The commands that show a run, which may still be going on: the          *)
(* dashboard's export and list (dashboard/export.py), replay and explain.  *)
(* They take no lock and read one file after the other, while the runner   *)
(* of RunLifecycle, its agent and what the agent left behind write them.   *)
(***************************************************************************)
EXTENDS RunLifecycle

CONSTANTS
    Viewers,    \* processes that show a run
    Limit       \* cassette entries the dashboard shows

ASSUME LimitAssumption == Limit \in Nat \ {0}

VARIABLE view   \* each viewer: the run, what has been read and what is shown

viewVars == << vars, view >>

Kind == {"export", "list"}     \* replay and explain read what list does

NoManifest == [status |-> "none", count |-> 0, cassette |-> Absent]

\* A view before anything is read; `settled` is history: the run was over.
NewView(r, kind) ==
    [run |-> r, kind |-> kind, at |-> 1, manifest |-> NoManifest, events |-> 0, http |-> 0,
     git |-> {}, entries |-> 0, error |-> "none", settled |-> IsFinal(r)]

(* Faulty variants, used by no specification. *)

\* The events are read before the manifest that counts them.
EventsFirst == << "events", "manifest", "before", "after", "cassette" >>

\* A run without a status is taken for a completed one.
CompletedByDefault(v) ==
    CASE v.error # "none"           -> "failed"
      [] v.manifest.status = "none" -> "completed"
      [] OTHER                      -> v.manifest.status

-----------------------------------------------------------------------------
\* What is read, in this order; list stops after the events.
ReadOrder == << "manifest", "events", "before", "after", "cassette" >>

Files(kind) == IF kind = "export" THEN Len(ReadOrder) ELSE 2

\* (at = 0: the viewer has not looked at anything yet.)
Done(v) == v.at > Files(v.kind)

ViewTypeOK ==
    view \in [Viewers ->
                [run : Runs, kind : Kind, at : 0 .. (Len(ReadOrder) + 1),
                 manifest : [status : {"none", "torn", "running"} \cup Final,
                             count : Nat, cassette : Nat \cup {Absent}],
                 events : Nat, http : Nat, git : SUBSET {"before", "after"}, entries : Nat,
                 error : {"none", "INVALID_JSON"}, settled : BOOLEAN]]

ViewInit ==
    /\ RunInit
    /\ view \in [Viewers -> {[NewView(r, "list") EXCEPT !.at = 0] : r \in Runs}]

-----------------------------------------------------------------------------
Reading(d, what) ==
    /\ view[d].at \in 1 .. Files(view[d].kind)
    /\ ReadOrder[view[d].at] = what

\* The viewer has read one more file, or has failed and reads no other.
Read(d, v) ==
    /\ view' = [view EXCEPT ![d] = [v EXCEPT !.at = @ + 1]]
    /\ UNCHANGED vars

FailView(d) ==
    /\ view' = [view EXCEPT ![d].error = "INVALID_JSON", ![d].at = Files(view[d].kind) + 1]
    /\ UNCHANGED vars

\* _load_manifest: no manifest is an empty one, a torn one no JSON.
ViewManifest(d) ==
    LET r == view[d].run
    IN  /\ Reading(d, "manifest")
        /\ IF manifest[r].status = "torn" THEN FailView(d)
           ELSE Read(d, [view[d] EXCEPT !.manifest = manifest[r]])

\* load_events: the lines there are, if each one is whole.
ViewEvents(d) ==
    LET r == view[d].run
    IN  /\ Reading(d, "events")
        /\ IF torn[r] # "whole" THEN FailView(d)
           ELSE Read(d, [view[d] EXCEPT !.events = lines[r], !.http = http[r]])

\* _git_state_payload: a file that is not there gives way to the manifest's.
ViewGit(d, which) ==
    LET file == gitFile[view[d].run][which]
    IN  /\ Reading(d, which)
        /\ IF file = "torn" THEN FailView(d)
           ELSE Read(d, [view[d] EXCEPT
                           !.git = IF file = "whole" \/ IsFinal(view[d].run)
                                   THEN @ \cup {which} ELSE @])

\* read_http_cassette: the file appears whole or not at all.
ViewCassette(d) ==
    LET n == cassette[view[d].run]
    IN  /\ Reading(d, "cassette")
        /\ Read(d, [view[d] EXCEPT !.entries = IF n = Absent THEN 0 ELSE IF n < Limit THEN n ELSE Limit])

\* The status that is shown: a run that cannot be read, or has no manifest yet, is
\* listed as failed; the export shows no status for the latter.
Shown(v) ==
    CASE v.error # "none"           -> "failed"
      [] v.manifest.status = "none" -> IF v.kind = "list" THEN "failed" ELSE "unknown"
      [] OTHER                      -> v.manifest.status

\* Another command, or the dashboard refreshed, once the run has a directory.
\* (Bound: of a run whose agent records events; the files of the repository are
\* written in every run.)
ViewAgain(d, r, kind) ==
    /\ pc[r] \notin PointerSteps \cup {"idle", "done"} /\ work[r] = "records"
    /\ view[d].at = 0 \/ Done(view[d])
    /\ view' = [view EXCEPT ![d] = NewView(r, kind)]
    /\ UNCHANGED vars

View(d) ==
    \/ ViewManifest(d) \/ ViewEvents(d) \/ ViewCassette(d)
    \/ \E which \in {"before", "after"} : ViewGit(d, which)
    \/ \E r \in Runs, kind \in Kind : ViewAgain(d, r, kind)

ViewNext ==
    \/ Next /\ UNCHANGED view
    \/ \E d \in Viewers : View(d)

ViewSpec == ViewInit /\ [][ViewNext]_viewVars

\* As in RunLifecycle; nobody has to look.
FairViewSpec == ViewSpec /\ \A r \in Runs : WF_viewVars(Runner(r) /\ UNCHANGED view)

-----------------------------------------------------------------------------
(* Properties *)

\* Whoever is shown a run as completed may rely on it; as failed, either its agent
\* did not end with 0, was interrupted or could not be started, or the run had no
\* whole manifest: it was being started, finished or lost in between
\* (export.py:409-439, cli.py:138-165).  A run that was over is never shown as
\* running, unknown or unreadable, unless a line of its events is no JSON: then a
\* completed run is listed as failed, with the error (export.py:83-92).
ViewsTruthful ==
    /\ ViewTypeOK
    /\ \A d \in Viewers :
          LET v == view[d]
              r == v.run
          IN  Done(v) =>
                /\ Shown(v) = "completed" => agent[r] = "zero"
                /\ Shown(v) = "failed" /\ v.error = "none" /\ v.manifest.status # "none" =>
                      exit[r] # 0 /\ (agent[r] # "alive" \/ r \in lost)
                /\ v.error # "none" => ~v.settled \/ torn[r] # "whole"
                /\ v.settled /\ v.error = "none" => Shown(v) = manifest[r].status

\* The parts of one export agree although they were read one after the other
\* (export.py:308-335): with a final status it has all the events that were
\* counted, and no others unless some came late; the entries of the cassette the
\* summary speaks of, each for one of these events; and both states of the
\* repository.  With the status "running" it may have a cassette the summary does
\* not know of, but never half of one.
ExportAgrees ==
    \A d \in Viewers :
        LET v == view[d]
            r == v.run
        IN  Done(v) /\ v.kind = "export" /\ v.error = "none" =>
              /\ v.manifest.status \in Final =>
                    /\ v.events >= v.manifest.count
                    /\ << r, "events" >> \notin late => v.events = v.manifest.count
                    /\ v.entries = (IF v.manifest.cassette = Absent THEN 0
                                    ELSE IF v.manifest.cassette < Limit THEN v.manifest.cassette ELSE Limit)
                    /\ v.entries <= v.http
                    /\ v.git = {"before", "after"}
              /\ v.entries > 0 => v.entries = (IF cassette[r] < Limit THEN cassette[r] ELSE Limit)
              /\ v.manifest.status = "running" => "before" \in v.git
=============================================================================
