----------------------------- MODULE GuardImport -----------------------------
(***************************************************************************)
(* traceseal/guard_import.py: attaching a Guard JSONL file to a run.  The  *)
(* import reads the manifest, validates the file, looks whether the run    *)
(* has an artifact already, puts the artifact in place and puts a manifest *)
(* with the metadata in place; the two writes are atomic replacements, but *)
(* nothing holds them together with the reads before them.  In the same    *)
(* run directory other imports may be going on, the runner may be writing  *)
(* its manifests (traceseal/cli.py, by truncating and writing), and the    *)
(* policy dry run (traceseal/guard_policy.py) may be reading the artifact; *)
(* and guards may be appending to the file while it is imported.           *)
(***************************************************************************)
EXTENDS GuardJsonl

CONSTANTS
    Importers,  \* processes that run import_guard_events once
    DryRuns,    \* processes that run apply_guard_policy_dry_run once
    Placed      \* what guards may have written to the run's guard_events.jsonl
                \* themselves, before: sequences of events

ASSUME PlacedAssumption == Placed \subseteq Seq(DOMAIN Older)

VARIABLES
    runner,     \* how far the runner is with its two manifests
    manifest,   \* manifest.json: [fields, guard]
    artifact,   \* the events in guard_events.jsonl, << >> while there is none
    decisions,  \* the events guard-policy-decisions.json was made from
    pc,         \* where each import is
    source,     \* the file it imports: "inbox", or guard_events.jsonl itself
    copy,       \* the manifest it has read
    events,     \* the events it has read
    dry,        \* where each dry run is
    dryEvents,  \* the events it has read
    overtaken,  \* history: imports past their check when another one replaced
    overwrote,  \* history: imports that replaced an artifact that was there
    stale,      \* history: imports, the manifest changed by others since read
    clobbered,  \* history: a stale copy has been written as the manifest
    bare,       \* history: an import found no manifest yet
    owed        \* history: guards that had reported when an import read the inbox

importVars == << pc, source, copy, events >>
dryVars == << decisions, dry, dryEvents >>
history == << overtaken, overwrote, stale, clobbered, bare, owed >>
runVars == << runner, manifest, artifact, importVars, dryVars, history >>
vars == << guardVars, runVars >>

\* "bare" has the run's id and nothing else; "torn" is the empty file between
\* truncating and writing.
Fields == {"absent", "torn", "bare", "running", "final"}
NoManifest == [fields |-> "absent", guard |-> << >>]
IsManifest(m) == m.fields \in Fields /\ m.guard \in Seq(Ids)

TypeOK ==
    /\ GuardTypeOK
    /\ runner \in {"new", "opening", "running", "closing", "finished"}
    /\ IsManifest(manifest)
    /\ artifact \in Seq(Ids) /\ decisions \in Seq(Ids)
    /\ pc \in [Importers -> {"idle", "read", "validated", "checked", "replaced", "done", "failed"}]
    /\ source \in [Importers -> {"inbox", "canonical", None}]
    /\ \A i \in Importers : IsManifest(copy[i]) /\ events[i] \in Seq(Ids)
    /\ dry \in [DryRuns -> {"idle", "loaded", "over"}]
    /\ \A d \in DryRuns : dryEvents[d] \in Seq(Ids)
    /\ overtaken \in SUBSET Importers
    /\ overwrote \in SUBSET Importers
    /\ stale \in SUBSET Importers
    /\ clobbered \in BOOLEAN
    /\ bare \in BOOLEAN
    /\ owed \in [Importers -> SUBSET Guards]

Init ==
    /\ GuardInit
    /\ runner = "new"
    /\ manifest = NoManifest
    /\ artifact \in Placed
    /\ decisions = << >>
    /\ pc = [i \in Importers |-> "idle"]
    /\ source = [i \in Importers |-> None]
    /\ copy = [i \in Importers |-> NoManifest]
    /\ events = [i \in Importers |-> << >>]
    /\ dry = [d \in DryRuns |-> "idle"]
    /\ dryEvents = [d \in DryRuns |-> << >>]
    /\ overtaken = {}
    /\ overwrote = {}
    /\ stale = {}
    /\ clobbered = FALSE
    /\ bare = FALSE
    /\ owed = [i \in Importers |-> {}]

Goto(i, from, to) == pc[i] = from /\ pc' = [pc EXCEPT ![i] = to]

\* Imports that have read the manifest and not written it.
Reading == {i \in Importers : pc[i] \in {"read", "validated", "checked", "replaced"}}

\* What the source of an import holds, and the guards that have said they wrote
\* to the inbox.
SourceEvents(i) == IF source[i] = "inbox" THEN EventsOf(inbox) ELSE artifact
Reported == {g \in Guards : gpc[g] = "ok"}

-----------------------------------------------------------------------------
(* Faulty variants of steps below, used by no specification: each shows     *)
(* which property such a bug would break.                                   *)

\* A manifest that cannot be parsed is taken for an empty one (strict=False).
ReadManifestLeniently(i) ==
    /\ Goto(i, "idle", "read")
    /\ source' \in {[source EXCEPT ![i] = s] :
                       s \in {"inbox"} \cup (IF artifact = << >> THEN {} ELSE {"canonical"})}
    /\ copy' = [copy EXCEPT ![i] =
                   IF manifest.fields \in {"absent", "torn"}
                   THEN [fields |-> "bare", guard |-> << >>] ELSE manifest]
    /\ bare' = (bare \/ manifest.fields = "absent")
    /\ UNCHANGED << runner, manifest, artifact, events, dryVars,
                    overtaken, overwrote, stale, clobbered, owed >>

\* The events are not validated.
ValidateNothing(i) ==
    /\ Goto(i, "read", "validated")
    /\ events' = [events EXCEPT ![i] = SourceEvents(i)]
    /\ owed' = [owed EXCEPT ![i] = Reported]
    /\ UNCHANGED << runner, manifest, artifact, source, copy, dryVars,
                    overtaken, overwrote, stale, clobbered, bare >>

\* The metadata goes to the manifest before the artifact is in place.
ReplaceLater(i) ==
    /\ Goto(i, "checked", "replaced")
    /\ UNCHANGED << runner, manifest, artifact, source, copy, events, dryVars, history >>

\* The manifest is left with the metadata alone.
SaveMetadataOnly(i) ==
    /\ Goto(i, "replaced", "done")
    /\ manifest' = [fields |-> "bare", guard |-> events[i]]
    /\ stale' = (stale \cup Reading) \ {i}
    /\ clobbered' = (clobbered \/ i \in stale)
    /\ UNCHANGED << runner, artifact, source, copy, events, dryVars, overtaken, overwrote, bare, owed >>

-----------------------------------------------------------------------------
(* The runner: the manifest of a run that has begun, then the final one,    *)
(* both made from what the runner remembers.                                *)

\* Path.write_text: the file is truncated when it is opened, and what is written goes
\* to the file that was opened, which an import may have replaced since.
RunnerStep(from, to, fields) ==
    /\ runner = from
    /\ runner' = to
    /\ IF fields = "torn" \/ manifest.fields = "torn"
       THEN manifest' = [fields |-> fields, guard |-> << >>] /\ stale' = stale \cup Reading
       ELSE UNCHANGED << manifest, stale >>
    /\ UNCHANGED << artifact, importVars, dryVars, overtaken, overwrote, clobbered, bare, owed >>

OpenFirst == RunnerStep("new", "opening", "torn")
WriteFirst == RunnerStep("opening", "running", "running")
OpenLast == RunnerStep("running", "closing", "torn")
WriteLast == RunnerStep("closing", "finished", "final")

-----------------------------------------------------------------------------
(* import_guard_events *)

\* The source exists and _read_manifest(strict=True) reads the manifest; with no
\* manifest there it makes one with the run's id.
ReadManifest(i) ==
    /\ manifest.fields # "torn"
    /\ Goto(i, "idle", "read")
    /\ source' \in {[source EXCEPT ![i] = s] :
                       s \in {"inbox"} \cup (IF artifact = << >> THEN {} ELSE {"canonical"})}
    /\ copy' = [copy EXCEPT ![i] = IF manifest.fields = "absent"
                                   THEN [fields |-> "bare", guard |-> << >>] ELSE manifest]
    /\ bare' = (bare \/ manifest.fields = "absent")
    /\ UNCHANGED << runner, manifest, artifact, events, dryVars,
                    overtaken, overwrote, stale, clobbered, owed >>

\* _load_and_validate: every event is checked before anything is written.
Validate(i) ==
    /\ source[i] = "inbox" => WellFormed(inbox)
    /\ ValidEvents(SourceEvents(i))
    /\ Goto(i, "read", "validated")
    /\ events' = [events EXCEPT ![i] = SourceEvents(i)]
    /\ owed' = [owed EXCEPT ![i] = Reported]
    /\ UNCHANGED << runner, manifest, artifact, source, copy, dryVars,
                    overtaken, overwrote, stale, clobbered, bare >>

\* destination.exists() and not same_artifact: "refusing to overwrite".
Check(i) ==
    /\ artifact = << >> \/ source[i] = "canonical"
    /\ Goto(i, "validated", "checked")
    /\ UNCHANGED << runner, manifest, artifact, source, copy, events, dryVars, history >>

\* _write_atomic of the artifact, unless it is the source.
Replace(i) ==
    /\ Goto(i, "checked", "replaced")
    /\ IF source[i] = "canonical"
       THEN UNCHANGED << artifact, overtaken, overwrote >>
       ELSE /\ artifact' = events[i]
            /\ overtaken' = overtaken \cup {j \in Importers \ {i} : pc[j] = "checked"}
            /\ overwrote' = IF artifact = << >> THEN overwrote ELSE overwrote \cup {i}
    /\ UNCHANGED << runner, manifest, source, copy, events, dryVars, stale, clobbered, bare, owed >>

\* _write_atomic of the manifest as it was read, with the metadata.
Save(i) ==
    /\ Goto(i, "replaced", "done")
    /\ manifest' = [copy[i] EXCEPT !.guard = events[i]]
    /\ stale' = (stale \cup Reading) \ {i}
    /\ clobbered' = (clobbered \/ i \in stale)
    /\ UNCHANGED << runner, artifact, source, copy, events, dryVars, overtaken, overwrote, bare, owed >>

\* GuardImportError (a torn manifest, invalid events, an artifact that is
\* there), an OSError of a write, or the process is killed.  What it knew is gone.
FailImport(i) ==
    /\ pc[i] \notin {"done", "failed"}
    /\ pc' = [pc EXCEPT ![i] = "failed"]
    /\ source' = [source EXCEPT ![i] = None]
    /\ copy' = [copy EXCEPT ![i] = NoManifest]
    /\ events' = [events EXCEPT ![i] = << >>]
    /\ owed' = [owed EXCEPT ![i] = {}]
    /\ stale' = stale \ {i}
    /\ UNCHANGED << runner, manifest, artifact, dryVars, overtaken, overwrote, clobbered, bare >>

-----------------------------------------------------------------------------
(* apply_guard_policy_dry_run *)

DryRunEnds(d, from) ==
    /\ dry[d] = from
    /\ dry' = [dry EXCEPT ![d] = "over"]
    /\ dryEvents' = [dryEvents EXCEPT ![d] = << >>]
    /\ UNCHANGED << runner, manifest, artifact, importVars, history >>

\* maybe_find_guard_events: without an artifact nothing is written.
FindNone(d) == artifact = << >> /\ DryRunEnds(d, "idle") /\ UNCHANGED decisions

\* load_imported_guard_events validates again.  (An artifact that was found
\* stays, so that finding it is one step with reading it.)
Load(d) ==
    /\ dry[d] = "idle"
    /\ ValidEvents(artifact)
    /\ dry' = [dry EXCEPT ![d] = "loaded"]
    /\ dryEvents' = [dryEvents EXCEPT ![d] = artifact]
    /\ UNCHANGED << runner, manifest, artifact, importVars, decisions, history >>

\* The policy is loaded, the events evaluated and the decisions put in place.
Decide(d) == decisions' = dryEvents[d] /\ DryRunEnds(d, "loaded")

\* Invalid events, a policy that cannot be loaded, a failed write, or a kill.
FailDryRun(d) == (\E from \in {"idle", "loaded"} : DryRunEnds(d, from)) /\ UNCHANGED decisions

-----------------------------------------------------------------------------
ImportNext ==
    \/ OpenFirst \/ WriteFirst \/ OpenLast \/ WriteLast
    \/ \E i \in Importers :
          ReadManifest(i) \/ Validate(i) \/ Check(i) \/ Replace(i) \/ Save(i) \/ FailImport(i)
    \/ \E d \in DryRuns : FindNone(d) \/ Load(d) \/ Decide(d) \/ FailDryRun(d)

Next ==
    \/ ImportNext /\ UNCHANGED guardVars
    \/ GuardNext /\ UNCHANGED runVars

Spec == Init /\ [][Next]_vars

-----------------------------------------------------------------------------
(* Properties *)

\* What the manifest describes and what the dry run made its decisions from have
\* passed the validation of every event, and so has the artifact, unless a guard wrote
\* it there itself (guard_import.py:193, 209, 226-227; rule 4 of
\* docs/guard-event-import.md).
OnlyValidated ==
    /\ \A es \in {manifest.guard, decisions} : es # << >> => ValidEvents(es)
    /\ artifact # << >> => ValidEvents(artifact) \/ artifact \in Placed

\* Metadata in the manifest has its artifact, and describes it unless one import
\* overwrote another's artifact (guard_import.py:208-214), as only one can that another
\* overtook between its check and its write (guard_import.py:196-209).  The excuse is
\* what docs/guard-event-import.md:69 rules out: see ImportsKeepTheRun.
MetadataMatches ==
    /\ overwrote \subseteq overtaken
    /\ manifest.guard # << >> =>
          /\ artifact # << >>
          /\ overwrote = {} => manifest.guard = artifact

\* An import that returned has what it promised: the event of every guard that had
\* exited with 0 before the import read the inbox, once (main.rs:383-385 and
\* guard_import.py:193), and, when the run was finished, metadata in the manifest, as
\* docs/guard-event-import.md:34 says (guard_import.py:210-215).  (With an earlier
\* manifest the final one of the runner may come after it.)
ReportedIsStored ==
    \A i \in Importers : pc[i] = "done" =>
        /\ source[i] = "inbox" =>
              \A g \in owed[i] : \E k \in DOMAIN events[i] :
                  events[i][k] = g /\ \A j \in DOMAIN events[i] \ {k} : events[i][j] # g
        /\ copy[i].fields = "final" => manifest.guard # << >>

\* When the run is over its manifest says so, unless an import wrote a copy it
\* had read before (guard_import.py:191, 210-214); and it has all its fields, unless
\* an import began before there was a manifest: not when one met it half written
\* (guard_import.py:39-53).
FieldsKept ==
    /\ TypeOK
    /\ runner = "finished" /\ ~ clobbered => manifest.fields = "final"
    /\ manifest.fields = "bare" => bare

\* docs/guard-event-import.md:46: "The existing manifest fields remain unchanged."  In
\* particular a run that is over does not become one that is not.  And line 69: "An
\* existing imported artifact is not silently overwritten."  At least one of the two
\* holds: a run that violates this breaks both (guard_import.py:191-214).
FieldsUnchanged == runner = "finished" => manifest.fields = "final"
NotOverwritten == overwrote = {}
ImportsKeepTheRun == FieldsUnchanged \/ NotOverwritten
=============================================================================
