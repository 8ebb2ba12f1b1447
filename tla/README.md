# TraceSeal: specifications and proofs

TLA+ modules for the parts of TraceSeal whose correctness depends on what happens
at the same time, in which order, or after a failure: the recording of events, the
hooks, the evaluation of the policy, the life of a run with its Git state and its
cassette, the pointer `runs/latest`, what the commands that show a run make of it, the
import of Guard events, and the two desktop clients.  TLC checks each module on small
instances (`*.cfg`); in eight modules (`*Proofs.tla`) TLAPS proves theorems for every
value of the constants.  All paths below are relative to the repository.

    tlc -config EventLog.cfg MCEventLog      # one run; PROJECT.json lists all of them
    tlapm EventLogProofs.tla

## The system

`traceseal run` (`traceseal/cli.py`) makes a run directory, copies the workspace,
starts the agent with `bootstrap/sitecustomize.py` on its path, waits, and writes a
final manifest.  In the agent and in every Python process it starts, `sdk/hooks.py`
replaces `open`, `Path.read_text`, `subprocess.run`, `urlopen` and others by wrappers
that ask the policy (`policy/`) and record an event (`recorder/core.py`).  All these
processes append to one file, `events.jsonl`.  Later commands read the run:
`dashboard-data` (`dashboard/export.py`), replay, explain, the import of events that
`traceseal-guard` (Rust) wrote, and a policy dry run on them.  Two desktop clients
(Electron, Slint) start those commands and show their output.

| Component | State it keeps | Operations | Interacts with | What is hard | What makes it correct |
|---|---|---|---|---|---|
| Event recorder `recorder/core.py` | `events.jsonl`, one lock per process | `record_event` | all traced processes through the file | threads, processes, forks, finalizers, failures that cut a line | numbers of a process never go back and repeat only on a cut line, a number lags only by foreign lines, no call hangs for an unknown reason |
| Read hooks `sdk/hooks.py` | the global `_SUPPRESS_READ_EVENTS` | reads by `open`, `Path.open`, `read_text`, `read_bytes` | recorder, policy | the global is shared by all threads; interrupts; a recorder that fails | one event per read, none hidden and none unchecked without a known cause |
| Other hooks `sdk/hooks.py`, `sdk/httpx_hooks.py` | the global `_SUPPRESS_FILE_EVENTS`, open handles | writes, deletions, commands, requests | recorder, policy, file system | judge, snapshot, act, compare and record are separate steps that can fail or be overtaken; snapshots do not see every path | a denied call has no effect, an effect has an event, an event is true |
| Cascade summary `traceseal/cascade.py` | none (reads `events.jsonl`) | order, score, first harmful event, stages | recorder; explain, replay, dashboard | its order is by `seq`, which processes may give twice | what is reported as first, and as before, was so unless calls overlapped |
| Run lifecycle `traceseal/cli.py` | `manifest.json`, exit code, event count | `run_command` | agent, Git, pointer, readers | interrupts, agents that leave processes behind, failing steps | the final manifest comes, and says what happened |
| Git state `recorder/git_state.py` | `git_state_before.json`, `git_state_after.json` | capture, summarize | the repository in the sandbox | five commands one after the other, timeouts, a repository that changes, another one that answers instead | exact without an error and a change, of the sandbox's own repository; nothing made up with one |
| HTTP cassette `recorder/http_cassette.py` | `http_cassette.jsonl` | build, read | `events.jsonl`, manifest | processes that go on recording; a failure between two steps | the manifest speaks of it exactly when there is a whole one |
| Views of a run `dashboard/export.py`, replay, explain | none | export, list | all files of a run | files read one after the other while they are written; lines that were cut | what is shown of a run was true, and its parts agree |
| Latest pointer `cli.py`, `dashboard/export.py` | `runs/latest`, `runs/latest.txt` | move, look up | other runners, readers | unlink, create and write are separate and may each fail; files held open | a lookup finds the last finished run |
| Guard import `traceseal/guard_import.py`, `guard_policy.py` | artifact, manifest, decisions | import, find, load, dry run | the runner, other imports | test-then-write, read-modify-write, crash between two files | only validated events are attached, metadata agrees with the artifact |
| Policy `policy/` | none (reads `policy.yaml` each time) | evaluate | hooks, dry run | several loads in one evaluation, two looks for a file in each, files that change or are renamed between them | order of precedence, nothing lost by an edit |
| `traceseal-guard` (Rust) | the file given by `--out` | parse, redact, append | other guards, the import | two writes per line; producer and consumer must agree on an event | an event that was reported can be imported |
| Slint client | load generation, bridge status | load, switch language | loader threads, event loop | a part of the window replaced, commands one after the other | the window tells one story, and stops loading |
| Electron main `workspace.ts`, `pythonRunner.ts` | child processes, workspace | run a command, choose a workspace | renderer | timers that only kill, children that hold the output open, dialogs | root and command belong together, a request settles when its timer has killed |
| Renderer | revision, data of pages | request, show | Electron main | answers out of order | data shown belongs to the selection |

## Modules

### `SharedLog`, `EventLog`, `EventLogProofs` - the recorder

`SharedLog` is what `record_event` promises to the outside: a call adds one piece to the
end of the file or none, a piece is a line or the beginning of one, and the number in it
is that of the line after the ones its writer had counted, since when only *other*
processes wrote.

`EventLog` is the code.  `log` is `events.jsonl` as the sequence of what the writes left,
each with the line of the file it is on: a write that meets a full disk, or whose process
is killed, may leave the beginning of its line only ("cut"), and what is written next goes
onto the same line.  `lock[p]` is the `_EVENT_LOCK` of process `p` (a `threading.Lock`,
hence one per process and not reentrant); `pc` and `seq` are the position and the local
variable of each thread.  `Begin`, `Acquire`, `Count` (`_next_event_id` reads the whole
file) and `AppendLine` (one `write` to a file opened for appending) are the steps of a
call; `Fail` is an exception inside the locked region, which `with` turns into a release,
with nothing or a part of the line written.  A cut line counts as one for `Count`, so the
number of the event that goes onto it is that of the line after it, and the next event of
the process has the same number: this is the one way in which a process gives a number
twice (`ProcSeqIncreasing`).  Around the calls: `Spawn` (a new interpreter, a new lock),
`Fork` (the lock is copied as it is), `Exit` (also a kill), `DropHandle`, `Finalize` and
`FinalizeLocked` (`_TracingReadFile.__del__` run by the collector in some thread, possibly
one that is inside the locked region).

### `Cascade`, `TraceAnalysis` - what a report says came first

`Cascade` is `traceseal/cascade.py` without state: `RiskScore`, `StageOf`,
`OrderedEvents` (by `seq`, then by place), `FirstHarmfulEvent` and `DetectCascade`, the
loop that keeps the first event of each stage.  Texts are reduced to what the tests on
them tell apart.  `TraceAnalysis` EXTENDS `EventLog` and applies it to the log that the
processes are writing, at every moment; `Script` says what the lines of each process
record, so that the log stays the only state.  `load_events` refuses a file with a line
that is no JSON, so there is no report, and nothing is said, of a log in which another line
than the last is cut (`Readable`).

Run `event_log` has an agent with two threads, a child process, spawned or forked, with
one, and four calls; their events are of all five stages and repeat two of them.
`LagIsForeign` is the accounting of the numbers, `FirstHarmfulByOverlap` and
`CascadeFaithful` say how far the order of a report can be trusted: an event that is
reported late, or after another, was overtaken by another process while it was being
recorded, and by nothing else.  `CallsReturn` (liveness) allows two ways to hang, a lock
copied while held and a finalizer inside the locked region, and no third. `Implements` is
the refinement of `SharedLog`, cut lines included.  Four calls are enough for both threads
to be in a call at once while the child writes between a count and its append, and for
another call after that.

### `ReadHooks`, `ReadHooksProofs` - the read hooks

`suppress` is `_SUPPRESS_READ_EVENTS`.  A read of kind `open` is checked on opening
(`Risk`, `Block`) and recorded on closing (`Close`, `Record`); one of kind `whole`
(`read_text`, `read_bytes`) raises the counter (`Bump`), runs the original function, which
opens the file through the hooked `Path.open` (`InnerOpen`, `InnerRead`), lowers it
(`Drop`) and records.  A read that finds the counter raised runs unwatched (`RawRead`);
`read_text` then tests it once more in the hooked `Path.open`, and goes on as an ordinary
read when it has been lowered since (`RawOpen`).  `RecordFails` is an exception of
`record_event`, which `__del__` swallows.  `Interrupt` is `KeyboardInterrupt`, which
neither `except Exception` nor `else` sees.  `overlapped`, `leaks` and `failed` are
history: they say which reads another thread's raised region can have hidden, and of which
the recorder failed.

`read_hooks` (three threads, three reads, one plain and one denied path) shows that only
such an overlap, or a failing recorder, hides a read (`HiddenOnlyByOverlap`), that only
the former lets it past the policy (`DeniedDataOnlyByOverlap`), that nothing is recorded
twice although `read_text` goes through two hooks (`AtMostOneEvent`), and that recording
resumes unless an interrupt left the counter raised (`RecordingResumes`).  Three reads are
two that overlap and one that sees what they leave behind.  `read_hooks_lost` is a
divergence, see Findings.

### `PolicyDecision`, `PolicyDecisionProofs` - one evaluation of the policy

Nothing of the policy is cached: `load_policy_with_source` is called for the mode, for
`domain_policy`, for the mode of a listed host, for the rules, and for the mode of the
rule that matched.  `stage` says which of these an evaluation comes to next; a load is
`Choose` (is there a `policy.yaml`), `ChooseNext` (is there a `policy.yml`) and then the
reading (`Load`), which falls back on the shipped policy whatever goes wrong.  `Edit`
changes either file at any moment to any content, a broken one included; `Rename` gives a
file the other name, so that both looks miss one that was there throughout.  `BuiltIn`,
`DomainVerdict`, `DomainRule`, `Replaces`, `Hits`, `Graded` and `Finalized` are the rules
themselves; a pattern is the set of what it matches and a request its marks.  The history
`held` is the set of the policies that were in force during the evaluation, `strayed` that
a load returned another one, `reselected` that another file came to be the right one
during a load.

`traced_call` (see `TracedCall`, whose calls make the evaluations) checks, for ten
requests, four documents (one of them refused by `validate_policy`), a broken and a
missing file, three values of `TRACESEAL_POLICY_MODE` and two edits or renamings per
evaluation, enough for a policy to be replaced between two loads and for one name to take
the place of the other within a load: `StraysByReselection`, `DenyListHolds`,
`EnforcementHolds`, and `SettledDecision`, which compares the stages with `Reference`, the
order of precedence in one formula.

Two things that the model shows are not violations of anything the documents promise.
An edit between the load of the rules and that of the mode can let a request through
with a warning that the old and the new policy both deny, which is why
`SettledDecision` speaks of one policy and `EnforcementHolds` of a mode that lasts.  And
`EnforcementHolds` is about `warn`: a rule of the file with `allow` or
`require_approval` lets a high risk through in block mode too.

### `TracedCall`, `TracedCallProofs` - a call that changes something

`TracedCall` EXTENDS `PolicyDecision`: it is one call of a hooked function, `api`, in
which an evaluation is a phase (`Evaluate` takes its steps).  `builtins.open` for
writing, `write_text` and `write_bytes`, the deletions, `subprocess.run`, `os.system`,
the two HTTP hooks of `sdk/hooks.py` and that of httpx differ in what they do in which
order, and the guards of the actions say how: `subprocess.run` takes the snapshots of a
removal before it judges, `os.system` after; only `os.system` looks for a push before a
removal; a write is judged a second time for its event; what is in a `try` is recorded
as an exception when it fails, the recorder's own failure included (`InTry`).  `target`
is the path, or what a removal is about: nothing, what was there, what the call wrote, a
part, or another's.  `before` and `changed` are the snapshots and their difference,
`suppress` is `_SUPPRESS_FILE_EVENTS`.  The effect is `Run`, `Open` and `Write`,
`WriteWhole`, `Delete`, `BeginRemoval` ... `EndRemoval`, or `RemoveByShell`, each with
its failures; the event is `Report`, `Rejudged`, `Record`.  `OtherChanges` is any other
thread or process, `OtherBeginsRemoval` another thread's simulated `rm -rf`, which raises
the same counter.  Interrupts are where a call waits, in the effect; an interrupt of the
hook's own few statements is not modelled.  Nor are redirects, which the HTTP client
follows without another judgement, and `Path.open` for writing, which is not hooked.

`traced_call` makes each of the ten requests by each function that fits it, with two edits
of the policy during a call and one disturbance by others, a change or a removal that
begins, at any of its steps.  (Two pass as well; the properties only ask whether there was
one.)  Besides the properties of the policy it checks `DeniedUntouched`: what was denied,
or goes to a host that was always blocked, has no effect, whatever the order of judgement
and snapshots.  `EffectRecorded` says what of a call that is over is missing from the
trace; each of the excuses it lists is a case that the code has.  One is that the
snapshots see nothing ("unseen"): they skip `.git`, `build`, `venv` and other directories,
and take a relative path to start from the workspace, not from the current directory.
`EventTruthful` is the converse: what the event claims has happened, with the limit that
the judgement in the event of a write may be that of a policy written after it.

### `LatestPointer` - the pointer `runs/latest`

`LatestPointer` has the runners only as far as the pointer is concerned.  A file is named
by the run that created it: `latest` says which file has the name `runs/latest`, `body`
what each file holds, `handle` which file a runner has open, so that a handle goes on
referring to a file that was unlinked.  Unlinking a file that someone has open may fail,
as on Windows, or succeed, as elsewhere; opening and writing may fail as well, and all
three lead to `latest.txt` (`cli.py:98-100`), with what was or is then at `runs/latest` in
the way of it.  `tainted` says which of this happened to the last update.  Readers look up
the pointer as `resolve_run_dir` or `_read_latest_run_id` does, in the steps in which the
code touches the file system.

`latest_pointer`: three runs and a reader, at most one runner lost: enough for an update,
one that overlaps, fails or is cut off, and one that repairs.  Readers do not meet; the
proofs are for any number.  `latest_pointer_refused` is a divergence.

### `GitState`, `RunLifecycle`, `RunViews`, `RunLifecycleProofs` - a whole run and those who look at it

`GitState` is `collect_git_state` without its own state: `Ask` is what one more command
makes of a capture, when it answers, fails or is given up, `Exact` what all of them say
of a tree that stands still.  `Found` is the repository git comes upon: the runner's own
commands set no ceiling for the search (unlike the agent's environment), so in a sandbox
without a repository of its own, such as one whose `.git` was a file and is not copied, or
was removed by the agent, they may be answered by one that the sandbox lies in.

`RunLifecycle` EXTENDS `LatestPointer` and `GitState` with the rest of `run_command`: run
directory, workspace copy, first Git capture (`AskGit` is one git command, `OpenGitFile`
and `WriteGitFile` the file), first manifest, launch, wait, the `finally` block with the
second capture, cassette (`ReadEvents`, `WriteTemporary`, `ReplaceCassette`,
`CassetteFails`), event count, final manifest; and with the agent, which records
(`Record`, or cuts a line, `RecordFails`) and takes the repository from any state to any
other (`Edit`: a commit, a checkout, a reset, a file written, the repository removed),
processes it leaves behind (`Detach`), Ctrl-C, a lost runner.  A cut line has no cassette
made of the events (`ReadEvents` wants whole ones).  Files that are truncated and written
are "torn" in between.  The runner's steps that matter to the pointer are taken jointly
with those of `LatestPointer`: `MovesPointer` is the refinement `INSTANCE LatestPointer
WITH settled <- FinalRuns`, every behaviour of whole runs is one of `PointerSpec`.

`RunViews` adds viewers, each with a `view` of what it has read: the export reads
manifest, events, both captures and the cassette, one file after the other
(`ReadOrder`); the list, replay and explain stop after the events.  A torn manifest or
event line ends it with an error (`FailView`).  `Shown` is the status that comes out.

`run_lifecycle` has one run, one viewer and at most one lost runner.  Runs meet only at
the pointer, which is why several of them are in `latest_pointer`, and the refinement
carries its properties over.  Bounds: one event (before or after any reading of
`events.jsonl`, HTTP or not, whole or cut), two places of HEAD, one kind of difference from
it, and above the sandbox no repository or another one.  Two events,
and the cassette limit of one that two HTTP events exceed, pass as well but take three
times as long; the proofs are for any number.  To keep these apart, `work` says what is
looked at in a run: its agent records, and steps that write files fail or the runner is
lost; or it edits the repository, and git commands fail, in one of the two captures; or it
does neither, and the update of the pointer fails.  Views are of runs that record.  In the
first two cases the agent may leave a process behind that goes on.

It checks what the final manifest says of the outcome (`StatusTruthful`), of the events
and the cassette (`CountExplained`), and of the repository (`GitTruthful`); that whoever
looks, at any moment, is told nothing that was not so (`ViewsTruthful`), and gets
parts that agree (`ExportAgrees`): the latter rests on the order of the reads, manifest
first; that every run comes to its final manifest (`RunSettles`), and `MovesPointer`.

### `GuardEvents`, `GuardJsonl`, `GuardImport`, `GuardImportProofs` - Guard events and their import

`GuardEvents` is one event, without state: `ParseArgs` is the parsing of the guard's
command line, `RedactCommandLine` what it hides, `HealthEvent` and `ProcessSpawnEvent`
what it emits, and `Validate...` what the Python side accepts.  A word is a sensitive
flag, a sensitive assignment, plain, or empty.

`GuardJsonl` is the file.  `inbox` is a sequence of pieces: events (by their ids),
newlines, and parts of events.  A guard goes through `StartGuard`, `WriteLine`,
`WriteNewline`, or fails (`FailLine`, `FailNewline`); the line and the newline are two
appends.  `WellFormed` and `ValidEvents` are `load_guard_events` and
`_validate_import_events`.  `before` is what the file held at first, `torn` is history.

`GuardImport` extends both: `manifest` is `manifest.json` (which fields it has, and the
import metadata `guard`), `artifact` the imported events, `decisions` the output of the
dry run.  The steps of `import_guard_events` are `ReadManifest`, `Validate`, `Check`,
`Replace`, `Save`, with `FailImport` between any two; those of the dry run `FindNone`,
`Load`, `Decide`; the runner writes the manifest in `OpenFirst` ... `WriteLast`.  The
source "canonical" stands for importing the artifact itself again; `Placed` says what a
guard may have written there itself, before the run is imported (`--out` takes any path).
Where an import has replaced the manifest that the runner has open, the runner's write
goes to the file that was replaced and is lost.  `overtaken`,
`overwrote`, `stale`, `clobbered`, `bare`, `owed` are history.

`guard_import` has two guards, two imports, a dry run and the runner: two guards can meet
on one line, and of two imports one can overtake the other, fail, or find what the other
left; a third adds no new kind of race between test and write.  The commands have three
sensitive flags in a row, an empty argument (refused by the parser) and an empty `--cwd`
(refused by the importer only); the file is new, or begins with an event of an unknown
type and one of another run; and such an event may stand where the artifact goes.
`OnlyValidated` is about what is attached and judged, `MetadataMatches` relates the two
files and the test for existence to the write, `ReportedIsStored` the guards' exit codes,
the file and what an import attaches, `FieldsKept` the manifests of the runner and of the
imports.  `RefusedForCause` lists what can make a file unreadable; that the producer takes
an empty `--cwd` and the consumer refuses the event is one of its cases.
`RedactionMarked` says which words of a command line are hidden, by what is shown of the
word before, and that the event names them; what that leaves in clear is a finding.
`guard_import_revert` is a divergence, of two lines of one document at once; one guard
with one command is enough for it.

### `SlintLoader`, `SlintLoaderProofs` - loads of the Slint window

`load_generation`, `language` and `bridge_status` are the atomics of `main`; `loads` are
the threads, each of which runs one to three `dashboard-data` commands (`Latest`, `List`,
`Policy`, `Demo`; `FailLoad` when one fails) and posts its summary; `ui` is the window.
`Apply` is the closure on the event loop, which drops a summary that is not of the
newest generation; `StartLoad` a button, which is disabled while the window loads, so that
in fact no load is ever superseded; `Toggle` the language switch.  Runs begin
(`BeginRun`) and are pointed at (`MovePointer`) between the commands.

`slint_loader` has three loads of any kind and two runs: a load, one that replaces the run
or only the policy it showed, and one that fails or finds nothing.  The window loads
exactly as long as a load is under way, which is the newest one (`LoadingMeansOneLoad`);
its translated texts are in one language and say what the status says (`WindowConsistent`;
the text of an error stays as the command gave it); the demo banner is true of the run
that is shown (`BannerTruthful`; a policy loaded after a demo replaces only the policy);
the latest run is in the list (`RunInHistory`), although they come from two commands; and
loading ends (`LoadingEnds`).

### `PythonRunner`, `Desktop`, `DesktopProofs` - requests and the workspace of the Electron client

`PythonRunner` is one request for data in the main process: the search for a Python
command, one candidate and child after the other (`TryNext`, `FindPython`), then
`dashboard-data`, whose directory is read only when the command is found.  `Timeout` is
the timer, which kills and settles nothing; the child may then be "killed", and close
soon or late, or "held", its output kept open by another process.  `Respond` and
`FailRequest` settle the promise.

`Desktop` EXTENDS it, for one instance of the application.  Main: `saved` is
`settings.json` (which `GetWorkspace` may find unreadable, and then answers that there is
none), `root` the `repositoryRoot` of the runner, `dialogs` the open directory dialogs.
Renderer: `ui` is `WorkspaceContext`, `page` the mounted page with the answer it shows.
`calls` and `replies` are what is on its way between them.  `orphaned` is history: a
dialog that outlived its window made a choice.

`desktop` (two directories, one of which may come and go, two requests, two candidates, a
reload) checks that the workspace shown, the saved one and the root agree when nothing is
under way (`ShownIsRoot`), that the answer to the newest request belongs to the workspace
shown, although the root is read late (`NewestAnswerBelongs`), and that a page that loads
comes to data or an error, unless its child is "held" (`PageLoads`): that is the one thing
the timeout cannot bound.  Two requests are the least in which one supersedes the other;
three of them, without a reload, are in `desktop_stale`, which is a divergence.

## Fairness

`EventLog!Fairness` and `ReadHooks!Fairness`: a thread inside TraceSeal's own code that
can take a step takes one (the interpreter schedules its threads).  Nothing is assumed
of the agent.  `RunLifecycle!Fairness`: a runner that is not lost goes on; nothing makes
an agent end, which is why `RunSettles` begins where the agent is over.
`SlintLoader!Fairness`: each command ends and the event loop runs the closures
posted to it; the code sets the commands no timeout, so this is an assumption about
`dashboard-data`.  `Desktop!Fairness`: calls and replies are delivered, timers fire, and
a killed child closes; no command has to end by itself.  A dialog may stay open
for ever.  No fairness is assumed of failures, kills, interrupts, the collector, edits,
readers or the user.

## Proofs

`EventLogProofs` proves, for any finite or infinite sets of processes and threads and any
bound: type correctness, `LagIsForeign`, that the lock is accounted for (`LockAccounted`),
`ProcSeqIncreasing`, `SoleWriterNumbersLines`, that a stuck process is silent
(`StuckIsSilent`), and that `EventLog` implements `SharedLog`.  The inductive invariant is
`TypeOK`, `OnlyLiveCall`, `LockHolderBorn`, `LinesAccounted`, `LockAccounted`,
`PendingLagIsForeign` and `LagIsForeign` together: that a pending number lags only by
foreign lines needs the lock to be held by the thread that is about to append, and that
needs the accounting of the lock through exceptions, forks and finalizers.
`LinesAccounted` says that the lines of the pieces are consecutive (a piece goes onto the
line of the one before if that is cut, onto the next one otherwise), which carries these
facts over failures and kills that cut a line.  The other facts follow from these.  The
assumption is `ConstantsAssumption`, which TLC evaluates.

The same module proves, for events of any contents, what the analysis makes of the log. In
a log that can be read each piece is a line. `FirstHarmfulByOverlap`: an event that the
analysis puts before one recorded earlier has a smaller number, so by `LagIsForeign` the
other was written by another process meanwhile.  `CascadeFaithful` needs more: that the
order by number exists for a log of any length (one event after the other is inserted in
its place), that `OrderedEvents` is therefore such an order, and that the loop of
`DetectCascade` keeps `StagesOf`, the first events of their classes in that order, after
every event.

`ReadHooksProofs` proves, for any finite set of threads, any files and any number of
reads: `CounterAccounts`, `AtMostOneEvent`, `HiddenOnlyByOverlap` and
`DeniedDataOnlyByOverlap`.  First the counter alone: each step adds a thread to the set
of raised regions, removes one, or leaves the set as it is, and the cardinality follows.
The counter then tells a thread what it needs to know: inside its own region it is above
zero, and it is zero when nobody is raised and nothing leaked.  `AloneUnlessOverlapped`
(while a read that nothing overlapped is under way no other thread is raised) links this
to the history, and `ReadInv` says what a read owes to where it is: that it passed the
policy, and that nothing was recorded for it yet.  Neither is inductive without the
other.  The assumption is `ConstantsAssumption` of `ReadHooks`; that the set of threads
is finite is needed for the cardinality only.

`PolicyDecisionProofs` proves all four properties of `PolicyDecision` for any documents,
requests, environment and number of edits.  `LoadInv` is what a load may return: until
another file becomes the right one, the chosen file is the right one, so what it holds
is in force.  From this, `GradedInv` (no grave warning is left after a mode was used),
`VerdictInv` (the verdict on the host comes from one policy in force, and has the last
word) and `SettledInv` (what is known at each stage under one policy, as parts of
`Reference`) are kept by every step.  No typing is needed, and none of the rules is
expanded except where one replaces another.

`TracedCallProofs` proves `DeniedUntouched`, `EffectRecorded` and `EventTruthful` for any
documents, requests, edits and disturbances, and that the four properties of the policy
hold of every evaluation inside a call, the one that a write makes for its event
included (`CallsAreJudged`).  A step of a call is a step of the evaluation, begins another
one, or leaves it alone, so the invariant of `PolicyDecisionProofs` is used as it is.
`RulingOK`, `StatusOK` and `EffectOK` say of each place of a call what is known there of
the ruling, of what will be reported, and of the snapshots; the last one only while
nobody else touched the target.  Without edits the two judgements of a write are one,
because both are `Reference` of the one policy in force; that the action it names is one
of the four needs that the rules of a document stand at natural numbers, and that a
request is of an event type the code knows, which `ConstantsAssumption` says.

`RunLifecycleProofs` has the run and its pointer.  For `LatestPointer`, with any runs,
readers and losses: `LatestReadsFinished`, because every id that is written anywhere, in a
file that has or had the name `runs/latest`, in `latest.txt`, or in what a reader holds,
is that of a settled run or names none, being cut (`OnlySettledNamed`), a runner at the
pointer being settled (`PointingIsSettled`); and `PointerIsLast` and `ReadersFindARun`,
because an update that meets no other has the pointer to itself (`SoleUpdate`), finds it
at each of its steps as the one before left it (`Repairing`), and a lookup no update
overlaps goes by a file that stays what it is (`QuietLookups`).

For `RunLifecycle`, with any bounds: `StatusTruthful`, `CountExplained` and `MovesPointer`.
`StepOfPointer` maps each step of a run to one of the pointer or to a stutter, which with
`settled = FinalRuns` is the refinement, and lets the pointer's invariant be used as it
is.  For the rest, `PhaseOK` says where a run is, `OutcomeOK` what the outcome rests on,
`CassetteOK` and `CountOK` what is already true of the numbers at each step of the
`finally` block; the history `late` is what makes them inductive while other processes go
on recording.  `GInv` adds `RepoOK`, what a capture may say after each git command of a
tree that stood still and of one that did not, and gives `GitTruthful`.  `VInv` adds for
each viewer what it has read so far and that no later step takes it back, `Lasts`: this is
what `ViewsTruthful` and `ExportAgrees` rest on, for any number of viewers (under
`ViewSpec`, of which every behaviour is one of `Spec`).

`GuardImportProofs` proves the six invariants of `guard_import` for any guards, imports,
dry runs, command lines and contents of the file.  `IInv` is about the imports: what was
approved stays so, because the command of a guard that has written does not change
(`AllApproved`, `InboxOK`); what an import knows at each of its steps, and what the others
leave true of it (`ImportOK`); and how manifest and artifact then belong together
(`ManifestOK`).  `FInv` is about the file alone: unless it is torn or what was there could
not be imported, it has one event a line and a line that is not ended has its guard still
at work (`FileOK`).  The redaction is a recursive function of the words, and the property
goes by what is shown of the word before: the two agree up to any word because there is no
least word at which they differ.  `GuardAssumption` is what distinguishes commands, guards
and what the file held before.

`SlintLoaderProofs` proves the four invariants of `SlintLoader` for any number of loads
and runs.  `LoadingAndStatus` ties the loading window to the newest load, `LoadsFit` says
of each load what its summary may hold at its stage: without it nothing is known of a
summary when it is applied.

`DesktopProofs` proves `ShownIsRoot` and `NewestAnswerBelongs` for any paths, requests,
candidates and reloads.  Window and main process may disagree while a reply is on its
way, and two buttons, a dialog and a retry may each have one to come.  The invariant
therefore speaks of the queue: the last reply that makes the window show something tells
what is saved, and where main works if it shows it as valid (`WindowAgrees`); the page has
its answers from the directory shown unless a reply is to come that makes it load again
(`PageAgrees`), wherever the newest request has got to (`AnswersFrom`).  Whether a reply
makes the page load again depends on the path the window showed when its button was
pressed (`previousPath`), which is enough because a window waits for one button at a time
(`OneChoice`).  How `Free`, `Single` and `Tells`, what is still to come of a queue, change
when an element is sent or taken is proved once, for any queue.

Recursive functions and induction: the library's induction theorems take an operator as a
parameter, which the provers cannot instantiate.  What is proved here of recursive
functions (the loop of `DetectCascade`, the redaction, the rules of a document) is proved
by a least counterexample, with `WFMin` and `NatLessThanWellFounded` of
`WellFoundedInduction`, which take sets.

Only model-checked are the liveness properties (`CallsReturn`, `RecordingResumes`,
`RunSettles`, `LoadingEnds`, `PageLoads`), which are out of TLAPS's reach.  Every safety
property that a passing run checks is also a theorem.  In one place the proof covers more
than the run: `RefusedForCause` excuses a file whose last line was not ended before the
guards began, and TLC's instance has no such file.

## Findings

 1. *Hidden reads* (`read_hooks_lost`): a read during another thread's `read_text` is
    neither recorded nor checked; the test plan expects an event of each read.
 2. *Latest is not the latest* (`latest_pointer_refused`): a reader holding
    `runs/latest` open on Windows makes the update go to `latest.txt`, which the
    dashboard consults second.
 3. *Reverted manifest* (`guard_import_revert`): an import writes back the manifest it
    read before the run ended; `docs/guard-event-import.md:46` says that its fields remain
    unchanged.
 4. *Artifact overwritten* (`guard_import_revert`, the same run): two imports find no
    artifact and the second replaces what the first attached; line 69 of that document says
    that an artifact is not silently overwritten.  `ImportsKeepTheRun` says that at least one
    of the two lines holds, so its violation refutes both.  `MetadataMatches`, which passes,
    has the overwriting as its one excuse.
 5. *Secret in clear* (`guard_import`, `RedactionMarked`, which states what the code does):
    of two sensitive flags in a row the second is hidden as the value of the first, and the
    word behind it is stored; `docs/guard-event-schema-contract.md:258` and `:393` say that
    passwords must not be persisted and that such forms are redacted.
 6. *Stale page* (`desktop_stale`): after a switch of the workspace the answer of an
    older request can arrive last and be shown; `docs/dashboard-design.md:296` says that
    every page requests its data again after a switch.

## Not modelled

Text and layout: the fields of exported data, of the summaries and of the cassette's
entries, what replay and explain print, the views of the renderer, the fields that all
Guard events of one producer share, calendar arithmetic, the redaction of recorded
traces.  `workspace_before.json` and `workspace_after.json`, which nothing reads back, and
the copying of the workspace, which is one step that works or fails.  The Guard section
of an export: five reads of three files, each replaced as a whole; composed with two
guards and two imports it is beyond the size TLC can finish.  Build, installer and release
scripts run outside the system.  PROJECT.json lists each component with its status.

Smaller things that the models leave out: a fork of a process whose suppression counter is
raised, which is copied; a guard that writes to the artifact of a run while it is being
imported, not before; a second instance of the Electron application; the anomaly of
`rules.py:272` (rules and mode of two loads), of which the properties of the policy do not
speak, as said above.

## Plan

What is modelled is what the code keeps state for, and what is safe about it is proved.
What is left:

 1. Two traced calls at once, so that a change both of them make is attributed to one:
    `TracedCall` has the others as disturbances only.
 2. Abstract specifications, in the way of `SharedLog` and `LatestPointer`, for the import
    (an artifact that is set once) and for the workspace (one directory, replies that say
    what it was).
 3. The Guard section of an export against the import, once a smaller model of the import
    implements the abstract one.
