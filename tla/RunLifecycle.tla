---------------------------- MODULE RunLifecycle ----------------------------
(***************************************************************************)
(* traceseal/cli.py run_command: one process per `traceseal run`.  It      *)
(* makes runs/<id>, copies the workspace, asks git for its state           *)
(* (GitState), writes a first manifest, starts the agent and waits for it; *)
(* a finally block then takes stock, rewrites the manifest and moves       *)
(* runs/latest (LatestPointer, whose actions are taken here jointly with   *)
(* the runner's own steps).  Next to the runner run the agent, which       *)
(* records events and changes the sandbox's repository, and whatever the   *)
(* agent leaves running when it ends.                                      *)
(***************************************************************************)
EXTENDS LatestPointer, GitState, Sequences

CONSTANTS
    MaxLines,   \* bound: events recorded by a run
    MaxHead,    \* bound: commits HEAD may be at, beside the one it is at first
    Kinds,      \* how files may differ from HEAD: staged, unstaged, untracked
    Above       \* what may be found above a sandbox: trees with a repository, or without

ASSUME RunAssumption ==
    /\ MaxLines \in Nat
    /\ MaxHead \in Nat
    /\ Kinds \subseteq {"staged", "unstaged", "untracked"}
    /\ Above \subseteq Trees(0 .. MaxHead, Kinds)

VARIABLES
    step,       \* the step of run_command each runner is at, before the end
    exit,       \* its exit_code: 0, or 1 for any other
    agent,      \* the agent: "none", "alive" or how it ended
    background, \* runs with a process of the agent's that outlives it
    lines,      \* lines of events.jsonl
    http,       \* how many of them are HTTP events
    torn,       \* "cut" if the last of them lacks its end, "broken" if another is no JSON
    manifest,   \* manifest.json, as a reader would find it
    count,      \* event_count, between count_lines and the write
    entries,    \* the entries generate_http_cassette has made; 0 outside it
    cassette,   \* http_cassette.jsonl: its entries, or Absent
    temporary,  \* runs with a temporary file beside it
    summary,    \* manifest["http_cassette"]: the entry count, or Absent
    late,       \* history: runs whose lines, or HTTP events, grew after they were read
    tree,       \* the repository in the sandbox
    git,        \* git_state_before and git_state_after, as captured
    gitFile,    \* the files of these names: "none", "torn" or "whole"
    work,       \* bound: what is looked at in a run: its agent records events, and writes
                \* fail, or edits the repository, and git commands fail, or does neither,
                \* and the update of the pointer fails
    moved,      \* history: runs whose repository changed once the last capture had begun
    switched,   \* history: runs whose HEAD has moved
    strayed     \* history: captures in which another repository answered

eventVars == << lines, http, torn, late >>
treeVars == << tree, work, moved, switched >>
agentVars == << agent, background, eventVars, treeVars >>
cassetteVars == << entries, cassette, temporary, summary >>
gitVars == << git, gitFile, strayed >>
runVars == << step, exit, manifest, count, cassetteVars, gitVars, agentVars >>
vars == << pointerVars, runVars >>

Steps == {"copy", "gitOpen", "gitWrite", "open", "write", "launch", "wait", "after", "cassette",
          "entries", "replace", "count", "end"} \cup GitCommands
GitSteps == GitCommands \cup {"gitOpen", "gitWrite"}
CassetteSteps == {"cassette", "entries", "replace"}
Final == {"completed", "failed"}
Absent == -1

Manifests ==
    [status : {"none", "torn", "running"} \cup Final, count : Nat, cassette : Nat \cup {Absent}]

RunTypeOK ==
    /\ TypeOK
    /\ step \in [Runs -> Steps]
    /\ exit \in [Runs -> {0, 1}]
    /\ agent \in [Runs -> {"none", "alive", "zero", "nonzero", "stopped"}]
    /\ background \in SUBSET Runs
    /\ lines \in [Runs -> Nat] /\ http \in [Runs -> Nat]
    /\ count \in [Runs -> Nat] /\ entries \in [Runs -> Nat]
    /\ cassette \in [Runs -> Nat \cup {Absent}] /\ summary \in [Runs -> Nat \cup {Absent}]
    /\ manifest \in [Runs -> Manifests]
    /\ temporary \in SUBSET Runs
    /\ late \in SUBSET (Runs \X {"events", "http"})
    /\ tree \in [Runs -> Trees(0 .. MaxHead, Kinds)]
    /\ git \in [Runs -> [{"before", "after"} -> Captures(0 .. MaxHead, Kinds)]]
    /\ gitFile \in [Runs -> [{"before", "after"} -> {"none", "torn", "whole"}]]
    /\ work \in [Runs -> {"records", "edits", "nothing"}]
    /\ torn \in [Runs -> {"whole", "cut", "broken"}]
    /\ moved \in SUBSET Runs /\ switched \in SUBSET Runs
    /\ strayed \in SUBSET (Runs \X {"before", "after"})

RunInit ==
    /\ Init
    /\ step = [r \in Runs |-> "copy"]
    /\ exit = [r \in Runs |-> 1]
    /\ agent = [r \in Runs |-> "none"]
    /\ background = {}
    /\ lines = [r \in Runs |-> 0]
    /\ http = [r \in Runs |-> 0]
    /\ manifest = [r \in Runs |-> [status |-> "none", count |-> 0, cassette |-> Absent]]
    /\ count = [r \in Runs |-> 0]
    /\ entries = [r \in Runs |-> 0]
    /\ cassette = [r \in Runs |-> Absent]
    /\ temporary = {}
    /\ summary = [r \in Runs |-> Absent]
    /\ late = {}
    /\ tree \in [Runs -> Trees({0}, Kinds)]
    /\ git = [r \in Runs |-> [before |-> EmptyState, after |-> EmptyState]]
    /\ gitFile = [r \in Runs |-> [before |-> "none", after |-> "none"]]
    /\ work \in [Runs -> {"records", "edits", "nothing"}]
    /\ \A r \in Runs : work[r] # "edits" => tree[r] = [repo |-> TRUE, head |-> 0, dirt |-> {}]
    /\ torn = [r \in Runs |-> "whole"]
    /\ moved = {} /\ switched = {} /\ strayed = {}

\* The runner r goes from one step to another, before it rewrites the manifest.
Go(r, from, to) ==
    /\ pc[r] = "busy" /\ step[r] = from
    /\ step' = [step EXCEPT ![r] = to]
    /\ UNCHANGED pointerVars

SetManifest(r, status, n, c) ==
    manifest' = [manifest EXCEPT ![r] = [status |-> status, count |-> n, cassette |-> c]]

-----------------------------------------------------------------------------
(* Faulty variants of steps below, used by no specification: each shows     *)
(* which property such a bug would break.                                   *)

\* exit_code starts at 0: an interrupted run counts as completed.
LaunchAssumingSuccess(r) ==
    /\ Go(r, "launch", "wait")
    /\ agent' = [agent EXCEPT ![r] = "alive"]
    /\ exit' = [exit EXCEPT ![r] = 0]
    /\ UNCHANGED << manifest, count, cassetteVars, gitVars, background, eventVars, treeVars >>

\* The pointer is moved before the manifest is rewritten.
ReopenAfterPointing(r) ==
    /\ step[r] = "end" /\ pc[r] = "busy"
    /\ pc' = [pc EXCEPT ![r] = "check"]
    /\ UNCHANGED << settled, fileVars, readVars, lost, runVars >>

\* What the cassette raises is not caught, and the runner stops there.
CassetteAborts(r) ==
    /\ pc[r] = "busy" /\ step[r] \in CassetteSteps
    /\ pc' = [pc EXCEPT ![r] = "lost"]
    /\ UNCHANGED << settled, fileVars, readVars, lost, runVars >>

\* An agent that was asked to stop is left running.
InterruptRunnerOnly(r) ==
    /\ Go(r, "wait", "after")
    /\ UNCHANGED << exit, manifest, count, cassetteVars, gitVars, agentVars >>

-----------------------------------------------------------------------------
(* The runner up to the agent's end *)

\* mkdir(exist_ok=False) and an empty events.jsonl.
Make(r) ==
    /\ Begin(r)
    /\ UNCHANGED runVars

\* copy_workspace, which copies .git too, and the snapshot of the files.
Copy(r) ==
    /\ Go(r, "copy", "inside")
    /\ UNCHANGED << exit, manifest, count, cassetteVars, gitVars, agentVars >>

\* collect_git_state is called before the first manifest and after the agent.
Capture(r) == IF manifest[r].status = "none" THEN "before" ELSE "after"

\* One git command of collect_git_state, asked of the repository it finds.  (Bound:
\* one command of a run fails at most.)
AskGit(r, result) ==
    LET command == step[r]
        which   == Capture(r)
    IN  /\ command \in GitCommands
        /\ result # "ok" => work[r] = "edits" /\ ~git[r].before.error /\ ~git[r].after.error
        /\ \E found \in Found(tree[r], Above) :
              /\ Go(r, command, IF Stops(command, found, result) THEN "gitOpen" ELSE AfterCommand[command])
              /\ git' = [git EXCEPT ![r][which] = Ask(@, command, found, result)]
        /\ strayed' = IF tree[r].repo THEN strayed ELSE strayed \cup {<< r, which >>}
        /\ UNCHANGED << exit, manifest, count, cassetteVars, gitFile, agentVars >>

\* write_json of what was collected: emptied, then written.
OpenGitFile(r) ==
    /\ Go(r, "gitOpen", "gitWrite")
    /\ gitFile' = [gitFile EXCEPT ![r][Capture(r)] = "torn"]
    /\ UNCHANGED << exit, manifest, count, cassetteVars, git, strayed, agentVars >>

WriteGitFile(r) ==
    /\ Go(r, "gitWrite", IF Capture(r) = "before" THEN "open" ELSE "cassette")
    /\ gitFile' = [gitFile EXCEPT ![r][Capture(r)] = "whole"]
    /\ UNCHANGED << exit, manifest, count, cassetteVars, git, strayed, agentVars >>

OpenManifest(r) ==
    /\ Go(r, "open", "write")
    /\ SetManifest(r, "torn", 0, Absent)
    /\ UNCHANGED << exit, count, cassetteVars, gitVars, agentVars >>

WriteManifest(r) ==
    /\ Go(r, "write", "launch")
    /\ SetManifest(r, "running", 0, Absent)
    /\ UNCHANGED << exit, count, cassetteVars, gitVars, agentVars >>

\* subprocess.run starts the agent.
Launch(r) ==
    /\ Go(r, "launch", "wait")
    /\ agent' = [agent EXCEPT ![r] = "alive"]
    /\ exit' = [exit EXCEPT ![r] = 1]
    /\ UNCHANGED << manifest, count, cassetteVars, gitVars, background, eventVars, treeVars >>

\* FileNotFoundError gives 127, which stands for a failure as 1 does; any other OSError
\* passes through the finally block with exit_code still 1.
LaunchFails(r) ==
    /\ Go(r, "launch", "after")
    /\ exit' = [exit EXCEPT ![r] = 1]
    /\ UNCHANGED << manifest, count, cassetteVars, gitVars, agentVars >>

Reap(r) ==
    /\ agent[r] \in {"zero", "nonzero"}
    /\ Go(r, "wait", "after")
    /\ exit' = [exit EXCEPT ![r] = IF agent[r] = "zero" THEN 0 ELSE 1]
    /\ UNCHANGED << manifest, count, cassetteVars, gitVars, agentVars >>

\* KeyboardInterrupt while waiting: subprocess.run kills the agent, but nothing
\* the agent started, and the finally block runs.
Interrupt(r) ==
    /\ Go(r, "wait", "after")
    /\ agent' = [agent EXCEPT ![r] = IF @ = "alive" THEN "stopped" ELSE @]
    /\ UNCHANGED << exit, manifest, count, cassetteVars, gitVars, background, eventVars, treeVars >>

-----------------------------------------------------------------------------
(* The finally block *)

\* The policy source and the snapshot of the files after the run.
After(r) ==
    /\ Go(r, "after", "inside")
    /\ UNCHANGED << exit, manifest, count, cassetteVars, gitVars, agentVars >>

\* generate_http_cassette: one entry for each HTTP event there is, if every line is
\* whole,
ReadEvents(r) ==
    /\ torn[r] = "whole"
    /\ Go(r, "cassette", "entries")
    /\ entries' = [entries EXCEPT ![r] = http[r]]
    /\ UNCHANGED << exit, manifest, count, cassette, temporary, summary, gitVars, agentVars >>

\* written to a temporary file,
WriteTemporary(r) ==
    /\ Go(r, "entries", "replace")
    /\ temporary' = temporary \cup {r}
    /\ UNCHANGED << exit, manifest, count, entries, cassette, summary, gitVars, agentVars >>

\* which is given its name.
ReplaceCassette(r) ==
    /\ Go(r, "replace", "count")
    /\ temporary' = temporary \ {r}
    /\ cassette' = [cassette EXCEPT ![r] = entries[r]]
    /\ summary' = [summary EXCEPT ![r] = entries[r]]
    /\ entries' = [entries EXCEPT ![r] = 0]
    /\ UNCHANGED << exit, manifest, count, gitVars, agentVars >>

\* A line that is no JSON, a full disk: whatever is raised is caught, and both files are
\* unlinked, unless that fails as well.
CassetteFails(r) ==
    /\ work[r] = "records" /\ step[r] \in CassetteSteps
    /\ Go(r, step[r], "count")
    /\ temporary' \in {temporary \ {r}} \cup
                      (IF step[r] = "cassette" THEN {} ELSE {temporary \cup {r}})
    /\ summary' = [summary EXCEPT ![r] = Absent]
    /\ entries' = [entries EXCEPT ![r] = 0]
    /\ UNCHANGED << exit, manifest, count, cassette, gitVars, agentVars >>

CountLines(r) ==
    /\ Go(r, "count", "end")
    /\ count' = [count EXCEPT ![r] = lines[r]]
    /\ UNCHANGED << exit, manifest, cassetteVars, gitVars, agentVars >>

ReopenManifest(r) ==
    /\ step[r] = "end"
    /\ Reopen(r)
    /\ SetManifest(r, "torn", 0, Absent)
    /\ UNCHANGED << step, exit, count, cassetteVars, gitVars, agentVars >>

RewriteManifest(r) ==
    /\ Rewrite(r)
    /\ SetManifest(r, IF exit[r] = 0 THEN "completed" ELSE "failed", count[r], summary[r])
    /\ UNCHANGED << step, exit, count, cassetteVars, gitVars, agentVars >>

MovePointer(r) ==
    /\ Update(r)
    /\ work[r] # "nothing" => ~OpenFails(r) /\ ~WriteFails(r)
    /\ UNCHANGED runVars

\* The runner is killed or a step of it raises: the agent is left alone.
LoseRunner(r) ==
    /\ work[r] = IF Updating(r) THEN "nothing" ELSE "records"
    /\ Lose(r)
    /\ UNCHANGED runVars

-----------------------------------------------------------------------------
(* The agent and what it leaves behind *)

runnerVars == << pointerVars, step, exit, manifest, count, cassetteVars, gitVars >>

Working(r, what) == work[r] = what /\ (agent[r] = "alive" \/ r \in background)

\* A line is added, or an event is written after one that lacks its end, which then is
\* no JSON (EventLog).
AddLine(r, type) ==
    LET grows == torn[r] # "cut"
    IN  /\ grows => lines[r] < MaxLines
        /\ lines' = [lines EXCEPT ![r] = IF grows THEN @ + 1 ELSE @]
        /\ http' = [http EXCEPT ![r] = IF grows /\ type = "http" THEN @ + 1 ELSE @]
        /\ late' = late \cup {<< r, t >> : t \in {x \in {"events", "http"} :
                        \/ x = "events" /\ step[r] = "end"
                        \/ x = type /\ step[r] \in {"entries", "replace", "count", "end"}}}
        /\ UNCHANGED << runnerVars, agent, background, treeVars >>

Record(r, type) ==
    /\ Working(r, "records")
    /\ AddLine(r, type)
    /\ torn' = [torn EXCEPT ![r] = IF @ = "cut" THEN "broken" ELSE @]

\* The write fails midway, on a full disk, or the process is killed in it.
RecordFails(r) ==
    /\ Working(r, "records") /\ torn[r] # "cut"
    /\ AddLine(r, "other")
    /\ torn' = [torn EXCEPT ![r] = "cut"]

\* The repository goes from one state to another under the runner's eyes, or before
\* it looks: a commit, a checkout, a reset, a file written or staged; it is removed,
\* or made.  (What comes after the last git command is seen by nobody and left out.)
Edit(r, new) ==
    /\ Working(r, "edits") /\ step[r] \in {"wait", "after"} \cup GitSteps
    /\ new # tree[r]
    /\ tree' = [tree EXCEPT ![r] = new]
    /\ moved' = IF step[r] \in GitSteps THEN moved \cup {r} ELSE moved
    /\ switched' = IF new.head # tree[r].head THEN switched \cup {r} ELSE switched
    /\ UNCHANGED << runnerVars, agent, background, eventVars, work >>

\* A process that outlives the agent.  One that ends is one that does nothing more, and
\* one that does nothing at all is left out.
Detach(r) ==
    /\ agent[r] = "alive" /\ work[r] # "nothing"
    /\ work[r] = "records" => lines[r] < MaxLines \/ torn[r] = "cut"
    /\ background' = background \cup {r}
    /\ UNCHANGED << runnerVars, agent, eventVars, treeVars >>

AgentExit(r, how) ==
    /\ agent[r] = "alive"
    /\ how = "nonzero" => work[r] = "records"
    /\ agent' = [agent EXCEPT ![r] = how]
    /\ UNCHANGED << runnerVars, background, eventVars, treeVars >>

LookUp(d) ==
    /\ Lookup(d)
    /\ UNCHANGED runVars

-----------------------------------------------------------------------------
Runner(r) ==
    \/ Make(r) \/ Copy(r)
    \/ \E result \in GitResults : AskGit(r, result)
    \/ OpenGitFile(r) \/ WriteGitFile(r) \/ OpenManifest(r) \/ WriteManifest(r)
    \/ Launch(r) \/ LaunchFails(r) \/ Reap(r)
    \/ After(r) \/ ReadEvents(r) \/ WriteTemporary(r) \/ ReplaceCassette(r)
    \/ CassetteFails(r) \/ CountLines(r)
    \/ ReopenManifest(r) \/ RewriteManifest(r) \/ MovePointer(r)

Next ==
    \/ \E r \in Runs :
          \/ Runner(r) \/ Interrupt(r) \/ LoseRunner(r)
          \/ Detach(r)
          \/ \E new \in Trees(0 .. MaxHead, Kinds) : Edit(r, new)
          \/ \E type \in {"http", "other"} : Record(r, type)
          \/ RecordFails(r)
          \/ \E how \in {"zero", "nonzero"} : AgentExit(r, how)
    \/ \E d \in Readers : LookUp(d)

Spec == RunInit /\ [][Next]_vars

\* A runner that is not stopped goes on; nothing makes an agent end, a user
\* interrupt it or a reader look.
Fairness == \A r \in Runs : WF_vars(Runner(r))

FairSpec == Spec /\ Fairness

-----------------------------------------------------------------------------
(* Properties *)

IsFinal(r) == manifest[r].status \in Final
FinalRuns == {r \in Runs : IsFinal(r)}

\* A run is called "completed" only when its agent ended with 0: not when it was
\* interrupted, never started or is still running (cli.py:168-178, 195).
StatusTruthful ==
    /\ RunTypeOK
    /\ \A r \in Runs : manifest[r].status = "completed" => agent[r] = "zero"

\* event_count is the number of lines of the log, unless a process the agent left
\* behind added some after they were counted; the agent itself is over by then
\* (cli.py:172, 198-201).  The manifest speaks of a cassette exactly when there is one;
\* it has as many entries as there, all of them counted lines, and lacks an HTTP event
\* only if that was recorded after it was made (http_cassette.py:229-259).
CountExplained ==
    \A r \in Runs :
        /\ step[r] \in CassetteSteps \cup {"count", "end"} => agent[r] # "alive"
        /\ IsFinal(r) =>
              /\ manifest[r].count <= lines[r]
              /\ << r, "events" >> \notin late => manifest[r].count = lines[r]
              /\ manifest[r].cassette = cassette[r]
              /\ cassette[r] <= manifest[r].count
              /\ cassette[r] # Absent =>
                    /\ r \notin temporary
                    /\ << r, "http" >> \notin late => cassette[r] = http[r]

\* What a final manifest says of the repository (git_state.py:86-191).  Without an
\* error "dirty" is what status said, and with one it may be missing but is never made
\* up.  If the sandbox's own repository answered, the capture is exact unless the
\* repository moved while git was asked; "head_changed" is true of no run whose HEAD
\* stayed, and missing of none whose HEAD was then elsewhere than at first.  Where it had
\* none of its own, another may have answered, without an error: git is given no ceiling
\* here, unlike in the agent's environment (cli.py:77-79).
GitTruthful ==
    \A r \in FinalRuns :
        LET before == git[r].before
            after  == git[r].after
            report == SummarizeStates(before, after)
            own    == {which \in {"before", "after"} : << r, which >> \notin strayed}
        IN  /\ gitFile[r] = [before |-> "whole", after |-> "whole"]
            /\ after.dirty => after.status # {}
            /\ ~after.error =>
                  /\ report.dirtyAfter = (after.status # {})
                  /\ "after" \in own /\ r \notin moved => after = Exact(tree[r])
            /\ ~before.error /\ ~after.error /\ own = {"before", "after"} =>
                  /\ report.headChanged => r \in switched
                  /\ tree[r].head # 0 /\ r \notin moved => report.headChanged

\* "cassette failure must never abort an Agent run" (cli.py:190), and neither do
\* "Git availability or repository problems" (git_state.py:89): a run whose agent is
\* over gets its final manifest, if the runner is not lost.
RunSettles ==
    \A r \in Runs : (pc[r] = "busy" /\ step[r] = "after") ~> (IsFinal(r) \/ r \in lost)

\* A run implements LatestPointer: what is settled there is a final manifest here,
\* and nothing but the pointer's own steps touches the files the readers follow
\* (cli.py:201-202).
Pointer == INSTANCE LatestPointer WITH settled <- FinalRuns

MovesPointer == Pointer!PointerSpec
=============================================================================
