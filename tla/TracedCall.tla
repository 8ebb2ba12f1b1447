----------------------------- MODULE TracedCall -----------------------------
(***************************************************************************)
(* sdk/hooks.py and sdk/httpx_hooks.py: one call of the agent that may     *)
(* change something, from the judgement by the policy (PolicyDecision,     *)
(* whose evaluations are steps of the call) to the effect and the event.   *)
(* A call that changes files compares the target before and after, writes  *)
(* are judged a second time for the event, and every step may fail.  The   *)
(* other threads of the process, and other processes, change the same      *)
(* target meanwhile; and a simulated "rm -rf" of another thread suppresses *)
(* file events, because _SUPPRESS_FILE_EVENTS is a global of the process.  *)
(* A snapshot does not always see the target: it skips directories such as *)
(* .git, build and venv, and takes a relative path to start from the       *)
(* workspace, where the call takes it from the current directory.  The     *)
(* reads are in ReadHooks; paths inside the run directory but outside the  *)
(* workspace, which are not traced, are left out.                          *)
(***************************************************************************)
EXTENDS PolicyDecision

CONSTANT MaxOthers  \* bound: changes and suppressions by others during the call

ASSUME MaxOthersAssumption == MaxOthers \in Nat

VARIABLES
    api,        \* the hooked function
    call,       \* where the call is
    ruling,     \* what its evaluation said: an action, or "none"
    risk,       \* the action that will be recorded
    target,     \* what is at the path: nothing, what was there, ours, ...
    before,     \* what the snapshot before the call saw: "unseen" when it does not see the path
    changed,    \* whether the snapshots differ: file_changes
    suppress,   \* _SUPPRESS_FILE_EVENTS
    outcome,    \* how the call ends for the agent
    status,     \* the status to be recorded
    logged,     \* the event of the call
    \* History:
    effect,     \* the call changed the target, ran the command, sent the request
    nested,     \* an event of a file inside the target, by the call as well
    unlogged,   \* record_event or a snapshot raised
    forbidden,  \* every policy in force while it was judged blocked the host
    others,     \* what other threads did (bounded by MaxOthers)
    muting,     \* another thread is inside its simulated rm -rf
    disturbed   \* another thread changed the target or suppressed events

worldVars == << api, target, suppress, effect, nested, others, muting, disturbed >>
reportVars == << before, changed, status, logged, unlogged >>
judgeVars == << ruling, risk, forbidden >>
callVars == << call, judgeVars, outcome, worldVars, reportVars >>
allVars == << vars, callVars >>

NoEvent == [status |-> "none", changed |-> FALSE, action |-> "none"]

\* The hooked functions for a request: builtins.open for writing, Path.write_text and
\* write_bytes, shutil.rmtree, os.remove and os.unlink, subprocess.run, os.system,
\* urllib's urlopen and requests, httpx.
Apis(type) ==
    CASE type = "file.write" -> {"open", "write", "delete"}
      [] type = "shell" -> {"run", "system"}
      [] type = "http" -> {"url"}
      [] type = "network.http" -> {"httpx"}
      [] OTHER -> {"read"}

\* subprocess.run looks for rm -rf first, os.system for git push.
Has(hook, mark, unless) == api = hook /\ mark \in request.marks /\ unless \notin request.marks
Removes == (api = "run" /\ "rm -rf" \in request.marks) \/ Has("system", "rm -rf", "push")
Pushes == (api = "system" /\ "push" \in request.marks) \/ Has("run", "push", "rm -rf")
IsFile == api \in {"open", "write", "delete"}

CallTypeOK ==
    /\ api \in {"open", "write", "delete", "run", "system", "url", "httpx", "read"}
    /\ call \in {"judging", "blocked", "before", "act", "handle", "removing", "after",
                 "report", "rejudging", "record", "again", "over"}
    /\ {ruling, risk} \subseteq {"none", "allow", "warn", "deny", "require_approval"}
    /\ {target, before} \subseteq {"unseen", "none", "old", "ours", "cut", "other"}
    /\ suppress \in Nat
    /\ outcome \in {"returned", "raised", "interrupted", "abandoned"}
    /\ {status, logged.status} \subseteq {"none", "ok", "simulated", "exception", "blocked"}
    /\ {changed, effect, nested, unlogged, forbidden, muting, disturbed}
          \subseteq BOOLEAN
    /\ others \in 0 .. MaxOthers

\* An evaluation starts from nothing but the files.
Forget ==
    /\ stage' = "built-in" /\ chosen' = "unchosen" /\ decision' = Undecided
    /\ verdict' = Unlisted /\ held' = {InForce(file)} /\ reselected' = FALSE /\ strayed' = FALSE
    /\ UNCHANGED << file, env, request, edits >>

\* A deletion is not judged; a removal by subprocess.run is judged once more after its
\* snapshot (of the evaluation before it nothing is used).
CallInit ==
    /\ Init
    /\ api \in Apis(request.event_type)
    /\ call = IF api = "delete" \/ (api = "run" /\ Removes) THEN "before" ELSE "judging"
    /\ ruling = "none" /\ forbidden = FALSE
    /\ risk = IF api = "delete" THEN "warn" ELSE "none"
    /\ target \in (IF IsFile \/ Removes THEN {"none", "old"} ELSE {"none"})
    /\ before = "unseen" /\ changed = FALSE
    /\ suppress = 0 /\ muting = FALSE /\ others = 0 /\ disturbed = FALSE
    /\ outcome = "returned" /\ status = "ok"
    /\ logged = NoEvent /\ unlogged = FALSE /\ effect = FALSE /\ nested = FALSE

Goto(from, to) == call = from /\ call' = to

\* The call makes x of the target.
Makes(x) == target' = x /\ effect' = (effect \/ x # target)
            /\ UNCHANGED << api, suppress, nested, others, muting, disturbed >>
\* The call runs, or sends, what it is for; e says whether.
Does(e) == effect' = e
           /\ UNCHANGED << api, target, suppress, nested, others, muting, disturbed >>
\* Both snapshots see the path or neither does; then they differ, at most, by what others
\* did elsewhere.
Differences == IF before = "unseen" THEN {FALSE, disturbed} ELSE {before # target}

Ends(how) == outcome' = how /\ UNCHANGED << vars, judgeVars, reportVars >>

-----------------------------------------------------------------------------
(* Faulty variants of steps below, used by no specification: each shows     *)
(* which property such a bug would break.                                   *)

\* os.system looks at the ruling only when nothing is removed.
SnapshotAndGo ==
    /\ Goto("before", IF api = "run" THEN "judging" ELSE "act")
    /\ before' \in {target, "unseen"}
    /\ UNCHANGED << vars, judgeVars, outcome, worldVars, changed, status, logged, unlogged >>

\* What opening the file did is in the snapshot before.
OpenThenSnapshot ==
    /\ api = "open"
    /\ Goto("act", "handle")
    /\ \E x \in {"ours", target} : Makes(x) /\ before' = x
    /\ UNCHANGED << vars, judgeVars, outcome, changed, status, logged, unlogged >>

\* File events are not suppressed while a removal is simulated.
BeginUnsuppressed ==
    /\ api = "run" /\ Removes
    /\ Goto("act", "removing")
    /\ UNCHANGED << vars, judgeVars, outcome, reportVars, worldVars >>

-----------------------------------------------------------------------------
(* Judgement *)

\* A step of an evaluation, or an edit of the policy.
Evaluate ==
    /\ call \in {"judging", "rejudging"}
    /\ Next
    /\ UNCHANGED callVars

Judged ==
    /\ stage = "done" /\ api # "read"
    /\ Goto("judging", IF api = "system" /\ Removes THEN "before"
                       ELSE IF decision.action = "deny" THEN "blocked"
                       ELSE IF api \in {"open", "write"} THEN "before" ELSE "act")
    /\ ruling' = decision.action /\ risk' = decision.action
    /\ forbidden' = (IsHttp(request) /\ ~strayed /\ \A p \in held : Blocks(p))
    /\ Forget
    /\ UNCHANGED << outcome, worldVars, reportVars >>

\* The event of a blocked call (subprocess.run compares the targets all the same); the
\* agent gets exit code 126, or an exception, for which it may ask subprocess.run.
RecordBlocked ==
    /\ Goto("blocked", "over")
    /\ \/ /\ \E differ \in IF api = "run" /\ Removes THEN Differences ELSE {FALSE} :
                logged' = [status |-> "blocked", action |-> risk, changed |-> differ]
          /\ outcome' \in CASE api = "system" -> {"returned"}
                            [] api = "run" -> {"returned", "raised"}
                            [] OTHER -> {"raised"}
          /\ UNCHANGED unlogged
       \/ unlogged' = TRUE /\ outcome' = "raised" /\ UNCHANGED logged
    /\ UNCHANGED << vars, judgeVars, worldVars, before, changed, status >>

-----------------------------------------------------------------------------
(* Effect *)

\* snapshot_tree before the effect
Snapshot ==
    /\ Goto("before", IF api = "run" THEN "judging"
                      ELSE IF api = "system" /\ ruling = "deny" THEN "blocked" ELSE "act")
    /\ before' \in {target, "unseen"}
    /\ UNCHANGED << vars, judgeVars, outcome, worldVars, changed, status, logged, unlogged >>

\* A file that goes away between exists() and stat(): the call is not made.
SnapshotFails ==
    /\ Goto("before", "over")
    /\ outcome' = "raised" /\ unlogged' = TRUE
    /\ UNCHANGED << vars, judgeVars, worldVars, before, changed, status, logged >>

\* git push, and urllib and requests where TRACESEAL_OFFLINE_HTTP is set.
Simulate ==
    /\ Pushes \/ api = "url"
    /\ Goto("act", "record")
    /\ status' = "simulated"
    /\ UNCHANGED << vars, judgeVars, outcome, worldVars, before, changed, logged, unlogged >>

\* A command that is run, a request that is sent; a response that is not a success and
\* an exit code other than 0 are answers, too (which `check' makes an exception of, but
\* after the event).
Performed == api \in {"run", "system", "url", "httpx"} /\ ~Removes /\ ~Pushes

Run ==
    /\ Performed
    /\ Goto("act", "record")
    /\ Does(TRUE)
    /\ outcome' \in {"returned"} \cup (IF api = "run" THEN {"raised"} ELSE {})
    /\ UNCHANGED << vars, judgeVars, reportVars >>

\* It fails, before or after something was done: a timeout, a lost connection; os.system
\* only before.
RunFails ==
    /\ Performed \/ (api = "system" /\ Removes)
    /\ Goto("act", "record")
    /\ \E e \in {FALSE, api # "system"} : Does(e)
    /\ status' = "exception" /\ outcome' = "raised"
    /\ UNCHANGED << vars, judgeVars, before, changed, logged, unlogged >>

\* KeyboardInterrupt, or the cancellation of an asynchronous request, is no Exception.
Interrupt ==
    /\ Performed
    /\ Goto("act", "over")
    /\ \E e \in BOOLEAN : Does(e)
    /\ Ends("interrupted")

\* builtins.open truncates the file or leaves it as it is.
Open ==
    /\ api = "open"
    /\ Goto("act", "handle")
    /\ \E x \in {"ours", target} : Makes(x)
    /\ UNCHANGED << vars, judgeVars, outcome, reportVars >>

OpenFails == api = "open" /\ Goto("act", "over") /\ Ends("raised") /\ UNCHANGED worldVars

Write ==
    /\ call = "handle" /\ UNCHANGED call
    /\ Makes("ours")
    /\ UNCHANGED << vars, judgeVars, outcome, reportVars >>

\* _TracingFile.close and __exit__: whether closing raises or not, what follows is done.
Close ==
    /\ Goto("handle", "after")
    /\ outcome' \in {"returned", "raised"}
    /\ UNCHANGED << vars, judgeVars, reportVars, worldVars >>

\* The handle is never closed: there is no __del__, unlike for reads.
Abandon == Goto("handle", "over") /\ Ends("abandoned") /\ UNCHANGED worldVars

\* Path.write_text and write_bytes; when they fail the file may be truncated.
WriteWhole ==
    /\ api = "write"
    /\ Goto("act", "after")
    /\ Makes("ours")
    /\ UNCHANGED << vars, judgeVars, outcome, reportVars >>

WriteWholeFails ==
    /\ api = "write"
    /\ Goto("act", "over")
    /\ \E x \in {target, "cut"} : Makes(x)
    /\ \E how \in {"raised", "interrupted"} : Ends(how)

\* What a removal may leave: nothing, all that was there, or a part.
Remains == {"none", target} \cup (IF target = "none" THEN {} ELSE {"cut"})

\* rmtree, which may be told to ignore errors, remove, unlink: what follows is in a
\* `finally`.
Delete ==
    /\ api = "delete"
    /\ Goto("act", "after")
    /\ \E x \in Remains : Makes(x)
    /\ outcome' \in {"returned", "raised", "interrupted"}
    /\ UNCHANGED << vars, judgeVars, reportVars >>

\* The loop over the targets of a simulated rm -rf, between += and -=.
BeginRemoval ==
    /\ api = "run" /\ Removes
    /\ Goto("act", "removing")
    /\ suppress' = suppress + 1
    /\ UNCHANGED << vars, judgeVars, outcome, reportVars, api, target, effect, nested,
                    others, muting, disturbed >>

\* The original rmtree calls os.unlink, which is hooked, for every file inside (with the
\* file's path, where it does not work with directory handles).
UnlinkInside ==
    /\ call = "removing" \/ (call = "act" /\ api = "delete")
    /\ target # "none"
    /\ suppress = 0
    /\ nested' = TRUE
    /\ UNCHANGED << vars, call, judgeVars, outcome, reportVars, api, target, suppress,
                    effect, others, muting, disturbed >>

\* The `finally` lowers the counter; an OSError other than FileNotFoundError, which is
\* that of a target that others remove as well, goes on.
EndRemoval ==
    /\ call = "removing"
    /\ suppress' = suppress - 1
    /\ \/ /\ call' = "after" /\ target' \in (IF disturbed THEN Remains ELSE {"none"})
          /\ UNCHANGED outcome
       \/ /\ call' = "over" /\ target' \in Remains
          /\ outcome' \in {"raised", "interrupted"}
    /\ effect' = (effect \/ target' # target)
    /\ UNCHANGED << vars, judgeVars, reportVars, api, nested, others, muting, disturbed >>

\* os.system has the shell remove, which may do all of it, a part or nothing.
RemoveByShell ==
    /\ api = "system" /\ Removes
    /\ Goto("act", "after")
    /\ \E x \in Remains : Makes(x)
    /\ UNCHANGED << vars, judgeVars, outcome, reportVars >>

-----------------------------------------------------------------------------
(* Report *)

\* snapshot_tree after the effect, and diff_trees
SnapshotAfter ==
    /\ Goto("after", IF IsFile THEN "report" ELSE "record")
    /\ changed' \in Differences
    /\ UNCHANGED << vars, judgeVars, outcome, worldVars, before, status, logged, unlogged >>

\* It raises: os.system records that, a closing handle ignores it, the rest is left.
SnapshotAfterFails ==
    /\ Goto("after", IF api = "system" THEN "record" ELSE "over")
    /\ status' = IF api = "system" THEN "exception" ELSE status
    /\ outcome' = IF api = "open" THEN outcome ELSE "raised"
    /\ unlogged' = TRUE
    /\ UNCHANGED << vars, judgeVars, worldVars, before, changed, logged >>

\* _record_file_event: nothing when suppressed or without a change; the event of a
\* write has a judgement of its own.
Report ==
    /\ Goto("report", IF suppress # 0 \/ ~changed THEN "over"
                      ELSE IF api = "delete" THEN "record" ELSE "rejudging")
    /\ UNCHANGED << vars, judgeVars, outcome, worldVars, reportVars >>

Rejudged ==
    /\ stage = "done"
    /\ Goto("rejudging", "record")
    /\ risk' = decision.action
    /\ Forget
    /\ UNCHANGED << ruling, forbidden, outcome, worldVars, reportVars >>

Record ==
    /\ call \in {"record", "again"} /\ call' = "over"
    /\ logged' = [status |-> status, changed |-> changed, action |-> risk]
    /\ UNCHANGED << vars, judgeVars, outcome, worldVars, before, changed, status, unlogged >>

\* record_event raises.  Where it is called in the `try`, the failure is taken for one
\* of the call and recorded as an exception.
InTry == status = "ok" /\ (api \in {"url", "system"} \/ (api = "run" /\ ~Removes))

RecordFails ==
    /\ Goto("record", IF InTry THEN "again" ELSE "over")
    /\ unlogged' = TRUE
    /\ outcome' = IF api = "open" THEN outcome ELSE "raised"
    /\ status' = IF InTry THEN "exception" ELSE status
    /\ changed' = (changed /\ ~InTry)
    /\ UNCHANGED << vars, judgeVars, worldVars, before, logged >>

RecordFailsAgain ==
    /\ Goto("again", "over")
    /\ UNCHANGED << vars, judgeVars, outcome, worldVars, reportVars >>

-----------------------------------------------------------------------------
(* The other threads of the process, and other processes *)

Others ==
    /\ IsFile \/ Removes
    /\ call \notin {"judging", "rejudging", "record", "again", "over"}
    /\ others < MaxOthers
    /\ others' = others + 1
    /\ disturbed' = TRUE
    /\ UNCHANGED << vars, call, judgeVars, outcome, reportVars, api, effect, nested >>

OtherChanges ==
    /\ Others
    /\ target' \in {"none", "old", "other"} \ {target}
    /\ UNCHANGED << suppress, muting >>

OtherBeginsRemoval ==
    /\ Others
    /\ ~muting /\ muting' = TRUE
    /\ suppress' = suppress + 1
    /\ UNCHANGED target

OtherEndsRemoval ==
    /\ call # "over"
    /\ muting /\ muting' = FALSE
    /\ suppress' = suppress - 1
    /\ UNCHANGED << vars, call, judgeVars, outcome, reportVars, api, target, effect,
                    nested, others, disturbed >>

-----------------------------------------------------------------------------
CallNext ==
    \/ Evaluate \/ Judged \/ RecordBlocked
    \/ Snapshot \/ SnapshotFails
    \/ Simulate \/ Run \/ RunFails \/ Interrupt
    \/ Open \/ OpenFails \/ Write \/ Close \/ Abandon
    \/ WriteWhole \/ WriteWholeFails \/ Delete
    \/ BeginRemoval \/ UnlinkInside \/ EndRemoval \/ RemoveByShell
    \/ SnapshotAfter \/ SnapshotAfterFails \/ Report \/ Rejudged
    \/ Record \/ RecordFails \/ RecordFailsAgain
    \/ OtherChanges \/ OtherBeginsRemoval \/ OtherEndsRemoval

CallSpec == CallInit /\ [][CallNext]_allVars

-----------------------------------------------------------------------------
(* Properties *)

\* What the policy denies a hooked call is not done, in whatever order it is looked at
\* by the hook, and no request is sent to a host that every policy in force blocked; a
\* blocked call has an event that says so, if it could be recorded, and no other call
\* has (hooks.py:407-418, 534-539, 738-756, httpx_hooks.py:225-229).  (A redirect that
\* the client then follows is not judged again, and Path.open for writing not at all.)
DeniedUntouched ==
    /\ CallTypeOK
    /\ ruling = "deny" \/ forbidden => ~effect
    /\ ruling = "deny" /\ call = "over" => logged.status = "blocked" \/ unlogged
    /\ logged.status = "blocked" => ruling = "deny"

\* When a call is over, what it changed, ran or sent is in the trace.  It is not when the
\* recorder itself failed, when others changed the same target or suppressed events
\* meanwhile, when a written handle was never closed (hooks.py:152-213), when anything
\* but a deletion was interrupted, and when write_text or a simulated rm -rf failed half
\* way (hooks.py:487, 542-546).  Where the snapshots do not see the target, an excluded
\* directory or a path relative to another one than the workspace, a change of a file
\* has no event, and that of a removal names no change (recorder/workspace.py:16-34,
\* 74-99).
EffectRecorded ==
    call = "over" /\ effect =>
        \/ logged.status \in {"ok", "exception"} /\ (before # "unseen" => logged.changed)
        \/ IsFile /\ before = "unseen"
        \/ unlogged \/ disturbed \/ outcome = "abandoned"
        \/ outcome = "interrupted" /\ api # "delete"
        \/ outcome = "raised" /\ (api = "write" \/ (api = "run" /\ Removes))

\* What an event says is so: what was blocked or simulated had no effect, a change is
\* the call's own or one by others meanwhile, an exception was raised to the agent, and
\* a call that was made is recorded as one the policy denies only if the policy was
\* edited since it was judged (hooks.py:134-139).  And a deletion that is simulated has
\* no event for the files inside (hooks.py:539-548).
EventTruthful ==
    /\ logged.status \in {"blocked", "simulated"} => ~effect
    /\ logged.changed /\ ~disturbed => effect
    /\ logged.status = "ok" /\ Performed => effect
    /\ logged.status = "exception" => outcome = "raised"
    /\ logged.action = "deny" /\ logged.status # "blocked" => edits > 0
    /\ nested => api = "delete"
=============================================================================
