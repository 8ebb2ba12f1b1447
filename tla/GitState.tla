------------------------------ MODULE GitState ------------------------------
(***************************************************************************)
(* recorder/git_state.py: the state of the sandbox's Git repository, as    *)
(* collect_git_state puts it together from the answers of several git      *)
(* commands that run one after the other while the repository may change.  *)
(*                                                                         *)
(* A tree is the repository itself: whether there is one, the commit HEAD  *)
(* is at, and what differs from it (a set of "staged", "unstaged" and      *)
(* "untracked").  A capture is the record that is written to               *)
(* git_state_*.json.  The commands are run without a ceiling for the       *)
(* search: where the sandbox has no repository of its own (.git is not     *)
(* copied when it is a file, and an agent may remove it) they answer for   *)
(* one that the sandbox lies in, if there is one.  The branch is read by   *)
(* one more command, whose failures are allowed and change nothing else;   *)
(* it is left out.                                                         *)
(***************************************************************************)
EXTENDS Integers

NoHead == -1

NoRepository == [repo |-> FALSE, head |-> NoHead, dirt |-> {}]

Trees(Heads, Kinds) ==
    [repo : {TRUE}, head : Heads, dirt : SUBSET Kinds] \cup {NoRepository}

Captures(Heads, Kinds) ==
    [repo : BOOLEAN, head : Heads \cup {NoHead}, dirty : BOOLEAN, status : SUBSET Kinds,
     staged : SUBSET Kinds, unstaged : SUBSET Kinds, error : BOOLEAN]

EmptyState ==
    [repo |-> FALSE, head |-> NoHead, dirty |-> FALSE, status |-> {},
     staged |-> {}, unstaged |-> {}, error |-> FALSE]

\* The commands in their order, and what follows the last one.
GitCommands == {"inside", "head", "status", "cached", "diff"}

AfterCommand ==
    [inside |-> "head", head |-> "status", status |-> "cached", cached |-> "diff", diff |-> "over"]

\* The repository git finds from the sandbox: the sandbox's own, or any other that
\* lies above it, or none.
Found(tree, above) == IF tree.repo THEN {tree} ELSE above

\* How a command can end: it answers, it exits with another code than 0, or it
\* is given up (GIT_TIMEOUT_SECONDS, no git, any other exception).
GitResults == {"ok", "fail", "abort"}

Answered(state, command, tree) ==
    CASE command = "inside" -> [state EXCEPT !.repo = TRUE]
      [] command = "head"   -> [state EXCEPT !.head = tree.head]
      [] command = "status" -> [state EXCEPT !.status = tree.dirt]
      [] command = "cached" -> [state EXCEPT !.staged = tree.dirt \cap {"staged"}]
      [] command = "diff"   -> [state EXCEPT !.unstaged = tree.dirt \cap {"unstaged"},
                                             !.dirty = state.status # {}]

\* A failed command leaves its field empty; only after the last one is `dirty`
\* derived from what status said.
Failed(state, command) ==
    [state EXCEPT !.error = TRUE,
                  !.dirty = command = "diff" /\ state.status # {}]

Stops(command, tree, result) ==
    \/ result = "abort"
    \/ command = "inside" /\ (result = "fail" \/ ~tree.repo)
    \/ command = "diff"

\* Faulty variant, used by no specification: only the last command's error is
\* kept.
AskLastError(state, command, tree, result) ==
    IF result = "ok" /\ tree.repo
    THEN [Answered(state, command, tree) EXCEPT !.error = FALSE]
    ELSE Failed(state, command)

\* The state after one more command, asked of the tree that git finds.
Ask(state, command, tree, result) ==
    IF result = "ok" /\ tree.repo
    THEN Answered(state, command, tree)
    ELSE IF result = "abort" THEN [state EXCEPT !.error = TRUE]
    ELSE Failed(state, command)

\* What all commands together say of a tree that stands still.
Exact(tree) ==
    [repo |-> TRUE, head |-> tree.head, dirty |-> tree.dirt # {}, status |-> tree.dirt,
     staged |-> tree.dirt \cap {"staged"}, unstaged |-> tree.dirt \cap {"unstaged"},
     error |-> FALSE]

CompactState(state) ==
    [repo |-> state.repo, head |-> state.head, dirty |-> state.dirty, error |-> state.error]

SummarizeStates(before, after) ==
    [headChanged |-> before.head # after.head, dirtyBefore |-> before.dirty,
     dirtyAfter |-> after.dirty, changed |-> after.staged \cup after.unstaged \cup
                                             (after.status \cap {"untracked"})]
=============================================================================
