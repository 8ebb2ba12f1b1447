---------------------------- MODULE PythonRunner ----------------------------
(***************************************************************************)
(* PythonDashboardRunner (desktop/electron/src/pythonRunner.ts): what      *)
(* becomes of one request for data in the main process.  A Python command  *)
(* is looked for among the candidates, one child process after the other,  *)
(* then dashboard-data is run in the root of that moment.  Of each child   *)
(* runRawCommand waits for "error" or "close"; its timer only kills.       *)
(* A packaged or configured command is a search that succeeds at once.     *)
(***************************************************************************)
EXTENDS Naturals

CONSTANTS
    Paths,          \* directories a user may choose
    None,           \* no workspace, no root
    Fallback,       \* the root the main process uses without a workspace
    Candidates,     \* how many Python commands are tried
    MaxRequests     \* bound: requests for data in a behaviour

ASSUME RunnerAssumption ==
    /\ {None, Fallback} \cap Paths = {} /\ None # Fallback
    /\ Candidates \in Nat \ {0} /\ MaxRequests \in Nat

VARIABLES
    root,       \* repositoryRoot
    requests    \* the requests: [mount, stage, tries, child, root]

Unasked == [mount |-> 0, stage |-> "new", tries |-> 0, child |-> "none", root |-> None]

RequestsOK ==
    /\ root \in Paths \cup {Fallback}
    /\ requests \in [1 .. MaxRequests ->
                       [mount : 0 .. MaxRequests, stage : {"new", "search", "run", "over"},
                        tries : 0 .. Candidates, child : {"none", "runs", "killed", "held"},
                        root : Paths \cup {None, Fallback}]]

\* run(): commandSpec tries the first candidate.
Asked(m) == [mount |-> m, stage |-> "search", tries |-> 1, child |-> "runs", root |-> None]

\* The promise of the request is settled.
Settle(n) ==
    requests' = [requests EXCEPT ![n] = [Unasked EXCEPT !.stage = "over", !.mount = requests[n].mount]]

-----------------------------------------------------------------------------
(* Faulty variants, used by no specification. *)

\* The timer notes the timeout and leaves the child alone.
TimeoutWithoutKill(n) ==
    /\ requests[n].child = "runs"
    /\ UNCHANGED << root, requests >>

-----------------------------------------------------------------------------
(* Children *)

\* A candidate that exits with 0 is the command; only then the root is read.
FindPython(n) ==
    /\ requests[n].stage = "search" /\ requests[n].child = "runs"
    /\ requests' = [requests EXCEPT ![n].stage = "run", ![n].tries = 0, ![n].root = root]
    /\ UNCHANGED root

\* A candidate that cannot be started, fails or was killed makes way for the next.
TryNext(n) ==
    /\ requests[n].stage = "search" /\ requests[n].tries < Candidates
    /\ requests' = [requests EXCEPT ![n].tries = @ + 1, ![n].child = "runs"]
    /\ UNCHANGED root

\* The timer kills the child.  A process that dashboard-data was started through, or
\* started, may still hold the output open, and "close" waits for it.
Timeout(n) ==
    /\ requests[n].child = "runs"
    /\ \E child \in {"killed"} \cup (IF requests[n].stage = "run" THEN {"held"} ELSE {}) :
          requests' = [requests EXCEPT ![n].child = child, ![n].root = None]
    /\ UNCHANGED root

\* dashboard-data ends in time and prints its data.
Respond(n) ==
    /\ requests[n].stage = "run" /\ requests[n].child = "runs"
    /\ Settle(n)
    /\ UNCHANGED root

\* It fails or prints no JSON, or it ends after the timer, with whatever output; or
\* no candidate is left.
FailRequest(n) ==
    /\ \/ requests[n].stage = "search" /\ requests[n].tries = Candidates
       \/ requests[n].stage = "run"
    /\ Settle(n)
    /\ UNCHANGED root
=============================================================================
