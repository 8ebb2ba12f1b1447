----------------------------- MODULE ReadHooks -----------------------------
(***************************************************************************)
(* sdk/hooks.py: how the reads of one traced process are checked against   *)
(* the policy and recorded.  Two kinds of read are hooked:                 *)
(*   "open"   builtins.open and Path.open with a read mode: the check is   *)
(*            made on opening, the event is recorded on closing;           *)
(*   "whole"  Path.read_text and Path.read_bytes: one call, which itself   *)
(*            goes through the hooked Path.open, so the module global      *)
(*            _SUPPRESS_READ_EVENTS is raised around it.                   *)
(* The global belongs to the process, not to the thread: every step that   *)
(* reads or writes it is an action of its own, because the interpreter may *)
(* switch threads in between.  (The += and -= on the global are single     *)
(* steps: CPython does not switch threads inside them under its global     *)
(* lock, and the project requires Python 3.10.)                            *)
(***************************************************************************)
EXTENDS Integers, FiniteSets

CONSTANTS
    Threads,    \* threads of the traced process
    Main,       \* the one that receives KeyboardInterrupt
    Paths,      \* files the agent reads
    Denied,     \* those for which evaluate_file_read answers "deny"
    MaxOps      \* bound: read operations started in a behaviour

ASSUME ConstantsAssumption ==
    /\ IsFiniteSet(Threads)
    /\ Main \in Threads
    /\ Paths # {} /\ Denied \in SUBSET Paths
    /\ MaxOps \in Nat

VARIABLES
    suppress,   \* _SUPPRESS_READ_EVENTS
    pc,         \* where each thread is in its read operation
    op,         \* the operation: [kind |-> "open" or "whole", path |-> ...]
    result,     \* what the agent gets: "none" so far, "data", "denied", ...
    events,     \* number of file.read events recorded for the operation
    overlapped, \* history: threads during whose current or last operation
                \* another thread was inside its raised region, or had left
                \* the counter raised
    failed,     \* history: threads of whose current or last operation
                \* record_event raised
    leaks,      \* history: interrupts that left the counter raised
    ops         \* operations started so far (bounded by MaxOps)

vars == << suppress, pc, op, result, events, overlapped, failed, leaks, ops >>

Raised == {"inner", "window", "drop"}   \* between the += and the -=

Active == {"entry", "risk", "blocked", "opening", "reading", "bump", "raw", "record"}
              \cup Raised

TypeOK ==
    /\ suppress \in Nat
    /\ pc \in [Threads -> {"idle", "done"} \cup Active]
    /\ op \in [Threads -> [kind : {"open", "whole"}, path : Paths]]
    /\ result \in [Threads -> {"none", "data", "denied", "error", "interrupted"}]
    /\ events \in [Threads -> Nat]
    /\ overlapped \in SUBSET Threads
    /\ failed \in SUBSET Threads
    /\ leaks \in Nat
    /\ ops \in 0 .. MaxOps

Init ==
    /\ suppress = 0
    /\ pc = [t \in Threads |-> "idle"]
    /\ op = [t \in Threads |-> [kind |-> "open", path |-> CHOOSE p \in Paths : TRUE]]
    /\ result = [t \in Threads |-> "none"]
    /\ events = [t \in Threads |-> 0]
    /\ overlapped = {}
    /\ failed = {}
    /\ leaks = 0
    /\ ops = 0

InRaised(t) == pc[t] \in Raised

Goto(t, where) == pc' = [pc EXCEPT ![t] = where]

-----------------------------------------------------------------------------
(* Faulty variants of steps below, used by no specification: each shows     *)
(* which property such a bug would break.                                   *)

\* The counter is never raised: the inner open records as well.
BumpForgotten(t) ==
    /\ pc[t] = "bump"
    /\ overlapped' = overlapped \cup {u \in Threads \ {t} : pc[u] \in Active}
    /\ Goto(t, "inner")
    /\ UNCHANGED << suppress, op, result, events, failed, leaks, ops >>

\* The counter is lowered in the else branch only.
DropOnSuccessOnly(t) ==
    /\ pc[t] = "drop"
    /\ suppress' = IF result[t] = "error" THEN suppress ELSE suppress - 1
    /\ Goto(t, "record")
    /\ UNCHANGED << op, result, events, overlapped, failed, leaks, ops >>

\* The event is recorded before the counter is lowered.
DropAfterRecord(t) ==
    /\ pc[t] = "drop"
    /\ suppress' = suppress - 1
    /\ Goto(t, "done")
    /\ UNCHANGED << op, result, events, overlapped, failed, leaks, ops >>

\* read_text does not look at the policy, as the inner open would.
RiskOfOpenOnly(t) ==
    /\ pc[t] = "risk"
    /\ Goto(t, IF op[t].kind = "whole" THEN "bump"
               ELSE IF op[t].path \in Denied THEN "blocked" ELSE "opening")
    /\ UNCHANGED << suppress, op, result, events, overlapped, failed, leaks, ops >>

-----------------------------------------------------------------------------
(* Both kinds *)

\* The agent calls a hooked read function.
Start(t, kind, path) ==
    /\ pc[t] \in {"idle", "done"}
    /\ ops < MaxOps
    /\ ops' = ops + 1
    /\ Goto(t, "entry")
    /\ op' = [op EXCEPT ![t] = [kind |-> kind, path |-> path]]
    /\ result' = [result EXCEPT ![t] = "none"]
    /\ events' = [events EXCEPT ![t] = 0]
    /\ overlapped' = IF leaks > 0 \/ \E u \in Threads : InRaised(u)
                     THEN overlapped \cup {t} ELSE overlapped \ {t}
    /\ failed' = failed \ {t}
    /\ UNCHANGED << suppress, leaks >>

\* `if _SUPPRESS_READ_EVENTS or _is_read_noise(...)`: the original function
\* runs, with no check and no event.
Entry(t) ==
    /\ pc[t] = "entry"
    /\ Goto(t, IF suppress > 0 THEN "raw" ELSE "risk")
    /\ UNCHANGED << suppress, op, result, events, overlapped, failed, leaks, ops >>

\* The original function, unwatched.  That of read_text goes through the hooked
\* Path.open, where the counter is tested again.
RawRead(t, res) ==
    /\ pc[t] = "raw"
    /\ op[t].kind = "whole" => suppress > 0
    /\ result' = [result EXCEPT ![t] = res]
    /\ Goto(t, "done")
    /\ UNCHANGED << suppress, op, events, overlapped, failed, leaks, ops >>

\* By then the counter is down: what goes on is an ordinary Path.open.
RawOpen(t) ==
    /\ pc[t] = "raw"
    /\ op[t].kind = "whole"
    /\ suppress = 0
    /\ op' = [op EXCEPT ![t].kind = "open"]
    /\ Goto(t, "risk")
    /\ UNCHANGED << suppress, result, events, overlapped, failed, leaks, ops >>

\* _read_risk: evaluate_file_read, and on "deny" the blocked event and then
\* PermissionError.
Risk(t) ==
    /\ pc[t] = "risk"
    /\ Goto(t, IF op[t].path \in Denied THEN "blocked"
               ELSE IF op[t].kind = "open" THEN "opening" ELSE "bump")
    /\ UNCHANGED << suppress, op, result, events, overlapped, failed, leaks, ops >>

\* _record_read_event checks the global again, at the moment of recording.
RecordedEvents(t) == IF suppress > 0 THEN events[t] ELSE events[t] + 1

Block(t) ==
    /\ pc[t] = "blocked"
    /\ events' = [events EXCEPT ![t] = RecordedEvents(t)]
    /\ result' = [result EXCEPT ![t] = "denied"]
    /\ Goto(t, "done")
    /\ UNCHANGED << suppress, op, overlapped, failed, leaks, ops >>

Record(t) ==
    /\ pc[t] = "record"
    /\ events' = [events EXCEPT ![t] = RecordedEvents(t)]
    /\ Goto(t, "done")
    /\ UNCHANGED << suppress, op, result, overlapped, failed, leaks, ops >>

\* record_event raises (a full disk, a run directory that is gone).  A blocked
\* read and read_text pass the exception on instead of the denial or the data.
\* Of a handle the agent has the data already: close passes the exception on,
\* __del__ swallows it.  _closed_recorded is set by then, so nobody tries again.
RecordFails(t) ==
    /\ pc[t] \in {"blocked", "record"}
    /\ suppress = 0
    /\ failed' = failed \cup {t}
    /\ \/ result[t] # "interrupted" /\ result' = [result EXCEPT ![t] = "error"]
       \/ op[t].kind = "open" /\ pc[t] = "record" /\ UNCHANGED result
       \/ result[t] = "interrupted" /\ UNCHANGED result
    /\ Goto(t, "done")
    /\ UNCHANGED << suppress, op, events, overlapped, leaks, ops >>

-----------------------------------------------------------------------------
(* open and Path.open *)

\* The file is opened, or opening it raises and the exception is recorded.
Open(t) ==
    /\ pc[t] = "opening"
    /\ \/ Goto(t, "reading") /\ UNCHANGED result
       \/ Goto(t, "record") /\ result' = [result EXCEPT ![t] = "error"]
    /\ UNCHANGED << suppress, op, events, overlapped, failed, leaks, ops >>

\* The handle is read and closed (close, __exit__ or __del__, whichever comes
\* first: _closed_recorded makes the others do nothing).
Close(t, res) ==
    /\ pc[t] = "reading"
    /\ result' = [result EXCEPT ![t] = res]
    /\ Goto(t, "record")
    /\ UNCHANGED << suppress, op, events, overlapped, failed, leaks, ops >>

-----------------------------------------------------------------------------
(* Path.read_text and Path.read_bytes *)

\* `_SUPPRESS_READ_EVENTS += 1`: from here on every other operation of the
\* process overlaps a raised region.
Bump(t) ==
    /\ pc[t] = "bump"
    /\ suppress' = suppress + 1
    /\ overlapped' = overlapped \cup {u \in Threads \ {t} : pc[u] \in Active}
    /\ Goto(t, "inner")
    /\ UNCHANGED << op, result, events, failed, leaks, ops >>

\* The original function opens the file through the hooked Path.open, which
\* must find the counter raised: otherwise it records an event of its own.
InnerOpen(t) ==
    /\ pc[t] = "inner"
    /\ events' = [events EXCEPT ![t] = RecordedEvents(t)]
    /\ Goto(t, "window")
    /\ UNCHANGED << suppress, op, result, overlapped, failed, leaks, ops >>

\* The original function returns the data or raises an Exception.
InnerRead(t, res) ==
    /\ pc[t] = "window"
    /\ result' = [result EXCEPT ![t] = res]
    /\ Goto(t, "drop")
    /\ UNCHANGED << suppress, op, events, overlapped, failed, leaks, ops >>

\* `_SUPPRESS_READ_EVENTS -= 1`, in the except branch and in the else branch.
Drop(t) ==
    /\ pc[t] = "drop"
    /\ suppress' = suppress - 1
    /\ Goto(t, "record")
    /\ UNCHANGED << op, result, events, overlapped, failed, leaks, ops >>

-----------------------------------------------------------------------------
(* KeyboardInterrupt, delivered to the main thread between any two steps.  *)
(* It is no Exception, so neither branch that lowers the counter runs.     *)

Interrupt ==
    /\ pc[Main] \in Active \ {"reading"}
    /\ result' = [result EXCEPT ![Main] = "interrupted"]
    /\ leaks' = IF InRaised(Main) THEN leaks + 1 ELSE leaks
    /\ Goto(Main, "done")
    /\ UNCHANGED << suppress, op, events, overlapped, failed, ops >>

\* With a handle open, unwinding drops or exits it, and that records.
InterruptHandle ==
    /\ pc[Main] = "reading"
    /\ result' = [result EXCEPT ![Main] = "interrupted"]
    /\ Goto(Main, "record")
    /\ UNCHANGED << suppress, op, events, overlapped, failed, leaks, ops >>

-----------------------------------------------------------------------------
Next ==
    \/ \E t \in Threads :
          \/ \E kind \in {"open", "whole"}, path \in Paths : Start(t, kind, path)
          \/ Entry(t) \/ RawOpen(t) \/ Risk(t) \/ Block(t) \/ Record(t)
          \/ RecordFails(t) \/ Open(t) \/ Bump(t) \/ InnerOpen(t) \/ Drop(t)
          \/ \E res \in {"data", "error"} :
                RawRead(t, res) \/ Close(t, res) \/ InnerRead(t, res)
    \/ Interrupt
    \/ InterruptHandle

Spec == Init /\ [][Next]_vars

\* The interpreter runs every thread that is inside a hook or the function it
\* wraps; whether the agent starts a read or is interrupted is left open.
Fairness ==
    \A t \in Threads :
        WF_vars(\/ Entry(t) \/ RawOpen(t) \/ Risk(t) \/ Block(t) \/ Record(t)
                \/ Open(t) \/ Bump(t) \/ InnerOpen(t) \/ Drop(t)
                \/ \E res \in {"data", "error"} :
                      RawRead(t, res) \/ Close(t, res) \/ InnerRead(t, res))

FairSpec == Spec /\ Fairness

-----------------------------------------------------------------------------
(* Properties *)

\* The counter is raised once for every thread between its += and its -=, and
\* once for every interrupt that hit such a thread (hooks.py:437-445 and
\* 458-466): it is never negative and nothing else leaves it raised.
CounterAccounts ==
    /\ TypeOK
    /\ suppress = Cardinality({t \in Threads : InRaised(t)}) + leaks

\* No read is recorded twice, although read_text goes through the hooked
\* Path.open as well (hooks.py:388-397, 434-447).
AtMostOneEvent == \A t \in Threads : events[t] <= 1

\* A read that came back is recorded unless another thread's raised region
\* overlapped it (hooks.py:245 and 389 test a global of the process), an
\* interrupt had left the counter raised, or the recorder failed; and of
\* read_text and read_bytes, which then end with the recorder's exception, the
\* agent has no data that is not in the trace.
HiddenOnlyByOverlap ==
    \A t \in Threads :
        pc[t] = "done" /\ result[t] # "interrupted" /\ t \notin overlapped =>
            \/ events[t] = 1
            \/ t \in failed /\ (op[t].kind = "whole" => result[t] = "error")

\* The policy is bypassed only by such an overlap: without one the agent never
\* gets the data of a path the policy denies (hooks.py:372-385, 389-391).
DeniedDataOnlyByOverlap ==
    \A t \in Threads :
        pc[t] = "done" /\ result[t] = "data" /\ op[t].path \in Denied => t \in overlapped

\* Every raised region comes to an end, so a process that no interrupt hit goes
\* back to recording when its read_text calls are over.  (There are MaxOps
\* reads: with endlessly many, two threads whose regions keep overlapping
\* could keep the counter up for ever.)
RecordingResumes == (suppress > 0) ~> (suppress = 0 \/ leaks > 0)

\* docs/testing/file-read-tracking-test-plan.md:36 expects of open, Path.open,
\* read_text and read_bytes that the "trace event is recorded"; said here of
\* the reads whose recorder did not fail.
EveryReadRecorded ==
    \A t \in Threads :
        pc[t] = "done" /\ result[t] = "data" /\ t \notin failed => events[t] = 1
=============================================================================
