------------------------------ MODULE EventLog ------------------------------
(***************************************************************************)
(* recorder/core.py: record_event called by the threads of every traced    *)
(* Python process of one run.  The processes share the file events.jsonl;  *)
(* _EVENT_LOCK is a threading.Lock, so each process has one of its own and *)
(* it orders only the threads of that process.                             *)
(*                                                                         *)
(* A call takes the lock, counts the lines of the file to obtain its seq,  *)
(* and appends one line with a single O_APPEND write.  A write that finds  *)
(* the disk full, or whose process is killed, may leave only the beginning *)
(* of its line, without the newline: the next event goes onto the same     *)
(* line of the file.  So the log is the sequence of what the writes left,  *)
(* its pieces, each with the line of the file it is on.                    *)
(*                                                                         *)
(* Around the calls the model has what Python does to them: a new          *)
(* interpreter started with bootstrap/sitecustomize (a fresh lock), a fork *)
(* (the lock's memory is copied as it is), a kill at any point, an error   *)
(* inside the locked region, and the garbage collector running             *)
(* _TracingReadFile.__del__ in whatever thread allocates next, which       *)
(* records an event of its own.                                            *)
(***************************************************************************)
EXTENDS Integers, Sequences

CONSTANTS
    Procs,      \* traced Python processes that a run can have
    Root,       \* the process `traceseal run` starts
    Threads,    \* all threads that call hooked functions
    ProcOf,     \* the process of each thread
    NoThread,   \* "the lock is free"
    MaxCalls    \* bound: record_event calls started in a behaviour

ASSUME ConstantsAssumption ==
    /\ Root \in Procs
    /\ ProcOf \in [Threads -> Procs]
    /\ NoThread \notin Threads
    /\ MaxCalls \in Nat

VARIABLES
    log,        \* events.jsonl, as the pieces written to it
    lock,       \* _EVENT_LOCK of each process: its holder, or NoThread
    pc,         \* where each thread is: in agent code or in record_event
    seq,        \* the local `seq` of record_event; 0 outside a call
    status,     \* "unborn", "live" or "dead", for each process
    unclosed,   \* processes with an unclosed read handle in a garbage cycle
    calls       \* record_event calls started so far (bounded by MaxCalls)

vars == << log, lock, pc, seq, status, unclosed, calls >>

\* A piece: its writer, the number in it, its line, and whether it ends that line.
LogLine == [proc : Procs, seq : Nat, line : Nat, end : {"newline", "cut"}]

Locked == {"count", "append", "wedged"}   \* inside `with _EVENT_LOCK`

TypeOK ==
    /\ log \in Seq(LogLine)
    /\ lock \in [Procs -> Threads \cup {NoThread}]
    /\ pc \in [Threads -> {"agent", "wait", "gone"} \cup Locked]
    /\ seq \in [Threads -> Nat]
    /\ status \in [Procs -> {"unborn", "live", "dead"}]
    /\ unclosed \in SUBSET Procs
    /\ calls \in 0 .. MaxCalls

Init ==
    /\ log = << >>
    /\ lock = [p \in Procs |-> NoThread]
    /\ pc = [t \in Threads |-> "agent"]
    /\ seq = [t \in Threads |-> 0]
    /\ status = [p \in Procs |-> IF p = Root THEN "live" ELSE "unborn"]
    /\ unclosed = {}
    /\ calls = 0

Running(t, where) == status[ProcOf[t]] = "live" /\ pc[t] = where

\* The lines that the first i pieces make up, a cut last one included.
LinesTo(i) == IF i = 0 THEN 0 ELSE log[i].line

Cut(i) == i # 0 /\ log[i].end = "cut"

\* The piece that thread t writes now: it begins a line, or goes on with one
\* that was cut.
Piece(t, end) ==
    [proc |-> ProcOf[t],
     seq  |-> seq[t],
     line |-> LinesTo(Len(log)) + (IF Cut(Len(log)) THEN 0 ELSE 1),
     end  |-> end]

\* A write by t that fails or is killed: nothing of it, or a part, is in the file.
WritesInPart(t) == log' \in {log, Append(log, Piece(t, "cut"))}

-----------------------------------------------------------------------------
(* Faulty variants of the steps below.  No specification uses them: each is *)
(* a bug the code could have, and shows which property it would break.      *)

\* No lock at all.
AcquireUnlocked(t) ==
    /\ Running(t, "wait")
    /\ lock' = [lock EXCEPT ![ProcOf[t]] = t]
    /\ pc' = [pc EXCEPT ![t] = "count"]
    /\ UNCHANGED << log, seq, status, unclosed, calls >>

\* The lock covers the count only, not the append.
CountAndRelease(t) ==
    /\ Running(t, "count")
    /\ seq' = [seq EXCEPT ![t] = LinesTo(Len(log)) + 1]
    /\ lock' = [lock EXCEPT ![ProcOf[t]] = NoThread]
    /\ pc' = [pc EXCEPT ![t] = "append"]
    /\ UNCHANGED << log, status, unclosed, calls >>

\* The newlines are counted, so a cut line at the end does not count.
CountNewlines(t) ==
    /\ Running(t, "count")
    /\ seq' = [seq EXCEPT ![t] = LinesTo(Len(log)) + (IF Cut(Len(log)) THEN 0 ELSE 1)]
    /\ pc' = [pc EXCEPT ![t] = "append"]
    /\ UNCHANGED << log, lock, status, unclosed, calls >>

\* acquire() ... release() without try/finally: an exception keeps the lock.
FailHolding(t) ==
    /\ Running(t, "count") \/ Running(t, "append")
    /\ IF pc[t] = "append" THEN WritesInPart(t) ELSE UNCHANGED log
    /\ pc' = [pc EXCEPT ![t] = "agent"]
    /\ UNCHANGED << lock, seq, status, unclosed, calls >>

-----------------------------------------------------------------------------
(* record_event *)

\* A hooked function of the agent calls record_event (up to the lock).
Begin(t) ==
    /\ Running(t, "agent")
    /\ calls < MaxCalls
    /\ calls' = calls + 1
    /\ pc' = [pc EXCEPT ![t] = "wait"]
    /\ UNCHANGED << log, lock, seq, status, unclosed >>

\* `with _EVENT_LOCK:` -- not reentrant, and blocking without a timeout.
Acquire(t) ==
    /\ Running(t, "wait")
    /\ lock[ProcOf[t]] = NoThread
    /\ lock' = [lock EXCEPT ![ProcOf[t]] = t]
    /\ pc' = [pc EXCEPT ![t] = "count"]
    /\ UNCHANGED << log, seq, status, unclosed, calls >>

\* _next_event_id: the number of lines now in the file, plus one.  A cut line
\* at the end counts.
Count(t) ==
    /\ Running(t, "count")
    /\ seq' = [seq EXCEPT ![t] = LinesTo(Len(log)) + 1]
    /\ pc' = [pc EXCEPT ![t] = "append"]
    /\ UNCHANGED << log, lock, status, unclosed, calls >>

\* The line goes to the end of the file, wherever that is by now; then the
\* `with` statement releases the lock.
AppendLine(t) ==
    /\ Running(t, "append")
    /\ log' = Append(log, Piece(t, "newline"))
    /\ lock' = [lock EXCEPT ![ProcOf[t]] = NoThread]
    /\ pc' = [pc EXCEPT ![t] = "agent"]
    /\ seq' = [seq EXCEPT ![t] = 0]
    /\ UNCHANGED << status, unclosed, calls >>

\* An OSError (disk full, handle limit), an unserialisable event, or a count
\* that cannot decode a line cut inside a character: the event is lost, or a
\* part of it is written, and the lock is released by `with`.
Fail(t) ==
    /\ Running(t, "count") \/ Running(t, "append")
    /\ IF pc[t] = "append" THEN WritesInPart(t) ELSE UNCHANGED log
    /\ lock' = [lock EXCEPT ![ProcOf[t]] = NoThread]
    /\ pc' = [pc EXCEPT ![t] = "agent"]
    /\ seq' = [seq EXCEPT ![t] = 0]
    /\ UNCHANGED << status, unclosed, calls >>

-----------------------------------------------------------------------------
(* What happens around a call *)

\* The agent drops an unclosed traced read handle that only the cyclic
\* garbage collector can reclaim.
DropHandle(t) ==
    /\ Running(t, "agent")
    /\ unclosed' = unclosed \cup {ProcOf[t]}
    /\ UNCHANGED << log, lock, pc, seq, status, calls >>

\* The collector runs __del__ in a thread that is in agent code: _record_close
\* makes an ordinary call of record_event.
Finalize(t) ==
    /\ Running(t, "agent")
    /\ ProcOf[t] \in unclosed
    /\ calls < MaxCalls
    /\ calls' = calls + 1
    /\ unclosed' = unclosed \ {ProcOf[t]}
    /\ pc' = [pc EXCEPT ![t] = "wait"]
    /\ UNCHANGED << log, lock, seq, status >>

\* The collector runs __del__ in a thread that is inside the locked region:
\* the nested record_event waits for the lock its own thread holds.
FinalizeLocked(t) ==
    /\ Running(t, "count") \/ Running(t, "append")
    /\ ProcOf[t] \in unclosed
    /\ unclosed' = unclosed \ {ProcOf[t]}
    /\ pc' = [pc EXCEPT ![t] = "wedged"]
    /\ UNCHANGED << log, lock, seq, status, calls >>

\* The agent starts a new traced interpreter: PYTHONPATH and
\* TRACESEAL_RUN_DIR are inherited, the module and its lock are new.
Spawn(t, q) ==
    /\ Running(t, "agent")
    /\ status[q] = "unborn"
    /\ status' = [status EXCEPT ![q] = "live"]
    /\ UNCHANGED << log, lock, pc, seq, unclosed, calls >>

\* The agent forks (multiprocessing on POSIX): the child's copy of the lock
\* is held if any thread of the parent held it, and that thread does not
\* exist in the child.  Garbage is copied too.
Fork(t, q) ==
    LET p == ProcOf[t] IN
    /\ Running(t, "agent")
    /\ status[q] = "unborn"
    /\ status' = [status EXCEPT ![q] = "live"]
    /\ lock' = [lock EXCEPT ![q] = lock[p]]
    /\ unclosed' = IF p \in unclosed THEN unclosed \cup {q} ELSE unclosed
    /\ UNCHANGED << log, pc, seq, calls >>

\* The process ends, by itself or killed: of an event between its count and
\* the end of its write nothing or a part is in the file, and what was written
\* before stays.
Exit(p) ==
    /\ status[p] = "live"
    /\ \/ UNCHANGED log
       \/ \E t \in Threads : ProcOf[t] = p /\ Running(t, "append") /\ WritesInPart(t)
    /\ status' = [status EXCEPT ![p] = "dead"]
    /\ pc' = [t \in Threads |-> IF ProcOf[t] = p THEN "gone" ELSE pc[t]]
    /\ lock' = [lock EXCEPT ![p] = NoThread]
    /\ unclosed' = unclosed \ {p}
    /\ seq' = [t \in Threads |-> IF ProcOf[t] = p THEN 0 ELSE seq[t]]
    /\ UNCHANGED calls

-----------------------------------------------------------------------------
Next ==
    \/ \E t \in Threads :
          \/ Begin(t) \/ Acquire(t) \/ Count(t) \/ AppendLine(t) \/ Fail(t)
          \/ DropHandle(t) \/ Finalize(t) \/ FinalizeLocked(t)
          \/ \E q \in Procs : Spawn(t, q) \/ Fork(t, q)
    \/ \E p \in Procs : Exit(p)

Spec == Init /\ [][Next]_vars

\* The interpreter keeps running a thread that can run.  Nothing is assumed
\* about the agent's own steps, failures, forks, exits or the collector.
Fairness ==
    \A t \in Threads : WF_vars(Acquire(t)) /\ WF_vars(Count(t)) /\ WF_vars(AppendLine(t))

FairSpec == Spec /\ Fairness

-----------------------------------------------------------------------------
(* Properties *)

\* A number n was counted after the c-th piece, and process p has written
\* nothing from then to the k-th.
CountedAt(n, c, p, k) ==
    /\ n = LinesTo(c) + 1
    /\ \A j \in (c + 1) .. k : log[j].proc # p

\* Since a thread was given its number only other processes have written: no
\* thread of the same process appended between the count and the append
\* (core.py:62, the count and the append are under one lock).
PendingLagIsForeign ==
    \A t \in Threads :
        pc[t] = "append" => \E c \in 0 .. Len(log) : CountedAt(seq[t], c, ProcOf[t], Len(log))

\* The number of an event is that of the line after the ones its writer
\* counted, and between the count and the event only other processes wrote,
\* whole lines or parts (core.py:43-49, 62-63).  The lock is per process, so
\* this is all that record_event can promise when a traced agent starts traced
\* children.
LagIsForeign ==
    \A i \in 1 .. Len(log) :
        \E c \in 0 .. (i - 1) : CountedAt(log[i].seq, c, log[i].proc, i - 1)

\* The numbers of one process (hence its ids evt_NNNN) never go back in file
\* order, and one is given twice only if the event that had it first was
\* written onto a line that had been cut.
ProcSeqIncreasing ==
    \A i, j \in 1 .. Len(log) :
        i < j /\ log[i].proc = log[j].proc =>
            /\ log[i].seq <= log[j].seq
            /\ log[i].seq = log[j].seq => Cut(i - 1)

\* As long as only one process has written, the number of an event is that of
\* its line, and one more if the line had been cut: numbering starts at 1 and
\* is right again on the next line, whatever threads, failures and kills did.
SoleWriterNumbersLines ==
    \A i \in 1 .. Len(log) :
        (\A j \in 1 .. i : log[j].proc = log[i].proc) =>
            log[i].seq = log[i].line + (IF Cut(i - 1) THEN 1 ELSE 0)

\* A thread inside the locked region is the holder of its process's lock, and
\* a lock that is held is held by such a thread or was copied, held, by fork.
\* An exception in the region, a kill and the collector keep both.
LockAccounted ==
    /\ \A t \in Threads : pc[t] \in Locked => lock[ProcOf[t]] = t
    /\ \A p \in Procs :
          lock[p] # NoThread /\ ProcOf[lock[p]] = p => pc[lock[p]] \in Locked

\* The lock of p can never be released again: it was copied while held, or
\* its holder waits for it in a finalizer.
Stuck(p) ==
    /\ lock[p] # NoThread
    /\ ProcOf[lock[p]] # p \/ pc[lock[p]] = "wedged"

\* A call of record_event comes back, unless its process ends or its lock is
\* stuck in one of the two ways above: there is no third way to hang the
\* agent (core.py:62 blocks without a timeout).
CallsReturn ==
    \A t \in Threads :
        pc[t] = "wait" ~> (pc[t] \in {"agent", "gone"} \/ Stuck(ProcOf[t]))

\* A process whose lock is stuck never writes another line, nor a part of one.
StuckIsSilent ==
    [][\A p \in Procs : Stuck(p) /\ log' # log => log'[Len(log')].proc # p]_vars

\* record_event implements the one-step recorder of SharedLog: the log is the
\* same, cut lines included, and everything else is hidden.
Abstract == INSTANCE SharedLog WITH Procs <- Procs, log <- log

Implements == Abstract!Spec
=============================================================================
