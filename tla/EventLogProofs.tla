--------------------------- MODULE EventLogProofs ---------------------------
(***************************************************************************)
(* Proofs about EventLog, for any processes, threads and number of calls,  *)
(* and about what TraceAnalysis makes of its log, for events of any        *)
(* contents.  The inductive invariant is IInv: the lock is held by whoever *)
(* is in the locked region, therefore nobody of the same process can       *)
(* append between a thread's count and its append, therefore a line's lag  *)
(* is foreign.  What a failed or killed write leaves is a piece like any   *)
(* other, only that the next one goes onto its line (LinesAccounted).  The *)
(* order of a report is by those numbers.                                  *)
(***************************************************************************)
EXTENDS TraceAnalysis, FiniteSetTheorems, FunctionTheorems, WellFoundedInduction, TLAPS

\* Threads of a process that is not running are not inside a call.
OnlyLiveCall ==
    \A t \in Threads :
        status[ProcOf[t]] # "live" => pc[t] \in {"agent", "gone"}

\* A lock names only threads of processes that were started.
LockHolderBorn ==
    \A p \in Procs :
        lock[p] # NoThread => status[ProcOf[lock[p]]] # "unborn"

\* A piece is on the line after the previous one, or on the same if that was
\* cut; so the lines of the pieces never go back, and up to the first cut they
\* are 1, 2, 3, ...
LinesAccounted ==
    /\ \A i \in 1 .. Len(log) : log[i].line = LinesTo(i - 1) + (IF Cut(i - 1) THEN 0 ELSE 1)
    /\ \A i, j \in 1 .. Len(log) : i <= j => log[i].line <= log[j].line
    /\ \A i \in 1 .. Len(log) : (\A k \in 1 .. i - 1 : ~Cut(k)) => log[i].line = i

IInv ==
    /\ TypeOK
    /\ LinesAccounted
    /\ OnlyLiveCall
    /\ LockHolderBorn
    /\ LockAccounted
    /\ PendingLagIsForeign
    /\ LagIsForeign

-----------------------------------------------------------------------------
(* Writing a piece *)

\* What a step can do to the log: leave it alone, or add a piece by a thread
\* that is about to append.
Writes(t, end) ==
    /\ Running(t, "append")
    /\ log' = Append(log, Piece(t, end))

LEMMA LogStep ==
    [Next]_vars => \/ UNCHANGED log
                   \/ \E t \in Threads : \E end \in {"newline", "cut"} : Writes(t, end)
<1> SUFFICES ASSUME [Next]_vars
             PROVE  \/ UNCHANGED log
                    \/ \E t \in Threads : \E end \in {"newline", "cut"} : Writes(t, end)
  OBVIOUS
<1>1. ASSUME NEW t \in Threads, Running(t, "append"), WritesInPart(t)
      PROVE  UNCHANGED log \/ Writes(t, "cut")
  BY <1>1 DEF WritesInPart, Writes
<1>2. ASSUME NEW t \in Threads, AppendLine(t)
      PROVE  Writes(t, "newline")
  BY <1>2 DEF AppendLine, Writes
<1>3. ASSUME NEW t \in Threads, Fail(t)
      PROVE  UNCHANGED log \/ Writes(t, "cut")
  BY <1>1, <1>3 DEF Fail, Running
<1>4. ASSUME NEW p \in Procs, Exit(p)
      PROVE  UNCHANGED log \/ \E t \in Threads : Writes(t, "cut")
  BY <1>1, <1>4 DEF Exit
<1>5. QED
  BY <1>2, <1>3, <1>4 DEF Next, vars, Begin, Acquire, Count, DropHandle, Finalize,
     FinalizeLocked, Spawn, Fork

\* Lines and numbers are numbers.
LEMMA Numbers ==
    ASSUME TypeOK
    PROVE  /\ log \in Seq(LogLine) /\ Len(log) \in Nat
           /\ \A i \in 1 .. Len(log) : log[i].line \in Nat /\ log[i].seq \in Nat
           /\ \A i \in 0 .. Len(log) : LinesTo(i) \in Nat
<1>1. log \in Seq(LogLine) /\ Len(log) \in Nat
  BY DEF TypeOK
<1>2. \A i \in 1 .. Len(log) : log[i] \in LogLine
  BY <1>1
<1>3. \A l \in LogLine : l.line \in Nat /\ l.seq \in Nat
  BY DEF LogLine
<1>4. \A i \in 1 .. Len(log) : log[i].line \in Nat /\ log[i].seq \in Nat
  BY <1>2, <1>3
<1>5. ASSUME NEW i \in 0 .. Len(log)
      PROVE  LinesTo(i) \in Nat
  <2>1. i # 0 => i \in 1 .. Len(log)
    BY <1>1
  <2>2. QED
    BY <1>4, <2>1 DEF LinesTo
<1>6. QED
  BY <1>1, <1>4, <1>5

\* The piece at the end, and those before it.
LEMMA Written ==
    ASSUME TypeOK, NEW t \in Threads, NEW end \in {"newline", "cut"},
           log' = Append(log, Piece(t, end))
    PROVE  /\ log' \in Seq(LogLine)
           /\ Len(log) \in Nat /\ Len(log') = Len(log) + 1
           /\ \A j \in 1 .. Len(log) : log'[j] = log[j]
           /\ log'[Len(log) + 1].proc = ProcOf[t]
           /\ log'[Len(log) + 1].seq = seq[t]
           /\ log'[Len(log) + 1].line = LinesTo(Len(log)) + (IF Cut(Len(log)) THEN 0 ELSE 1)
<1> DEFINE n == LinesTo(Len(log)) + (IF Cut(Len(log)) THEN 0 ELSE 1)
<1>1. log \in Seq(LogLine) /\ Len(log) \in Nat
  BY DEF TypeOK
<1>2. LinesTo(Len(log)) \in Nat
  BY <1>1, Numbers
<1>3. n \in Nat
  BY <1>2
<1> HIDE DEF n
<1>4. Piece(t, end) = [proc |-> ProcOf[t], seq |-> seq[t], line |-> n, end |-> end]
  BY DEF Piece, n
<1>5. Piece(t, end) \in LogLine
  BY <1>3, <1>4, ConstantsAssumption DEF TypeOK, LogLine
<1>6. QED
  BY <1>1, <1>4, <1>5 DEF n

\* Every piece that is added is on the line where it belongs.
LEMMA LinesStep == TypeOK /\ LinesAccounted /\ [Next]_vars => LinesAccounted'
<1> SUFFICES ASSUME TypeOK, LinesAccounted, [Next]_vars
             PROVE  LinesAccounted'
  OBVIOUS
<1>1. CASE UNCHANGED log
  BY <1>1 DEF LinesAccounted, LinesTo, Cut
<1>2. ASSUME NEW t \in Threads, NEW end \in {"newline", "cut"}, Writes(t, end)
      PROVE  LinesAccounted'
  <2> DEFINE n == Len(log) + 1
  <2>1. /\ Len(log) \in Nat /\ Len(log') = n
        /\ \A j \in 1 .. Len(log) : log'[j] = log[j]
        /\ log'[n].line = LinesTo(Len(log)) + (IF Cut(Len(log)) THEN 0 ELSE 1)
    BY <1>2, Written DEF Writes
  <2>2. \A i \in 1 .. Len(log') : i = n \/ i \in 1 .. Len(log)
    BY <2>1
  <2>3. \A i \in 1 .. Len(log) : log[i].line \in Nat
    BY Numbers
  <2>4. \A i \in 0 .. Len(log) : LinesTo(i)' = LinesTo(i) /\ Cut(i)' = Cut(i) /\ LinesTo(i) \in Nat
    BY <2>1, Numbers DEF LinesTo, Cut
  <2>5. ASSUME NEW i \in 1 .. Len(log')
        PROVE  /\ i - 1 \in 0 .. Len(log)
               /\ log'[i].line = LinesTo(i - 1)' + (IF Cut(i - 1)' THEN 0 ELSE 1)
    <3>1. i - 1 \in 0 .. Len(log)
      BY <2>1
    <3>2. log'[i].line = LinesTo(i - 1) + (IF Cut(i - 1) THEN 0 ELSE 1)
      <4>1. CASE i = n
        BY <2>1, <4>1
      <4>2. CASE i \in 1 .. Len(log)
        BY <2>1, <4>2 DEF LinesAccounted
      <4>3. QED
        BY <2>2, <4>1, <4>2
    <3>3. QED
      BY <2>4, <3>1, <3>2
  <2>6. ASSUME NEW i \in 1 .. Len(log'), NEW j \in 1 .. Len(log'), i <= j
        PROVE  log'[i].line <= log'[j].line
    <3>1. CASE j \in 1 .. Len(log)
      <4>1. i \in 1 .. Len(log)
        BY <2>1, <2>6, <3>1
      <4>2. QED
        BY <2>1, <2>6, <3>1, <4>1 DEF LinesAccounted
    <3>2. CASE j = n /\ i = n
      <4>1. log'[n].line \in Nat
        BY <2>1, <2>4
      <4>2. QED
        BY <3>2, <4>1
    <3>3. CASE j = n /\ i \in 1 .. Len(log)
      <4>1. Len(log) \in 1 .. Len(log) /\ i <= Len(log) /\ Len(log) # 0
        BY <2>1, <3>3
      <4>2. log[i].line <= log[Len(log)].line
        BY <3>3, <4>1 DEF LinesAccounted
      <4>3. LinesTo(Len(log)) = log[Len(log)].line
        BY <4>1 DEF LinesTo
      <4>4. log'[n].line >= log[Len(log)].line
        BY <2>1, <2>3, <4>1, <4>3
      <4>5. QED
        BY <2>1, <2>3, <2>4, <3>3, <4>1, <4>2, <4>3, <4>4
    <3>4. QED
      BY <2>2, <3>1, <3>2, <3>3
  <2>7. ASSUME NEW i \in 1 .. Len(log'), \A k \in 1 .. i - 1 : ~Cut(k)'
        PROVE  log'[i].line = i
    <3>1. \A k \in 1 .. i - 1 : k \in 0 .. Len(log) /\ ~Cut(k)
      <4>1. \A k \in 1 .. i - 1 : k \in 0 .. Len(log)
        BY <2>1
      <4>2. QED
        BY <2>4, <2>7, <4>1
    <3>2. CASE i \in 1 .. Len(log)
      BY <2>1, <3>1, <3>2 DEF LinesAccounted
    <3>3. CASE i = n
      <4>1. ~Cut(Len(log))
        <5>1. CASE Len(log) = 0
          BY <5>1 DEF Cut
        <5>2. CASE Len(log) # 0
          BY <2>1, <3>1, <3>3, <5>2
        <5>3. QED
          BY <5>1, <5>2
      <4>2. LinesTo(Len(log)) = Len(log)
        <5>1. CASE Len(log) = 0
          BY <5>1 DEF LinesTo
        <5>2. CASE Len(log) # 0
          <6>1. Len(log) \in 1 .. Len(log) /\ \A k \in 1 .. Len(log) - 1 : k \in 1 .. i - 1
            BY <2>1, <3>3, <5>2
          <6>2. log[Len(log)].line = Len(log)
            BY <3>1, <6>1 DEF LinesAccounted
          <6>3. QED
            BY <5>2, <6>2 DEF LinesTo
        <5>3. QED
          BY <5>1, <5>2
      <4>3. QED
        BY <2>1, <3>3, <4>1, <4>2
    <3>4. QED
      BY <2>2, <3>2, <3>3
  <2>8. QED
    BY <2>5, <2>6, <2>7 DEF LinesAccounted
<1>3. QED
  BY <1>1, <1>2, LogStep

\* The lines never go back, the beginning of the file included.
LEMMA LinesMonotone ==
    ASSUME TypeOK, LinesAccounted, NEW a \in 0 .. Len(log), NEW b \in 0 .. Len(log), a <= b
    PROVE  LinesTo(a) \in Nat /\ LinesTo(b) \in Nat /\ LinesTo(a) <= LinesTo(b)
<1>1. Len(log) \in Nat /\ \A i \in 1 .. Len(log) : log[i].line \in Nat
  BY Numbers
<1>2. CASE a = 0
  BY <1>1, <1>2 DEF LinesTo
<1>3. CASE a # 0
  <2>1. a \in 1 .. Len(log) /\ b \in 1 .. Len(log) /\ b # 0
    BY <1>1, <1>3
  <2>2. log[a].line <= log[b].line
    BY <2>1 DEF LinesAccounted
  <2>3. QED
    BY <1>1, <1>3, <2>1, <2>2 DEF LinesTo
<1>4. QED
  BY <1>2, <1>3

-----------------------------------------------------------------------------
(* Type correctness *)

\* One step of Next preserves the types.
LEMMA TypeOKStep == TypeOK /\ [Next]_vars => TypeOK'
<1> SUFFICES ASSUME TypeOK, [Next]_vars
             PROVE  TypeOK'
  OBVIOUS
<1>0. log' \in Seq(LogLine)
  <2>1. CASE UNCHANGED log
    BY <2>1 DEF TypeOK
  <2>2. ASSUME NEW t \in Threads, NEW end \in {"newline", "cut"}, Writes(t, end)
        PROVE  log' \in Seq(LogLine)
    BY <2>2, Written DEF Writes
  <2>3. QED
    BY <2>1, <2>2, LogStep
<1> USE ConstantsAssumption DEF TypeOK, Locked, Running
<1>1. ASSUME NEW t \in Threads, Begin(t)
      PROVE  TypeOK'
  BY <1>1 DEF Begin
<1>2. ASSUME NEW t \in Threads, Acquire(t)
      PROVE  TypeOK'
  BY <1>2 DEF Acquire
<1>3. ASSUME NEW t \in Threads, Count(t)
      PROVE  TypeOK'
  <2>1. LinesTo(Len(log)) + 1 \in Nat
    <3>1. Len(log) \in 0 .. Len(log) /\ LinesTo(Len(log)) \in Nat
      BY Numbers
    <3>2. QED
      BY <3>1
  <2>2. QED
    BY <1>3, <2>1 DEF Count
<1>4. ASSUME NEW t \in Threads, AppendLine(t)
      PROVE  TypeOK'
  BY <1>4, <1>0 DEF AppendLine
<1>5. ASSUME NEW t \in Threads, Fail(t)
      PROVE  TypeOK'
  BY <1>5, <1>0 DEF Fail
<1>6. ASSUME NEW t \in Threads, DropHandle(t) \/ Finalize(t) \/ FinalizeLocked(t)
      PROVE  TypeOK'
  <2>1. ProcOf[t] \in Procs
    OBVIOUS
  <2>2. unclosed' \in SUBSET Procs
    BY <1>6, <2>1 DEF DropHandle, Finalize, FinalizeLocked
  <2>3. CASE DropHandle(t)
    BY <2>2, <2>3 DEF DropHandle
  <2>4. CASE Finalize(t)
    BY <2>2, <2>4 DEF Finalize
  <2>5. CASE FinalizeLocked(t)
    BY <2>2, <2>5 DEF FinalizeLocked
  <2>6. QED
    BY <1>6, <2>3, <2>4, <2>5
<1>7. ASSUME NEW t \in Threads, NEW q \in Procs, Spawn(t, q) \/ Fork(t, q)
      PROVE  TypeOK'
  <2>1. CASE Spawn(t, q)
    BY <2>1 DEF Spawn
  <2>2. CASE Fork(t, q)
    <3>1. unclosed' \in SUBSET Procs
      BY <2>2 DEF Fork
    <3>2. lock' \in [Procs -> Threads \cup {NoThread}]
      BY <2>2 DEF Fork
    <3>3. status' \in [Procs -> {"unborn", "live", "dead"}]
      BY <2>2 DEF Fork
    <3>4. QED
      BY <2>2, <3>1, <3>2, <3>3 DEF Fork
  <2>3. QED
    BY <1>7, <2>1, <2>2
<1>8. ASSUME NEW p \in Procs, Exit(p)
      PROVE  TypeOK'
  BY <1>8, <1>0 DEF Exit
<1>9. CASE UNCHANGED vars
  BY <1>9 DEF vars
<1>10. QED
  BY <1>1, <1>2, <1>3, <1>4, <1>5, <1>6, <1>7, <1>8, <1>9 DEF Next

\* The variables keep their types in every behaviour: in particular no step of
\* record_event produces a seq that is not a number.
THEOREM TypeCorrect == Spec => []TypeOK
<1>1. Init => TypeOK
  BY ConstantsAssumption DEF Init, TypeOK
<1>2. QED
  BY <1>1, TypeOKStep, PTL DEF Spec

-----------------------------------------------------------------------------
(* The lock *)

\* OnlyLiveCall and LockHolderBorn are kept by every step.
LEMMA LifeStep ==
    TypeOK /\ OnlyLiveCall /\ LockHolderBorn /\ [Next]_vars
        => OnlyLiveCall' /\ LockHolderBorn'
<1> SUFFICES ASSUME TypeOK, OnlyLiveCall, LockHolderBorn, [Next]_vars
             PROVE  OnlyLiveCall' /\ LockHolderBorn'
  OBVIOUS
<1> USE ConstantsAssumption DEF TypeOK, OnlyLiveCall, LockHolderBorn, Locked, Running
<1>1. ASSUME NEW t \in Threads,
             Begin(t) \/ Acquire(t) \/ Count(t) \/ AppendLine(t) \/ Fail(t)
      PROVE  OnlyLiveCall' /\ LockHolderBorn'
  <2>1. CASE Begin(t)
    BY <2>1 DEF Begin
  <2>2. CASE Acquire(t)
    BY <2>2 DEF Acquire
  <2>3. CASE Count(t)
    BY <2>3 DEF Count
  <2>4. CASE AppendLine(t)
    BY <2>4 DEF AppendLine
  <2>5. CASE Fail(t)
    BY <2>5 DEF Fail
  <2>6. QED
    BY <1>1, <2>1, <2>2, <2>3, <2>4, <2>5
<1>2. ASSUME NEW t \in Threads, DropHandle(t) \/ Finalize(t) \/ FinalizeLocked(t)
      PROVE  OnlyLiveCall' /\ LockHolderBorn'
  BY <1>2 DEF DropHandle, Finalize, FinalizeLocked
<1>3. ASSUME NEW t \in Threads, NEW q \in Procs, Spawn(t, q) \/ Fork(t, q)
      PROVE  OnlyLiveCall' /\ LockHolderBorn'
  <2>1. CASE Spawn(t, q)
    BY <2>1 DEF Spawn
  <2>2. CASE Fork(t, q)
    <3>1. OnlyLiveCall'
      BY <2>2 DEF Fork
    <3>2. ASSUME NEW p \in Procs, lock'[p] # NoThread
          PROVE  status'[ProcOf[lock'[p]]] # "unborn"
      <4>1. PICK r \in Procs : lock'[p] = lock[r]
        BY <2>2 DEF Fork
      <4>2. lock[r] \in Threads /\ status[ProcOf[lock[r]]] # "unborn"
        BY <3>2, <4>1
      <4>3. QED
        BY <2>2, <4>1, <4>2 DEF Fork
    <3>3. QED
      BY <3>1, <3>2
  <2>3. QED
    BY <1>3, <2>1, <2>2
<1>4. ASSUME NEW p \in Procs, Exit(p)
      PROVE  OnlyLiveCall' /\ LockHolderBorn'
  <2>1. OnlyLiveCall'
    BY <1>4 DEF Exit
  <2>2. LockHolderBorn'
    BY <1>4 DEF Exit
  <2>3. QED
    BY <2>1, <2>2
<1>5. CASE UNCHANGED vars
  BY <1>5 DEF vars
<1>6. QED
  BY <1>1, <1>2, <1>3, <1>4, <1>5 DEF Next

\* Every step keeps the correspondence between being inside the locked region
\* and holding the lock.
LEMMA LockAccountedStep ==
    TypeOK /\ OnlyLiveCall /\ LockHolderBorn /\ LockAccounted /\ [Next]_vars
        => LockAccounted'
<1> SUFFICES ASSUME TypeOK, OnlyLiveCall, LockHolderBorn, LockAccounted, [Next]_vars
             PROVE  LockAccounted'
  OBVIOUS
<1> USE ConstantsAssumption DEF TypeOK, LockAccounted, Locked, Running
<1>1. ASSUME NEW t \in Threads, Begin(t)
      PROVE  LockAccounted'
  BY <1>1 DEF Begin
<1>2. ASSUME NEW t \in Threads, Acquire(t)
      PROVE  LockAccounted'
  BY <1>2 DEF Acquire
<1>3. ASSUME NEW t \in Threads, Count(t)
      PROVE  LockAccounted'
  BY <1>3 DEF Count
<1>4. ASSUME NEW t \in Threads, AppendLine(t)
      PROVE  LockAccounted'
  BY <1>4 DEF AppendLine
<1>5. ASSUME NEW t \in Threads, Fail(t)
      PROVE  LockAccounted'
  BY <1>5 DEF Fail
<1>6. ASSUME NEW t \in Threads, DropHandle(t) \/ Finalize(t) \/ FinalizeLocked(t)
      PROVE  LockAccounted'
  BY <1>6, SMTT(30) DEF DropHandle, Finalize, FinalizeLocked
<1>7. ASSUME NEW t \in Threads, NEW q \in Procs, Spawn(t, q)
      PROVE  LockAccounted'
  BY <1>7 DEF Spawn
<1>8. ASSUME NEW t \in Threads, NEW q \in Procs, Fork(t, q)
      PROVE  LockAccounted'
  <2>1. \A u \in Threads : ProcOf[u] = q => pc[u] \notin Locked
    BY <1>8 DEF Fork, OnlyLiveCall
  <2>2. lock[ProcOf[t]] # NoThread => ProcOf[lock[ProcOf[t]]] # q
    BY <1>8 DEF Fork, LockHolderBorn
  <2>3. QED
    BY <1>8, <2>1, <2>2 DEF Fork
<1>9. ASSUME NEW p \in Procs, Exit(p)
      PROVE  LockAccounted'
  BY <1>9 DEF Exit
<1>10. CASE UNCHANGED vars
  BY <1>10 DEF vars
<1>11. QED
  BY <1>1, <1>2, <1>3, <1>4, <1>5, <1>6, <1>7, <1>8, <1>9, <1>10 DEF Next

-----------------------------------------------------------------------------
(* The lag of a line *)

\* The lag of a thread that has counted stays foreign: only the holder of the
\* process's lock could add a piece of the same process.
LEMMA PendingLagStep ==
    TypeOK /\ LockAccounted /\ PendingLagIsForeign /\ [Next]_vars
        => PendingLagIsForeign'
<1> SUFFICES ASSUME TypeOK, LockAccounted, PendingLagIsForeign, [Next]_vars,
                    NEW u \in Threads, pc'[u] = "append"
             PROVE  \E c \in 0 .. Len(log') :
                        /\ seq'[u] = LinesTo(c)' + 1
                        /\ \A j \in (c + 1) .. Len(log') : log'[j].proc # ProcOf[u]
  BY DEF PendingLagIsForeign, CountedAt
<1>1. Len(log) \in Nat
  BY DEF TypeOK
<1>2. \/ pc[u] = "append" /\ seq'[u] = seq[u]
      \/ seq'[u] = LinesTo(Len(log)) + 1 /\ UNCHANGED log
  <2>1. ASSUME NEW t \in Threads,
               Begin(t) \/ Acquire(t) \/ Count(t) \/ AppendLine(t) \/ Fail(t)
        PROVE  \/ pc[u] = "append" /\ seq'[u] = seq[u]
               \/ seq'[u] = LinesTo(Len(log)) + 1 /\ UNCHANGED log
    BY <2>1 DEF TypeOK, Begin, Acquire, Count, AppendLine, Fail
  <2>2. ASSUME NEW t \in Threads, \/ DropHandle(t) \/ Finalize(t) \/ FinalizeLocked(t)
                                  \/ \E q \in Procs : Spawn(t, q) \/ Fork(t, q)
        PROVE  pc[u] = "append" /\ seq'[u] = seq[u]
    BY <2>2 DEF TypeOK, DropHandle, Finalize, FinalizeLocked, Spawn, Fork
  <2>3. ASSUME NEW p \in Procs, Exit(p)
        PROVE  pc[u] = "append" /\ seq'[u] = seq[u]
    BY <2>3 DEF TypeOK, Exit
  <2>4. CASE UNCHANGED vars
    BY <2>4 DEF vars
  <2>5. QED
    BY <2>1, <2>2, <2>3, <2>4 DEF Next
<1>3. CASE seq'[u] = LinesTo(Len(log)) + 1 /\ UNCHANGED log
  BY <1>1, <1>3 DEF LinesTo
<1>4. CASE pc[u] = "append" /\ seq'[u] = seq[u]
  <2>1. PICK c \in 0 .. Len(log) :
            /\ seq[u] = LinesTo(c) + 1
            /\ \A j \in (c + 1) .. Len(log) : log[j].proc # ProcOf[u]
    BY <1>4 DEF PendingLagIsForeign, CountedAt
  <2>2. CASE UNCHANGED log
    BY <1>4, <2>1, <2>2 DEF LinesTo
  <2>3. ASSUME NEW t \in Threads, NEW end \in {"newline", "cut"}, Writes(t, end)
        PROVE  \E d \in 0 .. Len(log') :
                   /\ seq'[u] = LinesTo(d)' + 1
                   /\ \A j \in (d + 1) .. Len(log') : log'[j].proc # ProcOf[u]
    <3>1. /\ Len(log') = Len(log) + 1
          /\ \A j \in 1 .. Len(log) : log'[j] = log[j]
          /\ log'[Len(log) + 1].proc = ProcOf[t]
      BY <2>3, Written DEF Writes
    <3>2. ProcOf[t] # ProcOf[u]
      <4>1. CASE u = t
        <5>1. log' # log
          BY <1>1, <3>1
        <5>2. pc'[t] # "append"
          <6>1. ASSUME NEW v \in Threads, AppendLine(v) \/ Fail(v)
                PROVE  pc'[t] # "append"
            <7>1. v = t
              <8>1. log'[Len(log) + 1].proc = ProcOf[v]
                <9>1. Writes(v, "newline") \/ Writes(v, "cut")
                  BY <5>1, <6>1 DEF AppendLine, Fail, WritesInPart, Writes, Running
                <9>2. QED
                  BY <9>1, Written DEF Writes
              <8>2. pc[v] = "append" /\ pc[t] = "append"
                BY <2>3, <5>1, <6>1 DEF AppendLine, Fail, Writes, Running
              <8>3. lock[ProcOf[v]] = v /\ lock[ProcOf[t]] = t
                BY <8>2 DEF LockAccounted, Locked
              <8>4. QED
                BY <3>1, <8>1, <8>3
            <7>2. QED
              BY <6>1, <7>1 DEF AppendLine, Fail, TypeOK
          <6>2. ASSUME NEW p \in Procs, Exit(p)
                PROVE  pc'[t] # "append"
            <7>1. PICK v \in Threads : ProcOf[v] = p /\ Writes(v, "cut")
              BY <5>1, <6>2 DEF Exit, WritesInPart, Writes
            <7>2. log'[Len(log) + 1].proc = p
              BY <7>1, Written DEF Writes
            <7>3. QED
              BY <3>1, <6>2, <7>2 DEF Exit
          <6>3. QED
            BY <5>1, <6>1, <6>2 DEF Next, vars, Begin, Acquire, Count, DropHandle, Finalize,
               FinalizeLocked, Spawn, Fork
        <5>3. QED
          BY <4>1, <5>2
      <4>2. CASE u # t
        BY <1>4, <2>3, <4>2 DEF Writes, Running, LockAccounted, Locked
      <4>3. QED
        BY <4>1, <4>2
    <3>3. c \in 0 .. Len(log') /\ LinesTo(c)' = LinesTo(c)
      BY <1>1, <3>1 DEF LinesTo
    <3>4. ASSUME NEW j \in (c + 1) .. Len(log')
          PROVE  log'[j].proc # ProcOf[u]
      <4>1. j = Len(log) + 1 \/ (j \in (c + 1) .. Len(log) /\ j \in 1 .. Len(log))
        BY <1>1, <3>1
      <4>2. QED
        BY <2>1, <3>1, <3>2, <4>1
    <3>5. QED
      BY <1>4, <2>1, <3>3, <3>4
  <2>4. QED
    BY <2>2, <2>3, LogStep
<1>5. QED
  BY <1>2, <1>3, <1>4

\* A new piece is written with the lag its writer had, so the lags in the file
\* are foreign too.
LEMMA LagStep ==
    TypeOK /\ PendingLagIsForeign /\ LagIsForeign /\ [Next]_vars => LagIsForeign'
<1> SUFFICES ASSUME TypeOK, PendingLagIsForeign, LagIsForeign, [Next]_vars
             PROVE  LagIsForeign'
  OBVIOUS
<1>1. CASE UNCHANGED log
  BY <1>1 DEF LagIsForeign, CountedAt, LinesTo
<1>2. ASSUME NEW t \in Threads, NEW end \in {"newline", "cut"}, Writes(t, end)
      PROVE  LagIsForeign'
  <2> DEFINE n == Len(log) + 1
  <2>1. /\ Len(log) \in Nat
        /\ Len(log') = n
        /\ \A j \in 1 .. Len(log) : log'[j] = log[j]
        /\ log'[n].proc = ProcOf[t]
        /\ log'[n].seq = seq[t]
    BY <1>2, Written DEF Writes
  <2>2. \A c \in 0 .. Len(log) : LinesTo(c)' = LinesTo(c)
    BY <2>1 DEF LinesTo
  <2>3. ASSUME NEW i \in 1 .. Len(log')
        PROVE  \E c \in 0 .. (i - 1) :
                   /\ log'[i].seq = LinesTo(c)' + 1
                   /\ \A j \in (c + 1) .. (i - 1) : log'[j].proc # log'[i].proc
    <3>1. CASE i = n
      <4>1. PICK c \in 0 .. Len(log) :
                /\ seq[t] = LinesTo(c) + 1
                /\ \A j \in (c + 1) .. Len(log) : log[j].proc # ProcOf[t]
        BY <1>2 DEF Writes, Running, PendingLagIsForeign, CountedAt
      <4>2. \A j \in (c + 1) .. Len(log) : j \in 1 .. Len(log)
        BY <2>1
      <4>3. i - 1 = Len(log)
        BY <2>1, <3>1
      <4>4. QED
        BY <2>1, <2>2, <3>1, <4>1, <4>2, <4>3
    <3>2. CASE i # n
      <4>1. i \in 1 .. Len(log) /\ log'[i] = log[i]
        BY <2>1, <3>2
      <4>2. PICK c \in 0 .. (i - 1) :
                /\ log[i].seq = LinesTo(c) + 1
                /\ \A j \in (c + 1) .. (i - 1) : log[j].proc # log[i].proc
        BY <4>1 DEF LagIsForeign, CountedAt
      <4>3. c \in 0 .. Len(log) /\ \A j \in (c + 1) .. (i - 1) : j \in 1 .. Len(log)
        BY <2>1, <4>1
      <4>4. QED
        BY <2>1, <2>2, <4>1, <4>2, <4>3
    <3>3. QED
      BY <3>1, <3>2
  <2>4. QED
    BY <2>3 DEF LagIsForeign, CountedAt
<1>3. QED
  BY <1>1, <1>2, LogStep

-----------------------------------------------------------------------------
(* The theorems *)

\* IInv holds in every reachable state.
THEOREM Invariance == Spec => []IInv
<1>1. Init => IInv
  <2> SUFFICES ASSUME Init
               PROVE  IInv
    OBVIOUS
  <2>1. TypeOK
    BY ConstantsAssumption DEF Init, TypeOK
  <2>2. OnlyLiveCall /\ LockHolderBorn /\ LockAccounted
    BY ConstantsAssumption DEF Init, OnlyLiveCall, LockHolderBorn, LockAccounted, Locked
  <2>3. PendingLagIsForeign /\ LagIsForeign /\ LinesAccounted
    BY ConstantsAssumption DEF Init, PendingLagIsForeign, LagIsForeign, LinesAccounted
  <2>4. QED
    BY <2>1, <2>2, <2>3 DEF IInv
<1>2. IInv /\ [Next]_vars => IInv'
  BY TypeOKStep, LifeStep, LockAccountedStep, PendingLagStep, LagStep, LinesStep DEF IInv
<1>3. QED
  BY <1>1, <1>2, PTL DEF Spec

\* The lag of every line is due to other processes only (core.py:43-49, 62).
THEOREM LagCorrect == Spec => []LagIsForeign
<1>1. IInv => LagIsForeign
  BY DEF IInv
<1>2. QED
  BY <1>1, Invariance, PTL

\* Lock and locked region correspond, also after failures, forks and kills.
THEOREM LockCorrect == Spec => []LockAccounted
<1>1. IInv => LockAccounted
  BY DEF IInv
<1>2. QED
  BY <1>1, Invariance, PTL

\* The numbers of a process never go back in file order, and one is given twice
\* only where a cut line had been gone on with.
THEOREM ProcSeqCorrect == Spec => []ProcSeqIncreasing
<1>1. IInv => ProcSeqIncreasing
  <2> SUFFICES ASSUME TypeOK, LagIsForeign, LinesAccounted,
                      NEW i \in 1 .. Len(log), NEW j \in 1 .. Len(log),
                      i < j, log[i].proc = log[j].proc
               PROVE  /\ log[i].seq <= log[j].seq
                      /\ log[i].seq = log[j].seq => Cut(i - 1)
    BY DEF IInv, ProcSeqIncreasing
  <2>1. PICK c \in 0 .. (i - 1) : log[i].seq = LinesTo(c) + 1
    BY DEF LagIsForeign, CountedAt
  <2>2. PICK d \in 0 .. (j - 1) :
            /\ log[j].seq = LinesTo(d) + 1
            /\ \A k \in (d + 1) .. (j - 1) : log[k].proc # log[j].proc
    BY DEF LagIsForeign, CountedAt
  <2>3. Len(log) \in Nat
    BY DEF TypeOK
  <2>4. i <= d
    <3>1. i \notin (d + 1) .. (j - 1)
      BY <2>2
    <3>2. QED
      BY <2>3, <3>1
  <2>5. /\ c \in 0 .. Len(log) /\ d \in 0 .. Len(log) /\ i - 1 \in 0 .. Len(log)
        /\ i \in 0 .. Len(log) /\ c <= i - 1
    BY <2>3
  <2>6. LinesTo(c) \in Nat /\ LinesTo(i - 1) \in Nat /\ LinesTo(c) <= LinesTo(i - 1)
    BY <2>5, LinesMonotone
  <2>7. LinesTo(i) \in Nat /\ LinesTo(d) \in Nat /\ LinesTo(i) <= LinesTo(d)
    BY <2>4, <2>5, LinesMonotone
  <2>8. LinesTo(i) = LinesTo(i - 1) + (IF Cut(i - 1) THEN 0 ELSE 1)
    BY DEF LinesAccounted, LinesTo
  <2>9. QED
    BY <2>1, <2>2, <2>6, <2>7, <2>8
<1>2. QED
  BY <1>1, Invariance, PTL

\* The events of a log with a single writer have the numbers of their lines, and
\* one more where a cut line was gone on with.
THEOREM SoleWriterCorrect == Spec => []SoleWriterNumbersLines
<1>1. IInv => SoleWriterNumbersLines
  <2> SUFFICES ASSUME TypeOK, LagIsForeign, LinesAccounted,
                      NEW i \in 1 .. Len(log),
                      \A j \in 1 .. i : log[j].proc = log[i].proc
               PROVE  log[i].seq = log[i].line + (IF Cut(i - 1) THEN 1 ELSE 0)
    BY DEF IInv, SoleWriterNumbersLines
  <2>1. PICK c \in 0 .. (i - 1) :
            /\ log[i].seq = LinesTo(c) + 1
            /\ \A j \in (c + 1) .. (i - 1) : log[j].proc # log[i].proc
    BY DEF LagIsForeign, CountedAt
  <2>2. Len(log) \in Nat
    BY DEF TypeOK
  <2>3. c = i - 1
    <3>1. CASE c < i - 1
      <4>1. i - 1 \in (c + 1) .. (i - 1) /\ i - 1 \in 1 .. i
        BY <2>2, <3>1
      <4>2. QED
        BY <2>1, <4>1
    <3>2. QED
      BY <2>2, <3>1
  <2>4. LinesTo(i - 1) \in Nat
    BY <2>2, LinesMonotone
  <2>5. log[i].line = LinesTo(i - 1) + (IF Cut(i - 1) THEN 0 ELSE 1)
    BY DEF LinesAccounted
  <2>6. QED
    BY <2>1, <2>3, <2>4, <2>5
<1>2. QED
  BY <1>1, Invariance, PTL

\* record_event, with its lock, its threads and everything that can go wrong
\* around it, implements the one-step recorder of SharedLog: also a write that
\* failed or was killed is one of its steps, or none.
THEOREM Refinement == Spec => Implements
<1>1. Init => Abstract!Init
  BY DEF Init, Abstract!Init
<1>2. IInv /\ [Next]_vars => [Abstract!Next]_log
  <2> SUFFICES ASSUME IInv, NEW t \in Threads, NEW end \in {"newline", "cut"}, Writes(t, end)
               PROVE  Abstract!Next
    BY LogStep
  <2>1. PICK c \in 0 .. Len(log) :
            /\ seq[t] = LinesTo(c) + 1
            /\ \A j \in (c + 1) .. Len(log) : log[j].proc # ProcOf[t]
    BY DEF IInv, PendingLagIsForeign, CountedAt, Writes, Running
  <2>2. log \in Seq(LogLine) /\ Len(log) \in Nat
    BY DEF IInv, TypeOK
  <2>3. Cut(Len(log)) <=> (log # << >> /\ log[Len(log)].end = "cut")
    BY <2>2 DEF Cut
  <2>4. \A i \in 0 .. Len(log) : LinesTo(i) = Abstract!LinesTo(i)
    BY DEF LinesTo, Abstract!LinesTo
  <2>5. LinesTo(Len(log)) + (IF Cut(Len(log)) THEN 0 ELSE 1) = Abstract!NextLine
    <3>1. LinesTo(Len(log)) \in Nat /\ Len(log) \in 0 .. Len(log)
      BY Numbers DEF IInv
    <3>2. QED
      BY <2>3, <2>4, <3>1 DEF Abstract!NextLine
  <2>6. Piece(t, end) = [proc |-> ProcOf[t], seq |-> Abstract!LinesTo(c) + 1,
                         line |-> Abstract!NextLine, end |-> end]
    BY <2>1, <2>4, <2>5 DEF Piece
  <2>7. log' = Append(log, [proc |-> ProcOf[t], seq |-> Abstract!LinesTo(c) + 1,
                            line |-> Abstract!NextLine, end |-> end])
    BY <2>6 DEF Writes
  <2>8. Abstract!Record(ProcOf[t])
    BY <2>1, <2>7, Zenon DEF Abstract!Record
  <2>9. QED
    BY <2>8, ConstantsAssumption DEF Abstract!Next
<1>3. QED
  BY <1>1, <1>2, Invariance, PTL DEF Spec, Implements, Abstract!Spec

\* A process whose lock is stuck adds nothing to the log.
THEOREM StuckCorrect == Spec => StuckIsSilent
<1> DEFINE Silent == \A p \in Procs : Stuck(p) /\ log' # log => log'[Len(log')].proc # p
<1>1. IInv /\ [Next]_vars => [Silent]_vars
  <2> SUFFICES ASSUME IInv, NEW t \in Threads, NEW end \in {"newline", "cut"}, Writes(t, end),
                      NEW p \in Procs, Stuck(p)
               PROVE  log'[Len(log')].proc # p
    BY LogStep
  <2>1. log'[Len(log')].proc = ProcOf[t]
    BY Written DEF IInv, Writes
  <2>2. lock[ProcOf[t]] = t /\ pc[t] = "append"
    BY DEF IInv, LockAccounted, Locked, Writes, Running
  <2>3. ~ Stuck(ProcOf[t])
    BY <2>2, ConstantsAssumption DEF Stuck
  <2>4. QED
    BY <2>1, <2>3
<1>2. QED
  BY <1>1, Invariance, PTL DEF Spec, StuckIsSilent

-----------------------------------------------------------------------------
(* The analysis of the log, for events of any contents *)

\* The order of the analysis compares the seqs of the log.
LEMMA SeqOfEvent ==
    \A i \in 1 .. Len(log) : Events[i].seq = log[i].seq
BY DEF Events, Line

\* In a file that can be read every event has a line of its own, so its number
\* lags behind its place by what other processes wrote.
LEMMA ReadableLag ==
    ASSUME TypeOK, LinesAccounted, LagIsForeign, Readable, NEW i \in 1 .. Len(log)
    PROVE  /\ log[i].seq \in 1 .. i
           /\ \A j \in log[i].seq .. (i - 1) : log[j].proc # log[i].proc
<1>1. PICK c \in 0 .. (i - 1) :
          /\ log[i].seq = LinesTo(c) + 1
          /\ \A j \in (c + 1) .. (i - 1) : log[j].proc # log[i].proc
  BY DEF LagIsForeign, CountedAt
<1>2. Len(log) \in Nat
  BY Numbers
<1>3. LinesTo(c) = c
  <2>1. CASE c = 0
    BY <2>1 DEF LinesTo
  <2>2. CASE c # 0
    <3>1. c \in 1 .. Len(log) /\ \A k \in 1 .. c - 1 : k \in 1 .. (Len(log) - 1)
      BY <1>2, <2>2
    <3>2. log[c].line = c
      BY <3>1 DEF LinesAccounted, Readable
    <3>3. QED
      BY <2>2, <3>2 DEF LinesTo
  <2>3. QED
    BY <2>1, <2>2
<1>4. QED
  BY <1>1, <1>2, <1>3

\* An event that the analysis puts before one recorded earlier was counted
\* before that one was written, and by another process.
LEMMA MisorderIsOverlap ==
    ASSUME IInv, Readable,
           NEW i \in 1 .. Len(log), NEW j \in 1 .. (i - 1),
           Before(Events, i, j)
    PROVE  WrittenWhileCounted(j, i)
<1>1. Len(log) \in Nat /\ j \in 1 .. Len(log) /\ j < i
  BY DEF IInv, TypeOK
<1>2. log[i].seq \in 1 .. i /\ log[j].seq \in 1 .. j
  BY <1>1, ReadableLag DEF IInv
<1>3. log[i].seq < log[j].seq
  BY <1>1, SeqOfEvent DEF Before
<1>4. j \in log[i].seq .. (i - 1)
  BY <1>1, <1>2, <1>3
<1>5. log[j].proc # log[i].proc
  BY <1>4, ReadableLag DEF IInv
<1>6. QED
  BY <1>4, <1>5 DEF WrittenWhileCounted

\* The lines of one process are analysed in the order it recorded them: "then"
\* in a report is true of every single process.
LEMMA ProcessOrderKept ==
    ASSUME IInv, Readable,
           NEW i \in 1 .. Len(log), NEW j \in 1 .. (i - 1),
           log[i].proc = log[j].proc
    PROVE  Before(Events, j, i) /\ ~Before(Events, i, j)
<1>1. Len(log) \in Nat /\ j \in 1 .. Len(log) /\ j < i
  BY DEF IInv, TypeOK
<1>2. log[i].seq \in 1 .. i /\ log[j].seq \in 1 .. j
  BY <1>1, ReadableLag DEF IInv
<1>3. j \notin log[i].seq .. (i - 1)
  BY <1>1, ReadableLag DEF IInv
<1>4. log[j].seq < log[i].seq
  BY <1>1, <1>2, <1>3
<1>5. QED
  BY <1>1, <1>2, <1>4, SeqOfEvent DEF Before

\* In every state of every run, the event reported as the first harmful one is
\* preceded in the file only by harmful events that other processes recorded
\* during its own call of record_event (cascade.py:105, 142; core.py:62).
THEOREM FirstHarmfulCorrect == Spec => []FirstHarmfulByOverlap
<1>1. IInv => FirstHarmfulByOverlap
  <2> SUFFICES ASSUME IInv, Readable,
                      NEW i \in FirstHarmfulEvent(Events), NEW j \in 1 .. (i - 1),
                      Harmful(Events[j])
               PROVE  WrittenWhileCounted(j, i)
    BY DEF FirstHarmfulByOverlap
  <2>1. Len(log) \in Nat /\ Len(Events) = Len(log)
    BY DEF IInv, TypeOK, Events
  <2>2. i \in 1 .. Len(log) /\ j \in (1 .. Len(log)) \ {i}
    BY <2>1 DEF FirstHarmfulEvent
  <2>3. Before(Events, i, j)
    BY <2>1, <2>2 DEF FirstHarmfulEvent
  <2>4. QED
    BY <2>2, <2>3, MisorderIsOverlap
<1>2. QED
  BY <1>1, Invariance, PTL

-----------------------------------------------------------------------------
(* The order of the analysis, and the cascade, for events of any contents *)

Less == {ss \in Nat \X Nat : ss[1] < ss[2]}

\* A set of natural numbers has a least one.
LEMMA Least ==
    ASSUME NEW T \in SUBSET Nat, T # {}
    PROVE  \E x \in T : \A y \in T : x <= y
<1>1. PICK x \in T : \A y \in T : << y, x >> \notin Less
  BY NatLessThanWellFounded, WFMin DEF OpToRel, Less
<1>2. ASSUME NEW y \in T, y < x
      PROVE  FALSE
  BY <1>1, <1>2 DEF Less
<1>3. QED
  BY <1>1, <1>2

Numbered(es) == Len(es) \in Nat /\ \A i \in 1 .. Len(es) : es[i].seq \in Nat

LEMMA BeforeIsOrder ==
    ASSUME NEW es, Numbered(es)
    PROVE  \A i, j \in 1 .. Len(es) :
              /\ ~Before(es, i, i)
              /\ i # j => Before(es, i, j) \/ Before(es, j, i)
              /\ Before(es, i, j) => ~Before(es, j, i)
              /\ \A k \in 1 .. Len(es) : Before(es, i, j) /\ Before(es, j, k) => Before(es, i, k)
BY DEF Before, Numbered

\* The first m places, in the order of the analysis.
Orders(order, es, m) ==
    /\ order \in [1 .. m -> 1 .. m]
    /\ \A i \in 1 .. m : \E k \in 1 .. m : order[k] = i
    /\ \A k, n \in 1 .. m : k < n => Before(es, order[k], order[n])

\* One more place is put before the first one that it comes before.
LEMMA OrdersOneMore ==
    ASSUME NEW es, Numbered(es), NEW m \in 1 .. Len(es), NEW p, Orders(p, es, m - 1)
    PROVE  \E q : Orders(q, es, m)
<1> DEFINE T == {k \in 1 .. m : k = m \/ Before(es, m, p[k])}
<1>1. PICK pos \in T : \A k \in T : pos <= k
  <2>1. m \in Nat /\ m \in 1 .. m
    BY DEF Numbered
  <2>2. T \in SUBSET Nat /\ m \in T
    BY <2>1
  <2>3. QED
    BY <2>2, Least
<1>2. /\ m \in Nat /\ m >= 1 /\ pos \in 1 .. m
      /\ pos # m => Before(es, m, p[pos])
      /\ \A k \in 1 .. m : k < pos => ~Before(es, m, p[k])
  <2>1. \A k \in 1 .. m : k < pos => k \notin T
    BY <1>1 DEF Numbered
  <2>2. QED
    BY <1>1, <2>1 DEF Numbered
<1>3. /\ p \in [1 .. m - 1 -> 1 .. m - 1]
      /\ \A i \in 1 .. m - 1 : \E k \in 1 .. m - 1 : p[k] = i
      /\ \A k, n \in 1 .. m - 1 : k < n => Before(es, p[k], p[n])
  BY DEF Orders
<1> HIDE DEF T
<1>4. \A k \in 1 .. m - 1 : p[k] \in 1 .. m /\ p[k] # m /\ p[k] \in 1 .. Len(es)
  <2>1. \A i \in 1 .. m - 1 : i \in 1 .. m /\ i # m /\ i \in 1 .. Len(es)
    BY DEF Numbered
  <2>2. \A k \in 1 .. m - 1 : p[k] \in 1 .. m - 1
    BY <1>3
  <2>3. QED
    BY <2>1, <2>2
<1> DEFINE q == [k \in 1 .. m |-> IF k < pos THEN p[k] ELSE IF k = pos THEN m ELSE p[k - 1]]
<1>5. \A k \in 1 .. m : /\ k < pos => k \in 1 .. m - 1 /\ q[k] = p[k]
                        /\ k = pos => q[k] = m
                        /\ k > pos => k - 1 \in 1 .. m - 1 /\ q[k] = p[k - 1]
  BY <1>2
<1>6. q \in [1 .. m -> 1 .. m]
  <2>1. \A k \in 1 .. m : q[k] \in 1 .. m
    <3> HIDE DEF q
    <3>1. \A k \in 1 .. m : k < pos \/ k = pos \/ k > pos
      BY <1>2
    <3>2. m \in 1 .. m
      BY <1>2
    <3>3. QED
      BY <1>4, <1>5, <3>1, <3>2
  <2>2. QED
    BY <2>1
<1> HIDE DEF q
<1>7. ASSUME NEW i \in 1 .. m
      PROVE  \E k \in 1 .. m : q[k] = i
  <2>1. CASE i = m
    BY <1>2, <1>5, <2>1
  <2>2. CASE i # m
    <3>1. PICK k \in 1 .. m - 1 : p[k] = i
      BY <1>2, <1>3, <2>2
    <3>2. CASE k < pos
      BY <1>2, <1>5, <3>1, <3>2
    <3>3. CASE ~(k < pos)
      <4>1. k + 1 \in 1 .. m /\ k + 1 > pos /\ (k + 1) - 1 = k
        BY <1>2, <3>3
      <4>2. q[k + 1] = p[k]
        BY <1>5, <4>1
      <4>3. QED
        BY <3>1, <4>1, <4>2
    <3>4. QED
      BY <3>2, <3>3
  <2>3. QED
    BY <2>1, <2>2
<1>8. m \in 1 .. Len(es)
  OBVIOUS
<1>9. ASSUME NEW a \in 1 .. m, NEW b \in 1 .. m, a < b
      PROVE  Before(es, q[a], q[b])
  <2>1. CASE b < pos
    <3>1. a < pos
      BY <1>2, <1>9, <2>1
    <3>2. QED
      BY <1>3, <1>5, <1>9, <2>1, <3>1
  <2>2. CASE b = pos
    <3>1. a < pos /\ a \in 1 .. m - 1
      BY <1>2, <1>9, <2>2
    <3>2. ~Before(es, m, p[a]) /\ p[a] # m /\ p[a] \in 1 .. Len(es)
      BY <1>2, <1>4, <3>1
    <3>3. Before(es, p[a], m)
      BY <1>8, <3>2, BeforeIsOrder
    <3>4. QED
      BY <1>5, <2>2, <3>1, <3>3
  <2>3. CASE b > pos
    <3>1. b - 1 \in 1 .. m - 1 /\ q[b] = p[b - 1] /\ pos <= b - 1 /\ pos \in 1 .. m - 1 /\ pos # m
      BY <1>2, <1>5, <2>3
    <3>2. CASE a < pos
      <4>1. a \in 1 .. m - 1 /\ a < b - 1
        BY <1>2, <3>1, <3>2
      <4>2. QED
        BY <1>3, <1>5, <3>1, <3>2, <4>1
    <3>3. CASE a = pos
      <4>1. Before(es, m, p[pos]) /\ q[a] = m
        BY <1>2, <1>5, <3>1, <3>3
      <4>2. CASE pos = b - 1
        BY <3>1, <4>1, <4>2
      <4>3. CASE pos < b - 1
        <5>1. Before(es, p[pos], p[b - 1])
          BY <1>3, <3>1, <4>3
        <5>2. p[pos] \in 1 .. Len(es) /\ p[b - 1] \in 1 .. Len(es)
          BY <1>4, <3>1
        <5>3. Before(es, m, p[b - 1])
          BY <1>8, <4>1, <5>1, <5>2, BeforeIsOrder
        <5>4. QED
          BY <3>1, <4>1, <5>3
      <4>4. QED
        BY <1>2, <3>1, <4>2, <4>3
    <3>4. CASE a > pos
      <4>1. a - 1 \in 1 .. m - 1 /\ q[a] = p[a - 1] /\ a - 1 < b - 1
        BY <1>2, <1>5, <1>9, <3>4
      <4>2. QED
        BY <1>3, <3>1, <4>1
    <3>5. QED
      BY <1>2, <3>2, <3>3, <3>4
  <2>4. QED
    BY <1>2, <2>1, <2>2, <2>3
<1>10. QED
  BY <1>6, <1>7, <1>9 DEF Orders

\* The order of the analysis is one.
LEMMA OrderedIsOrder ==
    ASSUME NEW es, Numbered(es)
    PROVE  Orders(OrderedEvents(es), es, Len(es))
<1> DEFINE Bad == {m \in 0 .. Len(es) : ~ \E p : Orders(p, es, m)}
<1>1. \E p : Orders(p, es, Len(es))
  <2>1. SUFFICES ASSUME Bad # {}
                 PROVE  FALSE
    <3>1. Len(es) \in 0 .. Len(es)
      BY DEF Numbered
    <3>2. QED
      BY <3>1
  <2>2. PICK m \in Bad : \A k \in Bad : m <= k
    <3>1. Bad \in SUBSET Nat
      BY DEF Numbered
    <3>2. QED
      BY <2>1, <3>1, Least
  <2>3. m # 0
    <3>1. 1 .. 0 = {}
      OBVIOUS
    <3>2. Orders([k \in 1 .. 0 |-> 0], es, 0)
      BY <3>1 DEF Orders
    <3>3. QED
      BY <2>2, <3>2
  <2>4. m \in 1 .. Len(es) /\ m - 1 \in 0 .. Len(es) /\ ~(m <= m - 1)
    BY <2>2, <2>3 DEF Numbered
  <2>5. PICK p : Orders(p, es, m - 1)
    BY <2>2, <2>4
  <2>6. \E q : Orders(q, es, m)
    BY <2>4, <2>5, OrdersOneMore
  <2>7. QED
    BY <2>2, <2>6
<1>2. QED
  BY <1>1, Zenon DEF OrderedEvents, Orders

\* f goes through the events in the given order and keeps those that open a stage.
Goes(f, es, order, last) ==
    f = [n \in 0 .. last |->
            IF n = 0 THEN << >>
            ELSE LET i == order[n]
                 IN  IF StageOf(es[i]) # "none" /\ OpensStage(es, f[n - 1], i)
                     THEN Append(f[n - 1], i) ELSE f[n - 1]]

OneMore(es, order, n, s) ==
    IF StageOf(es[order[n]]) # "none" /\ OpensStage(es, s, order[n])
    THEN Append(s, order[n]) ELSE s

LEMMA GoesByOne ==
    ASSUME NEW f, NEW es, NEW order, NEW last \in Nat
    PROVE  Goes(f, es, order, last) <=>
              f = [n \in 0 .. last |-> IF n = 0 THEN << >> ELSE OneMore(es, order, n, f[n - 1])]
BY DEF Goes, OneMore

LEMMA LoopExists ==
    ASSUME NEW es, NEW order, NEW last \in Nat
    PROVE  \E f : Goes(f, es, order, last)
<1> DEFINE Bad == {m \in 0 .. last : ~ \E f : Goes(f, es, order, m)}
<1>1. SUFFICES ASSUME Bad # {}
               PROVE  FALSE
  <2>1. last \in 0 .. last
    OBVIOUS
  <2>2. QED
    BY <2>1
<1>2. PICK m \in Bad : \A k \in Bad : m <= k
  <2>1. Bad \in SUBSET Nat
    OBVIOUS
  <2>2. QED
    BY <1>1, <2>1, Least
<1>3. m # 0
  <2>1. Goes([n \in 0 .. 0 |-> << >>], es, order, 0)
    BY DEF Goes
  <2>2. QED
    BY <1>2, <2>1
<1>4. PICK f : Goes(f, es, order, m - 1)
  BY <1>2, <1>3
<1> DEFINE g == [n \in 0 .. m |-> IF n = m THEN OneMore(es, order, m, f[m - 1]) ELSE f[n]]
<1>5. ASSUME NEW n \in 0 .. m
      PROVE  g[n] = IF n = 0 THEN << >> ELSE OneMore(es, order, n, g[n - 1])
  <2>1. n = 0 \/ n - 1 \in 0 .. m - 1
    BY <1>2
  <2>2. n # 0 => g[n - 1] = f[n - 1]
    BY <1>2, <2>1
  <2>3. CASE n = m
    BY <1>3, <2>2, <2>3
  <2>4. CASE n # m
    <3>1. n \in 0 .. m - 1 /\ g[n] = f[n] /\ m - 1 \in Nat
      BY <2>4, <1>3
    <3>2. f = [k \in 0 .. m - 1 |-> IF k = 0 THEN << >> ELSE OneMore(es, order, k, f[k - 1])]
      BY <1>4, <3>1, GoesByOne
    <3>3. f[n] = IF n = 0 THEN << >> ELSE OneMore(es, order, n, f[n - 1])
      BY <3>1, <3>2
    <3>4. QED
      BY <2>2, <3>1, <3>3
  <2>5. QED
    BY <2>3, <2>4
<1>6. Goes(g, es, order, m)
  <2>1. g = [n \in 0 .. m |-> IF n = 0 THEN << >> ELSE OneMore(es, order, n, g[n - 1])]
    BY <1>5
  <2>2. QED
    BY <1>2, <2>1, GoesByOne
<1>7. QED
  BY <1>2, <1>6

\* The stages after n events: the first events of their classes, in the order of the
\* analysis, one for each class that occurred.
StagesOf(s, es, order, n) ==
    /\ s \in Seq(1 .. Len(es))
    /\ \A k \in 1 .. Len(s) :
          /\ StageOf(es[s[k]]) # "none"
          /\ \E m \in 1 .. n :
                /\ s[k] = order[m]
                /\ \A j \in 1 .. m - 1 : StageOf(es[order[j]]) # StageOf(es[s[k]])
    /\ \A m \in 1 .. n : StageOf(es[order[m]]) # "none" =>
          \E k \in 1 .. Len(s) : StageOf(es[s[k]]) = StageOf(es[order[m]])
    /\ \A k, l \in 1 .. Len(s) : k < l =>
          Before(es, s[k], s[l]) /\ StageOf(es[s[k]]) # StageOf(es[s[l]])

LEMMA StagesGrow ==
    ASSUME NEW es, Numbered(es), NEW order, Orders(order, es, Len(es)), NEW n \in 1 .. Len(es),
           NEW s, StagesOf(s, es, order, n - 1)
    PROVE  StagesOf(OneMore(es, order, n, s), es, order, n)
<1> DEFINE i == order[n]
           t == OneMore(es, order, n, s)
<1>1. n \in Nat /\ n >= 1 /\ Len(es) \in Nat /\ i \in 1 .. Len(es) /\ s \in Seq(1 .. Len(es))
      /\ (\A m \in 1 .. n - 1 : m \in 1 .. n /\ m < n /\ m \in 1 .. Len(es))
      /\ \A m \in 1 .. n : m = n \/ m \in 1 .. n - 1
  <2>1. n \in Nat /\ n >= 1 /\ Len(es) \in Nat /\ n \in 1 .. Len(es)
    BY DEF Numbered
  <2>2. i \in 1 .. Len(es)
    BY <2>1 DEF Orders
  <2>3. s \in Seq(1 .. Len(es))
    BY DEF StagesOf
  <2> HIDE DEF i
  <2>4. QED
    BY <2>1, <2>2, <2>3
<1>2. CASE StageOf(es[i]) # "none" /\ OpensStage(es, s, i)
  <2>1. t = Append(s, i)
    BY <1>2 DEF OneMore
  <2>2. /\ t \in Seq(1 .. Len(es)) /\ Len(t) = Len(s) + 1 /\ t[Len(s) + 1] = i /\ Len(s) \in Nat
        /\ \A k \in 1 .. Len(s) : t[k] = s[k]
        /\ \A k \in 1 .. Len(t) : k = Len(s) + 1 \/ k \in 1 .. Len(s)
        /\ \A k \in 1 .. Len(s) : k \in 1 .. Len(t) /\ k < Len(s) + 1
        /\ Len(s) + 1 \in 1 .. Len(t)
    BY <1>1, <2>1
  <2> HIDE DEF t
  <2>3. \A k \in 1 .. Len(s) : StageOf(es[s[k]]) # StageOf(es[i])
    BY <1>2 DEF OpensStage
  <2>4. \A j \in 1 .. n - 1 : StageOf(es[order[j]]) # StageOf(es[i])
    <3>1. ASSUME NEW j \in 1 .. n - 1, StageOf(es[order[j]]) = StageOf(es[i])
          PROVE  FALSE
      <4>1. PICK k \in 1 .. Len(s) : StageOf(es[s[k]]) = StageOf(es[order[j]])
        BY <1>2, <3>1 DEF StagesOf
      <4>2. QED
        BY <2>3, <3>1, <4>1
    <3>2. QED
      BY <3>1
  <2>5. ASSUME NEW k \in 1 .. Len(t)
        PROVE  /\ StageOf(es[t[k]]) # "none"
               /\ \E m \in 1 .. n :
                     /\ t[k] = order[m]
                     /\ \A j \in 1 .. m - 1 : StageOf(es[order[j]]) # StageOf(es[t[k]])
    <3>1. CASE k = Len(s) + 1
      <4>1. n \in 1 .. n
        BY <1>1
      <4>2. QED
        BY <1>2, <2>2, <2>4, <3>1, <4>1
    <3>2. CASE k \in 1 .. Len(s)
      <4>1. PICK m \in 1 .. n - 1 :
                /\ s[k] = order[m]
                /\ \A j \in 1 .. m - 1 : StageOf(es[order[j]]) # StageOf(es[s[k]])
        BY <3>2 DEF StagesOf
      <4>2. StageOf(es[s[k]]) # "none"
        BY <3>2 DEF StagesOf
      <4>3. QED
        BY <1>1, <2>2, <3>2, <4>1, <4>2
    <3>3. QED
      BY <2>2, <3>1, <3>2
  <2>6. ASSUME NEW m \in 1 .. n, StageOf(es[order[m]]) # "none"
        PROVE  \E k \in 1 .. Len(t) : StageOf(es[t[k]]) = StageOf(es[order[m]])
    <3>1. CASE m = n
      BY <2>2, <3>1
    <3>2. CASE m \in 1 .. n - 1
      <4>1. PICK k \in 1 .. Len(s) : StageOf(es[s[k]]) = StageOf(es[order[m]])
        BY <2>6, <3>2 DEF StagesOf
      <4>2. QED
        BY <2>2, <4>1
    <3>3. QED
      BY <1>1, <3>1, <3>2
  <2>7. ASSUME NEW k \in 1 .. Len(t), NEW l \in 1 .. Len(t), k < l
        PROVE  Before(es, t[k], t[l]) /\ StageOf(es[t[k]]) # StageOf(es[t[l]])
    <3>1. k \in 1 .. Len(s)
      BY <2>2, <2>7
    <3>2. CASE l = Len(s) + 1
      <4>1. PICK m \in 1 .. n - 1 : s[k] = order[m]
        BY <3>1 DEF StagesOf
      <4>2. Before(es, order[m], order[n])
        BY <1>1, <4>1 DEF Orders
      <4>3. QED
        BY <2>2, <2>3, <3>1, <3>2, <4>1, <4>2
    <3>3. CASE l \in 1 .. Len(s)
      <4>1. Before(es, s[k], s[l]) /\ StageOf(es[s[k]]) # StageOf(es[s[l]])
        BY <2>7, <3>1, <3>3 DEF StagesOf
      <4>2. t[k] = s[k] /\ t[l] = s[l]
        BY <2>2, <3>1, <3>3
      <4>3. QED
        BY <4>1, <4>2
    <3>4. l = Len(s) + 1 \/ l \in 1 .. Len(s)
      BY <2>2
    <3>5. QED
      BY <3>2, <3>3, <3>4, Zenon
  <2>8. QED
    BY <2>2, <2>5, <2>6, <2>7 DEF StagesOf, t
<1>3. CASE ~(StageOf(es[i]) # "none" /\ OpensStage(es, s, i))
  <2>1. t = s
    BY <1>3 DEF OneMore
  <2>2. StageOf(es[i]) # "none" => \E k \in 1 .. Len(s) : StageOf(es[s[k]]) = StageOf(es[i])
    BY <1>3 DEF OpensStage
  <2>3. ASSUME NEW m \in 1 .. n, StageOf(es[order[m]]) # "none"
        PROVE  \E k \in 1 .. Len(s) : StageOf(es[s[k]]) = StageOf(es[order[m]])
    <3>1. CASE m = n
      BY <2>2, <2>3, <3>1
    <3>2. CASE m \in 1 .. n - 1
      BY <2>3, <3>2 DEF StagesOf
    <3>3. QED
      BY <1>1, <3>1, <3>2
  <2>4. ASSUME NEW k \in 1 .. Len(s)
        PROVE  /\ StageOf(es[s[k]]) # "none"
               /\ \E m \in 1 .. n :
                     /\ s[k] = order[m]
                     /\ \A j \in 1 .. m - 1 : StageOf(es[order[j]]) # StageOf(es[s[k]])
    BY <1>1 DEF StagesOf
  <2>5. \A k, l \in 1 .. Len(s) : k < l =>
            Before(es, s[k], s[l]) /\ StageOf(es[s[k]]) # StageOf(es[s[l]])
    BY DEF StagesOf
  <2> HIDE DEF t
  <2>6. StagesOf(s, es, order, n)
    BY <1>1, <2>3, <2>4, <2>5 DEF StagesOf
  <2>7. QED
    BY <2>1, <2>6 DEF t
<1>4. QED
  BY <1>2, <1>3

\* The stages of the cascade.
LEMMA CascadeStages ==
    ASSUME NEW es, Numbered(es)
    PROVE  StagesOf(DetectCascade(es).stages, es, OrderedEvents(es), Len(es))
<1> DEFINE order == OrderedEvents(es)
<1>1. Orders(order, es, Len(es)) /\ Len(es) \in Nat
  BY OrderedIsOrder DEF Numbered
<1>2. PICK f : Goes(f, es, order, Len(es)) /\ DetectCascade(es).stages = f[Len(es)]
  <2>1. \E f : Goes(f, es, order, Len(es))
    BY <1>1, LoopExists
  <2> DEFINE f == CHOOSE f : f = [n \in 0 .. Len(es) |->
            IF n = 0 THEN << >>
            ELSE LET i == order[n]
                 IN  IF StageOf(es[i]) # "none" /\ OpensStage(es, f[n - 1], i)
                     THEN Append(f[n - 1], i) ELSE f[n - 1]]
  <2>2. Goes(f, es, order, Len(es))
    BY <2>1, Zenon DEF Goes
  <2>3. DetectCascade(es).stages = f[Len(es)]
    BY Zenon DEF DetectCascade
  <2>4. QED
    BY <2>2, <2>3
<1> HIDE DEF order
<1>3. ASSUME NEW n \in 0 .. Len(es)
      PROVE  f[n] = IF n = 0 THEN << >> ELSE OneMore(es, order, n, f[n - 1])
  <2>1. f = [k \in 0 .. Len(es) |-> IF k = 0 THEN << >> ELSE OneMore(es, order, k, f[k - 1])]
    BY <1>1, <1>2, GoesByOne
  <2>2. QED
    BY <2>1
<1> DEFINE Bad == {n \in 0 .. Len(es) : ~StagesOf(f[n], es, order, n)}
<1>4. SUFFICES ASSUME Bad # {}
               PROVE  FALSE
  <2>1. Len(es) \in 0 .. Len(es)
    BY <1>1
  <2>2. QED
    BY <1>2, <2>1 DEF order
<1>5. PICK n \in Bad : \A k \in Bad : n <= k
  <2>1. Bad \in SUBSET Nat
    BY <1>1
  <2>2. QED
    BY <1>4, <2>1, Least
<1>6. n # 0
  <2>1. f[0] = << >> /\ << >> \in Seq(1 .. Len(es)) /\ Len(<< >>) = 0 /\ 1 .. 0 = {}
    BY <1>1, <1>3
  <2>2. StagesOf(f[0], es, order, 0)
    BY <2>1 DEF StagesOf
  <2>3. QED
    BY <1>5, <2>2
<1>7. n \in 1 .. Len(es) /\ n - 1 \in 0 .. Len(es) /\ ~(n <= n - 1)
  BY <1>1, <1>5, <1>6
<1>8. StagesOf(f[n - 1], es, order, n - 1)
  BY <1>5, <1>7
<1>9. f[n] = OneMore(es, order, n, f[n - 1])
  BY <1>3, <1>5, <1>6
<1>10. QED
  BY <1>1, <1>5, <1>7, <1>8, <1>9, StagesGrow

\* The stages of a report are the classes that occurred, each at its first event, in the
\* order of the records, but for events of different processes that overlapped
\* (cascade.py:162-193, core.py:62).
THEOREM CascadeCorrect == Spec => []CascadeFaithful
<1>1. IInv => CascadeFaithful
  <2> SUFFICES ASSUME IInv, Readable
               PROVE  CascadeFaithful
    BY DEF CascadeFaithful
  <2> DEFINE stages == DetectCascade(Events).stages
             order == OrderedEvents(Events)
             places == {stages[k] : k \in 1 .. Len(stages)}
             occur == {StageOf(Events[i]) : i \in 1 .. Len(Events)} \ {"none"}
  <2>1. TypeOK /\ Len(log) \in Nat /\ Len(Events) = Len(log)
    BY DEF IInv, TypeOK, Events
  <2>2. Numbered(Events)
    <3>1. ASSUME NEW i \in 1 .. Len(log)
          PROVE  Events[i].seq \in Nat
      <4>1. log[i].seq \in Nat
        BY <2>1, Numbers
      <4>2. QED
        BY <2>1, <4>1, SeqOfEvent
    <3>2. QED
      BY <2>1, <3>1 DEF Numbered
  <2>3. Orders(order, Events, Len(log))
    BY <2>1, <2>2, OrderedIsOrder
  <2>4. StagesOf(stages, Events, order, Len(log))
    BY <2>1, <2>2, CascadeStages
  <2>5. DetectCascade(Events).severity =
            IF Len(stages) >= 4 THEN "critical" ELSE IF Len(stages) >= 3 THEN "high" ELSE "none"
    BY Zenon DEF DetectCascade
  <2> HIDE DEF stages, order
  <2>6. stages \in Seq(1 .. Len(log)) /\ Len(stages) \in Nat
        /\ \A k \in 1 .. Len(stages) : stages[k] \in 1 .. Len(log)
    <3>1. stages \in Seq(1 .. Len(log))
      BY <2>1, <2>4 DEF StagesOf
    <3>2. QED
      BY <3>1
  <2>7. {StageOf(Events[i]) : i \in places} = occur
    <3>1. ASSUME NEW i \in places
          PROVE  StageOf(Events[i]) \in occur
      BY <2>1, <2>4, <2>6 DEF StagesOf
    <3>2. ASSUME NEW c \in occur
          PROVE  \E i \in places : StageOf(Events[i]) = c
      <4>1. PICK i \in 1 .. Len(log) : StageOf(Events[i]) = c /\ c # "none"
        BY <2>1
      <4>2. PICK m \in 1 .. Len(log) : order[m] = i
        BY <2>3 DEF Orders
      <4>3. PICK k \in 1 .. Len(stages) : StageOf(Events[stages[k]]) = StageOf(Events[i])
        BY <2>4, <4>1, <4>2 DEF StagesOf
      <4>4. QED
        BY <4>1, <4>3
    <3>3. QED
      BY <3>1, <3>2
  <2>8. Len(stages) = Cardinality(occur)
    <3> DEFINE b == [k \in 1 .. Len(stages) |-> StageOf(Events[stages[k]])]
    <3>1. b \in [1 .. Len(stages) -> occur]
      BY <2>7
    <3>2. \A c \in occur : \E k \in 1 .. Len(stages) : b[k] = c
      BY <2>7
    <3>3. ASSUME NEW k \in 1 .. Len(stages), NEW l \in 1 .. Len(stages), b[k] = b[l]
          PROVE  k = l
      <4>1. k < l \/ l < k \/ k = l
        BY <2>6
      <4>2. QED
        BY <2>4, <3>3, <4>1 DEF StagesOf
    <3> HIDE DEF b, occur
    <3>4. b \in Bijection(1 .. Len(stages), occur)
      BY <3>1, <3>2, <3>3 DEF Bijection, Injection, Surjection, IsInjective
    <3>5. ExistsBijection(1 .. Len(stages), occur)
      BY <3>4 DEF ExistsBijection
    <3>6. IsFiniteSet(1 .. Len(stages)) /\ Cardinality(1 .. Len(stages)) = Len(stages)
      <4>1. Len(stages) \in Int /\ 1 \in Int
        BY <2>6
      <4>2. /\ IsFiniteSet(1 .. Len(stages))
            /\ Cardinality(1 .. Len(stages)) = IF 1 > Len(stages) THEN 0 ELSE Len(stages) - 1 + 1
        BY <4>1, FS_Interval
      <4>3. QED
        BY <2>6, <4>2
    <3>7. QED
      BY <3>5, <3>6, FS_Bijection
  <2>9. ASSUME NEW i \in places, NEW j \in 1 .. (i - 1), StageOf(Events[j]) = StageOf(Events[i])
        PROVE  WrittenWhileCounted(j, i)
    <3>1. PICK k \in 1 .. Len(stages) : i = stages[k]
      OBVIOUS
    <3>2. PICK m \in 1 .. Len(log) :
              i = order[m] /\ \A n \in 1 .. m - 1 : StageOf(Events[order[n]]) # StageOf(Events[i])
      BY <2>4, <3>1 DEF StagesOf
    <3>3. i \in 1 .. Len(log) /\ j \in 1 .. Len(log) /\ j # i
      BY <2>1, <2>6, <3>1
    <3>4. PICK n \in 1 .. Len(log) : order[n] = j
      BY <2>3, <3>3 DEF Orders
    <3>5. n \notin 1 .. m - 1 /\ n # m
      BY <2>9, <3>2, <3>3, <3>4
    <3>6. m < n
      BY <2>1, <3>5
    <3>7. Before(Events, i, j)
      BY <2>3, <3>2, <3>4, <3>6 DEF Orders
    <3>8. QED
      BY <2>1, <3>3, <3>7, MisorderIsOverlap
  <2>10. ASSUME NEW k \in 1 .. Len(stages), NEW m \in (k + 1) .. Len(stages), stages[m] < stages[k]
         PROVE  WrittenWhileCounted(stages[m], stages[k])
    <3>1. m \in 1 .. Len(stages) /\ k < m
      BY <2>6
    <3>2. Before(Events, stages[k], stages[m])
      BY <2>4, <3>1 DEF StagesOf
    <3>3. stages[k] \in 1 .. Len(log) /\ stages[m] \in 1 .. (stages[k] - 1)
      BY <2>6, <2>10, <3>1
    <3>4. QED
      BY <2>1, <3>2, <3>3, MisorderIsOverlap
  <2>11. DetectCascade(Events).severity =
             CASE Cardinality(occur) >= 4 -> "critical"
               [] Cardinality(occur) = 3  -> "high"
               [] OTHER                   -> "none"
    BY <2>5, <2>6, <2>8
  <2>12. QED
    BY <2>7, <2>8, <2>9, <2>10, <2>11 DEF CascadeFaithful, stages
<1>2. QED
  BY <1>1, Invariance, PTL
=============================================================================
