-------------------------- MODULE ReadHooksProofs --------------------------
(***************************************************************************)
(* Proofs about ReadHooks, for any threads, paths and number of reads.     *)
(* First the counter: it is the number of raised regions and of leaks.     *)
(* Then the reads: one that nothing overlapped sees the counter at zero    *)
(* wherever it looks, so it is checked, and recorded if the recorder works. *)
(***************************************************************************)
EXTENDS ReadHooks, FiniteSetTheorems, TLAPS

Raisers == {t \in Threads : InRaised(t)}

\* Where a read is after the policy has let it pass.
Passed == {"opening", "reading", "bump", "record"} \cup Raised

\* While a read that nothing overlapped is under way, no other thread is in its raised
\* region and no interrupt has left the counter raised.
AloneUnlessOverlapped(t) ==
    pc[t] \in Active /\ t \notin overlapped
        => leaks = 0 /\ \A u \in Threads \ {t} : ~InRaised(u)

\* What one read owes to where it is.
ReadInv(t) ==
    /\ pc[t] = "raw" => t \in overlapped
    /\ pc[t] \in Passed => op[t].path \notin Denied
    /\ pc[t] \in {"idle"} \cup Active => events[t] = 0
    /\ events[t] <= 1
    /\ pc[t] = "done" /\ result[t] # "interrupted" /\ t \notin overlapped =>
          \/ events[t] = 1
          \/ t \in failed /\ (op[t].kind = "whole" => result[t] = "error")
    /\ pc[t] = "done" /\ result[t] = "data" /\ op[t].path \in Denied => t \in overlapped

IInv ==
    /\ CounterAccounts
    /\ \A t \in Threads : AloneUnlessOverlapped(t) /\ ReadInv(t)

\* A step of thread t inside a read.
Step(t) ==
    \/ Entry(t) \/ RawOpen(t) \/ Risk(t) \/ Block(t) \/ Record(t)
    \/ RecordFails(t) \/ Open(t) \/ Bump(t) \/ InnerOpen(t) \/ Drop(t)
    \/ \E res \in {"data", "error"} : RawRead(t, res) \/ Close(t, res) \/ InnerRead(t, res)

\* A step of thread t.
Acts(t) ==
    \/ \E kind \in {"open", "whole"}, path \in Paths : Start(t, kind, path)
    \/ Step(t)
    \/ t = Main /\ (Interrupt \/ InterruptHandle)

LEMMA NextActs == Next => \E t \in Threads : Acts(t)
BY ConstantsAssumption DEF Next, Acts, Step

-----------------------------------------------------------------------------
(* The counter *)

LEMMA RaisersFinite == IsFiniteSet(Raisers) /\ Cardinality(Raisers) \in Nat
BY ConstantsAssumption, FS_Subset, FS_CardinalityType DEF Raisers

\* The types are kept by every step that keeps the counter a number.
LEMMA TypeStep ==
    ASSUME TypeOK, NEW t \in Threads, Acts(t), suppress' \in Nat
    PROVE  TypeOK'
<1> USE ConstantsAssumption DEF TypeOK, Goto
<1>1. ASSUME NEW kind \in {"open", "whole"}, NEW path \in Paths, Start(t, kind, path)
      PROVE  TypeOK'
  BY <1>1 DEF Start, Active
<1>2. CASE Entry(t) \/ Risk(t)
  BY <1>2 DEF Entry, Risk, Active
<1>3. CASE Block(t) \/ Record(t)
  BY <1>3, SMTT(30) DEF Block, Record, Active, RecordedEvents
<1>4. CASE Open(t) \/ RecordFails(t)
  BY <1>4 DEF Open, RecordFails, Active
<1>12. CASE RawOpen(t)
  <2>1. op' \in [Threads -> [kind : {"open", "whole"}, path : Paths]]
    BY <1>12 DEF RawOpen
  <2>2. QED
    BY <1>12, <2>1 DEF RawOpen, Active
<1>5. CASE Bump(t)
  BY <1>5 DEF Bump, Active, Raised
<1>6. CASE InnerOpen(t)
  BY <1>6 DEF InnerOpen, Active, Raised, RecordedEvents
<1>7. CASE Drop(t)
  BY <1>7 DEF Drop, Active
<1>8. ASSUME NEW res \in {"data", "error"}, RawRead(t, res) \/ Close(t, res) \/ InnerRead(t, res)
      PROVE  TypeOK'
  BY <1>8 DEF RawRead, Close, InnerRead, Active, Raised
<1>9. CASE Interrupt
  <2>1. leaks' \in Nat
    BY <1>9 DEF Interrupt
  <2>2. QED
    BY <1>9, <2>1 DEF Interrupt, Active
<1>10. CASE InterruptHandle
  BY <1>10 DEF InterruptHandle, Active
<1>11. QED
  BY <1>1, <1>2, <1>3, <1>4, <1>5, <1>6, <1>7, <1>8, <1>9, <1>10, <1>12 DEF Acts, Step

\* A thread that goes on enters its raised region, leaves it, or neither.
LEMMA RaisersMove ==
    ASSUME TypeOK, NEW t \in Threads, NEW where, Goto(t, where)
    PROVE  Raisers' = IF where \in Raised THEN Raisers \cup {t} ELSE Raisers \ {t}
BY DEF TypeOK, Goto, Raisers, InRaised

\* CounterAccounts is kept by every step.
LEMMA CounterStep ==
    ASSUME CounterAccounts, NEW t \in Threads, Acts(t)
    PROVE  CounterAccounts'
<1> DEFINE S == Raisers
<1>1. /\ TypeOK /\ IsFiniteSet(S) /\ Cardinality(S) \in Nat
      /\ suppress = Cardinality(S) + leaks /\ leaks \in Nat
  BY RaisersFinite DEF CounterAccounts, Raisers, TypeOK
<1>2. SUFFICES suppress' = Cardinality(S') + leaks' /\ suppress' \in Nat
  BY <1>1, TypeStep DEF CounterAccounts, Raisers
<1>3. ASSUME S' = S, suppress' = suppress, leaks' = leaks
      PROVE  suppress' = Cardinality(S') + leaks' /\ suppress' \in Nat
  BY <1>1, <1>3
<1>4. ASSUME NEW where, Goto(t, where), where \in Raised <=> InRaised(t)
      PROVE  S' = S
  BY <1>1, <1>4, RaisersMove DEF Raisers
<1>5. ASSUME NEW kind \in {"open", "whole"}, NEW path \in Paths, Start(t, kind, path)
      PROVE  S' = S
  BY <1>4, <1>5 DEF Start, InRaised, Raised
<1>6. CASE Entry(t) \/ RawOpen(t) \/ Risk(t) \/ Block(t) \/ Record(t) \/ RecordFails(t) \/ Open(t) \/ InnerOpen(t)
  <2>1. S' = S
    BY <1>4, <1>6 DEF Entry, RawOpen, Risk, Block, Record, RecordFails, Open, InnerOpen, InRaised, Raised
  <2>2. QED
    BY <1>3, <1>6, <2>1 DEF Entry, RawOpen, Risk, Block, Record, RecordFails, Open, InnerOpen
<1>7. CASE Bump(t)
  <2>1. S' = S \cup {t} /\ t \notin S
    BY <1>1, <1>7, RaisersMove DEF Bump, Raisers, InRaised, Raised
  <2>2. Cardinality(S') = Cardinality(S) + 1
    BY <1>1, <2>1, FS_AddElement
  <2>3. QED
    BY <1>1, <1>7, <2>2 DEF Bump
<1>8. CASE Drop(t)
  <2>1. S' = S \ {t} /\ t \in S
    BY <1>1, <1>8, RaisersMove DEF Drop, Raisers, InRaised, Raised
  <2>2. Cardinality(S') = Cardinality(S) - 1 /\ Cardinality(S') \in Nat
    BY <1>1, <2>1, FS_RemoveElement, FS_CardinalityType
  <2>3. QED
    BY <1>1, <1>8, <2>2 DEF Drop
<1>9. ASSUME NEW res \in {"data", "error"}, RawRead(t, res) \/ Close(t, res) \/ InnerRead(t, res)
      PROVE  S' = S
  BY <1>4, <1>9 DEF RawRead, Close, InnerRead, InRaised, Raised
<1>10. CASE Interrupt /\ t = Main
  <2>1. S' = S \ {t}
    BY <1>1, <1>10, RaisersMove DEF Interrupt, Raised
  <2>2. CASE t \in S
    <3>1. Cardinality(S') = Cardinality(S) - 1
      BY <1>1, <2>1, <2>2, FS_RemoveElement
    <3>2. leaks' = leaks + 1 /\ suppress' = suppress
      BY <1>10, <2>2 DEF Interrupt, Raisers
    <3>3. QED
      BY <1>1, <3>1, <3>2
  <2>3. CASE t \notin S
    <3>1. S' = S
      BY <2>1, <2>3
    <3>2. leaks' = leaks /\ suppress' = suppress
      BY <1>10, <2>3 DEF Interrupt, Raisers
    <3>3. QED
      BY <1>3, <3>1, <3>2
  <2>4. QED
    BY <2>2, <2>3
<1>11. CASE InterruptHandle /\ t = Main
  <2>1. S' = S
    BY <1>4, <1>11 DEF InterruptHandle, InRaised, Raised
  <2>2. QED
    BY <1>3, <1>11, <2>1 DEF InterruptHandle
<1>12. QED
  BY <1>3, <1>5, <1>6, <1>7, <1>8, <1>9, <1>10, <1>11
     DEF Acts, Step, Start, RawRead, Close, InnerRead

\* What the counter tells a thread.
LEMMA CounterTells ==
    ASSUME CounterAccounts, NEW t \in Threads
    PROVE  /\ InRaised(t) => suppress > 0
           /\ leaks = 0 /\ (\A u \in Threads : ~InRaised(u)) => suppress = 0
<1>1. /\ IsFiniteSet(Raisers) /\ Cardinality(Raisers) \in Nat
      /\ suppress = Cardinality(Raisers) + leaks /\ leaks \in Nat
  BY RaisersFinite DEF CounterAccounts, Raisers, TypeOK
<1>2. ASSUME InRaised(t)
      PROVE  suppress > 0
  <2>1. Raisers # {}
    BY <1>2 DEF Raisers
  <2>2. Cardinality(Raisers) # 0
    BY <1>1, <2>1, FS_EmptySet
  <2>3. QED
    BY <1>1, <2>2
<1>3. ASSUME leaks = 0, \A u \in Threads : ~InRaised(u)
      PROVE  suppress = 0
  <2>1. Raisers = {}
    BY <1>3 DEF Raisers
  <2>2. QED
    BY <1>1, <1>3, <2>1, FS_EmptySet
<1>4. QED
  BY <1>2, <1>3

-----------------------------------------------------------------------------
(* The reads *)

\* A read that nothing overlapped, outside its own raised region, finds the
\* counter at zero.
LEMMA CounterZero ==
    ASSUME IInv, NEW t \in Threads, pc[t] \in Active, t \notin overlapped, ~InRaised(t)
    PROVE  suppress = 0
BY CounterTells DEF IInv, AloneUnlessOverlapped

\* A step of one thread leaves the read of every other thread where it is, and
\* only ever marks it as overlapped.
LEMMA OthersFramed ==
    ASSUME TypeOK, NEW t \in Threads, Acts(t), NEW u \in Threads \ {t}
    PROVE  /\ pc'[u] = pc[u] /\ op'[u] = op[u]
           /\ result'[u] = result[u] /\ events'[u] = events[u]
           /\ u \in overlapped => u \in overlapped'
           /\ u \in failed => u \in failed'
           /\ pc[u] \notin Active => (u \in overlapped' => u \in overlapped)
<1> DEFINE Framed == /\ pc'[u] = pc[u] /\ op'[u] = op[u]
                     /\ result'[u] = result[u] /\ events'[u] = events[u]
                     /\ u \in overlapped => u \in overlapped'
                     /\ u \in failed => u \in failed'
                     /\ pc[u] \notin Active => (u \in overlapped' => u \in overlapped)
<1> USE ConstantsAssumption DEF TypeOK, Goto
<1>1. ASSUME NEW kind \in {"open", "whole"}, NEW path \in Paths, Start(t, kind, path)
      PROVE  Framed
  BY <1>1 DEF Start
<1>2. CASE Entry(t) \/ RawOpen(t) \/ Risk(t) \/ Block(t) \/ Record(t) \/ RecordFails(t)
  BY <1>2 DEF Entry, RawOpen, Risk, Block, Record, RecordFails
<1>3. CASE Open(t) \/ Bump(t) \/ InnerOpen(t) \/ Drop(t)
  BY <1>3 DEF Open, Bump, InnerOpen, Drop
<1>4. ASSUME NEW res \in {"data", "error"}, RawRead(t, res) \/ Close(t, res) \/ InnerRead(t, res)
      PROVE  Framed
  BY <1>4 DEF RawRead, Close, InnerRead
<1>5. CASE t = Main /\ (Interrupt \/ InterruptHandle)
  BY <1>5 DEF Interrupt, InterruptHandle
<1>6. QED
  BY <1>1, <1>2, <1>3, <1>4, <1>5 DEF Acts, Step

\* What a step of one thread does to the claim that another one is alone.
LEMMA AloneStep ==
    ASSUME IInv, NEW t \in Threads, Acts(t), NEW u \in Threads
    PROVE  AloneUnlessOverlapped(u)'
<1> USE ConstantsAssumption
<1> SUFFICES ASSUME pc'[u] \in Active, u \notin overlapped'
             PROVE  leaks' = 0 /\ \A v \in Threads \ {u} : ~InRaised(v)'
  BY DEF AloneUnlessOverlapped
<1>1. TypeOK /\ AloneUnlessOverlapped(u) /\ AloneUnlessOverlapped(t)
  BY DEF IInv, CounterAccounts
<1> DEFINE Alone == leaks' = 0 /\ \A v \in Threads \ {u} : ~InRaised(v)'
<1>2. ASSUME NEW kind \in {"open", "whole"}, NEW path \in Paths, Start(t, kind, path)
      PROVE  Alone
  BY <1>1, <1>2 DEF Start, Goto, TypeOK, AloneUnlessOverlapped, InRaised, Raised
<1>3. ASSUME \/ Entry(t) \/ RawOpen(t) \/ Risk(t) \/ Block(t) \/ Record(t) \/ RecordFails(t)
             \/ Open(t) \/ InnerOpen(t) \/ Drop(t)
      PROVE  Alone
  BY <1>1, <1>3 DEF Entry, RawOpen, Risk, Block, Record, RecordFails, Open, InnerOpen, Drop,
                    Goto, TypeOK, AloneUnlessOverlapped, InRaised, Raised, Active
<1>4. CASE Bump(t)
  <2>1. u = t
    BY <1>1, <1>4 DEF Bump, Goto, TypeOK
  <2>2. QED
    BY <1>1, <1>4, <2>1 DEF Bump, Goto, TypeOK, AloneUnlessOverlapped, InRaised, Active
<1>5. ASSUME NEW res \in {"data", "error"}, RawRead(t, res) \/ Close(t, res) \/ InnerRead(t, res)
      PROVE  Alone
  BY <1>1, <1>5 DEF RawRead, Close, InnerRead,
                    Goto, TypeOK, AloneUnlessOverlapped, InRaised, Raised, Active
<1>6. CASE t = Main /\ Interrupt
  <2>1. u # Main
    BY <1>1, <1>6 DEF Interrupt, Goto, TypeOK, Active, Raised
  <2>2. ~InRaised(Main) /\ leaks = 0
    BY <1>1, <1>6, <2>1 DEF Interrupt, Goto, TypeOK, AloneUnlessOverlapped
  <2>3. QED
    BY <1>1, <1>6, <2>1, <2>2 DEF Interrupt, Goto, TypeOK, AloneUnlessOverlapped, InRaised, Raised
<1>7. CASE t = Main /\ InterruptHandle
  BY <1>1, <1>7 DEF InterruptHandle, Goto, TypeOK, AloneUnlessOverlapped, InRaised, Raised, Active
<1>8. QED
  BY <1>2, <1>3, <1>4, <1>5, <1>6, <1>7 DEF Acts, Step

\* The read of a thread keeps its account through the steps of that thread.
LEMMA OwnReadStep ==
    ASSUME IInv, NEW t \in Threads, Acts(t)
    PROVE  ReadInv(t)'
<1> USE ConstantsAssumption DEF Goto, TypeOK
<1>1. TypeOK /\ ReadInv(t)
  BY DEF IInv, CounterAccounts
<1>2. ASSUME NEW kind \in {"open", "whole"}, NEW path \in Paths, Start(t, kind, path)
      PROVE  ReadInv(t)'
  BY <1>1, <1>2 DEF Start, ReadInv, Passed, Active, Raised
<1>3. CASE Entry(t)
  <2>1. suppress > 0 => t \in overlapped
    BY <1>1, <1>3, CounterZero DEF Entry, Active, InRaised, Raised
  <2>2. QED
    BY <1>1, <1>3, <2>1 DEF Entry, ReadInv, Passed, Active, Raised
<1>4. CASE Risk(t)
  BY <1>1, <1>4 DEF Risk, ReadInv, Passed, Active, Raised
<1>5. ASSUME Block(t) \/ Record(t)
      PROVE  ReadInv(t)'
  <2>1. events[t] = 0 /\ pc'[t] = "done" /\ events'[t] = RecordedEvents(t)
        /\ op' = op /\ overlapped' = overlapped
    BY <1>1, <1>5 DEF Block, Record, ReadInv, Active
  <2>2. t \notin overlapped => suppress = 0
    BY <1>1, <1>5, CounterZero DEF Block, Record, Active, InRaised, Raised
  <2>3. events'[t] \in 0 .. 1 /\ (t \notin overlapped => events'[t] = 1)
    BY <1>1, <2>1, <2>2 DEF RecordedEvents
  <2>4. result'[t] = "data" => op'[t].path \notin Denied
    BY <1>1, <1>5 DEF Block, Record, ReadInv, Passed
  <2>5. QED
    BY <2>1, <2>3, <2>4 DEF ReadInv, Passed, Active, Raised
<1>11. CASE RawOpen(t)
  BY <1>1, <1>11 DEF RawOpen, ReadInv, Passed, Active, Raised
<1>12. CASE RecordFails(t)
  BY <1>1, <1>12 DEF RecordFails, ReadInv, Passed, Active, Raised
<1>6. CASE Open(t) \/ Bump(t) \/ Drop(t)
  BY <1>1, <1>6 DEF Open, Bump, Drop, ReadInv, Passed, Active, Raised
<1>7. CASE InnerOpen(t)
  <2>1. suppress > 0
    BY <1>1, <1>7, CounterTells DEF InnerOpen, IInv, InRaised, Raised
  <2>2. events' = events
    BY <1>1, <1>7, <2>1 DEF InnerOpen, RecordedEvents
  <2>3. QED
    BY <1>1, <1>7, <2>2 DEF InnerOpen, ReadInv, Passed, Active, Raised
<1>8. ASSUME NEW res \in {"data", "error"}, RawRead(t, res) \/ Close(t, res) \/ InnerRead(t, res)
      PROVE  ReadInv(t)'
  BY <1>1, <1>8 DEF RawRead, Close, InnerRead, ReadInv, Passed, Active, Raised
<1>9. CASE t = Main /\ (Interrupt \/ InterruptHandle)
  BY <1>1, <1>9 DEF Interrupt, InterruptHandle, ReadInv, Passed, Active, Raised
<1>10. QED
  BY <1>2, <1>3, <1>4, <1>5, <1>6, <1>7, <1>8, <1>9, <1>11, <1>12 DEF Acts, Step

\* It keeps its account through the steps of the other threads as well.
LEMMA OtherReadStep ==
    ASSUME IInv, NEW t \in Threads, Acts(t), NEW u \in Threads \ {t}
    PROVE  ReadInv(u)'
<1>1. TypeOK /\ ReadInv(u)
  BY DEF IInv, CounterAccounts
<1>2. QED
  BY <1>1, OthersFramed DEF ReadInv

-----------------------------------------------------------------------------
(* The theorems *)

LEMMA InitIInv == Init => IInv
<1> SUFFICES ASSUME Init PROVE IInv
  OBVIOUS
<1> USE ConstantsAssumption DEF Init
<1>1. TypeOK
  <2>1. (CHOOSE p \in Paths : TRUE) \in Paths
    OBVIOUS
  <2>2. QED
    BY <2>1 DEF TypeOK
<1>2. Raisers = {}
  BY DEF Raisers, InRaised, Raised
<1>3. CounterAccounts
  <2>1. Cardinality(Raisers) = 0
    BY <1>2, FS_EmptySet
  <2>2. suppress = Cardinality(Raisers) + leaks
    BY <2>1
  <2>3. QED
    BY <1>1, <2>2 DEF CounterAccounts, Raisers
<1>4. ASSUME NEW t \in Threads
      PROVE  AloneUnlessOverlapped(t) /\ ReadInv(t)
  BY DEF AloneUnlessOverlapped, ReadInv, Active, Raised, Passed
<1>5. QED
  BY <1>3, <1>4 DEF IInv

LEMMA NextIInv == IInv /\ [Next]_vars => IInv'
<1> SUFFICES ASSUME IInv, [Next]_vars PROVE IInv'
  OBVIOUS
<1>1. ASSUME NEW t \in Threads, Acts(t)
      PROVE  IInv'
  <2>1. CounterAccounts'
    BY <1>1, CounterStep DEF IInv
  <2>2. ASSUME NEW u \in Threads
        PROVE  AloneUnlessOverlapped(u)' /\ ReadInv(u)'
    BY <1>1, AloneStep, OwnReadStep, OtherReadStep
  <2>3. QED
    BY <2>1, <2>2 DEF IInv
<1>2. CASE UNCHANGED vars
  BY <1>2 DEF vars, IInv, CounterAccounts, TypeOK, InRaised, AloneUnlessOverlapped, ReadInv
<1>3. QED
  BY <1>1, <1>2, NextActs

\* The inductive invariant: the counter's account, that a read nothing overlapped is
\* alone, and what every read owes to where it is (hooks.py:372-466).
THEOREM Inductive == Spec => []IInv
BY InitIInv, NextIInv, PTL DEF Spec

\* The counter is the number of raised regions and of interrupts that left it
\* raised, for any number of threads (hooks.py:437-445, 458-466).
THEOREM CounterAccountsHolds == Spec => []CounterAccounts
<1>1. IInv => CounterAccounts
  BY DEF IInv
<1>2. QED
  BY <1>1, Inductive, PTL

\* No read is recorded twice (hooks.py:388-397, 434-447).
THEOREM AtMostOneEventHolds == Spec => []AtMostOneEvent
<1>1. IInv => AtMostOneEvent
  BY DEF IInv, ReadInv, AtMostOneEvent
<1>2. QED
  BY <1>1, Inductive, PTL

\* Only an overlap, an interrupt or a recorder that fails hides a read from the
\* trace, and a failure hides no data of read_text (hooks.py:245, 354-358, 389).
THEOREM HiddenOnlyByOverlapHolds == Spec => []HiddenOnlyByOverlap
<1>1. IInv => HiddenOnlyByOverlap
  BY DEF IInv, ReadInv, HiddenOnlyByOverlap
<1>2. QED
  BY <1>1, Inductive, PTL

\* Only an overlap gets the agent the data of a denied path
\* (hooks.py:372-385, 389-391).
THEOREM DeniedDataOnlyByOverlapHolds == Spec => []DeniedDataOnlyByOverlap
<1>1. IInv => DeniedDataOnlyByOverlap
  BY DEF IInv, ReadInv, DeniedDataOnlyByOverlap
<1>2. QED
  BY <1>1, Inductive, PTL
=============================================================================
