----------------------------- MODULE SharedLog -----------------------------
(***************************************************************************)
(* What record_event (recorder/core.py) promises about events.jsonl, seen  *)
(* from outside: one call adds one piece at the end or nothing, a piece is *)
(* a whole line or the beginning of one, and the number in it is the one   *)
(* after the lines that the file had when its process had last written or  *)
(* later.  Locks, threads, crashes and the steps between counting and      *)
(* appending are not visible here; EventLog is shown to implement this     *)
(* specification.                                                          *)
(***************************************************************************)
EXTENDS Naturals, Sequences

CONSTANT Procs     \* the traced Python processes of one run

VARIABLE log       \* the pieces of events.jsonl, see EventLog!LogLine

\* The number of lines, a cut one included, when the file had i pieces.
LinesTo(i) == IF i = 0 THEN 0 ELSE log[i].line

\* What is added to a line that was cut stays on that line.
NextLine ==
    IF log # << >> /\ log[Len(log)].end = "cut" THEN LinesTo(Len(log)) ELSE LinesTo(Len(log)) + 1

(***************************************************************************)
(* Process p records one event, or a part of it.  Everything that was      *)
(* written after the lines it counted is by others.                        *)
(***************************************************************************)
Record(p) ==
    \E counted \in 0 .. Len(log), end \in {"newline", "cut"} :
        /\ \A i \in (counted + 1) .. Len(log) : log[i].proc # p
        /\ log' = Append(log, [proc |-> p, seq |-> LinesTo(counted) + 1,
                               line |-> NextLine, end |-> end])

Init == log = << >>

Next == \E p \in Procs : Record(p)

Spec == Init /\ [][Next]_log
=============================================================================
