---------------------------- MODULE TraceAnalysis ----------------------------
(***************************************************************************)
(* explain, replay and the dashboard read the events.jsonl that EventLog   *)
(* writes, at any moment of a run, and analyse it with Cascade.  The order *)
(* of the analysis is by seq, and seq is only what record_event's per-     *)
(* process lock makes of it: this module says how far "first" and "then"   *)
(* in a report can be trusted.                                             *)
(*                                                                         *)
(* What the lines say is fixed by Script, the successive events of each    *)
(* process, so that the log of EventLog is all the state there is.  A file *)
(* with a line that is not JSON is refused by load_events, so nothing is   *)
(* said of an event on a cut line or after one: a report of such a run     *)
(* does not exist.                                                         *)
(***************************************************************************)
EXTENDS EventLog, Cascade

CONSTANT Script     \* Script[p][k]: what the k-th line of process p records

\* load_events accepts the file only if every line is one event.  The last one
\* may lack its newline.
Readable == \A i \in 1 .. (Len(log) - 1) : ~Cut(i)

\* load_events: one event per line.
Line(i) ==
    LET p == log[i].proc
        k == Cardinality({j \in 1 .. i : log[j].proc = p})
        e == Script[p][k]
    IN  [seq |-> log[i].seq, type |-> e.type, rule |-> e.rule, matched |-> e.matched,
         level |-> e.level, domain |-> e.domain, push |-> e.push, path |-> e.path,
         command |-> e.command, changes |-> e.changes]

Events == [i \in 1 .. Len(log) |-> Line(i)]

\* Line j was written between the count and the append of line i, by another
\* process.
WrittenWhileCounted(j, i) ==
    j \in log[i].seq .. (i - 1) /\ log[j].proc # log[i].proc

-----------------------------------------------------------------------------
(* Properties *)

\* The event that explain reports as the first harmful one (explain.py:101,
\* cascade.py:142) is the first its process recorded, and it comes after
\* another harmful one in the file only if that one was recorded by another
\* process while this one was in record_event.
FirstHarmfulByOverlap ==
    Readable => \A i \in FirstHarmfulEvent(Events) :
        \A j \in 1 .. (i - 1) : Harmful(Events[j]) => WrittenWhileCounted(j, i)

\* The stages of detect_cascade (cascade.py:162-193) are one for each class
\* that occurs; the event of a stage is the first of its class, and two
\* stages are in the order in which they were recorded, up to overlaps of
\* different processes; the severity counts the classes that occur.
CascadeFaithful ==
    Readable =>
    LET events  == Events
        cascade == DetectCascade(events)
        stages  == cascade.stages
        places  == {stages[k] : k \in 1 .. Len(stages)}
        occur   == {StageOf(events[i]) : i \in 1 .. Len(events)} \ {"none"}
    IN  /\ {StageOf(events[i]) : i \in places} = occur
        /\ Len(stages) = Cardinality(occur)
        /\ \A i \in places : \A j \in 1 .. (i - 1) :
              StageOf(events[j]) = StageOf(events[i]) => WrittenWhileCounted(j, i)
        /\ \A k \in 1 .. Len(stages) : \A m \in (k + 1) .. Len(stages) :
              stages[m] < stages[k] => WrittenWhileCounted(stages[m], stages[k])
        /\ cascade.severity = CASE Cardinality(occur) >= 4 -> "critical"
                                [] Cardinality(occur) = 3  -> "high"
                                [] OTHER                   -> "none"
=============================================================================
