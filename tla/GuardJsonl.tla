----------------------------- MODULE GuardJsonl -----------------------------
(***************************************************************************)
(* The JSONL file that runs of traceseal-guard append to, and what a       *)
(* reader makes of it (append_jsonl and emit of                            *)
(* crates/traceseal-guard/src/main.rs, load_guard_events of                *)
(* traceseal/guard_schema.py).  A guard opens the file for appending and   *)
(* writes the line and the newline by two calls; each is one appending     *)
(* write, so whole pieces of several guards may alternate, and a write     *)
(* that fails may leave a part of its piece.  An event is named by its     *)
(* event_id, which holds the process and the time (event_identity): a      *)
(* guard for its own, a member of DOMAIN Older for one that was there.     *)
(***************************************************************************)
EXTENDS GuardEvents, FiniteSets

CONSTANTS
    Guards,     \* processes of traceseal-guard, each run once
    Commands,   \* what they are started with: [kind, opts]
    Older,      \* events of other producers: a function from ids to events
    Earlier,    \* what the file may hold before: sequences of pieces
    Newline,    \* the piece that ends a line
    Part        \* a part of an event

ASSUME GuardAssumption ==
    /\ \A c \in Commands : IsOptions(c.opts)
    /\ None \notin Commands
    /\ Guards \cap DOMAIN Older = {}
    /\ {Newline, Part} \cap (Guards \cup DOMAIN Older) = {}
    /\ Newline # Part
    /\ \A file \in Earlier : file \in Seq(DOMAIN Older \cup {Newline, Part})

VARIABLES
    inbox,      \* the file: a sequence of pieces
    before,     \* what it held at first
    gpc,        \* where each guard is
    command,    \* what it was started with
    torn        \* history: a guard failed while writing, or one wrote its
                \* line between another's line and newline

guardVars == << inbox, before, gpc, command, torn >>

Ids == Guards \cup DOMAIN Older

\* run: the event a guard makes of its command before it opens the file.
Run == [c \in Commands |-> IF c.kind = "health" THEN HealthEvent ELSE ProcessSpawnEvent(c.opts)]

GuardTypeOK ==
    /\ before \in Earlier
    /\ inbox \in Seq(Ids \cup {Newline, Part})
    /\ gpc \in [Guards -> {"idle", "append", "newline", "ok", "failed"}]
    /\ command \in [Guards -> Commands \cup {None}]
    /\ torn \in BOOLEAN

GuardInit ==
    /\ before \in Earlier
    /\ inbox = before
    /\ gpc = [g \in Guards |-> "idle"]
    /\ command = [g \in Guards |-> None]
    /\ torn = FALSE

GuardGoto(g, from, to) == gpc[g] = from /\ gpc' = [gpc EXCEPT ![g] = to]

\* What is in the event of an id.
EventOf(id) == IF id \in Guards THEN Run[command[id]] ELSE Older[id]

-----------------------------------------------------------------------------
(* Faulty variants of steps below, used by no specification: each shows     *)
(* which property such a bug would break.                                   *)

\* The file is truncated when it is opened.
WriteOver(g) ==
    /\ GuardGoto(g, "append", "newline")
    /\ inbox' = << g >>
    /\ torn' = (torn \/ \E h \in Guards \ {g} : gpc[h] = "newline")
    /\ UNCHANGED << before, command >>

-----------------------------------------------------------------------------
(* traceseal-guard *)

\* main: with arguments that do not parse, or no name to open, the guard exits
\* before it writes.
StartGuard(g, c) ==
    /\ IF ParseArgs(c.kind, c.opts) /\ Value(c.opts, "--out", None) # "empty"
       THEN GuardGoto(g, "idle", "append") /\ command' = [command EXCEPT ![g] = c]
       ELSE GuardGoto(g, "idle", "failed") /\ UNCHANGED command
    /\ UNCHANGED << inbox, before, torn >>

\* write_all of the line
WriteLine(g) ==
    /\ GuardGoto(g, "append", "newline")
    /\ inbox' = Append(inbox, g)
    /\ torn' = (torn \/ \E h \in Guards \ {g} : gpc[h] = "newline")
    /\ UNCHANGED << before, command >>

\* write_all of the newline, and the flush that does nothing for a file.  The event
\* is printed as well and the guard exits with 0, unless stdout is closed.
WriteNewline(g) ==
    /\ \E end \in {"ok", "failed"} : GuardGoto(g, "newline", end)
    /\ inbox' = Append(inbox, Newline)
    /\ UNCHANGED << before, command, torn >>

\* The file cannot be opened or the line not be written, or a part of it is: the
\* event is in no file, and what the guard was started with no longer matters.
FailLine(g) ==
    /\ GuardGoto(g, "append", "failed")
    /\ command' = [command EXCEPT ![g] = None]
    /\ \/ UNCHANGED << inbox, torn >>
       \/ inbox' = Append(inbox, Part) /\ torn' = TRUE
    /\ UNCHANGED before

\* The newline cannot be written, or the guard is killed before: its event is there
\* and whatever comes next is on the same line.
FailNewline(g) ==
    /\ GuardGoto(g, "newline", "failed")
    /\ torn' = TRUE
    /\ UNCHANGED << inbox, before, command >>

GuardNext ==
    \E g \in Guards :
        \/ \E c \in Commands : StartGuard(g, c)
        \/ WriteLine(g) \/ WriteNewline(g) \/ FailLine(g) \/ FailNewline(g)

-----------------------------------------------------------------------------
(* load_guard_events *)

\* Each line that is not blank is one JSON object: an event ends its line.
WellFormed(file) ==
    \A k \in DOMAIN file :
        /\ file[k] # Part
        /\ file[k] # Newline /\ k < Len(file) => file[k + 1] = Newline

EventsOf(file) == Kept(file, Ids)

\* _validate_import_events: some event, every one valid, no id twice.
ValidEvents(es) ==
    /\ es # << >>
    /\ \A k \in DOMAIN es : ValidEvent(EventOf(es[k]))
    /\ \A j, k \in DOMAIN es : es[j] = es[k] => j = k

\* _load_and_validate
Importable(file) == WellFormed(file) /\ ValidEvents(EventsOf(file))

-----------------------------------------------------------------------------
(* Properties *)

\* A file with events can be imported unless a guard failed while it wrote or
\* two wrote at the same time, or what was there before cannot or did not end its
\* last line, or the target's directory was given as the empty word, which the
\* producer takes and the consumer refuses (main.rs:134-139, guard_schema.py:201).
RefusedForCause ==
    inbox # << >> /\ ~Importable(inbox) =>
        \/ torn
        \/ before # << >> /\ (~Importable(before) \/ before[Len(before)] # Newline)
        \/ \E g \in Guards : command[g] # None /\ Value(command[g].opts, "--cwd", None) = "empty"

\* The event of a command names exactly the words of it that were hidden.  Those are
\* the sensitive assignments and the words behind a sensitive flag that is shown, and
\* no others (main.rs:282-315).  A word behind a flag that was hidden itself, as the
\* value of the flag before it, is shown: a password can be (see the findings).
RedactionMarked ==
    \A g \in Guards : \A k \in DOMAIN inbox : inbox[k] = g =>
        LET e == EventOf(g)
            args == Args(command[g].opts)
            Shown(n) == e.line[n + 1] = args[n]
            Behind(n) == n > 1 /\ args[n - 1] = "flag" /\ Shown(n - 1)
        IN  e.type = "process.spawn" =>
                /\ e.fields = {n \in DOMAIN args : ~Shown(n)}
                /\ \A n \in DOMAIN args : Shown(n) <=> args[n] # "assign" /\ ~Behind(n)
=============================================================================
