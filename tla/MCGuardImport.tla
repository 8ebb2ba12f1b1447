--------------------------- MODULE MCGuardImport ---------------------------
(* Instances of GuardImport for TLC: command lines that differ in what the   *)
(* parsers, the redaction and the validators tell apart, and what an older   *)
(* producer may have left in the file.                                       *)
EXTENDS GuardImport, TLC

Option(flag, value) == [flag |-> flag, value |-> value]
Target == << Option("--out", "plain"), Option("--workspace", "plain") >>
Spawn(more) == [kind |-> "process-spawn",
                opts |-> Target \o << Option("--program", "plain") >> \o more]

Word(value) == Option("--arg", value)

\* Three sensitive flags in a row, and what follows them.
Nested == Spawn(<< Word("flag"), Word("flag"), Word("flag"), Word("plain"), Word("assign") >>)
Homeless == Spawn(<< Option("--cwd", "empty") >>)
Wordless == Spawn(<< Word("empty") >>)
Health == [kind |-> "health", opts |-> Target]

MCCommands == {Nested, Homeless, Wordless}
FewCommands == {Health}

\* An event of a type the importer does not know, which passes, and one of another
\* run, which does not.
CONSTANTS unknown, foreign
MCOlder == unknown :> [HealthEvent EXCEPT !.type = "other", !.run = "this"]
        @@ foreign :> [HealthEvent EXCEPT !.run = "another"]
MCEarlier == { << >>, << unknown, Newline, foreign, Newline >> }
NoEarlier == { << >> }
MCPlaced == { << >>, << foreign >> }
NonePlaced == { << >> }

Interchangeable == Permutations(Importers) \cup Permutations(Guards)
=============================================================================
