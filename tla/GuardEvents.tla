---------------------------- MODULE GuardEvents ----------------------------
(***************************************************************************)
(* One Guard event, from the command line of traceseal-guard               *)
(* (crates/traceseal-guard/src/main.rs) to the validators that accept it   *)
(* (traceseal/guard_schema.py).  A word of a command line is               *)
(*   "flag"    the bare name of a sensitive key ("--token"),               *)
(*   "assign"  such a key with its value ("password=x"),                   *)
(*   "plain"   any other text, or "empty".                                 *)
(* An event keeps the fields whose values differ between the events of one *)
(* producer; `common' and `strict' stand for the remaining checks of       *)
(* validate_guard_event and of the two stricter validators.                *)
(***************************************************************************)
EXTENDS Integers, Sequences

CONSTANTS None      \* no value

Words == {"flag", "assign", "plain", "empty"}

\* Options as they are typed: a value is missing only at the end of the line.
Flags == {"--out", "--workspace", "--program", "--arg", "--cwd", "--pretty", "other"}
IsOptions(opts) ==
    /\ opts \in Seq([flag : Flags, value : Words \cup {None}])
    /\ \A k \in DOMAIN opts :
          opts[k].value = None => opts[k].flag \in {"--pretty", "other"} \/ k = Len(opts)

\* The elements of a sequence that are in a set, in their order.
Kept(s, set) ==
    LET upTo[n \in 0 .. Len(s)] ==
            IF n = 0 THEN << >>
            ELSE IF s[n] \in set THEN Append(upTo[n - 1], s[n]) ELSE upTo[n - 1]
    IN  upTo[Len(s)]

Given(opts, flag) == {k \in DOMAIN opts : opts[k].flag = flag}

-----------------------------------------------------------------------------
(* Faulty variants of definitions below, used by no specification: each     *)
(* shows which property such a bug would break.                             *)

\* Words may be empty as paths may.
TakesEmpty(opts, allowed, required, once) ==
    /\ \A k \in DOMAIN opts : opts[k].flag \in allowed
    /\ \A k \in DOMAIN opts : opts[k].value = None <=> opts[k].flag = "--pretty"
    /\ \A flag \in once : \A j, k \in Given(opts, flag) : j = k
    /\ \A flag \in required : Given(opts, flag) # {}

\* A word that looks like a flag is taken for one, not for the value of another.
FlagIsNoValue(args) ==
    [k \in 1 .. Len(args) + 1 |->
        /\ k > 1 /\ args[k - 1] = "flag"
        /\ k <= Len(args) => args[k] # "flag"]

-----------------------------------------------------------------------------
(* The producer *)

\* The loop over the arguments: every flag known, each of `once' at most once,
\* every value there and --pretty without one, words not empty (next_string; a path
\* may be); then the required ones.
Parses(opts, allowed, required, once) ==
    /\ \A k \in DOMAIN opts : opts[k].flag \in allowed
    /\ \A k \in DOMAIN opts : opts[k].value = None <=> opts[k].flag = "--pretty"
    /\ \A k \in DOMAIN opts : opts[k].value = "empty" => opts[k].flag \notin {"--program", "--arg"}
    /\ \A flag \in once : \A j, k \in Given(opts, flag) : j = k
    /\ \A flag \in required : Given(opts, flag) # {}

\* parse_health_args and parse_process_spawn_args
ParseArgs(kind, opts) ==
    \/ /\ kind = "health"
       /\ Parses(opts, {"--out", "--workspace", "--pretty"},
                 {"--out", "--workspace"}, {"--out", "--workspace"})
    \/ /\ kind = "process-spawn"
       /\ Parses(opts, Flags \ {"other"}, {"--out", "--workspace", "--program"},
                 {"--out", "--workspace", "--program", "--cwd"})

\* The value of an option given once, and the words of --arg in their order.
Value(opts, flag, default) ==
    IF Given(opts, flag) = {} THEN default
    ELSE opts[CHOOSE k \in Given(opts, flag) : TRUE].value
Args(opts) ==
    LET given == Kept(opts, [flag : {"--arg"}, value : Words])
    IN  [k \in DOMAIN given |-> given[k].value]

\* redact_next before each word: a sensitive name that is shown hides the word
\* after it, a hidden word is not looked at.
RedactNext(args) ==
    LET next[k \in 1 .. Len(args) + 1] == k > 1 /\ ~next[k - 1] /\ args[k - 1] = "flag"
    IN  next

\* The command line as it is stored, and the indices (from 0, the program) of the
\* words that were hidden.
RedactCommandLine(program, args) ==
    LET next == RedactNext(args)
    IN  [ line |-> << program >> \o
                       [k \in DOMAIN args |-> IF next[k] THEN "<redacted>"
                                              ELSE IF args[k] = "assign" THEN "key=<redacted>"
                                              ELSE args[k]],
          fields |-> {k \in DOMAIN args : next[k] \/ args[k] = "assign"} ]

HealthEvent ==
    [ type |-> "guard.health", run |-> None, common |-> TRUE, strict |-> TRUE,
      name |-> None, line |-> << >>, cwd |-> "plain",
      status |-> "not_applicable", fields |-> {} ]

ProcessSpawnEvent(opts) ==
    LET program == Value(opts, "--program", None)
        redacted == RedactCommandLine(program, Args(opts))
    IN  [ type |-> "process.spawn", run |-> None, common |-> TRUE, strict |-> TRUE,
          name |-> program, line |-> redacted.line, cwd |-> Value(opts, "--cwd", "plain"),
          status |-> IF redacted.fields = {} THEN "not_applicable" ELSE "redacted",
          fields |-> redacted.fields ]

-----------------------------------------------------------------------------
(* The consumer *)

ValidateGuardEvent(e) == e.common

ValidateHealthEvent(e) ==
    /\ ValidateGuardEvent(e)
    /\ e.strict
    /\ e.status = "not_applicable" /\ e.fields = {}

ValidateProcessSpawnEvent(e) ==
    /\ ValidateGuardEvent(e)
    /\ e.strict
    /\ e.name \notin {None, "empty"} /\ e.cwd # "empty"
    /\ e.line # << >> /\ \A k \in DOMAIN e.line : e.line[k] # "empty"
    /\ e.line[1] = e.name
    /\ e.status \in {"not_applicable", "redacted"}
    /\ e.status = "redacted" <=> e.fields # {}

\* Unknown types pass with the common checks; a run, when named, is this one.
ValidEvent(e) ==
    /\ CASE e.type = "guard.health" -> ValidateHealthEvent(e)
         [] e.type = "process.spawn" -> ValidateProcessSpawnEvent(e)
         [] OTHER -> ValidateGuardEvent(e)
    /\ e.run \in {None, "this"}
=============================================================================
