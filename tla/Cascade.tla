------------------------------ MODULE Cascade ------------------------------
(***************************************************************************)
(* traceseal/cascade.py: what explain, replay and the dashboard make of    *)
(* the events of a run.  The events are put into an order of their own, by *)
(* seq and then by place in the file; the first event of each risk class   *)
(* is a stage; three stages are a cascade.  The first harmful event is the *)
(* first one, in the same order, whose score is high.                      *)
(*                                                                         *)
(* An event is the record of what these functions look at:                 *)
(*   seq, type, rule, matched (risk.matched_rules), level (risk.level),    *)
(*   domain (domain_decision), push (push_type), path and command (what    *)
(*   the tests on their text tell apart), changes (file_changes).          *)
(***************************************************************************)
EXTENDS Naturals, Sequences, FiniteSets

Levels == [low |-> 0, medium |-> 1, high |-> 2, critical |-> 3]   \* RISK_ORDER

SensitiveReadRules == {"sensitive_file_read", "cascade_sensitive_read"}
HttpRules ==
    {"suspicious_http_post", "sensitive_http_request", "domain_denylist_match",
     "domain_warnlist_match", "domain_unknown_external", "cascade_http_exfiltration_attempt"}
ConfigRules == {"env_write", "cascade_config_corruption"}
DestructiveRules == {"dangerous_delete", "cascade_destructive_shell", "deny-dangerous-delete"}
PushRules ==
    {"git_force_push", "git_force_with_lease", "git_mirror_push", "git_delete_remote_branch",
     "git_force_refspec_push", "git_bulk_push", "cascade_dangerous_git_push"}
DangerousGitTypes ==
    {"force", "force_with_lease", "mirror", "delete_remote_branch", "force_refspec", "all", "tags"}

\* Names with a marker such as "secret" or ".env"; names of configuration
\* files, of which the .env files are both.
IsSensitivePath(path) == path \in {"secret", "env"}
IsProtectedConfig(path) == path \in {"config", "env"}

\* The rules that make an event harmful whatever its level.
HarmfulRules ==
    {"dangerous_delete", "env_write", "sensitive_file_read", "git_push",
     "suspicious_http_post", "cascade_config_corruption"}

AtLeast(score, level) == IF score < Levels[level] THEN Levels[level] ELSE score

RiskScore(event) ==
    LET stated == Levels[event.level]
        ruled  == IF event.rule \in HarmfulRules THEN AtLeast(stated, "high") ELSE stated
        env    == IF "env" \in event.changes THEN AtLeast(ruled, "high") ELSE ruled
    IN  IF "data deleted" \in event.changes THEN AtLeast(env, "critical") ELSE env

Harmful(event) == RiskScore(event) >= Levels["high"]

ReadsSensitive(event) ==
    event.type = "file.read" /\ (event.rule \in SensitiveReadRules \/ IsSensitivePath(event.path))

Exfiltrates(event) ==
    /\ event.type = "network.http"
    /\ \/ event.rule \in HttpRules
       \/ event.matched \cap HttpRules # {}
       \/ event.domain \in {"warn", "deny"}
       \/ Harmful(event)

CorruptsConfig(event) ==
    event.type = "file.write" /\ (event.rule \in ConfigRules \/ IsProtectedConfig(event.path))

Destroys(event) ==
    event.type = "shell" /\ (event.rule \in DestructiveRules \/ event.command = "removal")

PushesDangerously(event) ==
    /\ event.type = "shell"
    /\ ~Destroys(event)
    /\ event.push \in DangerousGitTypes \/ event.rule \in PushRules

Stages ==
    {"sensitive_read", "http_exfiltration_attempt", "configuration_corruption",
     "destructive_shell", "dangerous_git_push"}

\* _stage_for_event; "none" for an event of no class.
StageOf(event) ==
    CASE ReadsSensitive(event)    -> "sensitive_read"
      [] Exfiltrates(event)       -> "http_exfiltration_attempt"
      [] CorruptsConfig(event)    -> "configuration_corruption"
      [] Destroys(event)          -> "destructive_shell"
      [] PushesDangerously(event) -> "dangerous_git_push"
      [] OTHER                    -> "none"

-----------------------------------------------------------------------------
(* Faulty variants, used by no specification. *)

\* `seen` holds the last stage only.
NewSinceLast(events, stages, i) ==
    stages = << >> \/ StageOf(events[i]) # StageOf(events[stages[Len(stages)]])

-----------------------------------------------------------------------------
(* _ordered_events compares (seq, index): record_event numbers every event. *)
Before(events, i, j) ==
    \/ events[i].seq < events[j].seq
    \/ events[i].seq = events[j].seq /\ i < j

\* The places of the events, in that order.
OrderedEvents(events) ==
    LET places == 1 .. Len(events)
    IN  CHOOSE order \in [places -> places] :
            /\ \A i \in places : \E m \in places : order[m] = i
            /\ \A m, n \in places : m < n => Before(events, order[m], order[n])

\* find_first_harmful_event: the place in the file of the harmful event that
\* all others come after; empty if no event is harmful.
FirstHarmfulEvent(events) ==
    {i \in 1 .. Len(events) :
        /\ Harmful(events[i])
        /\ \A j \in (1 .. Len(events)) \ {i} : Harmful(events[j]) => Before(events, i, j)}

\* An event that opens its stage is not a repetition of a stage already seen.
OpensStage(events, stages, i) ==
    \A k \in 1 .. Len(stages) : StageOf(events[stages[k]]) # StageOf(events[i])

\* detect_cascade goes through the ordered events with the stages seen so far
\* and keeps the place of the event that opens each.
DetectCascade(events) ==
    LET ordered == OrderedEvents(events)
        seen[n \in 0 .. Len(events)] ==
            IF n = 0 THEN << >>
            ELSE LET i == ordered[n]
                 IN  IF StageOf(events[i]) # "none" /\ OpensStage(events, seen[n - 1], i)
                     THEN Append(seen[n - 1], i) ELSE seen[n - 1]
        stages == seen[Len(events)]
    IN  [stages   |-> stages,
         present  |-> Len(stages) >= 3,
         severity |-> IF Len(stages) >= 4 THEN "critical" ELSE IF Len(stages) >= 3 THEN "high" ELSE "none",
         first    |-> FirstHarmfulEvent(events)]
=============================================================================
