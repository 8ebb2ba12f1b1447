--------------------------- MODULE PolicyDecision ---------------------------
(***************************************************************************)
(* policy/: how one request of the agent is judged.  The code keeps no     *)
(* policy in memory: an evaluation loads policy.yaml (or policy.yml, or    *)
(* the policy shipped with TraceSeal) up to four times, once for each      *)
(* thing it wants to know, and each load first looks for the two files,    *)
(* one after the other, and then reads the one it has found.  The files    *)
(* belong to the user and to the agent, and may be edited, renamed,        *)
(* removed or half saved between any two of these steps.                   *)
(*                                                                         *)
(* Documents are what such a file can hold when it parses.  A condition of *)
(* a rule is the set of the values it accepts, and a list of domains the   *)
(* set of the hosts its patterns match; "" stands for what an event lacks. *)
(* Of a request the model keeps the marks by which the built-in rules tell *)
(* one from another.  Reasons and suggestions are left out, and with them  *)
(* the loads that only look up their texts.                                *)
(***************************************************************************)
EXTENDS Integers, Sequences, FiniteSets

CONSTANTS
    Documents,      \* policies that parse: [mode, rules, domain]
    Requests,       \* what the agent may ask for
    ShippedDomain,  \* domain_policy of default_policy.json
    EnvModes,       \* values of TRACESEAL_POLICY_MODE, "" when it is not set
    MaxEdits,       \* bound: changes of the files during one evaluation
    Absent, Broken  \* no such file; a file that does not parse

ASSUME ConstantsAssumption ==
    /\ MaxEdits \in Nat
    /\ Absent # Broken /\ {Absent, Broken} \cap Documents = {}
    /\ \A doc \in Documents : DOMAIN doc.rules \subseteq Nat
    /\ \A r \in Requests :
          r.event_type \in {"shell", "file.write", "file.read", "http", "network.http"}

VARIABLES
    file,       \* what the two files of the workspace hold
    env,        \* TRACESEAL_POLICY_MODE
    stage,      \* what the evaluation is about to learn
    request,    \* what is judged
    chosen,     \* how far a load is: "unchosen", "no yaml", or the file it has chosen
    decision,   \* the judgement so far: [level, action, rule]
    verdict,    \* what the domain policy says of the host
    \* History of the evaluation:
    edits,      \* changes of the files
    held,       \* the policies that were in force
    reselected, \* another file came to be the right one during a load, after its first look
    strayed     \* a load returned a policy that was not in force

history == << edits, held, reselected, strayed >>
vars == << file, env, stage, request, chosen, decision, verdict, history >>

Names == {"policy.yaml", "policy.yml"}
Contents == Documents \cup {Absent, Broken}
Enforcing == {"block", "deny", "enforce"}
Grave == {"high", "critical"}

Judge(level, action, rule) == [level |-> level, action |-> action, rule |-> rule]
Undecided == Judge("low", "allow", "")

-----------------------------------------------------------------------------
(* Loading: policy/yaml_loader.py and policy/dsl.py                        *)

\* DEFAULT_DOMAIN_POLICY: the settings of a policy that has no domain_policy.
NoDomain == [deny |-> {}, warn |-> {}, allow |-> {}, allow_localhost |-> TRUE,
             allow_private |-> FALSE, warn_unknown |-> FALSE, block_on_deny |-> FALSE]

\* default_policy.json.  Its rules are those below, never matched as YAML rules.
Shipped == [mode |-> "warn", rules |-> << >>, domain |-> ShippedDomain]

\* validate_policy
MatchFields == {"event_type", "path", "command", "method", "host", "url", "risk_level",
                "sensitive", "host_class", "host_allowed"}

ValidRule(rule) ==
    /\ rule.id # ""
    /\ rule.action \in {"allow", "warn", "deny", "require_approval"}
    /\ rule.level \in {"low", "medium", "high", "critical"}
    /\ DOMAIN rule.match # {} /\ DOMAIN rule.match \subseteq MatchFields

Valid(doc) ==
    /\ doc.mode \in {"warn"} \cup Enforcing
    /\ \A i \in DOMAIN doc.rules : ValidRule(doc.rules[i])
    /\ \A i, j \in DOMAIN doc.rules : doc.rules[i].id = doc.rules[j].id => i = j

\* The file to load, of two that may exist: "" when there is neither.
Selected(f) ==
    IF f["policy.yaml"] # Absent THEN "policy.yaml"
    ELSE IF f["policy.yml"] # Absent THEN "policy.yml" ELSE ""

\* Reading the chosen file: whatever goes wrong, the shipped policy is used.
Load(f, name) ==
    IF name \in Names /\ f[name] \in Documents /\ Valid(f[name]) THEN f[name] ELSE Shipped

\* The policy in force.
InForce(f) == Load(f, Selected(f))

-----------------------------------------------------------------------------
(* The built-in rules: policy/rules.py                                     *)

IsHttp(r) == r.event_type \in {"http", "network.http"}

\* The least of a set of positions.
First(hits) == CHOOSE i \in hits : \A j \in hits : i <= j

\* classify_git_push and push_rules: the first line of which a push has a mark.
PushTable ==
    << [marks |-> {"mirror"}, judge |-> Judge("critical", "warn", "git_mirror_push")],
       [marks |-> {"lease"}, judge |-> Judge("high", "warn", "git_force_with_lease")],
       [marks |-> {"force"}, judge |-> Judge("critical", "warn", "git_force_push")],
       [marks |-> {"delete"}, judge |-> Judge("critical", "warn", "git_delete_remote_branch")],
       [marks |-> {"plus"}, judge |-> Judge("critical", "warn", "git_force_refspec_push")],
       [marks |-> {"all", "tags"}, judge |-> Judge("high", "warn", "git_bulk_push")],
       [marks |-> {"push"}, judge |-> Judge("high", "warn", "git_push")] >>

ShellRule(marks) ==
    LET hits == {i \in DOMAIN PushTable : PushTable[i].marks \cap marks # {}}
    IN  IF "rm -rf" \in marks THEN Judge("critical", "warn", "dangerous_delete")
        ELSE IF "push" \in marks THEN PushTable[First(hits)].judge
        ELSE Undecided

WriteRule(marks) ==
    IF "env" \in marks THEN Judge("high", "warn", "env_write")
    ELSE IF "config" \in marks THEN Judge("high", "warn", "cascade_config_corruption")
    ELSE Undecided

ReadRule(marks) ==
    IF "sensitive" \in marks THEN Judge("high", "warn", "sensitive_file_read") ELSE Undecided

\* evaluate_http_request takes a URL for local that mentions a local name anywhere,
\* evaluate_httpx_request one whose host is local.
HttpRule(method, marks) ==
    IF method = "POST" THEN Judge("high", "warn", "suspicious_http_post")
    ELSE IF "local" \notin marks THEN Judge("medium", "warn", "http_request")
    ELSE Undecided

HttpxRule(marks) ==
    IF "sensitive" \in marks THEN Judge("high", "warn", "sensitive_http_request")
    ELSE IF "plaintext" \in marks THEN Judge("medium", "warn", "insecure_http_request")
    ELSE IF "local" \notin marks THEN Judge("medium", "warn", "http_request")
    ELSE Undecided

BuiltIn(r) ==
    CASE r.event_type = "shell" -> ShellRule(r.marks)
      [] r.event_type = "file.write" -> WriteRule(r.marks)
      [] r.event_type = "file.read" -> ReadRule(r.marks)
      [] r.event_type = "http" -> HttpRule(r.method, r.marks)
      [] r.event_type = "network.http" -> HttpxRule(r.marks)

\* Faulty, for comparison: only what is critical is denied.
GradedCritical(mode, j) ==
    IF mode \in Enforcing /\ j.level = "critical" /\ j.action = "warn"
    THEN Judge(j.level, "deny", j.rule) ELSE j

\* risk and the same lines of _yaml_risk: an enforcing mode denies what is grave.
Graded(mode, j) ==
    IF mode \in Enforcing /\ j.level \in Grave /\ j.action = "warn"
    THEN Judge(j.level, "deny", j.rule) ELSE j

-----------------------------------------------------------------------------
(* The domain policy: policy/domain.py, _domain_risk                       *)

Unlisted == [rule |-> "", decision |-> "unknown", allowlisted |-> FALSE, block |-> FALSE]

\* evaluate_domain_policy
DomainVerdict(r, cfg) ==
    LET listed(l) == r.host # "" /\ r.host \in l
        local == r.class \in {"localhost", "loopback"} /\ cfg.allow_localhost
        private == r.class = "private" /\ cfg.allow_private
        is(rule, d) == [rule |-> rule, decision |-> d, block |-> cfg.block_on_deny,
                        allowlisted |-> listed(cfg.allow) \/ local \/ private]
    IN  IF listed(cfg.deny) THEN is("domain_denylist_match", "deny")
        ELSE IF listed(cfg.warn) THEN is("domain_warnlist_match", "warn")
        ELSE IF local THEN is("domain_localhost_allowed", "allow")
        ELSE IF private \/ listed(cfg.allow) THEN is("domain_allowlist_match", "allow")
        ELSE IF r.class \in {"external", "ip"} /\ cfg.warn_unknown
             THEN is("domain_unknown_external", "warn")
        ELSE is("", "unknown")

\* The table `specs`, and then which entries replace the built-in judgement.
DomainRule(v) ==
    CASE v.rule = "domain_denylist_match" ->
            Judge("critical", IF v.block THEN "deny" ELSE "warn", v.rule)
      [] v.rule = "domain_warnlist_match" -> Judge("high", "warn", v.rule)
      [] v.rule = "domain_unknown_external" -> Judge("medium", "warn", v.rule)
      [] OTHER -> Judge("low", "allow", v.rule)

\* Faulty, for comparison: an allowlisted host replaces every built-in judgement.
ReplacesAny(v, j) == v.rule # ""

Replaces(v, j) ==
    \/ v.rule \in {"domain_denylist_match", "domain_warnlist_match"}
    \/ v.rule # "" /\ j.rule \in {"", "http_request"}

-----------------------------------------------------------------------------
(* The rules of the file: policy/dsl.py, _yaml_risk                        *)

\* The event that rules are matched with; the level is the one found so far.
Event(r, v, level) ==
    IF IsHttp(r)
    THEN [event_type |-> r.event_type, method |-> r.method, host |-> r.host, url |-> r.url,
          host_class |-> r.class, host_allowed |-> IF v.allowlisted THEN "true" ELSE "false",
          sensitive |-> IF r.event_type = "network.http" /\ "sensitive" \in r.marks
                        THEN "true" ELSE "false",
          risk_level |-> level]
    ELSE [event_type |-> r.event_type, risk_level |-> level, command |-> r.command,
          path |-> r.path]

Matches(rule, event) ==
    \A f \in DOMAIN rule.match :
        (IF f \in DOMAIN event THEN event[f] ELSE "") \in rule.match[f]

\* first_matching_rule: the rules that match, of which the first one judges.
Hits(doc, event) == {i \in DOMAIN doc.rules : Matches(doc.rules[i], event)}

FirstJudge(doc, event) ==
    LET rule == doc.rules[First(Hits(doc, event))] IN Judge(rule.level, rule.action, rule.id)

\* Faulty, for comparison: the rule of the file has the last word.
FinalizedByRule(j, v) == j

\* _finalize_domain_result
Finalized(j, v) ==
    IF v.decision = "deny" /\ v.block THEN Judge(j.level, "deny", j.rule) ELSE j

-----------------------------------------------------------------------------
(* An evaluation                                                           *)

\* What is loaded at a stage: the mode, unless the environment has it, or the policy.
ModeStages == {"built-in", "listed", "matched"}
PolicyStages == {"domain", "rules"}
NeedsFile == stage \in PolicyStages \/ (stage \in ModeStages /\ env = "")

Loads(next) == chosen' = next /\ UNCHANGED << file, env, stage, request, decision, verdict, history >>

\* Faulty, for comparison: policy.yml is tried first.
ChooseYml ==
    /\ NeedsFile /\ chosen = "unchosen"
    /\ Loads(IF file["policy.yml"] # Absent THEN "policy.yml" ELSE "no yaml")

\* load_policy_with_source looks for policy.yaml
Choose ==
    /\ NeedsFile /\ chosen = "unchosen"
    /\ Loads(IF file["policy.yaml"] # Absent THEN "policy.yaml" ELSE "no yaml")

\* and then for policy.yml.
ChooseNext ==
    /\ chosen = "no yaml"
    /\ Loads(IF file["policy.yml"] # Absent THEN "policy.yml" ELSE "")

\* It reads the file: p is what it returns.
Reads(p) ==
    /\ chosen \in Names \cup {""}
    /\ p = Load(file, chosen)
    /\ chosen' = "unchosen"
    /\ strayed' = (strayed \/ p \notin held)

\* _policy_mode
ReadsMode(m) ==
    IF env # "" THEN m = env /\ UNCHANGED << chosen, strayed >>
    ELSE \E p \in {Load(file, chosen)} : Reads(p) /\ m = p.mode

Judges(j, next) ==
    /\ decision' = j
    /\ stage' = next
    /\ UNCHANGED << file, env, request, edits, held, reselected >>

\* The `fallback` of every evaluator.
JudgeBuiltIn ==
    /\ stage = "built-in"
    /\ \E m \in Enforcing \cup {"warn", env} :
        /\ ReadsMode(m)
        /\ Judges(Graded(m, BuiltIn(request)), IF IsHttp(request) THEN "domain" ELSE "rules")
    /\ UNCHANGED verdict

\* load_policy().get("domain_policy")
JudgeHost ==
    /\ stage = "domain"
    /\ \E p \in {Load(file, chosen)} : Reads(p) /\ verdict' = DomainVerdict(request, p.domain)
    /\ Judges(decision, IF verdict'.rule = "" THEN "rules" ELSE "listed")

\* _domain_risk loads the mode for the candidate, used or not.
JudgeListed ==
    /\ stage = "listed"
    /\ \E m \in Enforcing \cup {"warn", env} :
        /\ ReadsMode(m)
        /\ Judges(IF Replaces(verdict, decision) THEN Graded(m, DomainRule(verdict)) ELSE decision,
                  "rules")
    /\ UNCHANGED verdict

\* _yaml_risk: the mode is loaded again, for a rule that matched.
JudgeRules ==
    /\ stage = "rules"
    /\ \E p \in {Load(file, chosen)} :
        LET event == Event(request, verdict, decision.level) IN
        /\ Reads(p)
        /\ IF Hits(p, event) = {} THEN Judges(Finalized(decision, verdict), "done")
                                  ELSE Judges(FirstJudge(p, event), "matched")
    /\ UNCHANGED verdict

JudgeMatched ==
    /\ stage = "matched"
    /\ \E m \in Enforcing \cup {"warn", env} :
        /\ ReadsMode(m)
        /\ Judges(Finalized(Graded(m, decision), verdict), "done")
    /\ UNCHANGED verdict

Change(f) ==
    /\ stage # "done" /\ edits < MaxEdits
    /\ f # file /\ file' = f
    /\ edits' = edits + 1
    /\ held' = held \cup {InForce(f)}
    /\ reselected' = (reselected \/ (chosen # "unchosen" /\ Selected(f) # Selected(file)))
    /\ UNCHANGED << env, stage, request, chosen, decision, verdict, strayed >>

\* Someone saves, breaks, empties or removes a file,
Edit(name, c) == Change([file EXCEPT ![name] = c])

\* or gives it the other name.
Rename(from, to) ==
    /\ from # to /\ file[from] # Absent
    /\ Change([file EXCEPT ![to] = file[from], ![from] = Absent])

\* Evaluations share nothing but the files, so the model has one.
Init ==
    /\ file \in [Names -> Contents]
    /\ env \in EnvModes
    /\ request \in Requests
    /\ stage = "built-in" /\ chosen = "unchosen" /\ decision = Undecided /\ verdict = Unlisted
    /\ edits = 0 /\ held = {InForce(file)} /\ reselected = FALSE /\ strayed = FALSE

Next ==
    \/ Choose \/ ChooseNext \/ JudgeBuiltIn \/ JudgeHost \/ JudgeListed \/ JudgeRules \/ JudgeMatched
    \/ \E name \in Names, c \in Contents : Edit(name, c)
    \/ \E from, to \in Names : Rename(from, to)

Spec == Init /\ [][Next]_vars

-----------------------------------------------------------------------------
(* Properties                                                              *)

\* Every load of an evaluation returns a policy that was in force at some moment of it,
\* a broken or half-saved file included, unless another file came to be the right one
\* during one load: policy.yaml created, removed or renamed between the two questions
\* whether there is such a file (yaml_loader.py:33) and the reading of it (line 38).
StraysByReselection == strayed => reselected

\* A host that every policy in force during the evaluation denies and blocks is denied,
\* whatever rules, modes and edits the other loads met.
Blocks(p) ==
    LET v == DomainVerdict(request, p.domain) IN v.decision = "deny" /\ v.block

DenyListHolds ==
    stage = "done" /\ IsHttp(request) /\ ~strayed /\ (\A p \in held : Blocks(p))
        => decision.action = "deny"

\* When the mode was an enforcing one all the time, by the environment or by every
\* policy in force, no grave request is let through with a warning.
Enforced == IF env # "" THEN env \in Enforcing
            ELSE ~strayed /\ \A p \in held : p.mode \in Enforcing

EnforcementHolds ==
    stage = "done" /\ Enforced => ~(decision.action = "warn" /\ decision.level \in Grave)

\* The judgement by one policy p, stated by precedence: a rule of the file decides before
\* a listed host, that before a built-in rule that names a danger, and that before the
\* rest of the domain policy.  An enforcing mode or a blocked host makes it a denial.
ModeOf(p) == IF env # "" THEN env ELSE p.mode
VerdictOf(p) == IF IsHttp(request) THEN DomainVerdict(request, p.domain) ELSE Unlisted

Inner(p) ==
    LET v == VerdictOf(p)
        named == BuiltIn(request).rule \notin {"", "http_request"}
    IN  IF \/ v.rule = ""
           \/ named /\ v.decision # "deny" /\ v.rule # "domain_warnlist_match"
        THEN BuiltIn(request) ELSE DomainRule(v)

EventOf(p) == Event(request, VerdictOf(p), Inner(p).level)
Winner(p) == IF Hits(p, EventOf(p)) = {} THEN Inner(p) ELSE FirstJudge(p, EventOf(p))

Reference(p) ==
    IF \/ VerdictOf(p).decision = "deny" /\ VerdictOf(p).block
       \/ ModeOf(p) \in Enforcing /\ Winner(p).level \in Grave /\ Winner(p).action = "warn"
    THEN Judge(Winner(p).level, "deny", Winner(p).rule) ELSE Winner(p)

\* When one policy was in force all the time, however its files were touched, the result
\* of the staged evaluation is the judgement by that policy.
SettledDecision ==
    \A p \in held :
        stage = "done" /\ held = {p} /\ ~strayed => decision = Reference(p)
=============================================================================
