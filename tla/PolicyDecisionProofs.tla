------------------------ MODULE PolicyDecisionProofs ------------------------
(***************************************************************************)
(* Proofs about PolicyDecision, for any policies, requests and edits.  The *)
(* argument is about loads: each returns a policy that was in force or the *)
(* evaluation has strayed (LoadFacts), so what an evaluation knows at a    *)
(* stage comes from policies it may have used, and the later stages keep   *)
(* what the earlier ones established.                                      *)
(***************************************************************************)
EXTENDS PolicyDecision, TLAPS

\* The policy in force is among those held, and until another file comes to be the
\* right one the chosen file is the right one, and a policy.yaml that was not found is
\* still not there.
LoadInv ==
    /\ InForce(file) \in held
    /\ ~reselected /\ chosen \in Names \cup {""} => chosen = Selected(file)
    /\ ~reselected /\ chosen = "no yaml" => file["policy.yaml"] = Absent
    /\ strayed => reselected

\* After the mode was used, no grave request is left with a warning: a rule that has
\* matched is still to be graded.
GradedInv ==
    stage \in {"domain", "listed", "rules", "done"} /\ Enforced
        => ~(decision.action = "warn" /\ decision.level \in Grave)

\* The verdict on a host comes from one policy in force, and a blocked host is denied
\* when the evaluation is done.
VerdictInv ==
    /\ IsHttp(request) /\ stage \in {"listed", "rules", "matched", "done"} /\ ~strayed
        => \E p \in held : verdict = DomainVerdict(request, p.domain)
    /\ stage = "done" /\ verdict.decision = "deny" /\ verdict.block => decision.action = "deny"

\* What the evaluation knows by policy p at each stage, when p was in force all the time.
Known(p) ==
    /\ stage \in {"domain", "listed"} => decision = Graded(ModeOf(p), BuiltIn(request))
    /\ stage \in {"listed", "rules", "matched", "done"} => verdict = VerdictOf(p)
    /\ stage = "listed" => verdict.rule # ""
    /\ stage = "rules" => decision = Graded(ModeOf(p), Inner(p))
    /\ stage = "matched" => /\ Hits(p, EventOf(p)) # {}
                            /\ decision = FirstJudge(p, EventOf(p))
    /\ stage = "done" => decision = Reference(p)

SettledInv ==
    /\ stage \in {"domain", "listed"} => IsHttp(request)
    /\ ~IsHttp(request) => verdict = Unlisted
    /\ \A p : held = {p} /\ ~strayed => Known(p)

IInv == LoadInv /\ GradedInv /\ VerdictInv /\ SettledInv

-----------------------------------------------------------------------------
(* Loads *)

\* What every step that judges does with the files, and what it may then know.
LEMMA ReadFacts ==
    ASSUME LoadInv, NEW p, Reads(p)
    PROVE  /\ ~strayed' => p \in held /\ ~strayed
           /\ strayed' => reselected
           /\ chosen' = "unchosen"
BY DEF LoadInv, Reads, InForce

\* _policy_mode returns the mode of the environment, or that of such a load.
LEMMA ModeFacts ==
    ASSUME LoadInv, NEW m, ReadsMode(m)
    PROVE  /\ env # "" => m = env
           /\ env = "" /\ ~strayed' => \E p \in held : m = p.mode
           /\ strayed => strayed'
           /\ strayed' => reselected
           /\ chosen' \in {"unchosen", chosen}
<1>1. CASE env # ""
  BY <1>1 DEF ReadsMode, LoadInv
<1>2. CASE env = ""
  <2>1. PICK p \in {Load(file, chosen)} : Reads(p) /\ m = p.mode
    BY <1>2 DEF ReadsMode
  <2>2. strayed => strayed'
    BY <2>1 DEF Reads
  <2>3. QED
    BY <1>2, <2>1, <2>2, ReadFacts
<1>3. QED
  BY <1>1, <1>2

\* The steps that learn a mode, with what they leave alone.
ModeStep == JudgeBuiltIn \/ JudgeListed \/ JudgeMatched
\* The steps that learn a policy.
PolicyStep == JudgeHost \/ JudgeRules

LEMMA ModeStepFacts ==
    ASSUME ModeStep
    PROVE  /\ \E m : ReadsMode(m)
           /\ UNCHANGED << file, env, request, verdict, edits, held, reselected >>
BY DEF ModeStep, JudgeBuiltIn, JudgeListed, JudgeMatched, Judges

LEMMA PolicyStepFacts ==
    ASSUME PolicyStep
    PROVE  /\ \E p : Reads(p)
           /\ UNCHANGED << file, env, request, edits, held, reselected >>
BY DEF PolicyStep, JudgeHost, JudgeRules, Judges

\* The steps that look for a file, and those that change one.
LookStep == Choose \/ ChooseNext

LEMMA LookStepFacts ==
    ASSUME LookStep
    PROVE  UNCHANGED << file, env, stage, request, decision, verdict, edits, held, reselected, strayed >>
BY DEF LookStep, Choose, ChooseNext, Loads, history

LEMMA NextSteps ==
    ASSUME [Next]_vars
    PROVE  \/ LookStep \/ ModeStep \/ PolicyStep \/ \E f : Change(f) \/ UNCHANGED vars
BY DEF Next, LookStep, ModeStep, PolicyStep, Edit, Rename

\* LoadInv is kept by every step.
LEMMA LoadStep == LoadInv /\ [Next]_vars => LoadInv'
<1> SUFFICES ASSUME LoadInv, [Next]_vars
             PROVE  LoadInv'
  OBVIOUS
<1>1. CASE LookStep
  <2>1. CASE Choose
    BY <2>1 DEF Choose, Loads, LoadInv, history, Names, Selected
  <2>2. CASE ChooseNext
    BY <2>2 DEF ChooseNext, Loads, LoadInv, history, Names, Selected
  <2>3. QED
    BY <1>1, <2>1, <2>2 DEF LookStep
<1>2. CASE ModeStep
  <2>1. PICK m : ReadsMode(m)
    BY <1>2, ModeStepFacts
  <2>2. /\ strayed' => reselected
        /\ chosen' \in {"unchosen", chosen}
    BY <2>1, ModeFacts
  <2>3. QED
    BY <1>2, <2>2, ModeStepFacts DEF LoadInv, Names
<1>3. CASE PolicyStep
  <2>1. PICK p : Reads(p)
    BY <1>3, PolicyStepFacts
  <2>2. /\ strayed' => reselected
        /\ chosen' = "unchosen"
    BY <2>1, ReadFacts
  <2>3. QED
    BY <1>3, <2>2, PolicyStepFacts DEF LoadInv, Names
<1>4. ASSUME NEW f, Change(f)
      PROVE  LoadInv'
  <2>1. InForce(file') \in held'
    BY <1>4 DEF Change
  <2>2. ~reselected' /\ chosen # "unchosen" => Selected(file') = Selected(file)
    BY <1>4 DEF Change
  <2>3. chosen' = chosen /\ (~reselected' => ~reselected)
    BY <1>4 DEF Change
  <2>4. ~reselected' /\ chosen' \in Names \cup {""} => chosen' = Selected(file')
    BY <2>2, <2>3 DEF LoadInv, Names
  <2>5. ~reselected' /\ chosen' = "no yaml" => file'["policy.yaml"] = Absent
    BY <2>2, <2>3 DEF LoadInv, Selected
  <2>6. strayed' => reselected'
    BY <1>4 DEF Change, LoadInv
  <2>7. QED
    BY <2>1, <2>4, <2>5, <2>6 DEF LoadInv, InForce
<1>5. CASE UNCHANGED vars
  BY <1>5 DEF vars, history, LoadInv
<1>6. QED
  BY <1>1, <1>2, <1>3, <1>4, <1>5, NextSteps

-----------------------------------------------------------------------------
(* Modes *)

\* A mode that an evaluation reads is an enforcing one if it always was.
LEMMA ModeEnforces ==
    ASSUME LoadInv, NEW m, ReadsMode(m), UNCHANGED << env, held >>, Enforced'
    PROVE  m \in Enforcing /\ Enforced
<1>1. CASE env # ""
  <2>1. m = env
    BY <1>1, ModeFacts
  <2>2. env \in Enforcing
    BY <1>1 DEF Enforced
  <2>3. QED
    BY <1>1, <2>1, <2>2 DEF Enforced
<1>2. CASE env = ""
  <2>1. ~strayed' /\ ~strayed
    BY <1>2, ModeFacts DEF Enforced
  <2>2. \A p \in held : p.mode \in Enforcing
    BY <1>2 DEF Enforced
  <2>3. m \in Enforcing
    BY <1>2, <2>1, <2>2, ModeFacts
  <2>4. QED
    BY <1>2, <2>1, <2>2, <2>3 DEF Enforced
<1>3. QED
  BY <1>1, <1>2

\* Grading with an enforcing mode, and finalizing, leave no grave warning.
LEMMA GradedNotWarned ==
    ASSUME NEW m \in Enforcing, NEW j
    PROVE  ~(Graded(m, j).action = "warn" /\ Graded(m, j).level \in Grave)
BY DEF Graded, Judge

LEMMA FinalizedNotWarned ==
    ASSUME NEW j, NEW v, ~(j.action = "warn" /\ j.level \in Grave)
    PROVE  ~(Finalized(j, v).action = "warn" /\ Finalized(j, v).level \in Grave)
BY DEF Finalized, Judge

\* GradedInv is kept by every step.
LEMMA GradedStep == LoadInv /\ GradedInv /\ [Next]_vars => GradedInv'
<1> SUFFICES ASSUME LoadInv, GradedInv, [Next]_vars, Enforced',
                    stage' \in {"domain", "listed", "rules", "done"}
             PROVE  ~(decision'.action = "warn" /\ decision'.level \in Grave)
  BY DEF GradedInv
<1> DEFINE Warned(j) == j.action = "warn" /\ j.level \in Grave
<1>1. CASE LookStep
  <2>1. UNCHANGED << env, stage, decision, held, strayed >>
    BY <1>1, LookStepFacts
  <2>2. QED
    BY <2>1 DEF GradedInv, Enforced
<1>2. CASE JudgeBuiltIn
  <2>1. PICK m : ReadsMode(m) /\ decision' = Graded(m, BuiltIn(request))
    BY <1>2 DEF JudgeBuiltIn, Judges
  <2>2. m \in Enforcing
    BY <1>2, <2>1, ModeEnforces DEF JudgeBuiltIn, Judges
  <2>3. QED
    BY <2>1, <2>2, GradedNotWarned
<1>3. CASE JudgeListed
  <2>1. PICK m : /\ ReadsMode(m)
                 /\ decision' = IF Replaces(verdict, decision)
                                THEN Graded(m, DomainRule(verdict)) ELSE decision
    BY <1>3 DEF JudgeListed, Judges
  <2>2. m \in Enforcing /\ Enforced
    BY <1>3, <2>1, ModeEnforces DEF JudgeListed, Judges
  <2>3. ~Warned(decision)
    BY <1>3, <2>2 DEF JudgeListed, GradedInv
  <2>4. QED
    BY <2>1, <2>2, <2>3, GradedNotWarned
<1>4. CASE JudgeMatched
  <2>1. PICK m : ReadsMode(m) /\ decision' = Finalized(Graded(m, decision), verdict)
    BY <1>4 DEF JudgeMatched, Judges
  <2>2. m \in Enforcing
    BY <1>4, <2>1, ModeEnforces DEF JudgeMatched, Judges
  <2>3. QED
    BY <2>1, <2>2, GradedNotWarned, FinalizedNotWarned
<1>5. CASE PolicyStep
  <2>1. PICK p : Reads(p)
    BY <1>5, PolicyStepFacts
  <2>2. Enforced
    BY <1>5, <2>1, PolicyStepFacts, ReadFacts DEF Enforced
  <2>3. ~Warned(decision)
    BY <1>5, <2>2 DEF PolicyStep, JudgeHost, JudgeRules, GradedInv
  <2>4. decision' \in {decision, Finalized(decision, verdict)}
    BY <1>5 DEF PolicyStep, JudgeHost, JudgeRules, Judges
  <2>5. QED
    BY <2>3, <2>4, FinalizedNotWarned
<1>6. ASSUME NEW f, Change(f)
      PROVE  ~Warned(decision')
  BY <1>6 DEF Change, GradedInv, Enforced
<1>7. CASE UNCHANGED vars
  BY <1>7 DEF vars, history, GradedInv, Enforced
<1>8. QED
  BY <1>1, <1>2, <1>3, <1>4, <1>5, <1>6, <1>7, NextSteps DEF ModeStep

-----------------------------------------------------------------------------
(* Hosts *)

LEMMA FinalizedDenied ==
    ASSUME NEW j, NEW v, v.decision = "deny", v.block
    PROVE  Finalized(j, v).action = "deny"
BY DEF Finalized, Judge

\* VerdictInv is kept by every step.
LEMMA VerdictStep == LoadInv /\ VerdictInv /\ [Next]_vars => VerdictInv'
<1> SUFFICES ASSUME LoadInv, VerdictInv, [Next]_vars
             PROVE  VerdictInv'
  OBVIOUS
<1>1. CASE LookStep
  BY <1>1, LookStepFacts DEF VerdictInv
<1>2. CASE ModeStep
  <2>1. PICK m : ReadsMode(m)
    BY <1>2, ModeStepFacts
  <2>2. strayed => strayed'
    BY <2>1, ModeFacts
  <2>3. /\ UNCHANGED << request, verdict, held >>
        /\ stage' \in {"domain"} \/ (stage' = "rules" /\ (~IsHttp(request) \/ stage = "listed"))
             \/ (stage' = "done" /\ stage = "matched")
    BY <1>2 DEF ModeStep, JudgeBuiltIn, JudgeListed, JudgeMatched, Judges
  <2>4. stage' = "done" /\ verdict'.decision = "deny" /\ verdict'.block
            => decision'.action = "deny"
    BY <1>2, FinalizedDenied DEF ModeStep, JudgeBuiltIn, JudgeListed, JudgeMatched, Judges
  <2>5. QED
    BY <2>2, <2>3, <2>4 DEF VerdictInv, IsHttp
<1>3. CASE JudgeHost
  <2>1. PICK p : Reads(p) /\ verdict' = DomainVerdict(request, p.domain)
    BY <1>3 DEF JudgeHost
  <2>2. ~strayed' => p \in held
    BY <2>1, ReadFacts
  <2>3. QED
    BY <1>3, <2>1, <2>2 DEF JudgeHost, Judges, VerdictInv
<1>4. CASE JudgeRules
  <2>1. PICK p : Reads(p)
    BY <1>4 DEF JudgeRules
  <2>2. strayed => strayed'
    BY <2>1 DEF Reads
  <2>3. /\ UNCHANGED << request, verdict, held >>
        /\ stage = "rules" /\ stage' \in {"matched", "done"}
    BY <1>4 DEF JudgeRules, Judges
  <2>4. stage' = "done" => decision' = Finalized(decision, verdict)
    BY <1>4 DEF JudgeRules, Judges
  <2>5. QED
    BY <2>2, <2>3, <2>4, FinalizedDenied DEF VerdictInv
<1>5. ASSUME NEW f, Change(f)
      PROVE  VerdictInv'
  BY <1>5 DEF Change, VerdictInv
<1>6. CASE UNCHANGED vars
  BY <1>6 DEF vars, history, VerdictInv
<1>7. QED
  BY <1>1, <1>2, <1>3, <1>4, <1>5, <1>6, NextSteps DEF PolicyStep

-----------------------------------------------------------------------------
(* One policy *)

\* Grading changes neither the level nor the rule.
LEMMA GradedKeeps ==
    ASSUME NEW m, NEW j
    PROVE  Graded(m, j).level = j.level /\ Graded(m, j).rule = j.rule
BY DEF Graded, Judge

\* Grading and finalizing, in one formula.
LEMMA FinalizedGraded ==
    ASSUME NEW m, NEW j, NEW v
    PROVE  Finalized(Graded(m, j), v) =
             IF \/ v.decision = "deny" /\ v.block
                \/ m \in Enforcing /\ j.level \in Grave /\ j.action = "warn"
             THEN Judge(j.level, "deny", j.rule) ELSE j
BY DEF Finalized, Graded, Judge

\* Denied and denylisted is the same.
LEMMA DeniedIsListed ==
    ASSUME NEW p
    PROVE  VerdictOf(p).decision = "deny" <=> VerdictOf(p).rule = "domain_denylist_match"
BY DEF VerdictOf, DomainVerdict, Unlisted

\* What _domain_risk replaces is what the precedence says.
LEMMA ReplacedIsInner ==
    ASSUME NEW p, NEW m, VerdictOf(p).rule # ""
    PROVE  Inner(p) = IF Replaces(VerdictOf(p), Graded(m, BuiltIn(request)))
                      THEN DomainRule(VerdictOf(p)) ELSE BuiltIn(request)
BY DeniedIsListed, GradedKeeps DEF Inner, Replaces

\* A load of an evaluation with one policy returns that policy.
LEMMA OneMode ==
    ASSUME LoadInv, NEW p, held = {p}, ~strayed', NEW m, ReadsMode(m)
    PROVE  m = ModeOf(p) /\ ~strayed
BY ModeFacts DEF ModeOf

LEMMA OnePolicy ==
    ASSUME LoadInv, NEW p, held = {p}, ~strayed', NEW q, Reads(q)
    PROVE  q = p /\ ~strayed
BY ReadFacts

\* SettledInv is kept by every step.
LEMMA SettledStep == LoadInv /\ SettledInv /\ [Next]_vars => SettledInv'
<1> SUFFICES ASSUME LoadInv, SettledInv, [Next]_vars
             PROVE  SettledInv'
  OBVIOUS
<1>1. /\ (stage \in {"domain", "listed"} => IsHttp(request))'
      /\ (~IsHttp(request) => verdict = Unlisted)'
  <2>1. CASE ModeStep
    BY <2>1 DEF ModeStep, JudgeBuiltIn, JudgeListed, JudgeMatched, Judges, SettledInv, IsHttp
  <2>2. CASE PolicyStep
    BY <2>2 DEF PolicyStep, JudgeHost, JudgeRules, Judges, SettledInv, IsHttp
  <2>3. CASE LookStep \/ UNCHANGED vars
    BY <2>3, LookStepFacts DEF vars, history, SettledInv, IsHttp
  <2>4. ASSUME NEW f, Change(f)
        PROVE  /\ (stage \in {"domain", "listed"} => IsHttp(request))'
               /\ (~IsHttp(request) => verdict = Unlisted)'
    BY <2>4 DEF Change, SettledInv, IsHttp
  <2>5. QED
    BY <2>1, <2>2, <2>3, <2>4, NextSteps
<1>2. SUFFICES ASSUME NEW p, held' = {p}, ~strayed'
               PROVE  Known(p)'
  BY <1>1 DEF SettledInv
<1>3. CASE LookStep \/ UNCHANGED vars
  <2>1. UNCHANGED << env, stage, request, decision, verdict, held, strayed >>
    BY <1>3, LookStepFacts DEF vars, history
  <2>2. /\ ModeOf(p)' = ModeOf(p) /\ VerdictOf(p)' = VerdictOf(p) /\ Inner(p)' = Inner(p)
        /\ EventOf(p)' = EventOf(p) /\ Reference(p)' = Reference(p)
    BY <2>1 DEF ModeOf, VerdictOf, Inner, EventOf, Winner, Reference
  <2>3. Known(p)
    BY <1>2, <2>1 DEF SettledInv
  <2>4. BuiltIn(request)' = BuiltIn(request)
    BY <2>1
  <2>5. QED
    BY <2>1, <2>2, <2>3, <2>4 DEF Known
<1>4. ASSUME NEW f, Change(f)
      PROVE  Known(p)'
  <2>1. held = {p} /\ ~strayed
    BY <1>2, <1>4 DEF Change, LoadInv
  <2>2. QED
    BY <1>4, <2>1 DEF Change, SettledInv, Known, ModeOf, VerdictOf, Inner, EventOf, Winner,
                      Reference
<1>5. CASE ModeStep \/ PolicyStep
  <2>1. /\ UNCHANGED << request, env, held >>
        /\ held = {p}
    BY <1>2, <1>5, ModeStepFacts, PolicyStepFacts
  <2>2. /\ ModeOf(p)' = ModeOf(p) /\ VerdictOf(p)' = VerdictOf(p) /\ Inner(p)' = Inner(p)
        /\ EventOf(p)' = EventOf(p) /\ Reference(p)' = Reference(p)
    BY <2>1 DEF ModeOf, VerdictOf, Inner, EventOf, Winner, Reference
  <2>3. CASE JudgeBuiltIn
    <3>1. PICK m : ReadsMode(m) /\ decision' = Graded(m, BuiltIn(request))
      BY <2>3 DEF JudgeBuiltIn, Judges
    <3>2. m = ModeOf(p)
      BY <1>2, <2>1, <3>1, OneMode
    <3>3. /\ verdict' = verdict
          /\ stage' = IF IsHttp(request) THEN "domain" ELSE "rules"
      BY <2>3 DEF JudgeBuiltIn, Judges
    <3>4. CASE IsHttp(request)
      BY <2>1, <2>2, <3>1, <3>2, <3>3, <3>4 DEF Known, IsHttp
    <3>5. CASE ~IsHttp(request)
      <4>1. verdict = VerdictOf(p) /\ Inner(p) = BuiltIn(request)
        BY <3>5 DEF SettledInv, VerdictOf, Inner, Unlisted
      <4>2. QED
        BY <2>1, <2>2, <3>1, <3>2, <3>3, <3>5, <4>1 DEF Known
    <3>6. QED
      BY <3>4, <3>5
  <2>4. CASE JudgeHost
    <3>1. PICK q : Reads(q) /\ verdict' = DomainVerdict(request, q.domain)
      BY <2>4 DEF JudgeHost
    <3>2. q = p /\ ~strayed
      BY <1>2, <2>1, <3>1, OnePolicy
    <3>3. Known(p) /\ stage = "domain"
      BY <2>1, <2>4, <3>2 DEF SettledInv, JudgeHost
    <3>4. verdict' = VerdictOf(p)
      BY <3>1, <3>2, <3>3 DEF VerdictOf, SettledInv
    <3>5. /\ decision' = decision
          /\ stage' = IF verdict'.rule = "" THEN "rules" ELSE "listed"
      BY <2>4 DEF JudgeHost, Judges
    <3>6. verdict'.rule = "" => Inner(p) = BuiltIn(request)
      BY <3>4 DEF Inner
    <3>7. decision' = Graded(ModeOf(p), BuiltIn(request)) /\ request' = request
      BY <2>1, <3>3, <3>5 DEF Known
    <3>8. QED
      <4>1. BuiltIn(request)' = BuiltIn(request)
        BY <3>7
      <4>2. QED
        BY <2>2, <3>4, <3>5, <3>6, <3>7, <4>1 DEF Known
  <2>5. CASE JudgeListed
    <3>1. PICK m : /\ ReadsMode(m)
                   /\ decision' = IF Replaces(verdict, decision)
                                  THEN Graded(m, DomainRule(verdict)) ELSE decision
      BY <2>5 DEF JudgeListed, Judges
    <3>2. m = ModeOf(p) /\ ~strayed
      BY <1>2, <2>1, <3>1, OneMode
    <3>3. Known(p) /\ stage = "listed"
      BY <2>1, <2>5, <3>2 DEF SettledInv, JudgeListed
    <3>4. /\ verdict = VerdictOf(p) /\ verdict.rule # ""
          /\ decision = Graded(m, BuiltIn(request))
      BY <3>2, <3>3 DEF Known
    <3>5. decision' = Graded(m, Inner(p))
      BY <3>1, <3>4, ReplacedIsInner
    <3>6. stage' = "rules" /\ verdict' = verdict
      BY <2>5 DEF JudgeListed, Judges
    <3>7. QED
      BY <2>2, <3>2, <3>4, <3>5, <3>6 DEF Known
  <2>6. CASE JudgeRules
    <3>1. PICK q : Reads(q) /\ q = Load(file, chosen)
      BY <2>6 DEF JudgeRules, Reads
    <3>2. q = p /\ ~strayed
      BY <1>2, <2>1, <3>1, OnePolicy
    <3>3. Known(p) /\ stage = "rules" /\ verdict' = verdict
      BY <2>1, <2>6, <3>2 DEF SettledInv, JudgeRules
    <3>4. verdict = VerdictOf(p) /\ decision = Graded(ModeOf(p), Inner(p))
      BY <3>3 DEF Known
    <3>5. Event(request, verdict, decision.level) = EventOf(p)
      BY <3>4, GradedKeeps DEF EventOf
    <3>6. CASE Hits(p, EventOf(p)) = {}
      <4>1. stage' = "done" /\ decision' = Finalized(decision, verdict)
        BY <2>6, <3>1, <3>2, <3>5, <3>6 DEF JudgeRules, Judges
      <4>2. decision' = Reference(p)
        BY <3>4, <3>6, <4>1, FinalizedGraded DEF Reference, Winner
      <4>3. QED
        BY <2>2, <3>3, <3>4, <4>1, <4>2 DEF Known
    <3>7. CASE Hits(p, EventOf(p)) # {}
      <4>1. stage' = "matched" /\ decision' = FirstJudge(p, EventOf(p))
        BY <2>6, <3>1, <3>2, <3>5, <3>7 DEF JudgeRules, Judges
      <4>2. QED
        BY <2>2, <3>3, <3>4, <3>7, <4>1 DEF Known
    <3>8. QED
      BY <3>6, <3>7
  <2>7. CASE JudgeMatched
    <3>1. PICK m : ReadsMode(m) /\ decision' = Finalized(Graded(m, decision), verdict)
      BY <2>7 DEF JudgeMatched, Judges
    <3>2. m = ModeOf(p) /\ ~strayed
      BY <1>2, <2>1, <3>1, OneMode
    <3>3. Known(p) /\ stage = "matched" /\ stage' = "done" /\ verdict' = verdict
      BY <2>1, <2>7, <3>2 DEF SettledInv, JudgeMatched, Judges
    <3>4. /\ verdict = VerdictOf(p)
          /\ decision = Winner(p)
      BY <3>3 DEF Known, Winner
    <3>5. decision' = Reference(p)
      BY <3>1, <3>2, <3>4, FinalizedGraded DEF Reference
    <3>6. QED
      BY <2>2, <3>3, <3>4, <3>5 DEF Known
  <2>8. QED
    BY <1>5, <2>3, <2>4, <2>5, <2>6, <2>7 DEF ModeStep, PolicyStep
<1>6. QED
  BY <1>3, <1>4, <1>5, NextSteps

-----------------------------------------------------------------------------
(* The theorems *)

LEMMA InitInv == Init => IInv
BY DEF Init, IInv, LoadInv, Names, GradedInv, VerdictInv, SettledInv, Known

LEMMA StepInv == IInv /\ [Next]_vars => IInv'
BY LoadStep, GradedStep, VerdictStep, SettledStep DEF IInv

LEMMA Inductive == Spec => []IInv
BY InitInv, StepInv, PTL DEF Spec

LEMMA InvImplies ==
    IInv => StraysByReselection /\ EnforcementHolds /\ DenyListHolds /\ SettledDecision
BY DEF IInv, LoadInv, StraysByReselection, GradedInv, EnforcementHolds, VerdictInv, DenyListHolds,
       Blocks, SettledInv, Known, SettledDecision

\* A load returns what was in force at some moment of the evaluation, unless another file
\* came to be the right one while it was under way.
THEOREM LoadsStrayOnlySo == Spec => []StraysByReselection
BY Inductive, InvImplies, PTL

\* Whatever the rules say and however the files are edited, an enforcing mode that lasts
\* lets no grave request through with a warning.
THEOREM EnforcementIsKept == Spec => []EnforcementHolds
BY Inductive, InvImplies, PTL

\* Whatever the rules say and however the files are edited, a host that stays blocked is
\* denied.
THEOREM BlockedIsDenied == Spec => []DenyListHolds
BY Inductive, InvImplies, PTL

\* With one policy in force all the time, the loads and stages of the code come to the
\* judgement that the order of precedence gives.
THEOREM SettledIsReference == Spec => []SettledDecision
BY Inductive, InvImplies, PTL
=============================================================================
