-------------------------- MODULE TracedCallProofs --------------------------
(***************************************************************************)
(* The safety of TracedCall, and of the policy inside it, for any          *)
(* policies, requests, edits and disturbances.  A step of a call is a step *)
(* of its evaluation, starts a new evaluation, or leaves it alone, so the  *)
(* invariant of PolicyDecisionProofs holds of every evaluation of a call.  *)
(* The rest says of each place of a call what is known there of the        *)
(* ruling, of the effect, and of what will be reported.                    *)
(***************************************************************************)
EXTENDS TracedCall, PolicyDecisionProofs, WellFoundedInduction

Actions == {"allow", "warn", "deny", "require_approval"}

\* The call fits the request, and a judgement names an action.
RequestOK ==
    /\ request \in Requests
    /\ api \in Apis(request.event_type)
    /\ decision.action \in Actions

\* Without an edit the policy in force is the only one the evaluation can meet.
UneditedOK ==
    /\ edits \in Nat
    /\ edits = 0 => held = {InForce(file)} /\ ~reselected

\* The counter is raised by the call's own removal and by that of another thread.
SuppressOK ==
    /\ suppress = (IF call = "removing" THEN 1 ELSE 0) + (IF muting THEN 1 ELSE 0)
    /\ muting => disturbed
    /\ nested => api = "delete"

\* Which calls come to which place.
PlaceOK ==
    /\ api = "read" => call = "judging"
    /\ call = "judging" => api # "delete"
    /\ call = "handle" => api = "open"
    /\ call = "removing" => api = "run" /\ Removes
    /\ call = "after" => IsFile \/ Removes
    /\ call = "report" => IsFile
    /\ call = "rejudging" => api \in {"open", "write"}
    /\ call = "before" => IsFile \/ Removes
    /\ call = "again" => unlogged
    /\ call # "over" => logged = NoEvent

\* The action of the judgement by the policy in force.
Judgement == Reference(InForce(file)).action

\* What a ruling leads to.  With one policy, a write is judged the same twice.
RulingOK ==
    /\ forbidden => ruling = "deny"
    /\ call = "blocked" => ruling = "deny"
    /\ ruling = "deny" => call \in {"blocked", "over"} \/ (call = "before" /\ api = "system")
    /\ risk = "deny" => ruling = "deny" \/ edits > 0
    /\ api \in {"open", "write"} /\ call # "judging" =>
          /\ ruling # "none"
          /\ edits = 0 => ruling = Judgement

\* What is to be reported, besides the changes.
StatusOK ==
    /\ status \in {"ok", "simulated", "exception"}
    /\ call \notin {"record", "again", "over"} => status = "ok"
    /\ status = "simulated" => ~effect
    /\ status = "exception" => outcome = "raised"
    /\ call = "again" => status = "exception"
    /\ call = "record" /\ status = "ok" /\ Performed => effect

\* What the snapshots know of the effect, when nobody else touched the target.
EffectOK ==
    /\ call \in {"judging", "blocked", "before", "act", "removing"} => ~effect
    /\ ruling = "deny" => ~effect
    /\ changed \/ before # "unseen" => IsFile \/ Removes
    /\ call \notin {"report", "rejudging", "record", "again", "over"} => ~changed
    /\ ~disturbed =>
          /\ before \in {"unseen", "none", "old"}
          /\ call \in {"judging", "blocked", "before", "act", "removing"}
                => target \in {"none", "old"}
          /\ (IsFile \/ Removes) /\ call \in {"act", "removing"}
                => before \in {target, "unseen"}
          /\ api = "run" /\ Removes /\ call \in {"judging", "blocked"}
                => before \in {target, "unseen"}
          /\ call \in {"handle", "after"} /\ before # "unseen" => (effect <=> before # target)
          /\ changed => effect
          /\ (IsFile \/ Removes) /\ call \in {"report", "rejudging", "record"} /\ effect
                => changed \/ unlogged \/ before = "unseen"

CallInv ==
    /\ RequestOK /\ UneditedOK
    /\ CallTypeOK /\ SuppressOK /\ PlaceOK /\ RulingOK /\ StatusOK /\ EffectOK
    /\ DeniedUntouched /\ EffectRecorded /\ EventTruthful

\* Everything that holds between two steps of a call.
CallIInv == IInv /\ CallInv

-----------------------------------------------------------------------------
(* Judgements name an action                                               *)

LessThan == {pair \in Nat \X Nat : pair[1] < pair[2]}

LEMMA LessThanWellFounded == IsWellFoundedOn(LessThan, Nat)
BY NatLessThanWellFounded DEF OpToRel, LessThan

\* The first rule that matches is one that matches.
LEMMA FirstIsHit ==
    ASSUME NEW hits \in SUBSET Nat, hits # {}
    PROVE  First(hits) \in hits
<1>1. PICK i \in hits : \A j \in hits : << j, i >> \notin LessThan
  BY LessThanWellFounded, WFMin
<1>2. ASSUME NEW j \in hits
      PROVE  i <= j
  <2>1. << j, i >> \in Nat \X Nat
    OBVIOUS
  <2>2. ~(j < i)
    BY <1>1, <2>1 DEF LessThan
  <2>3. QED
    BY <2>2
<1>3. QED
  BY <1>2 DEF First

LEMMA BuiltInActs ==
    ASSUME NEW r \in Requests
    PROVE  BuiltIn(r).action \in Actions
<1>1. ShellRule(r.marks).action \in Actions
  <2>1. CASE "push" \in r.marks /\ "rm -rf" \notin r.marks
    <3> DEFINE hits == {i \in DOMAIN PushTable : PushTable[i].marks \cap r.marks # {}}
    <3>1. DOMAIN PushTable = 1 .. 7 /\ PushTable[7].marks = {"push"}
      BY DEF PushTable
    <3>2. "push" \in PushTable[7].marks \cap r.marks
      BY <2>1, <3>1
    <3> HIDE DEF hits
    <3>3. hits \in SUBSET (1 .. 7) /\ 7 \in hits
      BY <3>1, <3>2 DEF hits
    <3>4. First(hits) \in 1 .. 7
      <4>1. hits \in SUBSET Nat
        BY <3>3
      <4>2. QED
        BY <3>3, <4>1, FirstIsHit
    <3>5. \A i \in 1 .. 7 : PushTable[i].judge.action = "warn"
      BY DEF PushTable, Judge
    <3>6. ShellRule(r.marks) = PushTable[First(hits)].judge
      BY <2>1 DEF ShellRule, hits
    <3>7. QED
      BY <3>4, <3>5, <3>6 DEF Actions
  <2>2. CASE ~("push" \in r.marks /\ "rm -rf" \notin r.marks)
    BY <2>2 DEF ShellRule, Judge, Undecided, Actions
  <2>3. QED
    BY <2>1, <2>2
<1>2. /\ WriteRule(r.marks).action \in Actions
      /\ ReadRule(r.marks).action \in Actions
      /\ HttpRule(r.method, r.marks).action \in Actions
      /\ HttpxRule(r.marks).action \in Actions
  BY DEF WriteRule, ReadRule, HttpRule, HttpxRule, Judge, Undecided, Actions
<1>3. r.event_type \in {"shell", "file.write", "file.read", "http", "network.http"}
  BY ConstantsAssumption
<1>4. QED
  BY <1>1, <1>2, <1>3 DEF BuiltIn

LEMMA GradedActs ==
    ASSUME NEW m, NEW j, j.action \in Actions
    PROVE  Graded(m, j).action \in Actions
BY DEF Graded, Judge, Actions

LEMMA FinalizedActs ==
    ASSUME NEW v, NEW j, j.action \in Actions
    PROVE  Finalized(j, v).action \in Actions
BY DEF Finalized, Judge, Actions

LEMMA DomainRuleActs ==
    ASSUME NEW v
    PROVE  DomainRule(v).action \in Actions
BY DEF DomainRule, Judge, Actions

\* A policy that was loaded has been validated.
LEMMA FirstJudgeActs ==
    ASSUME NEW f, NEW name, NEW event, Hits(Load(f, name), event) # {}
    PROVE  FirstJudge(Load(f, name), event).action \in Actions
<1> DEFINE p == Load(f, name)
           hits == Hits(p, event)
<1>1. hits \subseteq DOMAIN p.rules
  BY DEF Hits
<1>2. p.rules # << >>
  BY <1>1
<1>3. p \in Documents /\ Valid(p)
  BY <1>2 DEF Load, Shipped
<1>4. First(hits) \in hits
  <2>1. DOMAIN p.rules \subseteq Nat
    BY <1>3, ConstantsAssumption
  <2>2. QED
    BY <1>1, <2>1, FirstIsHit
<1>5. p.rules[First(hits)].action \in Actions
  BY <1>1, <1>3, <1>4 DEF Valid, ValidRule, Actions
<1>6. QED
  BY <1>5 DEF FirstJudge, Judge

\* RequestOK is kept by every step of an evaluation.
LEMMA RequestStep == RequestOK /\ Next /\ UNCHANGED api => RequestOK'
<1> SUFFICES ASSUME RequestOK, Next, UNCHANGED api
             PROVE  RequestOK'
  OBVIOUS
<1>1. request' = request
  BY NextSteps, LookStepFacts, ModeStepFacts, PolicyStepFacts DEF Change, vars
<1>2. decision'.action \in Actions
  <2>1. CASE LookStep \/ UNCHANGED vars
    BY <2>1, LookStepFacts DEF vars, RequestOK
  <2>2. CASE JudgeBuiltIn
    <3>1. PICK m : decision' = Graded(m, BuiltIn(request))
      BY <2>2 DEF JudgeBuiltIn, Judges
    <3>2. QED
      BY <3>1, BuiltInActs, GradedActs DEF RequestOK
  <2>3. CASE JudgeHost
    BY <2>3 DEF JudgeHost, Judges, RequestOK
  <2>4. CASE JudgeListed
    <3>1. PICK m : decision' = IF Replaces(verdict, decision)
                               THEN Graded(m, DomainRule(verdict)) ELSE decision
      BY <2>4 DEF JudgeListed, Judges
    <3>2. QED
      BY <3>1, DomainRuleActs, GradedActs DEF RequestOK
  <2>5. CASE JudgeRules
    <3> DEFINE event == Event(request, verdict, decision.level)
               p == Load(file, chosen)
    <3>1. decision' = IF Hits(p, event) = {} THEN Finalized(decision, verdict)
                                             ELSE FirstJudge(p, event)
      BY <2>5 DEF JudgeRules, Judges
    <3>2. QED
      BY <3>1, FirstJudgeActs, FinalizedActs DEF RequestOK
  <2>6. CASE JudgeMatched
    <3>1. PICK m : decision' = Finalized(Graded(m, decision), verdict)
      BY <2>6 DEF JudgeMatched, Judges
    <3>2. QED
      BY <3>1, GradedActs, FinalizedActs DEF RequestOK
  <2>7. CASE \E f : Change(f)
    BY <2>7 DEF Change, RequestOK
  <2>8. QED
    BY <2>1, <2>2, <2>3, <2>4, <2>5, <2>6, <2>7, NextSteps DEF ModeStep, PolicyStep
<1>3. QED
  BY <1>1, <1>2 DEF RequestOK

-----------------------------------------------------------------------------
(* Steps of the call                                                        *)

\* What a hooked function does depends on what it was called with.
LEMMA Static ==
    ASSUME UNCHANGED << request, api >>
    PROVE  /\ Removes' <=> Removes
           /\ IsFile' <=> IsFile
           /\ Pushes' <=> Pushes
           /\ Performed' <=> Performed
BY DEF Removes, Has, IsFile, Pushes, Performed

LEMMA Kinds ==
    ASSUME RequestOK
    PROVE  /\ Removes => api \in {"run", "system"}
           /\ IsFile <=> api \in {"open", "write", "delete"}
           /\ Performed => api \in {"run", "system", "url", "httpx"} /\ ~Removes /\ ~Pushes
           /\ IsHttp(request) <=> api \in {"url", "httpx"}
           /\ api \in {"open", "write", "delete", "run", "system", "url", "httpx", "read"}
<1>1. request.event_type \in {"shell", "file.write", "file.read", "http", "network.http"}
  BY ConstantsAssumption DEF RequestOK
<1>2. QED
  BY <1>1 DEF RequestOK, Apis, Removes, Has, IsFile, Performed, IsHttp

\* Steps that leave the evaluation and the ruling alone.
Quiet == UNCHANGED << vars, judgeVars, api >>

LEMMA QuietKeeps ==
    ASSUME CallIInv, Quiet
    PROVE  /\ RequestOK' /\ UneditedOK'
           /\ Judgement' = Judgement
           /\ UNCHANGED << edits, request >>
<1>1. UNCHANGED << vars, api >>
  BY DEF Quiet
<1>2. Judgement' = Judgement
  BY <1>1 DEF vars, history, Judgement, Reference, Winner, Inner, EventOf, VerdictOf, ModeOf
<1>3. QED
  BY <1>1, <1>2 DEF vars, history, CallIInv, CallInv, RequestOK, UneditedOK

LEMMA SnapshotKeeps == CallIInv /\ Snapshot => CallInv'
<1> SUFFICES ASSUME CallIInv, Snapshot
             PROVE  CallInv'
  OBVIOUS
<1> USE Static, Kinds, QuietKeeps DEF CallIInv, CallInv, Quiet, judgeVars, worldVars, reportVars, Goto
<1>1. /\ Quiet /\ RequestOK' /\ UneditedOK'
  BY DEF Snapshot
<1>2. CallTypeOK' /\ SuppressOK' /\ PlaceOK'
  BY DEF Snapshot, CallTypeOK, SuppressOK, PlaceOK
<1>3. RulingOK' /\ StatusOK'
  BY DEF Snapshot, RulingOK, StatusOK
<1>4. EffectOK'
  BY DEF Snapshot, EffectOK, PlaceOK
<1>5. DeniedUntouched' /\ EffectRecorded' /\ EventTruthful'
  BY <1>2 DEF Snapshot, DeniedUntouched, EffectRecorded, EventTruthful
<1> QED
  BY <1>1, <1>2, <1>3, <1>4, <1>5

LEMMA RecordBlockedKeeps == CallIInv /\ RecordBlocked => CallInv'
<1> SUFFICES ASSUME CallIInv, RecordBlocked
             PROVE  CallInv'
  OBVIOUS
<1> USE Static, Kinds, QuietKeeps DEF CallIInv, CallInv, Quiet, judgeVars, worldVars, reportVars, Goto
<1>1. /\ Quiet /\ RequestOK' /\ UneditedOK'
  BY DEF RecordBlocked
<1>a. /\ call = "blocked" /\ call' = "over"
      /\ UNCHANGED << worldVars, status, changed, before >>
      /\ outcome' \in {"returned", "raised"}
      /\ unlogged' \in {TRUE, unlogged}
  BY DEF RecordBlocked
<1>b. ruling = "deny" /\ ~effect
  BY <1>a DEF RulingOK, EffectOK
<1>c. /\ logged'.status \in {"blocked", "none"}
      /\ logged'.status = "none" => unlogged' /\ logged' = NoEvent
      /\ ~disturbed => ~logged'.changed
  <2>1. ASSUME NEW differ, logged' = [status |-> "blocked", action |-> risk, changed |-> differ],
               differ \in IF api = "run" /\ Removes THEN Differences ELSE {FALSE}
        PROVE  <1>c!1 /\ <1>c!2 /\ <1>c!3
    <3>1. logged'.status = "blocked" /\ logged'.changed = differ
      BY <2>1
    <3>2. ~disturbed => ~differ
      BY <1>a, <2>1 DEF Differences, EffectOK, CallTypeOK
    <3>3. QED
      BY <3>1, <3>2
  <2>2. CASE unlogged' /\ UNCHANGED logged
    BY <1>a, <2>2 DEF PlaceOK, NoEvent
  <2>3. QED
    BY <2>1, <2>2 DEF RecordBlocked
<1>2. CallTypeOK' /\ SuppressOK' /\ PlaceOK'
  BY <1>1, <1>a, <1>c DEF CallTypeOK, SuppressOK, PlaceOK
<1>3. RulingOK' /\ StatusOK'
  BY DEF RecordBlocked, RulingOK, StatusOK
<1>4. EffectOK'
  BY DEF RecordBlocked, EffectOK
<1>5. DeniedUntouched' /\ EffectRecorded' /\ EventTruthful'
   BY <1>1, <1>a, <1>b, <1>c, <1>2 DEF NoEvent, DeniedUntouched, EffectRecorded,
     EventTruthful, EffectOK
<1> QED
  BY <1>1, <1>2, <1>3, <1>4, <1>5

LEMMA SnapshotFailsKeeps == CallIInv /\ SnapshotFails => CallInv'
<1> SUFFICES ASSUME CallIInv, SnapshotFails
             PROVE  CallInv'
  OBVIOUS
<1> USE Static, Kinds, QuietKeeps DEF CallIInv, CallInv, Quiet, judgeVars, worldVars, reportVars, Goto
<1>1. /\ Quiet /\ RequestOK' /\ UneditedOK'
  BY DEF SnapshotFails
<1>2. CallTypeOK' /\ SuppressOK' /\ PlaceOK'
  BY DEF SnapshotFails, CallTypeOK, SuppressOK, PlaceOK
<1>3. RulingOK' /\ StatusOK'
  BY DEF SnapshotFails, RulingOK, StatusOK
<1>4. EffectOK'
  BY DEF SnapshotFails, EffectOK
<1>5. DeniedUntouched' /\ EffectRecorded' /\ EventTruthful'
  BY <1>2 DEF SnapshotFails, DeniedUntouched, EffectRecorded, EventTruthful
<1> QED
  BY <1>1, <1>2, <1>3, <1>4, <1>5

LEMMA SimulateKeeps == CallIInv /\ Simulate => CallInv'
<1> SUFFICES ASSUME CallIInv, Simulate
             PROVE  CallInv'
  OBVIOUS
<1> USE Static, Kinds, QuietKeeps DEF CallIInv, CallInv, Quiet, judgeVars, worldVars, reportVars, Goto
<1>1. /\ Quiet /\ RequestOK' /\ UneditedOK'
  BY DEF Simulate
<1>2. CallTypeOK' /\ SuppressOK' /\ PlaceOK'
  BY DEF Simulate, CallTypeOK, SuppressOK, PlaceOK
<1>3. RulingOK' /\ StatusOK'
  BY DEF Simulate, RulingOK, StatusOK, EffectOK
<1>4. EffectOK'
  BY DEF Simulate, EffectOK
<1>5. DeniedUntouched' /\ EffectRecorded' /\ EventTruthful'
  BY <1>2 DEF Simulate, DeniedUntouched, EffectRecorded, EventTruthful
<1> QED
  BY <1>1, <1>2, <1>3, <1>4, <1>5

LEMMA RunKeeps == CallIInv /\ Run => CallInv'
<1> SUFFICES ASSUME CallIInv, Run
             PROVE  CallInv'
  OBVIOUS
<1> USE Static, Kinds, QuietKeeps DEF CallIInv, CallInv, Quiet, judgeVars, worldVars, reportVars, Goto
<1>1. /\ Quiet /\ RequestOK' /\ UneditedOK'
  BY DEF Run, Does
<1>2. CallTypeOK' /\ SuppressOK' /\ PlaceOK'
  BY DEF Run, Does, CallTypeOK, SuppressOK, PlaceOK
<1>3. RulingOK' /\ StatusOK'
  BY DEF Run, Does, RulingOK, StatusOK
<1>4. EffectOK'
  BY DEF Run, Does, EffectOK, RulingOK
<1>5. DeniedUntouched' /\ EffectRecorded' /\ EventTruthful'
   BY <1>2 DEF Run, Does, DeniedUntouched, EffectRecorded, EventTruthful, RulingOK, PlaceOK,
     NoEvent
<1> QED
  BY <1>1, <1>2, <1>3, <1>4, <1>5

LEMMA RunFailsKeeps == CallIInv /\ RunFails => CallInv'
<1> SUFFICES ASSUME CallIInv, RunFails
             PROVE  CallInv'
  OBVIOUS
<1> USE Static, Kinds, QuietKeeps DEF CallIInv, CallInv, Quiet, judgeVars, worldVars, reportVars, Goto
<1>1. /\ Quiet /\ RequestOK' /\ UneditedOK'
  BY DEF RunFails, Does
<1>a. PICK e \in BOOLEAN : Does(e) /\ (Removes => ~e)
  BY DEF RunFails
<1>2. CallTypeOK' /\ SuppressOK' /\ PlaceOK'
  BY <1>a DEF RunFails, Does, CallTypeOK, SuppressOK, PlaceOK
<1>3. RulingOK' /\ StatusOK'
  BY DEF RunFails, Does, RulingOK, StatusOK
<1>4. EffectOK'
  BY <1>a DEF RunFails, Does, EffectOK, RulingOK
<1>5. DeniedUntouched' /\ EffectRecorded' /\ EventTruthful'
   BY <1>2 DEF RunFails, Does, DeniedUntouched, EffectRecorded, EventTruthful, RulingOK,
     PlaceOK, NoEvent
<1> QED
  BY <1>1, <1>2, <1>3, <1>4, <1>5

LEMMA InterruptKeeps == CallIInv /\ Interrupt => CallInv'
<1> SUFFICES ASSUME CallIInv, Interrupt
             PROVE  CallInv'
  OBVIOUS
<1> USE Static, Kinds, QuietKeeps DEF CallIInv, CallInv, Quiet, judgeVars, worldVars, reportVars, Goto
<1>1. /\ Quiet /\ RequestOK' /\ UneditedOK'
  BY DEF Interrupt, Does, Ends
<1>2. CallTypeOK' /\ SuppressOK' /\ PlaceOK'
  BY DEF Interrupt, Does, Ends, CallTypeOK, SuppressOK, PlaceOK
<1>3. RulingOK' /\ StatusOK'
  BY DEF Interrupt, Does, Ends, RulingOK, StatusOK
<1>4. EffectOK'
  BY DEF Interrupt, Does, Ends, EffectOK, RulingOK
<1>5. DeniedUntouched' /\ EffectRecorded' /\ EventTruthful'
   BY <1>2 DEF Interrupt, Does, Ends, DeniedUntouched, EffectRecorded, EventTruthful,
     RulingOK, PlaceOK, NoEvent
<1> QED
  BY <1>1, <1>2, <1>3, <1>4, <1>5

LEMMA OpenKeeps == CallIInv /\ Open => CallInv'
<1> SUFFICES ASSUME CallIInv, Open
             PROVE  CallInv'
  OBVIOUS
<1> USE Static, Kinds, QuietKeeps DEF CallIInv, CallInv, Quiet, judgeVars, worldVars, reportVars, Goto
<1>1. /\ Quiet /\ RequestOK' /\ UneditedOK'
  BY DEF Open, Makes
<1>a. PICK x \in {"ours", target} : Makes(x)
  BY DEF Open
<1>2. CallTypeOK' /\ SuppressOK' /\ PlaceOK'
  BY DEF Open, Makes, CallTypeOK, SuppressOK, PlaceOK
<1>3. RulingOK' /\ StatusOK'
  BY DEF Open, Makes, RulingOK, StatusOK
<1>4. EffectOK'
  BY <1>a DEF Open, Makes, EffectOK, RulingOK
<1>5. DeniedUntouched' /\ EffectRecorded' /\ EventTruthful'
   BY <1>2 DEF Open, Makes, DeniedUntouched, EffectRecorded, EventTruthful, RulingOK,
     PlaceOK, NoEvent
<1> QED
  BY <1>1, <1>2, <1>3, <1>4, <1>5

LEMMA OpenFailsKeeps == CallIInv /\ OpenFails => CallInv'
<1> SUFFICES ASSUME CallIInv, OpenFails
             PROVE  CallInv'
  OBVIOUS
<1> USE Static, Kinds, QuietKeeps DEF CallIInv, CallInv, Quiet, judgeVars, worldVars, reportVars, Goto
<1>1. /\ Quiet /\ RequestOK' /\ UneditedOK'
  BY DEF OpenFails, Ends
<1>2. CallTypeOK' /\ SuppressOK' /\ PlaceOK'
  BY DEF OpenFails, Ends, CallTypeOK, SuppressOK, PlaceOK
<1>3. RulingOK' /\ StatusOK'
  BY DEF OpenFails, Ends, RulingOK, StatusOK
<1>4. EffectOK'
  BY DEF OpenFails, Ends, EffectOK
<1>5. DeniedUntouched' /\ EffectRecorded' /\ EventTruthful'
   BY <1>2 DEF OpenFails, Ends, DeniedUntouched, EffectRecorded, EventTruthful, EffectOK,
     RulingOK
<1> QED
  BY <1>1, <1>2, <1>3, <1>4, <1>5

LEMMA WriteKeeps == CallIInv /\ Write => CallInv'
<1> SUFFICES ASSUME CallIInv, Write
             PROVE  CallInv'
  OBVIOUS
<1> USE Static, Kinds, QuietKeeps DEF CallIInv, CallInv, Quiet, judgeVars, worldVars, reportVars, Goto
<1>1. /\ Quiet /\ RequestOK' /\ UneditedOK'
  BY DEF Write, Makes
<1>2. CallTypeOK' /\ SuppressOK' /\ PlaceOK'
  BY DEF Write, Makes, CallTypeOK, SuppressOK, PlaceOK
<1>3. RulingOK' /\ StatusOK'
  BY DEF Write, Makes, RulingOK, StatusOK
<1>4. EffectOK'
  BY DEF Write, Makes, EffectOK, RulingOK
<1>5. DeniedUntouched' /\ EffectRecorded' /\ EventTruthful'
   BY <1>2 DEF Write, Makes, DeniedUntouched, EffectRecorded, EventTruthful, RulingOK,
     PlaceOK, NoEvent
<1> QED
  BY <1>1, <1>2, <1>3, <1>4, <1>5

LEMMA CloseKeeps == CallIInv /\ Close => CallInv'
<1> SUFFICES ASSUME CallIInv, Close
             PROVE  CallInv'
  OBVIOUS
<1> USE Static, Kinds, QuietKeeps DEF CallIInv, CallInv, Quiet, judgeVars, worldVars, reportVars, Goto
<1>1. /\ Quiet /\ RequestOK' /\ UneditedOK'
  BY DEF Close
<1>2. CallTypeOK' /\ SuppressOK' /\ PlaceOK'
  BY DEF Close, CallTypeOK, SuppressOK, PlaceOK
<1>3. RulingOK' /\ StatusOK'
  BY DEF Close, RulingOK, StatusOK
<1>4. EffectOK'
  BY DEF Close, EffectOK
<1>5. DeniedUntouched' /\ EffectRecorded' /\ EventTruthful'
  BY <1>2 DEF Close, DeniedUntouched, EffectRecorded, EventTruthful, PlaceOK, NoEvent
<1> QED
  BY <1>1, <1>2, <1>3, <1>4, <1>5

LEMMA AbandonKeeps == CallIInv /\ Abandon => CallInv'
<1> SUFFICES ASSUME CallIInv, Abandon
             PROVE  CallInv'
  OBVIOUS
<1> USE Static, Kinds, QuietKeeps DEF CallIInv, CallInv, Quiet, judgeVars, worldVars, reportVars, Goto
<1>1. /\ Quiet /\ RequestOK' /\ UneditedOK'
  BY DEF Abandon, Ends
<1>2. CallTypeOK' /\ SuppressOK' /\ PlaceOK'
  BY DEF Abandon, Ends, CallTypeOK, SuppressOK, PlaceOK
<1>3. RulingOK' /\ StatusOK'
  BY DEF Abandon, Ends, RulingOK, StatusOK
<1>4. EffectOK'
  BY DEF Abandon, Ends, EffectOK
<1>5. DeniedUntouched' /\ EffectRecorded' /\ EventTruthful'
   BY <1>2 DEF Abandon, Ends, DeniedUntouched, EffectRecorded, EventTruthful, RulingOK,
     PlaceOK, NoEvent
<1> QED
  BY <1>1, <1>2, <1>3, <1>4, <1>5

LEMMA WriteWholeKeeps == CallIInv /\ WriteWhole => CallInv'
<1> SUFFICES ASSUME CallIInv, WriteWhole
             PROVE  CallInv'
  OBVIOUS
<1> USE Static, Kinds, QuietKeeps DEF CallIInv, CallInv, Quiet, judgeVars, worldVars, reportVars, Goto
<1>1. /\ Quiet /\ RequestOK' /\ UneditedOK'
  BY DEF WriteWhole, Makes
<1>2. CallTypeOK' /\ SuppressOK' /\ PlaceOK'
  BY DEF WriteWhole, Makes, CallTypeOK, SuppressOK, PlaceOK
<1>3. RulingOK' /\ StatusOK'
  BY DEF WriteWhole, Makes, RulingOK, StatusOK
<1>4. EffectOK'
  BY DEF WriteWhole, Makes, EffectOK, RulingOK
<1>5. DeniedUntouched' /\ EffectRecorded' /\ EventTruthful'
   BY <1>2 DEF WriteWhole, Makes, DeniedUntouched, EffectRecorded, EventTruthful, RulingOK,
     PlaceOK, NoEvent
<1> QED
  BY <1>1, <1>2, <1>3, <1>4, <1>5

LEMMA WriteWholeFailsKeeps == CallIInv /\ WriteWholeFails => CallInv'
<1> SUFFICES ASSUME CallIInv, WriteWholeFails
             PROVE  CallInv'
  OBVIOUS
<1> USE Static, Kinds, QuietKeeps DEF CallIInv, CallInv, Quiet, judgeVars, worldVars, reportVars, Goto
<1>1. /\ Quiet /\ RequestOK' /\ UneditedOK'
  BY DEF WriteWholeFails, Makes, Ends
<1>2. CallTypeOK' /\ SuppressOK' /\ PlaceOK'
  BY DEF WriteWholeFails, Makes, Ends, CallTypeOK, SuppressOK, PlaceOK
<1>3. RulingOK' /\ StatusOK'
  BY DEF WriteWholeFails, Makes, Ends, RulingOK, StatusOK
<1>4. EffectOK'
  BY DEF WriteWholeFails, Makes, Ends, EffectOK, RulingOK
<1>5. DeniedUntouched' /\ EffectRecorded' /\ EventTruthful'
   BY <1>2 DEF WriteWholeFails, Makes, Ends, DeniedUntouched, EffectRecorded, EventTruthful,
     RulingOK, PlaceOK, NoEvent
<1> QED
  BY <1>1, <1>2, <1>3, <1>4, <1>5

LEMMA DeleteKeeps == CallIInv /\ Delete => CallInv'
<1> SUFFICES ASSUME CallIInv, Delete
             PROVE  CallInv'
  OBVIOUS
<1> USE Static, Kinds, QuietKeeps DEF CallIInv, CallInv, Quiet, judgeVars, worldVars, reportVars, Goto
<1>1. /\ Quiet /\ RequestOK' /\ UneditedOK'
  BY DEF Delete, Makes
<1>2. CallTypeOK' /\ SuppressOK' /\ PlaceOK'
  BY DEF Delete, Makes, Remains, CallTypeOK, SuppressOK, PlaceOK
<1>3. RulingOK' /\ StatusOK'
  BY DEF Delete, Makes, RulingOK, StatusOK
<1>4. EffectOK'
  BY DEF Delete, Makes, Remains, EffectOK, RulingOK
<1>5. DeniedUntouched' /\ EffectRecorded' /\ EventTruthful'
   BY <1>2 DEF Delete, Makes, DeniedUntouched, EffectRecorded, EventTruthful, RulingOK,
     PlaceOK, NoEvent
<1> QED
  BY <1>1, <1>2, <1>3, <1>4, <1>5

LEMMA BeginRemovalKeeps == CallIInv /\ BeginRemoval => CallInv'
<1> SUFFICES ASSUME CallIInv, BeginRemoval
             PROVE  CallInv'
  OBVIOUS
<1> USE Static, Kinds, QuietKeeps DEF CallIInv, CallInv, Quiet, judgeVars, worldVars, reportVars, Goto
<1>1. /\ Quiet /\ RequestOK' /\ UneditedOK'
  BY DEF BeginRemoval
<1>2. CallTypeOK' /\ SuppressOK' /\ PlaceOK'
  BY DEF BeginRemoval, CallTypeOK, SuppressOK, PlaceOK
<1>3. RulingOK' /\ StatusOK'
  BY DEF BeginRemoval, RulingOK, StatusOK
<1>4. EffectOK'
  BY DEF BeginRemoval, EffectOK
<1>5. DeniedUntouched' /\ EffectRecorded' /\ EventTruthful'
  BY <1>2 DEF BeginRemoval, DeniedUntouched, EffectRecorded, EventTruthful
<1> QED
  BY <1>1, <1>2, <1>3, <1>4, <1>5

LEMMA UnlinkInsideKeeps == CallIInv /\ UnlinkInside => CallInv'
<1> SUFFICES ASSUME CallIInv, UnlinkInside
             PROVE  CallInv'
  OBVIOUS
<1> USE Static, Kinds, QuietKeeps DEF CallIInv, CallInv, Quiet, judgeVars, worldVars, reportVars, Goto
<1>1. /\ Quiet /\ RequestOK' /\ UneditedOK'
  BY DEF UnlinkInside
<1>2. CallTypeOK' /\ SuppressOK' /\ PlaceOK'
  BY DEF UnlinkInside, CallTypeOK, SuppressOK, PlaceOK
<1>3. RulingOK' /\ StatusOK'
  BY DEF UnlinkInside, RulingOK, StatusOK
<1>4. EffectOK'
  BY DEF UnlinkInside, EffectOK
<1>5. DeniedUntouched' /\ EffectRecorded' /\ EventTruthful'
  BY <1>2 DEF UnlinkInside, DeniedUntouched, EffectRecorded, EventTruthful, SuppressOK
<1> QED
  BY <1>1, <1>2, <1>3, <1>4, <1>5

LEMMA EndRemovalKeeps == CallIInv /\ EndRemoval => CallInv'
<1> SUFFICES ASSUME CallIInv, EndRemoval
             PROVE  CallInv'
  OBVIOUS
<1> USE Static, Kinds, QuietKeeps DEF CallIInv, CallInv, Quiet, judgeVars, worldVars, reportVars, Goto
<1>1. /\ Quiet /\ RequestOK' /\ UneditedOK'
  BY DEF EndRemoval
<1>2. CallTypeOK' /\ SuppressOK' /\ PlaceOK'
  BY DEF EndRemoval, Remains, CallTypeOK, SuppressOK, PlaceOK
<1>3. RulingOK' /\ StatusOK'
  BY DEF EndRemoval, RulingOK, StatusOK
<1>4. EffectOK'
  BY DEF EndRemoval, EffectOK, PlaceOK, RulingOK
<1>5. DeniedUntouched' /\ EffectRecorded' /\ EventTruthful'
   BY <1>2 DEF EndRemoval, DeniedUntouched, EffectRecorded, EventTruthful, RulingOK,
     PlaceOK, NoEvent
<1> QED
  BY <1>1, <1>2, <1>3, <1>4, <1>5

LEMMA RemoveByShellKeeps == CallIInv /\ RemoveByShell => CallInv'
<1> SUFFICES ASSUME CallIInv, RemoveByShell
             PROVE  CallInv'
  OBVIOUS
<1> USE Static, Kinds, QuietKeeps DEF CallIInv, CallInv, Quiet, judgeVars, worldVars, reportVars, Goto
<1>1. /\ Quiet /\ RequestOK' /\ UneditedOK'
  BY DEF RemoveByShell, Makes
<1>2. CallTypeOK' /\ SuppressOK' /\ PlaceOK'
  BY DEF RemoveByShell, Makes, Remains, CallTypeOK, SuppressOK, PlaceOK
<1>3. RulingOK' /\ StatusOK'
  BY DEF RemoveByShell, Makes, RulingOK, StatusOK
<1>4. EffectOK'
  BY DEF RemoveByShell, Makes, Remains, EffectOK, RulingOK
<1>5. DeniedUntouched' /\ EffectRecorded' /\ EventTruthful'
   BY <1>2 DEF RemoveByShell, Makes, DeniedUntouched, EffectRecorded, EventTruthful,
     RulingOK, PlaceOK, NoEvent
<1> QED
  BY <1>1, <1>2, <1>3, <1>4, <1>5

LEMMA SnapshotAfterKeeps == CallIInv /\ SnapshotAfter => CallInv'
<1> SUFFICES ASSUME CallIInv, SnapshotAfter
             PROVE  CallInv'
  OBVIOUS
<1> USE Static, Kinds, QuietKeeps DEF CallIInv, CallInv, Quiet, judgeVars, worldVars, reportVars, Goto
<1>1. /\ Quiet /\ RequestOK' /\ UneditedOK'
  BY DEF SnapshotAfter
<1>2. CallTypeOK' /\ SuppressOK' /\ PlaceOK'
  BY DEF SnapshotAfter, Differences, CallTypeOK, SuppressOK, PlaceOK
<1>3. RulingOK' /\ StatusOK'
  BY DEF SnapshotAfter, RulingOK, StatusOK, PlaceOK
<1>4. EffectOK'
  BY DEF SnapshotAfter, Differences, EffectOK, PlaceOK
<1>5. DeniedUntouched' /\ EffectRecorded' /\ EventTruthful'
  BY <1>2 DEF SnapshotAfter, DeniedUntouched, EffectRecorded, EventTruthful
<1> QED
  BY <1>1, <1>2, <1>3, <1>4, <1>5

LEMMA SnapshotAfterFailsKeeps == CallIInv /\ SnapshotAfterFails => CallInv'
<1> SUFFICES ASSUME CallIInv, SnapshotAfterFails
             PROVE  CallInv'
  OBVIOUS
<1> USE Static, Kinds, QuietKeeps DEF CallIInv, CallInv, Quiet, judgeVars, worldVars, reportVars, Goto
<1>1. /\ Quiet /\ RequestOK' /\ UneditedOK'
  BY DEF SnapshotAfterFails
<1>2. CallTypeOK' /\ SuppressOK' /\ PlaceOK'
  BY DEF SnapshotAfterFails, CallTypeOK, SuppressOK, PlaceOK
<1>3. RulingOK' /\ StatusOK'
  BY DEF SnapshotAfterFails, RulingOK, StatusOK
<1>4. EffectOK'
  BY DEF SnapshotAfterFails, EffectOK
<1>5. DeniedUntouched' /\ EffectRecorded' /\ EventTruthful'
  BY <1>2 DEF SnapshotAfterFails, DeniedUntouched, EffectRecorded, EventTruthful
<1> QED
  BY <1>1, <1>2, <1>3, <1>4, <1>5

LEMMA ReportKeeps == CallIInv /\ Report => CallInv'
<1> SUFFICES ASSUME CallIInv, Report
             PROVE  CallInv'
  OBVIOUS
<1> USE Static, Kinds, QuietKeeps DEF CallIInv, CallInv, Quiet, judgeVars, worldVars, reportVars, Goto
<1>1. /\ Quiet /\ RequestOK' /\ UneditedOK'
  BY DEF Report
<1>2. CallTypeOK' /\ SuppressOK' /\ PlaceOK'
  BY DEF Report, CallTypeOK, SuppressOK, PlaceOK
<1>3. RulingOK' /\ StatusOK'
  BY DEF Report, RulingOK, StatusOK
<1>4. EffectOK'
  BY DEF Report, EffectOK
<1>5. DeniedUntouched' /\ EffectRecorded' /\ EventTruthful'
   BY <1>2 DEF Report, DeniedUntouched, EffectRecorded, EventTruthful, EffectOK, RulingOK,
     PlaceOK, SuppressOK
<1> QED
  BY <1>1, <1>2, <1>3, <1>4, <1>5

LEMMA RecordKeeps == CallIInv /\ Record => CallInv'
<1> SUFFICES ASSUME CallIInv, Record
             PROVE  CallInv'
  OBVIOUS
<1> USE Static, Kinds, QuietKeeps DEF CallIInv, CallInv, Quiet, judgeVars, worldVars, reportVars, Goto
<1>1. /\ Quiet /\ RequestOK' /\ UneditedOK'
  BY DEF Record
<1>a. /\ logged'.status = status /\ logged'.changed = changed /\ logged'.action = risk
      /\ call' = "over" /\ call \in {"record", "again"}
      /\ UNCHANGED << status, changed, before, effect, outcome, unlogged, disturbed, nested >>
  BY DEF Record
<1>2. CallTypeOK' /\ SuppressOK' /\ PlaceOK'
  BY DEF Record, CallTypeOK, SuppressOK, PlaceOK
<1>3. RulingOK' /\ StatusOK'
  BY DEF Record, RulingOK, StatusOK
<1>4. EffectOK'
  BY DEF Record, EffectOK
<1>5. DeniedUntouched' /\ EffectRecorded'
   BY <1>1, <1>a, <1>2 DEF DeniedUntouched, EffectRecorded, EffectOK, RulingOK, PlaceOK,
     StatusOK
<1>6. EventTruthful'
  BY <1>1, <1>a DEF EventTruthful, EffectOK, RulingOK, StatusOK
<1> QED
  BY <1>1, <1>2, <1>3, <1>4, <1>5, <1>6

LEMMA RecordFailsKeeps == CallIInv /\ RecordFails => CallInv'
<1> SUFFICES ASSUME CallIInv, RecordFails
             PROVE  CallInv'
  OBVIOUS
<1> USE Static, Kinds, QuietKeeps DEF CallIInv, CallInv, Quiet, judgeVars, worldVars, reportVars, Goto
<1>1. /\ Quiet /\ RequestOK' /\ UneditedOK'
  BY DEF RecordFails
<1>2. CallTypeOK' /\ SuppressOK' /\ PlaceOK'
  BY DEF RecordFails, CallTypeOK, SuppressOK, PlaceOK
<1>3. RulingOK' /\ StatusOK'
  BY DEF RecordFails, InTry, RulingOK, StatusOK
<1>4. EffectOK'
  BY DEF RecordFails, EffectOK
<1>5. DeniedUntouched' /\ EffectRecorded' /\ EventTruthful'
  BY <1>2 DEF RecordFails, DeniedUntouched, EffectRecorded, EventTruthful
<1> QED
  BY <1>1, <1>2, <1>3, <1>4, <1>5

LEMMA RecordFailsAgainKeeps == CallIInv /\ RecordFailsAgain => CallInv'
<1> SUFFICES ASSUME CallIInv, RecordFailsAgain
             PROVE  CallInv'
  OBVIOUS
<1> USE Static, Kinds, QuietKeeps DEF CallIInv, CallInv, Quiet, judgeVars, worldVars, reportVars, Goto
<1>1. /\ Quiet /\ RequestOK' /\ UneditedOK'
  BY DEF RecordFailsAgain
<1>2. CallTypeOK' /\ SuppressOK' /\ PlaceOK'
  BY DEF RecordFailsAgain, CallTypeOK, SuppressOK, PlaceOK
<1>3. RulingOK' /\ StatusOK'
  BY DEF RecordFailsAgain, RulingOK, StatusOK
<1>4. EffectOK'
  BY DEF RecordFailsAgain, EffectOK
<1>5. DeniedUntouched' /\ EffectRecorded' /\ EventTruthful'
  BY <1>2 DEF RecordFailsAgain, DeniedUntouched, EffectRecorded, EventTruthful, PlaceOK
<1> QED
  BY <1>1, <1>2, <1>3, <1>4, <1>5

LEMMA OtherChangesKeeps == CallIInv /\ OtherChanges => CallInv'
<1> SUFFICES ASSUME CallIInv, OtherChanges
             PROVE  CallInv'
  OBVIOUS
<1> USE Static, Kinds, QuietKeeps DEF CallIInv, CallInv, Quiet, judgeVars, worldVars, reportVars, Goto
<1>1. /\ Quiet /\ RequestOK' /\ UneditedOK'
  BY DEF OtherChanges, Others
<1>2. CallTypeOK' /\ SuppressOK' /\ PlaceOK'
  BY MaxOthersAssumption DEF OtherChanges, Others, CallTypeOK, SuppressOK, PlaceOK
<1>3. RulingOK' /\ StatusOK'
  BY DEF OtherChanges, Others, RulingOK, StatusOK
<1>4. EffectOK'
  BY DEF OtherChanges, Others, EffectOK
<1>5. DeniedUntouched' /\ EffectRecorded' /\ EventTruthful'
  BY <1>2 DEF OtherChanges, Others, DeniedUntouched, EffectRecorded, EventTruthful
<1> QED
  BY <1>1, <1>2, <1>3, <1>4, <1>5

LEMMA OtherBeginsRemovalKeeps == CallIInv /\ OtherBeginsRemoval => CallInv'
<1> SUFFICES ASSUME CallIInv, OtherBeginsRemoval
             PROVE  CallInv'
  OBVIOUS
<1> USE Static, Kinds, QuietKeeps DEF CallIInv, CallInv, Quiet, judgeVars, worldVars, reportVars, Goto
<1>1. /\ Quiet /\ RequestOK' /\ UneditedOK'
  BY DEF OtherBeginsRemoval, Others
<1>2. CallTypeOK' /\ SuppressOK' /\ PlaceOK'
  BY MaxOthersAssumption DEF OtherBeginsRemoval, Others, CallTypeOK, SuppressOK, PlaceOK
<1>3. RulingOK' /\ StatusOK'
  BY DEF OtherBeginsRemoval, Others, RulingOK, StatusOK
<1>4. EffectOK'
  BY DEF OtherBeginsRemoval, Others, EffectOK
<1>5. DeniedUntouched' /\ EffectRecorded' /\ EventTruthful'
  BY <1>2 DEF OtherBeginsRemoval, Others, DeniedUntouched, EffectRecorded, EventTruthful
<1> QED
  BY <1>1, <1>2, <1>3, <1>4, <1>5

LEMMA OtherEndsRemovalKeeps == CallIInv /\ OtherEndsRemoval => CallInv'
<1> SUFFICES ASSUME CallIInv, OtherEndsRemoval
             PROVE  CallInv'
  OBVIOUS
<1> USE Static, Kinds, QuietKeeps DEF CallIInv, CallInv, Quiet, judgeVars, worldVars, reportVars, Goto
<1>1. /\ Quiet /\ RequestOK' /\ UneditedOK'
  BY DEF OtherEndsRemoval
<1>a. SuppressOK'
  BY DEF OtherEndsRemoval, SuppressOK
<1>b. suppress' \in Nat
  BY <1>a DEF SuppressOK
<1>2. CallTypeOK' /\ SuppressOK' /\ PlaceOK'
  BY <1>1, <1>a, <1>b, ZenonT(60) DEF OtherEndsRemoval, CallTypeOK, PlaceOK, StatusOK, NoEvent
<1>3. RulingOK' /\ StatusOK'
  BY DEF OtherEndsRemoval, RulingOK, StatusOK
<1>4. EffectOK'
  BY DEF OtherEndsRemoval, EffectOK
<1>5. DeniedUntouched' /\ EffectRecorded' /\ EventTruthful'
  BY <1>2 DEF OtherEndsRemoval, DeniedUntouched, EffectRecorded, EventTruthful
<1> QED
  BY <1>1, <1>2, <1>3, <1>4, <1>5

-----------------------------------------------------------------------------
(* Judgements *)

\* What an evaluation does to the policies, and what it says when it is done.
LEMMA EvaluationKeeps ==
    ASSUME CallIInv, Next
    PROVE  /\ request' = request
           /\ edits' \in Nat /\ edits' >= edits
           /\ edits' = 0 => UNCHANGED << file, env, held, reselected >>
<1>1. edits \in Nat
  BY DEF CallIInv, CallInv, UneditedOK
<1>2. CASE \E f : Change(f)
  BY <1>1, <1>2 DEF Change
<1>3. CASE LookStep \/ ModeStep \/ PolicyStep \/ UNCHANGED vars
  BY <1>1, <1>3, LookStepFacts, ModeStepFacts, PolicyStepFacts DEF vars, history
<1>4. QED
  BY <1>2, <1>3, NextSteps

LEMMA SameJudgement ==
    ASSUME UNCHANGED << file, env, request >>
    PROVE  Judgement' = Judgement
BY DEF Judgement, Reference, Winner, Inner, EventOf, VerdictOf, ModeOf

LEMMA Settled ==
    ASSUME CallIInv, stage = "done"
    PROVE  /\ decision.action \in Actions
           /\ IsHttp(request) /\ ~strayed /\ (\A p \in held : Blocks(p))
                => decision.action = "deny"
           /\ edits = 0 => decision.action = Judgement
<1>1. IInv /\ RequestOK /\ UneditedOK
  BY DEF CallIInv, CallInv
<1>2. edits = 0 => held = {InForce(file)} /\ ~strayed
  BY <1>1 DEF UneditedOK, IInv, LoadInv
<1>3. edits = 0 => decision = Reference(InForce(file))
  BY <1>1, <1>2, InvImplies DEF SettledDecision
<1>4. QED
  BY <1>1, <1>3, InvImplies DEF RequestOK, DenyListHolds, Judgement

\* A new evaluation.
LEMMA ForgetKeeps ==
    ASSUME CallIInv, Forget, UNCHANGED api
    PROVE  /\ IInv' /\ RequestOK' /\ UneditedOK'
           /\ Judgement' = Judgement
           /\ UNCHANGED << edits, request >>
<1>1. IInv'
  BY DEF Forget, IInv, LoadInv, Names, GradedInv, VerdictInv, SettledInv, Known
<1>2. RequestOK' /\ UneditedOK'
  BY DEF Forget, RequestOK, UneditedOK, CallIInv, CallInv, Undecided, Judge, Actions
<1>3. QED
  BY <1>1, <1>2, SameJudgement DEF Forget

LEMMA EvaluateKeeps == CallIInv /\ Evaluate => CallIInv'
<1> SUFFICES ASSUME CallIInv, Evaluate
             PROVE  CallIInv'
  OBVIOUS
<1> USE Kinds DEF CallIInv, CallInv
<1>1. UNCHANGED callVars /\ Next /\ call \in {"judging", "rejudging"}
  BY DEF Evaluate
<1>2. IInv'
  BY <1>1, StepInv
<1>3. /\ UNCHANGED << api, request, call, ruling, risk, forbidden >>
      /\ edits' \in Nat /\ edits' >= edits
      /\ edits' = 0 => UNCHANGED << file, env, held, reselected >>
  BY <1>1, EvaluationKeeps DEF callVars, judgeVars, worldVars
<1>4. RequestOK' /\ UneditedOK'
  BY <1>1, <1>3, RequestStep DEF UneditedOK
<1>5. CallTypeOK' /\ SuppressOK' /\ PlaceOK'
  BY <1>1, <1>3 DEF callVars, worldVars, reportVars, CallTypeOK, SuppressOK, PlaceOK
<1>6. RulingOK'
  BY <1>3, SameJudgement DEF RulingOK, UneditedOK
<1>7. StatusOK' /\ EffectOK'
  BY <1>1, <1>3, Static DEF callVars, worldVars, reportVars, StatusOK, EffectOK
<1>8. DeniedUntouched' /\ EffectRecorded'
  BY <1>1, <1>3, <1>5 DEF callVars, worldVars, reportVars, DeniedUntouched, EffectRecorded
<1>9. EventTruthful'
  BY <1>1, <1>3, Static DEF callVars, worldVars, reportVars, EventTruthful, UneditedOK
<1> QED
  BY <1>2, <1>4, <1>5, <1>6, <1>7, <1>8, <1>9

LEMMA JudgedKeeps == CallIInv /\ Judged => CallIInv'
<1> SUFFICES ASSUME CallIInv, Judged
             PROVE  CallIInv'
  OBVIOUS
<1> USE Static, Kinds DEF CallIInv, CallInv, worldVars, reportVars, Goto
<1>1. /\ IInv' /\ RequestOK' /\ UneditedOK'
      /\ Judgement' = Judgement
      /\ UNCHANGED << edits, request, api >>
  BY ForgetKeeps DEF Judged
<1>2. /\ ruling' \in Actions /\ risk' = ruling'
      /\ forbidden' => ruling' = "deny"
      /\ edits = 0 => ruling' = Judgement
  BY Settled DEF Judged
<1>3. forbidden' \in BOOLEAN
  BY DEF Judged
<1>4. CallTypeOK' /\ SuppressOK' /\ PlaceOK'
  BY <1>1, <1>2 DEF Judged, Actions, CallTypeOK, SuppressOK, PlaceOK
<1>5. RulingOK'
  BY <1>1, <1>2 DEF Judged, Actions, RulingOK
<1>6. StatusOK' /\ EffectOK'
  BY <1>1 DEF Judged, StatusOK, EffectOK, PlaceOK
<1>7. DeniedUntouched' /\ EffectRecorded' /\ EventTruthful'
   BY <1>4 DEF Judged, DeniedUntouched, EffectRecorded, EventTruthful, EffectOK, PlaceOK,
     NoEvent
<1> QED
  BY <1>1, <1>4, <1>5, <1>6, <1>7

LEMMA RejudgedKeeps == CallIInv /\ Rejudged => CallIInv'
<1> SUFFICES ASSUME CallIInv, Rejudged
             PROVE  CallIInv'
  OBVIOUS
<1> USE Static, Kinds DEF CallIInv, CallInv, worldVars, reportVars, Goto
<1>1. /\ IInv' /\ RequestOK' /\ UneditedOK'
      /\ Judgement' = Judgement
      /\ UNCHANGED << edits, request, api >>
  BY ForgetKeeps DEF Rejudged
<1>2. /\ risk' \in Actions
      /\ edits = 0 => risk' = Judgement
  BY Settled DEF Rejudged
<1>3. CallTypeOK' /\ SuppressOK' /\ PlaceOK'
  BY <1>2 DEF Rejudged, Actions, CallTypeOK, SuppressOK, PlaceOK
<1>4. RulingOK'
  BY <1>1, <1>2 DEF Rejudged, RulingOK, PlaceOK, UneditedOK
<1>5. StatusOK' /\ EffectOK'
  BY <1>1 DEF Rejudged, StatusOK, EffectOK, PlaceOK
<1>6. DeniedUntouched' /\ EffectRecorded' /\ EventTruthful'
  BY <1>1, <1>3 DEF Rejudged, DeniedUntouched, EffectRecorded, EventTruthful
<1> QED
  BY <1>1, <1>3, <1>4, <1>5, <1>6

-----------------------------------------------------------------------------
(* The theorems *)

LEMMA CallInitInv == CallInit => CallIInv
<1> SUFFICES ASSUME CallInit
             PROVE  CallIInv
  OBVIOUS
<1>1. IInv
  BY InitInv DEF CallInit
<1>2. RequestOK
  BY DEF CallInit, Init, RequestOK, Undecided, Judge, Actions
<1>3. UneditedOK
  BY DEF CallInit, Init, UneditedOK
<1>4. CallTypeOK
  <2>1. /\ api \in {"open", "write", "delete", "run", "system", "url", "httpx", "read"}
        /\ others \in 0 .. MaxOthers
    BY <1>2, Kinds, MaxOthersAssumption DEF CallInit
  <2>2. /\ call \in {"judging", "before"}
        /\ risk \in {"none", "warn"} /\ target \in {"none", "old"}
        /\ logged.status = "none"
    BY DEF CallInit, NoEvent
  <2>3. QED
    BY <2>1, <2>2 DEF CallInit, CallTypeOK
<1>a. SuppressOK /\ PlaceOK
  BY <1>2, Kinds DEF CallInit, SuppressOK, PlaceOK
<1>5. RulingOK /\ StatusOK
  BY DEF CallInit, RulingOK, StatusOK
<1>6. EffectOK
  BY DEF CallInit, EffectOK
<1>7. DeniedUntouched /\ EffectRecorded /\ EventTruthful
  BY <1>4 DEF CallInit, DeniedUntouched, EffectRecorded, EventTruthful, NoEvent
<1> QED
  BY <1>1, <1>2, <1>3, <1>4, <1>a, <1>5, <1>6, <1>7 DEF CallIInv, CallInv

LEMMA QuietInv == CallIInv /\ UNCHANGED vars => IInv'
BY StepInv DEF CallIInv

LEMMA CallStep == CallIInv /\ CallNext => CallIInv'
<1> SUFFICES ASSUME CallIInv, CallNext
             PROVE  CallIInv'
  OBVIOUS
<1>1. CASE Evaluate \/ Judged \/ Rejudged
  BY <1>1, EvaluateKeeps, JudgedKeeps, RejudgedKeeps
<1>2. CASE ~(Evaluate \/ Judged \/ Rejudged)
  <2>1. CallInv'
     BY <1>2, SnapshotKeeps, RecordBlockedKeeps, SnapshotFailsKeeps, SimulateKeeps,
       RunKeeps, RunFailsKeeps, InterruptKeeps, OpenKeeps, OpenFailsKeeps, WriteKeeps,
       CloseKeeps, AbandonKeeps, WriteWholeKeeps, WriteWholeFailsKeeps, DeleteKeeps,
       BeginRemovalKeeps, UnlinkInsideKeeps, EndRemovalKeeps, RemoveByShellKeeps,
       SnapshotAfterKeeps, SnapshotAfterFailsKeeps, ReportKeeps, RecordKeeps,
       RecordFailsKeeps, RecordFailsAgainKeeps, OtherChangesKeeps, OtherBeginsRemovalKeeps,
       OtherEndsRemovalKeeps DEF CallNext
  <2>2. UNCHANGED vars
     BY <1>2 DEF CallNext, Snapshot, RecordBlocked, SnapshotFails, Simulate, Run, RunFails,
       Interrupt, Open, OpenFails, Write, Close, Abandon, WriteWhole, WriteWholeFails,
       Delete, BeginRemoval, UnlinkInside, EndRemoval, RemoveByShell, SnapshotAfter,
       SnapshotAfterFails, Report, Record, RecordFails, RecordFailsAgain, OtherChanges,
       OtherBeginsRemoval, OtherEndsRemoval, Ends, Others
  <2>3. QED
    BY <2>1, <2>2, QuietInv DEF CallIInv
<1>3. QED
  BY <1>1, <1>2

LEMMA CallStutters == CallIInv /\ UNCHANGED allVars => CallIInv'
<1> SUFFICES ASSUME CallIInv, UNCHANGED allVars
             PROVE  CallIInv'
  OBVIOUS
<1> USE Static, Kinds DEF CallIInv, CallInv, allVars, callVars, judgeVars, worldVars, reportVars
<1>1. Quiet
  BY DEF Quiet
<1>2. RequestOK' /\ UneditedOK' /\ IInv'
  BY <1>1, QuietKeeps, QuietInv
<1>3. CallTypeOK' /\ SuppressOK' /\ PlaceOK'
  BY <1>1, QuietKeeps DEF CallTypeOK, SuppressOK, PlaceOK
<1>4. RulingOK' /\ StatusOK'
  BY <1>1, QuietKeeps DEF RulingOK, StatusOK
<1>5. EffectOK'
  BY <1>1, QuietKeeps DEF EffectOK
<1>6. DeniedUntouched' /\ EffectRecorded' /\ EventTruthful'
  BY <1>1, <1>3, QuietKeeps DEF DeniedUntouched, EffectRecorded, EventTruthful
<1> QED
  BY <1>2, <1>3, <1>4, <1>5, <1>6

LEMMA CallInductive == CallSpec => []CallIInv
BY CallInitInv, CallStep, CallStutters, PTL DEF CallSpec

\* A call inherits what is promised of each of its evaluations.
LEMMA CallInvImplies ==
    CallIInv => /\ DeniedUntouched /\ EffectRecorded /\ EventTruthful
                /\ StraysByReselection /\ EnforcementHolds /\ DenyListHolds /\ SettledDecision
BY InvImplies DEF CallIInv, CallInv

\* Whatever the policy says, whoever interferes and whatever fails, what is denied is not
\* done, and the event of a blocked call says that it was blocked.
THEOREM DeniedIsUntouched == CallSpec => []DeniedUntouched
BY CallInductive, CallInvImplies, PTL

\* What a call changed, ran or sent is in the trace when it is over, but for the cases
\* that EffectRecorded names.
THEOREM EffectIsRecorded == CallSpec => []EffectRecorded
BY CallInductive, CallInvImplies, PTL

\* An event does not claim an effect that was not, nor hide one, nor the policy's denial.
THEOREM EventIsTruthful == CallSpec => []EventTruthful
BY CallInductive, CallInvImplies, PTL

\* The promises of the policy hold of every judgement in a call, the second one of a write
\* and the second one of a removal included.
THEOREM CallsAreJudged ==
    CallSpec => [](StraysByReselection /\ EnforcementHolds /\ DenyListHolds /\ SettledDecision)
BY CallInductive, CallInvImplies, PTL
=============================================================================
