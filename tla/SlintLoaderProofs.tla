------------------------- MODULE SlintLoaderProofs -------------------------
(***************************************************************************)
(* The safety of SlintLoader for any number of runs and loads.  The window *)
(* shows parts of the summaries that threads prepared, so the invariant    *)
(* follows a summary from stage to stage: what is known of it when it is   *)
(* posted is what the window needs when it is applied.                     *)
(***************************************************************************)
EXTENDS SlintLoader, TLAPS

\* The command a load is at fits its kind: a policy is asked for by two kinds of
\* load, the fixture by one.
StageFits(load) ==
    /\ load.stage = "latest" => load.kind = "Latest"
    /\ load.stage = "list" => load.kind \in {"Latest", "RunList"}
    /\ load.stage = "policy" => load.kind \in {"Latest", "Policy"}
    /\ load.stage = "demo" => load.kind = "DemoFixture"

\* What of a summary holds at every stage: the fixture is shown as such, a policy
\* load never brings one, and the run is one that had begun.
SummaryFits(load, runs) ==
    LET s == load.summary IN
    /\ s.status = "DemoFixture" <=> s.run.from = "demo"
    /\ s.status = "DemoFixture" => load.kind = "DemoFixture"
    /\ s.run.run <= runs
    /\ s.run.from = "bridge" /\ s.history.from = "bridge" => s.run.run <= s.history.run

LoadsFit == \A i \in 1 .. MaxLoads : StageFits(loads[i]) /\ SummaryFits(loads[i], begun)

LoadingAndStatus == LoadingMeansOneLoad /\ OneLanguage /\ StatusAgrees

IInv ==
    /\ TypeOK
    /\ load_generation > 0
    /\ LoadingAndStatus
    /\ LoadsFit
    /\ BannerTruthful
    /\ RunInHistory

-----------------------------------------------------------------------------
\* The summaries the code makes out of nothing are well formed.
LEMMA BlankType ==
    ASSUME NEW from \in Sources, NEW status \in Statuses
    PROVE  /\ Blank(from, status) \in Summaries
           /\ Blank(from, status).status = status
           /\ Blank(from, status).run = [from |-> from, run |-> 0]
           /\ Blank(from, status).history = [from |-> from, run |-> 0]
           /\ Blank(from, status).policy = "mock"
BY ConstantsAssumption DEF Blank, Summaries, Data, Sources, ConstantsAssumption

\* A load begins as the window opens, and the window says so.
LEMMA InitInv == Init => IInv
<1> SUFFICES ASSUME Init PROVE IInv
  OBVIOUS
<1> USE ConstantsAssumption DEF ConstantsAssumption
<1>0. /\ Mock \in Summaries /\ Mock.status = "MockFallback"
      /\ Mock.run = [from |-> "mock", run |-> 0] /\ Mock.history = [from |-> "mock", run |-> 0]
      /\ Mock.policy = "mock"
  BY BlankType DEF Mock, Statuses, Sources
<1>1. TypeOK
  BY <1>0 DEF Init, TypeOK, Languages, Statuses, Kinds, Stages, Text, Data, Sources
<1>2. LoadingAndStatus
  BY DEF Init, LoadingAndStatus, LoadingMeansOneLoad, Pending, OneLanguage, StatusAgrees
<1>3. LoadsFit
  BY <1>0, <1>1 DEF Init, LoadsFit, StageFits, SummaryFits, TypeOK
<1>4. BannerTruthful /\ RunInHistory
  BY <1>0 DEF Init, BannerTruthful, RunInHistory
<1> QED
  BY <1>1, <1>2, <1>3, <1>4 DEF Init, IInv

-----------------------------------------------------------------------------
\* A step of a load's thread that leaves the window alone: the load is pending before
\* and after, and its summary still fits.
LEMMA ThreadStep ==
    ASSUME IInv, NEW i \in 1 .. MaxLoads, NEW stage \in Stages \ {"none", "over"},
           NEW summary \in Summaries, Pending(i), Goto(i, stage, summary),
           StageFits([kind |-> loads[i].kind, stage |-> stage, summary |-> summary]),
           SummaryFits([kind |-> loads[i].kind, stage |-> stage, summary |-> summary], begun)
    PROVE  IInv'
<1> DEFINE load == [kind |-> loads[i].kind, stage |-> stage, summary |-> summary]
<1>0. loads[i] \in [kind : Kinds, stage : Stages, summary : Summaries]
  BY DEF IInv, TypeOK
<1>1. loads' = [loads EXCEPT ![i] = load]
  BY DEF Goto
<1>2. /\ loads'[i] = load /\ loads'[i].stage = stage
      /\ \A j \in 1 .. MaxLoads : j # i => loads'[j] = loads[j]
  BY <1>1 DEF IInv, TypeOK
<1>3. load \in [kind : Kinds, stage : Stages, summary : Summaries]
  BY DEF IInv, TypeOK
<1>4. TypeOK'
  BY <1>1, <1>3 DEF IInv, TypeOK, Goto, world
<1>5. \A j \in 1 .. MaxLoads : Pending(j)' <=> Pending(j)
  BY <1>2 DEF Pending
<1>6. load_generation \in 1 .. MaxLoads
  BY ConstantsAssumption DEF IInv, TypeOK, ConstantsAssumption
<1>7. LoadingAndStatus'
  BY <1>5, <1>6 DEF IInv, LoadingAndStatus, LoadingMeansOneLoad, OneLanguage, StatusAgrees, Goto
<1>8. LoadsFit'
  <2> SUFFICES ASSUME NEW j \in 1 .. MaxLoads
               PROVE  StageFits(loads'[j]) /\ SummaryFits(loads'[j], begun)
    BY DEF LoadsFit, Goto, world
  <2>2. CASE j = i
    BY <2>2, <1>2
  <2>3. CASE j # i
    BY <2>3, <1>2 DEF IInv, LoadsFit
  <2> QED
    BY <2>2, <2>3
<1> QED
  BY <1>4, <1>7, <1>8 DEF IInv, BannerTruthful, RunInHistory, Goto
-----------------------------------------------------------------------------
\* Each command leads to a summary that fits its stage.
LEMMA CommandStep ==
    ASSUME IInv, NEW i \in 1 .. MaxLoads,
           Latest(i) \/ List(i) \/ Policy(i) \/ Demo(i) \/ FailLoad(i)
    PROVE  IInv'
<1> DEFINE was == loads[i]
<1>0. /\ was \in [kind : Kinds, stage : Stages, summary : Summaries]
      /\ StageFits(was) /\ SummaryFits(was, begun)
      /\ begun \in 0 .. MaxRuns /\ pointed \in 0 .. begun /\ MaxRuns \in Nat
  BY ConstantsAssumption DEF IInv, TypeOK, LoadsFit, ConstantsAssumption
<1>1. CASE Latest(i)
  <2> DEFINE new == IF pointed = 0 THEN NoRuns
                    ELSE [Mock EXCEPT !.status = "Loaded",
                                      !.run = [from |-> "bridge", run |-> pointed]]
  <2>1. /\ new \in Summaries /\ new.status # "DemoFixture"
        /\ new.run = [from |-> "bridge", run |-> pointed]
        /\ new.history.from = "bridge" => pointed = 0 /\ new.history.run = 0
    <3>1. CASE pointed = 0
      BY <1>0, <3>1 DEF NoRuns, Blank, Summaries, Data, Sources, Statuses
    <3>2. CASE pointed # 0
      <4>1. new = [status |-> "Loaded", run |-> [from |-> "bridge", run |-> pointed],
                   history |-> [from |-> "mock", run |-> 0], policy |-> "mock"]
        BY <3>2 DEF Mock, Blank
      <4>2. 0 \in 0 .. MaxRuns /\ pointed \in 0 .. MaxRuns
        BY <1>0
      <4> HIDE DEF new
      <4> QED
        BY <3>2, <4>1, <4>2 DEF Summaries, Data, Sources, Statuses
    <3> QED
      BY <3>1, <3>2
  <2> HIDE DEF new
  <2>2. SummaryFits([kind |-> was.kind, stage |-> "list", summary |-> new], begun)
    BY <1>0, <2>1 DEF SummaryFits
  <2>3. StageFits([kind |-> was.kind, stage |-> "list", summary |-> new])
    BY <1>0, <1>1 DEF StageFits, Latest, Running
  <2>4. Goto(i, "list", new) /\ Pending(i)
    BY <1>1 DEF Latest, Running, Pending, new
  <2> QED
    BY <2>1, <2>2, <2>3, <2>4, ThreadStep DEF Stages
<1>2. CASE List(i)
  <2> DEFINE newest == [from |-> "bridge", run |-> begun]
             kept == [was.summary EXCEPT !.history = newest]
             fresh == IF begun = 0 THEN NoRuns
                      ELSE [Mock EXCEPT !.status = "Loaded", !.run = newest, !.history = newest]
  <2>1. Pending(i)
    BY <1>2 DEF List, Running, Pending
  <2>2. CASE was.kind = "Latest"
    <3>1. /\ kept \in Summaries /\ kept.status = was.summary.status
          /\ kept.run = was.summary.run /\ kept.history = newest
      BY <1>0 DEF Summaries, Data, Sources
    <3> HIDE DEF kept
    <3>2. SummaryFits([kind |-> was.kind, stage |-> "policy", summary |-> kept], begun)
      BY <1>0, <3>1 DEF SummaryFits
    <3>3. StageFits([kind |-> was.kind, stage |-> "policy", summary |-> kept])
      BY <2>2 DEF StageFits
    <3>4. Goto(i, "policy", kept)
      BY <1>2, <2>2 DEF List, kept
    <3> QED
      BY <2>1, <3>1, <3>2, <3>3, <3>4, ThreadStep DEF Stages
  <2>3. CASE was.kind # "Latest"
    <3>1. /\ fresh \in Summaries /\ fresh.status # "DemoFixture"
          /\ fresh.run = newest /\ fresh.history = newest
      BY <1>0 DEF NoRuns, Mock, Blank, Summaries, Data, Sources, Statuses
    <3> HIDE DEF fresh
    <3>2. SummaryFits([kind |-> was.kind, stage |-> "posted", summary |-> fresh], begun)
      BY <1>0, <3>1 DEF SummaryFits
    <3>3. StageFits([kind |-> was.kind, stage |-> "posted", summary |-> fresh])
      BY DEF StageFits
    <3>4. Goto(i, "posted", fresh)
      BY <1>2, <2>3 DEF List, fresh
    <3> QED
      BY <2>1, <3>1, <3>2, <3>3, <3>4, ThreadStep DEF Stages
  <2> QED
    BY <2>2, <2>3
<1>3. CASE Policy(i)
  <2> DEFINE new == IF was.kind = "Latest" THEN [was.summary EXCEPT !.policy = "bridge"]
                    ELSE [Mock EXCEPT !.status = "Loaded", !.policy = "bridge"]
  <2>1. /\ new \in Summaries
        /\ \/ new.status = was.summary.status /\ new.run = was.summary.run
              /\ new.history = was.summary.history
           \/ /\ new.status = "Loaded"
              /\ new.run = [from |-> "mock", run |-> 0] /\ new.history = new.run
    <3>1. CASE was.kind = "Latest"
      BY <1>0, <3>1 DEF Summaries, Sources
    <3>2. CASE was.kind # "Latest"
      <4>1. new = [status |-> "Loaded", run |-> [from |-> "mock", run |-> 0],
                   history |-> [from |-> "mock", run |-> 0], policy |-> "bridge"]
        BY <3>2 DEF Mock, Blank
      <4>2. 0 \in 0 .. MaxRuns /\ pointed \in 0 .. MaxRuns
        BY <1>0
      <4> HIDE DEF new
      <4> QED
        BY <3>2, <4>1, <4>2 DEF Summaries, Data, Sources, Statuses
    <3> QED
      BY <3>1, <3>2
  <2> HIDE DEF new
  <2>2. SummaryFits([kind |-> was.kind, stage |-> "posted", summary |-> new], begun)
    BY <1>0, <2>1 DEF SummaryFits
  <2>3. StageFits([kind |-> was.kind, stage |-> "posted", summary |-> new])
    BY DEF StageFits
  <2>4. Goto(i, "posted", new) /\ Pending(i)
    BY <1>3 DEF Policy, Running, Pending, new
  <2> QED
    BY <2>1, <2>2, <2>3, <2>4, ThreadStep DEF Stages
<1>4. CASE Demo(i)
  <2> DEFINE new == [Blank("demo", "DemoFixture") EXCEPT !.policy = "demo"]
  <2>1. /\ new \in Summaries /\ new.status = "DemoFixture"
        /\ new.run = [from |-> "demo", run |-> 0]
    BY <1>0 DEF Blank, Summaries, Data, Sources, Statuses
  <2> HIDE DEF new
  <2>2. SummaryFits([kind |-> was.kind, stage |-> "posted", summary |-> new], begun)
    BY <1>0, <1>4, <2>1 DEF SummaryFits, StageFits, Demo, Running
  <2>3. StageFits([kind |-> was.kind, stage |-> "posted", summary |-> new])
    BY DEF StageFits
  <2>4. Goto(i, "posted", new) /\ Pending(i)
    BY <1>4 DEF Demo, Running, Pending, new
  <2> QED
    BY <2>1, <2>2, <2>3, <2>4, ThreadStep DEF Stages
<1>5. CASE FailLoad(i)
  <2> DEFINE new == IF was.kind = "Latest" /\ was.stage # "latest"
                    THEN [was.summary EXCEPT !.status = "CommandFailed"] ELSE Failed
  <2>1. /\ new \in Summaries /\ new.status = "CommandFailed"
        /\ \/ /\ was.kind = "Latest"
              /\ new.run = was.summary.run /\ new.history = was.summary.history
           \/ new.run = [from |-> "mock", run |-> 0] /\ new.history = new.run
    BY <1>0 DEF Failed, Blank, Summaries, Data, Sources, Statuses
  <2> HIDE DEF new
  <2>2. SummaryFits([kind |-> was.kind, stage |-> "posted", summary |-> new], begun)
    BY <1>0, <2>1 DEF SummaryFits
  <2>3. StageFits([kind |-> was.kind, stage |-> "posted", summary |-> new])
    BY DEF StageFits
  <2>4. Goto(i, "posted", new) /\ Pending(i)
    BY <1>5 DEF FailLoad, Running, Pending, new
  <2> QED
    BY <2>1, <2>2, <2>3, <2>4, ThreadStep DEF Stages
<1> QED
  BY <1>1, <1>2, <1>3, <1>4, <1>5

-----------------------------------------------------------------------------
\* A button is enabled only when no load is under way, so the new one is the only one.
LEMMA ButtonStep ==
    ASSUME IInv, NEW kind \in Kinds, StartLoad(kind)
    PROVE  IInv'
<1>n. PICK n \in Nat : n = load_generation + 1
  BY DEF IInv, TypeOK
<1> DEFINE load == [kind |-> kind, stage |-> FirstStage[kind], summary |-> Mock]
<1>0. /\ load_generation \in 1 .. MaxLoads /\ n \in 1 .. MaxLoads /\ n # load_generation
      /\ load_generation' = n
  BY <1>n, ConstantsAssumption DEF IInv, TypeOK, StartLoad, ConstantsAssumption
<1>1. /\ loads' = [loads EXCEPT ![n] = [kind |-> kind, summary |-> Mock, stage |-> FirstStage[kind]]]
      /\ loads'[n] = load
      /\ \A j \in 1 .. MaxLoads : j # n => loads'[j] = loads[j]
  BY <1>0 DEF StartLoad, IInv, TypeOK
<1>2. /\ Mock \in Summaries /\ Mock.status = "MockFallback"
      /\ Mock.run = [from |-> "mock", run |-> 0] /\ Mock.history = Mock.run
  BY ConstantsAssumption DEF Mock, Blank, Summaries, Data, Statuses, Sources, ConstantsAssumption
<1>3. FirstStage[kind] \in {"latest", "list", "policy", "demo"} /\ StageFits(load)
  BY DEF FirstStage, Kinds, StageFits
<1>4. SummaryFits(load, begun)
  BY <1>2 DEF SummaryFits, IInv, TypeOK
<1>5. /\ ui'.state = "loading" /\ ui'.labels = ui.labels
      /\ ui'.message = [lang |-> language, says |-> "loading"]
      /\ ui'.bridge = [lang |-> language, says |-> "loading"]
      /\ ui'.demo = ui.demo /\ ui'.run = ui.run /\ ui'.history = ui.history
      /\ ui' \in [state : {"loading", "error", "data"}, labels : Languages, bridge : Text,
                  message : Text, demo : BOOLEAN, run : Data, history : Data, policy : Sources]
  BY DEF StartLoad, WithState, IInv, TypeOK, Text, Languages
<1>6. TypeOK'
  BY <1>0, <1>1, <1>2, <1>3, <1>5 DEF StartLoad, IInv, TypeOK, world, Stages
<1>7. \A j \in 1 .. MaxLoads : ~ Pending(j)
  BY DEF IInv, LoadingAndStatus, LoadingMeansOneLoad, StartLoad
<1>8. LoadingMeansOneLoad'
  <2>1. \A j \in 1 .. MaxLoads : j # n => ~ Pending(j)'
    BY <1>1, <1>7 DEF Pending
  <2>2. Pending(n)'
    BY <1>1, <1>3 DEF Pending
  <2>3. Pending(load_generation)'
    BY <1>0, <2>2 DEF Pending
  <2> QED
    BY <1>0, <1>5, <2>1, <2>3 DEF LoadingMeansOneLoad
<1>9. OneLanguage' /\ StatusAgrees'
  BY <1>5 DEF OneLanguage, StatusAgrees, StartLoad, IInv, LoadingAndStatus
<1>10. LoadsFit'
  <2> SUFFICES ASSUME NEW j \in 1 .. MaxLoads
               PROVE  StageFits(loads'[j]) /\ SummaryFits(loads'[j], begun)
    BY DEF LoadsFit, StartLoad, world
  <2>1. CASE j = n
    BY <2>1, <1>1, <1>3, <1>4
  <2>2. CASE j # n
    BY <2>2, <1>1 DEF IInv, LoadsFit
  <2> QED
    BY <2>1, <2>2
<1> QED
  BY <1>0, <1>5, <1>6, <1>8, <1>9, <1>10 DEF IInv, LoadingAndStatus, BannerTruthful, RunInHistory

-----------------------------------------------------------------------------
\* The summary of the newest load is applied, that of another one is dropped.
LEMMA ApplyStep ==
    ASSUME IInv, NEW i \in 1 .. MaxLoads, Apply(i)
    PROVE  IInv'
<1> DEFINE s == loads[i].summary
<1>0. /\ loads[i] \in [kind : Kinds, stage : Stages, summary : Summaries]
      /\ SummaryFits(loads[i], begun)
      /\ loads' = [loads EXCEPT ![i].stage = "over"]
      /\ loads'[i].stage = "over" /\ loads'[i].kind = loads[i].kind /\ loads'[i].summary = s
      /\ \A j \in 1 .. MaxLoads : j # i => loads'[j] = loads[j]
      /\ load_generation' = load_generation /\ language' = language /\ begun' = begun
      /\ load_generation \in 1 .. MaxLoads
  BY ConstantsAssumption DEF Apply, IInv, TypeOK, LoadsFit, world, ConstantsAssumption
<1>1. i = load_generation /\ ui.state = "loading"
  BY <1>0 DEF Apply, Running, Pending, IInv, LoadingAndStatus, LoadingMeansOneLoad
<1>2. PICK state \in {"error", "data"} :
        /\ state = "error" <=> s.status = "CommandFailed"
        /\ bridge_status' = s.status
        /\ ui' = WithState(IF loads[i].kind = "Policy" THEN WithPolicy(ui, s) ELSE WithSummary(ui, s),
                           state, language, s.status)
  BY <1>1 DEF Apply
<1>3. /\ ui'.state = state /\ ui'.labels = ui.labels
      /\ ui'.bridge = [lang |-> language, says |-> s.status]
      /\ ui'.message.lang = language
      /\ \/ /\ loads[i].kind = "Policy"
            /\ ui'.demo = (ui.demo \/ s.status = "DemoFixture")
            /\ ui'.run = ui.run /\ ui'.history = ui.history
         \/ /\ ui'.demo = (s.status = "DemoFixture")
            /\ ui'.run = s.run /\ ui'.history = s.history
  BY <1>2 DEF WithState, WithPolicy, WithSummary, IInv, TypeOK
<1>4. ui' \in [state : {"loading", "error", "data"}, labels : Languages, bridge : Text,
               message : Text, demo : BOOLEAN, run : Data, history : Data, policy : Sources]
  <2> DEFINE u == IF loads[i].kind = "Policy" THEN WithPolicy(ui, s) ELSE WithSummary(ui, s)
  <2>1. s \in Summaries /\ s.status \in Statuses /\ language \in Languages
    BY <1>0 DEF Summaries, IInv, TypeOK
  <2>2. u \in [state : {"loading", "error", "data"}, labels : Languages, bridge : Text,
               message : Text, demo : BOOLEAN, run : Data, history : Data, policy : Sources]
    BY <2>1 DEF WithPolicy, WithSummary, IInv, TypeOK, Summaries
  <2>3. ui' = WithState(u, state, language, s.status)
    BY <1>2
  <2> HIDE DEF u
  <2> QED
    BY <2>1, <2>2, <2>3 DEF WithState, Text
<1>5. TypeOK'
  BY <1>0, <1>2, <1>4 DEF Apply, IInv, TypeOK, world, Summaries, Stages
<1>6. LoadingMeansOneLoad'
  <2>1. \A j \in 1 .. MaxLoads : ~ Pending(j)'
    BY <1>0, <1>1 DEF Pending, IInv, LoadingAndStatus, LoadingMeansOneLoad
  <2>2. ~ Pending(load_generation)'
    BY <1>0, <1>1 DEF Pending
  <2> QED
    BY <1>2, <1>3, <2>1, <2>2 DEF LoadingMeansOneLoad
<1>7. OneLanguage' /\ StatusAgrees'
  <2>1. /\ ui'.labels = language /\ ui'.bridge.lang = language /\ ui'.message.lang = language
        /\ ui'.bridge.says = s.status
    BY <1>3 DEF OneLanguage, IInv, LoadingAndStatus
  <2>2. OneLanguage'
    BY <1>0, <2>1 DEF OneLanguage
  <2>3. StatusAgrees'
    BY <1>2, <1>3, <2>1 DEF StatusAgrees
  <2> QED
    BY <2>2, <2>3
<1>8. LoadsFit'
  <2> SUFFICES ASSUME NEW j \in 1 .. MaxLoads
               PROVE  StageFits(loads'[j]) /\ SummaryFits(loads'[j], begun)
    BY <1>0 DEF LoadsFit
  <2>1. CASE j = i
    BY <2>1, <1>0 DEF StageFits, SummaryFits
  <2>2. CASE j # i
    BY <2>2, <1>0 DEF IInv, LoadsFit
  <2> QED
    BY <2>1, <2>2
<1>9. BannerTruthful' /\ RunInHistory'
  BY <1>0, <1>3 DEF BannerTruthful, RunInHistory, SummaryFits, IInv
<1> QED
  BY <1>0, <1>5, <1>6, <1>7, <1>8, <1>9 DEF IInv, LoadingAndStatus

\* The language is switched at any moment.
LEMMA ToggleStep ==
    ASSUME IInv, NEW lang \in Languages, Toggle(lang)
    PROVE  IInv'
<1> DEFINE status == IF ui.state = "error" THEN "CommandFailed" ELSE bridge_status
<1>1. /\ ui'.state = ui.state /\ ui'.labels = lang
      /\ ui'.message.lang = lang /\ ui'.bridge.lang = lang
      /\ ui'.bridge.says = IF ui.state = "loading" THEN "loading" ELSE status
      /\ ui'.demo = ui.demo /\ ui'.run = ui.run /\ ui'.history = ui.history
      /\ ui' \in [state : {"loading", "error", "data"}, labels : Languages, bridge : Text,
                  message : Text, demo : BOOLEAN, run : Data, history : Data, policy : Sources]
  BY DEF Toggle, WithState, IInv, TypeOK, Text, Statuses
<1>2. /\ UNCHANGED << world, bridge_status, load_generation, loads >>
      /\ language' = lang
  BY DEF Toggle
<1>3. TypeOK'
  BY <1>1, <1>2 DEF IInv, TypeOK, world
<1>4. LoadingMeansOneLoad'
  BY <1>1, <1>2 DEF IInv, LoadingAndStatus, LoadingMeansOneLoad, Pending
<1>5. OneLanguage' /\ StatusAgrees'
  BY <1>1, <1>2 DEF OneLanguage, StatusAgrees, IInv, LoadingAndStatus
<1>6. LoadsFit'
  BY <1>2 DEF IInv, LoadsFit, world
<1> QED
  BY <1>1, <1>2, <1>3, <1>4, <1>5, <1>6 DEF IInv, LoadingAndStatus, BannerTruthful, RunInHistory

\* Runs that begin or are pointed at change nothing that is on its way.
LEMMA WorldStep ==
    ASSUME IInv, BeginRun \/ MovePointer
    PROVE  IInv'
<1>1. /\ UNCHANGED << language, bridge_status, load_generation, loads, ui >>
      /\ begun' \in 0 .. MaxRuns /\ begun <= begun' /\ pointed' \in 0 .. begun'
  BY ConstantsAssumption DEF BeginRun, MovePointer, IInv, TypeOK, ConstantsAssumption
<1>2. TypeOK'
  BY <1>1 DEF IInv, TypeOK
<1>3. LoadingAndStatus'
  BY <1>1 DEF IInv, LoadingAndStatus, LoadingMeansOneLoad, Pending, OneLanguage, StatusAgrees
<1>4. LoadsFit'
  <2> SUFFICES ASSUME NEW j \in 1 .. MaxLoads
               PROVE  StageFits(loads[j]) /\ SummaryFits(loads[j], begun')
    BY <1>1 DEF LoadsFit
  <2>1. loads[j].summary.run.run \in Nat /\ begun \in Nat /\ begun' \in Nat
    BY <1>1 DEF IInv, TypeOK, Summaries, Data
  <2> QED
    BY <1>1, <2>1 DEF IInv, LoadsFit, SummaryFits
<1> QED
  BY <1>1, <1>2, <1>3, <1>4 DEF IInv, BannerTruthful, RunInHistory

-----------------------------------------------------------------------------
\* Every step keeps the invariant.
LEMMA StepInv == IInv /\ [Next]_vars => IInv'
<1> SUFFICES ASSUME IInv, [Next]_vars PROVE IInv'
  OBVIOUS
<1>1. CASE UNCHANGED vars
  BY <1>1 DEF vars, world, IInv, TypeOK, LoadingAndStatus, LoadingMeansOneLoad, Pending,
              OneLanguage, StatusAgrees, LoadsFit, BannerTruthful, RunInHistory
<1>2. CASE BeginRun \/ MovePointer
  BY <1>2, WorldStep
<1>3. ASSUME NEW kind \in Kinds, StartLoad(kind) PROVE IInv'
  BY <1>3, ButtonStep
<1>4. ASSUME NEW lang \in Languages, Toggle(lang) PROVE IInv'
  BY <1>4, ToggleStep
<1>5. ASSUME NEW i \in 1 .. MaxLoads, Apply(i) PROVE IInv'
  BY <1>5, ApplyStep
<1>6. ASSUME NEW i \in 1 .. MaxLoads,
             Latest(i) \/ List(i) \/ Policy(i) \/ Demo(i) \/ FailLoad(i)
      PROVE  IInv'
  BY <1>6, CommandStep
<1> QED
  BY <1>1, <1>2, <1>3, <1>4, <1>5, <1>6 DEF Next

\* The invariant holds in every reachable state.
THEOREM SlintInvariance == Spec => []IInv
BY InitInv, StepInv, PTL DEF Spec

\* The window loads exactly while the newest load is under way, for any number of
\* loads (main.rs:448-475).
THEOREM OneLoadHolds == Spec => []LoadingMeansOneLoad
<1>1. IInv => LoadingMeansOneLoad
  BY DEF IInv, LoadingAndStatus
<1> QED
  BY <1>1, SlintInvariance, PTL

\* Types, language and status agree whenever the language is switched.
THEOREM WindowConsistentHolds == Spec => []WindowConsistent
<1>1. IInv => WindowConsistent
  BY DEF IInv, LoadingAndStatus, WindowConsistent
<1> QED
  BY <1>1, SlintInvariance, PTL

\* The demo banner tells where the run on screen is from, whatever was loaded in
\* which order (main.rs:151-181).
THEOREM BannerHolds == Spec => []BannerTruthful
<1>1. IInv => BannerTruthful
  BY DEF IInv
<1> QED
  BY <1>1, SlintInvariance, PTL

\* The run on screen is in the history on screen, for any number of runs that begin
\* between the commands (main.rs:326-345).
THEOREM RunInHistoryHolds == Spec => []RunInHistory
<1>1. IInv => RunInHistory
  BY DEF IInv
<1> QED
  BY <1>1, SlintInvariance, PTL
=============================================================================
