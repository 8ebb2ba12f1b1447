---------------------------- MODULE SlintLoader ----------------------------
(***************************************************************************)
(* crates/traceseal-desktop-slint/src/main.rs: how the Slint window loads  *)
(* what `dashboard-data` prints.  A button starts a thread that runs one   *)
(* to three commands, one after the other, and posts its summary to the    *)
(* event loop, which applies it if no later load was started.  Runs begin  *)
(* and end while the commands are executed, and the language is switched   *)
(* while a load is under way.                                              *)
(*                                                                         *)
(* A run is named by its number: `begun` runs have a directory, and the    *)
(* pointer names run `pointed` (0: there is none).  Of the texts on screen *)
(* the model keeps the language they are in and what they say.             *)
(***************************************************************************)
EXTENDS Naturals

CONSTANTS
    MaxRuns,    \* bound: runs that begin in a behaviour
    MaxLoads    \* bound: loads started in a behaviour

ASSUME ConstantsAssumption ==
    /\ MaxRuns \in Nat \ {0}
    /\ MaxLoads \in Nat \ {0}

VARIABLES
    begun, pointed,     \* the runs, and the run the pointer names
    language,           \* the atomic `language`
    bridge_status,      \* the atomic `bridge_status`
    load_generation,    \* the atomic `load_generation`
    loads,              \* the load threads: [kind, stage, summary]
    ui                  \* the properties of the window

world == << begun, pointed >>
vars == << world, language, bridge_status, load_generation, loads, ui >>

Languages == {"English", "Chinese"}
Kinds == {"Latest", "RunList", "Policy", "DemoFixture"}
Statuses == {"MockFallback", "Loaded", "CommandFailed", "NoRunsFound", "DemoFixture"}
Sources == {"mock", "demo", "bridge"}
FirstStage == [Latest |-> "latest", RunList |-> "list", Policy |-> "policy", DemoFixture |-> "demo"]
Stages == {"none", "latest", "list", "policy", "demo", "posted", "over"}

\* Where the data of a part of the window comes from ("mock": what the code puts
\* there itself, built-in values or nothing at all), and its newest run.
Data == [from : Sources, run : 0 .. MaxRuns]
Summaries == [status : Statuses, run : Data, history : Data, policy : Sources]

\* DashboardSummary::mock, command_failed, demo_fixture_failed, no_runs_found.
Blank(from, status) ==
    [status |-> status, run |-> [from |-> from, run |-> 0],
     history |-> [from |-> from, run |-> 0], policy |-> "mock"]

Mock == Blank("mock", "MockFallback")
Failed == Blank("mock", "CommandFailed")
NoRuns == Blank("bridge", "NoRunsFound")

Text == [lang : Languages, says : Statuses \cup {"loading", "loaded", "error"}]

TypeOK ==
    /\ begun \in 0 .. MaxRuns /\ pointed \in 0 .. begun
    /\ language \in Languages
    /\ bridge_status \in Statuses
    /\ load_generation \in 0 .. MaxLoads
    /\ loads \in [1 .. MaxLoads -> [kind : Kinds, stage : Stages, summary : Summaries]]
    /\ ui \in [state : {"loading", "error", "data"}, labels : Languages, bridge : Text,
               message : Text, demo : BOOLEAN, run : Data, history : Data, policy : Sources]

Init ==
    /\ begun \in {0, 1} /\ pointed \in 0 .. begun
    /\ language = "English"
    /\ bridge_status = "MockFallback"
    /\ load_generation = 1
    /\ loads = [i \in 1 .. MaxLoads |->
                  [kind |-> "Latest", stage |-> IF i = 1 THEN "latest" ELSE "none",
                   summary |-> Mock]]
    /\ ui = [state |-> "loading", labels |-> language,
             bridge |-> [lang |-> language, says |-> "loading"],
             message |-> [lang |-> language, says |-> "loading"],
             demo |-> FALSE, run |-> Mock.run, history |-> Mock.history, policy |-> Mock.policy]

-----------------------------------------------------------------------------
(* apply_load_state, apply_summary and apply_policy_summary on the window u *)

\* A faulty variant: the banner follows the status whatever was loaded.
WithPolicyAndBanner(u, s) ==
    [u EXCEPT !.policy = s.policy, !.demo = (s.status = "DemoFixture")]

WithState(u, state, lang, status) ==
    [u EXCEPT !.state = state,
              !.message = [lang |-> lang, says |-> IF state = "data" THEN "loaded" ELSE state],
              !.bridge = [lang |-> lang, says |-> IF state = "loading" THEN "loading" ELSE status]]

WithPolicy(u, s) ==
    [u EXCEPT !.policy = s.policy, !.demo = @ \/ s.status = "DemoFixture"]

WithSummary(u, s) ==
    [u EXCEPT !.demo = (s.status = "DemoFixture"), !.run = s.run, !.history = s.history,
              !.policy = s.policy]

-----------------------------------------------------------------------------
\* Load i is at a stage.
Running(i, stage) == loads[i].stage = stage

\* The summary with which load i goes on, and its next stage.
Goto(i, stage, summary) ==
    /\ loads' = [loads EXCEPT ![i] = [kind |-> @.kind, stage |-> stage, summary |-> summary]]
    /\ UNCHANGED << world, language, bridge_status, load_generation, ui >>

-----------------------------------------------------------------------------
(* Faulty variants of steps below, used by no specification: each shows     *)
(* which property such a bug would break.                                   *)

\* The generation is counted but the window does not say that it loads.
StartSilently(kind) ==
    /\ ui.state # "loading" /\ load_generation < MaxLoads
    /\ load_generation' = load_generation + 1
    /\ loads' = [loads EXCEPT ![load_generation'] =
                   [kind |-> kind, stage |-> "latest", summary |-> Mock]]
    /\ UNCHANGED << world, language, bridge_status, ui >>

\* The history is asked for first, then the latest run.
LatestFromOldList(i) ==
    /\ Running(i, "latest")
    /\ pointed > 0
    /\ \E n \in 0 .. begun :
          Goto(i, "policy", [Mock EXCEPT !.status = "Loaded",
                                         !.run = [from |-> "bridge", run |-> pointed],
                                         !.history = [from |-> "bridge", run |-> n]])

\* Switching the language leaves the state line as it is.
ToggleLabelsOnly(lang) ==
    /\ lang # language
    /\ language' = lang
    /\ ui' = [ui EXCEPT !.labels = lang, !.bridge = [lang |-> lang, says |-> bridge_status]]
    /\ UNCHANGED << world, bridge_status, load_generation, loads >>

\* A failed command ends the thread: nothing is posted.
FailSilently(i) ==
    /\ loads[i].stage \in {"latest", "list", "policy", "demo"}
    /\ Goto(i, "over", Failed)

-----------------------------------------------------------------------------
(* The runs *)

BeginRun ==
    /\ begun < MaxRuns
    /\ begun' = begun + 1
    /\ UNCHANGED << pointed, language, bridge_status, load_generation, loads, ui >>

MovePointer ==
    /\ \E n \in 1 .. begun : n # pointed /\ pointed' = n
    /\ UNCHANGED << begun, language, bridge_status, load_generation, loads, ui >>

-----------------------------------------------------------------------------
(* The event loop *)

\* A button: all four are enabled only while nothing is loading, so that in fact no
\* load is superseded.
StartLoad(kind) ==
    /\ ui.state # "loading"
    /\ load_generation < MaxLoads
    /\ load_generation' = load_generation + 1
    /\ loads' = [loads EXCEPT ![load_generation'] =
                   [kind |-> kind, summary |-> Mock, stage |-> FirstStage[kind]]]
    /\ ui' = WithState(ui, "loading", language, bridge_status)
    /\ UNCHANGED << world, language, bridge_status >>

\* on_toggle_language: the labels, then the state line in the new language.
Toggle(lang) ==
    /\ lang # language
    /\ language' = lang
    /\ ui' = [WithState(ui, ui.state, lang,
                        IF ui.state = "error" THEN "CommandFailed" ELSE bridge_status)
              EXCEPT !.labels = lang]
    /\ UNCHANGED << world, bridge_status, load_generation, loads >>

\* The closure posted by load i.
Apply(i) ==
    LET s == loads[i].summary IN
    /\ Running(i, "posted")
    /\ loads' = [loads EXCEPT ![i].stage = "over"]
    /\ IF load_generation # i
       THEN UNCHANGED << bridge_status, ui >>
       ELSE /\ bridge_status' = s.status
            /\ ui' = WithState(IF loads[i].kind = "Policy" THEN WithPolicy(ui, s)
                                                           ELSE WithSummary(ui, s),
                               IF s.status = "CommandFailed" THEN "error" ELSE "data",
                               language, s.status)
    /\ UNCHANGED << world, language, load_generation >>

-----------------------------------------------------------------------------
(* The load threads *)

\* `dashboard-data latest`: RUN_NOT_FOUND is an empty state, not a failure.
Latest(i) ==
    /\ Running(i, "latest")
    /\ Goto(i, "list", IF pointed = 0 THEN NoRuns
                       ELSE [Mock EXCEPT !.status = "Loaded",
                                         !.run = [from |-> "bridge", run |-> pointed]])

\* `dashboard-data list`, for the history of a Latest load or for RunList.
List(i) ==
    /\ Running(i, "list")
    /\ LET newest == [from |-> "bridge", run |-> begun] IN
       IF loads[i].kind = "Latest"
       THEN Goto(i, "policy", [loads[i].summary EXCEPT !.history = newest])
       ELSE Goto(i, "posted", IF begun = 0 THEN NoRuns
                              ELSE [Mock EXCEPT !.status = "Loaded",
                                                !.run = newest, !.history = newest])

\* `dashboard-data policy`, for a Latest load or for Policy.
Policy(i) ==
    /\ Running(i, "policy")
    /\ Goto(i, "posted", IF loads[i].kind = "Latest"
                         THEN [loads[i].summary EXCEPT !.policy = "bridge"]
                         ELSE [Mock EXCEPT !.status = "Loaded", !.policy = "bridge"])

\* read_demo_fixture_bundle and parse_demo_fixture_summary.
Demo(i) ==
    /\ Running(i, "demo")
    /\ Goto(i, "posted", [Blank("demo", "DemoFixture") EXCEPT !.policy = "demo"])

\* A command that does not start, fails or prints what cannot be parsed: a Latest
\* load that has its run keeps it, the others start from a blank summary.
FailLoad(i) ==
    /\ loads[i].stage \in {"latest", "list", "policy", "demo"}
    /\ Goto(i, "posted", IF loads[i].kind = "Latest" /\ ~ Running(i, "latest")
                         THEN [loads[i].summary EXCEPT !.status = "CommandFailed"] ELSE Failed)

-----------------------------------------------------------------------------
Next ==
    \/ BeginRun \/ MovePointer
    \/ \E kind \in Kinds : StartLoad(kind)
    \/ \E lang \in Languages : Toggle(lang)
    \/ \E i \in 1 .. MaxLoads :
          Apply(i) \/ Latest(i) \/ List(i) \/ Policy(i) \/ Demo(i) \/ FailLoad(i)

Spec == Init /\ [][Next]_vars

\* The commands end (they only read files; the code sets no limit) and the event
\* loop gets round to what is posted to it.
Fairness ==
    \A i \in 1 .. MaxLoads :
        /\ WF_vars(Apply(i))
        /\ WF_vars(Latest(i) \/ List(i) \/ Policy(i) \/ Demo(i) \/ FailLoad(i))

FairSpec == Spec /\ Fairness

-----------------------------------------------------------------------------
(* Properties *)

Pending(i) == loads[i].stage \notin {"none", "over"}

\* While the window says it is loading there is exactly one load that it is
\* waiting for, the newest, and otherwise there is none: no button is dead for
\* nothing and no answer comes to a window that shows another one
\* (main.rs:448-475, app.slint:433-463).
LoadingMeansOneLoad ==
    /\ \A i \in 1 .. MaxLoads : Pending(i) => i = load_generation
    /\ ui.state = "loading" <=> Pending(load_generation)

\* The labels, the state line and the bridge line are in one language, the one chosen
\* last, although a load began under the other (main.rs:479, 536-548).  (Texts that
\* come from the commands, as that of an error, are not translated.)
OneLanguage == {ui.labels, ui.bridge.lang, ui.message.lang} = {language}

\* The state line, the bridge status and the error agree.
StatusAgrees ==
    ui.state # "loading" =>
        /\ ui.bridge.says = bridge_status
        /\ ui.state = "error" <=> bridge_status = "CommandFailed"

\* What the window says is of one piece, whatever order loads, answers and language
\* switches come in: types, language and status (main.rs:484-507, 536-548).
WindowConsistent == TypeOK /\ OneLanguage /\ StatusAgrees

\* The demo banner is shown exactly when the run on screen is the fixture's:
\* loading the policy after the demo leaves both as they are (main.rs:151-181).
BannerTruthful == ui.demo <=> ui.run.from = "demo"

\* The run on screen is among the runs of the history on screen, although three
\* commands at different moments supplied them (main.rs:326-345, 404-411).
RunInHistory ==
    ui.run.from = "bridge" /\ ui.history.from = "bridge" => ui.run.run <= ui.history.run

\* A load comes to an end and the buttons work again, also when a command fails.
LoadingEnds == ui.state = "loading" ~> ui.state # "loading"
=============================================================================
