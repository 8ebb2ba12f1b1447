------------------------------ MODULE Desktop ------------------------------
(***************************************************************************)
(* The Electron client: the workspace the window shows, the workspace the  *)
(* main process works in, and the data on the page.                        *)
(*   main      electron/src/workspace.ts, over PythonRunner;               *)
(*   renderer  WorkspaceContext.tsx, useAsync.ts, AppShell.tsx and the     *)
(*             pages, each of which asks for its data when it is mounted   *)
(*             and when the revision changes.                              *)
(* Calls and replies of one window are delivered in the order in which     *)
(* they are made; the answers to requests for data are made in any order,  *)
(* because each is a Python process of its own.                            *)
(***************************************************************************)
EXTENDS PythonRunner, Sequences, FiniteSets

CONSTANTS
    MaxReloads,     \* bound: reloads of the window in a behaviour
    Unsteady        \* bound: the paths that may appear and disappear

ASSUME ConstantsAssumption == MaxReloads \in Nat /\ Unsteady \subseteq Paths

VARIABLES
    dirs,       \* the paths that are accessible directories
    saved,      \* settings.json
    calls,      \* workspace calls on their way to main: [op, win]
    dialogs,    \* windows whose directory dialog is open
    replies,    \* on their way to the renderer: of workspace calls and of requests
    ui,         \* WorkspaceContext: [win, path, valid, status, busy, previous]
    page,       \* the mounted page: [at, mount, data, from]
    count,      \* requests made so far
    orphaned    \* history: main did what a window asked for that is gone

mainVars == << dirs, saved, root >>
vars == << mainVars, calls, dialogs, replies, ui, page, requests, count, orphaned >>

Blank == [win |-> 0, path |-> None, valid |-> FALSE, status |-> "loading",
          busy |-> FALSE, previous |-> None]

\* No page is mounted while the prompt is shown: mount 0.
NoPage == [at |-> "home", mount |-> 0, data |-> "none", from |-> 0]

Reply == [op : {"get", "select", "clear", "data"}, to : 0 .. MaxReloads + MaxRequests,
          ok : BOOLEAN, path : Paths \cup {None, Fallback}, valid : BOOLEAN]

TypeOK ==
    /\ dirs \subseteq Paths
    /\ saved \in Paths \cup {None}
    /\ RequestsOK
    /\ calls \in Seq([op : {"get", "select", "clear"}, win : 0 .. MaxReloads])
    /\ dialogs \subseteq 0 .. MaxReloads
    /\ replies \in Seq(Reply)
    /\ ui \in [win : 0 .. MaxReloads, path : Paths \cup {None}, valid : BOOLEAN,
               status : {"loading", "ready", "error"}, busy : BOOLEAN,
               previous : Paths \cup {None}]
    /\ page \in [at : {"home", "other"}, mount : 0 .. MaxRequests,
                 data : {"none", "error", Fallback} \cup Paths, from : 0 .. MaxRequests]
    /\ count \in 0 .. MaxRequests
    /\ orphaned \in BOOLEAN
    /\ page.mount # 0 <=> ui.valid       \* AppShell shows a page or the prompt

\* The application starts with what an earlier one saved, if it can be read: the
\* constructor of WorkspaceController.
Init ==
    /\ dirs \in {Paths \ gone : gone \in SUBSET Unsteady}
    /\ saved \in Paths \cup {None}
    /\ root \in (IF saved \in dirs THEN {saved, Fallback} ELSE {Fallback})
    /\ calls = << [op |-> "get", win |-> 0] >>
    /\ dialogs = {}
    /\ replies = << >>
    /\ ui = Blank
    /\ page = NoPage
    /\ requests = [n \in 1 .. MaxRequests |-> Unasked]
    /\ count = 0
    /\ orphaned = FALSE

-----------------------------------------------------------------------------
(* Requests for data (useAsync) *)

\* The bound leaves room for the request each workspace call may lead to.
Room == count + Len(calls) + Cardinality(dialogs)
          + Len(SelectSeq(replies, LAMBDA r : r.op # "data")) < MaxRequests

\* execute() of a page: a new one, or the one that is mounted.
Mount(at) ==
    /\ count < MaxRequests
    /\ count' = count + 1
    /\ page' = [at |-> at, mount |-> count', data |-> "none", from |-> 0]
    /\ requests' = [requests EXCEPT ![count'] = Asked(count')]

\* A faulty variant: the page is not asked to load again when the workspace changes.
KeepPage == UNCHANGED << page, requests, count >>

Again ==
    /\ count < MaxRequests
    /\ count' = count + 1
    /\ page' = [page EXCEPT !.data = "none", !.from = 0]
    /\ requests' = [requests EXCEPT ![count'] = Asked(page.mount)]

Unmount(at) == page' = [NoPage EXCEPT !.at = at] /\ UNCHANGED << requests, count >>

\* The last request of the mounted page.
Newest == CHOOSE n \in 1 .. count :
             /\ requests[n].mount = page.mount
             /\ \A m \in (n + 1) .. count : requests[m].mount # page.mount

\* A reply to call op of window win, or the answer to request win.
Answer(op, win, ok, path) ==
    [op |-> op, to |-> win, ok |-> ok, path |-> path, valid |-> path \in dirs]

-----------------------------------------------------------------------------
(* Faulty variants of steps below, used by no specification: each shows     *)
(* which property such a bug would break.                                   *)

\* The main process saves the choice but goes on in the old root.
SaveOnly(w, p) ==
    /\ dialogs' = dialogs \ {w}
    /\ saved' = p
    /\ replies' = Append(replies, Answer("select", w, TRUE, p))
    /\ orphaned' = (orphaned \/ w # ui.win)
    /\ UNCHANGED << dirs, root, calls, ui, page, requests, count >>

-----------------------------------------------------------------------------
(* The main process *)

\* getWorkspace reads the settings; an accessible workspace becomes the root.  If
\* they cannot be read there is none, and the root stays.
GetWorkspace(op, w) ==
    /\ \E read \in {saved, None} :
          /\ root' = IF read \in dirs THEN read ELSE root
          /\ replies' = Append(replies, Answer(op, w, TRUE, read))
    /\ UNCHANGED << dirs, saved, orphaned >>

Handle(op, w) ==
    /\ calls # << >> /\ Head(calls) = [op |-> op, win |-> w]
    /\ calls' = Tail(calls)
    /\ UNCHANGED << ui, page, requests, count >>

HandleGet(w) == Handle("get", w) /\ GetWorkspace("get", w) /\ UNCHANGED dialogs

\* selectWorkspace opens the dialog and waits.
HandleSelect(w) ==
    /\ Handle("select", w)
    /\ dialogs' = dialogs \cup {w}
    /\ UNCHANGED << mainVars, replies, orphaned >>

\* clearWorkspace; the file may fail to be removed.
HandleClear(w) ==
    /\ Handle("clear", w)
    /\ \/ /\ saved' = None /\ root' = Fallback
          /\ replies' = Append(replies, Answer("clear", w, TRUE, None))
          /\ orphaned' = (orphaned \/ w # ui.win)
       \/ /\ replies' = Append(replies, Answer("clear", w, FALSE, None))
          /\ UNCHANGED << saved, root, orphaned >>
    /\ UNCHANGED << dirs, dialogs >>

\* The dialog is cancelled.
Cancel(w) ==
    /\ dialogs' = dialogs \ {w}
    /\ GetWorkspace("select", w)
    /\ UNCHANGED << calls, ui, page, requests, count >>

\* A directory is chosen: saved, and then the root of the runner.
Choose(w, p) ==
    /\ dialogs' = dialogs \ {w}
    /\ saved' = p /\ root' = p
    /\ replies' = Append(replies, Answer("select", w, TRUE, p))
    /\ orphaned' = (orphaned \/ w # ui.win)
    /\ UNCHANGED << dirs, calls, ui, page, requests, count >>

\* It cannot be accessed, or the settings cannot be written.
Refuse(w) ==
    /\ dialogs' = dialogs \ {w}
    /\ replies' = Append(replies, Answer("select", w, FALSE, None))
    /\ UNCHANGED << mainVars, calls, ui, page, requests, count, orphaned >>

CloseDialog(w) ==
    /\ w \in dialogs
    /\ Cancel(w) \/ Refuse(w) \/ \E p \in dirs : Choose(w, p)

\* What goes on in the runner is answered when the promise is settled.
Search(n) ==
    /\ FindPython(n) \/ TryNext(n)
    /\ UNCHANGED << dirs, saved, calls, dialogs, replies, ui, page, count, orphaned >>

TimerFires(n) ==
    /\ Timeout(n)
    /\ UNCHANGED << dirs, saved, calls, dialogs, replies, ui, page, count, orphaned >>

AnswerRequest(n) ==
    /\ \/ Respond(n) /\ replies' = Append(replies, Answer("data", n, TRUE, requests[n].root))
       \/ FailRequest(n) /\ replies' = Append(replies, Answer("data", n, FALSE, None))
    /\ UNCHANGED << dirs, saved, calls, dialogs, ui, page, count, orphaned >>

-----------------------------------------------------------------------------
(* The renderer *)

Call(op) == calls' = Append(calls, [op |-> op, win |-> ui.win])

\* The select button; the context remembers the path it showed.
ClickSelect ==
    /\ ~ ui.busy /\ Room
    /\ ui' = [ui EXCEPT !.busy = TRUE, !.previous = ui.path]
    /\ Call("select")
    /\ UNCHANGED << mainVars, dialogs, replies, page, requests, count, orphaned >>

ClickClear ==
    /\ ~ ui.busy /\ ui.path # None
    /\ ui' = [ui EXCEPT !.busy = TRUE]
    /\ Call("clear")
    /\ UNCHANGED << mainVars, dialogs, replies, page, requests, count, orphaned >>

\* The retry button of the prompt: reloadWorkspace.
Retry ==
    /\ ~ ui.valid /\ ui.status = "error" /\ Room
    /\ ui' = [ui EXCEPT !.status = "loading"]
    /\ Call("get")
    /\ UNCHANGED << mainVars, dialogs, replies, page, requests, count, orphaned >>

\* The retry button of a page, and going to another page.
Refetch ==
    /\ page.mount # 0 /\ page.data = "error" /\ Room
    /\ Again
    /\ UNCHANGED << mainVars, calls, dialogs, replies, ui, orphaned >>

Navigate ==
    /\ page.mount # 0 /\ Room
    /\ Mount(IF page.at = "home" THEN "other" ELSE "home")
    /\ UNCHANGED << mainVars, calls, dialogs, replies, ui, orphaned >>

\* The window is reloaded: a new renderer, which asks for the workspace.
Reload ==
    /\ ui.win < MaxReloads /\ Room
    /\ ui' = [Blank EXCEPT !.win = ui.win + 1]
    /\ calls' = Append(calls, [op |-> "get", win |-> ui.win + 1])
    /\ page' = NoPage
    /\ UNCHANGED << mainVars, dialogs, replies, requests, count, orphaned >>

\* What the page does when the workspace shown becomes the one of reply r.  A switch
\* is a new revision, with which the home page loads again and another page makes
\* way for it; so does clearing.  Only the prompt's button stays on the page.
ShowPage(r) ==
    LET switched == r.op = "select" /\ r.path # ui.previous IN
    IF ~ r.valid THEN Unmount(IF r.op = "clear" THEN "home" ELSE page.at)
    ELSE IF ~ ui.valid THEN \E at \in {page.at} \cup (IF switched THEN {"home"} ELSE {}) : Mount(at)
    ELSE IF ~ switched THEN UNCHANGED << page, requests, count >>
    ELSE IF page.at = "home" THEN Again ELSE Mount("home")

NextReply == replies # << >> /\ replies' = Tail(replies)

\* The reply to a workspace call.
Deliver ==
    LET r == Head(replies) IN
    /\ NextReply /\ r.op # "data"
    /\ IF r.to # ui.win THEN UNCHANGED << ui, page, requests, count >>
       ELSE IF ~ r.ok
       THEN /\ ui' = [ui EXCEPT !.status = "error", !.busy = FALSE]
            /\ UNCHANGED << page, requests, count >>
       ELSE /\ ui' = [ui EXCEPT !.path = r.path, !.valid = r.valid, !.status = "ready",
                                !.busy = IF r.op = "get" THEN @ ELSE FALSE]
            /\ ShowPage(r)
    /\ UNCHANGED << mainVars, calls, dialogs, orphaned >>

\* The answer to a request: shown if the page that made it is still mounted, be
\* it the page's last request or not (mountedRef).
DeliverData ==
    LET r == Head(replies) IN
    /\ NextReply /\ r.op = "data"
    /\ page' = IF requests[r.to].mount # page.mount THEN page
               ELSE [page EXCEPT !.data = IF r.ok THEN r.path ELSE "error", !.from = r.to]
    /\ UNCHANGED << mainVars, calls, dialogs, ui, requests, count, orphaned >>

-----------------------------------------------------------------------------
\* A directory appears, disappears or becomes inaccessible.
ChangeDirs ==
    /\ \E p \in Unsteady : dirs' = IF p \in dirs THEN dirs \ {p} ELSE dirs \cup {p}
    /\ UNCHANGED << saved, root, calls, dialogs, replies, ui, page, requests, count, orphaned >>

Main(w) == HandleGet(w) \/ HandleSelect(w) \/ HandleClear(w)

Runner(n) == Search(n) \/ TimerFires(n) \/ AnswerRequest(n)

Next ==
    \/ \E w \in 0 .. MaxReloads : Main(w) \/ CloseDialog(w)
    \/ \E n \in 1 .. MaxRequests : Runner(n)
    \/ ClickSelect \/ ClickClear \/ Retry \/ Refetch \/ Navigate \/ Reload
    \/ Deliver \/ DeliverData \/ ChangeDirs

Spec == Init /\ [][Next]_vars

\* Calls and replies are delivered, timers fire, and a child that was killed closes
\* unless its output is held open.  No command has to end by itself, and a dialog may
\* stay open for ever.  (Of the steps joined in one condition only one can be taken at a
\* time, those at the heads of the two queues and those of one child.)
Fairness ==
    /\ WF_vars(\E w \in 0 .. MaxReloads : Main(w))
    /\ \A n \in 1 .. MaxRequests :
          WF_vars(TimerFires(n) \/ (Runner(n) /\ requests[n].child = "killed"))
    /\ WF_vars(Deliver \/ DeliverData)

FairSpec == Spec /\ Fairness

-----------------------------------------------------------------------------
(* Properties *)

\* No reply to a workspace call is on its way, and no window that is gone had
\* main change the workspace since.
InStep == ~ orphaned /\ \A i \in 1 .. Len(replies) : replies[i].op = "data"

\* The valid workspace a window shows is the one commands run in and the one the
\* next start will show (workspace.ts:108-125, WorkspaceContext.tsx:56-94),
\* whatever dialogs, failures and retries there were.
ShownIsRoot ==
    /\ TypeOK
    /\ InStep /\ ui.valid => root = ui.path /\ saved = ui.path

\* The answer to the newest request of a page is from the workspace shown, although
\* the root may change between the request and the reading of it
\* (pythonRunner.ts:306-315, useAsync.ts:45-52).
NewestAnswerBelongs ==
    InStep /\ page.mount # 0 /\ page.from # 0 /\ page.from = Newest /\ page.data # "error"
        => page.data = ui.path

\* A page that is loading comes to show data or an error, unless it goes away, though
\* no command has to end and the promise is left to "close": what the timeout cannot
\* bound is only a killed command whose output another process holds open
\* (pythonRunner.ts:141-176, useAsync.ts:29-40).
PageLoads ==
    \A m \in 1 .. MaxRequests :
        (page.mount = m /\ page.data = "none")
          ~> \/ page.mount # m \/ page.data # "none"
             \/ \E n \in 1 .. MaxRequests : requests[n].mount = m /\ requests[n].child = "held"

\* docs/dashboard-design.md:296: "切换后各页面重新请求数据" (after a switch every page
\* requests its data again): when all is quiet a page shows data of the workspace
\* the window shows.
PageFollowsWorkspace ==
    /\ InStep /\ replies = << >> /\ \A n \in 1 .. count : requests[n].stage = "over"
    /\ page.mount # 0 /\ page.data # "error"
    => page.data = ui.path
=============================================================================
