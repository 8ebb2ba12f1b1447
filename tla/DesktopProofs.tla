---------------------------- MODULE DesktopProofs ----------------------------
(***************************************************************************)
(* Proofs about Desktop, for any paths, requests and reloads.              *)
(* While a reply is on its way the window and main may disagree, so IInv   *)
(* says what the replies will make of the window: WindowAgrees, that the   *)
(* last of them tells what is saved and where main works; PageAgrees, that *)
(* the page is right unless a reply that makes it load again is to come.   *)
(***************************************************************************)
EXTENDS Desktop, TLAPS

-----------------------------------------------------------------------------
(* What is still to come of a queue *)

\* No element of s behind place k is in E.
Free(s, k, E) == \A j \in (k + 1) .. Len(s) : s[j] \notin E

\* At most one element of s is in E.
Single(s, E) == \A i, j \in 1 .. Len(s) : s[i] \in E /\ s[j] \in E => i = j

\* The elements in M behind which none is in E have the path x.
Tells(s, M, E, x) == \A i \in 1 .. Len(s) : s[i] \in M /\ Free(s, i, E) => s[i].path = x

LEMMA Appended ==
    ASSUME NEW S, NEW s \in Seq(S), NEW e \in S
    PROVE  /\ Append(s, e) \in Seq(S) /\ Len(s) \in Nat /\ Len(Append(s, e)) = Len(s) + 1
           /\ \A i \in 1 .. Len(s) : Append(s, e)[i] = s[i]
           /\ Append(s, e)[Len(s) + 1] = e
           /\ Append(s, e) # << >>
OBVIOUS

LEMMA Removed ==
    ASSUME NEW S, NEW s \in Seq(S), s # << >>
    PROVE  /\ Tail(s) \in Seq(S) /\ Len(s) \in Nat \ {0} /\ Len(Tail(s)) = Len(s) - 1
           /\ \A i \in 1 .. Len(s) - 1 : Tail(s)[i] = s[i + 1]
           /\ Head(s) = s[1] /\ Head(s) \in S
OBVIOUS

LEMMA FreeAppend ==
    ASSUME NEW S, NEW s \in Seq(S), NEW e \in S, NEW E, NEW k \in 0 .. Len(s)
    PROVE  Free(Append(s, e), k, E) <=> Free(s, k, E) /\ e \notin E
<1> DEFINE t == Append(s, e)
<1>1. /\ Len(s) \in Nat /\ Len(t) = Len(s) + 1 /\ t[Len(s) + 1] = e
      /\ \A i \in 1 .. Len(s) : t[i] = s[i]
  BY Appended
<1>2. ASSUME NEW j \in (k + 1) .. Len(s)
      PROVE  t[j] = s[j] /\ j \in (k + 1) .. Len(s) + 1
  BY <1>1
<1>3. ASSUME NEW j \in (k + 1) .. Len(s) + 1, j # Len(s) + 1
      PROVE  j \in (k + 1) .. Len(s)
  BY <1>1, <1>3
<1>4. Len(s) + 1 \in (k + 1) .. Len(s) + 1
  BY <1>1
<1> HIDE DEF t
<1>5. QED
  BY <1>1, <1>2, <1>3, <1>4, Zenon DEF Free, t

LEMMA FreeTail ==
    ASSUME NEW S, NEW s \in Seq(S), s # << >>, NEW E
    PROVE  /\ \A k \in 0 .. Len(Tail(s)) : Free(Tail(s), k, E) <=> Free(s, k + 1, E)
           /\ Free(s, 0, E) <=> Head(s) \notin E /\ Free(Tail(s), 0, E)
<1> DEFINE t == Tail(s)
<1>1. /\ Len(s) \in Nat \ {0} /\ Len(t) = Len(s) - 1 /\ Head(s) = s[1]
      /\ \A i \in 1 .. Len(s) - 1 : t[i] = s[i + 1]
  BY Removed
<1> HIDE DEF t
<1>2. ASSUME NEW k \in 0 .. Len(t)
      PROVE  Free(t, k, E) <=> Free(s, k + 1, E)
  <2>1. ASSUME Free(t, k, E), NEW j \in (k + 2) .. Len(s)
        PROVE  s[j] \notin E
    <3>1. j - 1 \in (k + 1) .. Len(t) /\ j - 1 \in 1 .. Len(s) - 1 /\ (j - 1) + 1 = j
      BY <1>1
    <3>2. t[j - 1] \notin E
      BY <2>1, <3>1 DEF Free
    <3>3. t[j - 1] = s[j]
      BY <1>1, <3>1
    <3>4. QED
      BY <3>2, <3>3
  <2>2. ASSUME Free(s, k + 1, E), NEW j \in (k + 1) .. Len(t)
        PROVE  t[j] \notin E
    <3>1. j + 1 \in ((k + 1) + 1) .. Len(s) /\ j \in 1 .. Len(s) - 1
      BY <1>1
    <3>2. s[j + 1] \notin E
      BY <2>2, <3>1 DEF Free
    <3>3. QED
      BY <1>1, <3>1, <3>2
  <2>3. (k + 1) + 1 = k + 2
    BY <1>1
  <2>4. QED
    BY <2>1, <2>2, <2>3 DEF Free
<1>3. Free(s, 0, E) <=> s[1] \notin E /\ Free(s, 1, E)
  <2>1. /\ 1 \in 1 .. Len(s) /\ \A j \in 2 .. Len(s) : j \in 1 .. Len(s)
        /\ \A j \in 1 .. Len(s) : j = 1 \/ j \in 2 .. Len(s)
    BY <1>1
  <2>2. QED
    BY <2>1 DEF Free
<1>4. 0 \in 0 .. Len(t)
  BY <1>1
<1>5. QED
  BY <1>1, <1>2, <1>3, <1>4 DEF t

LEMMA SingleAppend ==
    ASSUME NEW S, NEW s \in Seq(S), NEW e \in S, NEW E, Single(s, E), Free(s, 0, E) \/ e \notin E
    PROVE  Single(Append(s, e), E)
<1> DEFINE t == Append(s, e)
<1>1. /\ Len(s) \in Nat /\ Len(t) = Len(s) + 1 /\ t[Len(s) + 1] = e
      /\ \A i \in 1 .. Len(s) : t[i] = s[i]
  BY Appended
<1> HIDE DEF t
<1>2. \A i \in 1 .. Len(t) : i \in 1 .. Len(s) \/ i = Len(s) + 1
  BY <1>1
<1>3. ASSUME NEW i \in 1 .. Len(s), t[i] \in E, e \in E
      PROVE  FALSE
  BY <1>1, <1>3 DEF Free
<1>4. ASSUME NEW i \in 1 .. Len(s), NEW j \in 1 .. Len(s), t[i] \in E, t[j] \in E
      PROVE  i = j
  BY <1>1, <1>4 DEF Single
<1>5. QED
  BY <1>1, <1>2, <1>3, <1>4 DEF Single, t

LEMMA SingleTail ==
    ASSUME NEW S, NEW s \in Seq(S), s # << >>, NEW E, Single(s, E)
    PROVE  Single(Tail(s), E) /\ (Head(s) \in E => Free(Tail(s), 0, E))
<1> DEFINE t == Tail(s)
<1>1. /\ Len(s) \in Nat \ {0} /\ Len(t) = Len(s) - 1 /\ Head(s) = s[1]
      /\ \A i \in 1 .. Len(s) - 1 : t[i] = s[i + 1]
  BY Removed
<1> HIDE DEF t
<1>2. ASSUME NEW i \in 1 .. Len(t)
      PROVE  i + 1 \in 1 .. Len(s) /\ t[i] = s[i + 1] /\ i + 1 # 1
  BY <1>1
<1>3. ASSUME NEW i \in 1 .. Len(t), NEW j \in 1 .. Len(t), t[i] \in E, t[j] \in E
      PROVE  i = j
  <2>1. i + 1 = j + 1
    BY <1>2, <1>3 DEF Single
  <2>2. QED
    BY <1>1, <2>1
<1>4. ASSUME s[1] \in E, NEW i \in 1 .. Len(t), t[i] \in E
      PROVE  FALSE
  <2>1. 1 \in 1 .. Len(s)
    BY <1>1
  <2>2. QED
    BY <1>2, <1>4, <2>1 DEF Single
<1>5. 0 + 1 = 1
  OBVIOUS
<1>6. QED
  BY <1>1, <1>3, <1>4, <1>5 DEF Single, Free, t

LEMMA TellsAppend ==
    ASSUME NEW S, NEW s \in Seq(S), NEW e \in S, NEW M, NEW E, NEW x,
           e \in M => e.path = x, e \in E \/ Tells(s, M, E, x)
    PROVE  Tells(Append(s, e), M, E, x)
<1> DEFINE t == Append(s, e)
<1>1. /\ Len(s) \in Nat /\ Len(t) = Len(s) + 1 /\ t[Len(s) + 1] = e
      /\ \A i \in 1 .. Len(s) : t[i] = s[i]
  BY Appended
<1>2. ASSUME NEW i \in 1 .. Len(s), Free(t, i, E)
      PROVE  Free(s, i, E) /\ e \notin E
  <2>1. i \in 0 .. Len(s)
    BY <1>1
  <2>2. QED
    BY <1>2, <2>1, FreeAppend
<1> HIDE DEF t
<1>3. \A i \in 1 .. Len(t) : i \in 1 .. Len(s) \/ i = Len(s) + 1
  BY <1>1
<1>4. ASSUME NEW i \in 1 .. Len(t), t[i] \in M, Free(t, i, E)
      PROVE  t[i].path = x
  <2>1. CASE i \in 1 .. Len(s)
    BY <1>1, <1>2, <1>4, <2>1 DEF Tells
  <2>2. CASE i = Len(s) + 1
    BY <1>1, <1>4, <2>2
  <2>3. QED
    BY <1>3, <2>1, <2>2
<1>5. QED
  BY <1>4 DEF Tells, t

LEMMA TellsTail ==
    ASSUME NEW S, NEW s \in Seq(S), s # << >>, NEW M, NEW E, NEW x, Tells(s, M, E, x)
    PROVE  /\ Tells(Tail(s), M, E, x)
           /\ Head(s) \in M /\ Free(Tail(s), 0, E) => Head(s).path = x
<1> DEFINE t == Tail(s)
<1>1. /\ Len(s) \in Nat \ {0} /\ Len(t) = Len(s) - 1 /\ Head(s) = s[1]
      /\ \A i \in 1 .. Len(s) - 1 : t[i] = s[i + 1]
  BY Removed
<1>2. \A k \in 0 .. Len(t) : Free(t, k, E) <=> Free(s, k + 1, E)
  BY FreeTail
<1> HIDE DEF t
<1>3. ASSUME NEW i \in 1 .. Len(t), t[i] \in M, Free(t, i, E)
      PROVE  t[i].path = x
  <2>1. i + 1 \in 1 .. Len(s) /\ t[i] = s[i + 1] /\ i \in 0 .. Len(t)
    BY <1>1
  <2>2. QED
    BY <1>2, <1>3, <2>1 DEF Tells
<1>4. ASSUME s[1] \in M, Free(t, 0, E)
      PROVE  s[1].path = x
  <2>1. 1 \in 1 .. Len(s) /\ 0 \in 0 .. Len(t) /\ 0 + 1 = 1
    BY <1>1
  <2>2. QED
    BY <1>2, <1>4, <2>1 DEF Tells
<1>5. QED
  BY <1>1, <1>3, <1>4 DEF Tells, t

\* A sequence in which what is in M2 is in M and what is in E is in E2.
LEMMA TellsLess ==
    ASSUME NEW s, NEW M, NEW E, NEW M2, NEW E2, NEW x, Tells(s, M, E, x), Len(s) \in Nat,
           \A i \in 1 .. Len(s) : (s[i] \in M2 => s[i] \in M) /\ (s[i] \in E => s[i] \in E2)
    PROVE  Tells(s, M2, E2, x)
<1>1. ASSUME NEW i \in 1 .. Len(s), s[i] \in M2, Free(s, i, E2)
      PROVE  s[i].path = x
  <2>1. \A j \in (i + 1) .. Len(s) : j \in 1 .. Len(s)
    OBVIOUS
  <2>2. Free(s, i, E)
    BY <1>1, <2>1 DEF Free
  <2>3. QED
    BY <1>1, <2>2 DEF Tells
<1>2. QED
  BY <1>1 DEF Tells

-----------------------------------------------------------------------------
(* The inductive invariant *)

WorkspaceCall == [op : {"get", "select", "clear"}, win : 0 .. MaxReloads]

\* What the buttons of the current window are waiting for, in main and from it.
MyCalls == {c \in WorkspaceCall : c.op \in {"select", "clear"} /\ c.win = ui.win}
MySelects == {c \in WorkspaceCall : c.op = "select" /\ c.win = ui.win}
MyReplies == {r \in Reply : r.op \in {"select", "clear"} /\ r.to = ui.win}

\* At most one button is waited for, and the window is busy meanwhile.
OneChoice ==
    /\ Single(calls, MyCalls) /\ Single(replies, MyReplies)
    /\ ~Free(calls, 0, MyCalls) =>
          ui.busy /\ ui.win \notin dialogs /\ Free(replies, 0, MyReplies)
    /\ ui.win \in dialogs => ui.busy /\ Free(replies, 0, MyReplies)
    /\ ~Free(replies, 0, MyReplies) => ui.busy

\* The replies and calls there can be: none is from a window still to come.
GoodReply ==
    {r \in Reply :
        /\ r.op # "data" => /\ r.to <= ui.win /\ r.path \in Paths \cup {None}
                            /\ r.valid => r.path \in Paths
        /\ r.op = "clear" => r.path = None
        /\ r.op = "get" => r.ok
        /\ r.op = "data" => r.to \in 1 .. count /\ (r.ok => r.path # None)}

QueuesOK ==
    /\ calls \in Seq({c \in WorkspaceCall : c.win <= ui.win})
    /\ dialogs \subseteq 0 .. ui.win
    /\ replies \in Seq(GoodReply)

\* The successful replies to the window; those that name a workspace, as one does not
\* that is cleared or whose settings could not be read; those of its buttons; those of a valid
\* workspace; and those with which the page loads again or goes away.
Mine == {r \in Reply : r.op # "data" /\ r.to = ui.win /\ r.ok}
Named == {r \in Mine : r.path # None}
MyChoices == {r \in Mine : r.op \in {"select", "clear"}}
MyValid == {r \in Mine : r.valid}
Resets == {r \in Mine : r.op = "clear" \/ ~r.valid \/ (r.op = "select" /\ r.path # ui.previous)}

WindowAgrees ==
    ~orphaned =>
        /\ Tells(replies, Named, MyChoices, saved)
        /\ Free(replies, 0, MyChoices) => ui.path \in {None, saved}
        /\ ui.win \in dialogs \/ ~Free(calls, 0, MySelects) => ui.previous \in {None, saved}
        /\ Tells(replies, MyValid, Resets, saved)
        /\ Tells(replies, MyValid, Resets, root)

RequestsAgree ==
    \A n \in 1 .. MaxRequests :
        /\ n > count => requests[n].stage = "new"
        /\ requests[n].stage = "run" /\ requests[n].child = "runs" => requests[n].root # None

\* n is the last request of the page.
IsNewest(n) ==
    /\ n \in 1 .. count
    /\ requests[n].mount = page.mount
    /\ \A m \in (n + 1) .. count : requests[m].mount # page.mount

AnswersTo(n) == {r \in Reply : r.op = "data" /\ r.to = n /\ r.ok}

\* Wherever the answer to request n has got to, it is of the directory.
AnswersFrom(n, path) ==
    /\ requests[n].stage = "run" /\ requests[n].child = "runs" => requests[n].root = path
    /\ Tells(replies, AnswersTo(n), {}, path)
    /\ page.from = n /\ page.data # "error" => page.data = path

PageAgrees ==
    /\ page.mount # 0 => \E n \in 1 .. count : IsNewest(n)
    /\ ~orphaned /\ page.mount # 0 /\ Free(replies, 0, Resets) =>
          /\ root = ui.path /\ saved = ui.path
          /\ \A n \in 1 .. count : IsNewest(n) => AnswersFrom(n, ui.path)

IInv ==
    /\ TypeOK
    /\ QueuesOK
    /\ OneChoice
    /\ WindowAgrees
    /\ RequestsAgree
    /\ PageAgrees

-----------------------------------------------------------------------------
(* Steps of main *)

LEMMA Static ==
    /\ None \notin Paths /\ Fallback \notin Paths /\ None # Fallback
    /\ MaxRequests \in Nat /\ MaxReloads \in Nat /\ Candidates \in Nat \ {0}
BY RunnerAssumption, ConstantsAssumption

LEMMA InitKeeps == Init => IInv
<1> SUFFICES ASSUME Init
             PROVE  IInv
  OBVIOUS
<1> USE Static DEF Init
<1>1. /\ ui = Blank /\ page = NoPage /\ replies = << >> /\ dialogs = {} /\ count = 0
      /\ calls = << [op |-> "get", win |-> 0] >> /\ orphaned = FALSE
      /\ requests = [n \in 1 .. MaxRequests |-> Unasked]
      /\ 0 \in 0 .. MaxReloads /\ 0 \in 0 .. MaxRequests /\ 0 \in 0 .. Candidates
  OBVIOUS
<1>2. dirs \subseteq Paths /\ saved \in Paths \cup {None} /\ root \in Paths \cup {Fallback}
  OBVIOUS
<1>3. RequestsOK
  BY <1>1, <1>2 DEF RequestsOK, Unasked
<1>4. TypeOK
  <2>1. calls \in Seq([op : {"get", "select", "clear"}, win : 0 .. MaxReloads]) /\ replies \in Seq(Reply)
    BY <1>1
  <2>2. ui \in [win : 0 .. MaxReloads, path : Paths \cup {None}, valid : BOOLEAN,
               status : {"loading", "ready", "error"}, busy : BOOLEAN,
               previous : Paths \cup {None}]
    BY <1>1 DEF Blank
  <2>3. page \in [at : {"home", "other"}, mount : 0 .. MaxRequests,
                 data : {"none", "error", Fallback} \cup Paths, from : 0 .. MaxRequests]
    BY <1>1 DEF NoPage
  <2>4. page.mount # 0 <=> ui.valid
    BY <1>1 DEF NoPage, Blank
  <2>5. QED
    BY <1>1, <1>2, <1>3, <2>1, <2>2, <2>3, <2>4 DEF TypeOK
<1>5. QueuesOK
  BY <1>1 DEF QueuesOK, Blank, WorkspaceCall
<1>6. Len(calls) = 1 /\ calls[1].op = "get" /\ Len(replies) = 0
  BY <1>1
<1>7. \A E : Free(replies, 0, E) /\ Single(replies, E)
  BY <1>6 DEF Free, Single
<1>8. Free(calls, 0, MyCalls) /\ Single(calls, MyCalls) /\ Free(calls, 0, MySelects)
  BY <1>6 DEF Free, Single, MyCalls, MySelects
<1>9. OneChoice
  BY <1>1, <1>7, <1>8 DEF OneChoice
<1>10. WindowAgrees
  <2>1. \A M, E, x : Tells(replies, M, E, x)
    BY <1>6 DEF Tells
  <2>2. ui.path = None
    BY <1>1 DEF Blank
  <2>3. QED
    BY <1>1, <1>8, <2>1, <2>2 DEF WindowAgrees
<1>11. RequestsAgree
  BY <1>1 DEF RequestsAgree, Unasked
<1>12. PageAgrees
  BY <1>1 DEF PageAgrees, NoPage
<1>13. QED
  BY <1>4, <1>5, <1>9, <1>10, <1>11, <1>12 DEF IInv

\* What it does to the queues to take a call and to send a reply.
LEMMA CallTaken ==
    ASSUME QueuesOK, calls # << >>
    PROVE  /\ Tail(calls) \in Seq({c \in WorkspaceCall : c.win <= ui.win})
           /\ Head(calls) \in WorkspaceCall /\ Head(calls).win <= ui.win
           /\ \A E : Free(calls, 0, E) <=> Head(calls) \notin E /\ Free(Tail(calls), 0, E)
           /\ \A E : Single(calls, E) =>
                 Single(Tail(calls), E) /\ (Head(calls) \in E => Free(Tail(calls), 0, E))
<1> DEFINE S == {c \in WorkspaceCall : c.win <= ui.win}
<1>1. calls \in Seq(S)
  BY DEF QueuesOK
<1>2. ASSUME NEW R, NEW s \in Seq(R), s # << >>
      PROVE  /\ Tail(s) \in Seq(R) /\ Head(s) \in R
             /\ \A E : Free(s, 0, E) <=> Head(s) \notin E /\ Free(Tail(s), 0, E)
             /\ \A E : Single(s, E) =>
                   Single(Tail(s), E) /\ (Head(s) \in E => Free(Tail(s), 0, E))
  <2>1. Tail(s) \in Seq(R) /\ Head(s) \in R
    BY <1>2, Removed
  <2>2. ASSUME NEW E
        PROVE  Free(s, 0, E) <=> Head(s) \notin E /\ Free(Tail(s), 0, E)
    BY <1>2, FreeTail
  <2>3. ASSUME NEW E, Single(s, E)
        PROVE  Single(Tail(s), E) /\ (Head(s) \in E => Free(Tail(s), 0, E))
    BY <1>2, <2>3, SingleTail
  <2>4. QED
    BY <2>1, <2>2, <2>3
<1> HIDE DEF S
<1>3. /\ Tail(calls) \in Seq(S) /\ Head(calls) \in S
      /\ \A E : Free(calls, 0, E) <=> Head(calls) \notin E /\ Free(Tail(calls), 0, E)
      /\ \A E : Single(calls, E) =>
            Single(Tail(calls), E) /\ (Head(calls) \in E => Free(Tail(calls), 0, E))
  BY <1>1, <1>2
<1>4. QED
  BY <1>3 DEF S

LEMMA ReplySent ==
    ASSUME QueuesOK, NEW e \in GoodReply
    PROVE  /\ Append(replies, e) \in Seq(GoodReply)
           /\ \A E : Free(Append(replies, e), 0, E) <=> Free(replies, 0, E) /\ e \notin E
           /\ \A E : Single(replies, E) /\ (Free(replies, 0, E) \/ e \notin E) =>
                 Single(Append(replies, e), E)
           /\ \A M, E, x : (e \in M => e.path = x) /\ (e \in E \/ Tells(replies, M, E, x)) =>
                 Tells(Append(replies, e), M, E, x)
<1>1. replies \in Seq(GoodReply)
  BY DEF QueuesOK
<1>2. ASSUME NEW S, NEW s \in Seq(S), NEW r \in S
      PROVE  /\ Append(s, r) \in Seq(S)
             /\ \A E : Free(Append(s, r), 0, E) <=> Free(s, 0, E) /\ r \notin E
             /\ \A E : Single(s, E) /\ (Free(s, 0, E) \/ r \notin E) => Single(Append(s, r), E)
             /\ \A M, E, x : (r \in M => r.path = x) /\ (r \in E \/ Tells(s, M, E, x)) =>
                   Tells(Append(s, r), M, E, x)
  <2>1. Append(s, r) \in Seq(S) /\ Len(s) \in Nat
    BY <1>2, Appended
  <2>2. ASSUME NEW E
        PROVE  Free(Append(s, r), 0, E) <=> Free(s, 0, E) /\ r \notin E
    <3>1. 0 \in 0 .. Len(s)
      BY <2>1
    <3>2. QED
      BY <1>2, <3>1, FreeAppend
  <2>3. ASSUME NEW E, Single(s, E), Free(s, 0, E) \/ r \notin E
        PROVE  Single(Append(s, r), E)
    BY <1>2, <2>3, SingleAppend
  <2>4. ASSUME NEW M, NEW E, NEW x, r \in M => r.path = x, r \in E \/ Tells(s, M, E, x)
        PROVE  Tells(Append(s, r), M, E, x)
    BY <1>2, <2>4, TellsAppend
  <2>5. QED
    BY <2>1, <2>2, <2>3, <2>4
<1>3. QED
  BY <1>1, <1>2

LEMMA ReplyTaken ==
    ASSUME QueuesOK, replies # << >>
    PROVE  /\ Tail(replies) \in Seq(GoodReply) /\ Head(replies) \in GoodReply
           /\ \A E : Free(replies, 0, E) <=> Head(replies) \notin E /\ Free(Tail(replies), 0, E)
           /\ \A E : Single(replies, E) =>
                 Single(Tail(replies), E) /\ (Head(replies) \in E => Free(Tail(replies), 0, E))
           /\ \A M, E, x : Tells(replies, M, E, x) =>
                 /\ Tells(Tail(replies), M, E, x)
                 /\ Head(replies) \in M /\ Free(Tail(replies), 0, E) => Head(replies).path = x
<1>1. replies \in Seq(GoodReply)
  BY DEF QueuesOK
<1>2. ASSUME NEW S, NEW s \in Seq(S), s # << >>
      PROVE  /\ Tail(s) \in Seq(S) /\ Head(s) \in S
             /\ \A E : Free(s, 0, E) <=> Head(s) \notin E /\ Free(Tail(s), 0, E)
             /\ \A E : Single(s, E) =>
                   Single(Tail(s), E) /\ (Head(s) \in E => Free(Tail(s), 0, E))
             /\ \A M, E, x : Tells(s, M, E, x) =>
                   /\ Tells(Tail(s), M, E, x)
                   /\ Head(s) \in M /\ Free(Tail(s), 0, E) => Head(s).path = x
  <2>1. Tail(s) \in Seq(S) /\ Head(s) \in S
    BY <1>2, Removed
  <2>2. ASSUME NEW E
        PROVE  Free(s, 0, E) <=> Head(s) \notin E /\ Free(Tail(s), 0, E)
    BY <1>2, FreeTail
  <2>3. ASSUME NEW E, Single(s, E)
        PROVE  Single(Tail(s), E) /\ (Head(s) \in E => Free(Tail(s), 0, E))
    BY <1>2, <2>3, SingleTail
  <2>4. ASSUME NEW M, NEW E, NEW x, Tells(s, M, E, x)
        PROVE  /\ Tells(Tail(s), M, E, x)
               /\ Head(s) \in M /\ Free(Tail(s), 0, E) => Head(s).path = x
    BY <1>2, <2>4, TellsTail
  <2>5. QED
    BY <2>1, <2>2, <2>3, <2>4
<1>3. QED
  BY <1>1, <1>2

LEMMA Widened ==
    ASSUME NEW S, NEW T, S \subseteq T, NEW s \in Seq(S)
    PROVE  s \in Seq(T)
<1>1. Len(s) \in Nat /\ s = [i \in 1 .. Len(s) |-> s[i]] /\ \A i \in 1 .. Len(s) : s[i] \in T
  OBVIOUS
<1>2. s \in [1 .. Len(s) -> T]
  BY <1>1
<1>3. QED
  BY <1>1, <1>2

\* The sets that the invariant is about are those of the window and its button.
LEMMA SetsStay ==
    ASSUME ui'.win = ui.win
    PROVE  /\ MyCalls' = MyCalls /\ MySelects' = MySelects /\ MyReplies' = MyReplies
           /\ Mine' = Mine /\ Named' = Named /\ MyChoices' = MyChoices /\ MyValid' = MyValid
           /\ ui'.previous = ui.previous => Resets' = Resets
           /\ count' = count => GoodReply' = GoodReply
BY DEF MyCalls, MySelects, MyReplies, Mine, Named, MyChoices, MyValid, Resets, GoodReply

\* A reply to call op of window w: it succeeded, or it failed.
Granted(e, op, w, path) ==
    /\ e \in Reply /\ e.op = op /\ e.to = w /\ e.ok
    /\ e.path = path /\ (e.valid <=> path \in dirs)

Failed(e, op, w) == e \in Reply /\ e.op = op /\ e.to = w /\ ~e.ok /\ e.path = None /\ ~e.valid

LEMMA AnswerGranted ==
    ASSUME IInv, NEW op \in {"get", "select", "clear"}, NEW w \in 0 .. ui.win,
           NEW path \in Paths \cup {None}
    PROVE  Granted(Answer(op, w, TRUE, path), op, w, path)
<1>1. w \in 0 .. MaxReloads + MaxRequests
  BY Static DEF IInv, TypeOK
<1> DEFINE e == Answer(op, w, TRUE, path)
<1>2. /\ e.op = op /\ e.to = w /\ e.ok = TRUE /\ e.path = path /\ e.valid = (path \in dirs)
      /\ e = [op |-> op, to |-> w, ok |-> TRUE, path |-> path, valid |-> path \in dirs]
  BY DEF Answer
<1> HIDE DEF e
<1>3. e \in Reply
  BY <1>1, <1>2 DEF Reply
<1>4. Granted(e, op, w, path)
  BY <1>1, <1>2, <1>3 DEF Granted
<1>5. QED
  BY <1>4, Zenon DEF e

LEMMA AnswerFailed ==
    ASSUME IInv, NEW op \in {"select", "clear"}, NEW w \in 0 .. ui.win
    PROVE  Failed(Answer(op, w, FALSE, None), op, w)
<1>1. w \in 0 .. MaxReloads + MaxRequests /\ None \notin dirs
  BY Static DEF IInv, TypeOK
<1> DEFINE e == Answer(op, w, FALSE, None)
<1>2. /\ e.op = op /\ e.to = w /\ e.ok = FALSE /\ e.path = None /\ e.valid = (None \in dirs)
      /\ e = [op |-> op, to |-> w, ok |-> FALSE, path |-> None, valid |-> None \in dirs]
  BY DEF Answer
<1> HIDE DEF e
<1>3. e \in Reply
  BY <1>1, <1>2 DEF Reply
<1>4. Failed(e, op, w)
  BY <1>1, <1>2, <1>3 DEF Failed
<1>5. QED
  BY <1>4, Zenon DEF e

LEMMA GrantedKinds ==
    ASSUME IInv, NEW op \in {"get", "select", "clear"}, NEW w \in 0 .. ui.win,
           NEW path \in Paths \cup {None}, op = "clear" => path = None,
           NEW e, Granted(e, op, w, path)
    PROVE  /\ e \in GoodReply /\ e.path = path
           /\ e \in MyReplies <=> op # "get" /\ w = ui.win
           /\ e \in MyChoices <=> op # "get" /\ w = ui.win
           /\ e \in MyValid <=> w = ui.win /\ path \in dirs
           /\ e \in Resets <=>
                 /\ w = ui.win
                 /\ op = "clear" \/ path \notin dirs \/ (op = "select" /\ path # ui.previous)
           /\ \A n : e \notin AnswersTo(n)
<1>1. dirs \subseteq Paths /\ w <= ui.win
  BY DEF IInv, TypeOK
<1>2. e \in GoodReply
  BY <1>1 DEF GoodReply, Granted
<1>3. QED
  BY <1>2 DEF MyReplies, Mine, Named, MyChoices, MyValid, Resets, AnswersTo, Granted

LEMMA FailedKinds ==
    ASSUME IInv, NEW op \in {"select", "clear"}, NEW w \in 0 .. ui.win, NEW e, Failed(e, op, w)
    PROVE  /\ e \in GoodReply /\ e \notin Mine
           /\ e \in MyReplies <=> w = ui.win
           /\ \A n : e \notin AnswersTo(n)
BY Static DEF MyReplies, Mine, AnswersTo, Failed, GoodReply

\* The page, and what its requests have got to, while main or a button changes
\* something: the rest must not be disturbed where no reply resets the page.
LEMMA PageStays ==
    ASSUME IInv, page' = page, count' = count, requests' = requests, ui'.path = ui.path,
           \/ replies' = replies
           \/ \E e \in GoodReply :
                 /\ replies' = Append(replies, e)
                 /\ \A n : e \notin AnswersTo(n),
           page.mount # 0 /\ ~orphaned' /\ Free(replies', 0, Resets') =>
              ~orphaned /\ Free(replies, 0, Resets) /\ root' = ui.path /\ saved' = ui.path
    PROVE  PageAgrees'
<1>1. ASSUME NEW n, NEW path, Tells(replies, AnswersTo(n), {}, path)
      PROVE  Tells(replies', AnswersTo(n), {}, path)
  <2>1. QueuesOK
    BY DEF IInv
  <2>2. CASE \E e \in GoodReply :
                 /\ replies' = Append(replies, e)
                 /\ \A m : e \notin AnswersTo(m)
    <3>1. PICK e \in GoodReply : replies' = Append(replies, e) /\ e \notin AnswersTo(n)
      BY <2>2
    <3>2. Tells(Append(replies, e), AnswersTo(n), {}, path)
      BY <1>1, <2>1, <3>1, ReplySent
    <3>3. QED
      BY <3>1, <3>2
  <2>3. CASE replies' = replies
    BY <1>1, <2>3
  <2>4. QED
    BY <2>2, <2>3
<1>2. \A n : IsNewest(n)' <=> IsNewest(n)
  BY DEF IsNewest
<1>3. \A n, path : AnswersFrom(n, path) => AnswersFrom(n, path)'
  BY <1>1 DEF AnswersFrom, AnswersTo
<1>4. PageAgrees
  BY DEF IInv
<1>5. QED
  BY <1>2, <1>3, <1>4 DEF PageAgrees

\* The types, from those of the queues.
LEMMA TypesStay ==
    ASSUME QueuesOK', RequestsOK', count' \in 0 .. MaxRequests, orphaned' \in BOOLEAN,
           dirs' \subseteq Paths, saved' \in Paths \cup {None},
           ui' \in [win : 0 .. MaxReloads, path : Paths \cup {None}, valid : BOOLEAN,
               status : {"loading", "ready", "error"}, busy : BOOLEAN,
               previous : Paths \cup {None}],
           page' \in [at : {"home", "other"}, mount : 0 .. MaxRequests,
                 data : {"none", "error", Fallback} \cup Paths, from : 0 .. MaxRequests],
           page'.mount # 0 <=> ui'.valid
    PROVE  TypeOK'
<1>1. ASSUME NEW S, NEW T, S \subseteq T
      PROVE  Seq(S) \subseteq Seq(T)
  BY <1>1, Widened
<1>2. calls' \in Seq(WorkspaceCall)
  <2>1. {c \in WorkspaceCall : c.win <= ui'.win} \subseteq WorkspaceCall
    OBVIOUS
  <2>2. calls' \in Seq({c \in WorkspaceCall : c.win <= ui'.win})
    BY DEF QueuesOK
  <2>3. QED
    BY <1>1, <2>1, <2>2
<1>3. replies' \in Seq(Reply)
  <2>1. GoodReply' \subseteq Reply
    BY DEF GoodReply
  <2>2. replies' \in Seq(GoodReply')
    BY DEF QueuesOK
  <2>3. QED
    BY <1>1, <2>1, <2>2
<1>4. dialogs' \subseteq 0 .. MaxReloads
  <2>1. dialogs' \subseteq 0 .. ui'.win /\ ui'.win \in 0 .. MaxReloads
    BY DEF QueuesOK
  <2>2. QED
    BY <2>1, Static
<1>5. QED
  BY <1>2, <1>3, <1>4 DEF TypeOK, WorkspaceCall

\* What GetWorkspace does, for whichever window: saved stays, and the root becomes
\* or stays what is saved where the two were the same.
LEMMA GetKeeps ==
    ASSUME IInv, NEW op \in {"get", "select"}, NEW w \in 0 .. ui.win, GetWorkspace(op, w),
           UNCHANGED << ui, page, requests, count >>,
           dialogs' \subseteq dialogs,
           Free(calls, 0, MySelects) => Free(calls', 0, MySelects)
    PROVE  WindowAgrees' /\ PageAgrees' /\ RequestsOK'
<1>0. saved \in Paths \cup {None} /\ dirs \subseteq Paths /\ op \in {"get", "select", "clear"}
      /\ op # "clear"
  BY DEF IInv, TypeOK
<1>1. saved' = saved /\ dirs' = dirs /\ orphaned' = orphaned
  BY DEF GetWorkspace
<1>b. PICK read \in {saved, None} :
         /\ root' = IF read \in dirs THEN read ELSE root
         /\ replies' = Append(replies, Answer(op, w, TRUE, read))
  BY DEF GetWorkspace
<1>c. read \in Paths \cup {None} /\ (read \in dirs => read = saved)
  BY <1>0, <1>b, Static
<1>a. PICK e : Granted(e, op, w, read) /\ replies' = Append(replies, e)
  BY <1>0, <1>b, <1>c, AnswerGranted
<1>2. /\ e \in GoodReply /\ e.path = read /\ (e \in MyValid => read \in dirs)
      /\ e \in MyValid => e.path = saved
      /\ e \in Named => e.path = saved
      /\ e \notin Resets => (w = ui.win => read \in dirs)
      /\ \A n : e \notin AnswersTo(n)
  <2>1. /\ e \in GoodReply /\ e.path = read /\ (e \in MyValid => read \in dirs)
        /\ e \notin Resets => (w = ui.win => read \in dirs)
        /\ \A n : e \notin AnswersTo(n)
    BY <1>0, <1>a, <1>c, GrantedKinds
  <2>2. e \in Named => read # None
    BY <2>1 DEF Named
  <2>3. QED
    BY <1>b, <1>c, <2>1, <2>2
<1>3. QueuesOK
  BY DEF IInv
<1>4. /\ \A E : Free(replies', 0, E) <=> Free(replies, 0, E) /\ e \notin E
      /\ \A M, E, x : (e \in M => e.path = x) /\ (e \in E \/ Tells(replies, M, E, x)) =>
            Tells(replies', M, E, x)
  BY <1>a, <1>2, <1>3, ReplySent
<1>5. /\ MySelects' = MySelects /\ Mine' = Mine /\ Named' = Named /\ MyChoices' = MyChoices
      /\ MyValid' = MyValid /\ Resets' = Resets /\ ui' = ui
  BY SetsStay
<1>6. ASSUME ~orphaned
      PROVE  /\ Tells(replies', Named, MyChoices, saved)
             /\ Free(replies', 0, MyChoices) => ui.path \in {None, saved}
             /\ ui.win \in dialogs' \/ ~Free(calls', 0, MySelects) => ui.previous \in {None, saved}
             /\ Tells(replies', MyValid, Resets, saved)
             /\ Tells(replies', MyValid, Resets, root')
  <2>1. /\ Tells(replies, Named, MyChoices, saved)
        /\ Free(replies, 0, MyChoices) => ui.path \in {None, saved}
        /\ ui.win \in dialogs \/ ~Free(calls, 0, MySelects) => ui.previous \in {None, saved}
        /\ Tells(replies, MyValid, Resets, saved)
        /\ Tells(replies, MyValid, Resets, root)
    BY <1>6 DEF IInv, WindowAgrees
  <2>2. Tells(replies', Named, MyChoices, saved) /\ Tells(replies', MyValid, Resets, saved)
    BY <1>2, <1>4, <2>1
  <2>3. Tells(replies', MyValid, Resets, root')
    <3>1. CASE read \in dirs
      BY <1>b, <1>c, <2>2, <3>1
    <3>2. CASE read \notin dirs
      BY <1>b, <1>2, <1>4, <2>1, <3>2
    <3>3. QED
      BY <3>1, <3>2
  <2>4. QED
    BY <1>4, <2>1, <2>2, <2>3
<1>7. WindowAgrees'
  BY <1>1, <1>5, <1>6 DEF WindowAgrees
<1>8. PageAgrees'
  <2>1. ASSUME page.mount # 0, ~orphaned', Free(replies', 0, Resets')
        PROVE  ~orphaned /\ Free(replies, 0, Resets) /\ root' = ui.path /\ saved' = ui.path
    BY <1>1, <1>b, <1>c, <1>4, <1>5, <2>1 DEF IInv, PageAgrees
  <2>2. QED
    BY <1>a, <1>2, <1>5, <2>1, PageStays
<1>9. RequestsOK'
  BY <1>0, <1>1, <1>b, <1>c DEF RequestsOK, IInv, TypeOK
<1>10. QED
  BY <1>7, <1>8, <1>9

\* A call that is handled goes out of its queue; what the button waits for is where
\* the call went.
LEMMA CallHandled ==
    ASSUME IInv, NEW op \in {"get", "select", "clear"}, NEW w \in 0 .. MaxReloads, Handle(op, w)
    PROVE  /\ w \in 0 .. ui.win /\ calls' \in Seq({c \in WorkspaceCall : c.win <= ui.win})
           /\ Single(calls', MyCalls)
           /\ Free(calls, 0, MyCalls) => Free(calls', 0, MyCalls)
           /\ Free(calls, 0, MySelects) => Free(calls', 0, MySelects)
           /\ op = "select" /\ w = ui.win => ~Free(calls, 0, MySelects)
           /\ op # "get" /\ w = ui.win =>
                 /\ Free(calls', 0, MyCalls) /\ Free(calls', 0, MySelects)
                 /\ ui.busy /\ ui.win \notin dialogs /\ Free(replies, 0, MyReplies)
           /\ UNCHANGED << ui, page, requests, count >>
<1>1. /\ calls # << >> /\ Head(calls) = [op |-> op, win |-> w] /\ calls' = Tail(calls)
      /\ UNCHANGED << ui, page, requests, count >> /\ ui.win \in 0 .. MaxReloads
  BY DEF Handle, IInv, TypeOK
<1>2. QueuesOK /\ OneChoice
  BY DEF IInv
<1>3. /\ calls' \in Seq({c \in WorkspaceCall : c.win <= ui.win})
      /\ Head(calls) \in WorkspaceCall /\ Head(calls).win <= ui.win
      /\ \A E : Free(calls, 0, E) <=> Head(calls) \notin E /\ Free(calls', 0, E)
      /\ \A E : Single(calls, E) =>
            Single(calls', E) /\ (Head(calls) \in E => Free(calls', 0, E))
  BY <1>1, <1>2, CallTaken
<1>4. w \in 0 .. ui.win
  BY <1>1, <1>3, Static
<1>5. /\ Head(calls) \in MyCalls <=> op # "get" /\ w = ui.win
      /\ Head(calls) \in MySelects <=> op = "select" /\ w = ui.win
  BY <1>1, <1>3 DEF MyCalls, MySelects
<1>6. Single(calls, MyCalls)
  BY <1>2 DEF OneChoice
<1>7. Free(calls', 0, MyCalls) => Free(calls', 0, MySelects)
  BY DEF Free, MyCalls, MySelects
<1>8. ASSUME op # "get", w = ui.win
      PROVE  ui.busy /\ ui.win \notin dialogs /\ Free(replies, 0, MyReplies)
  BY <1>2, <1>3, <1>5, <1>8 DEF OneChoice
<1>9. QED
  BY <1>1, <1>3, <1>4, <1>5, <1>6, <1>7, <1>8

LEMMA HandleGetKeeps == ASSUME IInv, NEW w \in 0 .. MaxReloads, HandleGet(w) PROVE IInv'
<1>1. Handle("get", w) /\ GetWorkspace("get", w) /\ dialogs' = dialogs
  BY DEF HandleGet
<1>2. /\ w \in 0 .. ui.win /\ calls' \in Seq({c \in WorkspaceCall : c.win <= ui.win})
      /\ Single(calls', MyCalls)
      /\ Free(calls, 0, MyCalls) => Free(calls', 0, MyCalls)
      /\ Free(calls, 0, MySelects) => Free(calls', 0, MySelects)
      /\ UNCHANGED << ui, page, requests, count >>
  BY <1>1, CallHandled
<1>3. /\ saved' = saved /\ dirs' = dirs /\ orphaned' = orphaned
      /\ saved \in Paths \cup {None}
  BY <1>1 DEF GetWorkspace, IInv, TypeOK
<1>b. PICK read \in Paths \cup {None} : replies' = Append(replies, Answer("get", w, TRUE, read))
  BY <1>1, <1>3 DEF GetWorkspace
<1>a. PICK e : Granted(e, "get", w, read) /\ replies' = Append(replies, e)
  BY <1>b, <1>2, AnswerGranted
<1>4. e \in GoodReply /\ e \notin MyReplies
  BY <1>2, <1>a, GrantedKinds
<1>5. QueuesOK /\ OneChoice
  BY DEF IInv
<1>6. /\ replies' \in Seq(GoodReply)
      /\ Free(replies', 0, MyReplies) <=> Free(replies, 0, MyReplies)
      /\ Single(replies, MyReplies) => Single(replies', MyReplies)
  BY <1>a, <1>4, <1>5, ReplySent
<1>7. MyCalls' = MyCalls /\ MyReplies' = MyReplies /\ GoodReply' = GoodReply
  BY <1>2, SetsStay
<1>8. QueuesOK'
  BY <1>1, <1>2, <1>5, <1>6, <1>7 DEF QueuesOK
<1>9. OneChoice'
  BY <1>1, <1>2, <1>5, <1>6, <1>7 DEF OneChoice
<1>10. WindowAgrees' /\ PageAgrees' /\ RequestsOK'
  BY <1>1, <1>2, GetKeeps
<1>11. RequestsAgree'
  BY <1>2 DEF IInv, RequestsAgree
<1>12. TypeOK'
  BY <1>2, <1>3, <1>8, <1>10, TypesStay DEF IInv, TypeOK
<1>13. QED
  BY <1>8, <1>9, <1>10, <1>11, <1>12 DEF IInv

LEMMA HandleSelectKeeps == ASSUME IInv, NEW w \in 0 .. MaxReloads, HandleSelect(w) PROVE IInv'
<1>1. /\ Handle("select", w) /\ dialogs' = dialogs \cup {w}
      /\ UNCHANGED << dirs, saved, root, replies, orphaned >>
  BY DEF HandleSelect, mainVars
<1>2. /\ w \in 0 .. ui.win /\ calls' \in Seq({c \in WorkspaceCall : c.win <= ui.win})
      /\ Single(calls', MyCalls)
      /\ Free(calls, 0, MyCalls) => Free(calls', 0, MyCalls)
      /\ Free(calls, 0, MySelects) => Free(calls', 0, MySelects)
      /\ w = ui.win => ~Free(calls, 0, MySelects)
      /\ w = ui.win =>
            /\ Free(calls', 0, MyCalls) /\ Free(calls', 0, MySelects)
            /\ ui.busy /\ ui.win \notin dialogs /\ Free(replies, 0, MyReplies)
      /\ UNCHANGED << ui, page, requests, count >>
  BY <1>1, CallHandled
<1>3. QueuesOK /\ OneChoice
  BY DEF IInv
<1>4. /\ MyCalls' = MyCalls /\ MySelects' = MySelects /\ MyReplies' = MyReplies /\ Mine' = Mine /\ Named' = Named
      /\ MyChoices' = MyChoices /\ MyValid' = MyValid /\ Resets' = Resets /\ GoodReply' = GoodReply
  BY <1>2, SetsStay
<1>5. QueuesOK'
  BY <1>1, <1>2, <1>3, <1>4 DEF QueuesOK
<1>6. OneChoice'
  BY <1>1, <1>2, <1>3, <1>4 DEF OneChoice
<1>7. WindowAgrees'
  <2>1. ui.win \in dialogs' \/ ~Free(calls', 0, MySelects) =>
           ui.win \in dialogs \/ ~Free(calls, 0, MySelects)
    BY <1>1, <1>2
  <2>2. QED
    BY <1>1, <1>2, <1>4, <2>1 DEF IInv, WindowAgrees
<1>8. PageAgrees'
  <2>1. ASSUME page.mount # 0, ~orphaned', Free(replies', 0, Resets')
        PROVE  ~orphaned /\ Free(replies, 0, Resets) /\ root' = ui.path /\ saved' = ui.path
    BY <1>1, <1>4, <2>1 DEF IInv, PageAgrees
  <2>2. QED
    BY <1>1, <1>2, <2>1, PageStays
<1>9. RequestsAgree'
  BY <1>2 DEF IInv, RequestsAgree
<1>10. RequestsOK'
  BY <1>1, <1>2 DEF IInv, TypeOK, RequestsOK
<1>11. TypeOK'
  BY <1>1, <1>2, <1>5, <1>10, TypesStay DEF IInv, TypeOK
<1>12. QED
  BY <1>5, <1>6, <1>7, <1>8, <1>9, <1>11 DEF IInv

\* A reply that changes nothing of what is saved: the call failed.
LEMMA FailureKeeps ==
    ASSUME IInv, NEW op \in {"select", "clear"}, NEW w \in 0 .. ui.win,
           NEW e, Failed(e, op, w), replies' = Append(replies, e),
           UNCHANGED << dirs, saved, root, orphaned, ui, page, requests, count >>,
           dialogs' \subseteq dialogs,
           Free(calls, 0, MySelects) => Free(calls', 0, MySelects)
    PROVE  WindowAgrees' /\ PageAgrees' /\ RequestsOK'
<1>1. e \in GoodReply /\ e \notin Mine /\ e \notin Named /\ \A n : e \notin AnswersTo(n)
  BY FailedKinds DEF Named
<1>2. replies' = Append(replies, e)
  OBVIOUS
<1>3. QueuesOK
  BY DEF IInv
<1>4. e \notin MyChoices /\ e \notin MyValid /\ e \notin Resets
  BY <1>1 DEF MyChoices, MyValid, Resets
<1>5. /\ \A E : Free(replies', 0, E) <=> Free(replies, 0, E) /\ e \notin E
      /\ \A M, E, x : (e \in M => e.path = x) /\ (e \in E \/ Tells(replies, M, E, x)) =>
            Tells(replies', M, E, x)
  BY <1>1, <1>2, <1>3, ReplySent
<1>6. /\ MySelects' = MySelects /\ Mine' = Mine /\ Named' = Named /\ MyChoices' = MyChoices
      /\ MyValid' = MyValid /\ Resets' = Resets /\ ui' = ui
  BY SetsStay
<1>7. WindowAgrees'
  <2>1. /\ \A x : Tells(replies, Named, MyChoices, x) => Tells(replies', Named, MyChoices, x)
        /\ \A x : Tells(replies, MyValid, Resets, x) => Tells(replies', MyValid, Resets, x)
        /\ Free(replies', 0, MyChoices) => Free(replies, 0, MyChoices)
    BY <1>1, <1>4, <1>5
  <2>2. ui.win \in dialogs' \/ ~Free(calls', 0, MySelects) =>
           ui.win \in dialogs \/ ~Free(calls, 0, MySelects)
    OBVIOUS
  <2>3. WindowAgrees
    BY DEF IInv
  <2>4. QED
    BY <1>6, <2>1, <2>2, <2>3 DEF WindowAgrees
<1>8. PageAgrees'
  <2>1. ASSUME page.mount # 0, ~orphaned', Free(replies', 0, Resets')
        PROVE  ~orphaned /\ Free(replies, 0, Resets) /\ root' = ui.path /\ saved' = ui.path
    BY <1>5, <1>6, <2>1 DEF IInv, PageAgrees
  <2>2. QED
    BY <1>1, <1>2, <1>6, <2>1, PageStays
<1>9. RequestsOK'
  BY DEF RequestsOK, IInv, TypeOK
<1>10. QED
  BY <1>7, <1>8, <1>9

\* A choice that took effect, of the current window (or of one that is gone, which
\* leaves the window with what it shows).
LEMMA ChoiceKeeps ==
    ASSUME IInv, NEW op \in {"select", "clear"}, NEW w \in 0 .. ui.win,
           NEW p \in Paths \cup {None},
           op = "select" => p \in dirs /\ root' = p /\ w \in dialogs,
           op = "clear" => p = None /\ root' = Fallback,
           saved' = p,
           NEW e, Granted(e, op, w, p), replies' = Append(replies, e),
           orphaned' = (orphaned \/ w # ui.win),
           UNCHANGED << dirs, ui, page, requests, count >>,
           w = ui.win => ui.win \notin dialogs' /\ Free(calls', 0, MySelects)
    PROVE  WindowAgrees' /\ PageAgrees' /\ RequestsOK'
<1>1. /\ e \in GoodReply /\ e.path = p
      /\ e \in MyChoices <=> w = ui.win
      /\ e \in MyValid => op = "select"
      /\ e \in Resets <=> w = ui.win /\ (op = "clear" \/ p # ui.previous)
      /\ \A n : e \notin AnswersTo(n)
  <2>1. op \in {"get", "select", "clear"} /\ op # "get" /\ dirs \subseteq Paths
    BY DEF IInv, TypeOK
  <2>2. op = "clear" => p \notin dirs
    BY <2>1, Static
  <2>3. /\ e \in GoodReply /\ e.path = p
        /\ e \in MyChoices <=> op # "get" /\ w = ui.win
        /\ e \in MyValid <=> w = ui.win /\ p \in dirs
        /\ e \in Resets <=>
              /\ w = ui.win
              /\ op = "clear" \/ p \notin dirs \/ (op = "select" /\ p # ui.previous)
        /\ \A n : e \notin AnswersTo(n)
    BY <2>1, GrantedKinds
  <2>4. QED
    BY <2>1, <2>2, <2>3
<1>2. replies' = Append(replies, e)
  OBVIOUS
<1>3. QueuesOK
  BY DEF IInv
<1>4. /\ \A E : Free(replies', 0, E) <=> Free(replies, 0, E) /\ e \notin E
      /\ \A M, E, x : (e \in M => e.path = x) /\ (e \in E \/ Tells(replies, M, E, x)) =>
            Tells(replies', M, E, x)
  BY <1>1, <1>2, <1>3, ReplySent
<1>5. /\ MySelects' = MySelects /\ Mine' = Mine /\ Named' = Named /\ MyChoices' = MyChoices
      /\ MyValid' = MyValid /\ Resets' = Resets /\ ui' = ui
  BY SetsStay
\* If the choice is the path shown before, it was saved all the time.
<1>6. ASSUME ~orphaned', e \notin Resets
      PROVE  op = "select" /\ p = saved
  <2>1. w = ui.win /\ op = "select" /\ p = ui.previous /\ p \in dirs /\ w \in dialogs /\ ~orphaned
    BY <1>1, <1>6
  <2>2. ui.previous \in {None, saved}
    BY <2>1 DEF IInv, WindowAgrees
  <2>3. p # None
    BY <2>1, Static DEF IInv, TypeOK
  <2>4. QED
    BY <2>1, <2>2, <2>3
<1>7. WindowAgrees'
  <2>1. ASSUME ~orphaned'
        PROVE  /\ Tells(replies', Named, MyChoices, p)
               /\ ~Free(replies', 0, MyChoices)
               /\ Tells(replies', MyValid, Resets, p)
               /\ Tells(replies', MyValid, Resets, root')
    <3>1. w = ui.win /\ ~orphaned
      BY <2>1
    <3>2. Tells(replies', Named, MyChoices, p) /\ ~Free(replies', 0, MyChoices)
      BY <1>1, <1>4, <3>1
    <3>3. e \in Resets \/ Tells(replies, MyValid, Resets, p)
      BY <1>6, <2>1, <3>1 DEF IInv, WindowAgrees
    <3>4. Tells(replies', MyValid, Resets, p)
      BY <1>1, <1>4, <3>3
    <3>5. CASE op = "select"
      BY <3>2, <3>4, <3>5
    <3>6. CASE op = "clear"
      <4>1. e \notin MyValid /\ e \in Resets
        BY <1>1, <3>1, <3>6
      <4>2. Tells(replies', MyValid, Resets, root')
        BY <1>4, <4>1
      <4>3. QED
        BY <3>2, <3>4, <4>2
    <3>7. QED
      BY <3>5, <3>6
  <2>2. QED
    BY <1>5, <2>1 DEF WindowAgrees
<1>8. PageAgrees'
  <2>1. ASSUME page.mount # 0, ~orphaned', Free(replies', 0, Resets')
        PROVE  ~orphaned /\ Free(replies, 0, Resets) /\ root' = ui.path /\ saved' = ui.path
    <3>1. Free(replies, 0, Resets) /\ e \notin Resets
      BY <1>4, <1>5, <2>1
    <3>2. op = "select" /\ p = saved /\ ~orphaned
      BY <1>6, <2>1, <3>1
    <3>3. saved = ui.path
      BY <2>1, <3>1, <3>2 DEF IInv, PageAgrees
    <3>4. QED
      BY <3>1, <3>2, <3>3
  <2>2. QED
    BY <1>1, <1>2, <1>5, <2>1, PageStays
<1>9. RequestsOK'
  BY DEF RequestsOK, IInv, TypeOK
<1>10. QED
  BY <1>7, <1>8, <1>9

LEMMA HandleClearKeeps == ASSUME IInv, NEW w \in 0 .. MaxReloads, HandleClear(w) PROVE IInv'
<1>1. Handle("clear", w) /\ dialogs' = dialogs /\ dirs' = dirs
  BY DEF HandleClear
<1>2. /\ w \in 0 .. ui.win /\ calls' \in Seq({c \in WorkspaceCall : c.win <= ui.win})
      /\ Single(calls', MyCalls)
      /\ Free(calls, 0, MyCalls) => Free(calls', 0, MyCalls)
      /\ Free(calls, 0, MySelects) => Free(calls', 0, MySelects)
      /\ w = ui.win =>
            /\ Free(calls', 0, MyCalls) /\ Free(calls', 0, MySelects)
            /\ ui.busy /\ ui.win \notin dialogs /\ Free(replies, 0, MyReplies)
      /\ UNCHANGED << ui, page, requests, count >>
  BY <1>1, CallHandled
<1>3. QueuesOK /\ OneChoice
  BY DEF IInv
<1>4. MyCalls' = MyCalls /\ MyReplies' = MyReplies /\ GoodReply' = GoodReply
  BY <1>2, SetsStay
<1>5. ASSUME NEW e \in GoodReply, e \in MyReplies <=> w = ui.win, replies' = Append(replies, e)
      PROVE  QueuesOK' /\ OneChoice'
  <2>1. /\ replies' \in Seq(GoodReply)
        /\ Free(replies', 0, MyReplies) <=> Free(replies, 0, MyReplies) /\ w # ui.win
        /\ Single(replies, MyReplies) /\ (Free(replies, 0, MyReplies) \/ w # ui.win) =>
              Single(replies', MyReplies)
    BY <1>3, <1>5, ReplySent
  <2>2. QueuesOK'
    BY <1>1, <1>2, <1>3, <1>4, <2>1 DEF QueuesOK
  <2>3. OneChoice'
    BY <1>1, <1>2, <1>3, <1>4, <2>1 DEF OneChoice
  <2>4. QED
    BY <2>2, <2>3
<1>6. /\ QueuesOK' /\ OneChoice' /\ WindowAgrees' /\ PageAgrees' /\ RequestsOK'
      /\ saved' \in Paths \cup {None} /\ orphaned' \in BOOLEAN
  <2>1. CASE /\ saved' = None /\ root' = Fallback
             /\ replies' = Append(replies, Answer("clear", w, TRUE, None))
             /\ orphaned' = (orphaned \/ w # ui.win)
    <3>1. PICK e : Granted(e, "clear", w, None) /\ replies' = Append(replies, e)
      BY <1>2, <2>1, AnswerGranted
    <3>2. e \in GoodReply /\ (e \in MyReplies <=> w = ui.win)
      BY <1>2, <3>1, GrantedKinds
    <3>3. QueuesOK' /\ OneChoice'
      BY <1>5, <3>1, <3>2
    <3>4. saved' = None /\ root' = Fallback /\ orphaned' = (orphaned \/ w # ui.win)
      BY <2>1
    <3>5. WindowAgrees' /\ PageAgrees' /\ RequestsOK'
      BY <1>1, <1>2, <3>1, <3>4, ChoiceKeeps
    <3>6. QED
      BY <3>3, <3>4, <3>5 DEF IInv, TypeOK
  <2>2. CASE /\ replies' = Append(replies, Answer("clear", w, FALSE, None))
             /\ UNCHANGED << saved, root, orphaned >>
    <3>1. PICK e : Failed(e, "clear", w) /\ replies' = Append(replies, e)
      BY <1>2, <2>2, AnswerFailed
    <3>2. e \in GoodReply /\ (e \in MyReplies <=> w = ui.win)
      BY <1>2, <3>1, FailedKinds
    <3>3. QueuesOK' /\ OneChoice'
      BY <1>5, <3>1, <3>2
    <3>4. UNCHANGED << saved, root, orphaned >>
      BY <2>2
    <3>5. WindowAgrees' /\ PageAgrees' /\ RequestsOK'
      BY <1>1, <1>2, <3>1, <3>4, FailureKeeps
    <3>6. QED
      BY <3>3, <3>4, <3>5 DEF IInv, TypeOK
  <2>3. QED
    BY <2>1, <2>2 DEF HandleClear
<1>7. RequestsAgree'
  BY <1>2 DEF IInv, RequestsAgree
<1>8. TypeOK'
  BY <1>1, <1>2, <1>6, TypesStay DEF IInv, TypeOK
<1>9. QED
  BY <1>6, <1>7, <1>8 DEF IInv

LEMMA CloseDialogKeeps == ASSUME IInv, NEW w \in 0 .. MaxReloads, CloseDialog(w) PROVE IInv'
<1>1. /\ w \in dialogs /\ dialogs' = dialogs \ {w} /\ dirs' = dirs
      /\ UNCHANGED << calls, ui, page, requests, count >>
  BY DEF CloseDialog, Cancel, Refuse, Choose, GetWorkspace, mainVars
<1>2. w \in 0 .. ui.win /\ dirs \subseteq Paths /\ saved \in Paths \cup {None}
  BY <1>1 DEF IInv, QueuesOK, TypeOK
<1>3. QueuesOK /\ OneChoice
  BY DEF IInv
<1>4. /\ MyCalls' = MyCalls /\ MySelects' = MySelects /\ MyReplies' = MyReplies
      /\ GoodReply' = GoodReply
  BY <1>1, SetsStay
<1>5. ASSUME NEW e \in GoodReply, e \in MyReplies <=> w = ui.win, replies' = Append(replies, e)
      PROVE  QueuesOK' /\ OneChoice'
  <2>1. /\ replies' \in Seq(GoodReply)
        /\ Free(replies', 0, MyReplies) <=> Free(replies, 0, MyReplies) /\ w # ui.win
        /\ Single(replies, MyReplies) /\ (Free(replies, 0, MyReplies) \/ w # ui.win) =>
              Single(replies', MyReplies)
    BY <1>3, <1>5, ReplySent
  <2>2. QueuesOK'
    BY <1>1, <1>3, <1>4, <2>1 DEF QueuesOK
  <2>3. OneChoice'
    BY <1>1, <1>3, <1>4, <2>1 DEF OneChoice
  <2>4. QED
    BY <2>2, <2>3
<1>6. w = ui.win => ui.win \notin dialogs' /\ Free(calls', 0, MySelects)
  <2>1. w = ui.win => Free(calls, 0, MyCalls)
    BY <1>1, <1>3 DEF OneChoice
  <2>2. Free(calls, 0, MyCalls) => Free(calls, 0, MySelects)
    BY DEF Free, MyCalls, MySelects
  <2>3. QED
    BY <1>1, <2>1, <2>2
<1>7. /\ QueuesOK' /\ OneChoice' /\ WindowAgrees' /\ PageAgrees' /\ RequestsOK'
      /\ saved' \in Paths \cup {None} /\ orphaned' \in BOOLEAN
  <2>1. CASE Cancel(w)
    <3>1. GetWorkspace("select", w)
      BY <2>1 DEF Cancel
    <3>2. saved' = saved /\ orphaned' = orphaned
      BY <3>1 DEF GetWorkspace
    <3>8. PICK read \in Paths \cup {None} :
              replies' = Append(replies, Answer("select", w, TRUE, read))
      BY <1>2, <3>1 DEF GetWorkspace
    <3>3. PICK e : Granted(e, "select", w, read) /\ replies' = Append(replies, e)
      BY <1>2, <3>8, AnswerGranted
    <3>4. e \in GoodReply /\ (e \in MyReplies <=> w = ui.win)
      BY <1>2, <3>3, GrantedKinds
    <3>5. QueuesOK' /\ OneChoice'
      BY <1>5, <3>3, <3>4
    <3>6. WindowAgrees' /\ PageAgrees' /\ RequestsOK'
      BY <1>1, <1>2, <3>1, GetKeeps
    <3>7. QED
      BY <3>2, <3>5, <3>6 DEF IInv, TypeOK
  <2>2. CASE Refuse(w)
    <3>1. PICK e : Failed(e, "select", w) /\ replies' = Append(replies, e)
      BY <1>2, <2>2, AnswerFailed DEF Refuse
    <3>2. e \in GoodReply /\ (e \in MyReplies <=> w = ui.win)
      BY <1>2, <3>1, FailedKinds
    <3>3. QueuesOK' /\ OneChoice'
      BY <1>5, <3>1, <3>2
    <3>4. UNCHANGED << saved, root, orphaned >>
      BY <2>2 DEF Refuse, mainVars
    <3>5. WindowAgrees' /\ PageAgrees' /\ RequestsOK'
      BY <1>1, <1>2, <3>1, <3>4, FailureKeeps
    <3>6. QED
      BY <3>3, <3>4, <3>5 DEF IInv, TypeOK
  <2>3. ASSUME NEW p \in dirs, Choose(w, p)
        PROVE  /\ QueuesOK' /\ OneChoice' /\ WindowAgrees' /\ PageAgrees' /\ RequestsOK'
               /\ saved' \in Paths \cup {None} /\ orphaned' \in BOOLEAN
    <3>1. p \in Paths \cup {None}
      BY <1>2
    <3>2. PICK e : Granted(e, "select", w, p) /\ replies' = Append(replies, e)
      BY <1>2, <2>3, <3>1, AnswerGranted DEF Choose
    <3>3. e \in GoodReply /\ (e \in MyReplies <=> w = ui.win)
      BY <1>2, <3>1, <3>2, GrantedKinds
    <3>4. QueuesOK' /\ OneChoice'
      BY <1>5, <3>2, <3>3
    <3>5. saved' = p /\ root' = p /\ orphaned' = (orphaned \/ w # ui.win)
      BY <2>3 DEF Choose
    <3>6. WindowAgrees' /\ PageAgrees' /\ RequestsOK'
      BY <1>1, <1>2, <1>6, <3>1, <3>2, <3>5, ChoiceKeeps
    <3>7. QED
      BY <3>1, <3>4, <3>5, <3>6 DEF IInv, TypeOK
  <2>4. QED
    BY <2>1, <2>2, <2>3 DEF CloseDialog
<1>8. RequestsAgree'
  BY <1>1 DEF IInv, RequestsAgree
<1>9. TypeOK'
  BY <1>1, <1>2, <1>7, TypesStay DEF IInv, TypeOK
<1>10. QED
  BY <1>7, <1>8, <1>9 DEF IInv

-----------------------------------------------------------------------------
(* Steps of the runner *)

\* The answer to request n: of the directory that its command was run in.
Answered(e, n) ==
    /\ e \in Reply /\ e.op = "data" /\ e.to = n
    /\ e.ok => /\ requests[n].stage = "run" /\ requests[n].child = "runs"
               /\ e.path = requests[n].root

LEMMA RequestAnswered ==
    ASSUME IInv, NEW n \in 1 .. MaxRequests
    PROVE  /\ requests[n].stage = "run" /\ requests[n].child = "runs" =>
                 Answered(Answer("data", n, TRUE, requests[n].root), n)
           /\ Answered(Answer("data", n, FALSE, None), n)
<1>1. /\ n \in 0 .. MaxReloads + MaxRequests /\ requests[n].root \in Paths \cup {None, Fallback}
      /\ None \in Paths \cup {None, Fallback}
  BY Static DEF IInv, TypeOK, RequestsOK
<1> DEFINE e == Answer("data", n, TRUE, requests[n].root)
           f == Answer("data", n, FALSE, None)
<1>2. /\ e.op = "data" /\ e.to = n /\ e.ok = TRUE /\ e.path = requests[n].root
      /\ e = [op |-> "data", to |-> n, ok |-> TRUE, path |-> requests[n].root,
              valid |-> requests[n].root \in dirs]
  BY DEF Answer
<1>3. /\ f.op = "data" /\ f.to = n /\ f.ok = FALSE
      /\ f = [op |-> "data", to |-> n, ok |-> FALSE, path |-> None, valid |-> None \in dirs]
  BY DEF Answer
<1> HIDE DEF e, f
<1>4. e \in Reply
  BY <1>1, <1>2 DEF Reply
<1>5. f \in Reply
  BY <1>1, <1>3 DEF Reply
<1>6. requests[n].stage = "run" /\ requests[n].child = "runs" => Answered(e, n)
  BY <1>2, <1>4 DEF Answered
<1>7. Answered(f, n)
  BY <1>3, <1>5 DEF Answered
<1>8. QED
  BY <1>6, <1>7, Zenon DEF e, f

\* What a step of the runner makes of its request: q.
LEMMA RunnerSteps ==
    ASSUME IInv, NEW n \in 1 .. MaxRequests, Runner(n)
    PROVE  \E q \in [mount : 0 .. MaxRequests, stage : {"new", "search", "run", "over"},
                     tries : 0 .. Candidates, child : {"none", "runs", "killed", "held"},
                     root : Paths \cup {None, Fallback}] :
              /\ requests' = [requests EXCEPT ![n] = q]
              /\ q.mount = requests[n].mount
              /\ requests[n].stage = "new" => q.stage = "new"
              /\ q.stage = "run" /\ q.child = "runs" => q.root = root
              /\ \/ replies' = replies
                 \/ /\ requests[n].stage # "new"
                    /\ \E e : Answered(e, n) /\ replies' = Append(replies, e)
<1> DEFINE Q == [mount : 0 .. MaxRequests, stage : {"new", "search", "run", "over"},
                 tries : 0 .. Candidates, child : {"none", "runs", "killed", "held"},
                 root : Paths \cup {None, Fallback}]
           Fits(q) == /\ q \in Q
                      /\ requests' = [requests EXCEPT ![n] = q]
                      /\ q.mount = requests[n].mount
                      /\ requests[n].stage = "new" => q.stage = "new"
                      /\ q.stage = "run" /\ q.child = "runs" => q.root = root
<1>1. /\ requests \in [1 .. MaxRequests -> Q] /\ requests[n] \in Q /\ root \in Paths \cup {Fallback}
      /\ 0 \in 0 .. Candidates /\ 1 \in 0 .. Candidates
  BY Static DEF IInv, TypeOK, RequestsOK
<1>2. CASE Search(n) /\ FindPython(n)
  <2> DEFINE q == [requests[n] EXCEPT !.stage = "run", !.tries = 0, !.root = root]
  <2>1. Fits(q)
    BY <1>1, <1>2 DEF FindPython
  <2>2. replies' = replies
    BY <1>2 DEF Search
  <2>3. QED
    BY <2>1, <2>2
<1>3. CASE Search(n) /\ TryNext(n)
  <2> DEFINE q == [requests[n] EXCEPT !.tries = requests[n].tries + 1, !.child = "runs"]
  <2>1. requests[n].tries + 1 \in 0 .. Candidates
    BY <1>1, <1>3, Static DEF TryNext
  <2>2. Fits(q)
    BY <1>1, <1>3, <2>1 DEF TryNext
  <2>3. replies' = replies
    BY <1>3 DEF Search
  <2>4. QED
    BY <2>2, <2>3
<1>4. CASE TimerFires(n)
  <2>1. PICK child \in {"killed", "held"} :
           requests' = [requests EXCEPT ![n].child = child, ![n].root = None]
    BY <1>4 DEF TimerFires, Timeout
  <2> DEFINE q == [requests[n] EXCEPT !.child = child, !.root = None]
  <2>2. Fits(q)
    BY <1>1, <2>1
  <2>3. replies' = replies
    BY <1>4 DEF TimerFires
  <2>4. QED
    BY <2>2, <2>3
<1>5. CASE AnswerRequest(n)
  <2> DEFINE q == [Unasked EXCEPT !.stage = "over", !.mount = requests[n].mount]
  <2>1. requests' = [requests EXCEPT ![n] = q] /\ requests[n].stage # "new"
    BY <1>5 DEF AnswerRequest, Respond, FailRequest, Settle
  <2>2. Fits(q)
    BY <1>1, <2>1 DEF Unasked
  <2>3. \E e : Answered(e, n) /\ replies' = Append(replies, e)
    BY <1>5, RequestAnswered DEF AnswerRequest, Respond
  <2>4. QED
    BY <2>1, <2>2, <2>3
<1>6. QED
  BY <1>2, <1>3, <1>4, <1>5 DEF Runner, Search

LEMMA RunnerKeeps == ASSUME IInv, NEW n \in 1 .. MaxRequests, Runner(n) PROVE IInv'
<1>1. /\ UNCHANGED << dirs, saved, root, calls, dialogs, ui, page, count, orphaned >>
  BY DEF Runner, Search, TimerFires, AnswerRequest, FindPython, TryNext, Timeout, Respond, FailRequest
<1> DEFINE Q == [mount : 0 .. MaxRequests, stage : {"new", "search", "run", "over"},
                 tries : 0 .. Candidates, child : {"none", "runs", "killed", "held"},
                 root : Paths \cup {None, Fallback}]
<1>2. PICK q \in Q :
              /\ requests' = [requests EXCEPT ![n] = q]
              /\ q.mount = requests[n].mount
              /\ requests[n].stage = "new" => q.stage = "new"
              /\ q.stage = "run" /\ q.child = "runs" => q.root = root
              /\ \/ replies' = replies
                 \/ /\ requests[n].stage # "new"
                    /\ \E e : Answered(e, n) /\ replies' = Append(replies, e)
  BY RunnerSteps
<1>3. /\ requests \in [1 .. MaxRequests -> Q] /\ root \in Paths \cup {Fallback}
      /\ requests'[n] = q /\ \A m \in 1 .. MaxRequests : m # n => requests'[m] = requests[m]
      /\ requests' \in [1 .. MaxRequests -> Q]
  BY <1>2 DEF IInv, TypeOK, RequestsOK
<1>4. count \in 0 .. MaxRequests /\ MaxRequests \in Nat
  BY Static DEF IInv, TypeOK
<1> HIDE DEF Q
<1>5. /\ MyCalls' = MyCalls /\ MySelects' = MySelects /\ MyReplies' = MyReplies /\ Mine' = Mine /\ Named' = Named
      /\ MyChoices' = MyChoices /\ MyValid' = MyValid /\ Resets' = Resets /\ GoodReply' = GoodReply
  BY <1>1, SetsStay
<1>6. QueuesOK /\ OneChoice
  BY DEF IInv
<1>7. /\ replies' \in Seq(GoodReply)
      /\ Free(replies', 0, MyReplies) <=> Free(replies, 0, MyReplies)
      /\ Free(replies', 0, MyChoices) <=> Free(replies, 0, MyChoices)
      /\ Free(replies', 0, Resets) <=> Free(replies, 0, Resets)
      /\ Single(replies, MyReplies) => Single(replies', MyReplies)
      /\ \A x : Tells(replies, Named, MyChoices, x) => Tells(replies', Named, MyChoices, x)
      /\ \A x : Tells(replies, MyValid, Resets, x) => Tells(replies', MyValid, Resets, x)
      /\ \A m, x : Tells(replies, AnswersTo(m), {}, x)
            /\ (m = n /\ requests[n].stage = "run" /\ requests[n].child = "runs" =>
                   requests[n].root = x)
            => Tells(replies', AnswersTo(m), {}, x)
  <2>1. CASE replies' = replies
    BY <1>6, <2>1 DEF QueuesOK
  <2>2. CASE requests[n].stage # "new" /\ \E e : Answered(e, n) /\ replies' = Append(replies, e)
    <3>1. PICK e : Answered(e, n) /\ replies' = Append(replies, e)
      BY <2>2
    <3>2. n \in 1 .. count
      BY <1>4, <2>2 DEF IInv, RequestsAgree
    <3>3. e \in GoodReply
      BY <3>1, <3>2 DEF Answered, GoodReply, IInv, RequestsAgree
    <3>4. e \notin MyReplies /\ e \notin Mine /\ e \notin Named /\ e \notin MyChoices /\ e \notin MyValid /\ e \notin Resets
      BY <3>1 DEF Answered, MyReplies, Mine, Named, MyChoices, MyValid, Resets
    <3>5. ASSUME NEW m, e \in AnswersTo(m)
          PROVE  /\ m = n /\ requests[n].stage = "run" /\ requests[n].child = "runs"
                 /\ e.path = requests[n].root
      BY <3>1, <3>5 DEF Answered, AnswersTo
    <3>6. /\ replies' \in Seq(GoodReply)
          /\ \A E : Free(replies', 0, E) <=> Free(replies, 0, E) /\ e \notin E
          /\ \A E : Single(replies, E) /\ (Free(replies, 0, E) \/ e \notin E) => Single(replies', E)
          /\ \A M, E, x : (e \in M => e.path = x) /\ (e \in E \/ Tells(replies, M, E, x)) =>
                Tells(replies', M, E, x)
      BY <1>6, <3>1, <3>3, ReplySent
    <3>7. ASSUME NEW m, NEW x, Tells(replies, AnswersTo(m), {}, x),
                 m = n /\ requests[n].stage = "run" /\ requests[n].child = "runs" =>
                    requests[n].root = x
          PROVE  Tells(replies', AnswersTo(m), {}, x)
      BY <3>5, <3>6, <3>7
    <3>8. QED
      BY <3>4, <3>6, <3>7
  <2>3. QED
    BY <1>2, <2>1, <2>2
<1>8. QueuesOK'
  BY <1>1, <1>5, <1>6, <1>7 DEF QueuesOK
<1>9. OneChoice'
  BY <1>1, <1>5, <1>6, <1>7 DEF OneChoice
<1>10. WindowAgrees'
  BY <1>1, <1>5, <1>7 DEF IInv, WindowAgrees
<1>11. RequestsAgree'
  <2>1. root # None
    BY <1>3, Static
  <2>2. \A m \in 1 .. MaxRequests : requests'[m] = IF m = n THEN q ELSE requests[m]
    BY <1>3
  <2>3. QED
    BY <1>1, <1>2, <2>1, <2>2 DEF IInv, RequestsAgree
<1>12. \A m : IsNewest(m)' <=> IsNewest(m)
  <2>1. \A m \in 1 .. count : requests'[m].mount = requests[m].mount
    BY <1>2, <1>3, <1>4
  <2>2. \A m \in 1 .. count : \A k \in (m + 1) .. count : k \in 1 .. count
    OBVIOUS
  <2>3. QED
    BY <1>1, <2>1, <2>2 DEF IsNewest
<1>13. PageAgrees'
  <2>1. ASSUME NEW m \in 1 .. count, AnswersFrom(m, ui.path), root = ui.path
        PROVE  AnswersFrom(m, ui.path)'
    <3>1. Tells(replies', AnswersTo(m), {}, ui.path)
      BY <1>7, <2>1 DEF AnswersFrom
    <3>2. requests'[m].stage = "run" /\ requests'[m].child = "runs" => requests'[m].root = ui.path
      BY <1>2, <1>3, <1>4, <2>1 DEF AnswersFrom
    <3>3. page.from = m /\ page.data # "error" => page.data = ui.path
      BY <2>1 DEF AnswersFrom
    <3>4. QED
      BY <1>1, <3>1, <3>2, <3>3 DEF AnswersFrom, AnswersTo
  <2>2. PageAgrees
    BY DEF IInv
  <2>3. QED
    BY <1>1, <1>5, <1>7, <1>12, <2>1, <2>2 DEF PageAgrees
<1>14. RequestsOK'
  BY <1>1, <1>3 DEF RequestsOK, Q
<1>15. TypeOK'
  BY <1>1, <1>8, <1>14, TypesStay DEF IInv, TypeOK
<1>16. QED
  BY <1>8, <1>9, <1>10, <1>11, <1>13, <1>15 DEF IInv

-----------------------------------------------------------------------------
(* Steps of the renderer *)

\* A button: the call is sent, and the window remembers what it showed.
LEMMA ButtonKeeps ==
    ASSUME IInv, ClickSelect \/ ClickClear \/ Retry
    PROVE  IInv'
<1> DEFINE U == [win : 0 .. MaxReloads, path : Paths \cup {None}, valid : BOOLEAN,
                 status : {"loading", "ready", "error"}, busy : BOOLEAN,
                 previous : Paths \cup {None}]
<1>1. PICK c : /\ calls' = Append(calls, c) /\ c.win = ui.win
               /\ c = [op |-> c.op, win |-> ui.win]
               /\ c.op \in {"get", "select", "clear"}
               /\ c.op # "get" => ~ui.busy /\ ui'.busy
               /\ c.op = "select" => ui'.previous = ui.path
               /\ c.op # "select" => ui'.previous = ui.previous
               /\ ui'.busy = (ui.busy \/ c.op # "get")
               /\ ui' \in U
  <2>1. ui \in U
    BY DEF IInv, TypeOK
  <2>2. PICK op \in {"get", "select", "clear"} :
           /\ calls' = Append(calls, [op |-> op, win |-> ui.win])
           /\ op # "get" => ~ui.busy /\ ui'.busy
           /\ op = "select" => ui'.previous = ui.path
           /\ op # "select" => ui'.previous = ui.previous
           /\ ui'.busy = (ui.busy \/ op # "get")
           /\ ui' \in U
    <3>1. CASE ClickSelect
      BY <2>1, <3>1 DEF ClickSelect, Call
    <3>2. CASE ClickClear
      BY <2>1, <3>2 DEF ClickClear, Call
    <3>3. CASE Retry
      BY <2>1, <3>3 DEF Retry, Call
    <3>4. QED
      BY <3>1, <3>2, <3>3
  <2> HIDE DEF U
  <2>3. QED
    BY <2>2
<1>2. /\ ui'.win = ui.win /\ ui'.path = ui.path /\ ui'.valid = ui.valid
      /\ UNCHANGED << dirs, saved, root, dialogs, replies, page, requests, count, orphaned >>
  BY DEF ClickSelect, ClickClear, Retry, Call, mainVars, IInv, TypeOK
<1>3. QueuesOK /\ OneChoice
  BY DEF IInv
<1>4. c \in {d \in WorkspaceCall : d.win <= ui.win}
  BY <1>1, Static DEF WorkspaceCall, IInv, TypeOK
<1>5. /\ MyCalls' = MyCalls /\ MySelects' = MySelects /\ MyReplies' = MyReplies /\ Mine' = Mine /\ Named' = Named
      /\ MyChoices' = MyChoices /\ MyValid' = MyValid /\ GoodReply' = GoodReply
      /\ ui'.previous = ui.previous => Resets' = Resets
  BY <1>2, SetsStay
<1>6. /\ calls' \in Seq({d \in WorkspaceCall : d.win <= ui.win})
      /\ \A E : Free(calls', 0, E) <=> Free(calls, 0, E) /\ c \notin E
      /\ Free(calls, 0, MyCalls) \/ c \notin MyCalls => Single(calls', MyCalls)
  <2> DEFINE S == {d \in WorkspaceCall : d.win <= ui.win}
  <2>1. calls \in Seq(S) /\ c \in S
    BY <1>3, <1>4 DEF QueuesOK
  <2> HIDE DEF S
  <2>2. Append(calls, c) \in Seq(S) /\ Len(calls) \in Nat
    BY <2>1, Appended
  <2>3. 0 \in 0 .. Len(calls)
    BY <2>2
  <2>4. ASSUME NEW E
        PROVE  Free(Append(calls, c), 0, E) <=> Free(calls, 0, E) /\ c \notin E
    BY <2>1, <2>3, FreeAppend
  <2>5. ASSUME Free(calls, 0, MyCalls) \/ c \notin MyCalls
        PROVE  Single(Append(calls, c), MyCalls)
    BY <1>3, <2>1, <2>5, SingleAppend DEF OneChoice
  <2>6. QED
    BY <1>1, <2>2, <2>4, <2>5 DEF S
<1>7. /\ c \in MyCalls <=> c.op # "get"
      /\ c \in MySelects <=> c.op = "select"
  BY <1>1, <1>4 DEF MyCalls, MySelects
\* The button waits for nothing when it is pressed.
<1>8. c.op # "get" =>
        /\ Free(calls, 0, MyCalls) /\ ui.win \notin dialogs /\ Free(replies, 0, MyReplies)
  BY <1>1, <1>3 DEF OneChoice
<1>9. QueuesOK'
  BY <1>2, <1>3, <1>5, <1>6 DEF QueuesOK
<1>10. OneChoice'
  BY <1>1, <1>2, <1>3, <1>5, <1>6, <1>7, <1>8 DEF OneChoice
<1>11. Free(replies, 0, MyReplies) => Free(replies, 0, MyChoices)
  BY DEF Free, MyReplies, MyChoices, Mine
<1>12. Len(replies) \in Nat /\ \A j \in (0 + 1) .. Len(replies) : j \in 1 .. Len(replies)
  BY DEF IInv, TypeOK
\* Without a choice on its way, what resets the page does not depend on `previous`.
<1>13. ASSUME Free(replies, 0, MyChoices), NEW i \in 1 .. Len(replies)
       PROVE  replies[i] \in Resets <=> replies[i] \in Resets'
  <2>1. replies[i] \notin MyChoices
    BY <1>12, <1>13 DEF Free
  <2>2. QED
    BY <1>2, <1>5, <2>1 DEF Resets, MyChoices
<1>14. /\ Free(replies, 0, Resets') <=> Free(replies, 0, Resets)
       /\ \A x : Tells(replies, MyValid, Resets, x) => Tells(replies, MyValid, Resets', x)
  <2>1. CASE c.op = "select"
    <3>1. Free(replies, 0, MyChoices)
      BY <1>8, <1>11, <2>1
    <3>2. \A i \in 1 .. Len(replies) : replies[i] \in Resets <=> replies[i] \in Resets'
      BY <1>13, <3>1
    <3>3. Free(replies, 0, Resets') <=> Free(replies, 0, Resets)
      BY <1>12, <3>2 DEF Free
    <3>4. ASSUME NEW x, Tells(replies, MyValid, Resets, x)
          PROVE  Tells(replies, MyValid, Resets', x)
      BY <1>12, <3>2, <3>4, TellsLess
    <3>5. QED
      BY <3>3, <3>4
  <2>2. CASE c.op # "select"
    BY <1>1, <1>5, <2>2
  <2>3. QED
    BY <2>1, <2>2
<1>15. WindowAgrees'
  <2>1. ASSUME ~orphaned, c.op = "select"
        PROVE  ui'.previous \in {None, saved}
    BY <1>1, <1>8, <1>11, <2>1 DEF IInv, WindowAgrees
  <2>2. ASSUME ~orphaned, ui.win \in dialogs \/ ~Free(calls', 0, MySelects)
        PROVE  ui'.previous \in {None, saved}
    <3>1. CASE c.op = "select"
      BY <2>1, <2>2, <3>1
    <3>2. CASE c.op # "select"
      BY <1>1, <1>6, <1>7, <2>2, <3>2 DEF IInv, WindowAgrees
    <3>3. QED
      BY <3>1, <3>2
  <2>3. ASSUME ~orphaned
        PROVE  /\ Tells(replies, Named, MyChoices, saved)
               /\ Free(replies, 0, MyChoices) => ui.path \in {None, saved}
               /\ Tells(replies, MyValid, Resets', saved)
               /\ Tells(replies, MyValid, Resets', root)
    BY <1>14, <2>3 DEF IInv, WindowAgrees
  <2>4. QED
    BY <1>2, <1>5, <2>2, <2>3 DEF WindowAgrees
<1>16. PageAgrees'
  <2>1. ASSUME page.mount # 0, ~orphaned', Free(replies', 0, Resets')
        PROVE  ~orphaned /\ Free(replies, 0, Resets) /\ root' = ui.path /\ saved' = ui.path
    BY <1>2, <1>14, <2>1 DEF IInv, PageAgrees
  <2>2. QED
    BY <1>2, <2>1, PageStays
<1>17. RequestsAgree'
  BY <1>2 DEF IInv, RequestsAgree
<1>18. RequestsOK'
  BY <1>2 DEF IInv, TypeOK, RequestsOK
<1>19. TypeOK'
  BY <1>1, <1>2, <1>9, <1>18, TypesStay DEF IInv, TypeOK
<1>20. QED
  BY <1>9, <1>10, <1>15, <1>16, <1>17, <1>19 DEF IInv

\* A reply that is taken says what is so, as far as no other is to come.
LEMMA ReplyTells ==
    ASSUME IInv, NextReply
    PROVE  /\ replies' \in Seq(GoodReply) /\ Head(replies) \in GoodReply
           /\ \A E : Free(replies, 0, E) <=> Head(replies) \notin E /\ Free(replies', 0, E)
           /\ Single(replies', MyReplies)
           /\ Head(replies) \in MyReplies =>
                 /\ Free(replies', 0, MyReplies) /\ Free(calls, 0, MyCalls) /\ ui.win \notin dialogs
           /\ \A M, E, x : Tells(replies, M, E, x) => Tells(replies', M, E, x)
           /\ ~orphaned =>
                 /\ Tells(replies', Named, MyChoices, saved)
                 /\ Tells(replies', MyValid, Resets, saved) /\ Tells(replies', MyValid, Resets, root)
                 /\ Head(replies) \in Mine /\ Free(replies', 0, MyChoices) => Head(replies).path \in {None, saved}
                 /\ Head(replies) \in MyValid /\ Free(replies', 0, Resets) =>
                       Head(replies).path = saved /\ Head(replies).path = root
<1>1. replies # << >> /\ replies' = Tail(replies) /\ QueuesOK /\ OneChoice /\ WindowAgrees
  BY DEF NextReply, IInv
<1>2. /\ replies' \in Seq(GoodReply) /\ Head(replies) \in GoodReply
      /\ \A E : Free(replies, 0, E) <=> Head(replies) \notin E /\ Free(replies', 0, E)
      /\ \A E : Single(replies, E) =>
            Single(replies', E) /\ (Head(replies) \in E => Free(replies', 0, E))
      /\ \A M, E, x : Tells(replies, M, E, x) =>
            /\ Tells(replies', M, E, x)
            /\ Head(replies) \in M /\ Free(replies', 0, E) => Head(replies).path = x
  BY <1>1, ReplyTaken
<1>3. /\ Single(replies', MyReplies)
      /\ Head(replies) \in MyReplies =>
            /\ Free(replies', 0, MyReplies) /\ Free(calls, 0, MyCalls) /\ ui.win \notin dialogs
  BY <1>1, <1>2 DEF OneChoice
<1>4. ASSUME ~orphaned
      PROVE  /\ Tells(replies, Named, MyChoices, saved)
             /\ Tells(replies, MyValid, Resets, saved) /\ Tells(replies, MyValid, Resets, root)
  BY <1>1, <1>4 DEF WindowAgrees
<1>5. Head(replies) \in Mine => Head(replies) \in Named \/ Head(replies).path = None
  BY DEF Named
<1>6. QED
  BY <1>2, <1>3, <1>4, <1>5

\* The answer to a request is shown.
LEMMA DeliverDataKeeps == ASSUME IInv, DeliverData PROVE IInv'
<1> DEFINE r == Head(replies)
<1>1. /\ NextReply /\ r.op = "data"
      /\ UNCHANGED << dirs, saved, root, calls, dialogs, ui, requests, count, orphaned >>
      /\ page' = IF requests[r.to].mount # page.mount THEN page
                 ELSE [page EXCEPT !.data = IF r.ok THEN r.path ELSE "error", !.from = r.to]
  BY DEF DeliverData, mainVars
<1>2. /\ replies' \in Seq(GoodReply) /\ r \in GoodReply
      /\ \A E : Free(replies, 0, E) <=> r \notin E /\ Free(replies', 0, E)
      /\ Single(replies', MyReplies)
      /\ ~orphaned =>
            /\ Tells(replies', Named, MyChoices, saved)
            /\ Tells(replies', MyValid, Resets, saved) /\ Tells(replies', MyValid, Resets, root)
  BY <1>1, ReplyTells
<1>3. replies # << >> /\ replies' = Tail(replies) /\ QueuesOK /\ OneChoice /\ WindowAgrees
  BY <1>1 DEF NextReply, IInv
<1>4. /\ \A M, E, x : Tells(replies, M, E, x) =>
            /\ Tells(replies', M, E, x)
            /\ r \in M /\ Free(replies', 0, E) => r.path = x
  BY <1>3, ReplyTaken
<1> HIDE DEF r
<1>5. r \notin MyReplies /\ r \notin Mine /\ r \notin MyChoices /\ r \notin Resets
  BY <1>1 DEF MyReplies, Mine, Named, MyChoices, Resets
<1>6. /\ MyCalls' = MyCalls /\ MySelects' = MySelects /\ MyReplies' = MyReplies /\ Mine' = Mine /\ Named' = Named
      /\ MyChoices' = MyChoices /\ MyValid' = MyValid /\ Resets' = Resets /\ GoodReply' = GoodReply
  BY <1>1, SetsStay
<1>7. QueuesOK'
  BY <1>1, <1>2, <1>3, <1>6 DEF QueuesOK
<1>8. OneChoice'
  BY <1>1, <1>2, <1>3, <1>5, <1>6 DEF OneChoice
<1>9. WindowAgrees'
  BY <1>1, <1>2, <1>3, <1>5, <1>6 DEF WindowAgrees
<1>10. RequestsAgree'
  BY <1>1 DEF IInv, RequestsAgree
<1>11. /\ r.to \in 1 .. count /\ r.to \in 0 .. MaxRequests /\ r \in Reply
       /\ r.ok => r.path \in Paths \cup {Fallback}
  BY <1>1, <1>2, Static DEF GoodReply, Reply, IInv, TypeOK
<1>12. page \in [at : {"home", "other"}, mount : 0 .. MaxRequests,
                 data : {"none", "error", Fallback} \cup Paths, from : 0 .. MaxRequests]
  BY DEF IInv, TypeOK
<1>13. /\ page' \in [at : {"home", "other"}, mount : 0 .. MaxRequests,
                 data : {"none", "error", Fallback} \cup Paths, from : 0 .. MaxRequests]
       /\ page'.mount = page.mount
       /\ page' = page \/ (page'.from = r.to /\ (page'.data # "error" => r.ok /\ page'.data = r.path))
  BY <1>1, <1>11, <1>12
<1>14. PageAgrees'
  <2>1. \A n : IsNewest(n)' <=> IsNewest(n)
    BY <1>1, <1>13 DEF IsNewest
  <2>2. ASSUME NEW n, NEW x, AnswersFrom(n, x)
        PROVE  AnswersFrom(n, x)'
    <3>1. /\ Tells(replies', AnswersTo(n), {}, x)
          /\ r \in AnswersTo(n) /\ Free(replies', 0, {}) => r.path = x
      BY <1>4, <2>2 DEF AnswersFrom
    <3>2. Free(replies', 0, {})
      BY DEF Free
    <3>3. r.to = n /\ r.ok => r.path = x
      BY <1>1, <1>11, <3>1, <3>2 DEF AnswersTo
    <3>4. page'.from = n /\ page'.data # "error" => page'.data = x
      BY <1>13, <2>2, <3>3 DEF AnswersFrom
    <3>5. requests'[n].stage = "run" /\ requests'[n].child = "runs" => requests'[n].root = x
      BY <1>1, <2>2 DEF AnswersFrom
    <3>6. QED
      BY <3>1, <3>4, <3>5 DEF AnswersFrom, AnswersTo
  <2>3. PageAgrees
    BY DEF IInv
  <2>4. Free(replies', 0, Resets') => Free(replies, 0, Resets)
    BY <1>2, <1>5, <1>6
  <2>5. QED
    BY <1>1, <1>13, <2>1, <2>2, <2>3, <2>4 DEF PageAgrees
<1>15. RequestsOK'
  BY <1>1 DEF IInv, TypeOK, RequestsOK
<1>16. page'.mount # 0 <=> ui'.valid
  BY <1>1, <1>13 DEF IInv, TypeOK
<1>17. TypeOK'
  BY <1>1, <1>7, <1>13, <1>15, <1>16, TypesStay DEF IInv, TypeOK
<1>18. QED
  BY <1>7, <1>8, <1>9, <1>10, <1>14, <1>17 DEF IInv

LEMMA GoodGrows ==
    ASSUME ui'.win \in Nat, ui.win \in Nat, ui'.win >= ui.win, count \in Nat,
           count' \in Nat, count' >= count
    PROVE  Seq(GoodReply) \subseteq Seq(GoodReply')
<1>1. GoodReply \subseteq GoodReply'
  <2>1. ASSUME NEW r \in GoodReply
        PROVE  r \in GoodReply'
    <3>1. /\ r \in Reply /\ (r.op = "clear" => r.path = None) /\ (r.op = "get" => r.ok)
          /\ r.op # "data" => r.to <= ui.win /\ r.path \in Paths \cup {None} /\ (r.valid => r.path \in Paths)
          /\ r.op = "data" => r.to \in 1 .. count /\ (r.ok => r.path # None)
      BY DEF GoodReply
    <3>2. r.to \in Nat
      BY <3>1, Static DEF Reply
    <3>3. (r.to <= ui.win => r.to <= ui'.win) /\ (r.to \in 1 .. count => r.to \in 1 .. count')
      BY <3>2
    <3>4. QED
      BY <3>1, <3>3 DEF GoodReply
  <2>2. QED
    BY <2>1
<1>2. ASSUME NEW S, NEW T, S \subseteq T
      PROVE  Seq(S) \subseteq Seq(T)
  BY <1>2, Widened
<1>3. QED
  BY <1>1, <1>2

\* A page that asks: its new request is the last one, and has no answer yet.
LEMMA AskedKeeps ==
    ASSUME IInv, NEW m \in 0 .. MaxRequests, count < MaxRequests, count' = count + 1,
           requests' = [requests EXCEPT ![count + 1] = Asked(m)],
           page'.mount = m, page'.from = 0, replies' \in Seq(GoodReply),
           root' \in Paths \cup {Fallback}
    PROVE  /\ RequestsOK' /\ RequestsAgree' /\ count' \in 0 .. MaxRequests
           /\ \E n \in 1 .. count' : IsNewest(n)'
           /\ \A n \in 1 .. count' : IsNewest(n)' => \A x : AnswersFrom(n, x)'
<1> DEFINE Q == [mount : 0 .. MaxRequests, stage : {"new", "search", "run", "over"},
                 tries : 0 .. Candidates, child : {"none", "runs", "killed", "held"},
                 root : Paths \cup {None, Fallback}]
<1>1. count \in 0 .. MaxRequests /\ MaxRequests \in Nat /\ requests \in [1 .. MaxRequests -> Q]
  BY Static DEF IInv, TypeOK, RequestsOK
<1>2. /\ count' \in 1 .. MaxRequests /\ count' \in 1 .. count' /\ count' \in Nat
      /\ \A n \in 1 .. count' : n = count' \/ n \in 1 .. count
      /\ \A n \in 1 .. count' : n # count' => count' \in (n + 1) .. count'
      /\ \A k \in (count' + 1) .. count' : FALSE
  BY <1>1
<1>3. Asked(m) \in Q
  BY Static DEF Asked
<1>4. /\ requests' \in [1 .. MaxRequests -> Q] /\ requests'[count'] = Asked(m)
      /\ \A n \in 1 .. MaxRequests : n # count' => requests'[n] = requests[n]
  BY <1>1, <1>2, <1>3
<1>5. RequestsOK'
  BY <1>4 DEF RequestsOK
<1>6. RequestsAgree'
  <2>1. \A n \in 1 .. MaxRequests : n > count' => n > count /\ n # count'
    BY <1>1, <1>2
  <2>2. requests'[count'].stage = "search"
    BY <1>4 DEF Asked
  <2>3. ASSUME NEW n \in 1 .. MaxRequests
        PROVE  /\ n > count' => requests'[n].stage = "new"
               /\ requests'[n].stage = "run" /\ requests'[n].child = "runs" => requests'[n].root # None
    <3>1. CASE n = count'
      BY <1>2, <2>2, <3>1
    <3>2. CASE n # count'
      BY <1>4, <2>1, <3>2 DEF IInv, RequestsAgree
    <3>3. QED
      BY <3>1, <3>2
  <2>4. QED
    BY <2>3 DEF RequestsAgree
<1>7. requests'[count'].mount = m /\ requests'[count'].stage = "search"
  BY <1>4 DEF Asked
<1>9. \E n \in 1 .. count' : IsNewest(n)'
  <2>1. ASSUME NEW n, n = count'
        PROVE  IsNewest(n)'
    BY <1>2, <1>7, <2>1 DEF IsNewest
  <2>2. QED
    BY <1>2, <2>1
<1>10. ASSUME NEW n \in 1 .. count', IsNewest(n)'
       PROVE  n = count'
  BY <1>2, <1>7, <1>10 DEF IsNewest
<1>11. ASSUME NEW n, n = count', NEW x
       PROVE  AnswersFrom(n, x)'
  <2>1. ASSUME NEW i \in 1 .. Len(replies'), replies'[i] \in AnswersTo(n)
        PROVE  FALSE
    <3>1. replies'[i] \in GoodReply
      OBVIOUS
    <3>2. replies'[i].to \in 1 .. count /\ replies'[i].to = n
      BY <2>1, <3>1 DEF GoodReply, AnswersTo
    <3>3. QED
      BY <1>1, <1>11, <3>2
  <2>2. Tells(replies', AnswersTo(n), {}, x)
    BY <2>1 DEF Tells
  <2>3. page'.from # n
    BY <1>2, <1>11
  <2>4. requests'[n].stage # "run"
    BY <1>7, <1>11
  <2>5. QED
    BY <2>2, <2>3, <2>4 DEF AnswersFrom, AnswersTo
<1>12. QED
  BY <1>2, <1>5, <1>6, <1>9, <1>10, <1>11

\* A page asks again, or makes way for another.
LEMMA PageAsks == ASSUME IInv, Refetch \/ Navigate PROVE IInv'
<1>1. /\ UNCHANGED << dirs, saved, root, calls, dialogs, replies, ui, orphaned >>
      /\ page.mount # 0 /\ count < MaxRequests /\ count' = count + 1
  BY DEF Refetch, Navigate, Again, Mount, mainVars
<1>2. count \in 0 .. MaxRequests /\ MaxRequests \in Nat /\ ui.win \in Nat /\ root \in Paths \cup {Fallback}
      /\ page \in [at : {"home", "other"}, mount : 0 .. MaxRequests,
                   data : {"none", "error", Fallback} \cup Paths, from : 0 .. MaxRequests]
      /\ (page.mount # 0 <=> ui.valid)
  BY Static DEF IInv, TypeOK, RequestsOK
<1>3. count + 1 \in 1 .. MaxRequests
  BY <1>1, <1>2
<1>4. PICK m \in 1 .. MaxRequests :
         /\ requests' = [requests EXCEPT ![count + 1] = Asked(m)]
         /\ page'.mount = m /\ page'.from = 0
         /\ page' \in [at : {"home", "other"}, mount : 0 .. MaxRequests,
                   data : {"none", "error", Fallback} \cup Paths, from : 0 .. MaxRequests]
  <2>1. CASE Refetch
    <3>1. page' = [page EXCEPT !.data = "none", !.from = 0] /\ page.mount \in 1 .. MaxRequests
          /\ requests' = [requests EXCEPT ![count + 1] = Asked(page.mount)]
      BY <1>1, <1>2, <2>1 DEF Refetch, Again
    <3>2. page'.mount = page.mount /\ page'.from = 0
          /\ page' \in [at : {"home", "other"}, mount : 0 .. MaxRequests,
                   data : {"none", "error", Fallback} \cup Paths, from : 0 .. MaxRequests]
      <4>1. page' = [at |-> page.at, mount |-> page.mount, data |-> "none", from |-> 0]
        BY <1>2, <3>1
      <4>2. page.at \in {"home", "other"} /\ page.mount \in 0 .. MaxRequests /\ 0 \in 0 .. MaxRequests
        BY <1>2
      <4>3. QED
        BY <4>1, <4>2
    <3>3. QED
      BY <3>1, <3>2
  <2>2. CASE Navigate
    <3>1. PICK at \in {"home", "other"} :
             page' = [at |-> at, mount |-> count + 1, data |-> "none", from |-> 0]
      BY <1>1, <2>2 DEF Navigate, Mount
    <3>2. requests' = [requests EXCEPT ![count + 1] = Asked(count + 1)]
      BY <1>1, <2>2 DEF Navigate, Mount
    <3>3. page'.mount = count + 1 /\ page'.from = 0
          /\ page' \in [at : {"home", "other"}, mount : 0 .. MaxRequests,
                   data : {"none", "error", Fallback} \cup Paths, from : 0 .. MaxRequests]
      BY <1>2, <1>3, <3>1
    <3>4. QED
      BY <1>3, <3>2, <3>3
  <2>3. QED
    BY <2>1, <2>2
<1>5. m \in 0 .. MaxRequests /\ m # 0
  OBVIOUS
<1>6. QueuesOK /\ OneChoice
  BY DEF IInv
<1>7. /\ RequestsOK' /\ RequestsAgree' /\ count' \in 0 .. MaxRequests
      /\ \E n \in 1 .. count' : IsNewest(n)'
      /\ \A n \in 1 .. count' : IsNewest(n)' => \A x : AnswersFrom(n, x)'
  BY <1>1, <1>2, <1>4, <1>5, <1>6, AskedKeeps DEF QueuesOK
<1>8. QueuesOK'
  <2>1. Seq(GoodReply) \subseteq Seq(GoodReply')
    BY <1>1, <1>2, GoodGrows
  <2>2. QED
    BY <1>1, <1>6, <2>1 DEF QueuesOK
<1>9. /\ MyCalls' = MyCalls /\ MySelects' = MySelects /\ MyReplies' = MyReplies /\ Mine' = Mine /\ Named' = Named
      /\ MyChoices' = MyChoices /\ MyValid' = MyValid /\ Resets' = Resets
  BY <1>1, SetsStay
<1>10. OneChoice' /\ WindowAgrees'
  BY <1>1, <1>9 DEF IInv, OneChoice, WindowAgrees
<1>11. PageAgrees'
  BY <1>1, <1>7, <1>9 DEF IInv, PageAgrees
<1>12. TypeOK'
  BY <1>1, <1>2, <1>4, <1>5, <1>7, <1>8, TypesStay DEF IInv, TypeOK
<1>13. QED
  BY <1>7, <1>8, <1>10, <1>11, <1>12 DEF IInv

\* A new window is waiting for nothing but the workspace.
LEMMA ReloadKeeps == ASSUME IInv, Reload PROVE IInv'
<1>1. /\ UNCHANGED << dirs, saved, root, dialogs, replies, requests, count, orphaned >>
      /\ ui' = [Blank EXCEPT !.win = ui.win + 1] /\ page' = NoPage
      /\ calls' = Append(calls, [op |-> "get", win |-> ui.win + 1])
      /\ ui.win < MaxReloads
  BY DEF Reload, mainVars
<1>2. /\ ui.win \in Nat /\ ui.win + 1 \in 0 .. MaxReloads /\ ui'.win = ui.win + 1
      /\ ui'.path = None /\ ui'.valid = FALSE /\ ui'.busy = FALSE /\ ui'.previous = None
      /\ page'.mount = 0 /\ count \in Nat
  BY <1>1, Static DEF Blank, NoPage, IInv, TypeOK
<1>3. QueuesOK
  BY DEF IInv
<1> DEFINE c == [op |-> "get", win |-> ui.win + 1]
           C == {d \in WorkspaceCall : d.win <= ui'.win}
<1>4. calls \in Seq(C) /\ c \in C /\ Append(calls, c) \in Seq(C)
  <2>1. {d \in WorkspaceCall : d.win <= ui.win} \subseteq C
    <3>1. \A d \in WorkspaceCall : d.win \in Nat
      BY Static DEF WorkspaceCall
    <3>2. QED
      BY <1>2, <3>1
  <2>2. calls \in Seq(C)
    BY <1>3, <2>1, Widened DEF QueuesOK
  <2>3. c \in C
    BY <1>2 DEF WorkspaceCall
  <2> HIDE DEF c, C
  <2>4. QED
    BY <2>2, <2>3, Appended
<1>5. QueuesOK'
  <2>1. Seq(GoodReply) \subseteq Seq(GoodReply')
    BY <1>1, <1>2, GoodGrows
  <2>2. dialogs \subseteq 0 .. ui'.win
    BY <1>2, <1>3 DEF QueuesOK
  <2>3. QED
    BY <1>1, <1>3, <1>4, <2>1, <2>2 DEF QueuesOK
<1>6. ui'.win \notin dialogs'
  BY <1>1, <1>2, <1>3 DEF QueuesOK
<1>7. \A i \in 1 .. Len(replies) : replies[i] \notin MyReplies' /\ replies[i] \notin Mine'
  <2>1. \A i \in 1 .. Len(replies) : replies[i] \in GoodReply
    BY <1>3 DEF QueuesOK
  <2>2. ASSUME NEW r \in GoodReply
        PROVE  r \notin MyReplies' /\ r \notin Mine'
    <3>1. r.op # "data" => r.to # ui.win + 1
      BY <1>2, Static DEF GoodReply, Reply
    <3>2. QED
      BY <1>2, <3>1 DEF MyReplies, Mine
  <2>3. QED
    BY <2>1, <2>2
<1>8. /\ Single(replies, MyReplies') /\ Free(replies, 0, MyReplies')
      /\ \A E, x : Tells(replies, Named', E, x)
      /\ \A E, x : Tells(replies, MyValid', E, x)
  <2>1. \A i \in (0 + 1) .. Len(replies) : i \in 1 .. Len(replies)
    OBVIOUS
  <2>2. MyValid' \subseteq Mine' /\ Named' \subseteq Mine'
    BY DEF MyValid, Named
  <2>3. QED
    BY <1>7, <2>1, <2>2 DEF Single, Free, Tells
<1>9. Free(calls', 0, MyCalls') /\ Free(calls', 0, MySelects') /\ Single(calls', MyCalls')
  <2>1. Len(calls) \in Nat /\ Len(calls') = Len(calls) + 1 /\ calls'[Len(calls) + 1] = c
        /\ \A i \in 1 .. Len(calls) : calls'[i] = calls[i]
    BY <1>1, <1>4, Appended
  <2>2. \A i \in 1 .. Len(calls) : calls[i].win # ui.win + 1
    <3>1. \A i \in 1 .. Len(calls) : calls[i] \in WorkspaceCall /\ calls[i].win <= ui.win
      BY <1>3 DEF QueuesOK
    <3>2. \A d \in WorkspaceCall : d.win <= ui.win => d.win # ui.win + 1
      BY <1>2, Static DEF WorkspaceCall
    <3>3. QED
      BY <3>1, <3>2
  <2>3. \A i \in 1 .. Len(calls') : i \in 1 .. Len(calls) \/ i = Len(calls) + 1
    BY <2>1
  <2>4. \A i \in 1 .. Len(calls') : calls'[i] \notin MyCalls' /\ calls'[i] \notin MySelects'
    <3>1. ASSUME NEW i \in 1 .. Len(calls')
          PROVE  calls'[i] \notin MyCalls' /\ calls'[i] \notin MySelects'
      <4>1. CASE i \in 1 .. Len(calls)
        <5>1. calls'[i].win # ui'.win
          BY <1>2, <2>1, <2>2, <4>1
        <5>2. QED
          BY <5>1 DEF MyCalls, MySelects
      <4>2. CASE i = Len(calls) + 1
        <5>1. calls'[i].op = "get"
          BY <2>1, <4>2
        <5>2. QED
          BY <5>1 DEF MyCalls, MySelects
      <4>3. QED
        BY <2>3, <4>1, <4>2
    <3>2. QED
      BY <3>1
  <2>5. \A i \in (0 + 1) .. Len(calls') : i \in 1 .. Len(calls')
    OBVIOUS
  <2>6. QED
    BY <2>4, <2>5 DEF Free, Single
<1>10. OneChoice'
  BY <1>1, <1>2, <1>6, <1>8, <1>9 DEF OneChoice
<1>11. WindowAgrees'
  BY <1>1, <1>2, <1>6, <1>8, <1>9 DEF WindowAgrees
<1>12. PageAgrees'
  BY <1>2 DEF PageAgrees
<1>13. RequestsAgree'
  BY <1>1 DEF IInv, RequestsAgree
<1>14. RequestsOK'
  BY <1>1 DEF IInv, TypeOK, RequestsOK
<1>15. TypeOK'
  <2>1. ui' \in [win : 0 .. MaxReloads, path : Paths \cup {None}, valid : BOOLEAN,
               status : {"loading", "ready", "error"}, busy : BOOLEAN,
               previous : Paths \cup {None}]
    BY <1>1, <1>2 DEF Blank
  <2>2. page' \in [at : {"home", "other"}, mount : 0 .. MaxRequests,
                 data : {"none", "error", Fallback} \cup Paths, from : 0 .. MaxRequests]
    BY <1>1, Static DEF NoPage
  <2>3. page'.mount # 0 <=> ui'.valid
    BY <1>2
  <2>4. QED
    BY <1>1, <1>5, <1>14, <2>1, <2>2, <2>3, TypesStay DEF IInv, TypeOK
<1>16. QED
  BY <1>5, <1>10, <1>11, <1>12, <1>13, <1>15 DEF IInv

\* No property is about which directories there are now.
LEMMA ChangeDirsKeeps == ASSUME IInv, ChangeDirs PROVE IInv'
<1>1. /\ UNCHANGED << saved, root, calls, dialogs, replies, ui, page, requests, count, orphaned >>
      /\ dirs' \subseteq Paths
  BY ConstantsAssumption DEF ChangeDirs, IInv, TypeOK
<1>2. /\ MyCalls' = MyCalls /\ MySelects' = MySelects /\ MyReplies' = MyReplies /\ Mine' = Mine /\ Named' = Named
      /\ MyChoices' = MyChoices /\ MyValid' = MyValid /\ Resets' = Resets /\ GoodReply' = GoodReply
  BY <1>1, SetsStay
<1>3. QueuesOK' /\ OneChoice' /\ WindowAgrees' /\ RequestsAgree'
  BY <1>1, <1>2 DEF IInv, QueuesOK, OneChoice, WindowAgrees, RequestsAgree
<1>4. PageAgrees'
  <2>1. ASSUME page.mount # 0, ~orphaned', Free(replies', 0, Resets')
        PROVE  ~orphaned /\ Free(replies, 0, Resets) /\ root' = ui.path /\ saved' = ui.path
    BY <1>1, <1>2, <2>1 DEF IInv, PageAgrees
  <2>2. QED
    BY <1>1, <2>1, PageStays
<1>5. RequestsOK'
  BY <1>1 DEF IInv, TypeOK, RequestsOK
<1>6. TypeOK'
  BY <1>1, <1>3, <1>5, TypesStay DEF IInv, TypeOK
<1>7. QED
  BY <1>3, <1>4, <1>6 DEF IInv

\* What the page does when a reply that succeeded is shown.
LEMMA PageShows ==
    ASSUME IInv, NEW r \in GoodReply, r.op # "data", ui.valid => page.mount # 0, ShowPage(r)
    PROVE  \/ r.valid /\ ui.valid /\ r \notin Resets /\ UNCHANGED << page, requests, count >>
           \/ ~r.valid /\ UNCHANGED << requests, count >> /\ page'.mount = 0
              /\ page' \in [at : {"home", "other"}, mount : 0 .. MaxRequests,
                    data : {"none", "error", Fallback} \cup Paths, from : 0 .. MaxRequests]
           \/ r.valid /\ count < MaxRequests /\ count' = count + 1
              /\ \E m \in 1 .. MaxRequests :
                    /\ requests' = [requests EXCEPT ![count + 1] = Asked(m)]
                    /\ page'.mount = m /\ page'.from = 0
                    /\ page' \in [at : {"home", "other"}, mount : 0 .. MaxRequests,
                          data : {"none", "error", Fallback} \cup Paths, from : 0 .. MaxRequests]
<1> DEFINE P == [at : {"home", "other"}, mount : 0 .. MaxRequests,
                 data : {"none", "error", Fallback} \cup Paths, from : 0 .. MaxRequests]
           Switched == r.op = "select" /\ r.path # ui.previous
<1>1. page \in P /\ count \in 0 .. MaxRequests /\ MaxRequests \in Nat /\ 0 \in 0 .. MaxRequests
  BY Static DEF IInv, TypeOK
<1>2. r \in Reply /\ r.valid \in BOOLEAN /\ (r.valid => r.op # "clear")
  BY Static DEF GoodReply, Reply
<1>3. CASE ~r.valid
  <2>1. PICK at \in {"home", "other"} : Unmount(at)
    BY <1>1, <1>3 DEF ShowPage
  <2>2. /\ page' = [at |-> at, mount |-> 0, data |-> "none", from |-> 0]
        /\ UNCHANGED << requests, count >>
    BY <2>1 DEF Unmount, NoPage
  <2>3. page' \in P /\ page'.mount = 0
    BY <1>1, <2>2
  <2>4. QED
    BY <1>3, <2>2, <2>3
<1>4. ASSUME NEW at \in {"home", "other"}, Mount(at), r.valid
      PROVE  /\ count < MaxRequests /\ count' = count + 1
             /\ \E m \in 1 .. MaxRequests :
                   /\ requests' = [requests EXCEPT ![count + 1] = Asked(m)]
                   /\ page'.mount = m /\ page'.from = 0 /\ page' \in P
  <2>1. /\ count < MaxRequests /\ count' = count + 1
        /\ requests' = [requests EXCEPT ![count + 1] = Asked(count + 1)]
        /\ page' = [at |-> at, mount |-> count + 1, data |-> "none", from |-> 0]
    BY <1>4 DEF Mount
  <2>2. count + 1 \in 1 .. MaxRequests /\ count + 1 \in 0 .. MaxRequests
    BY <1>1, <2>1
  <2>3. page' \in P /\ page'.mount = count + 1 /\ page'.from = 0
    BY <1>1, <2>1, <2>2
  <2>4. QED
    BY <2>1, <2>2, <2>3
<1>5. CASE r.valid /\ ~ui.valid
  <2>1. PICK at \in {"home", "other"} : Mount(at)
    <3>1. \E at \in {page.at} \cup (IF Switched THEN {"home"} ELSE {}) : Mount(at)
      BY <1>5 DEF ShowPage
    <3>2. {page.at} \cup (IF Switched THEN {"home"} ELSE {}) \subseteq {"home", "other"}
      BY <1>1
    <3>3. QED
      BY <3>1, <3>2
  <2>2. QED
    BY <1>4, <1>5, <2>1
<1>6. CASE r.valid /\ ui.valid /\ ~Switched
  <2>1. UNCHANGED << page, requests, count >>
    BY <1>6 DEF ShowPage
  <2>2. r \notin Resets
    BY <1>2, <1>6 DEF Resets
  <2>3. QED
    BY <1>6, <2>1, <2>2
<1>7. CASE r.valid /\ ui.valid /\ Switched
  <2>1. CASE page.at = "home"
    <3>1. /\ count < MaxRequests /\ count' = count + 1
          /\ requests' = [requests EXCEPT ![count + 1] = Asked(page.mount)]
          /\ page' = [page EXCEPT !.data = "none", !.from = 0]
      BY <1>7, <2>1 DEF ShowPage, Again
    <3>2. page' = [at |-> page.at, mount |-> page.mount, data |-> "none", from |-> 0]
      BY <1>1, <3>1
    <3>3. page.at \in {"home", "other"} /\ page.mount \in 1 .. MaxRequests
      BY <1>1, <1>7
    <3>4. page' \in P /\ page'.mount = page.mount /\ page'.from = 0
      BY <1>1, <3>2, <3>3
    <3>5. QED
      BY <1>7, <3>1, <3>3, <3>4
  <2>2. CASE page.at # "home"
    <3>1. Mount("home")
      BY <1>7, <2>2 DEF ShowPage
    <3>2. QED
      BY <1>4, <1>7, <3>1
  <2>3. QED
    BY <2>1, <2>2
<1>8. QED
  BY <1>2, <1>3, <1>5, <1>6, <1>7

\* The reply to a workspace call.
LEMMA DeliverKeeps == ASSUME IInv, Deliver PROVE IInv'
<1> DEFINE r == Head(replies)
           P == [at : {"home", "other"}, mount : 0 .. MaxRequests,
                 data : {"none", "error", Fallback} \cup Paths, from : 0 .. MaxRequests]
           U == [win : 0 .. MaxReloads, path : Paths \cup {None}, valid : BOOLEAN,
                 status : {"loading", "ready", "error"}, busy : BOOLEAN,
                 previous : Paths \cup {None}]
           Other == r.to # ui.win /\ UNCHANGED << ui, page, requests, count >>
           Bad == /\ r.to = ui.win /\ ~r.ok /\ UNCHANGED << page, requests, count >>
                  /\ ui' = [ui EXCEPT !.status = "error", !.busy = FALSE]
           Good == /\ r.to = ui.win /\ r.ok /\ ShowPage(r)
                   /\ ui' = [ui EXCEPT !.path = r.path, !.valid = r.valid, !.status = "ready",
                                       !.busy = IF r.op = "get" THEN @ ELSE FALSE]
<1>1. /\ NextReply /\ r.op # "data"
      /\ UNCHANGED << dirs, saved, root, calls, dialogs, orphaned >>
      /\ Other \/ Bad \/ Good
  BY DEF Deliver, mainVars
<1>2. /\ replies' \in Seq(GoodReply) /\ r \in GoodReply
      /\ \A E : Free(replies, 0, E) <=> r \notin E /\ Free(replies', 0, E)
      /\ Single(replies', MyReplies)
      /\ r \in MyReplies =>
            /\ Free(replies', 0, MyReplies) /\ Free(calls, 0, MyCalls) /\ ui.win \notin dialogs
      /\ \A M, E, x : Tells(replies, M, E, x) => Tells(replies', M, E, x)
      /\ ~orphaned =>
            /\ Tells(replies', Named, MyChoices, saved)
            /\ Tells(replies', MyValid, Resets, saved) /\ Tells(replies', MyValid, Resets, root)
            /\ r \in Mine /\ Free(replies', 0, MyChoices) => r.path \in {None, saved}
            /\ r \in MyValid /\ Free(replies', 0, Resets) => r.path = saved /\ r.path = root
  BY <1>1, ReplyTells
<1>3. /\ ui \in U /\ page \in P /\ count \in 0 .. MaxRequests /\ MaxRequests \in Nat
      /\ ui.win \in Nat /\ (page.mount # 0 <=> ui.valid) /\ root \in Paths \cup {Fallback}
  BY Static DEF IInv, TypeOK, RequestsOK
<1> HIDE DEF r
<1>4. /\ r \in Reply /\ r.path \in Paths \cup {None} /\ r.valid \in BOOLEAN
      /\ (r.op = "get" => r.ok) /\ r.op \in {"get", "select", "clear"}
  BY <1>1, <1>2 DEF GoodReply, Reply
<1>5. ui' \in U /\ ui'.win = ui.win /\ ui'.previous = ui.previous
  <2>1. CASE Other
    BY <1>3, <2>1
  <2>2. CASE Bad
    BY <1>3, <2>2
  <2>3. CASE Good
    <3>1. ui' = [ui EXCEPT !.path = r.path, !.valid = r.valid, !.status = "ready",
                           !.busy = IF r.op = "get" THEN @ ELSE FALSE]
      BY <2>3
    <3> HIDE DEF Other, Bad, Good, P
    <3>2. QED
      BY <1>3, <1>4, <3>1
  <2>4. QED
    BY <1>1, <2>1, <2>2, <2>3
\* The replies that the window shows are those that are its own and succeeded.
<1>6. /\ r \in Mine => Good /\ ui'.path = r.path /\ (ui'.valid <=> r.valid)
      /\ r \notin Mine => ui'.path = ui.path /\ (ui'.valid <=> ui.valid)
                          /\ UNCHANGED << page, requests, count >>
      /\ r \notin MyReplies => (ui'.busy <=> ui.busy)
  BY <1>1, <1>3, <1>4 DEF Mine, MyReplies
<1>7. \/ r \notin Resets /\ UNCHANGED << page, requests, count >>
         /\ (r \in Mine => r \in MyValid) /\ (page.mount # 0 <=> ui'.valid)
      \/ UNCHANGED << requests, count >> /\ page' \in P /\ page'.mount = 0 /\ ~ui'.valid
      \/ r \in MyValid /\ ui'.path = r.path /\ ui'.valid /\ count < MaxRequests /\ count' = count + 1
         /\ \E m \in 1 .. MaxRequests :
               /\ requests' = [requests EXCEPT ![count + 1] = Asked(m)]
               /\ page'.mount = m /\ page'.from = 0 /\ page' \in P
  <2>1. CASE r \notin Mine
    <3>1. r \notin Resets
      BY <2>1 DEF Resets
    <3>2. QED
      BY <1>3, <1>6, <2>1, <3>1
  <2>2. CASE r \in Mine
    <3>1. ShowPage(r) /\ ui'.path = r.path /\ (ui'.valid <=> r.valid)
      BY <1>6, <2>2
    <3>2. r.valid => r \in MyValid
      BY <2>2 DEF MyValid
    <3>3. \/ r.valid /\ ui.valid /\ r \notin Resets /\ UNCHANGED << page, requests, count >>
          \/ ~r.valid /\ UNCHANGED << requests, count >> /\ page'.mount = 0 /\ page' \in P
          \/ r.valid /\ count < MaxRequests /\ count' = count + 1
             /\ \E m \in 1 .. MaxRequests :
                   /\ requests' = [requests EXCEPT ![count + 1] = Asked(m)]
                   /\ page'.mount = m /\ page'.from = 0 /\ page' \in P
      BY <1>1, <1>2, <1>3, <3>1, PageShows
    <3> HIDE DEF P
    <3>4. QED
      BY <1>3, <3>1, <3>2, <3>3
  <2>3. QED
    BY <2>1, <2>2
<1> HIDE DEF P, U, Other, Bad, Good
<1>8. count' \in Nat /\ count' >= count
  BY <1>3, <1>7
<1>9. /\ MyCalls' = MyCalls /\ MySelects' = MySelects /\ MyReplies' = MyReplies /\ Mine' = Mine /\ Named' = Named
      /\ MyChoices' = MyChoices /\ MyValid' = MyValid /\ Resets' = Resets
  BY <1>5, SetsStay
<1>10. QueuesOK'
  <2>1. Seq(GoodReply) \subseteq Seq(GoodReply')
    BY <1>3, <1>5, <1>8, GoodGrows
  <2>2. QED
    BY <1>1, <1>2, <1>5, <2>1 DEF IInv, QueuesOK
<1>11. OneChoice'
  <2>1. OneChoice
    BY DEF IInv
  <2>2. CASE r \in MyReplies
    BY <1>1, <1>2, <1>5, <1>9, <2>1, <2>2 DEF OneChoice
  <2>3. CASE r \notin MyReplies
    BY <1>1, <1>2, <1>5, <1>6, <1>9, <2>1, <2>3 DEF OneChoice
  <2>4. QED
    BY <2>2, <2>3
<1>12. WindowAgrees'
  <2>1. WindowAgrees
    BY DEF IInv
  <2>2. ASSUME ~orphaned, Free(replies', 0, MyChoices)
        PROVE  ui'.path \in {None, saved}
    <3>1. CASE r \in Mine
      BY <1>2, <1>6, <2>2, <3>1
    <3>2. CASE r \notin Mine
      <4>1. r \notin MyChoices
        BY <3>2 DEF MyChoices
      <4>2. Free(replies, 0, MyChoices)
        BY <1>2, <2>2, <4>1
      <4>3. QED
        BY <1>6, <2>1, <2>2, <3>2, <4>2 DEF WindowAgrees
    <3>3. QED
      BY <3>1, <3>2
  <2>3. ASSUME ~orphaned, ui.win \in dialogs \/ ~Free(calls, 0, MySelects)
        PROVE  ui.previous \in {None, saved}
    BY <2>1, <2>3 DEF WindowAgrees
  <2>4. QED
    BY <1>1, <1>2, <1>5, <1>9, <2>2, <2>3 DEF WindowAgrees
\* The page, whichever of the three it does.
<1>13. RequestsOK' /\ RequestsAgree' /\ PageAgrees' /\ count' \in 0 .. MaxRequests
       /\ page' \in P /\ (page'.mount # 0 <=> ui'.valid)
  <2>0. RequestsOK /\ RequestsAgree /\ PageAgrees
    BY DEF IInv, TypeOK
  <2>1. CASE r \notin Resets /\ UNCHANGED << page, requests, count >>
             /\ (r \in Mine => r \in MyValid) /\ (page.mount # 0 <=> ui'.valid)
    <3>1. RequestsOK' /\ RequestsAgree' /\ count' \in 0 .. MaxRequests
          /\ page' \in P /\ (page'.mount # 0 <=> ui'.valid)
      BY <1>1, <1>3, <2>0, <2>1 DEF RequestsOK, RequestsAgree
    <3>2. ASSUME ~orphaned, page.mount # 0, Free(replies', 0, Resets)
          PROVE  /\ root = ui'.path /\ saved = ui'.path
                 /\ \A n \in 1 .. count : IsNewest(n) => AnswersFrom(n, ui'.path)
      <4>1. Free(replies, 0, Resets)
        BY <1>2, <2>1, <3>2
      <4>2. /\ root = ui.path /\ saved = ui.path
            /\ \A n \in 1 .. count : IsNewest(n) => AnswersFrom(n, ui.path)
        BY <2>0, <3>2, <4>1 DEF PageAgrees
      <4>3. ui'.path = ui.path
        BY <1>2, <1>6, <2>1, <3>2, <4>2
      <4>4. QED
        BY <4>2, <4>3
    <3>3. \A n : IsNewest(n)' <=> IsNewest(n)
      BY <2>1 DEF IsNewest
    <3>4. \A n, x : AnswersFrom(n, x) => AnswersFrom(n, x)'
      BY <1>2, <2>1 DEF AnswersFrom, AnswersTo
    <3>5. page.mount # 0 => \E n \in 1 .. count : IsNewest(n)
      BY <2>0 DEF PageAgrees
    <3>6. PageAgrees'
      BY <1>1, <1>9, <2>1, <3>2, <3>3, <3>4, <3>5 DEF PageAgrees
    <3>7. QED
      BY <3>1, <3>6
  <2>2. CASE UNCHANGED << requests, count >> /\ page' \in P /\ page'.mount = 0 /\ ~ui'.valid
    BY <1>1, <1>3, <2>0, <2>2 DEF RequestsOK, RequestsAgree, PageAgrees
  <2>3. CASE r \in MyValid /\ ui'.path = r.path /\ ui'.valid
             /\ count < MaxRequests /\ count' = count + 1
             /\ \E m \in 1 .. MaxRequests :
                   /\ requests' = [requests EXCEPT ![count + 1] = Asked(m)]
                   /\ page'.mount = m /\ page'.from = 0 /\ page' \in P
    <3>1. PICK m \in 1 .. MaxRequests :
                   /\ requests' = [requests EXCEPT ![count + 1] = Asked(m)]
                   /\ page'.mount = m /\ page'.from = 0 /\ page' \in P
      BY <2>3
    <3>2. m \in 0 .. MaxRequests /\ m # 0
      OBVIOUS
    <3>3. /\ RequestsOK' /\ RequestsAgree' /\ count' \in 0 .. MaxRequests
          /\ \E n \in 1 .. count' : IsNewest(n)'
          /\ \A n \in 1 .. count' : IsNewest(n)' => \A x : AnswersFrom(n, x)'
      BY <1>1, <1>2, <1>3, <2>3, <3>1, <3>2, AskedKeeps
    <3>4. ~orphaned /\ Free(replies', 0, Resets) => root = ui'.path /\ saved = ui'.path
      BY <1>2, <2>3
    <3>5. PageAgrees'
      BY <1>1, <1>9, <3>3, <3>4 DEF PageAgrees
    <3>6. QED
      BY <2>3, <3>1, <3>2, <3>3, <3>5
  <2>4. QED
    BY <1>7, <2>1, <2>2, <2>3
<1>14. TypeOK'
  BY <1>1, <1>5, <1>10, <1>13, TypesStay DEF IInv, TypeOK, P, U
<1>15. QED
  BY <1>10, <1>11, <1>12, <1>13, <1>14 DEF IInv

-----------------------------------------------------------------------------
(* The invariants *)

LEMMA NextKeeps == ASSUME IInv, [Next]_vars PROVE IInv'
<1>1. CASE \E w \in 0 .. MaxReloads : Main(w)
  BY <1>1, HandleGetKeeps, HandleSelectKeeps, HandleClearKeeps DEF Main
<1>2. CASE \E w \in 0 .. MaxReloads : CloseDialog(w)
  BY <1>2, CloseDialogKeeps
<1>3. CASE \E n \in 1 .. MaxRequests : Runner(n)
  BY <1>3, RunnerKeeps
<1>4. CASE ClickSelect \/ ClickClear \/ Retry
  BY <1>4, ButtonKeeps
<1>5. CASE Refetch \/ Navigate
  BY <1>5, PageAsks
<1>6. CASE Reload
  BY <1>6, ReloadKeeps
<1>7. CASE Deliver
  BY <1>7, DeliverKeeps
<1>8. CASE DeliverData
  BY <1>8, DeliverDataKeeps
<1>9. CASE ChangeDirs
  BY <1>9, ChangeDirsKeeps
<1>10. CASE UNCHANGED vars
  <2>1. UNCHANGED << dirs, saved, root, calls, dialogs, replies, ui, page, requests, count, orphaned >>
    BY <1>10 DEF vars, mainVars
  <2>2. TypeOK' /\ QueuesOK' /\ OneChoice'
    BY <2>1 DEF IInv, TypeOK, RequestsOK, QueuesOK, OneChoice, MyCalls, MyReplies, GoodReply
  <2>3. WindowAgrees' /\ RequestsAgree'
    BY <2>1 DEF IInv, WindowAgrees, RequestsAgree, Mine, Named, MyChoices, MyValid, MySelects, Resets
  <2>4. PageAgrees'
    BY <2>1 DEF IInv, PageAgrees, IsNewest, AnswersFrom, Mine, Resets
  <2>5. QED
    BY <2>2, <2>3, <2>4 DEF IInv
<1>11. QED
  BY <1>1, <1>2, <1>3, <1>4, <1>5, <1>6, <1>7, <1>8, <1>9, <1>10 DEF Next

\* The window and main agree up to the replies that are to come, whatever dialogs,
\* failures, reloads and commands there were.
THEOREM Invariance == Spec => []IInv
<1>1. Init => IInv
  BY InitKeeps
<1>2. IInv /\ [Next]_vars => IInv'
  BY NextKeeps
<1>3. QED
  BY <1>1, <1>2, PTL DEF Spec

\* When no reply to a workspace call is to come, none makes the page load again.
LEMMA InStepIsFree ==
    ASSUME IInv, InStep
    PROVE  ~orphaned /\ Free(replies, 0, Resets)
<1>1. Len(replies) \in Nat
  BY DEF IInv, QueuesOK
<1>2. \A j \in (0 + 1) .. Len(replies) : replies[j].op = "data"
  BY <1>1 DEF InStep
<1>3. QED
  BY <1>2 DEF InStep, Free, Resets, Mine

\* The workspace that a window shows as valid is the one that commands run in and that
\* the next start shows, unless main acted for a window that is gone
\* (workspace.ts:108-125, WorkspaceContext.tsx:56-94).
THEOREM ShownCorrect == Spec => []ShownIsRoot
<1>1. IInv => ShownIsRoot
  <2>1. ASSUME IInv, InStep, ui.valid
        PROVE  root = ui.path /\ saved = ui.path
    <3>1. page.mount # 0
      BY <2>1 DEF IInv, TypeOK
    <3>2. QED
      BY <2>1, <3>1, InStepIsFree DEF IInv, PageAgrees
  <2>2. QED
    BY <2>1 DEF ShownIsRoot, IInv
<1>2. QED
  BY <1>1, Invariance, PTL

\* The answer to the newest request of a page is of the workspace the window shows,
\* though the root may be another between the request and the reading of it
\* (pythonRunner.ts:306-315, useAsync.ts:45-52).
THEOREM AnswerCorrect == Spec => []NewestAnswerBelongs
<1>1. IInv => NewestAnswerBelongs
  <2>1. SUFFICES ASSUME IInv, InStep, page.mount # 0, page.from = Newest, page.data # "error"
                 PROVE  page.data = ui.path
    BY DEF NewestAnswerBelongs
  <2>2. PICK n \in 1 .. count : IsNewest(n)
    BY <2>1 DEF IInv, PageAgrees
  <2>3. Newest \in 1 .. count /\ IsNewest(Newest)
    BY <2>2 DEF Newest, IsNewest
  <2>4. AnswersFrom(Newest, ui.path)
    BY <2>1, <2>3, InStepIsFree DEF IInv, PageAgrees
  <2>5. QED
    BY <2>1, <2>4 DEF AnswersFrom
<1>2. QED
  BY <1>1, Invariance, PTL
=============================================================================
