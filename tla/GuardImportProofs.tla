-------------------------- MODULE GuardImportProofs --------------------------
(***************************************************************************)
(* Proofs about GuardEvents, GuardJsonl and GuardImport, for any guards,   *)
(* imports, dry runs, command lines and contents of the file.              *)
(* IInv is about the imports: what was approved stays so, because the      *)
(* command of a guard that has written does not change.  FInv is about the *)
(* file alone: what may stand in it, and behind what.                      *)
(***************************************************************************)
EXTENDS GuardImport, FiniteSetTheorems, WellFoundedInduction, TLAPS

-----------------------------------------------------------------------------
(* Induction, by a least counterexample *)

Less == {ss \in Nat \X Nat : ss[1] < ss[2]}

\* A set of natural numbers has a least one.
LEMMA Least ==
    ASSUME NEW T \in SUBSET Nat, T # {}
    PROVE  \E x \in T : \A y \in T : x <= y
<1>1. PICK x \in T : \A y \in T : << y, x >> \notin Less
  BY NatLessThanWellFounded, WFMin DEF OpToRel, Less
<1>2. ASSUME NEW y \in T, y < x
      PROVE  FALSE
  BY <1>1, <1>2 DEF Less
<1>3. QED
  BY <1>1, <1>2

\* f collects what is kept of the first elements of s, up to any number of them.
Collects(f, s, set, last) ==
    f = [n \in 0 .. last |->
            IF n = 0 THEN << >>
            ELSE IF s[n] \in set THEN Append(f[n - 1], s[n]) ELSE f[n - 1]]

LEMMA Collected ==
    ASSUME NEW S, NEW s \in Seq(S), NEW set
    PROVE  \E f : Collects(f, s, set, Len(s))
<1> DEFINE Bad == {m \in 0 .. Len(s) : ~ \E f : Collects(f, s, set, m)}
<1>1. SUFFICES ASSUME Bad # {}
               PROVE  FALSE
  <2>1. Len(s) \in 0 .. Len(s)
    OBVIOUS
  <2>2. QED
    BY <2>1
<1>2. PICK m \in Bad : \A k \in Bad : m <= k
  <2>1. Bad \in SUBSET Nat
    OBVIOUS
  <2>2. QED
    BY <1>1, <2>1, Least
<1>3. m # 0
  <2>1. Collects([n \in 0 .. 0 |-> << >>], s, set, 0)
    BY DEF Collects
  <2>2. QED
    BY <1>2, <2>1
<1>4. PICK f : Collects(f, s, set, m - 1)
  BY <1>2, <1>3
<1> DEFINE g == [n \in 0 .. m |->
                    IF n = m THEN IF s[m] \in set THEN Append(f[m - 1], s[m]) ELSE f[m - 1]
                    ELSE f[n]]
<1>5. ASSUME NEW n \in 0 .. m
      PROVE  g[n] = IF n = 0 THEN << >>
                    ELSE IF s[n] \in set THEN Append(g[n - 1], s[n]) ELSE g[n - 1]
  <2>1. n = 0 \/ n - 1 \in 0 .. m - 1
    BY <1>2
  <2>2. n # 0 => g[n - 1] = f[n - 1]
    BY <1>2, <2>1
  <2>3. CASE n = m
    BY <1>3, <2>2, <2>3
  <2>4. CASE n # m
    <3>1. n \in 0 .. m - 1 /\ g[n] = f[n]
      BY <2>4
    <3>2. f[n] = IF n = 0 THEN << >>
                 ELSE IF s[n] \in set THEN Append(f[n - 1], s[n]) ELSE f[n - 1]
      BY <1>4, <3>1 DEF Collects
    <3>3. QED
      BY <2>2, <3>1, <3>2
  <2>5. QED
    BY <2>3, <2>4
<1>6. Collects(g, s, set, m)
  BY <1>5 DEF Collects
<1>7. QED
  BY <1>2, <1>6

LEMMA KeptIsCollected ==
    ASSUME NEW S, NEW s \in Seq(S), NEW set
    PROVE  \E f : Collects(f, s, set, Len(s)) /\ Kept(s, set) = f[Len(s)]
<1>1. \E f : Collects(f, s, set, Len(s))
  BY Collected
<1>2. QED
  BY <1>1, Zenon DEF Kept, Collects

\* Two that collect from sequences with the same beginning agree on it.
LEMMA CollectsOnce ==
    ASSUME NEW s, NEW t, NEW set, NEW m \in Nat, NEW n \in Nat, m <= n,
           NEW f, NEW g, Collects(f, s, set, m), Collects(g, t, set, n),
           \A k \in 1 .. m : s[k] = t[k]
    PROVE  f[m] = g[m]
<1> DEFINE Bad == {k \in 0 .. m : f[k] # g[k]}
<1>1. SUFFICES ASSUME Bad # {}
               PROVE  FALSE
  OBVIOUS
<1>2. PICK k \in Bad : \A j \in Bad : k <= j
  <2>1. Bad \in SUBSET Nat
    OBVIOUS
  <2>2. QED
    BY <1>1, <2>1, Least
<1>3. /\ f[k] = IF k = 0 THEN << >> ELSE IF s[k] \in set THEN Append(f[k - 1], s[k]) ELSE f[k - 1]
      /\ g[k] = IF k = 0 THEN << >> ELSE IF t[k] \in set THEN Append(g[k - 1], t[k]) ELSE g[k - 1]
  <2>1. k \in 0 .. m /\ k \in 0 .. n
    BY <1>2
  <2>2. QED
    BY <2>1 DEF Collects
<1>4. k # 0 => k \in 1 .. m /\ f[k - 1] = g[k - 1]
  BY <1>2
<1>5. QED
  BY <1>2, <1>3, <1>4

\* What is kept of a longer sequence.
LEMMA KeptOfNothing == \A set : Kept(<< >>, set) = << >>
<1> SUFFICES ASSUME NEW set
             PROVE  Kept(<< >>, set) = << >>
  OBVIOUS
<1>1. << >> \in Seq({}) /\ Len(<< >>) = 0
  OBVIOUS
<1>2. PICK f : Collects(f, << >>, set, 0) /\ Kept(<< >>, set) = f[0]
  BY <1>1, KeptIsCollected
<1>3. QED
  BY <1>2 DEF Collects

LEMMA KeptAppend ==
    ASSUME NEW S, NEW s \in Seq(S), NEW x \in S, NEW set
    PROVE  Kept(Append(s, x), set) = IF x \in set THEN Append(Kept(s, set), x) ELSE Kept(s, set)
<1> DEFINE t == Append(s, x)
<1>1. /\ t \in Seq(S) /\ Len(t) = Len(s) + 1 /\ t[Len(s) + 1] = x /\ Len(s) \in Nat
      /\ \A k \in 1 .. Len(s) : s[k] = t[k]
  OBVIOUS
<1> HIDE DEF t
<1>2. PICK f : Collects(f, s, set, Len(s)) /\ Kept(s, set) = f[Len(s)]
  BY KeptIsCollected
<1>3. PICK g : Collects(g, t, set, Len(s) + 1) /\ Kept(t, set) = g[Len(s) + 1]
  BY <1>1, KeptIsCollected
<1>4. g[Len(s) + 1] = IF t[Len(s) + 1] \in set THEN Append(g[Len(s)], t[Len(s) + 1]) ELSE g[Len(s)]
  <2>1. Len(s) + 1 \in 0 .. Len(s) + 1 /\ Len(s) + 1 # 0 /\ (Len(s) + 1) - 1 = Len(s)
    BY <1>1
  <2>2. QED
    BY <1>3, <2>1 DEF Collects
<1>5. f[Len(s)] = g[Len(s)]
  BY <1>1, <1>2, <1>3, CollectsOnce
<1>6. QED
  BY <1>1, <1>2, <1>3, <1>4, <1>5 DEF t

\* What is kept are the elements in the set, and no others.
LEMMA KeptAreThere ==
    ASSUME NEW S, NEW set, NEW s \in Seq(S)
    PROVE  /\ Kept(s, set) \in Seq(set)
           /\ \A k \in DOMAIN Kept(s, set) : \E m \in DOMAIN s : Kept(s, set)[k] = s[m]
           /\ \A m \in DOMAIN s : s[m] \in set => \E k \in DOMAIN Kept(s, set) : Kept(s, set)[k] = s[m]
<1>1. PICK f : Collects(f, s, set, Len(s)) /\ Kept(s, set) = f[Len(s)]
  BY KeptIsCollected
<1> DEFINE Good(n) == /\ f[n] \in Seq(set)
                      /\ \A k \in 1 .. Len(f[n]) : \E m \in 1 .. n : f[n][k] = s[m]
                      /\ \A m \in 1 .. n : s[m] \in set => \E k \in 1 .. Len(f[n]) : f[n][k] = s[m]
           Bad == {n \in 0 .. Len(s) : ~Good(n)}
<1>2. Len(s) \in Nat /\ DOMAIN s = 1 .. Len(s)
  OBVIOUS
<1>3. ASSUME NEW n \in 0 .. Len(s)
      PROVE  f[n] = IF n = 0 THEN << >>
                    ELSE IF s[n] \in set THEN Append(f[n - 1], s[n]) ELSE f[n - 1]
  BY <1>1, <1>3 DEF Collects
<1>4. Good(0)
  <2>1. f[0] = << >>
    BY <1>2, <1>3
  <2>2. << >> \in Seq(set) /\ Len(<< >>) = 0
    OBVIOUS
  <2>3. 1 .. 0 = {}
    OBVIOUS
  <2>4. QED
    BY <2>1, <2>2, <2>3
<1>5. ASSUME NEW n \in 1 .. Len(s), Good(n - 1)
      PROVE  Good(n)
  <2>1. f[n] = IF s[n] \in set THEN Append(f[n - 1], s[n]) ELSE f[n - 1]
    BY <1>2, <1>3
  <2>2. CASE s[n] \in set
    <3>1. /\ f[n] = Append(f[n - 1], s[n]) /\ f[n] \in Seq(set)
          /\ Len(f[n]) = Len(f[n - 1]) + 1 /\ f[n][Len(f[n])] = s[n]
          /\ \A k \in 1 .. Len(f[n - 1]) : f[n][k] = f[n - 1][k]
      BY <1>5, <2>1, <2>2
    <3>2. ASSUME NEW k \in 1 .. Len(f[n])
          PROVE  \E m \in 1 .. n : f[n][k] = s[m]
      <4>1. CASE k = Len(f[n])
        BY <3>1, <4>1
      <4>2. CASE k # Len(f[n])
        <5>1. k \in 1 .. Len(f[n - 1])
          BY <3>1, <4>2, <1>5
        <5>2. PICK m \in 1 .. n - 1 : f[n - 1][k] = s[m]
          BY <1>5, <5>1
        <5>3. QED
          BY <3>1, <5>1, <5>2
      <4>3. QED
        BY <4>1, <4>2
    <3>3. ASSUME NEW m \in 1 .. n, s[m] \in set
          PROVE  \E k \in 1 .. Len(f[n]) : f[n][k] = s[m]
      <4>1. CASE m = n
        BY <3>1, <4>1, <1>5
      <4>2. CASE m # n
        <5>1. m \in 1 .. n - 1
          BY <4>2
        <5>2. PICK k \in 1 .. Len(f[n - 1]) : f[n - 1][k] = s[m]
          BY <1>5, <3>3, <5>1
        <5>3. k \in 1 .. Len(f[n])
          BY <1>5, <3>1
        <5>4. QED
          BY <3>1, <5>2, <5>3
      <4>3. QED
        BY <4>1, <4>2
    <3>4. QED
      BY <3>1, <3>2, <3>3
  <2>3. CASE s[n] \notin set
    <3>1. f[n] = f[n - 1] /\ \A m \in 1 .. n : s[m] \in set => m \in 1 .. n - 1
      BY <2>1, <2>3
    <3>2. QED
      BY <1>5, <3>1
  <2>4. QED
    BY <2>2, <2>3
<1>6. Good(Len(s))
  <2> HIDE DEF Good
  <2>1. SUFFICES ASSUME Bad # {}
                 PROVE  FALSE
    BY <1>2
  <2>2. PICK n \in Bad : \A k \in Bad : n <= k
    <3>1. Bad \in SUBSET Nat
      BY <1>2
    <3>2. QED
      BY <2>1, <3>1, Least
  <2>3. n # 0 /\ n - 1 \in 0 .. Len(s)
    BY <1>4, <2>2
  <2>4. QED
    BY <1>5, <2>2, <2>3
<1>7. Kept(s, set) \in Seq(set) /\ DOMAIN Kept(s, set) = 1 .. Len(Kept(s, set))
  BY <1>1, <1>6
<1>8. QED
  BY <1>1, <1>2, <1>6, <1>7

-----------------------------------------------------------------------------
(* The import *)

Manifests == [fields : Fields, guard : Seq(Ids)]

\* The types, and that what is kept for each process is a function.
Typed ==
    /\ TypeOK
    /\ manifest \in Manifests
    /\ copy \in [Importers -> Manifests]
    /\ events \in [Importers -> Seq(Ids)]
    /\ dryEvents \in [DryRuns -> Seq(Ids)]

\* An event in the inbox is that of a guard that has its command for good.
Written(id) == id \in Guards => gpc[id] \notin {"idle", "append"}

\* Events that were validated, and stay valid.
Approved(es) ==
    /\ es # << >> => ValidEvents(es)
    /\ \A k \in DOMAIN es : Written(es[k])

AllApproved ==
    /\ artifact \in Placed \/ Approved(artifact)
    /\ Approved(decisions) /\ Approved(manifest.guard)
    /\ \A i \in Importers : Approved(events[i])
    /\ \A d \in DryRuns : Approved(dryEvents[d])

InboxOK ==
    /\ \A k \in DOMAIN inbox : Written(inbox[k])
    /\ \A g \in Guards : gpc[g] \in {"newline", "ok"} => \E k \in DOMAIN inbox : inbox[k] = g

Past(i, state) ==
    CASE state = "read"      -> pc[i] \in {"read", "validated", "checked", "replaced", "done"}
      [] state = "validated" -> pc[i] \in {"validated", "checked", "replaced", "done"}
      [] state = "replaced"  -> pc[i] \in {"replaced", "done"}

\* What an import knows, and what the others leave true of it.
ImportOK(i) ==
    /\ Past(i, "read") =>
          /\ source[i] \in {"inbox", "canonical"}
          /\ source[i] = "canonical" => artifact # << >>
          /\ copy[i].fields \notin {"absent", "torn"}
          /\ copy[i].fields = "bare" => bare
          /\ copy[i].fields = "final" => runner = "finished"
    /\ Past(i, "validated") =>
          /\ events[i] # << >>
          /\ source[i] = "inbox" => \A g \in owed[i] : \E k \in DOMAIN events[i] : events[i][k] = g
          /\ source[i] = "canonical" /\ overwrote = {} => events[i] = artifact
    /\ pc[i] = "checked" /\ source[i] = "inbox" /\ artifact # << >> => i \in overtaken
    /\ Past(i, "replaced") => artifact # << >> /\ (overwrote = {} => events[i] = artifact)
    /\ i \in Reading \ stale =>
          copy[i].fields = IF manifest.fields = "absent" THEN "bare" ELSE manifest.fields
    /\ pc[i] = "done" /\ copy[i].fields = "final" => manifest.guard # << >>

ManifestOK ==
    /\ manifest.guard # << >> => artifact # << >> /\ (overwrote = {} => manifest.guard = artifact)
    /\ overwrote \subseteq overtaken
    /\ manifest.fields = "absent" => runner = "new"
    /\ manifest.fields = "final" => runner = "finished"
    /\ manifest.fields = "bare" => bare
    /\ runner = "closing" /\ ~clobbered => manifest.fields = "torn"
    /\ runner = "finished" /\ ~clobbered => manifest.fields = "final"

IInv ==
    /\ Typed
    /\ AllApproved
    /\ InboxOK
    /\ \A i \in Importers : ImportOK(i)
    /\ ManifestOK

\* What an approved sequence rests on.
LEMMA ApprovedLasts ==
    ASSUME NEW es, Approved(es),
           \A g \in Guards : Written(g) => Written(g)' /\ command'[g] = command[g]
    PROVE  Approved(es)'
<1>1. ASSUME NEW k \in DOMAIN es
      PROVE  Written(es[k])' /\ EventOf(es[k])' = EventOf(es[k])
  <2>1. Written(es[k])
    BY DEF Approved
  <2>2. QED
    BY <2>1 DEF Written, EventOf
<1>2. ValidEvents(es) => ValidEvents(es)'
  BY <1>1 DEF ValidEvents
<1>3. QED
  BY <1>1, <1>2 DEF Approved

\* Nothing but what guards do changes what is approved.
LEMMA SameApproved ==
    ASSUME UNCHANGED guardVars
    PROVE  \A es : Approved(es) => Approved(es)'
<1>1. \A g \in Guards : Written(g) => Written(g)' /\ command'[g] = command[g]
  BY DEF guardVars, Written
<1>2. QED
  BY <1>1, ApprovedLasts

LEMMA EmptyApproved == Approved(<< >>)
BY DEF Approved

\* What was placed is not the event of a guard of this model.
LEMMA ArtifactWritten == AllApproved => \A k \in DOMAIN artifact : Written(artifact[k])
<1>1. ASSUME NEW es \in Placed, NEW k \in DOMAIN es
      PROVE  Written(es[k])
  <2>1. es \in Seq(DOMAIN Older)
    BY PlacedAssumption
  <2>2. es[k] \notin Guards
    BY <2>1, GuardAssumption
  <2>3. QED
    BY <2>2 DEF Written
<1>2. QED
  BY <1>1 DEF AllApproved, Approved

\* The events of the inbox are those of guards that have written.
LEMMA InboxEvents ==
    ASSUME TypeOK, InboxOK
    PROVE  /\ EventsOf(inbox) \in Seq(Ids)
           /\ \A k \in DOMAIN EventsOf(inbox) : \E m \in DOMAIN inbox : EventsOf(inbox)[k] = inbox[m]
           /\ \A k \in DOMAIN EventsOf(inbox) : Written(EventsOf(inbox)[k])
           /\ \A g \in Reported : \E k \in DOMAIN EventsOf(inbox) : EventsOf(inbox)[k] = g
<1>1. inbox \in Seq(Ids \cup {Newline, Part})
  BY DEF TypeOK, GuardTypeOK
<1>2. /\ Kept(inbox, Ids) \in Seq(Ids)
      /\ \A k \in DOMAIN Kept(inbox, Ids) : \E m \in DOMAIN inbox : Kept(inbox, Ids)[k] = inbox[m]
      /\ \A m \in DOMAIN inbox : inbox[m] \in Ids =>
            \E k \in DOMAIN Kept(inbox, Ids) : Kept(inbox, Ids)[k] = inbox[m]
  <2>1. ASSUME NEW S, NEW s \in Seq(S)
        PROVE  /\ Kept(s, Ids) \in Seq(Ids)
               /\ \A k \in DOMAIN Kept(s, Ids) : \E m \in DOMAIN s : Kept(s, Ids)[k] = s[m]
               /\ \A m \in DOMAIN s : s[m] \in Ids =>
                     \E k \in DOMAIN Kept(s, Ids) : Kept(s, Ids)[k] = s[m]
    BY KeptAreThere
  <2>2. QED
    BY <1>1, <2>1
<1>3. \A g \in Reported : \E m \in DOMAIN inbox : inbox[m] = g /\ inbox[m] \in Ids
  BY DEF Reported, InboxOK, Ids
<1>4. QED
  BY <1>2, <1>3 DEF InboxOK, EventsOf

LEMMA ImportInit == Init => IInv
<1> SUFFICES ASSUME Init
             PROVE  IInv
  OBVIOUS
<1>1. inbox \in Seq(DOMAIN Older \cup {Newline, Part}) /\ inbox = before /\ before \in Earlier
  BY GuardAssumption DEF Init, GuardInit
<1>2. inbox \in Seq(Ids \cup {Newline, Part})
  BY <1>1 DEF Ids
<1>3. InboxOK
  <2>1. ASSUME NEW k \in DOMAIN inbox
        PROVE  inbox[k] \notin Guards
    BY <1>1, GuardAssumption
  <2>2. QED
    BY <2>1 DEF InboxOK, Written, Init, GuardInit
<1>4. << >> \in Seq(Ids) /\ NoManifest \in Manifests /\ NoManifest.guard = << >>
      /\ NoManifest.fields = "absent"
  BY DEF NoManifest, Manifests, Fields
<1>5. Typed
  <2>1. artifact \in Seq(Ids)
    <3>1. artifact \in Seq(DOMAIN Older)
      BY PlacedAssumption DEF Init
    <3>2. QED
      BY <3>1 DEF Ids
  <2>2. QED
    BY <1>1, <1>2, <1>4, <2>1 DEF Init, GuardInit, Typed, TypeOK, GuardTypeOK, IsManifest, Manifests
<1>6. AllApproved
  BY <1>4, EmptyApproved DEF Init, AllApproved
<1>7. \A i \in Importers : ImportOK(i)
  BY DEF Init, ImportOK, Past, Reading
<1>8. ManifestOK
  BY <1>4 DEF Init, ManifestOK
<1>9. QED
  BY <1>3, <1>5, <1>6, <1>7, <1>8 DEF IInv

-----------------------------------------------------------------------------
(* Guards *)

\* A guard changes its own command only, and not once it has written.
LEMMA GuardKeepsWritten ==
    ASSUME TypeOK, InboxOK, GuardNext
    PROVE  \A g \in Guards : Written(g) => Written(g)' /\ command'[g] = command[g]
<1>1. PICK g \in Guards :
          \/ \E c \in Commands : StartGuard(g, c)
          \/ WriteLine(g) \/ WriteNewline(g) \/ FailLine(g) \/ FailNewline(g)
  BY DEF GuardNext
<1>2. /\ gpc \in [Guards -> {"idle", "append", "newline", "ok", "failed"}]
      /\ command \in [Guards -> Commands \cup {None}]
  BY DEF TypeOK, GuardTypeOK
<1>3. \A h \in Guards \ {g} : gpc'[h] = gpc[h] /\ command'[h] = command[h]
  BY <1>1, <1>2 DEF StartGuard, WriteLine, WriteNewline, FailLine, FailNewline, GuardGoto
<1>4. Written(g) => Written(g)' /\ command'[g] = command[g]
  BY <1>1, <1>2 DEF StartGuard, WriteLine, WriteNewline, FailLine, FailNewline, GuardGoto, Written
<1>5. QED
  BY <1>3, <1>4 DEF Written

\* The file grows by one piece or not at all, by an event only when its guard writes it.
LEMMA InboxGrows ==
    ASSUME TypeOK, GuardNext
    PROVE  \/ inbox' = inbox /\ \A g \in Guards : gpc'[g] \in {"newline", "ok"} =>
                                   gpc[g] \in {"newline", "ok"}
           \/ \E x \in {Newline, Part} :
                 /\ inbox' = Append(inbox, x)
                 /\ \A g \in Guards : gpc'[g] \in {"newline", "ok"} => gpc[g] \in {"newline", "ok"}
           \/ \E g \in Guards :
                 /\ inbox' = Append(inbox, g) /\ gpc[g] = "append" /\ gpc'[g] = "newline"
                 /\ \A h \in Guards \ {g} : gpc'[h] = gpc[h]
<1>1. PICK g \in Guards :
          \/ \E c \in Commands : StartGuard(g, c)
          \/ WriteLine(g) \/ WriteNewline(g) \/ FailLine(g) \/ FailNewline(g)
  BY DEF GuardNext
<1>2. gpc \in [Guards -> {"idle", "append", "newline", "ok", "failed"}]
  BY DEF TypeOK, GuardTypeOK
<1>3. CASE WriteLine(g)
  BY <1>2, <1>3 DEF WriteLine, GuardGoto
<1>4. CASE WriteNewline(g)
  BY <1>2, <1>4 DEF WriteNewline, GuardGoto
<1>5. CASE FailLine(g)
  BY <1>2, <1>5 DEF FailLine, GuardGoto
<1>6. CASE FailNewline(g) \/ \E c \in Commands : StartGuard(g, c)
  BY <1>2, <1>6 DEF FailNewline, StartGuard, GuardGoto
<1>7. QED
  BY <1>1, <1>3, <1>4, <1>5, <1>6

LEMMA GuardType ==
    ASSUME TypeOK, GuardNext
    PROVE  GuardTypeOK'
<1>1. PICK g \in Guards :
          \/ \E c \in Commands : StartGuard(g, c)
          \/ WriteLine(g) \/ WriteNewline(g) \/ FailLine(g) \/ FailNewline(g)
  BY DEF GuardNext
<1>2. GuardTypeOK
  BY DEF TypeOK
<1>3. gpc' \in [Guards -> {"idle", "append", "newline", "ok", "failed"}]
  BY <1>1, <1>2 DEF StartGuard, WriteLine, WriteNewline, FailLine, FailNewline, GuardGoto, GuardTypeOK
<1>4. command' \in [Guards -> Commands \cup {None}]
  BY <1>1, <1>2 DEF StartGuard, WriteLine, WriteNewline, FailLine, FailNewline, GuardTypeOK
<1>5. before' = before /\ torn' \in BOOLEAN
  BY <1>1, <1>2 DEF StartGuard, WriteLine, WriteNewline, FailLine, FailNewline, GuardTypeOK
<1>6. inbox' \in Seq(Ids \cup {Newline, Part})
  BY <1>2, InboxGrows DEF GuardTypeOK, Ids
<1>7. QED
  BY <1>2, <1>3, <1>4, <1>5, <1>6 DEF GuardTypeOK

LEMMA GuardKeepsInbox ==
    ASSUME TypeOK, InboxOK, GuardNext
    PROVE  InboxOK'
<1> DEFINE Stays(x) == x \in Guards => gpc'[x] \notin {"idle", "append"}
           There(g, file) == \E k \in DOMAIN file : file[k] = g
<1>1. inbox \in Seq(Ids \cup {Newline, Part})
  BY DEF TypeOK, GuardTypeOK
<1>2. /\ \A k \in DOMAIN inbox : Stays(inbox[k])
      /\ \A g \in Guards : gpc[g] \in {"newline", "ok"} => There(g, inbox)
  BY GuardKeepsWritten DEF InboxOK, Written
<1>3. ASSUME NEW x \in {Newline, Part} \cup Guards, inbox' = Append(inbox, x), Stays(x)
      PROVE  /\ \A k \in DOMAIN inbox' : Stays(inbox'[k])
             /\ \A g \in Guards : There(g, inbox) \/ g = x => There(g, inbox')
  <2>1. /\ \A k \in DOMAIN inbox' : k \in DOMAIN inbox \/ k = Len(inbox) + 1
        /\ Len(inbox) + 1 \in DOMAIN inbox' /\ inbox'[Len(inbox) + 1] = x
        /\ \A k \in DOMAIN inbox : k \in DOMAIN inbox' /\ inbox'[k] = inbox[k]
    BY <1>1, <1>3 DEF Ids
  <2> HIDE DEF Stays
  <2>2. QED
    BY <1>2, <1>3, <2>1
<1>4. (\A k \in DOMAIN inbox' : Stays(inbox'[k]))
      /\ \A g \in Guards : gpc'[g] \in {"newline", "ok"} => There(g, inbox')
  <2>1. \A x \in {Newline, Part} : Stays(x)
    BY GuardAssumption
  <2>2. CASE \E g \in Guards :
                 /\ inbox' = Append(inbox, g) /\ gpc[g] = "append" /\ gpc'[g] = "newline"
                 /\ \A h \in Guards \ {g} : gpc'[h] = gpc[h]
    <3>1. PICK g \in Guards :
                 /\ inbox' = Append(inbox, g) /\ gpc'[g] = "newline"
                 /\ \A h \in Guards \ {g} : gpc'[h] = gpc[h]
      BY <2>2
    <3>2. Stays(g)
      BY <3>1
    <3> HIDE DEF Stays, There
    <3>3. QED
      BY <1>2, <1>3, <3>1, <3>2
  <2> HIDE DEF Stays, There
  <2>3. QED
    BY <1>2, <1>3, <2>1, <2>2, InboxGrows
<1>5. QED
  BY <1>4 DEF InboxOK, Written

LEMMA GuardStep ==
    ASSUME IInv, GuardNext, UNCHANGED runVars
    PROVE  IInv'
<1>1. TypeOK /\ InboxOK
  BY DEF IInv, Typed
<1>2. Typed'
  BY <1>1, GuardType DEF IInv, Typed, TypeOK, IsManifest, runVars, importVars, dryVars, history
<1>3. AllApproved'
  <2>1. \A es : Approved(es) => Approved(es)'
    BY <1>1, ApprovedLasts, GuardKeepsWritten
  <2>2. QED
    BY <2>1 DEF IInv, AllApproved, runVars, importVars, dryVars
<1>4. \A i \in Importers : ImportOK(i)'
  BY DEF IInv, ImportOK, Past, Reading, runVars, importVars, history
<1>5. ManifestOK'
  BY DEF IInv, ManifestOK, runVars, history
<1>6. QED
  BY <1>1, <1>2, <1>3, <1>4, <1>5, GuardKeepsInbox DEF IInv

-----------------------------------------------------------------------------
(* The runner and the dry run *)

LEMMA RunnerKeeps ==
    ASSUME IInv, OpenFirst \/ WriteFirst \/ OpenLast \/ WriteLast, UNCHANGED guardVars
    PROVE  IInv'
<1> USE DEF OpenFirst, WriteFirst, OpenLast, WriteLast, RunnerStep
<1>1. PICK fields \in {"torn", "running", "final"} :
          /\ runner # "finished"
          /\ runner' \in {"opening", "running", "closing", "finished"}
          /\ fields = "final" <=> runner' = "finished"
          /\ fields = "final" => runner = "closing"
          /\ fields = "torn" <=> runner' \in {"opening", "closing"}
          /\ fields # "torn" => runner # "new"
          /\ IF fields = "torn" \/ manifest.fields = "torn"
             THEN manifest' = [fields |-> fields, guard |-> << >>] /\ stale' = stale \cup Reading
             ELSE UNCHANGED << manifest, stale >>
  OBVIOUS
<1>2. UNCHANGED << artifact, importVars, dryVars, overtaken, overwrote, clobbered, bare, owed >>
  OBVIOUS
<1> HIDE DEF OpenFirst, WriteFirst, OpenLast, WriteLast, RunnerStep
<1>3. InboxOK'
  BY DEF IInv, InboxOK, Written, guardVars
<1>4. CASE fields = "torn" \/ manifest.fields = "torn"
  <2>1. manifest' = [fields |-> fields, guard |-> << >>] /\ stale' = stale \cup Reading
    BY <1>1, <1>4
  <2>2. manifest' \in Manifests /\ manifest'.fields = fields /\ manifest'.guard = << >>
    BY <2>1 DEF Manifests, Fields
  <2>3. Typed'
    <3>1. stale' \in SUBSET Importers
      BY <2>1 DEF IInv, Typed, TypeOK, Reading
    <3>2. QED
      BY <1>1, <1>2, <2>2, <3>1
         DEF IInv, Typed, TypeOK, GuardTypeOK, IsManifest, Manifests, guardVars, importVars, dryVars
  <2>4. AllApproved'
    BY <1>2, <2>2, EmptyApproved, SameApproved DEF IInv, AllApproved, importVars, dryVars
  <2>5. ASSUME NEW i \in Importers
        PROVE  ImportOK(i)'
    <3>1. i \notin (Reading \ stale)'
      BY <1>2, <2>1 DEF Reading, importVars
    <3>2. ImportOK(i)
      BY DEF IInv
    <3>3. Past(i, "read") => copy[i].fields # "final"
      BY <1>1, <3>2 DEF ImportOK
    <3>4. pc[i] = "done" => Past(i, "read")
      BY DEF Past
    <3>5. QED
      BY <1>2, <3>1, <3>2, <3>3, <3>4 DEF ImportOK, Past, importVars
  <2>6. ManifestOK'
    BY <1>1, <1>2, <2>2 DEF IInv, ManifestOK
  <2>7. QED
    BY <1>3, <2>3, <2>4, <2>5, <2>6 DEF IInv
<1>5. CASE ~(fields = "torn" \/ manifest.fields = "torn")
  <2>1. UNCHANGED << manifest, stale >>
    BY <1>1, <1>5
  <2>2. Typed'
    BY <1>1, <1>2, <2>1
       DEF IInv, Typed, TypeOK, GuardTypeOK, IsManifest, Manifests, guardVars, importVars, dryVars
  <2>3. AllApproved'
    BY <1>2, <2>1, SameApproved DEF IInv, AllApproved, importVars, dryVars
  <2>4. ASSUME NEW i \in Importers
        PROVE  ImportOK(i)'
    <3>1. ImportOK(i) /\ (Past(i, "read") => copy[i].fields # "final")
      BY <1>1 DEF IInv, ImportOK
    <3>2. QED
      BY <1>2, <2>1, <3>1 DEF ImportOK, Past, Reading, importVars
  <2>5. ManifestOK'
    BY <1>1, <1>2, <1>5, <2>1 DEF IInv, ManifestOK
  <2>6. QED
    BY <1>3, <2>2, <2>3, <2>4, <2>5 DEF IInv
<1>6. QED
  BY <1>4, <1>5

LEMMA DryRunKeeps ==
    ASSUME IInv, NEW d \in DryRuns, UNCHANGED guardVars,
           FindNone(d) \/ Load(d) \/ Decide(d) \/ FailDryRun(d)
    PROVE  IInv'
<1>1. UNCHANGED << runner, manifest, artifact, importVars, history >>
  BY DEF FindNone, Load, Decide, FailDryRun, DryRunEnds
<1>2. /\ dry' \in [DryRuns -> {"idle", "loaded", "over"}]
      /\ \E es \in {<< >>, artifact} :
            dryEvents' = [dryEvents EXCEPT ![d] = es] /\ (es = << >> \/ ValidEvents(es))
      /\ decisions' \in {decisions, dryEvents[d]}
  BY DEF IInv, Typed, TypeOK, FindNone, Load, Decide, FailDryRun, DryRunEnds
<1>3. Typed /\ artifact \in Seq(Ids) /\ decisions \in Seq(Ids) /\ dryEvents \in [DryRuns -> Seq(Ids)]
  BY DEF IInv, Typed, TypeOK
<1>4. Typed'
  <2>1. PICK es \in {<< >>, artifact} : dryEvents' = [dryEvents EXCEPT ![d] = es]
    BY <1>2
  <2>2. es \in Seq(Ids)
    <3>1. << >> \in Seq(Ids)
      OBVIOUS
    <3>2. QED
      BY <1>3, <2>1, <3>1, Zenon
  <2>3. dryEvents' \in [DryRuns -> Seq(Ids)]
    BY <1>3, <2>1, <2>2
  <2>4. decisions' \in Seq(Ids)
    BY <1>2, <1>3
  <2>5. QED
    BY <1>1, <1>2, <1>3, <2>3, <2>4
       DEF Typed, TypeOK, GuardTypeOK, IsManifest, guardVars, importVars, history
<1>5. AllApproved'
  <2>1. Approved(decisions') /\ \A e \in DryRuns : Approved(dryEvents'[e])
    <3>1. PICK es \in {<< >>, artifact} :
              dryEvents' = [dryEvents EXCEPT ![d] = es] /\ (es = << >> \/ ValidEvents(es))
      BY <1>2
    <3>2. Approved(es)
      <4>1. es # << >> => ValidEvents(es)
        BY <3>1
      <4>2. \A k \in DOMAIN es : Written(es[k])
        <5>1. CASE es = << >>
          BY <5>1
        <5>2. CASE es = artifact
          BY <5>2, ArtifactWritten DEF IInv
        <5>3. QED
          BY <3>1, <5>1, <5>2
      <4>3. QED
        BY <4>1, <4>2 DEF Approved
    <3>3. \A e \in DryRuns : dryEvents'[e] = IF e = d THEN es ELSE dryEvents[e]
      BY <1>3, <3>1
    <3>4. Approved(decisions) /\ \A e \in DryRuns : Approved(dryEvents[e])
      BY DEF IInv, AllApproved
    <3>5. QED
      BY <1>2, <3>2, <3>3, <3>4, Zenon
  <2>2. QED
    BY <1>1, <2>1, SameApproved DEF IInv, AllApproved, importVars
<1>6. InboxOK'
  BY DEF IInv, InboxOK, Written, guardVars
<1>7. (\A i \in Importers : ImportOK(i)') /\ ManifestOK'
  BY <1>1 DEF IInv, ImportOK, ManifestOK, Past, Reading, importVars, history
<1>8. QED
  BY <1>4, <1>5, <1>6, <1>7 DEF IInv

-----------------------------------------------------------------------------
(* The import *)

LEMMA ReadManifestKeeps ==
    ASSUME IInv, NEW i \in Importers, ReadManifest(i), UNCHANGED guardVars
    PROVE  IInv'
<1> USE DEF ReadManifest, Goto
<1>1. UNCHANGED << runner, manifest, artifact, events, dryVars, overtaken, overwrote, stale, clobbered, owed >>
  OBVIOUS
<1>2. PICK s \in {"inbox", "canonical"} :
          source' = [source EXCEPT ![i] = s] /\ (s = "canonical" => artifact # << >>)
  OBVIOUS
<1> DEFINE m == IF manifest.fields = "absent" THEN [fields |-> "bare", guard |-> << >>] ELSE manifest
<1>3. /\ pc[i] = "idle" /\ pc' = [pc EXCEPT ![i] = "read"]
      /\ copy' = [copy EXCEPT ![i] = m]
      /\ bare' = (bare \/ manifest.fields = "absent")
  OBVIOUS
<1>4. /\ m \in Manifests /\ m.fields \notin {"absent", "torn"}
      /\ m.fields = IF manifest.fields = "absent" THEN "bare" ELSE manifest.fields
      /\ m.fields = "bare" => bare'
      /\ m.fields = "final" => runner = "finished"
  <2>1. manifest \in Manifests /\ manifest.fields # "torn" /\ ManifestOK
    BY DEF IInv, Typed
  <2>2. CASE manifest.fields = "absent"
    <3>1. << >> \in Seq(Ids)
      OBVIOUS
    <3>2. m \in Manifests /\ m.fields = "bare"
      BY <2>2, <3>1 DEF Manifests, Fields
    <3>3. bare'
      BY <1>3, <2>2, Zenon
    <3>4. QED
      BY <2>2, <3>2, <3>3
  <2>3. CASE manifest.fields # "absent"
    BY <1>3, <2>1, <2>3 DEF ManifestOK
  <2>4. QED
    BY <2>2, <2>3
<1> HIDE DEF m, ReadManifest, Goto
<1>5. Typed'
  BY <1>1, <1>2, <1>3, <1>4
     DEF IInv, Typed, TypeOK, GuardTypeOK, IsManifest, Manifests, guardVars, dryVars
<1>6. AllApproved' /\ InboxOK'
  BY <1>1, SameApproved DEF IInv, AllApproved, InboxOK, Written, guardVars, dryVars
<1>7. /\ pc'[i] = "read" /\ source'[i] = s /\ copy'[i] = m
      /\ \A j \in Importers \ {i} : pc'[j] = pc[j] /\ source'[j] = source[j] /\ copy'[j] = copy[j]
  BY <1>2, <1>3 DEF IInv, Typed, TypeOK
<1>8. ImportOK(i)'
  BY <1>1, <1>2, <1>4, <1>7 DEF ImportOK, Past
<1>9. ASSUME NEW j \in Importers \ {i}
      PROVE  ImportOK(j)'
  <2>1. ImportOK(j) /\ (bare => bare') /\ (j \in Reading' => j \in Reading)
    BY <1>3, <1>7 DEF IInv, Reading
  <2>2. QED
    BY <1>1, <1>7, <2>1 DEF ImportOK, Past
<1>10. ManifestOK'
  BY <1>1, <1>3 DEF IInv, ManifestOK
<1>11. QED
  BY <1>5, <1>6, <1>8, <1>9, <1>10 DEF IInv

LEMMA ValidateKeeps ==
    ASSUME IInv, NEW i \in Importers, Validate(i), UNCHANGED guardVars
    PROVE  IInv'
<1> DEFINE es == SourceEvents(i)
<1>1. /\ pc[i] = "read" /\ pc' = [pc EXCEPT ![i] = "validated"]
      /\ events' = [events EXCEPT ![i] = es] /\ owed' = [owed EXCEPT ![i] = Reported]
      /\ ValidEvents(es)
      /\ UNCHANGED << runner, manifest, artifact, source, copy, dryVars,
                      overtaken, overwrote, stale, clobbered, bare >>
  BY DEF Validate, Goto
<1>2. source[i] \in {"inbox", "canonical"}
  BY <1>1 DEF IInv, ImportOK, Past
<1>3. /\ es \in Seq(Ids) /\ Approved(es) /\ es # << >>
      /\ source[i] = "inbox" => \A g \in Reported : \E k \in DOMAIN es : es[k] = g
      /\ source[i] = "canonical" => es = artifact
  <2>1. TypeOK /\ InboxOK /\ artifact \in Seq(Ids) /\ \A k \in DOMAIN artifact : Written(artifact[k])
    BY ArtifactWritten DEF IInv, Typed, TypeOK
  <2>2. CASE source[i] = "inbox"
    <3>1. es = EventsOf(inbox)
      BY <2>2 DEF SourceEvents
    <3>2. QED
      BY <1>1, <2>1, <2>2, <3>1, InboxEvents DEF Approved, ValidEvents
  <2>3. CASE source[i] = "canonical"
    BY <1>1, <2>1, <2>3 DEF SourceEvents, ValidEvents, Approved
  <2>4. QED
    BY <1>2, <2>2, <2>3
<1> HIDE DEF es
<1>4. Typed'
  <2>1. Reported \in SUBSET Guards
    BY DEF Reported
  <2>2. QED
    BY <1>1, <1>3, <2>1 DEF IInv, Typed, TypeOK, GuardTypeOK, IsManifest, Manifests, guardVars, dryVars
<1>5. /\ pc'[i] = "validated" /\ events'[i] = es /\ owed'[i] = Reported
      /\ \A j \in Importers \ {i} : pc'[j] = pc[j] /\ events'[j] = events[j] /\ owed'[j] = owed[j]
  BY <1>1 DEF IInv, Typed, TypeOK
<1>6. AllApproved' /\ InboxOK'
  <2>1. \A j \in Importers : Approved(events'[j])
    BY <1>3, <1>5 DEF IInv, AllApproved
  <2>2. QED
    BY <1>1, <2>1, SameApproved DEF IInv, AllApproved, InboxOK, Written, guardVars, dryVars
<1>7. ImportOK(i)'
  BY <1>1, <1>3, <1>5 DEF IInv, ImportOK, Past, Reading
<1>8. ASSUME NEW j \in Importers \ {i}
      PROVE  ImportOK(j)'
  BY <1>1, <1>5 DEF IInv, ImportOK, Past, Reading
<1>9. ManifestOK'
  BY <1>1 DEF IInv, ManifestOK
<1>10. QED
  BY <1>4, <1>6, <1>7, <1>8, <1>9 DEF IInv

LEMMA CheckKeeps ==
    ASSUME IInv, NEW i \in Importers, Check(i), UNCHANGED guardVars
    PROVE  IInv'
<1>1. /\ artifact = << >> \/ source[i] = "canonical"
      /\ pc[i] = "validated" /\ pc' = [pc EXCEPT ![i] = "checked"]
      /\ UNCHANGED << runner, manifest, artifact, source, copy, events, dryVars, history >>
  BY DEF Check, Goto
<1>2. Typed'
  BY <1>1 DEF IInv, Typed, TypeOK, GuardTypeOK, IsManifest, Manifests, guardVars, dryVars, history
<1>3. AllApproved' /\ InboxOK'
  BY <1>1, SameApproved DEF IInv, AllApproved, InboxOK, Written, guardVars, dryVars
<1>4. pc'[i] = "checked" /\ \A j \in Importers \ {i} : pc'[j] = pc[j]
  BY <1>1 DEF IInv, Typed, TypeOK
<1>5. \A j \in Importers : ImportOK(j)'
  BY <1>1, <1>4 DEF IInv, ImportOK, Past, Reading, history
<1>6. ManifestOK'
  BY <1>1 DEF IInv, ManifestOK, history
<1>7. QED
  BY <1>2, <1>3, <1>5, <1>6 DEF IInv

LEMMA ReplaceKeeps ==
    ASSUME IInv, NEW i \in Importers, Replace(i), UNCHANGED guardVars
    PROVE  IInv'
<1>1. /\ pc[i] = "checked" /\ pc' = [pc EXCEPT ![i] = "replaced"]
      /\ UNCHANGED << runner, manifest, source, copy, events, dryVars, stale, clobbered, bare, owed >>
  BY DEF Replace, Goto
<1>2. /\ source[i] \in {"inbox", "canonical"} /\ events[i] # << >>
      /\ source[i] = "canonical" => artifact # << >> /\ (overwrote = {} => events[i] = artifact)
      /\ source[i] = "inbox" /\ artifact # << >> => i \in overtaken
  BY <1>1 DEF IInv, ImportOK, Past
<1>3. pc'[i] = "replaced" /\ \A j \in Importers \ {i} : pc'[j] = pc[j]
  BY <1>1 DEF IInv, Typed, TypeOK
<1>4. CASE source[i] = "canonical"
  <2>1. UNCHANGED << artifact, overtaken, overwrote >>
    BY <1>4 DEF Replace
  <2>2. Typed'
    BY <1>1, <2>1 DEF IInv, Typed, TypeOK, GuardTypeOK, IsManifest, Manifests, guardVars, dryVars
  <2>3. AllApproved' /\ InboxOK'
    BY <1>1, <2>1, SameApproved DEF IInv, AllApproved, InboxOK, Written, guardVars, dryVars
  <2>4. \A j \in Importers : ImportOK(j)'
    BY <1>1, <1>2, <1>3, <1>4, <2>1 DEF IInv, ImportOK, Past, Reading
  <2>5. ManifestOK'
    BY <1>1, <2>1 DEF IInv, ManifestOK
  <2>6. QED
    BY <2>2, <2>3, <2>4, <2>5 DEF IInv
<1>5. CASE source[i] = "inbox"
  <2>1. /\ artifact' = events[i]
        /\ overtaken' = overtaken \cup {j \in Importers \ {i} : pc[j] = "checked"}
        /\ overwrote' = IF artifact = << >> THEN overwrote ELSE overwrote \cup {i}
    BY <1>5 DEF Replace
  <2>2. Typed'
    <3>1. artifact' \in Seq(Ids) /\ overtaken' \in SUBSET Importers /\ overwrote' \in SUBSET Importers
      BY <2>1 DEF IInv, Typed, TypeOK
    <3>2. QED
      BY <1>1, <3>1 DEF IInv, Typed, TypeOK, GuardTypeOK, IsManifest, Manifests, guardVars, dryVars
  <2>3. AllApproved' /\ InboxOK'
    <3>1. Approved(artifact')
      BY <2>1 DEF IInv, AllApproved
    <3>2. QED
      BY <1>1, <3>1, SameApproved DEF IInv, AllApproved, InboxOK, Written, guardVars, dryVars
  <2>4. artifact' # << >> /\ (overwrote' = {} => artifact = << >> /\ overwrote = {})
    BY <1>2, <2>1
  <2>5. ImportOK(i)'
    BY <1>1, <1>3, <1>5, <2>1, <2>4 DEF IInv, ImportOK, Past, Reading
  <2>6. ASSUME NEW j \in Importers \ {i}
        PROVE  ImportOK(j)'
    BY <1>1, <1>3, <2>1, <2>4 DEF IInv, ImportOK, Past, Reading
  <2>7. ManifestOK'
    BY <1>1, <1>2, <1>5, <2>1, <2>4 DEF IInv, ManifestOK
  <2>8. QED
    BY <2>2, <2>3, <2>5, <2>6, <2>7 DEF IInv
<1>6. QED
  BY <1>2, <1>4, <1>5

LEMMA SaveKeeps ==
    ASSUME IInv, NEW i \in Importers, Save(i), UNCHANGED guardVars
    PROVE  IInv'
<1>1. /\ pc[i] = "replaced" /\ pc' = [pc EXCEPT ![i] = "done"]
      /\ manifest' = [copy[i] EXCEPT !.guard = events[i]]
      /\ stale' = (stale \cup Reading) \ {i}
      /\ clobbered' = (clobbered \/ i \in stale)
      /\ UNCHANGED << runner, artifact, source, copy, events, dryVars, overtaken, overwrote, bare, owed >>
  BY DEF Save, Goto
<1>2. copy[i] \in Manifests /\ events[i] \in Seq(Ids)
  BY DEF IInv, Typed
<1>3. manifest' \in Manifests /\ manifest'.fields = copy[i].fields /\ manifest'.guard = events[i]
  BY <1>1, <1>2 DEF Manifests
<1>4. Typed'
  <2>1. stale' \in SUBSET Importers /\ clobbered' \in BOOLEAN
    BY <1>1 DEF IInv, Typed, TypeOK, Reading
  <2>2. QED
    BY <1>1, <1>3, <2>1 DEF IInv, Typed, TypeOK, GuardTypeOK, IsManifest, Manifests, guardVars, dryVars
<1>5. AllApproved' /\ InboxOK'
  BY <1>1, SameApproved DEF IInv, AllApproved, InboxOK, Written, guardVars, dryVars
<1>6. pc'[i] = "done" /\ \A j \in Importers \ {i} : pc'[j] = pc[j]
  BY <1>1 DEF IInv, Typed, TypeOK
<1>7. /\ events[i] # << >> /\ artifact # << >> /\ (overwrote = {} => events[i] = artifact)
      /\ copy[i].fields \notin {"absent", "torn"}
      /\ copy[i].fields = "bare" => bare
      /\ copy[i].fields = "final" => runner = "finished"
      /\ i \notin stale => copy[i].fields = IF manifest.fields = "absent" THEN "bare" ELSE manifest.fields
  BY <1>1 DEF IInv, ImportOK, Past, Reading
<1>8. ASSUME NEW j \in Importers
      PROVE  ImportOK(j)'
  <2>1. j \notin (Reading \ stale)'
    BY <1>1, <1>6 DEF Reading
  <2>2. QED
    BY <1>1, <1>3, <1>6, <1>7, <2>1 DEF IInv, ImportOK, Past
<1>9. ManifestOK'
  BY <1>1, <1>3, <1>7 DEF IInv, ManifestOK
<1>10. QED
  BY <1>4, <1>5, <1>8, <1>9 DEF IInv

LEMMA FailImportKeeps ==
    ASSUME IInv, NEW i \in Importers, FailImport(i), UNCHANGED guardVars
    PROVE  IInv'
<1>1. /\ pc' = [pc EXCEPT ![i] = "failed"] /\ source' = [source EXCEPT ![i] = None]
      /\ copy' = [copy EXCEPT ![i] = NoManifest] /\ events' = [events EXCEPT ![i] = << >>]
      /\ owed' = [owed EXCEPT ![i] = {}] /\ stale' = stale \ {i}
      /\ UNCHANGED << runner, manifest, artifact, dryVars, overtaken, overwrote, clobbered, bare >>
  BY DEF FailImport
<1>2. << >> \in Seq(Ids) /\ NoManifest \in Manifests
  BY DEF NoManifest, Manifests, Fields
<1>3. Typed'
  BY <1>1, <1>2 DEF IInv, Typed, TypeOK, GuardTypeOK, IsManifest, Manifests, guardVars, dryVars
<1>4. /\ pc'[i] = "failed" /\ events'[i] = << >>
      /\ \A j \in Importers \ {i} :
            /\ pc'[j] = pc[j] /\ source'[j] = source[j] /\ copy'[j] = copy[j]
            /\ events'[j] = events[j] /\ owed'[j] = owed[j]
  BY <1>1 DEF IInv, Typed, TypeOK
<1>5. AllApproved' /\ InboxOK'
  <2>1. \A j \in Importers : Approved(events'[j])
    BY <1>4, EmptyApproved DEF IInv, AllApproved
  <2>2. QED
    BY <1>1, <2>1, SameApproved DEF IInv, AllApproved, InboxOK, Written, guardVars, dryVars
<1>6. ImportOK(i)'
  BY <1>4 DEF ImportOK, Past, Reading
<1>7. ASSUME NEW j \in Importers \ {i}
      PROVE  ImportOK(j)'
  BY <1>1, <1>4 DEF IInv, ImportOK, Past, Reading
<1>8. ManifestOK'
  BY <1>1 DEF IInv, ManifestOK
<1>9. QED
  BY <1>3, <1>5, <1>6, <1>7, <1>8 DEF IInv

LEMMA ImportStep == IInv /\ [Next]_vars => IInv'
<1> SUFFICES ASSUME IInv, [Next]_vars
             PROVE  IInv'
  OBVIOUS
<1>1. CASE ImportNext /\ UNCHANGED guardVars
  BY <1>1, RunnerKeeps, ReadManifestKeeps, ValidateKeeps, CheckKeeps, ReplaceKeeps, SaveKeeps,
     FailImportKeeps, DryRunKeeps DEF ImportNext
<1>2. CASE GuardNext /\ UNCHANGED runVars
  BY <1>2, GuardStep
<1>3. CASE UNCHANGED vars
  <2>1. Typed' /\ InboxOK' /\ ManifestOK' /\ \A i \in Importers : ImportOK(i)'
    BY <1>3 DEF IInv, Typed, TypeOK, GuardTypeOK, IsManifest, InboxOK, Written, ManifestOK, ImportOK,
                Past, Reading, vars, guardVars, runVars, importVars, dryVars, history
  <2>2. AllApproved'
    BY <1>3, SameApproved DEF IInv, AllApproved, vars, runVars, importVars, dryVars
  <2>3. QED
    BY <2>1, <2>2 DEF IInv
<1>4. QED
  BY <1>1, <1>2, <1>3 DEF Next

\* The inductive invariant: what is approved stays valid, and what each import knows.
THEOREM ImportInvariance == Spec => []IInv
<1>1. Init => IInv
  BY ImportInit
<1>2. IInv /\ [Next]_vars => IInv'
  BY ImportStep
<1>3. QED
  BY <1>1, <1>2, PTL DEF Spec

\* The artifact of a run, and what the dry run decided from, have been validated.
THEOREM ValidatedAlways == Spec => []OnlyValidated
<1>1. IInv => OnlyValidated
  BY DEF IInv, AllApproved, Approved, OnlyValidated
<1>2. QED
  BY <1>1, ImportInvariance, PTL

\* Metadata in the manifest has its artifact and describes it.
THEOREM MetadataDescribes == Spec => []MetadataMatches
<1>1. IInv => MetadataMatches
  BY DEF IInv, ManifestOK, MetadataMatches
<1>2. QED
  BY <1>1, ImportInvariance, PTL

\* An import that returned has the event of every guard that had reported.
THEOREM ReportsKept == Spec => []ReportedIsStored
<1>1. IInv => ReportedIsStored
  <2> SUFFICES ASSUME IInv, NEW i \in Importers, pc[i] = "done"
               PROVE  /\ source[i] = "inbox" =>
                            \A g \in owed[i] : \E k \in DOMAIN events[i] :
                                events[i][k] = g /\ \A j \in DOMAIN events[i] \ {k} : events[i][j] # g
                      /\ copy[i].fields = "final" => manifest.guard # << >>
    BY DEF ReportedIsStored
  <2>1. ImportOK(i) /\ Approved(events[i]) /\ Past(i, "validated")
    BY DEF IInv, AllApproved, Past
  <2>2. ValidEvents(events[i])
    BY <2>1 DEF ImportOK, Approved
  <2>3. QED
    BY <2>1, <2>2 DEF ImportOK, ValidEvents
<1>2. QED
  BY <1>1, ImportInvariance, PTL

\* The manifest of a finished run says so, but for a stale copy, and has its fields.
THEOREM FieldsKeptAlways == Spec => []FieldsKept
<1>1. IInv => FieldsKept
  BY DEF IInv, Typed, ManifestOK, FieldsKept
<1>2. QED
  BY <1>1, ImportInvariance, PTL

-----------------------------------------------------------------------------
(* What the file can hold *)

\* What is in the file, or will be, is of a command line that parses.
CommandsParse ==
    \A g \in Guards :
        gpc[g] \in {"append", "newline", "ok"} \/ (\E k \in DOMAIN inbox : inbox[k] = g) =>
            command[g] \in Commands /\ ParseArgs(command[g].kind, command[g].opts)

Unique(es) == \A j, k \in DOMAIN es : es[j] = es[k] => j = k

\* The file could be imported before the guards, and its last line was ended.
OldOK ==
    \/ before = << >>
    \/ /\ WellFormed(before) /\ before[Len(before)] = Newline
       /\ EventsOf(before) # << >> /\ Unique(EventsOf(before))
       /\ \A k \in DOMAIN EventsOf(before) : ValidEvent(Older[EventsOf(before)[k]])

\* One event a line, and a line that is not ended has its guard still at work.
FileOK ==
    /\ WellFormed(inbox)
    /\ inbox # << >> /\ inbox[Len(inbox)] # Newline => \E g \in Guards : gpc[g] = "newline"
    /\ \A g, h \in Guards : gpc[g] = "newline" /\ gpc[h] = "newline" => g = h
    /\ inbox # << >> => EventsOf(inbox) # << >>
    /\ Unique(EventsOf(inbox))
    /\ \A k \in DOMAIN EventsOf(inbox) :
          EventsOf(inbox)[k] \in Guards \/ ValidEvent(Older[EventsOf(inbox)[k]])

FInv == CommandsParse /\ (torn \/ ~OldOK \/ FileOK)

LEMMA FileInit == Init => FInv
<1> SUFFICES ASSUME Init
             PROVE  FInv
  OBVIOUS
<1>1. /\ inbox = before /\ before \in Seq(DOMAIN Older \cup {Newline, Part})
      /\ gpc = [g \in Guards |-> "idle"] /\ Guards \cap (DOMAIN Older \cup {Newline, Part}) = {}
  BY GuardAssumption DEF Init, GuardInit
<1>2. CommandsParse
  BY <1>1 DEF CommandsParse
<1>3. ASSUME OldOK
      PROVE  FileOK
  <2>1. CASE before = << >>
    <3>1. EventsOf(inbox) = << >>
      BY <1>1, <2>1, KeptOfNothing DEF EventsOf
    <3>2. QED
      BY <1>1, <2>1, <3>1 DEF FileOK, WellFormed, Unique
  <2>2. CASE before # << >>
    BY <1>1, <1>3, <2>2 DEF FileOK, OldOK
  <2>3. QED
    BY <2>1, <2>2
<1>4. QED
  BY <1>2, <1>3 DEF FInv

\* What is added to the file, as its reader sees it.
LEMMA EventsGrow ==
    ASSUME TypeOK, NEW x \in Ids \cup {Newline, Part}
    PROVE  EventsOf(Append(inbox, x)) =
               IF x \in Ids THEN Append(EventsOf(inbox), x) ELSE EventsOf(inbox)
<1> DEFINE S == Ids \cup {Newline, Part}
<1>1. inbox \in Seq(S) /\ x \in S
  BY DEF TypeOK, GuardTypeOK
<1>2. ASSUME NEW s \in Seq(S)
      PROVE  Kept(Append(s, x), Ids) = IF x \in Ids THEN Append(Kept(s, Ids), x) ELSE Kept(s, Ids)
  BY KeptAppend
<1>3. QED
  BY <1>1, <1>2 DEF EventsOf

LEMMA GuardKeepsCommands ==
    ASSUME TypeOK, InboxOK, CommandsParse, GuardNext
    PROVE  CommandsParse'
<1> DEFINE Parsing(c) == c \in Commands /\ ParseArgs(c.kind, c.opts)
           There(g, file) == \E k \in DOMAIN file : file[k] = g
<1>1. PICK g \in Guards :
          \/ \E c \in Commands : StartGuard(g, c)
          \/ WriteLine(g) \/ WriteNewline(g) \/ FailLine(g) \/ FailNewline(g)
  BY DEF GuardNext
<1>2. /\ gpc \in [Guards -> {"idle", "append", "newline", "ok", "failed"}]
      /\ command \in [Guards -> Commands \cup {None}]
      /\ inbox \in Seq(Ids \cup {Newline, Part})
  BY DEF TypeOK, GuardTypeOK
<1>3. \A h \in Guards \ {g} : gpc'[h] = gpc[h] /\ command'[h] = command[h]
  BY <1>1, <1>2 DEF StartGuard, WriteLine, WriteNewline, FailLine, FailNewline, GuardGoto
<1>4. \A h \in Guards \ {g} : There(h, inbox') => There(h, inbox)
  <2>1. inbox' = inbox \/ \E x \in {Newline, Part, g} : inbox' = Append(inbox, x)
    BY <1>1 DEF StartGuard, WriteLine, WriteNewline, FailLine, FailNewline
  <2>2. ASSUME NEW x \in {Newline, Part, g}, inbox' = Append(inbox, x),
               NEW h \in Guards \ {g}, NEW k \in DOMAIN inbox', inbox'[k] = h
        PROVE  There(h, inbox)
    <3>1. h # x
      BY GuardAssumption
    <3>2. x \in Ids \cup {Newline, Part}
      BY DEF Ids
    <3>3. k \in DOMAIN inbox /\ inbox[k] = inbox'[k]
      BY <1>2, <2>2, <3>1, <3>2
    <3>4. QED
      BY <2>2, <3>3
  <2>3. QED
    BY <2>1, <2>2
<1>5. \A h \in Guards :
         gpc[h] \in {"append", "newline", "ok"} \/ There(h, inbox) => Parsing(command[h])
  BY DEF CommandsParse
<1>6. There(g, inbox) => gpc[g] \notin {"idle", "append"}
  BY DEF InboxOK, Written
<1>7. gpc'[g] \in {"append", "newline", "ok"} \/ There(g, inbox') => Parsing(command'[g])
  <2>1. CASE \E c \in Commands : StartGuard(g, c)
    <3>1. PICK c \in Commands : StartGuard(g, c)
      BY <2>1
    <3>2. inbox' = inbox /\ gpc[g] = "idle"
      BY <3>1 DEF StartGuard, GuardGoto
    <3>3. ~There(g, inbox')
      BY <1>6, <3>2
    <3>4. \/ gpc'[g] = "append" /\ command'[g] = c /\ ParseArgs(c.kind, c.opts)
          \/ gpc'[g] = "failed"
      BY <1>2, <3>1 DEF StartGuard, GuardGoto
    <3>5. QED
      BY <3>3, <3>4
  <2>2. CASE WriteLine(g) \/ WriteNewline(g) \/ FailNewline(g)
    <3>1. gpc[g] \in {"append", "newline"} /\ command' = command
      BY <2>2 DEF WriteLine, WriteNewline, FailNewline, GuardGoto
    <3>2. QED
      BY <1>5, <3>1
  <2>3. CASE FailLine(g)
    <3>1. /\ gpc'[g] = "failed" /\ gpc[g] = "append"
          /\ inbox' = inbox \/ inbox' = Append(inbox, Part)
      BY <1>2, <2>3 DEF FailLine, GuardGoto
    <3>2. ASSUME NEW k \in DOMAIN inbox', inbox'[k] = g
          PROVE  FALSE
      <4>1. g # Part
        BY GuardAssumption
      <4>2. k \in DOMAIN inbox /\ inbox[k] = g
        BY <1>2, <3>1, <3>2, <4>1
      <4>3. QED
        BY <1>6, <3>1, <4>2
    <3>3. QED
      BY <3>1, <3>2
  <2>4. QED
    BY <1>1, <2>1, <2>2, <2>3
<1> HIDE DEF Parsing, There
<1>8. \A h \in Guards :
         gpc'[h] \in {"append", "newline", "ok"} \/ There(h, inbox') => Parsing(command'[h])
  BY <1>3, <1>4, <1>5, <1>7
<1>9. QED
  BY <1>8 DEF CommandsParse, Parsing, There

\* A file to which one piece is added in the right place stays well formed.
LEMMA StaysWellFormed ==
    ASSUME NEW S, NEW s \in Seq(S), NEW x \in S, WellFormed(s), x # Part,
           s # << >> /\ s[Len(s)] # Newline => x = Newline
    PROVE  WellFormed(Append(s, x))
<1> DEFINE t == Append(s, x)
<1>1. /\ DOMAIN t = 1 .. Len(s) + 1 /\ Len(t) = Len(s) + 1 /\ t[Len(s) + 1] = x
      /\ DOMAIN s = 1 .. Len(s) /\ Len(s) \in Nat
      /\ \A k \in 1 .. Len(s) : t[k] = s[k]
      /\ Len(s) > 0 => s # << >>
  OBVIOUS
<1> HIDE DEF t
<1>2. ASSUME NEW k \in DOMAIN t
      PROVE  t[k] # Part /\ (t[k] # Newline /\ k < Len(t) => t[k + 1] = Newline)
  <2>1. CASE k = Len(s) + 1
    BY <1>1, <2>1
  <2>2. CASE k = Len(s) /\ k # Len(s) + 1
    <3>1. k \in 1 .. Len(s) + 1
      BY <1>1, <1>2
    <3>2. k \in 1 .. Len(s) /\ Len(s) > 0
      <4>1. \A n \in Nat : \A j \in 1 .. n + 1 : j = n => j \in 1 .. n /\ n > 0
        OBVIOUS
      <4>2. QED
        BY <1>1, <2>2, <3>1, <4>1
    <3>3. k \in DOMAIN s /\ s # << >> /\ t[k] = s[k]
      BY <1>1, <3>2
    <3>4. t[k + 1] = x
      BY <1>1, <2>2
    <3>5. QED
      BY <2>2, <3>3, <3>4 DEF WellFormed
  <2>3. CASE k < Len(s)
    <3>1. k \in 1 .. Len(s) /\ k + 1 \in 1 .. Len(s)
      BY <1>1, <1>2, <2>3
    <3>2. QED
      BY <1>1, <2>3, <3>1 DEF WellFormed
  <2>4. QED
    BY <1>1, <1>2, <2>1, <2>2, <2>3
<1>3. QED
  BY <1>2 DEF WellFormed, t

LEMMA GuardKeepsFile ==
    ASSUME TypeOK, InboxOK, GuardNext, FileOK
    PROVE  torn' \/ FileOK'
<1>1. PICK g \in Guards :
          \/ \E c \in Commands : StartGuard(g, c)
          \/ WriteLine(g) \/ WriteNewline(g) \/ FailLine(g) \/ FailNewline(g)
  BY DEF GuardNext
<1>2. /\ gpc \in [Guards -> {"idle", "append", "newline", "ok", "failed"}]
      /\ inbox \in Seq(Ids \cup {Newline, Part})
  BY DEF TypeOK, GuardTypeOK
<1>3. CASE (\E c \in Commands : StartGuard(g, c)) \/ FailLine(g)
  <2>1. torn' \/ (inbox' = inbox /\ gpc[g] \in {"idle", "append"} /\ gpc'[g] \in {"append", "failed"}
                  /\ \A h \in Guards \ {g} : gpc'[h] = gpc[h])
    BY <1>2, <1>3 DEF StartGuard, FailLine, GuardGoto
  <2>2. QED
    BY <2>1 DEF FileOK, WellFormed, EventsOf, Unique
<1>4. CASE FailNewline(g)
  BY <1>4 DEF FailNewline
<1>5. CASE WriteNewline(g)
  <2>1. /\ gpc[g] = "newline" /\ gpc'[g] \in {"ok", "failed"}
        /\ \A h \in Guards \ {g} : gpc'[h] = gpc[h]
        /\ inbox' = Append(inbox, Newline)
    BY <1>2, <1>5 DEF WriteNewline, GuardGoto
  <2>2. Newline \notin Ids /\ Newline # Part
    BY GuardAssumption DEF Ids
  <2>3. EventsOf(inbox') = EventsOf(inbox)
    BY <2>1, <2>2, EventsGrow
  <2>4. WellFormed(inbox')
    BY <1>2, <2>1, <2>2, StaysWellFormed DEF FileOK
  <2>5. inbox'[Len(inbox')] = Newline
    BY <1>2, <2>1
  <2>6. inbox # << >>
    BY <1>2, <2>1 DEF InboxOK
  <2>7. QED
    BY <2>1, <2>3, <2>4, <2>5, <2>6 DEF FileOK
<1>6. CASE WriteLine(g) /\ ~torn'
  <2>1. /\ gpc[g] = "append" /\ gpc'[g] = "newline"
        /\ \A h \in Guards \ {g} : gpc'[h] = gpc[h] /\ gpc[h] # "newline"
        /\ inbox' = Append(inbox, g)
    BY <1>2, <1>6 DEF WriteLine, GuardGoto
  <2>2. g \in Ids /\ g # Newline /\ g # Part
    BY GuardAssumption DEF Ids
  <2>3. EventsOf(inbox') = Append(EventsOf(inbox), g)
    BY <2>1, <2>2, EventsGrow
  <2>4. WellFormed(inbox')
    BY <1>2, <2>1, <2>2, StaysWellFormed DEF FileOK
  <2>5. EventsOf(inbox) \in Seq(Ids) /\ \A k \in DOMAIN EventsOf(inbox) : EventsOf(inbox)[k] # g
    BY <2>1, InboxEvents DEF Written
  <2> DEFINE es == EventsOf(inbox)
             fs == EventsOf(inbox')
  <2>6. /\ Len(fs) = Len(es) + 1 /\ fs[Len(es) + 1] = g
        /\ \A k \in DOMAIN es : fs[k] = es[k]
        /\ \A k \in DOMAIN fs : k \in DOMAIN es \/ k = Len(es) + 1
        /\ fs # << >>
    BY <2>2, <2>3, <2>5
  <2> HIDE DEF es, fs
  <2>7. Unique(fs)
    BY <2>5, <2>6 DEF FileOK, Unique, es
  <2>8. \A k \in DOMAIN fs : fs[k] \in Guards \/ ValidEvent(Older[fs[k]])
    BY <2>6 DEF FileOK, es
  <2>9. QED
    BY <2>1, <2>4, <2>6, <2>7, <2>8 DEF FileOK, fs
<1>7. QED
  BY <1>1, <1>3, <1>4, <1>5, <1>6

LEMMA FileStep == IInv /\ FInv /\ [Next]_vars => FInv'
<1> SUFFICES ASSUME IInv, FInv, [Next]_vars
             PROVE  FInv'
  OBVIOUS
<1>1. CASE UNCHANGED guardVars
  BY <1>1 DEF FInv, CommandsParse, OldOK, FileOK, WellFormed, EventsOf, Unique, guardVars
<1>2. CASE GuardNext
  <2>1. TypeOK /\ InboxOK
    BY DEF IInv, Typed
  <2>2. before' = before /\ (torn => torn')
    <3>1. PICK g \in Guards :
              \/ \E c \in Commands : StartGuard(g, c)
              \/ WriteLine(g) \/ WriteNewline(g) \/ FailLine(g) \/ FailNewline(g)
      BY <1>2 DEF GuardNext
    <3>2. before' = before
      BY <3>1 DEF StartGuard, WriteLine, WriteNewline, FailLine, FailNewline
    <3>3. torn' = torn \/ torn' = TRUE \/ WriteLine(g)
      BY <3>1 DEF StartGuard, WriteNewline, FailLine, FailNewline
    <3>4. WriteLine(g) => (torn => torn')
      BY Zenon DEF WriteLine
    <3>5. QED
      BY <3>2, <3>3, <3>4
  <2>3. OldOK' <=> OldOK
    BY <2>2 DEF OldOK, WellFormed, EventsOf, Unique
  <2>4. QED
    BY <1>2, <2>1, <2>2, <2>3, GuardKeepsCommands, GuardKeepsFile DEF FInv
<1>3. QED
  BY <1>1, <1>2 DEF Next, vars

LEMMA FileInvariance == Spec => []FInv
<1>1. Init => FInv
  BY FileInit
<1>2. IInv /\ FInv /\ [Next]_vars => FInv'
  BY FileStep
<1>3. QED
  BY <1>1, <1>2, ImportInvariance, PTL DEF Spec

-----------------------------------------------------------------------------
(* The events of a guard *)

Options == Seq([flag : Flags, value : Words \cup {None}])

\* What a word of a command line is in an event.
ShownWords == Words \cup {"<redacted>", "key=<redacted>"}

LEMMA FunctionIsSeq ==
    ASSUME NEW S, NEW n \in Nat, NEW f \in [1 .. n -> S]
    PROVE  f \in Seq(S) /\ Len(f) = n
OBVIOUS

\* The words of --arg, of which none is empty if the line parses.
LEMMA ArgsAreWords ==
    ASSUME NEW opts \in Options
    PROVE  /\ Args(opts) \in Seq(Words)
           /\ (\A k \in DOMAIN opts : opts[k].value = "empty" => opts[k].flag # "--arg") =>
                 \A n \in DOMAIN Args(opts) : Args(opts)[n] # "empty"
<1> DEFINE W == [flag : {"--arg"}, value : Words]
           given == Kept(opts, W)
<1>1. /\ given \in Seq(W)
      /\ \A k \in DOMAIN given : \E m \in DOMAIN opts : given[k] = opts[m]
  <2>1. ASSUME NEW S, NEW set, NEW s \in Seq(S)
        PROVE  /\ Kept(s, set) \in Seq(set)
               /\ \A k \in DOMAIN Kept(s, set) : \E m \in DOMAIN s : Kept(s, set)[k] = s[m]
    BY KeptAreThere
  <2>2. opts \in Seq([flag : Flags, value : Words \cup {None}])
    BY DEF Options
  <2> HIDE DEF W
  <2>3. QED
    BY <2>1, <2>2
<1>2. Args(opts) = [k \in DOMAIN given |-> given[k].value]
  BY Zenon DEF Args
<1> HIDE DEF given
<1>3. ASSUME NEW k \in DOMAIN given
      PROVE  given[k].value \in Words /\ given[k].flag = "--arg"
  <2> HIDE DEF W
  <2>1. given[k] \in W
    BY <1>1
  <2>2. QED
    BY <2>1 DEF W
<1>4. Args(opts) \in Seq(Words)
  BY <1>1, <1>2, <1>3
<1>5. ASSUME \A k \in DOMAIN opts : opts[k].value = "empty" => opts[k].flag # "--arg",
             NEW n \in DOMAIN Args(opts)
      PROVE  Args(opts)[n] # "empty"
  <2>1. n \in DOMAIN given /\ Args(opts)[n] = given[n].value
    BY <1>2
  <2>2. PICK m \in DOMAIN opts : given[n] = opts[m]
    BY <1>1, <2>1
  <2>3. QED
    BY <1>3, <1>5, <2>1, <2>2
<1>6. QED
  BY <1>4, <1>5

\* The importer takes what the producer makes of a line that parses, but for an empty
\* directory.
LEMMA SpawnIsValid ==
    ASSUME NEW opts \in Options, ParseArgs("process-spawn", opts),
           Value(opts, "--cwd", None) # "empty"
    PROVE  ValidEvent(ProcessSpawnEvent(opts))
<1> DEFINE e == ProcessSpawnEvent(opts)
           args == Args(opts)
           next == RedactNext(args)
           program == Value(opts, "--program", None)
           shown == [k \in DOMAIN args |-> IF next[k] THEN "<redacted>"
                                           ELSE IF args[k] = "assign" THEN "key=<redacted>"
                                           ELSE args[k]]
<1>1. /\ \A k \in DOMAIN opts : opts[k].value = None => opts[k].flag = "--pretty"
      /\ \A k \in DOMAIN opts : opts[k].value = "empty" => opts[k].flag \notin {"--program", "--arg"}
      /\ Given(opts, "--program") # {}
  BY DEF ParseArgs, Parses
<1>2. program \notin {None, "empty"}
  <2>1. PICK k \in Given(opts, "--program") : program = opts[k].value
    BY <1>1 DEF Value
  <2>2. QED
    BY <1>1, <2>1 DEF Given
<1>3. Value(opts, "--cwd", "plain") # "empty"
  BY DEF Value
<1>4. args \in Seq(Words) /\ \A n \in DOMAIN args : args[n] # "empty"
  BY <1>1, ArgsAreWords
<1> HIDE DEF args, next
<1>5. shown \in Seq(ShownWords) /\ \A k \in DOMAIN shown : shown[k] # "empty"
  <2>1. \A k \in DOMAIN args : shown[k] \in ShownWords /\ shown[k] # "empty"
    BY <1>4 DEF Words, ShownWords
  <2>2. DOMAIN shown = 1 .. Len(args) /\ Len(args) \in Nat /\ DOMAIN shown = DOMAIN args
    BY <1>4
  <2>3. shown = [k \in 1 .. Len(args) |-> shown[k]]
    BY <2>2, Zenon
  <2> HIDE DEF shown
  <2>4. shown \in [1 .. Len(args) -> ShownWords]
    BY <2>1, <2>2, <2>3
  <2>5. QED
    BY <2>1, <2>2, <2>4, FunctionIsSeq
<1> HIDE DEF program, shown
<1>6. /\ << program >> \o shown # << >> /\ (<< program >> \o shown)[1] = program
      /\ \A k \in DOMAIN (<< program >> \o shown) : (<< program >> \o shown)[k] # "empty"
  <2> DEFINE line == << program >> \o shown
  <2>1. << program >> \in Seq({program} \cup ShownWords) /\ shown \in Seq({program} \cup ShownWords)
    BY <1>5
  <2>2. /\ Len(line) = 1 + Len(shown) /\ line \in Seq({program} \cup ShownWords) /\ line[1] = program
        /\ \A k \in DOMAIN line : k # 1 => k - 1 \in DOMAIN shown /\ line[k] = shown[k - 1]
    BY <2>1
  <2> HIDE DEF line
  <2>3. line # << >> /\ \A k \in DOMAIN line : line[k] # "empty"
    BY <1>2, <1>5, <2>2
  <2>4. QED
    BY <2>2, <2>3 DEF line
<1>7. /\ e.type = "process.spawn" /\ e.run = None /\ e.common /\ e.strict /\ e.name = program
      /\ e.line = << program >> \o shown /\ e.cwd = Value(opts, "--cwd", "plain")
      /\ e.status = IF e.fields = {} THEN "not_applicable" ELSE "redacted"
  BY DEF ProcessSpawnEvent, RedactCommandLine, program, shown, args, next
<1> HIDE DEF e
<1>8. ValidateProcessSpawnEvent(e)
  BY <1>2, <1>3, <1>6, <1>7 DEF ValidateProcessSpawnEvent, ValidateGuardEvent
<1>9. ValidEvent(e)
  BY <1>7, <1>8 DEF ValidEvent
<1>10. QED
  BY <1>9 DEF e

LEMMA HealthIsValid == ValidEvent(HealthEvent)
BY DEF ValidEvent, HealthEvent, ValidateHealthEvent, ValidateGuardEvent

\* A file with events can be imported, or has one of the causes named.
THEOREM RefusedOnlyForCause == Spec => []RefusedForCause
<1>1. IInv /\ FInv => RefusedForCause
  <2> SUFFICES ASSUME IInv, FInv, inbox # << >>, ~torn,
                      before = << >> \/ (Importable(before) /\ before[Len(before)] = Newline),
                      \A g \in Guards :
                          command[g] # None => Value(command[g].opts, "--cwd", None) # "empty"
               PROVE  Importable(inbox)
    BY DEF RefusedForCause
  <2>1. TypeOK /\ InboxOK /\ CommandsParse
    BY DEF IInv, Typed, FInv
  <2>2. OldOK
    <3>1. CASE before = << >>
      BY <3>1 DEF OldOK
    <3>2. CASE before # << >>
      <4>1. before \in Seq(DOMAIN Older \cup {Newline, Part})
        BY <2>1, GuardAssumption DEF TypeOK, GuardTypeOK
      <4>2. \A k \in DOMAIN EventsOf(before) : \E m \in DOMAIN before :
                EventsOf(before)[k] \in Ids /\ EventsOf(before)[k] = before[m]
        <5>1. ASSUME NEW S, NEW s \in Seq(S)
              PROVE  /\ Kept(s, Ids) \in Seq(Ids)
                     /\ \A k \in DOMAIN Kept(s, Ids) : \E m \in DOMAIN s : Kept(s, Ids)[k] = s[m]
          BY KeptAreThere
        <5>2. EventsOf(before) \in Seq(Ids)
              /\ \A k \in DOMAIN EventsOf(before) : \E m \in DOMAIN before :
                     EventsOf(before)[k] = before[m]
          BY <4>1, <5>1 DEF EventsOf
        <5>3. QED
          BY <5>2
      <4>3. \A k \in DOMAIN EventsOf(before) : EventsOf(before)[k] \notin Guards
        BY <4>1, <4>2, GuardAssumption
      <4>4. QED
        BY <3>2, <4>3 DEF OldOK, Importable, ValidEvents, EventOf, Unique
    <3>3. QED
      BY <3>1, <3>2
  <2>3. FileOK
    BY <2>2 DEF FInv
  <2>4. ASSUME NEW k \in DOMAIN EventsOf(inbox)
        PROVE  ValidEvent(EventOf(EventsOf(inbox)[k]))
    <3> DEFINE id == EventsOf(inbox)[k]
    <3>1. CASE id \notin Guards
      BY <2>3, <3>1 DEF FileOK, EventOf
    <3>2. CASE id \in Guards
      <4>1. \E m \in DOMAIN inbox : inbox[m] = id
        BY <2>1, InboxEvents
      <4>2. command[id] \in Commands /\ ParseArgs(command[id].kind, command[id].opts)
        BY <2>1, <3>2, <4>1 DEF CommandsParse
      <4>3. command[id].opts \in Options /\ Value(command[id].opts, "--cwd", None) # "empty"
        BY <3>2, <4>2, GuardAssumption DEF IsOptions, Options
      <4>4. CASE command[id].kind = "health"
        <5>1. EventOf(id) = HealthEvent
          BY <3>2, <4>2, <4>4 DEF EventOf, Run
        <5>2. QED
          BY <5>1, HealthIsValid
      <4>5. CASE command[id].kind = "process-spawn"
        <5>1. EventOf(id) = ProcessSpawnEvent(command[id].opts)
          BY <3>2, <4>2, <4>5 DEF EventOf, Run
        <5>2. QED
          BY <4>2, <4>3, <4>5, <5>1, SpawnIsValid
      <4>6. QED
        BY <4>2, <4>4, <4>5 DEF ParseArgs
    <3>3. QED
      BY <3>1, <3>2
  <2>5. QED
    BY <2>3, <2>4 DEF Importable, ValidEvents, FileOK, Unique
<1>2. QED
  BY <1>1, ImportInvariance, FileInvariance, PTL

-----------------------------------------------------------------------------
(* The redaction *)

\* redact_next is set before a word that is behind a sensitive flag it was not set for.
LEMMA RedactNextLooks ==
    ASSUME NEW args \in Seq(Words)
    PROVE  \A n \in 1 .. Len(args) + 1 :
              RedactNext(args)[n] <=>
                  (n > 1 /\ ~RedactNext(args)[n - 1] /\ args[n - 1] = "flag")
<1> DEFINE D == 1 .. Len(args) + 1
           Step(f, k) == k > 1 /\ ~f[k - 1] /\ args[k - 1] = "flag"
           Loop(f, last) == f = [k \in 1 .. last |-> Step(f, k)]
           Bad == {m \in D : ~ \E f : Loop(f, m)}
<1>1. Len(args) \in Nat
  OBVIOUS
<1>2. \E f : Loop(f, Len(args) + 1)
  <2>1. SUFFICES ASSUME Bad # {}
                 PROVE  FALSE
    BY <1>1
  <2>2. PICK m \in Bad : \A k \in Bad : m <= k
    <3>1. Bad \in SUBSET Nat
      OBVIOUS
    <3>2. QED
      BY <2>1, <3>1, Least
  <2>3. CASE m = 1
    <3> DEFINE g == [k \in 1 .. 1 |-> FALSE]
    <3>1. \A k \in 1 .. 1 : ~(k > 1)
      OBVIOUS
    <3>2. Loop(g, 1)
      BY <3>1
    <3> HIDE DEF Loop, g
    <3>3. QED
      BY <2>2, <2>3, <3>2
  <2>4. CASE m # 1
    <3>1. m - 1 \in D /\ m \in Nat \ {0, 1}
      BY <2>2, <2>4, <1>1
    <3>2. PICK f : Loop(f, m - 1)
      <4> HIDE DEF Loop
      <4>1. m - 1 \notin Bad
        BY <2>2, <3>1
      <4>2. QED
        BY <3>1, <4>1
    <3> DEFINE g == [k \in 1 .. m |-> Step(f, k)]
    <3>3. ASSUME NEW k \in 1 .. m
          PROVE  Step(f, k) = Step(g, k)
      <4>1. CASE k = 1
        BY <4>1
      <4>2. CASE k > 1
        <5>1. k - 1 \in 1 .. m - 1 /\ k - 1 \in 1 .. m
          BY <3>1, <4>2
        <5>2. g[k - 1] = Step(f, k - 1) /\ f[k - 1] = Step(f, k - 1)
          BY <3>2, <5>1
        <5> HIDE DEF g
        <5>3. QED
          BY <5>2
      <4>3. QED
        BY <4>1, <4>2
    <3>4. Loop(g, m)
      BY <3>3, Zenon
    <3> HIDE DEF Loop, g
    <3>5. QED
      BY <2>2, <3>4
  <2>5. QED
    BY <2>3, <2>4
<1>3. RedactNext(args) = [k \in D |-> Step(RedactNext(args), k)]
  BY <1>2, Zenon DEF RedactNext
<1> DEFINE next == RedactNext(args)
<1> HIDE DEF next
<1>4. \A n \in D : next[n] <=> Step(next, n)
  <2>1. next = [k \in D |-> Step(next, k)]
    BY <1>3 DEF next
  <2>2. QED
    BY <2>1, Zenon
<1>5. QED
  BY <1>4 DEF next

\* The words of a recorded command that are hidden are those of the rule, and named.
THEOREM RedactionIsMarked == Spec => []RedactionMarked
<1>1. IInv /\ FInv => RedactionMarked
  <2> SUFFICES ASSUME IInv, FInv, NEW g \in Guards, NEW k \in DOMAIN inbox, inbox[k] = g,
                      EventOf(g).type = "process.spawn"
               PROVE  LET e == EventOf(g)
                          args == Args(command[g].opts)
                          Shown(n) == e.line[n + 1] = args[n]
                          Behind(n) == n > 1 /\ args[n - 1] = "flag" /\ Shown(n - 1)
                      IN  /\ e.fields = {n \in DOMAIN args : ~Shown(n)}
                          /\ \A n \in DOMAIN args :
                                Shown(n) <=> args[n] # "assign" /\ ~Behind(n)
    BY Zenon DEF RedactionMarked
  <2> DEFINE opts == command[g].opts
             args == Args(opts)
             next == RedactNext(args)
             program == Value(opts, "--program", None)
             shown == [n \in DOMAIN args |-> IF next[n] THEN "<redacted>"
                                             ELSE IF args[n] = "assign" THEN "key=<redacted>"
                                             ELSE args[n]]
  <2>1. command[g] \in Commands
    BY DEF FInv, CommandsParse
  <2>2. EventOf(g) = ProcessSpawnEvent(opts)
    BY <2>1 DEF EventOf, Run, HealthEvent
  <2>3. opts \in Options
    BY <2>1, GuardAssumption DEF IsOptions, Options
  <2>4. args \in Seq(Words)
    BY <2>3, ArgsAreWords
  <2>5. /\ EventOf(g).fields = {n \in DOMAIN args : next[n] \/ args[n] = "assign"}
        /\ EventOf(g).line = << program >> \o shown
    BY <2>2 DEF ProcessSpawnEvent, RedactCommandLine
  <2> HIDE DEF opts, args, program
  <2>6. \A n \in DOMAIN args :
            next[n] <=> (n > 1 /\ ~next[n - 1] /\ args[n - 1] = "flag")
    <3>1. \A n \in DOMAIN args : n \in 1 .. Len(args) + 1
      BY <2>4
    <3>2. QED
      BY <2>4, <3>1, RedactNextLooks
  <2> HIDE DEF next
  <2>7. \A n \in DOMAIN args : shown[n] = args[n] <=> ~(next[n] \/ args[n] = "assign")
    BY <2>4 DEF Words
  <2>8. \A n \in DOMAIN args : (<< program >> \o shown)[n + 1] = shown[n]
    <3>1. shown \in Seq(ShownWords) /\ Len(shown) = Len(args) /\ DOMAIN args = 1 .. Len(args)
      <4>1. \A n \in DOMAIN args : shown[n] \in ShownWords
        BY <2>4 DEF Words, ShownWords
      <4>2. DOMAIN shown = 1 .. Len(args) /\ Len(args) \in Nat /\ DOMAIN shown = DOMAIN args
        BY <2>4
      <4>3. shown = [n \in 1 .. Len(args) |-> shown[n]]
        BY <4>2, Zenon
      <4> HIDE DEF shown
      <4>4. shown \in [1 .. Len(args) -> ShownWords]
        BY <4>1, <4>2, <4>3
      <4>5. QED
        BY <4>2, <4>4, FunctionIsSeq
    <3> HIDE DEF shown
    <3>2. << program >> \in Seq({program} \cup ShownWords) /\ shown \in Seq({program} \cup ShownWords)
      BY <3>1
    <3>3. QED
      BY <3>1, <3>2
  <2> DEFINE Shown(n) == EventOf(g).line[n + 1] = args[n]
  <2>9. \A n \in DOMAIN args : Shown(n) <=> ~(next[n] \/ args[n] = "assign")
    BY <2>5, <2>7, <2>8
  <2> HIDE DEF Shown, shown
  <2>10. \A n \in DOMAIN args : n > 1 => n - 1 \in DOMAIN args
    BY <2>4
  <2>11. \A n \in DOMAIN args :
            next[n] <=> (n > 1 /\ args[n - 1] = "flag" /\ Shown(n - 1))
    <3>1. "flag" # "assign"
      OBVIOUS
    <3>2. QED
      BY <2>6, <2>9, <2>10, <3>1, Zenon
  <2>12. EventOf(g).fields = {n \in DOMAIN args : ~Shown(n)}
    BY <2>5, <2>9, Zenon
  <2>13. \A n \in DOMAIN args :
            Shown(n) <=> args[n] # "assign" /\ ~(n > 1 /\ args[n - 1] = "flag" /\ Shown(n - 1))
    BY <2>9, <2>11, Zenon
  <2>14. QED
    BY <2>12, <2>13, Zenon DEF args, opts, Shown
<1>2. QED
  BY <1>1, ImportInvariance, FileInvariance, PTL
=============================================================================
