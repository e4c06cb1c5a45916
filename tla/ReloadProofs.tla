---------------------------- MODULE ReloadProofs -----------------------------
(***************************************************************************)
(* Proofs about Reload: its type invariant, and that a reload which does   *)
(* not overlap the initial load replaces the entries by those of a         *)
(* crontab.                                                                *)
(***************************************************************************)
EXTENDS Reload, FiniteSetTheorems, SequenceTheorems, TLAPS

\* The bounds are numbers.
LEMMA Bounds == MaxEdits \in Nat /\ MaxSignals \in Nat /\ MaxEntries \in Nat
BY ReloadAssumption

\* The locals and the entries of a state that satisfies TypeOK.
LEMMA LocalTyped ==
    ASSUME TypeOK, NEW a \in Loaders
    PROVE  /\ pc[a] \in Labels
           /\ local[a].ids \subseteq 0 .. MaxEntries /\ local[a].todo \in Seq(Specs)
BY DEF TypeOK

\* A file that can be loaded is a sequence of lines.
LEMMA LoadableTyped == ASSUME TypeOK, Loadable(file) PROVE file \in Seq(Specs)
BY ReloadAssumption DEF TypeOK, Loadable, Files

\* The first states: nothing is loaded and no signal was sent.
LEMMA TypeInit == Init => TypeOK
<1> SUFFICES ASSUME Init PROVE TypeOK
  OBVIOUS
<1>1. <<>> \in Seq({"HUP", "TERM"}) /\ Len(<<>>) <= 1 /\ <<>> \in Seq(Specs)
  OBVIOUS
<1>2. local \in [Loaders -> [ids : SUBSET (0 .. MaxEntries), todo : Seq(Specs)]]
  BY <1>1 DEF Init, NoLocal
<1>3. pc \in [Loaders -> Labels] /\ pc["main"] \notin {"idle", "stopped"} /\ pc["reload"] \notin {"serving", "down"}
  BY DEF Init, Labels, Loaders
<1>4. /\ file \in Files /\ mtime \in 0 .. MaxEdits /\ aged \in BOOLEAN
      /\ sent \in 0 .. MaxSignals /\ lastMtime \in -1 .. MaxEdits
  BY Bounds DEF Init
<1>5. watcher \in {"off", "start", "select", "list", "send", "closed"}
  BY DEF Init
<1>6. /\ entries \subseteq [id : 0 .. MaxEntries, spec : Specs] /\ \A e \in entries : e.id < nextID
      /\ nextID \in 0 .. MaxEntries /\ alone \in BOOLEAN
  BY Bounds DEF Init
<1>7. sigChan = <<>> /\ signals = "select" /\ cancelled = FALSE
  BY DEF Init
<1> QED BY <1>1, <1>2, <1>3, <1>4, <1>5, <1>6, <1>7 DEF TypeOK

\* The steps of the file, of the signals and of the watcher.
LEMMA TypeWatch ==
    ASSUME TypeOK,
           \/ \E content \in Files : Edit(content)
           \/ Age \/ HandleSignal \/ WatchHup \/ Watch
           \/ \E sig \in {"HUP", "TERM"} : SendSignal(sig)
    PROVE  TypeOK'
<1>0. CASE Age
  BY <1>0 DEF TypeOK, Age, signalVars, watchVars, loadVars
<1>1. ASSUME NEW content \in Files, Edit(content)
      PROVE  TypeOK'
  <2>1. file' \in Files /\ aged' \in BOOLEAN
    BY <1>1 DEF Edit
  <2>2. mtime \in 0 .. MaxEdits /\ mtime < MaxEdits /\ mtime' = mtime + 1
    BY <1>1 DEF TypeOK, Edit
  <2>3. mtime' \in 0 .. MaxEdits
    BY <2>2, Bounds
  <2> QED BY <1>1, <2>1, <2>3 DEF TypeOK, Edit, signalVars, watchVars, loadVars
<1>2. ASSUME NEW sig \in {"HUP", "TERM"}, SendSignal(sig)
      PROVE  TypeOK'
  <2>1. sigChan' \in Seq({"HUP", "TERM"}) /\ Len(sigChan') <= 1
    <3>1. CASE Len(sigChan) = 1
      BY <1>2, <3>1 DEF TypeOK, SendSignal, SignalsFull
    <3>2. CASE Len(sigChan) # 1
      <4>1. sigChan' = Append(sigChan, sig)
        BY <1>2, <3>2 DEF SendSignal, SignalsFull
      <4>2. sigChan \in Seq({"HUP", "TERM"}) /\ Len(sigChan) <= 1 /\ Len(sigChan) # 1
        BY <3>2 DEF TypeOK
      <4>3. /\ Append(sigChan, sig) \in Seq({"HUP", "TERM"})
            /\ Len(Append(sigChan, sig)) = Len(sigChan) + 1
        BY <4>2, AppendProperties
      <4>4. Len(sigChan) \in Nat
        BY <4>2, LenProperties
      <4> DEFINE length == Len(sigChan)
      <4>5. length \in Nat /\ length <= 1 /\ length # 1
        BY <4>2, <4>4
      <4>6. Len(Append(sigChan, sig)) = length + 1
        BY <4>3
      <4> HIDE DEF length
      <4>7. length + 1 <= 1
        BY <4>5
      <4> QED BY <4>1, <4>3, <4>6, <4>7
    <3> QED BY <3>1, <3>2
  <2>2. sent' \in 0 .. MaxSignals
    BY <1>2, Bounds DEF TypeOK, SendSignal
  <2> QED BY <1>2, <2>1, <2>2 DEF TypeOK, SendSignal, fileVars, watchVars, loadVars
<1>3. CASE HandleSignal
  <2>1. sigChan' \in Seq({"HUP", "TERM"}) /\ Len(sigChan') <= 1
    BY <1>3 DEF TypeOK, HandleSignal
  <2> QED BY <1>3, <2>1 DEF TypeOK, HandleSignal, fileVars, watchVars, loadVars
<1>4. CASE WatchHup
  BY <1>4 DEF TypeOK, WatchHup, Forced, fileVars, loadVars
<1>5. CASE WatchStart \/ WatchTick \/ WatchList \/ WatchDone
  BY <1>5, ReloadAssumption DEF TypeOK, WatchStart, WatchTick, WatchList, WatchDone, Changed, Remembered,
         AfterFailedList, fileVars, signalVars, watchVars, loadVars
<1>6. CASE WatchSend
  <2>1. pc' \in [Loaders -> Labels] /\ pc'["main"] = pc["main"] /\ pc'["reload"] = "snapshot"
    BY <1>6 DEF TypeOK, WatchSend, Loaders, Labels
  <2> QED BY <1>6, <2>1 DEF TypeOK, WatchSend, fileVars, signalVars
<1> QED BY <1>0, <1>1, <1>2, <1>3, <1>4, <1>5, <1>6 DEF Watch

\* A loader goes to a label it may be at.
LEMMA GotoTyped ==
    ASSUME TypeOK, NEW a \in Loaders, NEW label \in Labels, Goto(a, label),
           a = "main" => label \notin {"idle", "stopped"},
           a = "reload" => label \notin {"serving", "down"}
    PROVE  /\ pc' \in [Loaders -> Labels] /\ pc'["main"] \notin {"idle", "stopped"}
           /\ pc'["reload"] \notin {"serving", "down"}
BY DEF TypeOK, Goto, Loaders

\* loadFromFileParser returns to its caller with nothing left to schedule.
LEMMA ReturnTyped ==
    ASSUME TypeOK, NEW a \in Loaders, NEW ok \in BOOLEAN, Return(a, ok)
    PROVE  /\ pc' \in [Loaders -> Labels] /\ pc'["main"] \notin {"idle", "stopped"}
           /\ pc'["reload"] \notin {"serving", "down"}
           /\ local' \in [Loaders -> [ids : SUBSET (0 .. MaxEntries), todo : Seq(Specs)]]
<1> DEFINE label == IF a = "reload" THEN "idle" ELSE IF ok THEN "serving" ELSE "down"
<1>1. /\ label \in Labels /\ Goto(a, label)
      /\ a = "main" => label \notin {"idle", "stopped"}
      /\ a = "reload" => label \notin {"serving", "down"}
  BY DEF Return, Labels
<1>2. <<>> \in Seq(Specs)
  OBVIOUS
<1>3. local' \in [Loaders -> [ids : SUBSET (0 .. MaxEntries), todo : Seq(Specs)]]
  BY <1>2 DEF TypeOK, Return
<1> HIDE DEF label
<1> QED BY <1>1, <1>3, GotoTyped

\* The steps of a load, by Do or by reload.
LEMMA TypeLoad == ASSUME TypeOK, NEW a \in Loaders, Load(a) PROVE TypeOK'
<1> DEFINE Frames == [ids : SUBSET (0 .. MaxEntries), todo : Seq(Specs)]
           At == /\ pc' \in [Loaders -> Labels] /\ pc'["main"] \notin {"idle", "stopped"}
                 /\ pc'["reload"] \notin {"serving", "down"}
<1>1. CASE Snapshot(a)
  <2>1. At
    BY <1>1, GotoTyped DEF Snapshot, Labels
  <2>2. {e.id : e \in Outdated} \subseteq 0 .. MaxEntries
    BY DEF TypeOK, Outdated
  <2>3. local' \in [Loaders -> Frames]
    BY <1>1, <2>2 DEF TypeOK, Snapshot
  <2>4. alone' \in BOOLEAN
    BY <1>1 DEF TypeOK, Snapshot, Loading
  <2> QED BY <1>1, <2>1, <2>3, <2>4 DEF TypeOK, Snapshot, fileVars, signalVars, watchVars
<1>2. CASE Remove(a)
  <2>1. ASSUME NEW id \in local[a].ids,
               entries' = {e \in entries : e.id # id},
               local' = [local EXCEPT ![a].ids = @ \ {id}], UNCHANGED pc
        PROVE  TypeOK'
    <3>1. local' \in [Loaders -> Frames]
      BY <2>1, LocalTyped DEF TypeOK
    <3> QED BY <1>2, <2>1, <3>1 DEF TypeOK, Remove, fileVars, signalVars, watchVars
  <2>2. ASSUME Goto(a, "list"), UNCHANGED <<local, entries>>
        PROVE  TypeOK'
    <3>1. At
      BY <2>2, GotoTyped DEF Labels
    <3> QED BY <1>2, <2>2, <3>1 DEF TypeOK, Remove, fileVars, signalVars, watchVars
  <2> QED BY <1>2, <2>1, <2>2 DEF Remove
<1>3. CASE List(a)
  <2>1. At /\ local' \in [Loaders -> Frames]
    <3>1. CASE Loadable(file)
      <4>1. Goto(a, "schedule") /\ local' = [local EXCEPT ![a].todo = file] /\ file \in Seq(Specs)
        BY <1>3, <3>1, LoadableTyped DEF List
      <4>2. At
        BY <4>1, GotoTyped DEF Labels
      <4> QED BY <4>1, <4>2 DEF TypeOK
    <3>2. CASE ~Loadable(file)
      <4>1. PICK ok \in BOOLEAN : Return(a, ok)
        BY <1>3, <3>2, ReloadAssumption DEF List
      <4> QED BY <4>1, ReturnTyped
    <3> QED BY <3>1, <3>2
  <2> QED BY <1>3, <2>1 DEF TypeOK, List, fileVars, signalVars, watchVars
<1>4. CASE Schedule(a)
  <2> DEFINE todo == local[a].todo
  <2>0. todo \in Seq(Specs)
    BY LocalTyped
  <2>1. CASE Return(a, TRUE) \/ Return(a, FALSE)
    <3>1. At /\ local' \in [Loaders -> Frames]
      BY <2>1, ReturnTyped
    <3>2. UNCHANGED <<entries, nextID>>
      BY <1>4, <2>1 DEF Schedule, Return, Goto, TypeOK, Loaders, Labels
    <3> QED BY <1>4, <3>1, <3>2 DEF TypeOK, Schedule, fileVars, signalVars, watchVars
  <2>2. CASE ~(Return(a, TRUE) \/ Return(a, FALSE))
    <3>1. /\ todo # <<>> /\ nextID < MaxEntries
          /\ entries' = entries \cup {[id |-> nextID, spec |-> Head(todo)]}
          /\ nextID' = nextID + 1 /\ UNCHANGED pc
          /\ local' = [local EXCEPT ![a].todo = Tail(todo)]
      BY <1>4, <2>2 DEF Schedule
    <3>2. Head(todo) \in Specs /\ Tail(todo) \in Seq(Specs)
      BY <2>0, <3>1
    <3> HIDE DEF todo
    <3>3. local' \in [Loaders -> Frames]
      BY <3>1, <3>2 DEF TypeOK
    <3>4. [id |-> nextID, spec |-> Head(todo)] \in [id : 0 .. MaxEntries, spec : Specs]
      BY <3>1, <3>2, ReloadAssumption DEF TypeOK
    <3>5. /\ entries' \subseteq [id : 0 .. MaxEntries, spec : Specs]
          /\ \A e \in entries' : e.id < nextID'
          /\ nextID' \in 0 .. MaxEntries
      BY <3>1, <3>4, ReloadAssumption DEF TypeOK
    <3> QED BY <1>4, <3>1, <3>3, <3>5 DEF TypeOK, Schedule, fileVars, signalVars, watchVars
  <2> QED BY <2>1, <2>2
<1> QED BY <1>1, <1>2, <1>3, <1>4 DEF Load

\* The steps by which reload and the process stop.
LEMMA TypeStop == ASSUME TypeOK, ReloadDone \/ Terminate PROVE TypeOK'
<1>1. CASE ReloadDone
  <2>1. Goto("reload", "stopped")
    BY <1>1 DEF ReloadDone, Goto
  <2>2. /\ pc' \in [Loaders -> Labels] /\ pc'["main"] \notin {"idle", "stopped"}
        /\ pc'["reload"] \notin {"serving", "down"}
    BY <2>1, GotoTyped DEF Labels, Loaders
  <2> QED BY <1>1, <2>2 DEF TypeOK, ReloadDone, fileVars, signalVars, watchVars
<1>2. CASE Terminate
  <2>1. /\ pc' \in [Loaders -> Labels] /\ pc'["main"] \notin {"idle", "stopped"}
        /\ pc'["reload"] \notin {"serving", "down"}
    BY <1>2, GotoTyped DEF Terminate, Labels, Loaders
  <2> QED BY <1>2, <2>1 DEF TypeOK, Terminate, fileVars, signalVars, watchVars
<1> QED BY <1>1, <1>2

\* Every variable of Reload keeps its type, in every interleaving of the two
\* loads, the watcher and the signals: an entry never has a number that cron
\* has not given out, and a second signal never waits.
THEOREM TypeCorrect == Spec => []TypeOK
<1>1. Init => TypeOK
  BY TypeInit
<1>2. TypeOK /\ [Next]_vars => TypeOK'
  <2> SUFFICES ASSUME TypeOK, [Next]_vars PROVE TypeOK'
    OBVIOUS
  <2>1. CASE UNCHANGED vars
    BY <2>1 DEF TypeOK, vars, fileVars, signalVars, watchVars, loadVars
  <2>2. CASE Next
    BY <2>2, TypeWatch, TypeLoad, TypeStop DEF Next
  <2> QED BY <2>1, <2>2
<1> QED BY <1>1, <1>2, PTL DEF Spec
-----------------------------------------------------------------------------
(* A reload that is alone replaces the entries.                              *)

\* The entries are the first k lines of a content, each as often as it is there.
ScheduledTo(content, k) ==
    \A s \in Specs : Cardinality({e \in entries : e.spec = s}) = Cardinality({i \in 1 .. k : content[i] = s})

\* What is left to schedule is the end of a content whose first lines are the
\* entries.
Partway(todo) ==
    \E content \in Contents \ Broken : \E k \in 0 .. Len(content) :
        /\ todo = SubSeq(content, k + 1, Len(content))
        /\ \A i \in 1 .. k : content[i] \notin Unschedulable
        /\ ScheduledTo(content, k)

\* What ReloadReplaces says of the entries.
Settled == entries = {} \/ \E content \in Contents \ Broken : Scheduled(Target(content))

\* How far a load that is alone has replaced the entries.
Replacing(a) ==
    /\ pc[a] = "remove" => {e.id : e \in entries} \subseteq local[a].ids
    /\ pc[a] = "list" => entries = {}
    /\ pc[a] = "schedule" => Partway(local[a].todo)

\* reload is not between its snapshot and its return.
Resting == pc["reload"] \in {"idle", "snapshot", "stopped"}

\* The inductive invariant.  As long as no load of reload overlapped the one of
\* Do, reload waits while Do loads, each of them has replaced the entries as far
\* as it is, and between the loads the entries are settled.
ReplaceInv ==
    /\ IsFiniteSet(entries)
    /\ alone =>
        /\ Loading("main") => Resting
        /\ \A a \in Loaders : Replacing(a)
        /\ (pc["main"] = "serving" /\ Resting) => Settled

Lines == Contents \ Broken

\* A content is a sequence of lines.
LEMMA LinesTyped ==
    ASSUME NEW content \in Lines
    PROVE  content \in Seq(Specs) /\ Len(content) \in Nat
<1>1. content \in Seq(Specs)
  BY ReloadAssumption DEF Lines
<1> QED BY <1>1, LenProperties

\* The first lines of a content, read as a sequence.
LEMMA FirstLines ==
    ASSUME NEW content \in Lines, NEW k \in 0 .. Len(content)
    PROVE  /\ DOMAIN SubSeq(content, 1, k) = 1 .. k
           /\ \A i \in 1 .. k : SubSeq(content, 1, k)[i] = content[i]
<1> DEFINE first == SubSeq(content, 1, k)
<1>1. content \in Seq(Specs) /\ Len(content) \in Nat
  BY LinesTyped
<1>2. k \in Nat /\ k <= Len(content)
  BY <1>1
<1>3. \A i \in 1 .. k : content[i] \in Specs
  BY <1>1, <1>2, ElementOfSeq
<1>4. /\ first \in Seq(Specs)
      /\ Len(first) = IF 1 <= k THEN k - 1 + 1 ELSE 0
      /\ \A i \in 1 .. k - 1 + 1 : first[i] = content[1 + i - 1]
  BY <1>2, <1>3, SubSeqProperties
<1>5. DOMAIN first = 1 .. Len(first)
  BY <1>4, LenProperties
<1> HIDE DEF first
<1>6. Len(first) = k
  BY <1>2, <1>4
<1>7. \A i \in 1 .. k : first[i] = content[i]
  <2> TAKE i \in 1 .. k
  <2>1. i \in 1 .. k - 1 + 1 /\ 1 + i - 1 = i
    BY <1>2
  <2> QED BY <1>4, <2>1
<1>8. DOMAIN first = 1 .. k
  BY <1>5, <1>6
<1> QED BY <1>7, <1>8 DEF first

\* To have scheduled the first lines is what Scheduled says of them.
LEMMA ScheduledLines ==
    ASSUME NEW content \in Lines, NEW k \in 0 .. Len(content), ScheduledTo(content, k)
    PROVE  Scheduled(SubSeq(content, 1, k))
<1> DEFINE lines == SubSeq(content, 1, k)
<1>1. DOMAIN lines = 1 .. k /\ \A i \in 1 .. k : lines[i] = content[i]
  BY FirstLines
<1> HIDE DEF lines
<1>2. \A s \in Specs : {i \in DOMAIN lines : lines[i] = s} = {i \in 1 .. k : content[i] = s}
  BY <1>1
<1>3. Scheduled(lines)
  BY <1>2 DEF Scheduled, ScheduledTo
<1> QED BY <1>3 DEF lines

\* The target of a content is its lines up to the first that cannot be scheduled.
LEMMA TargetIs ==
    ASSUME NEW content \in Lines, NEW k \in 0 .. Len(content),
           \A i \in 1 .. k : content[i] \notin Unschedulable,
           k = Len(content) \/ content[k + 1] \in Unschedulable
    PROVE  Target(content) = SubSeq(content, 1, k)
<1> DEFINE ok(n) == \A i \in 1 .. n : content[i] \notin Unschedulable
           last(n) == ok(n) /\ \A m \in (n + 1) .. Len(content) : ~ok(m)
<1>1. Len(content) \in Nat
  BY LinesTyped
<1> DEFINE length == Len(content)
<1>2. length \in Nat /\ k \in 0 .. length
  BY <1>1
<1>3. k = length \/ content[k + 1] \in Unschedulable
  OBVIOUS
<1>4. Target(content) = SubSeq(content, 1, CHOOSE n \in 0 .. length : last(n))
  BY DEF Target
<1>5. ok(k)
  OBVIOUS
<1> HIDE DEF length
<1>6. \A m \in (k + 1) .. length : ~ok(m)
  <2> TAKE m \in (k + 1) .. length
  <2>1. k # length /\ k + 1 \in 1 .. m
    BY <1>2
  <2> QED BY <1>3, <2>1
<1>7. last(k)
  BY <1>5, <1>6 DEF length
<1>8. \A n \in 0 .. length : last(n) => n = k
  <2> SUFFICES ASSUME NEW n \in 0 .. length, last(n), n # k PROVE FALSE
    OBVIOUS
  <2>1. CASE n < k
    <3>1. k \in (n + 1) .. length
      BY <1>2, <2>1
    <3> QED BY <1>5, <3>1 DEF length
  <2>2. CASE k < n
    <3>1. n \in (k + 1) .. length
      BY <1>2, <2>2
    <3> QED BY <1>6, <3>1
  <2> QED BY <1>2, <2>1, <2>2
<1> HIDE DEF last
<1>9. (CHOOSE n \in 0 .. length : last(n)) = k
  BY <1>2, <1>7, <1>8
<1> QED BY <1>4, <1>9

\* Before the first line nothing is scheduled.
LEMMA ScheduledNone ==
    ASSUME entries = {}, NEW content
    PROVE  ScheduledTo(content, 0)
<1>1. \A s \in Specs : {e \in entries : e.spec = s} = {} /\ {i \in 1 .. 0 : content[i] = s} = {}
  OBVIOUS
<1> QED BY <1>1 DEF ScheduledTo

\* cron takes one line more: a new entry stands for it.
LEMMA ScheduledNext ==
    ASSUME TypeOK, IsFiniteSet(entries),
           NEW content \in Lines, NEW k \in 0 .. Len(content), k < Len(content), ScheduledTo(content, k),
           entries' = entries \cup {[id |-> nextID, spec |-> content[k + 1]]}
    PROVE  IsFiniteSet(entries') /\ ScheduledTo(content, k + 1)'
<1> DEFINE new == [id |-> nextID, spec |-> content[k + 1]]
           Of(s) == {e \in entries : e.spec = s}
           At(s) == {i \in 1 .. k : content[i] = s}
<1>1. new \notin entries /\ new.spec = content[k + 1]
  BY DEF TypeOK
<1>2. k \in Nat /\ k + 1 \notin 1 .. k /\ 1 .. (k + 1) = (1 .. k) \cup {k + 1}
  BY LinesTyped
<1>3. entries' = entries \cup {new}
  OBVIOUS
<1> HIDE DEF new
<1>4. ASSUME NEW s \in Specs
      PROVE  Cardinality({e \in entries' : e.spec = s}) = Cardinality({i \in 1 .. (k + 1) : content[i] = s})
  <2>1. IsFiniteSet(Of(s)) /\ IsFiniteSet(At(s))
    <3>1. IsFiniteSet(1 .. k)
      BY <1>2, FS_Interval
    <3>2. Of(s) \subseteq entries /\ At(s) \subseteq 1 .. k
      OBVIOUS
    <3> QED BY <3>1, <3>2, FS_Subset
  <2>2. Cardinality(Of(s)) = Cardinality(At(s))
    BY DEF ScheduledTo
  <2>3. CASE content[k + 1] = s
    <3>1. {e \in entries' : e.spec = s} = Of(s) \cup {new} /\ new \notin Of(s)
      BY <1>1, <1>3, <2>3
    <3>2. {i \in 1 .. (k + 1) : content[i] = s} = At(s) \cup {k + 1} /\ k + 1 \notin At(s)
      BY <1>2, <2>3
    <3> HIDE DEF Of, At
    <3>3. Cardinality(Of(s) \cup {new}) = Cardinality(Of(s)) + 1
      BY <2>1, <3>1, FS_AddElement
    <3>4. Cardinality(At(s) \cup {k + 1}) = Cardinality(At(s)) + 1
      BY <2>1, <3>2, FS_AddElement
    <3> QED BY <2>2, <3>1, <3>2, <3>3, <3>4
  <2>4. CASE content[k + 1] # s
    <3>1. {e \in entries' : e.spec = s} = Of(s)
      BY <1>1, <1>3, <2>4
    <3>2. {i \in 1 .. (k + 1) : content[i] = s} = At(s)
      BY <1>2, <2>4
    <3> QED BY <2>2, <3>1, <3>2
  <2> QED BY <2>3, <2>4
<1>5. IsFiniteSet(entries')
  BY <1>3, FS_AddElement
<1> QED BY <1>4, <1>5 DEF ScheduledTo

\* The two loads of a process in which none of reload's overlapped Do's are not
\* under way together.
LEMMA LoadsApart ==
    ASSUME TypeOK, ReplaceInv, alone, Running, NEW a \in Loaders, pc[a] \in {"remove", "list", "schedule"}
    PROVE  /\ \A b \in Loaders \ {a} : pc[b] \notin {"remove", "list", "schedule"}
           /\ a = "reload" => pc["main"] = "serving"
           /\ a = "main" => Resting
<1>1. pc["main"] \in {"snapshot", "remove", "list", "schedule", "serving"}
  BY DEF TypeOK, Loaders, Labels, Running
<1> QED BY <1>1 DEF ReplaceInv, Resting, Loading, Loaders

\* A step that leaves the entries and the loads alone.
LEMMA ReplaceStutters ==
    ASSUME ReplaceInv, UNCHANGED loadVars
    PROVE  ReplaceInv'
<1>1. UNCHANGED <<pc, local, entries, alone>>
  BY DEF loadVars
<1>2. \A content, k : ScheduledTo(content, k)' = ScheduledTo(content, k)
  BY <1>1 DEF ScheduledTo
<1>3. Settled' = Settled
  BY <1>1 DEF Settled, Scheduled
<1>4. \A a : Replacing(a) => Replacing(a)'
  BY <1>1, <1>2 DEF Replacing, Partway
<1> QED BY <1>1, <1>3, <1>4 DEF ReplaceInv, Resting, Loading

\* The steps by which reload is asked to load or stops, and the process ends.
LEMMA ReplaceAround ==
    ASSUME TypeOK, ReplaceInv, WatchSend \/ ReloadDone \/ Terminate
    PROVE  ReplaceInv'
<1>1. UNCHANGED <<local, entries, alone>>
  BY DEF WatchSend, ReloadDone, Terminate
<1>2. Settled' = Settled
  BY <1>1 DEF Settled, Scheduled
<1>3. /\ pc'["main"] \in {pc["main"], "down"}
      /\ Resting => Resting'
      /\ \A a \in Loaders : pc'[a] \in {"remove", "list", "schedule"} => pc'[a] = pc[a]
      /\ Resting' => Resting
  BY DEF WatchSend, ReloadDone, Terminate, Goto, TypeOK, Loaders, Resting
<1>4. \A content, k : ScheduledTo(content, k)' = ScheduledTo(content, k)
  BY <1>1 DEF ScheduledTo
<1>5. \A a \in Loaders : Replacing(a) => Replacing(a)'
  BY <1>1, <1>3, <1>4 DEF Replacing, Partway
<1> QED BY <1>1, <1>2, <1>3, <1>5 DEF ReplaceInv, Loading

\* A load takes the entries it is to remove: those of any load before it.
LEMMA ReplaceSnapshot ==
    ASSUME TypeOK, ReplaceInv, NEW a \in Loaders, Snapshot(a)
    PROVE  ReplaceInv'
<1>1. /\ pc[a] = "snapshot" /\ pc' = [pc EXCEPT ![a] = "remove"] /\ Running
      /\ local' = [local EXCEPT ![a].ids = {e.id : e \in entries}] /\ entries' = entries
  BY DEF Snapshot, Goto, Outdated
<1>2. pc'[a] = "remove" /\ (\A b \in Loaders \ {a} : pc'[b] = pc[b] /\ local'[b] = local[b])
      /\ local'[a].ids = {e.id : e \in entries}
  BY <1>1 DEF TypeOK
<1>3. Replacing(a)'
  BY <1>1, <1>2 DEF Replacing
<1>4. CASE a = "main"
  <2>1. alone' = alone /\ pc'["reload"] = pc["reload"] /\ pc'["main"] = "remove"
    BY <1>2, <1>4 DEF Snapshot, Loaders
  <2>2. alone => Resting'
    BY <1>1, <1>4, <2>1 DEF ReplaceInv, Loading, Resting
  <2>3. alone => Replacing("reload")'
    BY <2>2 DEF Replacing, Resting
  <2> QED BY <1>1, <1>3, <1>4, <2>1, <2>2, <2>3 DEF ReplaceInv, Loaders
<1>5. CASE a = "reload"
  <2>1. alone' = ~Loading("main") /\ pc'["main"] = pc["main"] /\ pc'["reload"] = "remove"
    BY <1>2, <1>5 DEF Snapshot, Loaders
  <2>2. alone' => ~Loading("main")' /\ Replacing("main")'
    BY <2>1 DEF Loading, Replacing
  <2> QED BY <1>1, <1>3, <1>5, <2>1, <2>2 DEF ReplaceInv, Loaders, Resting
<1> QED BY <1>4, <1>5 DEF Loaders

\* A load removes the entries it took.
LEMMA ReplaceRemove ==
    ASSUME TypeOK, ReplaceInv, NEW a \in Loaders, Remove(a)
    PROVE  ReplaceInv'
<1>1. Running /\ pc[a] = "remove" /\ alone' = alone
  BY DEF Remove
<1>2. ASSUME alone
      PROVE  /\ {e.id : e \in entries} \subseteq local[a].ids
             /\ \A b \in Loaders \ {a} : pc[b] \notin {"remove", "list", "schedule"}
             /\ a = "reload" => pc["main"] = "serving"
             /\ a = "main" => Resting
  BY <1>1, <1>2, LoadsApart DEF ReplaceInv, Replacing
<1>3. ASSUME NEW id \in local[a].ids,
             entries' = {e \in entries : e.id # id},
             local' = [local EXCEPT ![a].ids = @ \ {id}], UNCHANGED pc
      PROVE  ReplaceInv'
  <2>1. IsFiniteSet(entries')
    <3>1. entries' \subseteq entries
      BY <1>3
    <3> QED BY <3>1, FS_Subset DEF ReplaceInv
  <2>2. local'[a].ids = local[a].ids \ {id}
    BY <1>3 DEF TypeOK
  <2>3. ASSUME alone PROVE \A b \in Loaders : Replacing(b)'
    <3>1. Replacing(a)'
      BY <1>1, <1>2, <1>3, <2>2, <2>3 DEF Replacing
    <3> QED BY <1>2, <1>3, <2>3, <3>1 DEF Replacing
  <2>4. alone /\ Loading("main")' => Resting'
    BY <1>3 DEF ReplaceInv, Loading, Resting
  <2>5. alone => ~(pc'["main"] = "serving" /\ Resting')
    BY <1>1, <1>2, <1>3 DEF Resting, Loaders
  <2> QED BY <1>1, <2>1, <2>3, <2>4, <2>5 DEF ReplaceInv
<1>4. ASSUME local[a].ids = {}, Goto(a, "list"), UNCHANGED <<local, entries>>
      PROVE  ReplaceInv'
  <2>1. pc'[a] = "list" /\ \A b \in Loaders \ {a} : pc'[b] = pc[b]
    BY <1>4 DEF Goto, TypeOK
  <2>2. ASSUME alone PROVE \A b \in Loaders : Replacing(b)'
    <3>1. Replacing(a)'
      BY <1>2, <1>4, <2>1, <2>2 DEF Replacing
    <3> QED BY <1>2, <2>1, <2>2, <3>1 DEF Replacing
  <2>3. alone => /\ Loading("main")' => Resting'
                 /\ ~(pc'["main"] = "serving" /\ Resting')
    BY <1>1, <1>2, <2>1 DEF Loading, Resting, Loaders
  <2> QED BY <1>1, <1>4, <2>2, <2>3 DEF ReplaceInv
<1> QED BY <1>3, <1>4 DEF Remove

\* A load that returns, at a moment when the entries are settled.
LEMMA ReplaceReturn ==
    ASSUME TypeOK, ReplaceInv, NEW a \in Loaders, NEW ok \in BOOLEAN, Return(a, ok),
           Running, pc[a] \in {"list", "schedule"}, alone => Settled, UNCHANGED <<entries, alone>>
    PROVE  ReplaceInv'
<1>1. pc'[a] \in {"idle", "serving", "down"} /\ (a = "reload" => pc'[a] = "idle")
      /\ \A b \in Loaders \ {a} : pc'[b] = pc[b]
  BY DEF Return, Goto, TypeOK
<1>2. Settled' = Settled
  BY DEF Settled, Scheduled
<1>3. ASSUME alone
      PROVE  /\ \A b \in Loaders \ {a} : pc[b] \notin {"remove", "list", "schedule"}
             /\ a = "reload" => pc["main"] = "serving"
             /\ a = "main" => Resting
  BY <1>3, LoadsApart
<1>4. ASSUME alone PROVE \A b \in Loaders : Replacing(b)'
  BY <1>1, <1>3, <1>4 DEF Replacing
<1>5. alone => (Loading("main")' => Resting')
  BY <1>1, <1>3 DEF Loading, Resting, Loaders
<1> QED BY <1>2, <1>4, <1>5 DEF ReplaceInv

\* A load reads the file: with no entry left, the first zero of its lines are
\* scheduled.
LEMMA ReplaceList ==
    ASSUME TypeOK, ReplaceInv, NEW a \in Loaders, List(a)
    PROVE  ReplaceInv'
<1>1. Running /\ pc[a] = "list" /\ UNCHANGED <<entries, alone>>
  BY DEF List
<1>2. alone => entries = {}
  BY <1>1 DEF ReplaceInv, Replacing
<1>3. CASE ~Loadable(file)
  <2>1. PICK ok \in BOOLEAN : Return(a, ok)
    BY <1>3, ReloadAssumption DEF List
  <2>2. alone => Settled
    BY <1>2 DEF Settled
  <2> QED BY <1>1, <2>1, <2>2, ReplaceReturn
<1>4. CASE Loadable(file)
  <2>1. pc' = [pc EXCEPT ![a] = "schedule"] /\ local' = [local EXCEPT ![a].todo = file]
    BY <1>4 DEF List, Goto
  <2>2. /\ pc'[a] = "schedule" /\ local'[a].todo = file
        /\ \A b \in Loaders \ {a} : pc'[b] = pc[b] /\ local'[b] = local[b]
    BY <2>1 DEF TypeOK
  <2>3. ASSUME alone
        PROVE  /\ \A b \in Loaders \ {a} : pc[b] \notin {"remove", "list", "schedule"}
               /\ a = "reload" => pc["main"] = "serving"
               /\ a = "main" => Resting
    BY <1>1, <2>3, LoadsApart
  <2>4. ASSUME alone PROVE Replacing(a)'
    <3>1. file \in Lines
      BY <1>4 DEF TypeOK, Loadable, Files, Lines
    <3>2. file \in Seq(Specs) /\ Len(file) \in Nat
      BY <3>1, LinesTyped
    <3>3. file = SubSeq(file, 0 + 1, Len(file)) /\ 0 \in 0 .. Len(file)
      BY <3>2, SubSeqFull
    <3>4. ScheduledTo(file, 0)'
      <4>1. entries' = {}
        BY <1>1, <1>2, <2>4
      <4>2. \A s \in Specs : {e \in entries' : e.spec = s} = {} /\ {i \in 1 .. 0 : file[i] = s} = {}
        BY <4>1
      <4>3. UNCHANGED file
        BY DEF List, fileVars
      <4> QED BY <4>2, <4>3 DEF ScheduledTo
    <3>5. UNCHANGED file
      BY DEF List, fileVars
    <3>6. \E content \in Contents \ Broken : \E k \in 0 .. Len(content) :
            /\ local'[a].todo = SubSeq(content, k + 1, Len(content))
            /\ \A i \in 1 .. k : content[i] \notin Unschedulable
            /\ ScheduledTo(content, k)'
      <4>1. \A i \in 1 .. 0 : file[i] \notin Unschedulable
        OBVIOUS
      <4>2. ScheduledTo(file, 0)' <=> \A s \in Specs :
                Cardinality({e \in entries' : e.spec = s}) = Cardinality({i \in 1 .. 0 : file[i] = s})
        BY <3>5 DEF ScheduledTo
      <4> QED BY <2>2, <3>1, <3>3, <3>4, <4>1, <4>2 DEF Lines, ScheduledTo
    <3> QED BY <2>2, <3>6 DEF Replacing, Partway
  <2>5. ASSUME alone PROVE \A b \in Loaders : Replacing(b)'
    BY <2>2, <2>3, <2>4, <2>5 DEF Replacing
  <2>6. alone => /\ Loading("main")' => Resting'
                 /\ ~(pc'["main"] = "serving" /\ Resting')
    BY <1>1, <2>2, <2>3 DEF Loading, Resting, Loaders
  <2> QED BY <1>1, <2>5, <2>6 DEF ReplaceInv
<1> QED BY <1>3, <1>4

\* What is scheduled is settled when nothing is left to schedule, or when the
\* next line cannot be.
LEMMA PartwaySettles ==
    ASSUME NEW todo, Partway(todo), todo = <<>> \/ Head(todo) \in Unschedulable
    PROVE  Settled
<1>1. PICK content \in Lines : \E k \in 0 .. Len(content) :
         /\ todo = SubSeq(content, k + 1, Len(content))
         /\ \A i \in 1 .. k : content[i] \notin Unschedulable
         /\ ScheduledTo(content, k)
  BY DEF Partway, Lines
<1>2. PICK k \in 0 .. Len(content) :
         /\ todo = SubSeq(content, k + 1, Len(content))
         /\ \A i \in 1 .. k : content[i] \notin Unschedulable
         /\ ScheduledTo(content, k)
  BY <1>1
<1>3. content \in Seq(Specs) /\ Len(content) \in Nat
  BY LinesTyped
<1>4. k = Len(content) \/ content[k + 1] \in Unschedulable
  <2> SUFFICES ASSUME k # Len(content) PROVE content[k + 1] \in Unschedulable
    OBVIOUS
  <2> DEFINE length == Len(content)
  <2>1. k \in 0 .. length /\ length \in Nat /\ k # length
    BY <1>3
  <2> HIDE DEF length
  <2>2. k + 1 \in 1 .. length /\ length \in (k + 1) .. length
    BY <2>1
  <2>3. Head(todo) = content[k + 1]
    BY <1>2, <1>3, <2>2, HeadTailOfSubSeq DEF length
  <2>4. todo # <<>>
    <3>1. \A i \in (k + 1) .. length : content[i] \in Specs
      BY <1>3, <2>1, ElementOfSeq DEF length
    <3>2. /\ todo = SubSeq(content, k + 1, length)
          /\ Len(SubSeq(content, k + 1, length)) = IF k + 1 <= length THEN length - (k + 1) + 1 ELSE 0
      BY <1>2, <2>1, <3>1, SubSeqProperties DEF length
    <3>3. length - (k + 1) + 1 # 0 /\ k + 1 <= length
      BY <2>1
    <3>4. Len(todo) # 0
      BY <3>2, <3>3
    <3> QED BY <3>4
  <2> QED BY <2>3, <2>4
<1>5. Target(content) = SubSeq(content, 1, k)
  BY <1>2, <1>4, TargetIs
<1>6. Scheduled(Target(content))
  BY <1>2, <1>5, ScheduledLines
<1> QED BY <1>6 DEF Settled, Lines

\* One line more is scheduled: the entries are again the first lines.
LEMMA PartwayNext ==
    ASSUME TypeOK, IsFiniteSet(entries), NEW todo, Partway(todo),
           todo # <<>>, Head(todo) \notin Unschedulable,
           entries' = entries \cup {[id |-> nextID, spec |-> Head(todo)]}
    PROVE  /\ IsFiniteSet(entries')
           /\ \E content \in Lines : \E k \in 0 .. Len(content) :
                /\ Tail(todo) = SubSeq(content, k + 1, Len(content))
                /\ \A i \in 1 .. k : content[i] \notin Unschedulable
                /\ ScheduledTo(content, k)'
<1>1. PICK content \in Lines : \E k \in 0 .. Len(content) :
         /\ todo = SubSeq(content, k + 1, Len(content))
         /\ \A i \in 1 .. k : content[i] \notin Unschedulable
         /\ ScheduledTo(content, k)
  BY DEF Partway, Lines
<1>2. PICK k \in 0 .. Len(content) :
         /\ todo = SubSeq(content, k + 1, Len(content))
         /\ \A i \in 1 .. k : content[i] \notin Unschedulable
         /\ ScheduledTo(content, k)
  BY <1>1
<1>3. content \in Seq(Specs) /\ Len(content) \in Nat
  BY LinesTyped
<1> DEFINE length == Len(content)
<1>4. length \in Nat /\ k \in 0 .. length
  BY <1>3
<1>5. k # length
  <2> SUFFICES ASSUME k = length PROVE todo = <<>>
    OBVIOUS
  <2>1. length < k + 1 /\ k + 1 \in Int /\ length \in Int
    BY <1>4
  <2> HIDE DEF length
  <2>2. SubSeq(content, k + 1, length) = <<>>
    BY <2>1, SubSeqEmpty
  <2> QED BY <1>2, <2>2 DEF length
<1> HIDE DEF length
<1>6. k + 1 \in 1 .. length /\ length \in (k + 1) .. length /\ k + 1 \in 0 .. length /\ k < length
  BY <1>4, <1>5
<1>7. Head(todo) = content[k + 1] /\ Tail(todo) = SubSeq(content, k + 1 + 1, length)
  BY <1>2, <1>3, <1>6, HeadTailOfSubSeq DEF length
<1>8. IsFiniteSet(entries') /\ ScheduledTo(content, k + 1)'
  BY <1>2, <1>6, <1>7, ScheduledNext DEF length
<1>9. \A i \in 1 .. (k + 1) : content[i] \notin Unschedulable
  <2>1. 1 .. (k + 1) = (1 .. k) \cup {k + 1}
    BY <1>4
  <2> QED BY <1>2, <1>7, <2>1
<1> QED BY <1>6, <1>7, <1>8, <1>9 DEF length

\* A load schedules the next line, or returns.
LEMMA ReplaceSchedule ==
    ASSUME TypeOK, ReplaceInv, NEW a \in Loaders, Schedule(a)
    PROVE  ReplaceInv'
<1> DEFINE todo == local[a].todo
<1>1. Running /\ pc[a] = "schedule" /\ alone' = alone
  BY DEF Schedule
<1>2. alone => Partway(todo)
  BY <1>1 DEF ReplaceInv, Replacing
<1>3. ASSUME NEW ok \in BOOLEAN, Return(a, ok), UNCHANGED <<entries, nextID>>,
             todo = <<>> \/ Head(todo) \in Unschedulable
      PROVE  ReplaceInv'
  <2>1. alone => Settled
    BY <1>2, <1>3, PartwaySettles
  <2> QED BY <1>1, <1>3, <2>1, ReplaceReturn
<1>4. ASSUME todo # <<>>, Head(todo) \notin Unschedulable,
             entries' = entries \cup {[id |-> nextID, spec |-> Head(todo)]},
             local' = [local EXCEPT ![a].todo = Tail(todo)], UNCHANGED pc
      PROVE  ReplaceInv'
  <2>1. IsFiniteSet(entries')
    BY <1>4, FS_AddElement DEF ReplaceInv
  <2>2. local'[a].todo = Tail(todo) /\ \A b \in Loaders \ {a} : local'[b] = local[b]
    BY <1>4 DEF TypeOK
  <2>3. ASSUME alone
        PROVE  /\ \A b \in Loaders \ {a} : pc[b] \notin {"remove", "list", "schedule"}
               /\ a = "reload" => pc["main"] = "serving"
               /\ a = "main" => Resting
    BY <1>1, <2>3, LoadsApart
  <2>4. ASSUME alone PROVE Replacing(a)'
    <3>1. \E content \in Lines : \E k \in 0 .. Len(content) :
             /\ Tail(todo) = SubSeq(content, k + 1, Len(content))
             /\ \A i \in 1 .. k : content[i] \notin Unschedulable
             /\ ScheduledTo(content, k)'
      BY <1>2, <1>4, <2>4, PartwayNext DEF ReplaceInv
    <3> HIDE DEF todo
    <3>2. \E content \in Contents \ Broken : \E k \in 0 .. Len(content) :
             /\ local'[a].todo = SubSeq(content, k + 1, Len(content))
             /\ \A i \in 1 .. k : content[i] \notin Unschedulable
             /\ \A s \in Specs :
                  Cardinality({e \in entries' : e.spec = s}) = Cardinality({i \in 1 .. k : content[i] = s})
      BY <2>2, <3>1 DEF Lines, ScheduledTo
    <3> QED BY <1>1, <1>4, <3>2 DEF Replacing, Partway, ScheduledTo
  <2>5. ASSUME alone PROVE \A b \in Loaders : Replacing(b)'
    BY <1>4, <2>3, <2>4, <2>5 DEF Replacing
  <2>6. alone => /\ Loading("main")' => Resting'
                 /\ ~(pc'["main"] = "serving" /\ Resting')
    BY <1>1, <1>4, <2>3 DEF Loading, Resting, Loaders
  <2> QED BY <1>1, <2>1, <2>5, <2>6 DEF ReplaceInv
<1> QED BY <1>3, <1>4 DEF Schedule

\* A reload (loadFromFileParser) that did not overlap the initial load leaves
\* nothing of what was scheduled before it and schedules every line of a
\* crontab once, up to the first that cannot be: for every crontab, every
\* number of changes of the file and of signals, and every interleaving of the
\* load of Do with the ones of reload.
THEOREM ReloadsReplace == Spec => []ReloadReplaces
<1>1. Init => ReplaceInv
  <2> SUFFICES ASSUME Init PROVE ReplaceInv
    OBVIOUS
  <2>1. IsFiniteSet(entries) /\ pc["main"] = "snapshot" /\ pc["reload"] \in {"idle", "stopped"}
    BY FS_EmptySet DEF Init, Loaders
  <2> QED BY <2>1 DEF ReplaceInv, Replacing, Loading, Loaders, Resting
<1>2. TypeOK /\ ReplaceInv /\ [Next]_vars => ReplaceInv'
  <2> SUFFICES ASSUME TypeOK, ReplaceInv, [Next]_vars PROVE ReplaceInv'
    OBVIOUS
  <2>1. CASE \/ UNCHANGED vars \/ Age \/ HandleSignal \/ WatchHup
             \/ WatchStart \/ WatchTick \/ WatchList \/ WatchDone
             \/ \E content \in Files : Edit(content)
             \/ \E sig \in {"HUP", "TERM"} : SendSignal(sig)
    <3>1. UNCHANGED loadVars
      BY <2>1 DEF vars, Age, HandleSignal, WatchHup, WatchStart, WatchTick, WatchList, WatchDone, Edit, SendSignal
    <3> QED BY <3>1, ReplaceStutters
  <2>2. CASE WatchSend \/ ReloadDone \/ Terminate
    BY <2>2, ReplaceAround
  <2>3. CASE \E a \in Loaders : Load(a)
    BY <2>3, ReplaceSnapshot, ReplaceRemove, ReplaceList, ReplaceSchedule DEF Load
  <2> QED BY <2>1, <2>2, <2>3 DEF Next, Watch
<1>3. ReplaceInv => ReloadReplaces
  BY DEF ReplaceInv, ReloadReplaces, Settled, Resting
<1> QED BY <1>1, <1>2, <1>3, TypeCorrect, PTL DEF Spec
==============================================================================
