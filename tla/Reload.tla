------------------------------- MODULE Reload --------------------------------
(***************************************************************************)
(* How the entries of cron follow the crontab file: the initial load of    *)
(* Scheduler.Do, the goroutine of Parser.Changes that watches the file,    *)
(* Scheduler.reload that replaces the entries, and the goroutine of main   *)
(* that hands SIGHUP to the watcher and cancels the context on SIGTERM.    *)
(* hupCh and the channel of Changes have no buffer: a send is one step of  *)
(* both ends.                                                              *)
(* A definition introduced by "Slip" is a plausible mistake in the one     *)
(* after it, used by no behaviour.                                         *)
(***************************************************************************)
EXTENDS Integers, FiniteSets, Sequences

CONSTANTS
    Specs,           \* the lines of crontabs
    Unschedulable,   \* the lines cron cannot schedule
    Contents,        \* what the file may hold: sequences of lines
    Broken,          \* contents that do not parse (YAML)
    Missing,         \* stands for the content when there is no file
    UpdatesEnabled,  \* --update
    MaxEdits,        \* edits of the file (bound)
    MaxSignals,      \* signals sent to the process (bound)
    MaxEntries       \* entries ever made (bound)

Files == Contents \cup {Missing}

ASSUME ReloadAssumption ==
    /\ Unschedulable \subseteq Specs /\ Contents \subseteq Seq(Specs) /\ Broken \subseteq Contents
    /\ Missing \notin Contents
    /\ UpdatesEnabled \in BOOLEAN /\ {MaxEdits, MaxSignals, MaxEntries} \subseteq Nat

Loaders == {"main", "reload"}

VARIABLES
    file,       \* the content of the crontab file
    mtime,      \* its modification time: the number of the edit
    aged,       \* whether the last edit is old enough to be looked at
    sent,       \* the number of signals sent
    sigChan,    \* signals received by the runtime and not handled yet
    signals,    \* the goroutine of signals: "select" or "sending" to hupCh
    cancelled,  \* the context
    watcher,    \* the goroutine of Changes
    lastMtime,  \* its lastMtime
    pc,         \* where Do and the goroutine of reload are
    local,      \* the locals of their loadFromFileParser
    entries,    \* the entries of cron
    nextID,     \* cron's nextID
    alone       \* history: the last load of reload did not overlap the one of Do

fileVars == <<file, mtime, aged>>
signalVars == <<sent, sigChan, signals, cancelled>>
watchVars == <<watcher, lastMtime>>
loadVars == <<pc, local, entries, nextID, alone>>
vars == <<fileVars, signalVars, watchVars, loadVars>>

Running == pc["main"] # "down"
Loading(a) == pc[a] \in {"snapshot", "remove", "list", "schedule"}
NoLocal == [ids |-> {}, todo |-> <<>>]

Init ==
    /\ file \in Files /\ mtime = 0 /\ aged = TRUE
    /\ sent = 0 /\ sigChan = <<>> /\ signals = "select" /\ cancelled = FALSE
    /\ watcher = (IF UpdatesEnabled THEN "start" ELSE "off")
    /\ lastMtime = -1
    /\ pc = [a \in Loaders |->
               IF a = "main" THEN "snapshot" ELSE IF UpdatesEnabled THEN "idle" ELSE "stopped"]
    /\ local = [a \in Loaders |-> NoLocal]
    /\ entries = {} /\ nextID = 0 /\ alone = TRUE

-----------------------------------------------------------------------------
(* The file and the signals.                                                 *)

Edit(content) ==
    /\ Running /\ mtime < MaxEdits
    /\ file' = content /\ mtime' = mtime + 1 /\ aged' = FALSE
    /\ UNCHANGED <<signalVars, watchVars, loadVars>>

Age ==
    /\ Running /\ ~aged
    /\ aged' = TRUE
    /\ UNCHANGED <<file, mtime, signalVars, watchVars, loadVars>>

\* The runtime drops a signal when the channel, of one place, is taken.
SignalsFull == Len(sigChan) = 1

SendSignal(sig) ==
    /\ Running /\ sent < MaxSignals
    /\ sent' = sent + 1
    /\ sigChan' = IF SignalsFull THEN sigChan ELSE Append(sigChan, sig)
    /\ UNCHANGED <<fileVars, signals, cancelled, watchVars, loadVars>>

HandleSignal ==
    /\ Running /\ signals = "select" /\ sigChan # <<>>
    /\ sigChan' = Tail(sigChan)
    /\ \/ Head(sigChan) = "HUP" /\ signals' = "sending" /\ UNCHANGED cancelled
       \/ Head(sigChan) = "TERM" /\ cancelled' = TRUE /\ UNCHANGED signals
    /\ UNCHANGED <<fileVars, sent, watchVars, loadVars>>

-----------------------------------------------------------------------------
(* Parser.Changes                                                            *)

\* The modification time is read when the watcher starts, -1 stands for none.
WatchStart ==
    /\ Running /\ watcher = "start"
    /\ watcher' = "select"
    /\ lastMtime' = IF file = Missing THEN -1 ELSE mtime
    /\ UNCHANGED <<fileVars, signalVars, loadVars>>

\* Slip: a forced refresh looks at the modification time.
ForcedIfChanged == mtime # lastMtime

\* hupCh reloads the file whatever its modification time.
Forced == TRUE

WatchHup ==
    /\ Running /\ watcher = "select" /\ signals = "sending"
    /\ signals' = "select"
    /\ watcher' = IF Forced THEN "list" ELSE "select"
    /\ UNCHANGED <<fileVars, sent, sigChan, cancelled, lastMtime, loadVars>>

\* A change is taken when it is half an update interval old.
Changed == mtime # lastMtime /\ aged

\* Slip: a change that is too young is remembered.
RememberedAlways == mtime
Remembered == IF Changed THEN mtime ELSE lastMtime

WatchTick ==
    /\ Running /\ watcher = "select" /\ file # Missing
    /\ lastMtime' = Remembered
    /\ watcher' = IF Changed THEN "list" ELSE "select"
    /\ UNCHANGED <<fileVars, signalVars, loadVars>>

Loadable(content) == content \notin {Missing} \cup Broken

\* Slip: the watcher gives up.
AfterFailedListReturn == "closed"

\* The watcher goes on.
AfterFailedList == "select"

WatchList ==
    /\ Running /\ watcher = "list"
    /\ watcher' = IF Loadable(file) THEN "send" ELSE AfterFailedList
    /\ UNCHANGED <<fileVars, signalVars, lastMtime, loadVars>>

\* reload does not use the jobs it is sent: it reads the file again.
WatchSend ==
    /\ Running /\ watcher = "send" /\ pc["reload"] = "idle"
    /\ watcher' = "select"
    /\ pc' = [pc EXCEPT !["reload"] = "snapshot"]
    /\ UNCHANGED <<fileVars, signalVars, lastMtime, local, entries, nextID, alone>>

WatchDone ==
    /\ Running /\ watcher = "select" /\ cancelled
    /\ watcher' = "closed"
    /\ UNCHANGED <<fileVars, signalVars, lastMtime, loadVars>>

ReloadDone ==
    /\ Running /\ pc["reload"] = "idle" /\ (cancelled \/ watcher = "closed")
    /\ pc' = [pc EXCEPT !["reload"] = "stopped"]
    /\ UNCHANGED <<fileVars, signalVars, watchVars, local, entries, nextID, alone>>

-----------------------------------------------------------------------------
(* loadFromFileParser, by Do and by reload, which nothing keeps apart.       *)

Goto(a, label) == pc' = [pc EXCEPT ![a] = label]

\* Slip: the entries of jobs that are still in the file stay.
OutdatedOnly ==
    {e \in entries : file = Missing \/ \A i \in DOMAIN file : file[i] # e.spec}

\* All of the entries are replaced.
Outdated == entries

Snapshot(a) ==
    /\ Running /\ pc[a] = "snapshot"
    /\ local' = [local EXCEPT ![a].ids = {e.id : e \in Outdated}]
    /\ alone' = IF a = "reload" THEN ~Loading("main") ELSE alone
    /\ Goto(a, "remove")
    /\ UNCHANGED <<fileVars, signalVars, watchVars, entries, nextID>>

\* An entry another load removed is not there: nothing happens.
Remove(a) ==
    /\ Running /\ pc[a] = "remove"
    /\ \/ \E id \in local[a].ids :
            /\ entries' = {e \in entries : e.id # id}
            /\ local' = [local EXCEPT ![a].ids = @ \ {id}]
            /\ UNCHANGED pc
       \/ local[a].ids = {} /\ Goto(a, "list") /\ UNCHANGED <<local, entries>>
    /\ UNCHANGED <<fileVars, signalVars, watchVars, nextID, alone>>

\* loadFromFileParser returns.  Do ends the process when it failed, unless the
\* file is missing and may appear; reload waits for the next change.
Return(a, ok) ==
    /\ Goto(a, IF a = "reload" THEN "idle" ELSE IF ok THEN "serving" ELSE "down")
    /\ local' = [local EXCEPT ![a].todo = <<>>]

List(a) ==
    /\ Running /\ pc[a] = "list"
    /\ \/ /\ Loadable(file)
          /\ local' = [local EXCEPT ![a].todo = file]
          /\ Goto(a, "schedule")
       \/ ~Loadable(file) /\ Return(a, file = Missing /\ UpdatesEnabled)
    /\ UNCHANGED <<fileVars, signalVars, watchVars, entries, nextID, alone>>

Schedule(a) ==
    LET todo == local[a].todo
    IN  /\ Running /\ pc[a] = "schedule"
        /\ \/ /\ todo # <<>> /\ Head(todo) \notin Unschedulable
              /\ nextID < MaxEntries \* bound
              /\ entries' = entries \cup {[id |-> nextID, spec |-> Head(todo)]}
              /\ nextID' = nextID + 1
              /\ local' = [local EXCEPT ![a].todo = Tail(todo)]
              /\ UNCHANGED pc
           \/ todo # <<>> /\ Head(todo) \in Unschedulable /\ Return(a, FALSE) /\ UNCHANGED <<entries, nextID>>
           \/ todo = <<>> /\ Return(a, TRUE) /\ UNCHANGED <<entries, nextID>>
        /\ UNCHANGED <<fileVars, signalVars, watchVars, alone>>

\* Do returns and the process exits; Scheduler models what it waits for.
Terminate ==
    /\ pc["main"] = "serving" /\ cancelled
    /\ Goto("main", "down")
    /\ UNCHANGED <<fileVars, signalVars, watchVars, local, entries, nextID, alone>>

-----------------------------------------------------------------------------
Load(a) == Snapshot(a) \/ Remove(a) \/ List(a) \/ Schedule(a)
Watch == WatchStart \/ WatchTick \/ WatchList \/ WatchSend \/ WatchDone

Next ==
    \/ \E content \in Files : Edit(content)
    \/ Age
    \/ \E sig \in {"HUP", "TERM"} : SendSignal(sig)
    \/ HandleSignal \/ WatchHup \/ Watch \/ ReloadDone
    \/ \E a \in Loaders : Load(a)
    \/ Terminate

Spec == Init /\ [][Next]_vars

\* Every goroutine that can go on does, a ready case of the watcher's select is
\* not passed over for ever, and time passes.
FairSpec ==
    /\ Spec
    /\ WF_vars(Age) /\ WF_vars(HandleSignal) /\ WF_vars(Watch) /\ WF_vars(WatchHup)
    /\ WF_vars(ReloadDone) /\ WF_vars(Terminate)
    /\ \A a \in Loaders : WF_vars(Load(a))

-----------------------------------------------------------------------------
(* What reloading promises.                                                  *)

Labels == {"idle", "snapshot", "remove", "list", "schedule", "serving", "stopped", "down"}

\* Every variable has its type, the entries have the numbers cron has given
\* out, and a signal waits at most where the runtime has a place for it.
TypeOK ==
    /\ file \in Files /\ mtime \in 0 .. MaxEdits /\ aged \in BOOLEAN
    /\ sent \in 0 .. MaxSignals /\ sigChan \in Seq({"HUP", "TERM"}) /\ Len(sigChan) <= 1
    /\ signals \in {"select", "sending"} /\ cancelled \in BOOLEAN
    /\ watcher \in {"off", "start", "select", "list", "send", "closed"}
    /\ lastMtime \in -1 .. MaxEdits
    /\ pc \in [Loaders -> Labels] /\ pc["main"] \notin {"idle", "stopped"}
    /\ pc["reload"] \notin {"serving", "down"}
    /\ local \in [Loaders -> [ids : SUBSET (0 .. MaxEntries), todo : Seq(Specs)]]
    /\ entries \subseteq [id : 0 .. MaxEntries, spec : Specs]
    /\ \A e \in entries : e.id < nextID
    /\ nextID \in 0 .. MaxEntries /\ alone \in BOOLEAN

\* What a content schedules: its lines up to the first that cannot be.
Target(content) ==
    LET ok(k) == \A i \in 1 .. k : content[i] \notin Unschedulable
    IN  SubSeq(content, 1, CHOOSE k \in 0 .. Len(content) :
                             ok(k) /\ \A n \in (k + 1) .. Len(content) : ~ok(n))

\* The entries are the ones of the lines, each as often as it is there.
Scheduled(lines) ==
    \A s \in Specs : Cardinality({e \in entries : e.spec = s}) = Cardinality({i \in DOMAIN lines : lines[i] = s})

\* A reload (loadFromFileParser) that did not overlap the initial load leaves
\* nothing of what was scheduled before it, and schedules every line once: no
\* job runs twice and none that was removed goes on.
ReloadReplaces ==
    pc["reload"] = "idle" /\ pc["main"] = "serving" /\ alone =>
        entries = {} \/ \E content \in Contents \ Broken : Scheduled(Target(content))

UpToDate == Loadable(file) => Scheduled(Target(file))

\* The process is ending, or a load overlapped the initial one.
Excused == cancelled \/ ~Running \/ ~alone

\* A change the watcher has not seen is loaded, also when it is too young at
\* first, when the file did not parse, or when more changes follow.
ChangesLoaded == (watcher = "select" /\ mtime # lastMtime) ~> (UpToDate \/ Excused)

\* README: "user can send SIGHUP signal to `cronn` to force update check", also
\* for a file whose modification time the watcher has seen.
HupReloads == (sigChan # <<>> /\ Head(sigChan) = "HUP") ~> (UpToDate \/ Excused)

\* main.go: "terminate on SIGTERM".  A SIGTERM the process was given ends it.
TermEnds == (\E i \in DOMAIN sigChan : sigChan[i] = "TERM") ~> ~Running
=============================================================================
