-------------------------------- MODULE Watch --------------------------------
(***************************************************************************)
(* `pixkb watch`: file events on the drop directory are collected, a timer   *)
(* is restarted at each, and when it expires one gather and Run is made by   *)
(* the same goroutine, which takes no event meanwhile.  A failed run is      *)
(* logged and swallowed; an error of the event source ends the watcher.      *)
(***************************************************************************)
EXTENDS Naturals, Sequences

CONSTANTS
  Files,       \* gathered files
  Watched,     \* those directly in the watched directory: w.Add is not recursive
  QueueLimit,  \* events the operating system keeps for a slow reader
  MaxVersion, MaxFailures  \* bounds of the model

ASSUME WatchAssumption == Watched \subseteq Files /\ QueueLimit \in Nat \ {0}

VARIABLES
  disk,      \* how often each file was written
  events,    \* the queue of the event source: file names, in order
  overflow,  \* the source lost an event and has an error to report
  pending,   \* files named by events since the last run
  timer,     \* "off" (timerC is nil), "armed" or "expired"
  pc,        \* "select"; "gather" and "run" inside the callback; "stopped"
  todo, gathered,  \* the gather in hand: files to read, versions read
  index,     \* what the last successful run stored
  failures,  \* how many runs failed
  failed     \* history: the last run failed

vars == <<disk, events, overflow, pending, timer, pc, todo, gathered, index, failures, failed>>
source == <<disk, events, overflow>>
gather == <<todo, gathered>>
stored == <<index, failures, failed>>

Init ==
  /\ disk = [f \in Files |-> 0] /\ index = disk /\ gathered = disk
  /\ events = <<>> /\ overflow = FALSE
  /\ pending = {} /\ timer = "off" /\ pc = "select" /\ todo = {}
  /\ failures = 0 /\ failed = FALSE

\* A file is created or written.  Removals and renames make no event that counts.
Change(f) ==
  /\ disk[f] < MaxVersion
  /\ disk' = [disk EXCEPT ![f] = @ + 1]
  /\ LET fits == Len(events) < QueueLimit
     IN /\ events' = IF f \in Watched /\ fits THEN Append(events, f) ELSE events
        /\ overflow' = (overflow \/ (f \in Watched /\ ~fits))
  /\ UNCHANGED <<pending, timer, pc, gather, stored>>

\* case ev := <-w.Events, where the timer becomes t.
Collect(t) ==
  /\ pc = "select" /\ events # <<>>
  /\ pending' = pending \cup {Head(events)}
  /\ events' = Tail(events)
  /\ timer' = t
  /\ UNCHANGED <<disk, overflow, pc, gather, stored>>

\* Mutant: a timer that was stopped too late is not replaced.
TakeEventStopped == Collect(IF timer = "expired" THEN "off" ELSE "armed")
\* The timer is stopped and replaced, and one that has expired already loses its
\* channel, so that it cannot fire before its time.
TakeEvent == Collect("armed")

Expire ==
  /\ timer = "armed" /\ pc # "stopped"
  /\ timer' = "expired"
  /\ UNCHANGED <<source, pending, pc, gather, stored>>

\* case <-timerC: the callback is called with the files collected.
Fire ==
  /\ pc = "select" /\ timer = "expired"
  /\ timer' = "off"
  /\ pending' = {}
  /\ pc' = IF pending = {} THEN "select" ELSE "gather"
  /\ todo' = IF pending = {} THEN {} ELSE Files
  /\ UNCHANGED <<source, gathered, stored>>

\* ingest.GatherAll reads one file after another.
Read(f) ==
  /\ pc = "gather" /\ f \in todo
  /\ gathered' = [gathered EXCEPT ![f] = disk[f]]
  /\ todo' = todo \ {f}
  /\ UNCHANGED <<source, pending, timer, pc, stored>>

\* Mutant: events that came while the callback ran are dropped as its own.
RunDrains ==
  /\ pc = "gather" /\ todo = {}
  /\ index' = gathered /\ failed' = FALSE
  /\ pc' = "select"
  /\ events' = <<>>
  /\ UNCHANGED <<disk, overflow, pending, timer, gather, failures>>

Run ==
  /\ pc = "gather" /\ todo = {}
  /\ index' = gathered /\ failed' = FALSE
  /\ pc' = "select"
  /\ UNCHANGED <<source, pending, timer, gather, failures>>

\* newRunner, the gather or Run fails: logged, and nil is returned.
RunFails ==
  /\ pc = "gather" /\ failures < MaxFailures
  /\ failures' = failures + 1 /\ failed' = TRUE
  /\ pc' = "select" /\ todo' = {}
  /\ UNCHANGED <<source, pending, timer, gathered, index>>

\* case err := <-w.Errors, and ctx.Done().
Stop ==
  /\ pc' = "stopped"
  /\ UNCHANGED <<source, pending, timer, gather, stored>>
SourceError == pc = "select" /\ overflow /\ Stop
Cancel == pc = "select" /\ Stop

Loop == TakeEvent \/ Fire \/ (\E f \in Files : Read(f)) \/ Run \/ SourceError
Next == (\E f \in Files : Change(f)) \/ Expire \/ Loop \/ RunFails \/ Cancel

\* The goroutine is scheduled and time passes; nobody has to write or to cancel.
Spec == Init /\ [][Next]_vars /\ WF_vars(Loop) /\ WF_vars(Expire)
-----------------------------------------------------------------------------
(* Properties.                                                             *)

\* Watch: when the watcher waits with nothing collected and nothing queued, the
\* index holds every watched file as it is on disk, although files changed while
\* earlier runs were reading them; except after a run that failed, or an event that
\* the source lost.
Quiet == pc = "select" /\ events = <<>> /\ pending = {}
QuietIsCurrent == Quiet /\ ~failed /\ ~overflow => \A f \in Watched : index[f] = disk[f]

\* Watch "debounces bursts" and must come to an end with them: once files stay as
\* they are, the watcher has caught up with them, failed, or stopped.
CatchesUp == <>[](Quiet \/ pc = "stopped")
=============================================================================
