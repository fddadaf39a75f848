----------------------------- MODULE Watch_proofs -----------------------------
(***************************************************************************)
(* The watcher forgets no change: QuietIsCurrent holds for any files, any     *)
(* queue and any number of changes and failed runs.                           *)
(***************************************************************************)
EXTENDS Watch, TLAPS

Queued(f) == \E i \in 1..Len(events) : events[i] = f

WatchTypeOK ==
  /\ disk \in [Files -> Nat] /\ gathered \in [Files -> Nat] /\ index \in [Files -> Nat]
  /\ events \in Seq(Files) /\ pending \subseteq Files /\ todo \subseteq Files
  /\ pc \in {"select", "gather", "stopped"}
  /\ overflow \in BOOLEAN /\ failed \in BOOLEAN

\* While the callback gathers, a watched file is still to be read, was read as it is, or
\* has an event in the queue; whether an earlier run failed does not matter, because
\* every run reads everything.
GatherCovers ==
  pc = "gather" /\ ~overflow =>
    \A f \in Watched : f \in todo \/ gathered[f] = disk[f] \/ Queued(f)

\* Otherwise a watched file that the index does not hold as it is will be
\* announced, unless the last run failed.
WaitCovers ==
  pc # "gather" /\ ~overflow /\ ~failed =>
    \A f \in Watched : index[f] = disk[f] \/ Queued(f) \/ f \in pending

\* A run is entered with nothing collected; what comes meanwhile stays queued.
WatchInv == WatchTypeOK /\ GatherCovers /\ WaitCovers
-----------------------------------------------------------------------------
\* Watch: the invariant holds before the first event.
LEMMA WatchInitially == Init => WatchInv
<1> SUFFICES ASSUME Init PROVE WatchInv OBVIOUS
<1>1. disk \in [Files -> Nat] /\ index = disk /\ gathered = disk BY DEF Init
<1>2. events \in Seq(Files) /\ pc = "select" BY DEF Init
<1>3. WatchTypeOK BY <1>1, <1>2 DEF Init, WatchTypeOK
<1>4. GatherCovers /\ WaitCovers BY <1>1, <1>2 DEF GatherCovers, WaitCovers
<1> QED BY <1>3, <1>4 DEF WatchInv

\* A new event leaves the queued ones queued and adds its own.
LEMMA Appended ==
  ASSUME NEW q \in Seq(Files), NEW f \in Files
  PROVE  /\ Append(q, f) \in Seq(Files)
         /\ \A g : (\E i \in 1..Len(Append(q, f)) : Append(q, f)[i] = g)
                     <=> ((\E i \in 1..Len(q) : q[i] = g) \/ g = f)
<1> DEFINE r == Append(q, f)
<1>1. r \in Seq(Files) /\ Len(r) = Len(q) + 1 /\ Len(q) \in Nat OBVIOUS
<1>2. \A i \in 1..Len(q) : r[i] = q[i] OBVIOUS
<1>3. r[Len(q) + 1] = f OBVIOUS
<1>4. 1..Len(r) = 1..Len(q) \cup {Len(q) + 1} BY <1>1
<1> QED BY <1>1, <1>2, <1>3, <1>4

\* Of the queued events only the first is taken.
LEMMA Taken ==
  ASSUME NEW q \in Seq(Files), q # <<>>
  PROVE  /\ Head(q) \in Files /\ Tail(q) \in Seq(Files)
         /\ \A g : (\E i \in 1..Len(q) : q[i] = g)
                     => (g = Head(q) \/ \E i \in 1..Len(Tail(q)) : Tail(q)[i] = g)
<1>1. Head(q) \in Files /\ Tail(q) \in Seq(Files) OBVIOUS
<1>2. Len(q) \in Nat \ {0} /\ Len(Tail(q)) = Len(q) - 1 /\ Head(q) = q[1] OBVIOUS
<1>3. \A i \in 1..Len(Tail(q)) : Tail(q)[i] = q[i + 1] OBVIOUS
<1>4. ASSUME NEW g, NEW i \in 1..Len(q), q[i] = g
      PROVE  g = Head(q) \/ \E j \in 1..Len(Tail(q)) : Tail(q)[j] = g
  <2>1. CASE i = 1 BY <1>2, <1>4, <2>1
  <2>2. CASE i # 1
    <3>1. i - 1 \in 1..Len(Tail(q)) /\ (i - 1) + 1 = i BY <1>2, <2>2
    <3>2. Tail(q)[i - 1] = g BY <1>3, <1>4, <3>1
    <3> QED BY <3>1, <3>2
  <2> QED BY <2>1, <2>2
<1> QED BY <1>1, <1>4
-----------------------------------------------------------------------------
\* Watch: every step of the loop, of the timer and of whoever writes files preserves it.
LEMMA WatchStep == WatchInv /\ [Next]_vars => WatchInv'
<1> SUFFICES ASSUME WatchInv, [Next]_vars PROVE WatchInv' OBVIOUS
<1> USE DEF WatchInv
<1>1. ASSUME NEW f \in Files, Change(f) PROVE WatchInv'
  <2>1. WatchTypeOK' BY <1>1, Appended DEF WatchTypeOK, Change, gather, stored
  <2>2. disk' = [disk EXCEPT ![f] = @ + 1] /\ UNCHANGED <<gathered, index, pc, todo, pending, failed>>
    BY <1>1 DEF Change, gather, stored
  <2>3. \A g \in Files : g # f => disk'[g] = disk[g] BY <2>2 DEF WatchTypeOK
  <2>4. ASSUME ~overflow' PROVE ~overflow /\ \A g \in Watched : (Queued(g) => Queued(g)') /\ (g = f => Queued(g)')
    <3>1. ~overflow /\ (f \in Watched => events' = Append(events, f)) /\ (f \notin Watched => events' = events)
      BY <1>1, <2>4 DEF Change
    <3>2. CASE f \notin Watched BY <3>1, <3>2, WatchAssumption DEF Queued
    <3>3. CASE f \in Watched
      <4>1. events \in Seq(Files) BY DEF WatchTypeOK
      <4>2. \A g : Queued(g)' <=> (Queued(g) \/ g = f) BY <3>1, <3>3, <4>1, Appended DEF Queued
      <4> QED BY <3>1, <4>2
    <3> QED BY <3>2, <3>3
  <2>5. GatherCovers' BY <2>2, <2>3, <2>4, WatchAssumption DEF GatherCovers
  <2>6. WaitCovers' BY <2>2, <2>3, <2>4, WatchAssumption DEF WaitCovers
  <2> QED BY <2>1, <2>5, <2>6
<1>2. CASE TakeEvent
  <2>1. /\ events # <<>> /\ pc = "select" /\ pending' = pending \cup {Head(events)} /\ events' = Tail(events)
        /\ UNCHANGED <<disk, overflow, pc, todo, gathered, index, failures, failed>>
    BY <1>2 DEF TakeEvent, Collect, gather, stored
  <2>2. WatchTypeOK' BY <2>1, Taken DEF WatchTypeOK
  <2>3. GatherCovers' BY <2>1 DEF GatherCovers
  <2>4. \A g \in Watched : Queued(g) => g \in pending' \/ Queued(g)'
    BY <2>1, Taken DEF Queued, WatchTypeOK
  <2>5. WaitCovers' BY <2>1, <2>4 DEF WaitCovers
  <2> QED BY <2>2, <2>3, <2>5
<1>3. CASE Expire
  BY <1>3 DEF Expire, WatchTypeOK, GatherCovers, WaitCovers, Queued, source, gather, stored
<1>4. CASE Fire
  <2>1. /\ pc = "select" /\ pending' = {} /\ UNCHANGED <<events, disk, overflow, gathered, index, failures, failed>>
        /\ pc' = IF pending = {} THEN "select" ELSE "gather"
        /\ todo' = IF pending = {} THEN {} ELSE Files
    BY <1>4 DEF Fire, source, stored
  <2>2. WatchTypeOK' BY <2>1 DEF WatchTypeOK
  <2>3. GatherCovers' BY <2>1, WatchAssumption DEF GatherCovers
  <2>4. WaitCovers' BY <2>1 DEF WaitCovers, Queued
  <2> QED BY <2>2, <2>3, <2>4
<1>5. ASSUME NEW f \in Files, Read(f) PROVE WatchInv'
  <2>1. /\ pc = "gather" /\ gathered' = [gathered EXCEPT ![f] = disk[f]] /\ todo' = todo \ {f}
        /\ UNCHANGED <<events, disk, overflow, pending, pc, index, failures, failed>>
    BY <1>5 DEF Read, source, stored
  <2>2. WatchTypeOK' BY <2>1 DEF WatchTypeOK
  <2>3. \A g \in Files : gathered'[g] = IF g = f THEN disk[g] ELSE gathered[g] BY <2>1 DEF WatchTypeOK
  <2>4. GatherCovers' BY <2>1, <2>3, WatchAssumption DEF GatherCovers, Queued
  <2>5. WaitCovers' BY <2>1 DEF WaitCovers
  <2> QED BY <2>2, <2>4, <2>5
<1>6. CASE Run
  <2>1. /\ pc = "gather" /\ todo = {} /\ index' = gathered /\ pc' = "select"
        /\ UNCHANGED <<events, disk, overflow, pending, todo, gathered, failures>> /\ failed' = FALSE
    BY <1>6 DEF Run, source, gather
  <2>2. WatchTypeOK' BY <2>1 DEF WatchTypeOK
  <2>3. GatherCovers' BY <2>1 DEF GatherCovers
  <2>4. WaitCovers' BY <2>1 DEF GatherCovers, WaitCovers, Queued
  <2> QED BY <2>2, <2>3, <2>4
<1>7. CASE RunFails
  BY <1>7 DEF RunFails, WatchTypeOK, GatherCovers, WaitCovers, Queued, source
<1>8. CASE SourceError \/ Cancel
  BY <1>8 DEF SourceError, Cancel, Stop, WatchTypeOK, GatherCovers, WaitCovers, Queued, source, gather, stored
<1>9. CASE UNCHANGED vars
  BY <1>9 DEF vars, WatchTypeOK, GatherCovers, WaitCovers, Queued
<1> QED BY <1>1, <1>2, <1>3, <1>4, <1>5, <1>6, <1>7, <1>8, <1>9 DEF Next, Loop

\* Watch: a watcher that waits, with nothing collected and nothing queued, has the
\* watched files as they are on disk, unless the last run failed or an event was lost.
THEOREM QuietWatchIsCurrent == Spec => []QuietIsCurrent
<1>1. WatchInv => QuietIsCurrent
  BY WatchAssumption DEF WatchInv, WatchTypeOK, WaitCovers, Queued, QuietIsCurrent, Quiet
<1> QED BY WatchInitially, WatchStep, <1>1, PTL DEF Spec
=============================================================================
