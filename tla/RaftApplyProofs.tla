--------------------------- MODULE RaftApplyProofs ---------------------------
(***************************************************************************)
(* The apply loop delivers every entry once and in order, for any length of *)
(* the log and any number of crashes, as long as requests come in time      *)
(* (~Late).                                                                 *)
(***************************************************************************)
EXTENDS RaftApply, TLAPS

executed == Len(kv.state)

-----------------------------------------------------------------------------
(***************************************************************************)
(* The inductive invariant.  InOrder says nothing of what the loop holds in *)
(* its local variables while it does not hold the lock: the invariant says  *)
(* how far the service is at each point of a round, and that a snapshot     *)
(* that is pending is ahead of all the round can still deliver.             *)
(***************************************************************************)

\* The log is in memory from its snapshot on, and has all that is committed.
LogInv ==
  /\ log.snapLastIdx \in 0..log.lastIdx
  /\ log.snapshot = prefix(log.snapLastIdx)
  /\ commitIndex \in 0..log.lastIdx

\* The service.
ServiceInv ==
  /\ kv.state = prefix(executed)
  /\ kv.lastApplied \in {0, executed}
  /\ kv.busy => kv.lastApplied = executed

\* How far the service is.
CountInv ==
  /\ loop.pc \in {"lock", "wait", "woken", "snapshot"} => lastApplied = executed
  /\ loop.pc = "entries" =>
       /\ executed = lastApplied + loop.sent
       /\ loop.sent <= Len(loop.entries)
       /\ lastApplied + Len(loop.entries) <= commitIndex
       /\ snapPending => lastApplied + Len(loop.entries) <= log.snapLastIdx
       /\ \A i \in 1..Len(loop.entries) : loop.entries[i] = lastApplied + i
  /\ loop.pc = "finish" => executed = log.snapLastIdx
  /\ loop.pc # "finish" => executed <= commitIndex

\* A pending snapshot is ahead of the service, and stays what it is while it is delivered.
PendingInv ==
  /\ ~snapPending => log.snapLastIdx <= executed
  /\ snapPending => executed <= log.snapLastIdx
  /\ loop.pc \in {"snapshot", "finish"} => snapPending
  /\ loop.pc = "snapshot" =>
       /\ loop.Snapshot \in {<<Unread>>, prefix(log.snapLastIdx)}
       /\ loop.SnapshotIndex \in {Unread, log.snapLastIdx}

IndInv == TypeOK /\ LogInv /\ ServiceInv /\ CountInv /\ PendingInv

-----------------------------------------------------------------------------
(* What the steps are made of. *)

\* The entries 1..n, and what follows them.
LEMMA PrefixFacts ==
  ASSUME NEW n \in 0..MaxIndex
  PROVE  /\ prefix(n) \in Seq(1..MaxIndex)
         /\ Len(prefix(n)) = n
         /\ prefix(n) # <<Unread>>
         /\ n + 1 <= MaxIndex => Append(prefix(n), n + 1) = prefix(n + 1)
<1>1. n \in Nat /\ MaxIndex \in Nat
  BY ApplyAssumption
<1>2. prefix(n) \in Seq(1..MaxIndex) /\ Len(prefix(n)) = n
  BY <1>1 DEF prefix
<1>3. prefix(n) # <<Unread>>
  <2>1. <<Unread>>[1] = -1 /\ Len(<<Unread>>) = 1
    BY DEF Unread
  <2>2. n = 1 => prefix(n)[1] = 1
    BY DEF prefix
  <2>3. ASSUME prefix(n) = <<Unread>> PROVE FALSE
    <3>1. n = 1 /\ prefix(n)[1] = -1
      BY <1>2, <2>1, <2>3, Zenon
    <3> QED
      BY <2>2, <3>1
  <2> QED
    BY <2>3
<1>4. Append(prefix(n), n + 1) = prefix(n + 1)
  <2>1. /\ Append(prefix(n), n + 1) \in Seq(Nat)
        /\ Len(Append(prefix(n), n + 1)) = n + 1
        /\ \A k \in 1..(n + 1) : Append(prefix(n), n + 1)[k] = k
    BY <1>1 DEF prefix
  <2>2. /\ prefix(n + 1) \in Seq(Nat)
        /\ Len(prefix(n + 1)) = n + 1
        /\ \A k \in 1..(n + 1) : prefix(n + 1)[k] = k
    BY <1>1 DEF prefix
  <2> QED
    BY <1>1, <2>1, <2>2
<1> QED
  BY <1>2, <1>3, <1>4

\* The types of the counters.
LEMMA Counters ==
  ASSUME IndInv
  PROVE  /\ log.snapLastIdx \in 0..MaxIndex /\ log.lastIdx \in 0..MaxIndex
         /\ commitIndex \in 0..MaxIndex /\ lastApplied \in 0..MaxIndex
         /\ kv.lastApplied \in 0..MaxIndex /\ executed \in 0..MaxIndex
         /\ loop.sent \in 0..MaxIndex /\ Len(loop.entries) \in Nat
         /\ log.lastIdx \in Nat /\ log.snapLastIdx \in Nat /\ MaxIndex \in Nat
         /\ committed = commitIndex
<1>1. MaxIndex \in Nat
  BY ApplyAssumption
<1>2. /\ log.snapLastIdx \in 0..MaxIndex /\ log.lastIdx \in 0..MaxIndex
      /\ commitIndex \in 0..MaxIndex /\ lastApplied \in 0..MaxIndex
      /\ kv.lastApplied \in 0..MaxIndex /\ executed \in Nat
      /\ loop.sent \in 0..MaxIndex /\ Len(loop.entries) \in Nat
      /\ loop.pc \in {"lock", "wait", "woken", "entries", "snapshot", "finish"}
  BY DEF IndInv, TypeOK, executed
<1>3. executed \in 0..MaxIndex
  BY <1>1, <1>2 DEF IndInv, CountInv
<1>4. committed = commitIndex
  BY <1>1, <1>2 DEF IndInv, LogInv, committed
<1> QED
  BY <1>1, <1>2, <1>3, <1>4

Loop ==
  [pc : {"lock", "wait", "woken", "entries", "snapshot", "finish"}, entries : Seq(1..MaxIndex),
   sent : 0..MaxIndex, SnapshotIndex : {Unread} \cup 0..MaxIndex,
   Snapshot : {<<Unread>>} \cup Seq(1..MaxIndex)]

\* The loop with nothing in its variables.
LEMMA LoopAt ==
  ASSUME NEW pc \in {"lock", "wait", "woken", "entries", "snapshot", "finish"}
  PROVE  /\ loopAt(pc) \in Loop
         /\ loopAt(pc).pc = pc /\ loopAt(pc).entries = <<>> /\ loopAt(pc).sent = 0
         /\ loopAt(pc).SnapshotIndex = Unread /\ loopAt(pc).Snapshot = <<Unread>>
  BY ApplyAssumption DEF loopAt, Loop

\* A signal may wake the loop, and nothing else happens to it.
LEMMA SignalFacts ==
  ASSUME loop \in Loop, Signal
  PROVE  /\ loop' \in Loop
         /\ \/ loop' = loop
            \/ loop.pc = "wait" /\ loop'.pc = "woken"
<1>1. CASE loop.pc = "wait"
  BY <1>1, LoopAt DEF Signal
<1>2. CASE loop.pc # "wait"
  BY <1>2 DEF Signal
<1> QED
  BY <1>1, <1>2

-----------------------------------------------------------------------------
(* The handlers. *)

\* Entries of a leader: no committed entry is cut off.
LEMMA AppendEntriesInv ==
  ASSUME IndInv, ~Late, NEW end \in 0..MaxIndex, NEW leaderCommit \in 0..MaxIndex,
         AppendEntries(end, leaderCommit)
  PROVE  IndInv'
<1>1. /\ end >= log.snapLastIdx /\ leaderCommit <= end /\ end >= commitIndex
      /\ log' = [log EXCEPT !.lastIdx = end]
      /\ UNCHANGED <<lastApplied, snapPending, kv, restarts>>
  BY Counters DEF AppendEntries, appendFrom
<1>2. /\ log' \in [snapLastIdx : 0..MaxIndex, snapshot : Seq(1..MaxIndex), lastIdx : 0..MaxIndex]
      /\ log'.snapLastIdx = log.snapLastIdx /\ log'.snapshot = log.snapshot
      /\ log'.lastIdx = end
  BY <1>1, Zenon DEF IndInv, TypeOK
<1>3. commitIndex' \in 0..end /\ commitIndex' >= commitIndex
  BY <1>1, Counters DEF AppendEntries
<1>4. /\ loop' \in Loop
      /\ \/ loop' = loop
         \/ loop.pc = "wait" /\ loop'.pc = "woken"
  BY SignalFacts DEF AppendEntries, IndInv, TypeOK, Loop
<1>5. TypeOK'
  <2>1. commitIndex' \in 0..MaxIndex
    BY <1>3, Counters
  <2> QED
    BY <1>1, <1>2, <1>4, <2>1, Zenon DEF IndInv, TypeOK, Loop
<1>6. LogInv'
  BY <1>1, <1>2, <1>3, Counters DEF IndInv, LogInv
<1>7. ServiceInv' /\ executed' = executed
  BY <1>1 DEF IndInv, ServiceInv, executed
<1>8. CountInv'
  <2>1. CASE loop' = loop
    <3>1. /\ executed <= commitIndex => executed <= commitIndex'
          /\ lastApplied + Len(loop.entries) <= commitIndex =>
               lastApplied + Len(loop.entries) <= commitIndex'
      BY <1>3, Counters
    <3> QED
      BY <1>1, <1>2, <1>7, <2>1, <3>1, Zenon DEF IndInv, CountInv
  <2>2. CASE loop.pc = "wait" /\ loop'.pc = "woken"
    BY <1>1, <1>2, <1>3, <1>7, <2>2, Counters DEF IndInv, CountInv
  <2> QED
    BY <1>4, <2>1, <2>2
<1>9. PendingInv'
  BY <1>1, <1>2, <1>4, <1>7 DEF IndInv, PendingInv
<1> QED
  BY <1>5, <1>6, <1>7, <1>8, <1>9 DEF IndInv

\* A snapshot is installed: it is ahead of all that the round can still deliver, and no
\* other one is being delivered.
LEMMA InstallSnapshotInv ==
  ASSUME IndInv, ~Late, NEW index \in 1..MaxIndex, InstallSnapshot(index)
  PROVE  IndInv'
<1>1. /\ index > commitIndex
      /\ loop.pc \notin {"snapshot", "finish"}
      /\ log' = [snapLastIdx |-> index, snapshot |-> prefix(index), lastIdx |-> index]
      /\ snapPending' = TRUE /\ Signal
      /\ UNCHANGED <<commitIndex, lastApplied, kv, restarts>>
  BY Counters DEF InstallSnapshot, IndInv, PendingInv
<1>2. index \in 0..MaxIndex /\ prefix(index) \in Seq(1..MaxIndex)
  BY Counters, PrefixFacts
<1>3. /\ log' \in [snapLastIdx : 0..MaxIndex, snapshot : Seq(1..MaxIndex), lastIdx : 0..MaxIndex]
      /\ log'.snapLastIdx = index /\ log'.snapshot = prefix(index) /\ log'.lastIdx = index
  BY <1>1, <1>2
<1>4. /\ loop' \in Loop
      /\ \/ loop' = loop
         \/ loop.pc = "wait" /\ loop'.pc = "woken"
  BY <1>1, SignalFacts DEF IndInv, TypeOK, Loop
<1>5. TypeOK'
  BY <1>1, <1>3, <1>4 DEF IndInv, TypeOK, Loop
<1>6. LogInv'
  BY <1>1, <1>2, <1>3, Counters DEF LogInv
<1>7. ServiceInv' /\ executed' = executed
  BY <1>1 DEF IndInv, ServiceInv, executed
<1>8. executed <= commitIndex
  BY <1>1 DEF IndInv, CountInv
<1>9. CountInv'
  <2>1. CASE loop' = loop
    BY <1>1, <1>2, <1>3, <1>7, <2>1, Counters DEF IndInv, CountInv
  <2>2. CASE loop.pc = "wait" /\ loop'.pc = "woken"
    BY <1>1, <1>3, <1>7, <2>2, Counters DEF IndInv, CountInv
  <2> QED
    BY <1>4, <2>1, <2>2
<1>10. PendingInv'
  BY <1>1, <1>2, <1>3, <1>4, <1>7, <1>8, Counters DEF PendingInv
<1> QED
  BY <1>5, <1>6, <1>7, <1>9, <1>10 DEF IndInv

-----------------------------------------------------------------------------
(* The loop. *)

\* A step of the loop that leaves the log and the service alone.
LEMMA LoopStep ==
  ASSUME IndInv, loop' \in Loop, UNCHANGED <<log, commitIndex, snapPending, kv, restarts>>,
         lastApplied' \in 0..MaxIndex, CountInv', PendingInv'
  PROVE  IndInv'
<1>1. TypeOK'
  BY DEF IndInv, TypeOK, Loop
<1>2. LogInv'
  BY DEF IndInv, LogInv
<1>3. ServiceInv'
  BY DEF IndInv, ServiceInv, executed
<1> QED
  BY <1>1, <1>2, <1>3 DEF IndInv

\* Wait.
LEMMA WaitInv ==
  ASSUME IndInv, Wait
  PROVE  IndInv'
<1>1. /\ loop.pc = "lock" /\ loop' = loopAt("wait")
      /\ UNCHANGED <<log, commitIndex, lastApplied, snapPending, kv, restarts>>
  BY DEF Wait, rfVars
<1>2. loop' \in Loop /\ loop'.pc = "wait"
  BY <1>1, LoopAt
<1>3. CountInv'
  BY <1>1, <1>2 DEF IndInv, CountInv, executed
<1>4. PendingInv'
  BY <1>1, <1>2 DEF IndInv, PendingInv, executed
<1> QED
  BY <1>1, <1>2, <1>3, <1>4, LoopStep, Counters

\* The entries a round collects.
LEMMA CollectFacts ==
  ASSUME NEW from \in 0..MaxIndex, NEW to \in 0..MaxIndex, from <= to
  PROVE  LET l == [loopAt("entries") EXCEPT !.entries = [i \in 1..(to - from) |-> from + i]]
         IN  /\ l \in Loop /\ l.pc = "entries" /\ l.sent = 0
             /\ Len(l.entries) = to - from
             /\ \A i \in 1..(to - from) : l.entries[i] = from + i
<1> DEFINE q == [i \in 1..(to - from) |-> from + i]
<1>1. /\ q \in Seq(1..MaxIndex) /\ Len(q) = to - from
      /\ \A i \in 1..(to - from) : q[i] = from + i
  BY ApplyAssumption
<1> HIDE DEF q
<1>2. /\ [loopAt("entries") EXCEPT !.entries = q] \in Loop
      /\ [loopAt("entries") EXCEPT !.entries = q].pc = "entries"
      /\ [loopAt("entries") EXCEPT !.entries = q].entries = q
      /\ [loopAt("entries") EXCEPT !.entries = q].sent = 0
  BY <1>1, LoopAt, Zenon DEF Loop
<1> QED
  BY <1>1, <1>2 DEF q

\* The first critical section: Raft's count and the service's agree, so the entries
\* collected are those that the service has not executed.
LEMMA CollectInv ==
  ASSUME IndInv, collect
  PROVE  IndInv'
<1>1. /\ loop.pc = "woken" /\ lastApplied = executed /\ executed <= commitIndex
      /\ UNCHANGED <<log, commitIndex, snapPending, kv, restarts>>
      /\ executed' = executed
  BY DEF collect, IndInv, CountInv, executed
<1>2. CASE snapPending
  <2>1. loop' = loopAt("snapshot") /\ UNCHANGED lastApplied
    BY <1>2 DEF collect
  <2>2. /\ loop' \in Loop /\ loop'.pc = "snapshot"
        /\ loop'.SnapshotIndex = Unread /\ loop'.Snapshot = <<Unread>>
    BY <2>1, LoopAt
  <2>3. CountInv'
    BY <1>1, <2>1, <2>2 DEF CountInv
  <2>4. PendingInv'
    BY <1>1, <1>2, <2>2 DEF IndInv, PendingInv
  <2> QED
    BY <1>1, <2>1, <2>2, <2>3, <2>4, LoopStep, Counters
<1>3. CASE ~snapPending
  <2>1. log.snapLastIdx <= lastApplied
    BY <1>1, <1>3 DEF IndInv, PendingInv
  <2>2. lastApplied' = lastApplied
    BY <1>3, <2>1, Counters DEF collect
  <2>3. loop' = [loopAt("entries") EXCEPT
                   !.entries = [i \in 1..(commitIndex - lastApplied) |-> lastApplied + i]]
    BY <1>3, <2>2, Counters DEF collect, collectTo
  <2>4. /\ loop' \in Loop /\ loop'.pc = "entries" /\ loop'.sent = 0
        /\ Len(loop'.entries) = commitIndex - lastApplied
        /\ \A i \in 1..Len(loop'.entries) : loop'.entries[i] = lastApplied + i
    <3>1. commitIndex \in 0..MaxIndex /\ lastApplied \in 0..MaxIndex /\ lastApplied <= commitIndex
      BY <1>1, Counters
    <3> QED
      BY <2>3, <3>1, CollectFacts, Zenon
  <2>5. CountInv'
    BY <1>1, <1>3, <2>2, <2>4, Counters DEF CountInv
  <2>6. PendingInv'
    BY <1>1, <1>3, <2>4 DEF IndInv, PendingInv
  <2> QED
    BY <1>1, <2>2, <2>4, <2>5, <2>6, LoopStep, Counters
<1> QED
  BY <1>2, <1>3

\* An entry reaches the service: it is the one after those it has executed, whatever the
\* handlers did to the log since it was collected.
LEMMA SendEntryInv ==
  ASSUME IndInv, sendEntry
  PROVE  IndInv'
<1>1. /\ loop.pc = "entries" /\ loop.sent < Len(loop.entries)
      /\ loop' = [loop EXCEPT !.sent = loop.sent + 1]
      /\ UNCHANGED <<log, commitIndex, lastApplied, snapPending, restarts>>
  BY DEF sendEntry, rfVars
<1>2. /\ executed = lastApplied + loop.sent
      /\ lastApplied + Len(loop.entries) <= commitIndex
      /\ snapPending => lastApplied + Len(loop.entries) <= log.snapLastIdx
      /\ \A i \in 1..Len(loop.entries) : loop.entries[i] = lastApplied + i
  BY <1>1 DEF IndInv, CountInv
<1>3. /\ loop.entries[loop.sent + 1] = executed + 1
      /\ executed + 1 \in 1..MaxIndex /\ loop.sent + 1 \in 0..MaxIndex
      /\ executed + 1 <= commitIndex
  <2>1. /\ lastApplied \in Nat /\ loop.sent \in Nat /\ Len(loop.entries) \in Nat
        /\ MaxIndex \in Nat /\ commitIndex \in 0..MaxIndex /\ executed \in Nat
    BY Counters
  <2>2. /\ loop.sent + 1 \in 1..Len(loop.entries)
        /\ executed + 1 \in 1..MaxIndex /\ loop.sent + 1 \in 0..MaxIndex
        /\ executed + 1 <= commitIndex
    <3>1. /\ executed = lastApplied + loop.sent /\ loop.sent < Len(loop.entries)
          /\ lastApplied + Len(loop.entries) <= commitIndex
      BY <1>1, <1>2
    <3>2. \A a, n, l, c \in Nat : n < l /\ a + l <= c /\ c <= MaxIndex =>
            n + 1 \in 1..l /\ n + 1 \in 0..MaxIndex /\ a + n + 1 <= c /\ a + n + 1 \in 1..MaxIndex
      BY <2>1
    <3>3. commitIndex \in Nat /\ commitIndex <= MaxIndex
      BY <2>1
    <3> QED
      BY <2>1, <3>1, <3>2, <3>3, Zenon
  <2>3. lastApplied + (loop.sent + 1) = executed + 1
    BY <1>2, <2>1
  <2> QED
    BY <1>2, <2>2, <2>3, Zenon
<1>4. kv' = [lastApplied |-> executed + 1, busy |-> TRUE, state |-> Append(kv.state, executed + 1)]
  <2>1. lastApplied + 1 + loop.sent = executed + 1
    <3>1. lastApplied \in Nat /\ loop.sent \in Nat
      BY Counters
    <3> QED
      BY <1>2, <3>1
  <2>2. ~(executed + 1 <= kv.lastApplied)
    BY Counters DEF IndInv, ServiceInv
  <2> QED
    BY <1>3, <2>1, <2>2, Zenon DEF sendEntry
<1>5. /\ kv' \in [lastApplied : 0..MaxIndex, state : Seq(1..MaxIndex), busy : BOOLEAN]
      /\ kv'.lastApplied = executed + 1
      /\ kv'.state = prefix(executed + 1)
      /\ executed' = executed + 1
  <2>1. Append(kv.state, executed + 1) = prefix(executed + 1)
    <3>1. executed \in 0..MaxIndex /\ executed + 1 <= MaxIndex
      BY <1>3, Counters
    <3> QED
      BY <3>1, PrefixFacts, Zenon DEF IndInv, ServiceInv
  <2>2. /\ prefix(executed + 1) \in Seq(1..MaxIndex) /\ Len(prefix(executed + 1)) = executed + 1
        /\ executed + 1 \in 0..MaxIndex
    BY <1>3, Counters, PrefixFacts
  <2>3. kv' = [lastApplied |-> executed + 1, busy |-> TRUE, state |-> prefix(executed + 1)]
    BY <1>4, <2>1, Zenon
  <2>4. executed' = Len(kv'.state)
    BY DEF executed
  <2> QED
    BY <2>2, <2>3, <2>4
<1>6. /\ loop' \in Loop
      /\ loop'.pc = "entries" /\ loop'.entries = loop.entries /\ loop'.sent = loop.sent + 1
  BY <1>1, <1>3, Zenon DEF IndInv, TypeOK, Loop
<1>7. TypeOK'
  BY <1>1, <1>5, <1>6, Zenon DEF IndInv, TypeOK, Loop
<1>8. LogInv'
  BY <1>1 DEF IndInv, LogInv
<1>9. ServiceInv'
  BY <1>5 DEF ServiceInv
<1>10. CountInv'
  <2>1. /\ executed + 1 = lastApplied + (loop.sent + 1)
        /\ loop.sent + 1 <= Len(loop.entries)
    BY <1>1, <1>2, Counters
  <2> QED
    BY <1>1, <1>2, <1>3, <1>5, <1>6, <2>1 DEF CountInv
<1>11. PendingInv'
  <2>1. snapPending => executed + 1 <= log.snapLastIdx
    <3>1. /\ lastApplied \in Nat /\ loop.sent \in Nat /\ Len(loop.entries) \in Nat
          /\ log.snapLastIdx \in Nat
      BY Counters
    <3> QED
      BY <1>1, <1>2, <3>1
  <2>2. ~snapPending => log.snapLastIdx <= executed + 1
    BY Counters DEF IndInv, PendingInv
  <2> QED
    BY <1>1, <1>5, <1>6, <2>1, <2>2 DEF PendingInv
<1> QED
  BY <1>7, <1>8, <1>9, <1>10, <1>11 DEF IndInv

\* The fields of a snapshot message are read one by one: both are of the pending snapshot.
LEMMA ReadSnapshotInv ==
  ASSUME IndInv, readSnapshot
  PROVE  IndInv'
<1>1. /\ loop.pc = "snapshot"
      /\ UNCHANGED <<log, commitIndex, lastApplied, snapPending, kv, restarts>>
      /\ executed' = executed
  BY DEF readSnapshot, rfVars, executed
<1>2. /\ loop \in Loop
      /\ loop.Snapshot \in {<<Unread>>, prefix(log.snapLastIdx)}
      /\ loop.SnapshotIndex \in {Unread, log.snapLastIdx}
      /\ log.snapshot = prefix(log.snapLastIdx)
      /\ prefix(log.snapLastIdx) \in Seq(1..MaxIndex)
  BY <1>1, Counters, PrefixFacts DEF IndInv, TypeOK, Loop, PendingInv, LogInv
<1>3. /\ loop' \in Loop /\ loop'.pc = "snapshot"
      /\ loop'.Snapshot \in {<<Unread>>, prefix(log.snapLastIdx)}
      /\ loop'.SnapshotIndex \in {Unread, log.snapLastIdx}
  <2>1. CASE loop' = [loop EXCEPT !.Snapshot = log.snapshot]
    BY <1>1, <1>2, <2>1 DEF Loop
  <2>2. CASE loop' = [loop EXCEPT !.SnapshotIndex = log.snapLastIdx]
    BY <1>1, <1>2, <2>2, Counters, Zenon DEF Loop
  <2> QED
    BY <2>1, <2>2 DEF readSnapshot
<1>4. CountInv'
  BY <1>1, <1>3 DEF IndInv, CountInv
<1>5. PendingInv'
  BY <1>1, <1>3 DEF IndInv, PendingInv
<1> QED
  BY <1>1, <1>3, <1>4, <1>5, LoopStep, Counters

\* The snapshot replaces the state of the service, which was behind it.
LEMMA SendSnapshotInv ==
  ASSUME IndInv, sendSnapshot
  PROVE  IndInv'
<1>1. /\ loop.pc = "snapshot" /\ ~kv.busy
      /\ loop' = loopAt("finish")
      /\ kv' = [kv EXCEPT !.lastApplied = loop.SnapshotIndex, !.state = loop.Snapshot]
      /\ loop.SnapshotIndex = log.snapLastIdx /\ loop.Snapshot = prefix(log.snapLastIdx)
      /\ UNCHANGED <<log, commitIndex, lastApplied, snapPending, restarts>>
  BY DEF sendSnapshot, rfVars, IndInv, PendingInv
<1>2. /\ prefix(log.snapLastIdx) \in Seq(1..MaxIndex)
      /\ Len(prefix(log.snapLastIdx)) = log.snapLastIdx
  BY Counters, PrefixFacts
<1>3. /\ kv' \in [lastApplied : 0..MaxIndex, state : Seq(1..MaxIndex), busy : BOOLEAN]
      /\ kv'.lastApplied = log.snapLastIdx /\ kv'.state = prefix(log.snapLastIdx)
      /\ executed' = log.snapLastIdx
  <2>1. kv' = [kv EXCEPT !.lastApplied = log.snapLastIdx, !.state = prefix(log.snapLastIdx)]
    BY <1>1
  <2>2. executed' = Len(kv'.state)
    BY DEF executed
  <2> QED
    BY <1>2, <2>1, <2>2, Counters, Zenon DEF IndInv, TypeOK
<1>4. loop' \in Loop /\ loop'.pc = "finish"
  BY <1>1, LoopAt
<1>5. TypeOK'
  BY <1>1, <1>3, <1>4, Zenon DEF IndInv, TypeOK, Loop
<1>6. LogInv'
  BY <1>1 DEF IndInv, LogInv
<1>7. ServiceInv'
  BY <1>3 DEF ServiceInv
<1>8. CountInv'
  BY <1>1, <1>3, <1>4 DEF CountInv
<1>9. PendingInv'
  BY <1>1, <1>3, <1>4, Counters DEF IndInv, PendingInv
<1> QED
  BY <1>5, <1>6, <1>7, <1>8, <1>9 DEF IndInv

\* The second critical section after entries: Raft's count follows the service's.
LEMMA EntriesDoneInv ==
  ASSUME IndInv, entriesDone
  PROVE  IndInv'
<1>1. /\ loop.pc = "entries" /\ loop.sent = Len(loop.entries)
      /\ lastApplied' = lastApplied + Len(loop.entries)
      /\ loop' = loopAt("lock")
      /\ UNCHANGED <<log, commitIndex, snapPending, kv, restarts>>
      /\ executed' = executed
  BY DEF entriesDone, executed
<1>2. loop' \in Loop /\ loop'.pc = "lock"
  BY <1>1, LoopAt
<1>3. lastApplied' = executed /\ executed <= commitIndex
  BY <1>1 DEF IndInv, CountInv
<1>4. CountInv'
  BY <1>1, <1>2, <1>3 DEF CountInv
<1>5. PendingInv'
  BY <1>1, <1>2 DEF IndInv, PendingInv
<1> QED
  BY <1>1, <1>2, <1>3, <1>4, <1>5, LoopStep, Counters

\* The second critical section after a snapshot: the log's snapshot is still the one that
\* was delivered.
LEMMA SnapshotDoneInv ==
  ASSUME IndInv, snapshotDone
  PROVE  IndInv'
<1>1. /\ loop.pc = "finish" /\ executed = log.snapLastIdx
      /\ lastApplied' = log.snapLastIdx
      /\ commitIndex' = IF commitIndex < lastApplied' THEN lastApplied' ELSE commitIndex
      /\ snapPending' = FALSE /\ loop' = loopAt("lock")
      /\ UNCHANGED <<log, kv, restarts>>
      /\ executed' = executed
  BY DEF snapshotDone, snapshotApplied, IndInv, CountInv, executed
<1>2. loop' \in Loop /\ loop'.pc = "lock"
  BY <1>1, LoopAt
<1>3. /\ commitIndex' \in 0..log.lastIdx /\ commitIndex' >= log.snapLastIdx
      /\ commitIndex' \in 0..MaxIndex
  BY <1>1, Counters DEF IndInv, LogInv
<1>4. TypeOK'
  BY <1>1, <1>2, <1>3, Counters, Zenon DEF IndInv, TypeOK, Loop
<1>5. LogInv'
  BY <1>1, <1>3 DEF IndInv, LogInv
<1>6. ServiceInv'
  BY <1>1 DEF IndInv, ServiceInv
<1>7. CountInv'
  BY <1>1, <1>2, <1>3 DEF CountInv
<1>8. PendingInv'
  BY <1>1, <1>2, Counters DEF PendingInv
<1> QED
  BY <1>4, <1>5, <1>6, <1>7, <1>8 DEF IndInv

-----------------------------------------------------------------------------
(* The service and a crash. *)

\* The service compacts the log: not while a snapshot is pending, which is ahead of it.
LEMMA MakeSnapshotInv ==
  ASSUME IndInv, makeSnapshot
  PROVE  IndInv'
<1>1. /\ kv.busy /\ kv' = [kv EXCEPT !.busy = FALSE]
      /\ UNCHANGED <<commitIndex, lastApplied, snapPending, loop, restarts>>
  BY DEF makeSnapshot
<1>2. /\ kv' \in [lastApplied : 0..MaxIndex, state : Seq(1..MaxIndex), busy : BOOLEAN]
      /\ kv'.lastApplied = kv.lastApplied /\ kv'.state = kv.state /\ ~kv'.busy
      /\ executed' = executed
  <2>1. executed' = Len(kv'.state)
    BY DEF executed
  <2> QED
    BY <1>1, <2>1, Zenon DEF IndInv, TypeOK, executed
<1>3. ServiceInv'
  BY <1>2 DEF IndInv, ServiceInv
<1>4. CASE UNCHANGED log
  <2>1. TypeOK'
    BY <1>1, <1>2, <1>4, Zenon DEF IndInv, TypeOK
  <2>2. LogInv' /\ CountInv' /\ PendingInv'
    BY <1>1, <1>2, <1>4, Zenon DEF IndInv, LogInv, CountInv, PendingInv
  <2> QED
    BY <1>3, <2>1, <2>2 DEF IndInv
<1>5. CASE /\ kv.lastApplied <= commitIndex
           /\ kv.lastApplied > log.snapLastIdx
           /\ kv.lastApplied <= log.lastIdx
           /\ log' = [log EXCEPT !.snapLastIdx = kv.lastApplied, !.snapshot = kv.state]
  <2>1. kv.lastApplied = executed /\ kv.state = prefix(executed) /\ ~snapPending
    BY <1>1, <1>5, Counters DEF IndInv, ServiceInv, PendingInv
  <2>2. /\ log' \in [snapLastIdx : 0..MaxIndex, snapshot : Seq(1..MaxIndex), lastIdx : 0..MaxIndex]
        /\ log'.snapLastIdx = executed /\ log'.snapshot = prefix(executed)
        /\ log'.lastIdx = log.lastIdx
    BY <1>5, <2>1, Counters, Zenon DEF IndInv, TypeOK
  <2>3. TypeOK'
    BY <1>1, <1>2, <2>2, Zenon DEF IndInv, TypeOK
  <2>4. LogInv'
    BY <1>1, <1>5, <2>1, <2>2, Counters DEF IndInv, LogInv
  <2>5. loop.pc \notin {"snapshot", "finish"}
    BY <2>1 DEF IndInv, PendingInv
  <2>6. CountInv'
    BY <1>1, <1>2, <2>1, <2>5, Zenon DEF IndInv, CountInv
  <2>7. PendingInv'
    BY <1>1, <1>2, <2>1, <2>2, <2>5, Counters DEF PendingInv
  <2> QED
    BY <1>3, <2>3, <2>4, <2>6, <2>7 DEF IndInv
<1> QED
  BY <1>4, <1>5 DEF makeSnapshot

\* A crash: service and loop go back to the persisted snapshot.
LEMMA RestartInv ==
  ASSUME IndInv, Restart
  PROVE  IndInv'
<1>1. /\ restarts' \in 0..MaxRestarts
      /\ commitIndex' = log.snapLastIdx /\ lastApplied' = log.snapLastIdx
      /\ snapPending' = FALSE /\ loop' = loopAt("lock")
      /\ kv' = [lastApplied |-> 0, state |-> prefix(log.snapLastIdx), busy |-> FALSE]
      /\ UNCHANGED log
  BY ApplyAssumption DEF Restart, StartKVServer, IndInv, TypeOK, LogInv
<1>2. loop' \in Loop /\ loop'.pc = "lock"
  BY <1>1, LoopAt
<1>3. /\ kv' \in [lastApplied : 0..MaxIndex, state : Seq(1..MaxIndex), busy : BOOLEAN]
      /\ kv'.lastApplied = 0 /\ kv'.state = prefix(log.snapLastIdx) /\ ~kv'.busy
      /\ executed' = log.snapLastIdx
  <2>1. /\ prefix(log.snapLastIdx) \in Seq(1..MaxIndex)
        /\ Len(prefix(log.snapLastIdx)) = log.snapLastIdx
    BY Counters, PrefixFacts
  <2>2. executed' = Len(kv'.state)
    BY DEF executed
  <2> QED
    BY <1>1, <2>1, <2>2, Counters
<1>4. TypeOK'
  BY <1>1, <1>2, <1>3, Counters, Zenon DEF IndInv, TypeOK, Loop
<1>5. LogInv'
  BY <1>1, Counters DEF IndInv, LogInv
<1>6. ServiceInv'
  BY <1>3 DEF ServiceInv
<1>7. CountInv'
  BY <1>1, <1>2, <1>3, Counters DEF CountInv
<1>8. PendingInv'
  BY <1>1, <1>2, <1>3, Counters DEF PendingInv
<1> QED
  BY <1>4, <1>5, <1>6, <1>7, <1>8 DEF IndInv

-----------------------------------------------------------------------------
(* The theorems. *)

\* A peer that has just been made.
LEMMA InitInv ==
  ASSUME Init
  PROVE  IndInv
<1>1. 0 \in 0..MaxIndex /\ 0 \in 0..MaxRestarts
  BY ApplyAssumption
<1>2. prefix(0) = <<>>
  BY DEF prefix
<1>3. /\ loop \in Loop /\ loop.pc = "lock"
  BY LoopAt DEF Init
<1>4. /\ log = [snapLastIdx |-> 0, snapshot |-> <<>>, lastIdx |-> 0]
      /\ commitIndex = 0 /\ lastApplied = 0 /\ snapPending = FALSE /\ restarts = 0
      /\ kv = [lastApplied |-> 0, state |-> <<>>, busy |-> FALSE]
  BY DEF Init, StartKVServer
<1>5. TypeOK
  <2>1. /\ log \in [snapLastIdx : 0..MaxIndex, snapshot : Seq(1..MaxIndex), lastIdx : 0..MaxIndex]
        /\ kv \in [lastApplied : 0..MaxIndex, state : Seq(1..MaxIndex), busy : BOOLEAN]
    BY <1>1, <1>4
  <2> QED
    BY <1>1, <1>3, <1>4, <2>1, Zenon DEF TypeOK, Loop
<1>6. executed = 0
  BY <1>4 DEF executed
<1>7. LogInv /\ ServiceInv
  BY <1>2, <1>4, <1>6 DEF LogInv, ServiceInv
<1>8. CountInv /\ PendingInv
  BY <1>3, <1>4, <1>6 DEF CountInv, PendingInv
<1> QED
  BY <1>5, <1>7, <1>8 DEF IndInv

\* Every step keeps the invariant, when requests come in time.
LEMMA NextInv ==
  ASSUME IndInv, ~Late, [Next]_vars
  PROVE  IndInv'
<1>1. CASE UNCHANGED vars
  BY <1>1, Zenon DEF vars, rfVars, IndInv, TypeOK, LogInv, ServiceInv, CountInv, PendingInv, executed
<1>2. CASE Next
  BY <1>2, AppendEntriesInv, InstallSnapshotInv, WaitInv, CollectInv, SendEntryInv,
     ReadSnapshotInv, SendSnapshotInv, EntriesDoneInv, SnapshotDoneInv, MakeSnapshotInv,
     RestartInv DEF Next, applicationTicker
<1> QED
  BY <1>1, <1>2

\* The invariant of applicationTicker, of the handlers beside it and of the service.
THEOREM ApplyInvariance == ASSUME ~Late PROVE Spec => []IndInv
<1>1. IndInv /\ [Next]_vars => IndInv'
  BY NextInv
<1> QED
  BY <1>1, InitInv, PTL DEF Spec

\* The variables of the apply loop and of the service it feeds keep their types.
THEOREM ApplyTypes == ASSUME ~Late PROVE Spec => []TypeOK
<1>1. IndInv => TypeOK
  BY DEF IndInv
<1> QED
  BY <1>1, ApplyInvariance, PTL

\* The service executes every entry once and in order, whatever the handlers do to the
\* log between the two critical sections of the loop, and whenever the peer crashes.
THEOREM AppliesInOrder == ASSUME ~Late PROVE Spec => []InOrder
<1>1. IndInv => InOrder
  BY DEF IndInv, ServiceInv, InOrder, executed
<1> QED
  BY <1>1, ApplyInvariance, PTL

\* The service executes nothing that is not committed.
THEOREM AppliesCommitted == ASSUME ~Late PROVE Spec => []OnlyCommitted
<1>1. IndInv => OnlyCommitted
  BY Counters DEF IndInv, CountInv, OnlyCommitted, executed
<1> QED
  BY <1>1, ApplyInvariance, PTL

\* Raft's lastApplied is how far the service is, whenever the loop looks at it.
THEOREM CountsAlwaysAgree == ASSUME ~Late PROVE Spec => []CountsAgree
<1>1. IndInv => CountsAgree
  BY DEF IndInv, CountInv, CountsAgree, executed
<1> QED
  BY <1>1, ApplyInvariance, PTL

\* doSnapshot is never asked for an entry beyond the end of the log, so idx does not panic.
THEOREM CompactionInRange == ASSUME ~Late PROVE Spec => []SnapshotsWhatTheLogHas
<1>1. IndInv => SnapshotsWhatTheLogHas
  BY Counters DEF IndInv, LogInv, SnapshotsWhatTheLogHas
<1> QED
  BY <1>1, ApplyInvariance, PTL
=============================================================================
