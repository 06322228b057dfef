------------------------------ MODULE RaftApply ------------------------------
(***************************************************************************)
(* The apply loop of one Raft peer (src/src/raft/raft_application.go) and   *)
(* the service it feeds (applyTask of src/src/kvraft/server.go).  The loop  *)
(* holds rf.mu in two places and not between them: while it sends on the    *)
(* unbuffered applyCh the peer's handlers go on changing the log it reads.  *)
(*                                                                         *)
(* Peers agree on every committed entry (StateMachineSafety of module Raft),*)
(* so the entry at an index is that index, and what a snapshot or a service *)
(* holds is the sequence of the entries it reflects.  The handlers are      *)
(* those of module Raft seen by one peer: AppendEntries stands for all that *)
(* extend the log and raise commitIndex, with the Signal that goes with it. *)
(***************************************************************************)
EXTENDS Integers, Sequences

CONSTANTS MaxIndex,     \* bound: the log grows no further
          MaxRestarts,  \* bound: crashes
          Late          \* may a request arrive when the peer is past what it says, or
                        \* a snapshot while the loop is delivering the one before it?

ASSUME ApplyAssumption ==
  MaxIndex \in Nat /\ MaxRestarts \in Nat /\ Late \in BOOLEAN

VARIABLES
  log,          \* rf.log: snapLastIdx, snapshot, and the index of the last entry
  commitIndex, lastApplied, snapPending,   \* of rf
  loop,         \* applicationTicker: where it is, and its local variables
  kv,           \* the service: lastApplied, the state, and whether it is in a message
  restarts

rfVars == <<log, commitIndex, lastApplied, snapPending>>
vars == <<rfVars, loop, kv, restarts>>

\* The entries 1..n.
prefix(n) == [k \in 1..n |-> k]

\* The last entry the peer has and knows to be committed.
committed == IF commitIndex < log.lastIdx THEN commitIndex ELSE log.lastIdx

Unread == -1

TypeOK ==
  /\ log \in [snapLastIdx : 0..MaxIndex, snapshot : Seq(1..MaxIndex), lastIdx : 0..MaxIndex]
  /\ commitIndex \in 0..MaxIndex
  /\ lastApplied \in 0..MaxIndex
  /\ snapPending \in BOOLEAN
  /\ loop \in [pc : {"lock", "wait", "woken", "entries", "snapshot", "finish"},
               entries : Seq(1..MaxIndex),              \* collected
               sent : 0..MaxIndex,                      \* how many of them
               SnapshotIndex : {Unread} \cup 0..MaxIndex,
               Snapshot : {<<Unread>>} \cup Seq(1..MaxIndex)]
  /\ kv \in [lastApplied : 0..MaxIndex, state : Seq(1..MaxIndex), busy : BOOLEAN]
  /\ restarts \in 0..MaxRestarts

loopAt(pc) ==
  [pc |-> pc, entries |-> <<>>, sent |-> 0, SnapshotIndex |-> Unread, Snapshot |-> <<Unread>>]

\* Mutant: the service starts empty, as it does before anything was persisted.
StartKVServerEmpty(snapshot) == [lastApplied |-> 0, state |-> <<>>, busy |-> FALSE]

StartKVServer(snapshot) == [lastApplied |-> 0, state |-> snapshot, busy |-> FALSE]

Init ==
  /\ log = [snapLastIdx |-> 0, snapshot |-> <<>>, lastIdx |-> 0]
  /\ commitIndex = 0
  /\ lastApplied = 0
  /\ snapPending = FALSE
  /\ loop = loopAt("lock")
  /\ kv = StartKVServer(<<>>)
  /\ restarts = 0

-----------------------------------------------------------------------------
(* The peer's handlers. *)

\* applyCond.Signal(): nobody is woken when the loop is not waiting.
Signal == loop' = IF loop.pc = "wait" THEN loopAt("woken") ELSE loop

\* Mutant: the entry the new ones follow is cut off as well.
appendFromBefore(end) ==
  [log EXCEPT !.lastIdx = IF end > log.snapLastIdx THEN end - 1 ELSE end]

appendFrom(end) == [log EXCEPT !.lastIdx = end]

\* A leader's entries replace those from some index on, so that the log ends at end; the
\* leader has committed those up to leaderCommit.  The same happens to this peer's log
\* when it leads: Start appends, and replicateToPeer raises commitIndex.
AppendEntries(end, leaderCommit) ==
  /\ end >= log.snapLastIdx
  /\ leaderCommit <= end
  /\ ~Late => end >= committed
  /\ log' = appendFrom(end)
  /\ IF leaderCommit > commitIndex
       THEN commitIndex' = leaderCommit /\ Signal
       ELSE UNCHANGED <<commitIndex, loop>>
  /\ UNCHANGED <<lastApplied, snapPending, kv, restarts>>

InstallSnapshot(index) ==
  /\ index > log.snapLastIdx
  /\ ~Late => index > committed /\ (snapPending => loop.pc \notin {"snapshot", "finish"})
  /\ log' = [snapLastIdx |-> index, snapshot |-> prefix(index), lastIdx |-> index]
  /\ snapPending' = TRUE
  /\ Signal
  /\ UNCHANGED <<commitIndex, lastApplied, kv, restarts>>

-----------------------------------------------------------------------------
(* The loop. *)

\* Lock and Wait: a Signal before this has woken nobody.
Wait ==
  /\ loop.pc = "lock"
  /\ loop' = loopAt("wait")
  /\ UNCHANGED <<rfVars, kv, restarts>>

\* Mutant: all the log has is collected, committed or not.
collectToEnd == log.lastIdx

\* Mutant: i < end.
collectToBefore == committed - 1

collectTo == committed

\* The first critical section, up to Unlock.
collect ==
  /\ loop.pc = "woken"
  /\ IF snapPending
       THEN loop' = loopAt("snapshot") /\ UNCHANGED lastApplied
       ELSE /\ lastApplied' = IF lastApplied < log.snapLastIdx THEN log.snapLastIdx
                                                              ELSE lastApplied
            /\ loop' = [loopAt("entries") EXCEPT
                          !.entries = [i \in 1..(collectTo - lastApplied') |-> lastApplied' + i]]
  /\ UNCHANGED <<log, commitIndex, snapPending, kv, restarts>>

\* Without the lock: the next entry is sent as CommandIndex lastApplied + 1 + i, and the
\* service takes it.
sendEntry ==
  /\ loop.pc = "entries"
  /\ loop.sent < Len(loop.entries)
  /\ ~kv.busy
  /\ loop' = [loop EXCEPT !.sent = loop.sent + 1]
  /\ LET index == lastApplied + 1 + loop.sent
     IN  kv' = IF index <= kv.lastApplied THEN kv
               ELSE [lastApplied |-> index, busy |-> TRUE,
                     state |-> Append(kv.state, loop.entries[loop.sent + 1])]
  /\ UNCHANGED <<rfVars, restarts>>

\* Without the lock: the fields of the message are read from the log in either order, and
\* each may be of another snapshot.
readSnapshot ==
  /\ loop.pc = "snapshot"
  /\ \/ /\ loop.Snapshot = <<Unread>>
        /\ loop' = [loop EXCEPT !.Snapshot = log.snapshot]
     \/ /\ loop.SnapshotIndex = Unread
        /\ loop' = [loop EXCEPT !.SnapshotIndex = log.snapLastIdx]
  /\ UNCHANGED <<rfVars, kv, restarts>>

sendSnapshot ==
  /\ loop.pc = "snapshot"
  /\ loop.Snapshot # <<Unread>>
  /\ loop.SnapshotIndex # Unread
  /\ ~kv.busy
  /\ loop' = loopAt("finish")
  /\ kv' = [kv EXCEPT !.lastApplied = loop.SnapshotIndex, !.state = loop.Snapshot]
  /\ UNCHANGED <<rfVars, restarts>>

\* The second critical section, after entries and after a snapshot.
entriesDone ==
  /\ loop.pc = "entries"
  /\ loop.sent = Len(loop.entries)
  /\ lastApplied' = lastApplied + Len(loop.entries)
  /\ loop' = loopAt("lock")
  /\ UNCHANGED <<log, commitIndex, snapPending, kv, restarts>>

\* Mutant: lastApplied is left where it was.
snapshotForgotten == lastApplied

\* Mutant: the next index is taken for the last.
snapshotNext == log.snapLastIdx + 1

snapshotApplied == log.snapLastIdx

snapshotDone ==
  /\ loop.pc = "finish"
  /\ lastApplied' = snapshotApplied
  /\ commitIndex' = IF commitIndex < lastApplied' THEN lastApplied' ELSE commitIndex
  /\ snapPending' = FALSE
  /\ loop' = loopAt("lock")
  /\ UNCHANGED <<log, kv, restarts>>

-----------------------------------------------------------------------------
(* The rest of applyTask, and a crash. *)

\* Snapshot(kv.lastApplied) is called of a log that may have moved on.  Beyond the last
\* entry doSnapshot panics, so that nothing follows (SnapshotsWhatTheLogHas).
makeSnapshot ==
  /\ kv.busy
  /\ kv' = [kv EXCEPT !.busy = FALSE]
  /\ \/ UNCHANGED log
     \/ /\ kv.lastApplied <= commitIndex
        /\ kv.lastApplied > log.snapLastIdx
        /\ kv.lastApplied <= log.lastIdx
        /\ log' = [log EXCEPT !.snapLastIdx = kv.lastApplied, !.snapshot = kv.state]
  /\ UNCHANGED <<commitIndex, lastApplied, snapPending, loop, restarts>>

\* The process is gone, and a new one starts on the persisted log.
Restart ==
  /\ restarts < MaxRestarts
  /\ restarts' = restarts + 1
  /\ commitIndex' = log.snapLastIdx
  /\ lastApplied' = log.snapLastIdx
  /\ snapPending' = FALSE
  /\ loop' = loopAt("lock")
  /\ kv' = StartKVServer(log.snapshot)
  /\ UNCHANGED log

applicationTicker ==
  \/ Wait
  \/ collect
  \/ sendEntry
  \/ readSnapshot
  \/ sendSnapshot
  \/ entriesDone
  \/ snapshotDone

Next ==
  \/ \E end, leaderCommit \in 0..MaxIndex : AppendEntries(end, leaderCommit)
  \/ \E index \in 1..MaxIndex : InstallSnapshot(index)
  \/ applicationTicker
  \/ makeSnapshot
  \/ Restart

Spec == Init /\ [][Next]_vars

\* The scheduler runs the two goroutines; nothing is said of requests and of crashes.
FairSpec == Spec /\ WF_vars(applicationTicker) /\ WF_vars(makeSnapshot)

-----------------------------------------------------------------------------
(* Properties. *)

\* The state of the service is that of the entries 1, 2, ... up to some entry, each
\* executed once and in order: no snapshot, restart or batch of entries makes the loop
\* skip or repeat one (the test's "apply out of order", raft/config.go:228).
InOrder == kv.state = prefix(Len(kv.state))

\* What the service executed is committed, or came with a snapshot that was installed.
OnlyCommitted ==
  \/ Len(kv.state) <= commitIndex
  \/ Len(kv.state) <= log.snapLastIdx

\* Between two rounds Raft and the service agree on how far the service is: the index of
\* the next message is computed from Raft's count.
CountsAgree ==
  loop.pc \in {"lock", "wait", "woken"} => lastApplied = Len(kv.state)

\* The service never asks Raft to cut its log at an entry the log no longer has: the
\* handlers ran since the entry was collected, and idx would panic (raft_log.go:69).
SnapshotsWhatTheLogHas ==
  /\ kv.busy
  /\ kv.lastApplied <= commitIndex
  /\ kv.lastApplied > log.snapLastIdx
  => kv.lastApplied <= log.lastIdx

\* A round of the loop delivers all that was committed when it was woken, or all of the
\* snapshot that was pending, whatever the handlers do meanwhile.
RoundDelivers ==
  \A i \in 1..MaxIndex :
    (/\ loop.pc = "woken"
     /\ restarts = MaxRestarts
     /\ i <= IF snapPending THEN log.snapLastIdx ELSE committed)
    ~> (Len(kv.state) >= i)

\* Every entry a peer knows to be committed is executed by its service in the end
\* (raft_paper.md:39).
CommittedIsApplied ==
  \A i \in 1..MaxIndex :
    (committed >= i /\ restarts = MaxRestarts) ~> (Len(kv.state) >= i)
=============================================================================
