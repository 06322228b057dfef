-------------------------- MODULE ReplicatedService --------------------------
(***************************************************************************)
(* A service replicated with Raft, and its clerks (src/src/kvraft/server.go *)
(* and client.go; src/src/shardctrler has the same code around another      *)
(* state machine, see module ShardCtrler).                                  *)
(*                                                                         *)
(* A handler releases kv.mu between its parts, so each part is a step.  The *)
(* handlers of an earlier call of a clerk run on when the call has failed,  *)
(* and the goroutine that removes a notify channel runs after the handler   *)
(* has returned.                                                            *)
(*                                                                         *)
(* Raft appears as what it promises: entries of the logs become chosen one  *)
(* after the other and are handed to every server in that order, a leader   *)
(* has the chosen entries, and a leader that was replaced may not know it   *)
(* and still accept operations.                                             *)
(***************************************************************************)
EXTENDS Integers, Sequences, FiniteSets

CONSTANTS N,             \* number of servers
          Clerk,         \* the clerks
          Op,            \* the operations a clerk may call
          None,          \* no operation, no reply, no clerk
          SM0,           \* the state machine of a new server
          Exec(_, _),    \* applyToStateMachine: the new state and the reply
          ReadOnly(_),   \* Get, as opposed to Put and Append
          Reelect,       \* may a server be elected while a handler from an earlier
                         \* leadership of it still waits?
          MaxOps,        \* bound: operations of a clerk
          MaxCalls,      \* bound: RPCs of all clerks
          MaxTerm,       \* bound: elections
          MaxSnapshots,  \* bound: snapshots the service takes
          MaxRestarts    \* bound: crashes

ASSUME ServiceAssumption ==
  /\ N \in Nat \ {0}
  /\ None \notin Clerk /\ None \notin Op
  /\ Reelect \in BOOLEAN
  /\ {MaxOps, MaxCalls, MaxTerm, MaxSnapshots, MaxRestarts} \subseteq Nat

VARIABLES term,       \* Raft: the last term with a leader
          chosen,     \* Raft: the committed entries
          raft,       \* Raft: log, leadership and lastApplied of every server
          srv,        \* the servers
          chans,      \* the notify channels of every server
          handlers,   \* the running RPC handlers
          clerk,      \* the clerks
          calls, snapshots, restarts,
          hist        \* history: what executing the chosen entries led to, step by step

agreed == <<term, chosen, hist>>
bounds == <<calls, snapshots, restarts>>
vars == <<term, chosen, hist, raft, srv, chans, handlers, clerk, calls, snapshots, restarts>>

Server == 0..(N - 1)

ErrWrongLeader == [Err |-> "ErrWrongLeader", Value |-> None]
ErrTimeout == [Err |-> "ErrTimeout", Value |-> None]

-----------------------------------------------------------------------------
(* The state machine behind its duplicate table. *)

NewState == [sm |-> SM0, dup |-> [c \in Clerk |-> [SeqId |-> -1, Reply |-> None]]]

\* Mutant: only the very last request counts as executed.
requestLast(dup, c, seqId) == seqId < dup[c].SeqId

requestDuplicate(dup, c, seqId) == seqId <= dup[c].SeqId

replyTo(st, e) ==
  IF ~ReadOnly(e.op) /\ requestDuplicate(st.dup, e.clerk, e.seqId)
    THEN st.dup[e.clerk].Reply ELSE Exec(st.sm, e.op).reply

\* The part of applyTask that executes entry e.  A read leaves the state alone.
execute(st, e) ==
  IF ReadOnly(e.op) \/ requestDuplicate(st.dup, e.clerk, e.seqId) THEN st
  ELSE [sm |-> Exec(st.sm, e.op).sm,
        dup |-> [st.dup EXCEPT ![e.clerk] =
                   [SeqId |-> e.seqId, Reply |-> Exec(st.sm, e.op).reply]]]

\* What executing the chosen entries has led to.
Now == hist[Len(chosen)]

-----------------------------------------------------------------------------
(* Raft, as the servers see it. *)

Leads(s) == raft[s].lead # 0

\* Handler h waits for its entry, and its clerk for h.
waits(h) == h.pc \in {"channel", "wait"} /\ clerk[h.clerk].n = h.n

Elect(s) ==
  /\ term < MaxTerm
  /\ Len(chosen) <= Len(raft[s].log)
  /\ \A j \in 1..Len(chosen) : raft[s].log[j] = chosen[j]
  /\ ~Reelect => \A h \in handlers : h.srv = s => ~waits(h)
  /\ term' = term + 1
  /\ raft' = [raft EXCEPT ![s].lead = term + 1]
  /\ UNCHANGED <<chosen, hist, srv, chans, handlers, clerk, bounds>>

\* A replaced leader hears of the later term.
StepDown(s) ==
  /\ Leads(s)
  /\ raft[s].lead # term
  /\ raft' = [raft EXCEPT ![s].lead = 0]
  /\ UNCHANGED <<agreed, srv, chans, handlers, clerk, bounds>>

\* s takes over the log of the leader l.
Replicate(l, s) ==
  /\ term > 0
  /\ raft[l].lead = term
  /\ s # l
  /\ raft[s].log # raft[l].log
  /\ raft' = [raft EXCEPT ![s].lead = 0, ![s].log = raft[l].log]
  /\ UNCHANGED <<agreed, srv, chans, handlers, clerk, bounds>>

\* The leader commits, which takes an entry of its own term at or after the entry.
Commit(l) ==
  LET i == Len(chosen) + 1
  IN  /\ Leads(l)
      /\ raft[l].lead = term
      /\ \E j \in i..Len(raft[l].log) : raft[l].log[j].term = term
      /\ chosen' = Append(chosen, raft[l].log[i])
      /\ hist' = [j \in 0..i |-> IF j = i THEN execute(Now, raft[l].log[i]) ELSE hist[j]]
      /\ UNCHANGED <<term, raft, srv, chans, handlers, clerk, bounds>>

\* rf.Start: the entry is in the log of s, if s takes itself for the leader.
Start(s, e) == raft' = [raft EXCEPT ![s].log = Append(raft[s].log, e)]

-----------------------------------------------------------------------------
(* Notify channels, one per log index, with room for one reply.  A channel is an        *)
(* object of its own: it may be gone from kv.notifyChans while a handler waits on it.   *)
(* Its id is the RPC whose handler made it, or 0 if applyTask did.                      *)

channel(index, id, mapped, buf) == [index |-> index, id |-> id, mapped |-> mapped, buf |-> buf]

Mapped(chs, index) == {k \in chs : k.mapped /\ k.index = index}

\* Mutant: one channel for all.
getAnyChannel(chs, index, id) ==
  IF \A k \in chs : ~k.mapped THEN chs \cup {channel(index, id, TRUE, None)}
  ELSE {channel(index, k.id, k.mapped, k.buf) : k \in chs}

getNotifyChannel(chs, index, id) ==
  IF Mapped(chs, index) = {} THEN chs \cup {channel(index, id, TRUE, None)} ELSE chs

removeNotifyChannel(chs, index) ==
  {channel(k.index, k.id, k.mapped /\ k.index # index, k.buf) : k \in chs}

-----------------------------------------------------------------------------
(* The clerks. *)

call(c, n, s, seqId, op) ==
  [clerk |-> c, n |-> n, srv |-> s, seqId |-> seqId, op |-> op,
   pc |-> "arrive", index |-> 0, term |-> 0, ch |-> 0]

\* Clerk c calls Get, Put or Append, and sends its first RPC.
Invoke(c, op) ==
  LET ck == clerk[c]
  IN  /\ ck.op = None
      /\ ck.ops < MaxOps
      /\ calls < MaxCalls
      /\ clerk' = [clerk EXCEPT ![c].op = op, ![c].ops = ck.ops + 1, ![c].n = calls + 1,
                                ![c].since = Len(chosen), ![c].reply = None]
      /\ handlers' = handlers \cup {call(c, calls + 1, ck.leaderId, ck.seqId, op)}
      /\ calls' = calls + 1
      /\ UNCHANGED <<agreed, raft, srv, chans, snapshots, restarts>>

\* The RPC failed (its handler may run all the same), or the answer is to try elsewhere.
Retry(c) ==
  LET ck == clerk[c]
      next == (ck.leaderId + 1) % N
  IN  /\ ck.op # None
      /\ ck.reply \in {None, ErrWrongLeader, ErrTimeout}
      /\ calls < MaxCalls
      /\ clerk' = [clerk EXCEPT ![c].leaderId = next, ![c].n = calls + 1, ![c].reply = None]
      /\ handlers' = handlers \cup {call(c, calls + 1, next, ck.seqId, ck.op)}
      /\ calls' = calls + 1
      /\ UNCHANGED <<agreed, raft, srv, chans, snapshots, restarts>>

\* Mutant: a new operation gets the number of the last one.
sameSeqId(ck) == ck.seqId

nextSeqId(ck) == IF ReadOnly(ck.op) THEN ck.seqId ELSE ck.seqId + 1

Return(c) ==
  LET ck == clerk[c]
  IN  /\ ck.op # None
      /\ ck.reply \notin {None, ErrWrongLeader, ErrTimeout}
      /\ clerk' = [clerk EXCEPT ![c].op = None, ![c].seqId = nextSeqId(ck),
                                ![c].ret = ck.reply, ![c].reply = None]
      /\ UNCHANGED <<agreed, raft, srv, chans, handlers, bounds>>

-----------------------------------------------------------------------------
(* The handlers. *)

\* h has got as far as g.
Go(h, g) == handlers' = (handlers \ {h}) \cup {g}

\* The reply of h reaches its clerk, if that still waits for this call.
Respond(h, reply) ==
  clerk' = IF clerk[h.clerk].n = h.n THEN [clerk EXCEPT ![h.clerk].reply = reply] ELSE clerk

\* The entry for the operation of h: a read has no clientId and no seqId.
entry(h, t) ==
  [term |-> t, op |-> h.op, clerk |-> IF ReadOnly(h.op) THEN None ELSE h.clerk,
   seqId |-> IF ReadOnly(h.op) THEN 0 ELSE h.seqId]

\* h calls rf.Start.  The code drops the term Start returns.
StartAgreement(h) ==
  LET r == raft[h.srv]
  IN  IF Leads(h.srv)
        THEN /\ Start(h.srv, entry(h, r.lead))
             /\ Go(h, [h EXCEPT !.pc = "channel", !.index = Len(r.log) + 1, !.term = r.lead])
             /\ UNCHANGED clerk
        ELSE /\ Respond(h, ErrWrongLeader)
             /\ handlers' = handlers \ {h}
             /\ UNCHANGED raft

Get(h) ==
  /\ h.pc = "arrive"
  /\ ReadOnly(h.op)
  /\ StartAgreement(h)
  /\ UNCHANGED <<agreed, srv, chans, bounds>>

PutAppend(h) ==
  LET dup == srv[h.srv].state.dup
  IN  /\ h.pc = "arrive"
      /\ ~ReadOnly(h.op)
      /\ IF requestDuplicate(dup, h.clerk, h.seqId)
           THEN Respond(h, dup[h.clerk].Reply) /\ handlers' = handlers \ {h}
           ELSE Go(h, [h EXCEPT !.pc = "start"]) /\ UNCHANGED clerk
      /\ UNCHANGED <<agreed, raft, srv, chans, bounds>>

PutAppendStart(h) ==
  /\ h.pc = "start"
  /\ StartAgreement(h)
  /\ UNCHANGED <<agreed, srv, chans, bounds>>

awaitChannel(h) ==
  LET chs == getNotifyChannel(chans[h.srv], h.index, h.n)
  IN  /\ h.pc = "channel"
      /\ chans' = [chans EXCEPT ![h.srv] = chs]
      /\ \E k \in Mapped(chs, h.index) : Go(h, [h EXCEPT !.pc = "wait", !.ch = k.id])
      /\ UNCHANGED <<agreed, raft, srv, clerk, bounds>>

awaitResult(h) ==
  /\ h.pc = "wait"
  /\ \E k \in chans[h.srv] :
       /\ k.index = h.index
       /\ k.id = h.ch
       /\ k.buf # None
       /\ chans' = [chans EXCEPT ![h.srv] =
                      (chans[h.srv] \ {k}) \cup {channel(k.index, k.id, k.mapped, None)}]
       /\ Respond(h, k.buf)
  /\ Go(h, [h EXCEPT !.pc = "remove"])
  /\ UNCHANGED <<agreed, raft, srv, bounds>>

awaitTimeout(h) ==
  /\ h.pc = "wait"
  /\ Respond(h, ErrTimeout)
  /\ Go(h, [h EXCEPT !.pc = "remove"])
  /\ UNCHANGED <<agreed, raft, srv, chans, bounds>>

\* The goroutine the handler leaves behind.
removeChannel(h) ==
  /\ h.pc = "remove"
  /\ chans' = [chans EXCEPT ![h.srv] = removeNotifyChannel(chans[h.srv], h.index)]
  /\ handlers' = handlers \ {h}
  /\ UNCHANGED <<agreed, raft, srv, clerk, bounds>>
-----------------------------------------------------------------------------
(* The apply task, snapshots, crashes. *)

\* Mutant: the snapshot does not hold the duplicate table.
makeSnapshotOfStore(state, index) ==
  [state |-> [state EXCEPT !.dup = NewState.dup], index |-> index]

makeSnapshot(state, index) == [state |-> state, index |-> index]

\* An empty snapshot restores nothing.
restoreFromSnapshot(state, snap) == IF snap.index = 0 THEN state ELSE snap.state

StartKVServer(snap) ==
  [state |-> restoreFromSnapshot(NewState, snap), lastApplied |-> 0, snap |-> snap]

\* The send on the channel of index waits until the channel is empty.
Room(chs, index) == \A k \in Mapped(chs, index) : k.buf = None

notify(chs, index, reply) ==
  {channel(k.index, k.id, k.mapped, IF k.mapped /\ k.index = index THEN reply ELSE k.buf) :
     k \in getNotifyChannel(chs, index, 0)}

\* The next committed entry, once s knows that it is committed.  take: Raft's state has
\* grown beyond maxraftstate.
applyTask(s, take) ==
  LET i == raft[s].applied + 1
      e == chosen[i]
      state == execute(srv[s].state, e)
  IN  /\ i \in DOMAIN chosen
      /\ i \in DOMAIN raft[s].log
      /\ raft[s].log[i] = e
      /\ raft' = [raft EXCEPT ![s].applied = i]
      /\ IF i <= srv[s].lastApplied THEN ~take /\ UNCHANGED <<srv, chans, snapshots>>
         ELSE /\ take => snapshots < MaxSnapshots
              /\ srv' = [srv EXCEPT ![s] =
                   [state |-> state, lastApplied |-> i,
                    snap |-> IF take THEN makeSnapshot(state, i) ELSE srv[s].snap]]
              /\ Leads(s) => Room(chans[s], i)
              /\ chans' = [chans EXCEPT ![s] = IF Leads(s)
                   THEN notify(chans[s], i, replyTo(srv[s].state, e)) ELSE chans[s]]
              /\ snapshots' = IF take THEN snapshots + 1 ELSE snapshots
      /\ UNCHANGED <<agreed, handlers, clerk, calls, restarts>>

\* s is behind the snapshot of the leader l, gets it instead of entries, and hands it to
\* applyTask.
applySnapshot(l, s) ==
  LET snap == srv[l].snap
  IN  /\ Leads(l)
      /\ raft[l].lead = term
      /\ s # l
      /\ snap.index > raft[s].applied
      /\ raft' = [raft EXCEPT ![s] = [log |-> SubSeq(chosen, 1, snap.index), lead |-> 0,
                                      applied |-> snap.index]]
      /\ srv' = [srv EXCEPT ![s].state = restoreFromSnapshot(srv[s].state, snap),
                            ![s].lastApplied = snap.index, ![s].snap = snap]
      /\ UNCHANGED <<agreed, chans, handlers, clerk, bounds>>

Restart(s) ==
  /\ restarts < MaxRestarts
  /\ restarts' = restarts + 1
  /\ raft' = [raft EXCEPT ![s].lead = 0, ![s].applied = srv[s].snap.index]
  /\ srv' = [srv EXCEPT ![s] = StartKVServer(srv[s].snap)]
  /\ chans' = [chans EXCEPT ![s] = {}]
  /\ handlers' = {h \in handlers : h.srv # s}
  /\ UNCHANGED <<agreed, clerk, calls, snapshots>>

-----------------------------------------------------------------------------

NewClerk == [leaderId |-> 0, seqId |-> 0, n |-> 0, op |-> None, ops |-> 0, since |-> 0,
             reply |-> None, ret |-> None]

Init ==
  /\ term = 0
  /\ chosen = <<>>
  /\ raft = [s \in Server |-> [log |-> <<>>, lead |-> 0, applied |-> 0]]
  /\ srv = [s \in Server |-> StartKVServer([state |-> NewState, index |-> 0])]
  /\ chans = [s \in Server |-> {}]
  /\ handlers = {}
  /\ clerk = [c \in Clerk |-> NewClerk]
  /\ calls = 0
  /\ snapshots = 0
  /\ restarts = 0
  /\ hist = [j \in {0} |-> NewState]

RaftStep ==
  \/ \E s \in Server : Elect(s) \/ StepDown(s) \/ Commit(s)
  \/ \E l, s \in Server : Replicate(l, s)

ClerkStep == \E c \in Clerk : Retry(c) \/ Return(c) \/ \E op \in Op : Invoke(c, op)

HandlerStep ==
  \E h \in handlers :
    \/ Get(h)
    \/ PutAppend(h)
    \/ PutAppendStart(h)
    \/ awaitChannel(h)
    \/ awaitResult(h)
    \/ awaitTimeout(h)
    \/ removeChannel(h)

ServerStep ==
  \/ \E s \in Server : Restart(s) \/ \E take \in BOOLEAN : applyTask(s, take)
  \/ \E l, s \in Server : applySnapshot(l, s)

Next == RaftStep \/ ClerkStep \/ HandlerStep \/ ServerStep

Spec == Init /\ [][Next]_vars

-----------------------------------------------------------------------------
(* Properties. *)

\* The state machine and the duplicate table of a server are what executing the committed
\* entries it has applied leads to, each operation once, whatever snapshots it took,
\* was sent or came back from (applyTask, makeSnapshot, restoreFromSnapshot).
StateIsLog == \A s \in Server : srv[s].state = hist[raft[s].applied]

\* applyTask sends on a notify channel with kv.mu held, so a full channel would stop
\* the server for good (server.go:208): the channel of an entry that is not applied yet
\* is empty.
NotifyNeverBlocks ==
  \A s \in Server : \A k \in chans[s] : k.index > raft[s].applied => k.buf = None

\* The replies an operation of c may return, by what has been committed since its call.
Seen(c) ==
  LET ck == clerk[c]
  IN  IF ck.op = None THEN {}
      ELSE IF ReadOnly(ck.op)
        THEN {Exec(hist[i].sm, ck.op).reply : i \in ck.since..Len(chosen)}
      ELSE IF requestDuplicate(Now.dup, c, ck.seqId) THEN {Now.dup[c].Reply} ELSE {}

Atomic == INSTANCE AtomicService WITH
  sm <- Now.sm,
  pending <- [c \in Clerk |-> clerk[c].op],
  seen <- [c \in Clerk |-> Seen(c)],
  ret <- [c \in Clerk |-> clerk[c].ret]

\* The replicated service is one atomic service: an operation takes effect exactly once
\* between its call and its return, however often its clerk sent it, to whichever
\* servers, and whichever handler answered; and a read returns no older state.
Linearizable == Atomic!ASpec
=============================================================================
