-------------------------- MODULE ServiceRefinement --------------------------
(***************************************************************************)
(* The replicated service implements the atomic one, for any number of      *)
(* servers and clerks, any operations and any state machine, as long as no  *)
(* server is elected while a handler of an earlier leadership of it still   *)
(* waits (~Reelect).                                                        *)
(***************************************************************************)
EXTENDS ServiceProofs

(* The inductive invariant: ServiceProofs' one and the following. *)

\* No entry and no leadership is of a later term than the last election.
LogsBounded ==
  /\ \A j \in 1..Len(chosen) : chosen[j].term <= term
  /\ \A s \in Server :
       /\ raft[s].lead <= term
       /\ raft[s].applied <= Len(raft[s].log)
       /\ \A j \in 1..Len(raft[s].log) : raft[s].log[j].term <= term

\* The leader has the chosen entries.
LeaderComplete ==
  \A l \in Server : Leads(l) /\ raft[l].lead = term =>
    /\ Len(chosen) <= Len(raft[l].log)
    /\ \A j \in 1..Len(chosen) : raft[l].log[j] = chosen[j]

\* A term has one leader.
OneLeader == \A l, s \in Server : Leads(l) /\ raft[s].lead = raft[l].lead => s = l

\* The entries of the term of a leader are at indexes of its log.
TermCreated ==
  \A l \in Server : Leads(l) =>
    /\ \A j \in 1..Len(chosen) : chosen[j].term = raft[l].lead => j <= Len(raft[l].log)
    /\ \A s \in Server : \A j \in 1..Len(raft[s].log) :
         raft[s].log[j].term = raft[l].lead => j <= Len(raft[l].log)

LogInv == LogsBounded /\ LeaderComplete /\ OneLeader /\ TermCreated

\* A handler that can still answer its clerk carries the operation of the clerk.
HandlerInv ==
  /\ \A h \in handlers : h.n \in 1..calls
  /\ \A h, g \in handlers : h.n = g.n => h = g
  /\ \A h \in handlers : clerk[h.clerk].n = h.n /\ h.pc # "remove" =>
       /\ clerk[h.clerk].op = h.op
       /\ clerk[h.clerk].seqId = h.seqId
       /\ clerk[h.clerk].reply = None

\* What a waiting handler finds at its index: its own entry while the server leads, the
\* reply of its own entry in the channel, and no entry committed before its call.
WaitOK(h) ==
  /\ Leads(h.srv) => /\ h.index \in 1..Len(raft[h.srv].log)
                     /\ raft[h.srv].log[h.index] = entry(h, h.term)
  /\ \A k \in chans[h.srv] :
       k.index = h.index /\ k.buf # None => chosen[h.index] = entry(h, h.term)
  /\ h.index \in 1..clerk[h.clerk].since => chosen[h.index].term # h.term

WaitInv == \A h \in handlers : waits(h) => WaitOK(h)

\* A write with the number of its clerk's operation is that operation, and no write has
\* a later number.
WriteOK(e) ==
  ~ReadOnly(e.op) =>
    \/ e.seqId < clerk[e.clerk].seqId
    \/ e.seqId = clerk[e.clerk].seqId /\ e.op = clerk[e.clerk].op

SeqInv ==
  /\ \A j \in 1..Len(chosen) : WriteOK(chosen[j])
  /\ \A s \in Server : \A j \in 1..Len(raft[s].log) : WriteOK(raft[s].log[j])
  /\ \A h \in handlers : WriteOK(h)

\* The duplicate tables of the history, against the last one.
DupOK(d, now) ==
  /\ DOMAIN d = Clerk
  /\ \A c \in Clerk : /\ d[c].SeqId \in Int
                      /\ d[c].SeqId <= now[c].SeqId
                      /\ d[c].SeqId = now[c].SeqId => d[c] = now[c]

DupInv == \A i \in 0..Len(chosen) : DupOK(hist[i].dup, Now.dup)

\* The operations of a clerk have been executed up to its last write, or to the pending one.
NowInv ==
  \A c \in Clerk :
    /\ Now.dup[c].SeqId \in {clerk[c].seqId - 1, clerk[c].seqId}
    /\ Now.dup[c].SeqId = clerk[c].seqId => clerk[c].op # None /\ ~ReadOnly(clerk[c].op)

NoAnswer == {None, ErrWrongLeader, ErrTimeout}

\* The answer a clerk has is one its operation may return.
ReplyInv == \A c \in Clerk : clerk[c].reply \notin NoAnswer => clerk[c].reply \in Seen(c)

RefInv ==
  /\ IndInv
  /\ LogInv
  /\ HandlerInv /\ WaitInv /\ SeqInv
  /\ DupInv /\ NowInv /\ ReplyInv

-----------------------------------------------------------------------------
(* What steps leave alone. *)

\* The logs.
LEMMA LogsKept ==
  ASSUME LogInv, UNCHANGED <<term, chosen, raft>>
  PROVE  LogInv'
  BY DEF LogInv, LogsBounded, LeaderComplete, OneLeader, TermCreated, Leads

\* The handlers, when none moves and no clerk hears anything; some may be gone.
LEMMA HandlersKept ==
  ASSUME HandlerInv, handlers' \in SUBSET handlers, UNCHANGED <<clerk, calls>>
  PROVE  HandlerInv'
  BY DEF HandlerInv

\* The waiting handlers, when the logs of those that lead stay and no channel is filled.
LEMMA WaitsKept ==
  ASSUME WaitInv, handlers' \in SUBSET handlers, UNCHANGED <<clerk, chosen>>,
         \A h \in handlers : waits(h) /\ raft'[h.srv].lead # 0 =>
           raft[h.srv].lead # 0 /\ raft'[h.srv].log = raft[h.srv].log,
         \A h \in handlers' : \A k \in chans'[h.srv] : k.buf # None =>
           \E m \in chans[h.srv] : m.index = k.index /\ m.buf # None
  PROVE  WaitInv'
<1> SUFFICES ASSUME NEW h \in handlers', waits(h)' PROVE WaitOK(h)'
  BY DEF WaitInv
<1>1. h \in handlers /\ waits(h)
  BY DEF waits
<1>2. WaitOK(h)
  BY <1>1 DEF WaitInv
<1> QED
  BY <1>1, <1>2 DEF WaitOK, Leads

\* The numbers of the writes, when only logs move: every log is made of known entries.
LEMMA SeqsKept ==
  ASSUME SeqInv, UNCHANGED <<chosen, clerk>>, handlers' \in SUBSET handlers,
         \A s \in Server :
           \/ \E l \in Server : raft'[s].log = raft[l].log
           \/ \A j \in 1..Len(raft'[s].log) : \E i \in 1..Len(chosen) : raft'[s].log[j] = chosen[i]
  PROVE  SeqInv'
<1>1. \A j \in 1..Len(chosen') : WriteOK(chosen[j])'
  BY DEF SeqInv, WriteOK
<1>2. ASSUME NEW s \in Server, NEW j \in 1..Len(raft'[s].log)
      PROVE  WriteOK(raft[s].log[j])'
  <2>1. CASE \E l \in Server : raft'[s].log = raft[l].log
    <3>1. PICK z \in Server : raft'[s].log = raft[z].log
      BY <2>1
    <3>2. WriteOK(raft[z].log[j]) /\ raft'[s].log[j] = raft[z].log[j]
      BY <1>2, <3>1 DEF SeqInv
    <3> QED
      BY <3>2, Zenon DEF WriteOK
  <2>2. CASE \E i \in 1..Len(chosen) : raft'[s].log[j] = chosen[i]
    <3>1. PICK i \in 1..Len(chosen) : raft'[s].log[j] = chosen[i]
      BY <2>2
    <3>2. WriteOK(chosen[i])
      BY DEF SeqInv
    <3> QED
      BY <3>1, <3>2 DEF WriteOK
  <2> QED
    BY <2>1, <2>2
<1>3. \A h \in handlers' : WriteOK(h)'
  BY DEF SeqInv, WriteOK
<1> QED
  BY <1>1, <1>2, <1>3 DEF SeqInv

\* The duplicate tables, when nothing is committed.
LEMMA DupsKept ==
  ASSUME DupInv, UNCHANGED <<chosen, hist>>
  PROVE  DupInv'
  BY DEF DupInv, Now

\* What the clerks have, when nothing is committed.
LEMMA NowKept ==
  ASSUME NowInv, UNCHANGED <<chosen, hist>>,
         \A c \in Clerk : clerk'[c].op = clerk[c].op /\ clerk'[c].seqId = clerk[c].seqId
  PROVE  NowInv'
  BY DEF NowInv, Now

\* What an operation may return, when nothing is committed.
LEMMA SeenKept ==
  ASSUME NEW c, UNCHANGED <<chosen, hist>>,
         clerk'[c].op = clerk[c].op, clerk'[c].seqId = clerk[c].seqId,
         clerk'[c].since = clerk[c].since
  PROVE  Seen(c)' = Seen(c)
  BY DEF Seen, Now

\* The answers, when nothing is committed and no clerk hears anything.
LEMMA RepliesKept ==
  ASSUME ReplyInv, UNCHANGED <<chosen, hist, clerk>>
  PROVE  ReplyInv'
<1>1. \A c \in Clerk : Seen(c)' = Seen(c)
  BY SeenKept
<1> QED
  BY <1>1 DEF ReplyInv, NoAnswer, ErrWrongLeader, ErrTimeout

-----------------------------------------------------------------------------
(* Raft's steps. *)

\* A step of Raft that commits nothing and in which no server becomes leader with a
\* handler waiting on it.
LEMMA RaftKeepsRef ==
  ASSUME RefInv, IndInv', LogInv',
         UNCHANGED <<chosen, hist, chans, handlers, clerk, calls>>,
         \A h \in handlers : waits(h) /\ raft'[h.srv].lead # 0 =>
           raft[h.srv].lead # 0 /\ raft'[h.srv].log = raft[h.srv].log,
         \A s \in Server :
           \/ \E l \in Server : raft'[s].log = raft[l].log
           \/ \A j \in 1..Len(raft'[s].log) : \E i \in 1..Len(chosen) : raft'[s].log[j] = chosen[i]
  PROVE  RefInv'
<1>1. HandlerInv'
  BY HandlersKept DEF RefInv
<1>2. WaitInv'
  BY WaitsKept DEF RefInv
<1>3. SeqInv'
  BY SeqsKept DEF RefInv
<1>4. DupInv' /\ NowInv' /\ ReplyInv'
  BY DupsKept, NowKept, RepliesKept DEF RefInv
<1> QED
  BY <1>1, <1>2, <1>3, <1>4 DEF RefInv

\* The types the steps need.
LEMMA RaftTypes ==
  ASSUME IndInv
  PROVE  /\ term \in Nat
         /\ chosen \in Seq(Entry) /\ Len(chosen) \in Nat
         /\ raft \in [Server -> [log : Seq(Entry), lead : Nat, applied : Nat]]
         /\ \A s \in Server : /\ raft[s].log \in Seq(Entry) /\ Len(raft[s].log) \in Nat
                              /\ raft[s].lead \in Nat /\ raft[s].applied \in 0..Len(chosen)
                              /\ \A j \in 1..Len(raft[s].log) : raft[s].log[j].term \in Nat
         /\ \A j \in 1..Len(chosen) : chosen[j].term \in Nat
<1>1. /\ term \in Nat
      /\ chosen \in Seq(Entry) /\ Len(chosen) \in Nat
      /\ raft \in [Server -> [log : Seq(Entry), lead : Nat, applied : Nat]]
      /\ \A s \in Server : raft[s].log \in Seq(Entry) /\ Len(raft[s].log) \in Nat
  BY DEF IndInv, TypeInv
<1>2. \A s \in Server : raft[s].lead \in Nat /\ raft[s].applied \in 0..Len(chosen)
  BY <1>1 DEF IndInv, ServerInv, ServerOK
<1>3. \A q \in Seq(Entry) : \A j \in 1..Len(q) : q[j].term \in Nat
  <2> SUFFICES ASSUME NEW q \in Seq(Entry), NEW j \in 1..Len(q) PROVE q[j].term \in Nat
    OBVIOUS
  <2>1. q[j] \in Entry
    OBVIOUS
  <2> QED
    BY <2>1 DEF Entry
<1> QED
  BY <1>1, <1>2, <1>3

\* Elect: the term is new, so that nothing of it is in any log.
LEMMA ElectRef ==
  ASSUME RefInv, ~Reelect, NEW s \in Server, Elect(s)
  PROVE  RefInv'
<1>0. /\ UNCHANGED <<chosen, hist, chans, handlers, clerk, calls>>
      /\ term' = term + 1
      /\ raft' = [raft EXCEPT ![s].lead = term + 1]
      /\ Len(chosen) <= Len(raft[s].log)
      /\ \A j \in 1..Len(chosen) : raft[s].log[j] = chosen[j]
      /\ \A h \in handlers : h.srv = s => ~waits(h)
  BY DEF Elect, bounds
<1>1. IndInv'
  BY ElectInv DEF RefInv
<1>2. IndInv /\ LogInv
  BY DEF RefInv
<1>3. /\ raft'[s].lead = term + 1
      /\ \A x \in Server : raft'[x].log = raft[x].log /\ raft'[x].applied = raft[x].applied
      /\ \A x \in Server \ {s} : raft'[x].lead = raft[x].lead
  BY <1>0, <1>2, RaftTypes
<1>4. LogInv'
  <2>1. LogsBounded'
    BY <1>0, <1>2, <1>3, RaftTypes DEF LogInv, LogsBounded
  <2>2. LeaderComplete'
    <3> SUFFICES ASSUME NEW l \in Server, raft'[l].lead = term'
                 PROVE  /\ Len(chosen') <= Len(raft'[l].log)
                        /\ \A j \in 1..Len(chosen') : raft'[l].log[j] = chosen'[j]
      BY DEF LeaderComplete, Leads
    <3>1. l = s
      BY <1>0, <1>2, <1>3, RaftTypes DEF LogInv, LogsBounded
    <3>2. Len(chosen) <= Len(raft[s].log) /\ \A j \in 1..Len(chosen) : raft[s].log[j] = chosen[j]
      BY <1>0, <1>2, RaftTypes
    <3>3. chosen' = chosen /\ raft'[s].log = raft[s].log
      BY <1>0, <1>3
    <3> QED
      BY <3>1, <3>2, <3>3, Zenon
  <2>3. OneLeader'
    <3> SUFFICES ASSUME NEW l \in Server, NEW x \in Server,
                        raft'[l].lead # 0, raft'[x].lead = raft'[l].lead
                 PROVE  x = l
      BY Zenon DEF OneLeader, Leads
    <3>1. /\ term \in Nat /\ raft'[s].lead = term + 1
          /\ \A y \in Server \ {s} : /\ raft'[y].lead = raft[y].lead
                                     /\ raft[y].lead \in Nat /\ raft[y].lead <= term
      BY <1>2, <1>3, RaftTypes, Zenon DEF LogInv, LogsBounded
    <3>2. CASE x = s \/ l = s
      BY <3>1, <3>2
    <3>3. CASE x # s /\ l # s
      <4>1. raft[l].lead # 0 /\ raft[x].lead = raft[l].lead
        BY <3>1, <3>3
      <4> QED
        BY <1>2, <4>1, Zenon DEF LogInv, OneLeader, Leads
    <3> QED
      BY <3>2, <3>3, Zenon
  <2>4. TermCreated'
    <3> SUFFICES ASSUME NEW x \in Server, raft'[x].lead # 0
                 PROVE  /\ \A j \in 1..Len(chosen') :
                             chosen'[j].term = raft'[x].lead => j <= Len(raft'[x].log)
                        /\ \A y \in Server : \A j \in 1..Len(raft'[y].log) :
                             raft'[y].log[j].term = raft'[x].lead => j <= Len(raft'[x].log)
      BY DEF TermCreated, Leads
    <3>1. CASE x = s
      <4>1. \A j \in 1..Len(chosen) : chosen[j].term # term + 1
        BY <1>2, RaftTypes DEF LogInv, LogsBounded
      <4>2. \A y \in Server : \A j \in 1..Len(raft[y].log) : raft[y].log[j].term # term + 1
        BY <1>2, RaftTypes DEF LogInv, LogsBounded
      <4> QED
        BY <1>0, <1>3, <3>1, <4>1, <4>2
    <3>2. CASE x # s
      BY <1>0, <1>2, <1>3, <3>2 DEF LogInv, TermCreated, Leads
    <3> QED
      BY <3>1, <3>2
  <2> QED
    BY <2>1, <2>2, <2>3, <2>4 DEF LogInv
<1>5. \A h \in handlers : waits(h) /\ raft'[h.srv].lead # 0 =>
        raft[h.srv].lead # 0 /\ raft'[h.srv].log = raft[h.srv].log
  BY <1>0, <1>2, <1>3 DEF IndInv, TypeInv, Handler
<1>6. \A x \in Server : \E l \in Server : raft'[x].log = raft[l].log
  BY <1>3
<1> QED
  BY <1>0, <1>1, <1>4, <1>5, <1>6, RaftKeepsRef

\* StepDown.
LEMMA StepDownRef ==
  ASSUME RefInv, NEW s \in Server, StepDown(s)
  PROVE  RefInv'
<1>0. /\ UNCHANGED <<term, chosen, hist, chans, handlers, clerk, calls>>
      /\ raft' = [raft EXCEPT ![s].lead = 0]
  BY DEF StepDown, agreed, bounds
<1>1. IndInv'
  BY StepDownInv DEF RefInv
<1>2. IndInv /\ LogInv
  BY DEF RefInv
<1>3. /\ raft'[s].lead = 0
      /\ \A x \in Server : raft'[x].log = raft[x].log /\ raft'[x].applied = raft[x].applied
      /\ \A x \in Server \ {s} : raft'[x].lead = raft[x].lead
  BY <1>0, <1>2, RaftTypes
<1>4. LogInv'
  <2>1. LogsBounded'
    BY <1>0, <1>2, <1>3, RaftTypes DEF LogInv, LogsBounded
  <2>2. LeaderComplete'
    BY <1>0, <1>2, <1>3 DEF LogInv, LeaderComplete, Leads
  <2>3. OneLeader'
    BY <1>2, <1>3 DEF LogInv, OneLeader, Leads
  <2>4. TermCreated'
    BY <1>0, <1>2, <1>3 DEF LogInv, TermCreated, Leads
  <2> QED
    BY <2>1, <2>2, <2>3, <2>4 DEF LogInv
<1>5. \A h \in handlers : waits(h) /\ raft'[h.srv].lead # 0 =>
        raft[h.srv].lead # 0 /\ raft'[h.srv].log = raft[h.srv].log
  BY <1>2, <1>3, Zenon DEF IndInv, TypeInv, Handler
<1>6. \A x \in Server : \E l \in Server : raft'[x].log = raft[l].log
  BY <1>3
<1> QED
  BY <1>0, <1>1, <1>4, <1>5, <1>6, RaftKeepsRef

\* Replicate: s leads no more, and has the log of the leader.
LEMMA ReplicateRef ==
  ASSUME RefInv, NEW l \in Server, NEW s \in Server, Replicate(l, s)
  PROVE  RefInv'
<1>0. /\ UNCHANGED <<term, chosen, hist, chans, handlers, clerk, calls>>
      /\ raft' = [raft EXCEPT ![s].lead = 0, ![s].log = raft[l].log]
      /\ raft[l].lead = term /\ Leads(l) /\ s # l
  BY DEF Replicate, agreed, bounds, Leads
<1>1. IndInv'
  BY ReplicateInv DEF RefInv
<1>2. IndInv /\ LogInv
  BY DEF RefInv
<1>3. /\ raft'[s].lead = 0 /\ raft'[s].log = raft[l].log /\ raft'[s].applied = raft[s].applied
      /\ \A x \in Server \ {s} : raft'[x] = raft[x]
  BY <1>0, <1>2, RaftTypes
<1>4. LogInv'
  <2>1. LogsBounded'
    BY <1>0, <1>2, <1>3, RaftTypes DEF LogInv, LogsBounded, LeaderComplete
  <2>2. LeaderComplete'
    <3> SUFFICES ASSUME NEW x \in Server, raft'[x].lead # 0, raft'[x].lead = term'
                 PROVE  /\ Len(chosen') <= Len(raft'[x].log)
                        /\ \A j \in 1..Len(chosen') : raft'[x].log[j] = chosen'[j]
      BY DEF LeaderComplete, Leads
    <3>1. raft'[x] = raft[x]
      BY <1>3
    <3> QED
      BY <1>0, <1>2, <3>1, Zenon DEF LogInv, LeaderComplete, Leads
  <2>3. OneLeader'
    BY <1>2, <1>3 DEF LogInv, OneLeader, Leads
  <2>4. TermCreated'
    <3> SUFFICES ASSUME NEW x \in Server, raft'[x].lead # 0
                 PROVE  /\ \A j \in 1..Len(chosen') :
                             chosen'[j].term = raft'[x].lead => j <= Len(raft'[x].log)
                        /\ \A y \in Server : \A j \in 1..Len(raft'[y].log) :
                             raft'[y].log[j].term = raft'[x].lead => j <= Len(raft'[x].log)
      BY DEF TermCreated, Leads
    <3>1. raft'[x] = raft[x]
      BY <1>3
    <3>2. \A j \in 1..Len(chosen) : chosen[j].term = raft[x].lead => j <= Len(raft[x].log)
      BY <1>2, <3>1 DEF LogInv, TermCreated, Leads
    <3>3. ASSUME NEW y \in Server, NEW j \in 1..Len(raft'[y].log), raft'[y].log[j].term = raft[x].lead
          PROVE  j <= Len(raft[x].log)
      <4>1. PICK z \in Server : raft'[y].log = raft[z].log
        BY <1>3
      <4> QED
        BY <1>2, <3>1, <3>3, <4>1 DEF LogInv, TermCreated, Leads
    <3> QED
      BY <1>0, <3>1, <3>2, <3>3, Zenon
  <2> QED
    BY <2>1, <2>2, <2>3, <2>4 DEF LogInv
<1>5. \A h \in handlers : waits(h) /\ raft'[h.srv].lead # 0 =>
        raft[h.srv].lead # 0 /\ raft'[h.srv].log = raft[h.srv].log
  BY <1>2, <1>3, Zenon DEF IndInv, TypeInv, Handler
<1>6. \A x \in Server : \E y \in Server : raft'[x].log = raft[y].log
  BY <1>3
<1> QED
  BY <1>0, <1>1, <1>4, <1>5, <1>6, RaftKeepsRef, Zenon

\* The entry is the pending write of its clerk, not executed before.
TakesEffect(e) ==
  /\ ~ReadOnly(e.op)
  /\ e.clerk \in Clerk
  /\ e.seqId \in Nat
  /\ e.seqId = clerk[e.clerk].seqId
  /\ e.op = clerk[e.clerk].op
  /\ Now.dup[e.clerk].SeqId < e.seqId

\* A committed entry either changes nothing, or is the pending write of its clerk
\* (applyTask, requestDuplicate).
LEMMA CommitCases ==
  ASSUME RefInv, NEW e \in Entry, WriteOK(e)
  PROVE  \/ execute(Now, e) = Now
         \/ /\ TakesEffect(e)
            /\ execute(Now, e) =
                 [sm |-> Exec(Now.sm, e.op).sm,
                  dup |-> [Now.dup EXCEPT ![e.clerk] =
                             [SeqId |-> e.seqId, Reply |-> Exec(Now.sm, e.op).reply]]]
<1>1. CASE ReadOnly(e.op) \/ requestDuplicate(Now.dup, e.clerk, e.seqId)
  BY <1>1 DEF execute
<1>2. CASE ~ReadOnly(e.op) /\ ~requestDuplicate(Now.dup, e.clerk, e.seqId)
  <2>1. e.clerk \in Clerk /\ e.seqId \in Nat
    BY <1>2 DEF Entry
  <2>2. /\ clerk[e.clerk].seqId \in Nat
        /\ Now.dup[e.clerk].SeqId \in {clerk[e.clerk].seqId - 1, clerk[e.clerk].seqId}
    BY <2>1 DEF RefInv, NowInv, IndInv, ClerkInv
  <2>3. Now.dup[e.clerk].SeqId < e.seqId
    BY <1>2, <2>1, <2>2 DEF requestDuplicate
  <2>4. e.seqId = clerk[e.clerk].seqId /\ e.op = clerk[e.clerk].op
    BY <1>2, <2>1, <2>2, <2>3 DEF WriteOK
  <2>5. execute(Now, e) =
          [sm |-> Exec(Now.sm, e.op).sm,
           dup |-> [Now.dup EXCEPT ![e.clerk] =
                      [SeqId |-> e.seqId, Reply |-> Exec(Now.sm, e.op).reply]]]
    BY <1>2 DEF execute
  <2> QED
    BY <1>2, <2>1, <2>3, <2>4, <2>5 DEF TakesEffect
<1> QED
  BY <1>1, <1>2

\* The last table is that of every clerk.
LEMMA NowTable ==
  ASSUME RefInv
  PROVE  /\ DOMAIN Now.dup = Clerk
         /\ \A c \in Clerk : Now.dup[c].SeqId \in Int
<1>1. Len(chosen) \in 0..Len(chosen)
  BY RaftTypes DEF RefInv
<1> QED
  BY <1>1 DEF RefInv, DupInv, DupOK, Now

\* The facts of a commit that the rest needs.
LEMMA CommitFacts ==
  ASSUME RefInv, NEW l \in Server, Commit(l), NEW e, e = raft[l].log[Len(chosen) + 1]
  PROVE  /\ UNCHANGED <<term, raft, srv, chans, handlers, clerk, calls>>
         /\ e \in Entry
         /\ WriteOK(e)
         /\ Leads(l) /\ raft[l].lead = term
         /\ Len(chosen) + 1 \in 1..Len(raft[l].log)
         /\ Len(chosen') = Len(chosen) + 1
         /\ \A i \in 1..Len(chosen) : chosen'[i] = chosen[i]
         /\ chosen'[Len(chosen) + 1] = e
         /\ \A i \in 0..Len(chosen) : hist'[i] = hist[i]
         /\ hist'[Len(chosen) + 1] = execute(Now, e)
         /\ Now' = execute(Now, e)
         /\ hist'[Len(chosen)] = Now
<1>1. TypeInv /\ HistInv /\ SeqInv
  BY DEF RefInv, IndInv
<1>2. /\ UNCHANGED <<term, raft, srv, chans, handlers, clerk, calls>>
      /\ Leads(l) /\ raft[l].lead = term
  BY DEF Commit, bounds
<1>3. /\ Len(chosen) + 1 \in 1..Len(raft[l].log)
      /\ e \in Entry
      /\ Len(chosen') = Len(chosen) + 1
      /\ \A i \in 1..Len(chosen) : chosen'[i] = chosen[i]
      /\ chosen'[Len(chosen) + 1] = e
  BY <1>1, CommitEntry
<1>4. /\ \A i \in 0..Len(chosen) : hist'[i] = hist[i]
      /\ hist'[Len(chosen) + 1] = execute(Now, e)
  BY <1>1, CommitHist
<1>5. WriteOK(e)
  BY <1>1, <1>3 DEF SeqInv
<1>6. Now' = execute(Now, e)
  BY <1>3, <1>4 DEF Now
<1>7. hist'[Len(chosen)] = Now
  BY <1>1, <1>4 DEF Now, TypeInv
<1> QED
  BY <1>2, <1>3, <1>4, <1>5, <1>6, <1>7

\* Commit: the logs and what depends on them.
LEMMA CommitLogs ==
  ASSUME RefInv, NEW l \in Server, Commit(l)
  PROVE  LogInv' /\ HandlerInv' /\ WaitInv' /\ SeqInv'
<1> DEFINE e == raft[l].log[Len(chosen) + 1]
<1>0. /\ UNCHANGED <<term, raft, srv, chans, handlers, clerk, calls>>
      /\ e \in Entry
      /\ WriteOK(e)
      /\ Leads(l) /\ raft[l].lead = term
      /\ Len(chosen) + 1 \in 1..Len(raft[l].log)
      /\ Len(chosen') = Len(chosen) + 1
      /\ \A i \in 1..Len(chosen) : chosen'[i] = chosen[i]
      /\ chosen'[Len(chosen) + 1] = e
  BY CommitFacts
<1>1. IndInv /\ LogInv /\ Len(chosen) \in Nat
  BY RaftTypes DEF RefInv
<1>2. \A j \in 1..Len(chosen') : j \in 1..Len(chosen) \/ j = Len(chosen) + 1
  BY <1>0, <1>1
<1>3. LogInv'
  <2>1. LogsBounded'
    BY <1>0, <1>1, <1>2, RaftTypes, Zenon DEF LogInv, LogsBounded
  <2>2. LeaderComplete'
    <3> SUFFICES ASSUME NEW m \in Server, Leads(m), raft[m].lead = term
                 PROVE  /\ Len(chosen') <= Len(raft[m].log)
                        /\ \A j \in 1..Len(chosen') : raft[m].log[j] = chosen'[j]
      BY <1>0 DEF LeaderComplete, Leads
    <3>1. m = l
      BY <1>0, <1>1 DEF LogInv, OneLeader
    <3>2. \A j \in 1..Len(chosen) : raft[l].log[j] = chosen[j]
      BY <1>0, <1>1 DEF LogInv, LeaderComplete
    <3> QED
      BY <1>0, <1>1, <1>2, <3>1, <3>2, RaftTypes
  <2>3. OneLeader'
    BY <1>0, <1>1 DEF LogInv, OneLeader, Leads
  <2>4. TermCreated'
    <3> SUFFICES ASSUME NEW m \in Server, Leads(m)
                 PROVE  \A j \in 1..Len(chosen') :
                          chosen'[j].term = raft[m].lead => j <= Len(raft[m].log)
      BY <1>0, <1>1 DEF LogInv, TermCreated, Leads
    <3>1. \A j \in 1..Len(chosen) : chosen'[j].term = raft[m].lead => j <= Len(raft[m].log)
      BY <1>0, <1>1 DEF LogInv, TermCreated
    <3>2. e.term = raft[m].lead => Len(chosen) + 1 <= Len(raft[m].log)
      BY <1>0, <1>1 DEF LogInv, TermCreated
    <3> QED
      BY <1>0, <1>2, <3>1, <3>2
  <2> QED
    BY <2>1, <2>2, <2>3, <2>4 DEF LogInv
<1>4. HandlerInv'
  BY <1>0, HandlersKept DEF RefInv
<1>5. WaitInv'
  <2> SUFFICES ASSUME NEW h \in handlers, waits(h) PROVE WaitOK(h)'
    BY <1>0 DEF WaitInv, waits
  <2>1. WaitOK(h)
    BY DEF RefInv, WaitInv
  <2>2. h.srv \in Server /\ h.index \in Nat /\ clerk[h.clerk].since \in 0..Len(chosen)
    BY <1>1, Zenon DEF IndInv, TypeInv, Handler, ClerkInv
  <2>3. ASSUME NEW k \in chans[h.srv], k.index = h.index, k.buf # None
        PROVE  chosen'[h.index] = entry(h, h.term)
    <3>1. h.index \in 1..Len(chosen)
      <4>1. ChanOK(k, raft[h.srv].applied)
        BY <1>1, <2>2 DEF IndInv, ChanInv
      <4>2. h.index \in 1..raft[h.srv].applied
        BY <2>3, <4>1 DEF ChanOK
      <4>3. raft[h.srv].applied \in 0..Len(chosen)
        BY <1>1, <2>2, RaftTypes
      <4> QED
        BY <4>2, <4>3
    <3> QED
      BY <1>0, <2>1, <2>3, <3>1, Zenon DEF WaitOK
  <2>4. h.index \in 1..clerk[h.clerk].since => chosen'[h.index].term # h.term
    BY <1>0, <1>1, <2>1, <2>2 DEF WaitOK
  <2> QED
    BY <1>0, <2>1, <2>3, <2>4 DEF WaitOK, Leads
<1>6. SeqInv'
  <2>1. ASSUME NEW j \in 1..Len(chosen')
        PROVE  WriteOK(chosen[j])'
    <3>1. CASE j \in 1..Len(chosen)
      BY <1>0, <3>1, Zenon DEF RefInv, SeqInv, WriteOK
    <3>2. CASE j = Len(chosen) + 1
      <4>1. chosen'[j] = e
        BY <1>0, <3>2
      <4> QED
        BY <1>0, <4>1, Zenon DEF WriteOK
    <3> QED
      BY <1>2, <3>1, <3>2
  <2>2. /\ \A s \in Server : \A j \in 1..Len(raft'[s].log) : WriteOK(raft[s].log[j])'
        /\ \A h \in handlers' : WriteOK(h)'
    BY <1>0, Zenon DEF RefInv, SeqInv, WriteOK
  <2> QED
    BY <2>1, <2>2 DEF SeqInv
<1> QED
  BY <1>3, <1>4, <1>5, <1>6

\* Commit: what a clerk may see only grows.
LEMMA CommitSeen ==
  ASSUME RefInv, NEW l \in Server, Commit(l), NEW c \in Clerk
  PROVE  Seen(c) \subseteq Seen(c)'
<1>e. PICK e : e = raft[l].log[Len(chosen) + 1]
  OBVIOUS
<1>0. /\ UNCHANGED <<term, raft, srv, chans, handlers, clerk, calls>>
      /\ e \in Entry
      /\ WriteOK(e)
      /\ Len(chosen') = Len(chosen) + 1
      /\ \A i \in 0..Len(chosen) : hist'[i] = hist[i]
      /\ Now' = execute(Now, e)
  BY <1>e, CommitFacts, Zenon
<1>1. Len(chosen) \in Nat /\ clerk[c].since \in 0..Len(chosen) /\ clerk[c].seqId \in Nat
  BY RaftTypes, Zenon DEF RefInv, IndInv, ClerkInv
<1>2. CASE clerk[c].op = None
  BY <1>2, Zenon DEF Seen
<1>3. CASE clerk[c].op # None /\ ReadOnly(clerk[c].op)
  <2>1. Seen(c) = {Exec(hist[i].sm, clerk[c].op).reply : i \in clerk[c].since..Len(chosen)}
    BY <1>3, Zenon DEF Seen
  <2>2. Seen(c)' = {Exec(hist'[i].sm, clerk[c].op).reply : i \in clerk[c].since..(Len(chosen) + 1)}
    BY <1>0, <1>3 DEF Seen
  <2>3. \A i \in clerk[c].since..Len(chosen) :
          i \in clerk[c].since..(Len(chosen) + 1) /\ hist'[i] = hist[i]
    BY <1>0, <1>1
  <2> QED
    BY <2>1, <2>2, <2>3
<1>4. CASE clerk[c].op # None /\ ~ReadOnly(clerk[c].op)
  <2>1. Seen(c) = IF requestDuplicate(Now.dup, c, clerk[c].seqId) THEN {Now.dup[c].Reply} ELSE {}
    BY <1>4 DEF Seen
  <2>2. Seen(c)' = IF requestDuplicate(Now'.dup, c, clerk[c].seqId)
                     THEN {Now'.dup[c].Reply} ELSE {}
    BY <1>0, <1>4, Zenon DEF Seen
  <2>3. requestDuplicate(Now.dup, c, clerk[c].seqId) => Now'.dup[c] = Now.dup[c]
    <3>1. CASE execute(Now, e) = Now
      BY <1>0, <3>1
    <3>2. CASE /\ TakesEffect(e)
               /\ execute(Now, e) =
                    [sm |-> Exec(Now.sm, e.op).sm,
                     dup |-> [Now.dup EXCEPT ![e.clerk] =
                                [SeqId |-> e.seqId, Reply |-> Exec(Now.sm, e.op).reply]]]
      <4>1. DOMAIN Now.dup = Clerk /\ \A d \in Clerk : Now.dup[d].SeqId \in Int
        BY NowTable
      <4>2. CASE c # e.clerk
        BY <1>0, <3>2, <4>1, <4>2
      <4>3. CASE c = e.clerk
        <5>1. ~requestDuplicate(Now.dup, c, clerk[c].seqId)
          <6>1. Now.dup[c].SeqId < e.seqId /\ e.seqId = clerk[c].seqId
            BY <3>2, <4>3 DEF TakesEffect
          <6>2. Now.dup[c].SeqId \in Int /\ clerk[c].seqId \in Nat
            BY <1>1, <4>1
          <6>3. ~(clerk[c].seqId <= Now.dup[c].SeqId)
            BY <6>1, <6>2
          <6> QED
            BY <6>3 DEF requestDuplicate
        <5> QED
          BY <5>1
      <4> QED
        BY <4>2, <4>3
    <3> QED
      BY <1>0, <3>1, <3>2, CommitCases
  <2>4. requestDuplicate(Now.dup, c, clerk[c].seqId) =>
          requestDuplicate(Now'.dup, c, clerk[c].seqId)
    BY <2>3 DEF requestDuplicate
  <2> QED
    BY <2>1, <2>2, <2>3, <2>4
<1> QED
  BY <1>2, <1>3, <1>4

\* Commit: the tables.
LEMMA CommitTables ==
  ASSUME RefInv, NEW l \in Server, Commit(l)
  PROVE  DupInv' /\ NowInv' /\ ReplyInv'
<1>e. PICK e : e = raft[l].log[Len(chosen) + 1]
  OBVIOUS
<1>0. /\ UNCHANGED <<term, raft, srv, chans, handlers, clerk, calls>>
      /\ e \in Entry
      /\ WriteOK(e)
      /\ Len(chosen') = Len(chosen) + 1
      /\ \A i \in 0..Len(chosen) : hist'[i] = hist[i]
      /\ hist'[Len(chosen) + 1] = execute(Now, e)
      /\ Now' = execute(Now, e)
  BY <1>e, CommitFacts
<1>1. Len(chosen) \in Nat /\ \A c \in Clerk : clerk[c].seqId \in Nat
  BY RaftTypes DEF RefInv, IndInv, ClerkInv
<1>2. DOMAIN Now.dup = Clerk /\ \A d \in Clerk : Now.dup[d].SeqId \in Int
  BY NowTable
<1>3. \A i \in 0..Len(chosen) : DupOK(hist[i].dup, Now.dup)
  BY DEF RefInv, DupInv
<1>4. \A i \in 0..Len(chosen') : i \in 0..Len(chosen) \/ i = Len(chosen) + 1
  BY <1>0, <1>1
<1>5. \A i \in 0..Len(chosen') : hist'[i].dup = Now'.dup \/ (i \in 0..Len(chosen) /\ hist'[i].dup = hist[i].dup)
  BY <1>0, <1>4
<1>6. ReplyInv'
  BY <1>0, CommitSeen DEF RefInv, ReplyInv, NoAnswer, ErrWrongLeader, ErrTimeout
<1>7. CASE execute(Now, e) = Now
  <2>1. DupOK(Now.dup, Now.dup)
    BY <1>2 DEF DupOK
  <2>2. \A i \in 0..Len(chosen') : DupOK(hist'[i].dup, Now'.dup)
    BY <1>0, <1>3, <1>5, <1>7, <2>1
  <2>3. DupInv'
    BY <2>2 DEF DupInv
  <2>4. NowInv'
    BY <1>0, <1>7 DEF RefInv, NowInv
  <2> QED
    BY <1>6, <2>3, <2>4
<1>8. CASE /\ TakesEffect(e)
           /\ execute(Now, e) =
                [sm |-> Exec(Now.sm, e.op).sm,
                 dup |-> [Now.dup EXCEPT ![e.clerk] =
                            [SeqId |-> e.seqId, Reply |-> Exec(Now.sm, e.op).reply]]]
  <2>1. /\ DOMAIN Now'.dup = Clerk
        /\ Now'.dup[e.clerk] = [SeqId |-> e.seqId, Reply |-> Exec(Now.sm, e.op).reply]
        /\ \A c \in Clerk \ {e.clerk} : Now'.dup[c] = Now.dup[c]
        /\ e.clerk \in Clerk /\ e.seqId \in Nat
        /\ Now.dup[e.clerk].SeqId < e.seqId
        /\ e.seqId = clerk[e.clerk].seqId
        /\ e.op = clerk[e.clerk].op /\ ~ReadOnly(e.op)
        /\ e.op # None
    <3>1. Now'.dup = [Now.dup EXCEPT ![e.clerk] =
                        [SeqId |-> e.seqId, Reply |-> Exec(Now.sm, e.op).reply]]
      BY <1>0, <1>8
    <3>2. e.clerk \in Clerk /\ e.op # None
      BY <1>0, <1>8, ServiceAssumption, Zenon DEF TakesEffect, Entry
    <3> QED
      <4>1. TakesEffect(e)
        BY <1>8
      <4>2. /\ DOMAIN Now'.dup = Clerk
            /\ Now'.dup[e.clerk] = [SeqId |-> e.seqId, Reply |-> Exec(Now.sm, e.op).reply]
            /\ \A c \in Clerk \ {e.clerk} : Now'.dup[c] = Now.dup[c]
        BY <1>2, <3>1, <3>2
      <4> QED
        BY <3>2, <4>1, <4>2, Zenon DEF TakesEffect
  <2>2. DupOK(Now'.dup, Now'.dup)
    <3>1. ASSUME NEW c \in Clerk
          PROVE  Now'.dup[c].SeqId \in Int
      <4>1. CASE c = e.clerk
        BY <2>1, <4>1
      <4>2. CASE c # e.clerk
        BY <1>2, <2>1, <4>2
      <4> QED
        BY <4>1, <4>2
    <3>2. \A n \in Int : n <= n
      OBVIOUS
    <3> QED
      BY <2>1, <3>1, <3>2, Zenon DEF DupOK
  <2>3. ASSUME NEW i \in 0..Len(chosen)
        PROVE  DupOK(hist[i].dup, Now'.dup)
    <3>1. DupOK(hist[i].dup, Now.dup)
      BY <1>3
    <3>2. ASSUME NEW c \in Clerk
          PROVE  /\ hist[i].dup[c].SeqId \in Int
                 /\ hist[i].dup[c].SeqId <= Now'.dup[c].SeqId
                 /\ hist[i].dup[c].SeqId = Now'.dup[c].SeqId => hist[i].dup[c] = Now'.dup[c]
      <4>1. CASE c = e.clerk
        <5>1. Now'.dup[c].SeqId = e.seqId /\ Now.dup[c].SeqId < e.seqId /\ e.seqId \in Nat
          BY <2>1, <4>1
        <5>2. /\ hist[i].dup[c].SeqId \in Int /\ Now.dup[c].SeqId \in Int
              /\ hist[i].dup[c].SeqId <= Now.dup[c].SeqId
          BY <1>2, <3>1 DEF DupOK
        <5>3. hist[i].dup[c].SeqId < e.seqId
          BY <5>1, <5>2
        <5> QED
          BY <5>1, <5>2, <5>3
      <4>2. CASE c # e.clerk
        BY <2>1, <3>1, <4>2, Zenon DEF DupOK
      <4> QED
        BY <4>1, <4>2
    <3> QED
      BY <3>1, <3>2 DEF DupOK
  <2>4. \A i \in 0..Len(chosen') : DupOK(hist'[i].dup, Now'.dup)
    BY <1>5, <2>2, <2>3
  <2>5. DupInv'
    BY <2>4 DEF DupInv
  <2>6. NowInv'
    <3> SUFFICES ASSUME NEW c \in Clerk
                 PROVE  /\ Now'.dup[c].SeqId \in {clerk[c].seqId - 1, clerk[c].seqId}
                        /\ Now'.dup[c].SeqId = clerk[c].seqId =>
                             clerk[c].op # None /\ ~ReadOnly(clerk[c].op)
      BY <1>0, Zenon DEF NowInv
    <3>1. CASE c = e.clerk
      <4>1. Now'.dup[c].SeqId = clerk[c].seqId
        BY <2>1, <3>1
      <4>2. clerk[c].op # None /\ ~ReadOnly(clerk[c].op)
        BY <2>1, <3>1
      <4> QED
        BY <4>1, <4>2
    <3>2. CASE c # e.clerk
      BY <2>1, <3>2, Zenon DEF RefInv, NowInv
    <3> QED
      BY <3>1, <3>2
  <2> QED
    BY <1>6, <2>5, <2>6
<1> QED
  BY <1>0, <1>7, <1>8, CommitCases

\* Commit.
LEMMA CommitRef ==
  ASSUME RefInv, NEW l \in Server, Commit(l)
  PROVE  RefInv'
<1>1. IndInv'
  BY CommitInv DEF RefInv
<1> QED
  BY <1>1, CommitLogs, CommitTables DEF RefInv

-----------------------------------------------------------------------------
(* The clerks. *)

\* The entries of the logs are entries, and handlers are handlers.
LEMMA KnownTypes ==
  ASSUME IndInv
  PROVE  /\ \A j \in 1..Len(chosen) : chosen[j] \in Entry
         /\ \A s \in Server : \A j \in 1..Len(raft[s].log) : raft[s].log[j] \in Entry
         /\ \A h \in handlers : h \in Handler
  BY RaftTypes DEF IndInv, TypeInv

\* The numbers of the writes, when a clerk or a handler moves.
LEMMA SeqStep ==
  ASSUME IndInv, SeqInv, UNCHANGED <<chosen, raft>>,
         \A h \in handlers' : h \in handlers \/ WriteOK(h)',
         \A e \in Entry \cup Handler : WriteOK(e) => WriteOK(e)'
  PROVE  SeqInv'
<1>1. \A j \in 1..Len(chosen) : WriteOK(chosen[j])'
  <2> SUFFICES ASSUME NEW j \in 1..Len(chosen) PROVE WriteOK(chosen[j])'
    OBVIOUS
  <2>1. \A e \in Entry : e = chosen[j] => WriteOK(e)'
    BY DEF SeqInv
  <2> QED
    BY <2>1, KnownTypes DEF WriteOK
<1>2. ASSUME NEW s \in Server, NEW j \in 1..Len(raft[s].log)
      PROVE  WriteOK(raft[s].log[j])'
  <2>1. \A e \in Entry : e = raft[s].log[j] => WriteOK(e)'
    BY DEF SeqInv
  <2> QED
    BY <2>1, KnownTypes, Zenon DEF WriteOK
<1>3. ASSUME NEW h \in handlers'
      PROVE  WriteOK(h)'
  BY KnownTypes DEF SeqInv
<1> QED
  BY <1>1, <1>2, <1>3 DEF SeqInv

\* A new call: of all handlers, only its own may answer the clerk.
LEMMA CallStep ==
  ASSUME RefInv, NEW c \in Clerk, NEW g,
         UNCHANGED <<term, chosen, hist, raft, chans>>,
         calls' = calls + 1, handlers' = handlers \cup {g},
         g.n = calls + 1, g.clerk = c, g.pc = "arrive",
         clerk'[c].n = calls + 1, clerk'[c].op = g.op, clerk'[c].seqId = g.seqId,
         clerk'[c].reply = None,
         \A d \in Clerk \ {c} : clerk'[d] = clerk[d]
  PROVE  LogInv' /\ HandlerInv' /\ WaitInv' /\ DupInv' /\ ReplyInv'
<1>1. calls \in Nat /\ \A h \in handlers : h.clerk \in Clerk /\ h.n \in 1..calls
  BY KnownTypes, Zenon DEF Handler, RefInv, HandlerInv, IndInv, TypeInv
<1>2. LogInv' /\ DupInv'
  BY LogsKept, DupsKept, Zenon DEF RefInv
<1>3. HandlerInv'
  <2>1. \A h \in handlers' : h.n \in 1..calls'
    BY <1>1
  <2>2. ASSUME NEW h \in handlers', NEW f \in handlers', h.n = f.n
        PROVE  h = f
    BY <1>1, <2>2 DEF RefInv, HandlerInv
  <2>3. ASSUME NEW h \in handlers', clerk'[h.clerk].n = h.n, h.pc # "remove"
        PROVE  /\ clerk'[h.clerk].op = h.op
               /\ clerk'[h.clerk].seqId = h.seqId
               /\ clerk'[h.clerk].reply = None
    <3>1. CASE h = g
      BY <3>1
    <3>2. CASE h \in handlers
      <4>1. h.clerk # c
        BY <1>1, <2>3, <3>2
      <4> QED
        BY <1>1, <2>3, <3>2, <4>1 DEF RefInv, HandlerInv
    <3> QED
      BY <3>1, <3>2
  <2> QED
    BY <2>1, <2>2, <2>3 DEF HandlerInv
<1>4. WaitInv'
  <2> SUFFICES ASSUME NEW h \in handlers', waits(h)' PROVE WaitOK(h)'
    BY Zenon DEF WaitInv
  <2>1. h \in handlers
    BY DEF waits
  <2>2. h.clerk # c
    BY <1>1, <2>1 DEF waits
  <2>3. clerk'[h.clerk] = clerk[h.clerk]
    BY <1>1, <2>1, <2>2
  <2>4. WaitOK(h)
    BY <2>1, <2>3 DEF waits, RefInv, WaitInv
  <2> QED
    BY <2>3, <2>4, Zenon DEF WaitOK, Leads
<1>5. ReplyInv'
  <2> SUFFICES ASSUME NEW d \in Clerk, clerk'[d].reply \notin NoAnswer
               PROVE  clerk'[d].reply \in Seen(d)'
    BY DEF ReplyInv, NoAnswer, ErrWrongLeader, ErrTimeout
  <2>1. d # c
    BY DEF NoAnswer
  <2>2. Seen(d)' = Seen(d)
    BY <2>1, SeenKept
  <2> QED
    BY <2>1, <2>2 DEF RefInv, ReplyInv
<1> QED
  BY <1>2, <1>3, <1>4, <1>5

\* Invoke: nothing with the number of the new operation is under way.
LEMMA InvokeRef ==
  ASSUME RefInv, NEW c \in Clerk, NEW op \in Op, Invoke(c, op)
  PROVE  RefInv'
<1> DEFINE g == call(c, calls + 1, clerk[c].leaderId, clerk[c].seqId, op)
<1>0. /\ UNCHANGED <<term, chosen, hist, raft, srv, chans>>
      /\ calls' = calls + 1
      /\ handlers' = handlers \cup {g}
      /\ clerk[c].op = None
  BY DEF Invoke, agreed
<1>1. IndInv'
  BY InvokeInv DEF RefInv
<1>2. IndInv
  BY DEF RefInv
<1>3. /\ clerk'[c].op = op /\ clerk'[c].n = calls + 1 /\ clerk'[c].seqId = clerk[c].seqId
      /\ clerk'[c].reply = None
      /\ \A d \in Clerk \ {c} : clerk'[d] = clerk[d]
  BY <1>2 DEF Invoke, IndInv, ClerkInv
<1>4. /\ g.n = calls + 1 /\ g.clerk = c /\ g.pc = "arrive" /\ g.op = op
      /\ g.seqId = clerk[c].seqId
  BY DEF call
<1> HIDE DEF g
<1>5. LogInv' /\ HandlerInv' /\ WaitInv' /\ DupInv' /\ ReplyInv'
  BY <1>0, <1>3, <1>4, CallStep
<1>6. SeqInv'
  <2>1. \A h \in handlers' : h \in handlers \/ WriteOK(h)'
    BY <1>0, <1>3, <1>4 DEF WriteOK
  <2>2. ASSUME NEW e \in Entry \cup Handler, WriteOK(e)
        PROVE  WriteOK(e)'
    <3>1. e.op # None /\ (~ReadOnly(e.op) => e.clerk \in Clerk)
      BY ServiceAssumption DEF Entry, Handler
    <3> QED
      BY <1>0, <1>3, <2>2, <3>1 DEF WriteOK
  <2> QED
    BY <1>0, <1>2, <2>1, <2>2, SeqStep DEF RefInv
<1>7. NowInv'
  BY <1>0, <1>3, Zenon DEF RefInv, NowInv, Now
<1> QED
  BY <1>1, <1>5, <1>6, <1>7 DEF RefInv

\* Retry: the same operation and number, under a new call.
LEMMA RetryRef ==
  ASSUME RefInv, NEW c \in Clerk, Retry(c)
  PROVE  RefInv'
<1> DEFINE g == call(c, calls + 1, (clerk[c].leaderId + 1) % N, clerk[c].seqId, clerk[c].op)
<1>0. /\ UNCHANGED <<term, chosen, hist, raft, srv, chans>>
      /\ calls' = calls + 1
      /\ handlers' = handlers \cup {g}
  BY DEF Retry, agreed
<1>1. IndInv'
  BY RetryInv DEF RefInv
<1>2. IndInv
  BY DEF RefInv
<1>3. /\ clerk'[c].op = clerk[c].op /\ clerk'[c].n = calls + 1
      /\ clerk'[c].seqId = clerk[c].seqId
      /\ clerk'[c].reply = None
      /\ \A d \in Clerk \ {c} : clerk'[d] = clerk[d]
  BY <1>2 DEF Retry, IndInv, ClerkInv
<1>4. /\ g.n = calls + 1 /\ g.clerk = c /\ g.pc = "arrive" /\ g.op = clerk[c].op
      /\ g.seqId = clerk[c].seqId
  BY Zenon DEF call
<1> HIDE DEF g
<1>5. LogInv' /\ HandlerInv' /\ WaitInv' /\ DupInv' /\ ReplyInv'
  BY <1>0, <1>3, <1>4, CallStep, Zenon
<1>6. SeqInv'
  <2>1. \A h \in handlers' : h \in handlers \/ WriteOK(h)'
    BY <1>0, <1>3, <1>4 DEF WriteOK
  <2>2. ASSUME NEW e \in Entry \cup Handler, WriteOK(e)
        PROVE  WriteOK(e)'
    <3>1. ~ReadOnly(e.op) => e.clerk \in Clerk
      BY DEF Entry, Handler
    <3> QED
      BY <1>3, <2>2, <3>1 DEF WriteOK
  <2> QED
    BY <1>0, <1>2, <2>1, <2>2, SeqStep DEF RefInv
<1>7. NowInv'
  BY <1>0, <1>3, NowKept, Zenon DEF RefInv
<1> QED
  BY <1>1, <1>5, <1>6, <1>7 DEF RefInv

\* Return: the number moves on once the write is executed, and only then.
LEMMA ReturnRef ==
  ASSUME RefInv, NEW c \in Clerk, Return(c)
  PROVE  RefInv'
<1>0. /\ UNCHANGED <<term, chosen, hist, raft, srv, chans, handlers, calls>>
      /\ clerk[c].op # None
      /\ clerk[c].reply \notin NoAnswer
  BY DEF Return, agreed, bounds, NoAnswer
<1>1. IndInv'
  BY ReturnInv DEF RefInv
<1>2. IndInv /\ clerk[c].seqId \in Nat
  BY Zenon DEF RefInv, IndInv, ClerkInv
<1>3. /\ clerk'[c].op = None /\ clerk'[c].seqId = nextSeqId(clerk[c])
      /\ clerk'[c].reply = None
      /\ clerk'[c].n = clerk[c].n /\ clerk'[c].since = clerk[c].since
      /\ \A d \in Clerk \ {c} : clerk'[d] = clerk[d]
  BY <1>2 DEF Return, IndInv, ClerkInv
<1>4. \A h \in handlers : h.clerk \in Clerk
  BY <1>2, KnownTypes, Zenon DEF Handler
<1>5. clerk[c].reply \in Seen(c)
  BY <1>0 DEF RefInv, ReplyInv
<1>6. LogInv' /\ DupInv'
  BY <1>0, LogsKept, DupsKept DEF RefInv
<1>7. HandlerInv'
  <2>1. ASSUME NEW h \in handlers, clerk'[h.clerk].n = h.n, h.pc # "remove"
        PROVE  h.clerk # c
    BY <1>0, <1>3, <2>1 DEF RefInv, HandlerInv, NoAnswer
  <2> QED
    <3>1. \A h \in handlers : clerk'[h.clerk].n = clerk[h.clerk].n
      BY <1>3, <1>4
    <3>2. \A h \in handlers : clerk'[h.clerk].n = h.n /\ h.pc # "remove" =>
            /\ clerk'[h.clerk].op = h.op
            /\ clerk'[h.clerk].seqId = h.seqId
            /\ clerk'[h.clerk].reply = None
      <4> SUFFICES ASSUME NEW h \in handlers, clerk'[h.clerk].n = h.n, h.pc # "remove"
                   PROVE  /\ clerk'[h.clerk].op = h.op
                          /\ clerk'[h.clerk].seqId = h.seqId
                          /\ clerk'[h.clerk].reply = None
        OBVIOUS
      <4>1. clerk'[h.clerk] = clerk[h.clerk]
        BY <1>3, <1>4, <2>1
      <4> QED
        BY <4>1 DEF RefInv, HandlerInv
    <3> QED
      BY <1>0, <3>2 DEF RefInv, HandlerInv
<1>8. WaitInv'
  <2> SUFFICES ASSUME NEW h \in handlers, waits(h)' PROVE WaitOK(h)'
    BY <1>0 DEF WaitInv
  <2>1. clerk'[h.clerk].n = clerk[h.clerk].n /\ clerk'[h.clerk].since = clerk[h.clerk].since
    BY <1>3, <1>4
  <2>2. WaitOK(h)
    BY <2>1, Zenon DEF waits, RefInv, WaitInv
  <2> QED
    BY <1>0, <2>1, <2>2, Zenon DEF WaitOK, Leads
<1>9. SeqInv'
  <2>1. ASSUME NEW e \in Entry \cup Handler, WriteOK(e)
        PROVE  WriteOK(e)'
    <3>1. (~ReadOnly(e.op) => e.clerk \in Clerk) /\ e.seqId \in Nat
      BY DEF Entry, Handler
    <3> QED
      BY <1>2, <1>3, <2>1, <3>1 DEF WriteOK, nextSeqId
  <2> QED
    BY <1>0, <1>2, <2>1, SeqStep DEF RefInv
<1>10. NowInv'
  <2>1. /\ Now.dup[c].SeqId \in {clerk[c].seqId - 1, clerk[c].seqId}
        /\ Now.dup[c].SeqId = clerk[c].seqId => ~ReadOnly(clerk[c].op)
    BY DEF RefInv, NowInv
  <2>2. Now.dup[c].SeqId = nextSeqId(clerk[c]) - 1
    <3>1. CASE ReadOnly(clerk[c].op)
      BY <1>2, <2>1, <3>1 DEF nextSeqId
    <3>2. CASE ~ReadOnly(clerk[c].op)
      <4>1. clerk[c].seqId <= Now.dup[c].SeqId
        BY <1>0, <1>5, <3>2 DEF Seen, requestDuplicate
      <4> QED
        BY <1>2, <2>1, <3>2, <4>1 DEF nextSeqId
    <3> QED
      BY <3>1, <3>2
  <2>3. nextSeqId(clerk[c]) \in Nat
    BY <1>2 DEF nextSeqId
  <2>4. Now' = Now
    BY <1>0 DEF Now
  <2> QED
    <3> SUFFICES ASSUME NEW d \in Clerk
                 PROVE  /\ Now.dup[d].SeqId \in {clerk'[d].seqId - 1, clerk'[d].seqId}
                        /\ Now.dup[d].SeqId = clerk'[d].seqId =>
                             clerk'[d].op # None /\ ~ReadOnly(clerk'[d].op)
      BY <2>4 DEF NowInv
    <3>1. CASE d = c
      <4>1. Now.dup[c].SeqId = clerk'[c].seqId - 1 /\ clerk'[c].seqId \in Nat
        BY <1>3, <2>2, <2>3
      <4> QED
        BY <3>1, <4>1
    <3>2. CASE d # c
      BY <1>3, <3>2 DEF RefInv, NowInv
    <3> QED
      BY <3>1, <3>2
<1>11. ReplyInv'
  <2> SUFFICES ASSUME NEW d \in Clerk, clerk'[d].reply \notin NoAnswer
               PROVE  clerk'[d].reply \in Seen(d)'
    BY DEF ReplyInv, NoAnswer, ErrWrongLeader, ErrTimeout
  <2>1. d # c
    BY <1>3 DEF NoAnswer
  <2>2. Seen(d)' = Seen(d)
    BY <1>0, <1>3, <2>1, SeenKept, Zenon
  <2> QED
    BY <1>3, <2>1, <2>2 DEF RefInv, ReplyInv
<1> QED
  BY <1>1, <1>6, <1>7, <1>8, <1>9, <1>10, <1>11 DEF RefInv

-----------------------------------------------------------------------------
(* The handlers. *)

\* A reply reaches the clerk of its call, if the clerk still waits for it.
LEMMA RespondFacts ==
  ASSUME ClerkInv, NEW h \in Handler, NEW reply, Respond(h, reply)
  PROVE  /\ \A c \in Clerk : /\ clerk'[c].op = clerk[c].op
                             /\ clerk'[c].seqId = clerk[c].seqId
                             /\ clerk'[c].since = clerk[c].since
                             /\ clerk'[c].n = clerk[c].n
                             /\ clerk'[c].ret = clerk[c].ret
         /\ \A c \in Clerk : \/ clerk'[c].reply = clerk[c].reply
                             \/ c = h.clerk /\ clerk[c].n = h.n /\ clerk'[c].reply = reply
<1>1. CASE clerk[h.clerk].n = h.n
  <2>1. clerk' = [clerk EXCEPT ![h.clerk].reply = reply]
    BY <1>1 DEF Respond
  <2> QED
    BY <1>1, <2>1 DEF ClerkInv
<1>2. CASE clerk[h.clerk].n # h.n
  BY <1>2 DEF Respond
<1> QED
  BY <1>1, <1>2, Zenon

\* A handler answers, and does not answer again.
LEMMA AnswerStep ==
  ASSUME RefInv, IndInv', NEW h \in handlers, NEW g, NEW reply,
         UNCHANGED <<term, chosen, hist, raft, calls>>,
         Respond(h, reply),
         clerk[h.clerk].n = h.n /\ reply \notin NoAnswer => reply \in Seen(h.clerk),
         handlers' \in SUBSET ((handlers \ {h}) \cup {g}),
         g.pc = "remove", g.n = h.n, g.clerk = h.clerk, g.op = h.op, g.seqId = h.seqId,
         \A s \in Server : \A k \in chans'[s] : k.buf # None =>
           \E m \in chans[s] : m.index = k.index /\ m.buf # None
  PROVE  RefInv'
<1>1. IndInv /\ ClerkInv /\ h \in Handler
  BY KnownTypes DEF RefInv, IndInv
<1>2. /\ \A c \in Clerk : /\ clerk'[c].op = clerk[c].op
                          /\ clerk'[c].seqId = clerk[c].seqId
                          /\ clerk'[c].since = clerk[c].since
                          /\ clerk'[c].n = clerk[c].n
      /\ \A c \in Clerk : \/ clerk'[c].reply = clerk[c].reply
                          \/ c = h.clerk /\ clerk[c].n = h.n /\ clerk'[c].reply = reply
  BY <1>1, RespondFacts, Zenon
<1>3. \A x \in handlers : x.clerk \in Clerk /\ x.srv \in Server
  BY <1>1, KnownTypes, Zenon DEF Handler
<1>4. LogInv' /\ DupInv' /\ NowInv'
  BY <1>2, LogsKept, DupsKept, NowKept, Zenon DEF RefInv
<1>5. HandlerInv'
  <2>1. \A x \in handlers' : x.n \in 1..calls'
    BY Zenon DEF RefInv, HandlerInv
  <2>2. ASSUME NEW x \in handlers', NEW y \in handlers', x.n = y.n
        PROVE  x = y
    <3>1. \A a, b \in handlers : a.n = b.n => a = b
      BY Zenon DEF RefInv, HandlerInv
    <3>2. \A a \in handlers' : a = g \/ (a \in handlers /\ a # h)
      BY Zenon
    <3>3. \A a \in handlers : a # h => a.n # g.n
      BY <3>1, Zenon
    <3> QED
      BY <2>2, <3>1, <3>2, <3>3
  <2>3. ASSUME NEW x \in handlers', clerk'[x.clerk].n = x.n, x.pc # "remove"
        PROVE  /\ clerk'[x.clerk].op = x.op
               /\ clerk'[x.clerk].seqId = x.seqId
               /\ clerk'[x.clerk].reply = None
    <3>1. x \in handlers /\ x # h
      BY <2>3, Zenon
    <3>2. x.n # h.n
      BY <3>1, Zenon DEF RefInv, HandlerInv
    <3>3. clerk'[x.clerk].reply = clerk[x.clerk].reply
      BY <1>2, <1>3, <2>3, <3>1, <3>2
    <3> QED
      <4>1. x.clerk \in Clerk /\ clerk[x.clerk].n = x.n
        BY <1>2, <1>3, <2>3, <3>1, Zenon
      <4>2. clerk[x.clerk].op = x.op /\ clerk[x.clerk].seqId = x.seqId /\ clerk[x.clerk].reply = None
        BY <2>3, <3>1, <4>1, Zenon DEF RefInv, HandlerInv
      <4> QED
        BY <1>2, <3>3, <4>1, <4>2, Zenon
  <2> QED
    BY <2>1, <2>2, <2>3, Zenon DEF HandlerInv
<1>6. WaitInv'
  <2> SUFFICES ASSUME NEW x \in handlers', waits(x)' PROVE WaitOK(x)'
    BY DEF WaitInv
  <2>1. x \in handlers
    BY DEF waits
  <2>2. clerk'[x.clerk].n = clerk[x.clerk].n /\ clerk'[x.clerk].since = clerk[x.clerk].since
    BY <1>2, <1>3, <2>1, Zenon
  <2>3. WaitOK(x) /\ x.srv \in Server
    BY <1>3, <2>1, <2>2, Zenon DEF waits, RefInv, WaitInv
  <2> QED
    BY <2>2, <2>3, Zenon DEF WaitOK, Leads
<1>7. SeqInv'
  <2>1. ASSUME NEW e \in Entry \cup Handler, WriteOK(e)
        PROVE  WriteOK(e)'
    <3>1. ~ReadOnly(e.op) => e.clerk \in Clerk
      BY Zenon DEF Entry, Handler
    <3> QED
      BY <1>2, <2>1, <3>1, Zenon DEF WriteOK
  <2>2. WriteOK(g)'
    <3>1. WriteOK(h)
      BY DEF RefInv, SeqInv
    <3> QED
      BY <1>2, <1>3, <3>1, Zenon DEF WriteOK
  <2> QED
    BY <1>1, <2>1, <2>2, SeqStep, Zenon DEF RefInv
<1>8. ReplyInv'
  <2> SUFFICES ASSUME NEW c \in Clerk, clerk'[c].reply \notin NoAnswer
               PROVE  clerk'[c].reply \in Seen(c)'
    BY DEF ReplyInv, NoAnswer, ErrWrongLeader, ErrTimeout
  <2>1. Seen(c)' = Seen(c)
    BY <1>2, SeenKept
  <2> QED
    BY <1>2, <2>1 DEF RefInv, ReplyInv
<1> QED
  BY <1>4, <1>5, <1>6, <1>7, <1>8, Zenon DEF RefInv

\* A handler goes on without an answer.
LEMMA MoveStep ==
  ASSUME RefInv, IndInv', NEW h \in handlers, NEW g,
         UNCHANGED <<term, chosen, hist, raft, calls, clerk>>,
         handlers' \in SUBSET ((handlers \ {h}) \cup {g}),
         g.n = h.n, g.clerk = h.clerk, g.op = h.op, g.seqId = h.seqId,
         g.srv = h.srv, g.index = h.index, g.term = h.term,
         g.pc # "remove" => h.pc # "remove",
         g.pc \in {"channel", "wait"} => h.pc \in {"channel", "wait"},
         \A s \in Server : \A k \in chans'[s] : k.buf # None =>
           \E m \in chans[s] : m.index = k.index /\ m.buf # None
  PROVE  RefInv'
<1>1. IndInv /\ \A x \in handlers : x.clerk \in Clerk /\ x.srv \in Server
  BY KnownTypes DEF RefInv, Handler
<1>2. LogInv' /\ DupInv' /\ NowInv' /\ ReplyInv'
  BY LogsKept, DupsKept, NowKept, RepliesKept DEF RefInv
<1>3. HandlerInv'
  <2>1. \A x \in handlers' : x.n \in 1..calls'
    BY Zenon DEF RefInv, HandlerInv
  <2>2. ASSUME NEW x \in handlers', NEW y \in handlers', x.n = y.n
        PROVE  x = y
    <3>1. \A a, b \in handlers : a.n = b.n => a = b
      BY Zenon DEF RefInv, HandlerInv
    <3>2. \A a \in handlers' : a = g \/ (a \in handlers /\ a # h)
      BY Zenon
    <3>3. \A a \in handlers : a # h => a.n # g.n
      BY <3>1, Zenon
    <3> QED
      BY <2>2, <3>1, <3>2, <3>3
  <2>3. ASSUME NEW x \in handlers', clerk'[x.clerk].n = x.n, x.pc # "remove"
        PROVE  /\ clerk'[x.clerk].op = x.op
               /\ clerk'[x.clerk].seqId = x.seqId
               /\ clerk'[x.clerk].reply = None
    BY <2>3 DEF RefInv, HandlerInv
  <2> QED
    BY <2>1, <2>2, <2>3 DEF HandlerInv
<1>4. WaitInv'
  <2> SUFFICES ASSUME NEW x \in handlers', waits(x)' PROVE WaitOK(x)'
    BY DEF WaitInv
  <2>1. CASE x \in handlers
    <3>1. WaitOK(x) /\ x.srv \in Server
      BY <1>1, <2>1 DEF waits, RefInv, WaitInv
    <3> QED
      BY <3>1, Zenon DEF WaitOK, Leads
  <2>2. CASE x = g
    <3>1. WaitOK(h) /\ h.srv \in Server
      BY <1>1, <2>2 DEF waits, RefInv, WaitInv
    <3>2. entry(g, g.term) = entry(h, h.term)
      BY Zenon DEF entry
    <3> QED
      <4>1. /\ g.srv = h.srv /\ g.index = h.index /\ g.clerk = h.clerk /\ g.term = h.term
            /\ raft' = raft /\ chosen' = chosen
            /\ clerk'[g.clerk].since = clerk[g.clerk].since
        BY Zenon
      <4>2. Leads(g.srv)' => /\ g.index \in 1..Len(raft[g.srv].log)
                            /\ raft[g.srv].log[g.index] = entry(g, g.term)
        BY <3>1, <3>2, <4>1, Zenon DEF WaitOK, Leads
      <4>3. \A k \in chans'[g.srv] :
              k.index = g.index /\ k.buf # None => chosen[g.index] = entry(g, g.term)
        BY <3>1, <3>2, <4>1 DEF WaitOK
      <4>4. g.index \in 1..clerk[g.clerk].since => chosen[g.index].term # g.term
        BY <3>1, <4>1, Zenon DEF WaitOK
      <4>5. WaitOK(g)'
        BY <4>1, <4>2, <4>3, <4>4 DEF WaitOK
      <4> QED
        BY <2>2, <4>5
  <2> QED
    BY <2>1, <2>2
<1>5. SeqInv'
  <2>1. \A e \in Entry \cup Handler : WriteOK(e) => WriteOK(e)'
    BY DEF WriteOK
  <2>2. WriteOK(g)'
    BY Zenon DEF RefInv, SeqInv, WriteOK
  <2> QED
    BY <1>1, <2>1, <2>2, SeqStep, Zenon DEF RefInv
<1> QED
  BY <1>2, <1>3, <1>4, <1>5 DEF RefInv

\* A write that some server has executed is executed in the last table.
LEMMA DupSeen ==
  ASSUME RefInv, NEW c \in Clerk, NEW i \in 0..Len(chosen),
         clerk[c].op # None, ~ReadOnly(clerk[c].op),
         clerk[c].seqId <= hist[i].dup[c].SeqId
  PROVE  hist[i].dup[c].Reply \in Seen(c)
<1>1. /\ clerk[c].seqId \in Nat
      /\ hist[i].dup[c].SeqId \in Int
      /\ hist[i].dup[c].SeqId <= Now.dup[c].SeqId
      /\ hist[i].dup[c].SeqId = Now.dup[c].SeqId => hist[i].dup[c] = Now.dup[c]
      /\ Now.dup[c].SeqId \in {clerk[c].seqId - 1, clerk[c].seqId}
  BY Zenon DEF RefInv, IndInv, ClerkInv, DupInv, DupOK, NowInv
<1>2. hist[i].dup[c] = Now.dup[c] /\ requestDuplicate(Now.dup, c, clerk[c].seqId)
  <2>1. hist[i].dup[c].SeqId = Now.dup[c].SeqId /\ clerk[c].seqId <= Now.dup[c].SeqId
    BY <1>1
  <2> QED
    BY <1>1, <2>1, Zenon DEF requestDuplicate
<1> QED
  BY <1>2, Zenon DEF Seen

\* The reply in the channel of a waiting handler is one its clerk may see.
LEMMA ResultSeen ==
  ASSUME RefInv, NEW h \in handlers, h.pc = "wait", clerk[h.clerk].n = h.n,
         NEW k \in chans[h.srv], k.index = h.index, k.buf # None
  PROVE  k.buf \in Seen(h.clerk)
<1> DEFINE c == h.clerk
           i == h.index
           e == entry(h, h.term)
<1>1. IndInv /\ h \in Handler /\ c \in Clerk /\ h.srv \in Server /\ h.op # None /\ h.seqId \in Nat
  BY KnownTypes, ServiceAssumption DEF RefInv, Handler
<1>2. /\ clerk[c].op = h.op /\ clerk[c].seqId = h.seqId
      /\ clerk[c].since \in 0..Len(chosen) /\ Len(chosen) \in Nat
  BY <1>1, RaftTypes, Zenon DEF RefInv, HandlerInv, IndInv, ClerkInv
<1>3. i \in 1..Len(chosen) /\ k.buf = replyTo(hist[i - 1], chosen[i])
  <2>1. ChanOK(k, raft[h.srv].applied)
    BY <1>1 DEF IndInv, ChanInv
  <2>2. i \in 1..raft[h.srv].applied /\ k.buf = replyTo(hist[i - 1], chosen[i])
    BY <2>1 DEF ChanOK
  <2>3. raft[h.srv].applied \in 0..Len(chosen)
    BY <1>1, RaftTypes
  <2> QED
    BY <1>2, <2>2, <2>3
<1>4. chosen[i] = e /\ (i \in 1..clerk[c].since => chosen[i].term # h.term)
  BY DEF RefInv, WaitInv, WaitOK, waits
<1>5. e.op = h.op /\ e.term = h.term
  BY Zenon DEF entry
<1>6. CASE ReadOnly(h.op)
  <2>1. k.buf = Exec(hist[i - 1].sm, h.op).reply
    BY <1>3, <1>4, <1>5, <1>6, Zenon DEF replyTo
  <2>2. i - 1 \in clerk[c].since..Len(chosen)
    BY <1>2, <1>3, <1>4, <1>5
  <2>3. Seen(c) = {Exec(hist[j].sm, h.op).reply : j \in clerk[c].since..Len(chosen)}
    BY <1>1, <1>2, <1>6, Zenon DEF Seen
  <2> QED
    BY <2>1, <2>2, <2>3, Zenon
<1>7. CASE ~ReadOnly(h.op)
  <2>1. e.clerk = c /\ e.seqId = h.seqId
    BY <1>7 DEF entry
  <2>2. i - 1 \in 0..Len(chosen) /\ i \in 0..Len(chosen)
    BY <1>2, <1>3
  <2>3. CASE requestDuplicate(hist[i - 1].dup, c, h.seqId)
    <3>1. k.buf = hist[i - 1].dup[c].Reply
      BY <1>3, <1>4, <1>5, <1>7, <2>1, <2>3, Zenon DEF replyTo
    <3>2. h.seqId <= hist[i - 1].dup[c].SeqId
      BY <2>3 DEF requestDuplicate
    <3> QED
      BY <1>1, <1>2, <1>7, <2>2, <3>1, <3>2, DupSeen, Zenon
  <2>4. CASE ~requestDuplicate(hist[i - 1].dup, c, h.seqId)
    <3>1. k.buf = Exec(hist[i - 1].sm, h.op).reply
      BY <1>3, <1>4, <1>5, <1>7, <2>1, <2>4, Zenon DEF replyTo
    <3>2. hist[i] = execute(hist[i - 1], e)
      BY <1>1, <1>3, <1>4, Zenon DEF IndInv, HistInv
    <3>3. execute(hist[i - 1], e) =
            [sm |-> Exec(hist[i - 1].sm, h.op).sm,
             dup |-> [hist[i - 1].dup EXCEPT ![c] =
                        [SeqId |-> h.seqId, Reply |-> Exec(hist[i - 1].sm, h.op).reply]]]
      BY <1>5, <1>7, <2>1, <2>4, Zenon DEF execute
    <3>4. DOMAIN hist[i - 1].dup = Clerk
      BY <2>2, Zenon DEF RefInv, DupInv, DupOK
    <3>5. PICK d : d = hist[i - 1].dup
      BY Zenon
    <3>6. PICK x : x = Exec(hist[i - 1].sm, h.op)
      BY Zenon
    <3>7. PICK q : q = [SeqId |-> h.seqId, Reply |-> x.reply]
      BY Zenon
    <3>8. hist[i] = [sm |-> x.sm, dup |-> [d EXCEPT ![c] = q]]
      BY <3>2, <3>3, <3>5, <3>6, <3>7, Zenon
    <3>9. hist[i].dup = [d EXCEPT ![c] = q]
      BY <3>8
    <3>10. hist[i].dup[c] = q
      BY <1>1, <3>4, <3>5, <3>9, Zenon
    <3>11. q.SeqId = h.seqId /\ q.Reply = k.buf
      BY <3>1, <3>6, <3>7, Zenon
    <3>12. clerk[c].seqId <= hist[i].dup[c].SeqId
      BY <1>1, <1>2, <3>10, <3>11
    <3>13. hist[i].dup[c].Reply \in Seen(c)
      BY <1>1, <1>2, <1>7, <2>2, <3>12, DupSeen, Zenon
    <3> QED
      BY <3>10, <3>11, <3>13, Zenon
  <2> QED
    BY <2>3, <2>4
<1> QED
  BY <1>6, <1>7

\* A leader appends the entry of a handler: the handler waits for an index that no
\* committed entry of the term has, and whose channel is empty.
LEMMA StartLead ==
  ASSUME RefInv, IndInv', NEW h \in handlers, h.pc \in {"arrive", "start"}, Leads(h.srv),
         StartAgreement(h), UNCHANGED <<term, chosen, hist, chans, calls>>
  PROVE  RefInv'
<1> DEFINE s == h.srv
           e == entry(h, raft[s].lead)
           g == [h EXCEPT !.pc = "channel", !.index = Len(raft[s].log) + 1, !.term = raft[s].lead]
<1>0. /\ raft' = [raft EXCEPT ![s].log = Append(raft[s].log, e)]
      /\ handlers' = (handlers \ {h}) \cup {g}
      /\ UNCHANGED clerk
  BY DEF StartAgreement, Start, Go
<1>1. IndInv /\ LogInv /\ h \in Handler /\ s \in Server /\ h.clerk \in Clerk
  BY KnownTypes DEF RefInv, Handler
<1>2. /\ raft[s].log \in Seq(Entry) /\ Len(raft[s].log) \in Nat /\ raft[s].lead \in Nat
      /\ e \in Entry /\ e.term = raft[s].lead
  BY <1>1, RaftTypes, EntryType, Zenon DEF entry
<1> HIDE DEF e
<1>3. /\ Len(raft'[s].log) = Len(raft[s].log) + 1
      /\ \A j \in 1..Len(raft[s].log) : raft'[s].log[j] = raft[s].log[j]
      /\ raft'[s].log[Len(raft[s].log) + 1] = e
      /\ raft'[s].lead = raft[s].lead /\ raft'[s].applied = raft[s].applied
      /\ \A x \in Server \ {s} : raft'[x] = raft[x]
  <2>1. /\ raft'[s].log = Append(raft[s].log, e)
        /\ raft'[s].lead = raft[s].lead /\ raft'[s].applied = raft[s].applied
        /\ \A x \in Server \ {s} : raft'[x] = raft[x]
    BY <1>0, <1>1, RaftTypes
  <2> QED
    <3>1. /\ Len(Append(raft[s].log, e)) = Len(raft[s].log) + 1
          /\ \A j \in 1..Len(raft[s].log) : Append(raft[s].log, e)[j] = raft[s].log[j]
          /\ Append(raft[s].log, e)[Len(raft[s].log) + 1] = e
      BY <1>2, AppendFacts
    <3> QED
      BY <2>1, <3>1, Zenon
<1>n. Len(raft'[s].log) = Len(raft[s].log) + 1 /\ Len(raft[s].log) \in Nat
  BY <1>2, <1>3, Zenon
<1>l. \A x \in Server : raft'[x].lead = raft[x].lead
  BY <1>3
<1>4. /\ g.n = h.n /\ g.clerk = h.clerk /\ g.op = h.op /\ g.seqId = h.seqId /\ g.srv = s
      /\ g.pc = "channel" /\ g.index = Len(raft[s].log) + 1 /\ g.term = raft[s].lead
  BY <1>1 DEF Handler
<1>5. entry(g, g.term) = e
  BY <1>4 DEF entry, e
<1> HIDE DEF g
<1>6. \A j \in 1..Len(raft'[s].log) : j \in 1..Len(raft[s].log) \/ j = Len(raft[s].log) + 1
  <2>1. PICK a : a = Len(raft[s].log)
    BY Zenon
  <2>2. PICK b : b = Len(raft'[s].log)
    BY Zenon
  <2>3. a \in Nat /\ b = a + 1
    BY <1>n, <2>1, <2>2, Zenon
  <2>4. \A j \in 1..b : j \in 1..a \/ j = a + 1
    BY <2>3
  <2> QED
    BY <2>1, <2>2, <2>4, Zenon
<1>7. LogInv'
  <2>1. LogsBounded'
    <3>1. \A x \in Server : /\ raft[x].lead <= term /\ raft[x].applied <= Len(raft[x].log)
                            /\ \A j \in 1..Len(raft[x].log) : raft[x].log[j].term <= term
      BY <1>1 DEF LogInv, LogsBounded
    <3>2. ASSUME NEW x \in Server
          PROVE  /\ raft'[x].lead <= term /\ raft'[x].applied <= Len(raft'[x].log)
                 /\ \A j \in 1..Len(raft'[x].log) : raft'[x].log[j].term <= term
      <4>1. CASE x = s
        <5>1. raft[s].applied \in Nat
          BY <1>1, RaftTypes, Zenon
        <5>2. raft'[s].applied <= Len(raft'[s].log)
          <6>1. PICK a, b, n : a = raft[s].applied /\ b = Len(raft[s].log) /\ n = Len(raft'[s].log)
            BY Zenon
          <6>2. a \in Nat /\ b \in Nat /\ a <= b /\ n = b + 1
            BY <1>1, <1>n, <3>1, <5>1, <6>1, Zenon
          <6>3. a <= n
            BY <6>2
          <6> QED
            BY <1>3, <6>1, <6>3, Zenon
        <5>3. \A j \in 1..Len(raft'[s].log) : raft'[s].log[j].term <= term
          BY <1>1, <1>2, <1>3, <1>6, <3>1, Zenon
        <5> QED
          BY <1>3, <3>1, <4>1, <5>2, <5>3, Zenon
      <4>2. CASE x # s
        BY <1>3, <3>1, <4>2, Zenon
      <4> QED
        BY <4>1, <4>2, Zenon
    <3>3. \A j \in 1..Len(chosen) : chosen[j].term <= term
      BY <1>1, Zenon DEF LogInv, LogsBounded
    <3> QED
      BY <3>2, <3>3 DEF LogsBounded
  <2>2. LeaderComplete'
    <3> SUFFICES ASSUME NEW x \in Server, raft'[x].lead # 0, raft'[x].lead = term
                 PROVE  /\ Len(chosen) <= Len(raft'[x].log)
                        /\ \A j \in 1..Len(chosen) : raft'[x].log[j] = chosen[j]
      BY DEF LeaderComplete, Leads
    <3>1. raft'[x].lead = raft[x].lead
      BY <1>3
    <3>2. /\ Len(chosen) <= Len(raft[x].log) /\ Len(chosen) \in Nat
          /\ \A j \in 1..Len(chosen) : raft[x].log[j] = chosen[j]
      BY <1>1, <3>1, RaftTypes, Zenon DEF LogInv, LeaderComplete, Leads
    <3>3. CASE x = s
      <4>1. Len(chosen) <= Len(raft'[s].log) /\ \A j \in 1..Len(chosen) : j \in 1..Len(raft[s].log)
        BY <1>2, <1>3, <3>2, <3>3
      <4>2. \A j \in 1..Len(chosen) : raft'[s].log[j] = chosen[j]
        BY <1>3, <3>2, <3>3, <4>1, Zenon
      <4> QED
        BY <3>3, <4>1, <4>2
    <3>4. CASE x # s
      BY <1>3, <3>2, <3>4
    <3> QED
      BY <3>3, <3>4, Zenon
  <2>3. OneLeader'
    BY <1>1, <1>l DEF LogInv, OneLeader, Leads
  <2>4. TermCreated'
    <3> SUFFICES ASSUME NEW l \in Server, raft[l].lead # 0
                 PROVE  /\ \A j \in 1..Len(chosen) :
                             chosen[j].term = raft[l].lead => j <= Len(raft'[l].log)
                        /\ \A x \in Server : \A j \in 1..Len(raft'[x].log) :
                             raft'[x].log[j].term = raft[l].lead => j <= Len(raft'[l].log)
      BY <1>l DEF TermCreated, Leads
    <3>1. Len(raft[l].log) <= Len(raft'[l].log) /\ Len(raft[l].log) \in Nat /\ Len(raft'[l].log) \in Nat
      <4>1. CASE l = s
        BY <1>n, <4>1
      <4>2. CASE l # s
        <5>1. raft'[l] = raft[l] /\ Len(raft[l].log) \in Nat
          BY <1>1, <1>3, <4>2, RaftTypes, Zenon
        <5> QED
          BY <5>1
      <4> QED
        BY <4>1, <4>2
    <3>2. \A j \in 1..Len(chosen) : chosen[j].term = raft[l].lead => j <= Len(raft'[l].log)
      BY <1>1, <3>1 DEF LogInv, TermCreated, Leads
    <3>3. ASSUME NEW x \in Server, NEW j \in 1..Len(raft'[x].log),
                 raft'[x].log[j].term = raft[l].lead
          PROVE  j <= Len(raft'[l].log)
      <4>1. CASE x # s \/ j \in 1..Len(raft[s].log)
        <5>1. j \in 1..Len(raft[x].log) /\ raft[x].log[j].term = raft[l].lead
          BY <1>3, <3>3, <4>1, Zenon
        <5>2. j <= Len(raft[l].log)
          BY <1>1, <5>1, Zenon DEF LogInv, TermCreated, Leads
        <5> QED
          BY <3>1, <5>2
      <4>2. CASE x = s /\ j = Len(raft[s].log) + 1
        <5>1. raft[l].lead = raft[s].lead
          BY <1>2, <1>3, <3>3, <4>2, Zenon
        <5>2. s = l
          BY <1>1, <5>1, Zenon DEF LogInv, OneLeader, Leads
        <5> QED
          BY <1>2, <1>3, <4>2, <5>2
      <4> QED
        BY <1>6, <3>3, <4>1, <4>2
    <3> QED
      BY <3>2, <3>3, Zenon
  <2> QED
    BY <2>1, <2>2, <2>3, <2>4 DEF LogInv
<1>8. HandlerInv'
  <2>1. \A x \in handlers' : x.n \in 1..calls'
    BY <1>0, <1>4 DEF RefInv, HandlerInv
  <2>2. ASSUME NEW x \in handlers', NEW y \in handlers', x.n = y.n
        PROVE  x = y
    BY <1>0, <1>4, <2>2 DEF RefInv, HandlerInv
  <2>3. ASSUME NEW x \in handlers', clerk'[x.clerk].n = x.n, x.pc # "remove"
        PROVE  /\ clerk'[x.clerk].op = x.op
               /\ clerk'[x.clerk].seqId = x.seqId
               /\ clerk'[x.clerk].reply = None
    BY <1>0, <1>4, <2>3 DEF RefInv, HandlerInv
  <2> QED
    BY <2>1, <2>2, <2>3 DEF HandlerInv
<1>9. WaitInv'
  <2> SUFFICES ASSUME NEW x \in handlers', waits(x)' PROVE WaitOK(x)'
    BY DEF WaitInv
  <2>1. CASE x \in handlers
    <3>1. WaitOK(x) /\ x.srv \in Server
      BY <1>0, <1>1, <2>1, KnownTypes DEF waits, RefInv, WaitInv, Handler
    <3>2. Leads(x.srv)' => /\ x.index \in 1..Len(raft'[x.srv].log)
                           /\ raft'[x.srv].log[x.index] = entry(x, x.term)
      <4>1. CASE x.srv = s
        <5>1. x.index \in 1..Len(raft[s].log) /\ raft[s].log[x.index] = entry(x, x.term)
          BY <3>1, <4>1, Zenon DEF WaitOK
        <5> QED
          <6>1. x.index \in 1..Len(raft'[s].log)
            BY <1>n, <5>1
          <6>2. raft'[s].log[x.index] = entry(x, x.term)
            BY <1>3, <5>1, Zenon
          <6> QED
            BY <4>1, <6>1, <6>2
      <4>2. CASE x.srv # s
        <5>1. raft'[x.srv] = raft[x.srv]
          BY <1>3, <3>1, <4>2, Zenon
        <5> QED
          BY <3>1, <5>1, Zenon DEF WaitOK, Leads
      <4> QED
        BY <4>1, <4>2, Zenon
    <3> QED
      BY <1>0, <3>1, <3>2 DEF WaitOK
  <2>2. CASE x = g
    <3>1. /\ g.index \in 1..Len(raft'[s].log)
          /\ raft'[s].log[g.index] = entry(g, g.term)
      <4>1. Len(raft[s].log) + 1 \in 1..Len(raft'[s].log)
        BY <1>n
      <4> QED
        BY <1>3, <1>4, <1>5, <4>1, Zenon
    <3>2. ASSUME NEW k \in chans[s], k.index = g.index
          PROVE  k.buf = None
      <4>1. ChanOK(k, raft[s].applied) /\ raft[s].applied <= Len(raft[s].log)
        BY <1>1, Zenon DEF IndInv, ChanInv, LogInv, LogsBounded
      <4> QED
        <5>1. raft[s].applied \in Nat
          BY <1>1, RaftTypes, Zenon
        <5>2. g.index \notin 1..raft[s].applied
          BY <1>n, <1>4, <4>1, <5>1
        <5> QED
          BY <3>2, <4>1, <5>2, Zenon DEF ChanOK
    <3>3. clerk[h.clerk].since \in 0..Len(chosen)
      BY <1>1, Zenon DEF IndInv, ClerkInv
    <3>4. g.index \in 1..clerk[g.clerk].since => chosen[g.index].term # g.term
      <4>1. \A j \in 1..Len(chosen) : chosen[j].term = raft[s].lead => j <= Len(raft[s].log)
        BY <1>1 DEF LogInv, TermCreated
      <4> QED
        <5> SUFFICES ASSUME g.index \in 1..clerk[g.clerk].since, chosen[g.index].term = g.term
                     PROVE  FALSE
          BY Zenon
        <5>1. Len(chosen) \in Nat
          BY <1>1, RaftTypes, Zenon
        <5>2. g.index = Len(raft[s].log) + 1 /\ g.term = raft[s].lead /\ g.clerk = h.clerk
          BY <1>4, Zenon
        <5>3. g.index \in 1..clerk[h.clerk].since
          BY <5>2, Zenon
        <5>4. g.index \in 1..Len(chosen)
          BY <3>3, <5>1, <5>3
        <5>5. g.index <= Len(raft[s].log)
          BY <4>1, <5>2, <5>4
        <5> QED
          BY <1>n, <5>2, <5>5
    <3> QED
      BY <1>0, <1>4, <2>2, <3>1, <3>2, <3>4, Zenon DEF WaitOK
  <2> QED
    BY <1>0, <2>1, <2>2
<1>10. SeqInv'
  <2>1. WriteOK(h)
    BY DEF RefInv, SeqInv
  <2>2. WriteOK(e)
    BY <2>1, Zenon DEF WriteOK, entry, e
  <2>3. \A j \in 1..Len(chosen') : WriteOK(chosen[j])'
    BY <1>0, Zenon DEF RefInv, SeqInv, WriteOK
  <2>4. ASSUME NEW x \in Server, NEW j \in 1..Len(raft'[x].log)
        PROVE  WriteOK(raft[x].log[j])'
    <3>1. WriteOK(raft'[x].log[j])
      <4>1. CASE x # s \/ j \in 1..Len(raft[s].log)
        <5>1. j \in 1..Len(raft[x].log) /\ raft'[x].log[j] = raft[x].log[j]
          BY <1>3, <2>4, <4>1
        <5> QED
          BY <5>1 DEF RefInv, SeqInv
      <4>2. CASE x = s /\ j = Len(raft[s].log) + 1
        BY <1>3, <2>2, <4>2, Zenon
      <4> QED
        BY <1>6, <2>4, <4>1, <4>2
    <3> QED
      BY <1>0, <3>1, Zenon DEF WriteOK
  <2>5. \A x \in handlers' : WriteOK(x)'
    BY <1>0, <1>4, <2>1, Zenon DEF RefInv, SeqInv, WriteOK
  <2> QED
    BY <2>3, <2>4, <2>5 DEF SeqInv
<1>11. DupInv' /\ NowInv' /\ ReplyInv'
  BY <1>0, DupsKept, NowKept, RepliesKept DEF RefInv
<1> QED
  BY <1>7, <1>8, <1>9, <1>10, <1>11 DEF RefInv

\* Get, and the second part of PutAppend.
LEMMA StartRef ==
  ASSUME RefInv, NEW h \in handlers, Get(h) \/ PutAppendStart(h)
  PROVE  RefInv'
<1>0. /\ StartAgreement(h) /\ h.pc \in {"arrive", "start"}
      /\ UNCHANGED <<term, chosen, hist, srv, chans, calls>>
  BY DEF Get, PutAppendStart, agreed, bounds
<1>1. IndInv'
  BY StartInv DEF RefInv
<1>2. CASE Leads(h.srv)
  BY <1>0, <1>1, <1>2, StartLead
<1>3. CASE ~Leads(h.srv)
  <2>1. /\ Respond(h, ErrWrongLeader)
        /\ handlers' = handlers \ {h}
        /\ UNCHANGED raft
    BY <1>0, <1>3 DEF StartAgreement
  <2> DEFINE g == [h EXCEPT !.pc = "remove"]
  <2>2. /\ g.pc = "remove" /\ g.n = h.n /\ g.clerk = h.clerk /\ g.op = h.op /\ g.seqId = h.seqId
    BY KnownTypes DEF RefInv, Handler
  <2> HIDE DEF g
  <2>3. ErrWrongLeader \in NoAnswer
    BY DEF NoAnswer
  <2>4. handlers' \in SUBSET ((handlers \ {h}) \cup {g})
    BY <2>1
  <2>5. \A s \in Server : \A k \in chans'[s] : k.buf # None =>
          \E m \in chans[s] : m.index = k.index /\ m.buf # None
    BY <1>0
  <2> QED
    BY <1>0, <1>1, <2>1, <2>2, <2>3, <2>4, <2>5, AnswerStep, Zenon
<1> QED
  BY <1>2, <1>3

\* The first part of PutAppend: the reply of an earlier execution is the reply.
LEMMA PutAppendRef ==
  ASSUME RefInv, NEW h \in handlers, PutAppend(h)
  PROVE  RefInv'
<1> DEFINE dup == srv[h.srv].state.dup
<1>0. /\ UNCHANGED <<term, chosen, hist, srv, chans, calls, raft>>
      /\ h.pc = "arrive" /\ ~ReadOnly(h.op)
  BY DEF PutAppend, agreed, bounds
<1>1. IndInv'
  BY PutAppendInv DEF RefInv
<1>2. /\ IndInv /\ h \in Handler /\ h.srv \in Server /\ h.clerk \in Clerk /\ h.op # None
  BY KnownTypes, ServiceAssumption DEF RefInv, Handler
<1>3. \A s \in Server : \A k \in chans'[s] : k.buf # None =>
        \E m \in chans[s] : m.index = k.index /\ m.buf # None
  BY <1>0, Zenon
<1>4. CASE requestDuplicate(dup, h.clerk, h.seqId)
  <2>1. Respond(h, dup[h.clerk].Reply) /\ handlers' = handlers \ {h}
    BY <1>4, Zenon DEF PutAppend
  <2> DEFINE g == [h EXCEPT !.pc = "remove"]
  <2>2. /\ g.pc = "remove" /\ g.n = h.n /\ g.clerk = h.clerk /\ g.op = h.op /\ g.seqId = h.seqId
    BY <1>2 DEF Handler
  <2> HIDE DEF g
  <2>3. ASSUME clerk[h.clerk].n = h.n
        PROVE  dup[h.clerk].Reply \in Seen(h.clerk)
    <3>1. clerk[h.clerk].op = h.op /\ clerk[h.clerk].seqId = h.seqId
      BY <1>0, <2>3, Zenon DEF RefInv, HandlerInv
    <3>2. /\ raft[h.srv].applied \in 0..Len(chosen)
          /\ dup = hist[raft[h.srv].applied].dup
      BY <1>2, RaftTypes, Zenon DEF IndInv, ServerInv, ServerOK
    <3>3. clerk[h.clerk].seqId <= hist[raft[h.srv].applied].dup[h.clerk].SeqId
      BY <1>4, <3>1, <3>2, Zenon DEF requestDuplicate
    <3> QED
      BY <1>0, <1>2, <3>1, <3>2, <3>3, DupSeen, Zenon
  <2>4. handlers' \in SUBSET ((handlers \ {h}) \cup {g})
    BY <2>1, Zenon
  <2> HIDE DEF dup
  <2> QED
    BY <1>0, <1>1, <1>3, <2>1, <2>2, <2>3, <2>4, AnswerStep, Zenon
<1>5. CASE ~requestDuplicate(dup, h.clerk, h.seqId)
  <2> DEFINE g == [h EXCEPT !.pc = "start"]
  <2>1. handlers' = (handlers \ {h}) \cup {g} /\ UNCHANGED clerk
    BY <1>5 DEF PutAppend, Go
  <2>2. /\ g.pc = "start" /\ g.n = h.n /\ g.clerk = h.clerk /\ g.op = h.op /\ g.seqId = h.seqId
        /\ g.srv = h.srv /\ g.index = h.index /\ g.term = h.term
    BY <1>2 DEF Handler
  <2> HIDE DEF g
  <2> QED
    BY <1>0, <1>1, <1>3, <2>1, <2>2, MoveStep, Zenon
<1> QED
  BY <1>4, <1>5

\* A handler looks up its channel: at most an empty one is new.
LEMMA ChannelRef ==
  ASSUME RefInv, NEW h \in handlers, awaitChannel(h)
  PROVE  RefInv'
<1> DEFINE chs == getNotifyChannel(chans[h.srv], h.index, h.n)
<1>0. /\ UNCHANGED <<term, chosen, hist, srv, calls, raft, clerk>>
      /\ h.pc = "channel"
      /\ chans' = [chans EXCEPT ![h.srv] = chs]
  BY DEF awaitChannel, agreed, bounds
<1>1. IndInv'
  BY ChannelInv DEF RefInv
<1>2. h \in Handler /\ DOMAIN chans = Server
  BY KnownTypes DEF RefInv, IndInv, ChanInv
<1>3. PICK k \in Mapped(chs, h.index) : Go(h, [h EXCEPT !.pc = "wait", !.ch = k.id])
  BY Zenon DEF awaitChannel
<1>4. \A m \in chs : m.buf # None => m \in chans[h.srv]
  <2>1. PICK m : m = channel(h.index, h.n, TRUE, None)
    BY Zenon
  <2>2. m.buf = None
    BY <2>1, Zenon DEF channel
  <2>3. chs \in {chans[h.srv], chans[h.srv] \cup {m}}
    BY <2>1, Zenon DEF getNotifyChannel
  <2> HIDE DEF chs
  <2> QED
    BY <2>2, <2>3, Zenon
<1> HIDE DEF chs
<1>5. \A s \in Server : \A m \in chans'[s] : m.buf # None =>
        \E f \in chans[s] : f.index = m.index /\ f.buf # None
  BY <1>0, <1>2, <1>4
<1> DEFINE g == [h EXCEPT !.pc = "wait", !.ch = k.id]
<1>6. /\ g.pc = "wait" /\ g.n = h.n /\ g.clerk = h.clerk /\ g.op = h.op /\ g.seqId = h.seqId
      /\ g.srv = h.srv /\ g.index = h.index /\ g.term = h.term
  BY <1>2 DEF Handler
<1>7. handlers' = (handlers \ {h}) \cup {g}
  BY <1>3 DEF Go
<1> HIDE DEF g
<1> QED
  BY <1>0, <1>1, <1>5, <1>6, <1>7, MoveStep

\* A handler receives its reply.
LEMMA ResultRef ==
  ASSUME RefInv, NEW h \in handlers, awaitResult(h)
  PROVE  RefInv'
<1>0. /\ UNCHANGED <<term, chosen, hist, srv, calls, raft>>
      /\ h.pc = "wait"
  BY DEF awaitResult, agreed, bounds
<1>1. IndInv'
  BY ResultInv DEF RefInv
<1>2. h \in Handler /\ DOMAIN chans = Server
  BY KnownTypes DEF RefInv, IndInv, ChanInv
<1>3. PICK k \in chans[h.srv] :
        /\ k.index = h.index
        /\ k.buf # None
        /\ chans' = [chans EXCEPT ![h.srv] =
                       (chans[h.srv] \ {k}) \cup {channel(k.index, k.id, k.mapped, None)}]
        /\ Respond(h, k.buf)
  BY Zenon DEF awaitResult
<1>4. clerk[h.clerk].n = h.n => k.buf \in Seen(h.clerk)
  BY <1>0, <1>3, ResultSeen, Zenon
<1>5. \A m \in (chans[h.srv] \ {k}) \cup {channel(k.index, k.id, k.mapped, None)} :
        m.buf # None => m \in chans[h.srv]
  BY DEF channel
<1>6. \A s \in Server : \A m \in chans'[s] : m.buf # None =>
        \E f \in chans[s] : f.index = m.index /\ f.buf # None
  BY <1>2, <1>3, <1>5, Zenon
<1> DEFINE g == [h EXCEPT !.pc = "remove"]
<1>7. /\ g.pc = "remove" /\ g.n = h.n /\ g.clerk = h.clerk /\ g.op = h.op /\ g.seqId = h.seqId
  BY <1>2 DEF Handler
<1>8. handlers' = (handlers \ {h}) \cup {g}
  BY DEF awaitResult, Go
<1> HIDE DEF g
<1> QED
  BY <1>0, <1>1, <1>3, <1>4, <1>6, <1>7, <1>8, AnswerStep, Zenon

\* The timeout of a handler.
LEMMA TimeoutRef ==
  ASSUME RefInv, NEW h \in handlers, awaitTimeout(h)
  PROVE  RefInv'
<1>0. /\ UNCHANGED <<term, chosen, hist, srv, chans, calls, raft>>
      /\ Respond(h, ErrTimeout)
  BY DEF awaitTimeout, agreed, bounds
<1>1. IndInv'
  BY TimeoutInv DEF RefInv
<1>2. h \in Handler
  BY KnownTypes DEF RefInv
<1> DEFINE g == [h EXCEPT !.pc = "remove"]
<1>3. /\ g.pc = "remove" /\ g.n = h.n /\ g.clerk = h.clerk /\ g.op = h.op /\ g.seqId = h.seqId
  BY <1>2 DEF Handler
<1>4. handlers' = (handlers \ {h}) \cup {g}
  BY DEF awaitTimeout, Go
<1> HIDE DEF g
<1>5. ErrTimeout \in NoAnswer
  BY DEF NoAnswer
<1>6. \A s \in Server : \A k \in chans'[s] : k.buf # None =>
        \E m \in chans[s] : m.index = k.index /\ m.buf # None
  BY <1>0
<1> QED
  BY <1>0, <1>1, <1>3, <1>4, <1>5, <1>6, AnswerStep, Zenon

\* The goroutine that removes the channel.
LEMMA RemoveRef ==
  ASSUME RefInv, NEW h \in handlers, removeChannel(h)
  PROVE  RefInv'
<1>0. /\ UNCHANGED <<term, chosen, hist, srv, calls, raft, clerk>>
      /\ chans' = [chans EXCEPT ![h.srv] = removeNotifyChannel(chans[h.srv], h.index)]
      /\ handlers' = handlers \ {h}
  BY DEF removeChannel, agreed, bounds
<1>1. IndInv'
  BY RemoveInv DEF RefInv
<1>2. DOMAIN chans = Server
  BY Zenon DEF RefInv, IndInv, ChanInv
<1>3. \A k \in removeNotifyChannel(chans[h.srv], h.index) : k.buf # None =>
        \E m \in chans[h.srv] : m.index = k.index /\ m.buf # None
  <2> SUFFICES ASSUME NEW k \in removeNotifyChannel(chans[h.srv], h.index)
               PROVE  \E m \in chans[h.srv] : m.index = k.index /\ m.buf = k.buf
    BY Zenon
  <2>1. PICK m \in chans[h.srv] :
               k = channel(m.index, m.id, m.mapped /\ m.index # h.index, m.buf)
    BY Zenon DEF removeNotifyChannel
  <2>2. m.index = k.index /\ m.buf = k.buf
    BY <2>1, Zenon DEF channel
  <2> QED
    BY <2>2, Zenon
<1>4. \A s \in Server : \A k \in chans'[s] : k.buf # None =>
        \E m \in chans[s] : m.index = k.index /\ m.buf # None
  BY <1>0, <1>2, <1>3
<1>5. handlers' \in SUBSET ((handlers \ {h}) \cup {h})
  BY <1>0
<1> QED
  BY <1>0, <1>1, <1>4, <1>5, MoveStep

-----------------------------------------------------------------------------
(* The apply task, snapshots, crashes. *)

\* applyTask: the channel it fills is that of a handler whose entry it is.
LEMMA ApplyRef ==
  ASSUME RefInv, NEW s \in Server, NEW take \in BOOLEAN, applyTask(s, take)
  PROVE  RefInv'
<1> DEFINE i == raft[s].applied + 1
           reply == replyTo(srv[s].state, chosen[i])
<1>0. /\ UNCHANGED <<term, chosen, hist, handlers, clerk, calls>>
      /\ i \in DOMAIN raft[s].log
      /\ raft[s].log[i] = chosen[i]
      /\ raft' = [raft EXCEPT ![s].applied = i]
      /\ \/ UNCHANGED chans
         \/ chans' = [chans EXCEPT ![s] = IF Leads(s) THEN notify(chans[s], i, reply) ELSE chans[s]]
  BY DEF applyTask, agreed
<1>1. IndInv'
  BY ApplyInv DEF RefInv
<1>2. IndInv /\ LogInv /\ DOMAIN chans = Server
  BY DEF RefInv, IndInv, ChanInv
<1>3. /\ raft'[s].applied = i /\ i \in 1..Len(raft[s].log)
      /\ \A x \in Server : raft'[x].log = raft[x].log /\ raft'[x].lead = raft[x].lead
      /\ \A x \in Server \ {s} : raft'[x].applied = raft[x].applied
  BY <1>0, <1>2, RaftTypes
<1>4. ASSUME NEW x \in Server, NEW k \in chans'[x], k.buf # None
      PROVE  \/ \E m \in chans[x] : m.index = k.index /\ m.buf # None
             \/ x = s /\ Leads(s) /\ k.index = i
  <2>1. CASE k \in chans[x]
    BY <1>4, <2>1
  <2>2. CASE k \notin chans[x]
    <3>1. x = s /\ Leads(s) /\ k \in notify(chans[s], i, reply)
      BY <1>0, <1>2, <1>4, <2>2
    <3>2. PICK m \in getNotifyChannel(chans[s], i, 0) :
            k = channel(m.index, m.id, m.mapped,
                        IF m.mapped /\ m.index = i THEN reply ELSE m.buf)
      BY <3>1 DEF notify
    <3>3. k.index = m.index /\ (k.index # i => k.buf = m.buf)
      BY <3>2, Zenon DEF channel
    <3>4. m \in chans[s] \/ m.index = i
      BY <3>2 DEF getNotifyChannel, channel
    <3> QED
      BY <1>4, <3>1, <3>3, <3>4, Zenon
  <2> QED
    BY <2>1, <2>2, Zenon
<1> HIDE DEF i, reply
<1>5. LogInv'
  <2>1. LogsBounded'
    BY <1>0, <1>2, <1>3, RaftTypes DEF LogInv, LogsBounded
  <2>2. LeaderComplete' /\ OneLeader' /\ TermCreated'
    BY <1>0, <1>2, <1>3 DEF LogInv, LeaderComplete, OneLeader, TermCreated, Leads
  <2> QED
    BY <2>1, <2>2 DEF LogInv
<1>6. HandlerInv'
  BY <1>0, HandlersKept DEF RefInv
<1>7. WaitInv'
  <2> SUFFICES ASSUME NEW h \in handlers, waits(h) PROVE WaitOK(h)'
    BY <1>0 DEF WaitInv, waits
  <2>1. WaitOK(h) /\ h.srv \in Server
    BY <1>2, KnownTypes, Zenon DEF RefInv, WaitInv, Handler
  <2>2. ASSUME NEW k \in chans'[h.srv], k.index = h.index, k.buf # None
        PROVE  chosen[h.index] = entry(h, h.term)
    <3>1. CASE \E m \in chans[h.srv] : m.index = k.index /\ m.buf # None
      BY <2>1, <2>2, <3>1, Zenon DEF WaitOK
    <3>2. CASE h.srv = s /\ Leads(s) /\ k.index = i
      BY <1>0, <2>1, <2>2, <3>2 DEF WaitOK
    <3> QED
      BY <1>4, <2>1, <2>2, <3>1, <3>2, Zenon
  <2> QED
    BY <1>0, <1>3, <2>1, <2>2 DEF WaitOK, Leads
<1>8. SeqInv'
  <2>1. \A x \in Server : \E l \in Server : raft'[x].log = raft[l].log
    BY <1>3
  <2> QED
    BY <1>0, <2>1, SeqsKept DEF RefInv
<1>9. DupInv' /\ NowInv' /\ ReplyInv'
  BY <1>0, DupsKept, NowKept, RepliesKept DEF RefInv
<1> QED
  BY <1>1, <1>5, <1>6, <1>7, <1>8, <1>9 DEF RefInv

\* A snapshot instead of entries: the log is one of chosen entries.
LEMMA SnapshotRef ==
  ASSUME RefInv, NEW l \in Server, NEW s \in Server, applySnapshot(l, s)
  PROVE  RefInv'
<1> DEFINE n == srv[l].snap.index
           log == SubSeq(chosen, 1, n)
<1>0. /\ UNCHANGED <<term, chosen, hist, chans, handlers, clerk, calls>>
      /\ raft' = [raft EXCEPT ![s] = [log |-> log, lead |-> 0, applied |-> n]]
  BY DEF applySnapshot, agreed, bounds
<1>1. IndInv'
  BY SnapshotInv DEF RefInv
<1>2. IndInv /\ LogInv
  BY DEF RefInv
<1>3. n \in 0..Len(chosen)
  <2>1. srv[l].snap.index \in 0..raft[l].applied
    BY <1>2, Zenon DEF IndInv, ServerInv, ServerOK
  <2>2. raft[l].applied \in 0..Len(chosen) /\ Len(chosen) \in Nat
    BY <1>2, RaftTypes
  <2> QED
    BY <2>1, <2>2
<1>4. /\ Len(log) = n
      /\ \A j \in 1..n : log[j] = chosen[j]
  BY <1>2, <1>3, RaftTypes, PrefixFacts, Zenon
<1> HIDE DEF log, n
<1>5. /\ raft'[s].lead = 0 /\ raft'[s].log = log /\ raft'[s].applied = n
      /\ \A x \in Server \ {s} : raft'[x] = raft[x]
  BY <1>0, <1>2, RaftTypes, Zenon
<1>6. \A j \in 1..Len(raft'[s].log) : j \in 1..Len(chosen) /\ raft'[s].log[j] = chosen[j]
  <2>1. Len(chosen) \in Nat
    BY <1>2, RaftTypes
  <2>2. Len(raft'[s].log) = n /\ \A j \in 1..n : j \in 1..Len(chosen)
    BY <1>3, <1>4, <1>5, <2>1
  <2> QED
    BY <1>4, <1>5, <2>2
<1>7. LogInv'
  <2>1. LogsBounded'
    <3>1. term \in Nat /\ \A j \in 1..Len(chosen) : chosen[j].term <= term
      BY <1>2, RaftTypes, Zenon DEF LogInv, LogsBounded
    <3>2. ASSUME NEW x \in Server
          PROVE  /\ raft'[x].lead <= term /\ raft'[x].applied <= Len(raft'[x].log)
                 /\ \A j \in 1..Len(raft'[x].log) : raft'[x].log[j].term <= term
      <4>1. CASE x = s
        <5>1. n \in Nat /\ 0 <= term
          BY <1>2, <1>3, <3>1, RaftTypes
        <5>2. raft'[s].lead <= term /\ raft'[s].applied <= Len(raft'[s].log)
          BY <1>4, <1>5, <5>1
        <5>3. \A j \in 1..Len(raft'[s].log) : raft'[s].log[j].term <= term
          BY <1>6, <3>1
        <5> QED
          BY <4>1, <5>2, <5>3
      <4>2. CASE x # s
        BY <1>2, <1>5, <4>2, Zenon DEF LogInv, LogsBounded
      <4> QED
        BY <4>1, <4>2, Zenon
    <3> QED
      BY <1>0, <3>1, <3>2, Zenon DEF LogsBounded
  <2>2. LeaderComplete'
    <3> SUFFICES ASSUME NEW x \in Server, raft'[x].lead # 0, raft'[x].lead = term'
                 PROVE  /\ Len(chosen') <= Len(raft'[x].log)
                        /\ \A j \in 1..Len(chosen') : raft'[x].log[j] = chosen'[j]
      BY DEF LeaderComplete, Leads
    <3>1. raft'[x] = raft[x]
      BY <1>5
    <3>2. /\ Len(chosen) <= Len(raft[x].log)
          /\ \A j \in 1..Len(chosen) : raft[x].log[j] = chosen[j]
      BY <1>0, <1>2, <3>1, Zenon DEF LogInv, LeaderComplete, Leads
    <3> QED
      BY <1>0, <3>1, <3>2, Zenon
  <2>3. OneLeader'
    BY <1>2, <1>5, Zenon DEF LogInv, OneLeader, Leads
  <2>4. TermCreated'
    <3> SUFFICES ASSUME NEW x \in Server, raft'[x].lead # 0
                 PROVE  /\ \A j \in 1..Len(chosen') :
                             chosen'[j].term = raft'[x].lead => j <= Len(raft'[x].log)
                        /\ \A y \in Server : \A j \in 1..Len(raft'[y].log) :
                             raft'[y].log[j].term = raft'[x].lead => j <= Len(raft'[x].log)
      BY DEF TermCreated, Leads
    <3>1. raft'[x] = raft[x]
      BY <1>5
    <3>2. \A j \in 1..Len(chosen) : chosen[j].term = raft[x].lead => j <= Len(raft[x].log)
      BY <1>2, <3>1 DEF LogInv, TermCreated, Leads
    <3>3. \A y \in Server : \A j \in 1..Len(raft[y].log) :
            raft[y].log[j].term = raft[x].lead => j <= Len(raft[x].log)
      BY <1>2, <3>1 DEF LogInv, TermCreated, Leads
    <3>4. \A j \in 1..Len(raft'[s].log) : raft'[s].log[j].term = raft[x].lead => j <= Len(raft[x].log)
      BY <1>6, <3>2
    <3>5. \A y \in Server \ {s} : \A j \in 1..Len(raft'[y].log) :
            raft'[y].log[j].term = raft[x].lead => j <= Len(raft[x].log)
      BY <1>5, <3>3
    <3> QED
      BY <1>0, <3>1, <3>2, <3>4, <3>5, Zenon
  <2> QED
    BY <2>1, <2>2, <2>3, <2>4 DEF LogInv
<1>8. \A h \in handlers : waits(h) /\ raft'[h.srv].lead # 0 =>
        raft[h.srv].lead # 0 /\ raft'[h.srv].log = raft[h.srv].log
  BY <1>2, <1>5, Zenon DEF IndInv, TypeInv, Handler
<1>9. \A x \in Server :
        \/ \E y \in Server : raft'[x].log = raft[y].log
        \/ \A j \in 1..Len(raft'[x].log) : \E i \in 1..Len(chosen) : raft'[x].log[j] = chosen[i]
  BY <1>5, <1>6
<1> QED
  BY <1>0, <1>1, <1>7, <1>8, <1>9, RaftKeepsRef, Zenon

\* A crash: the handlers and channels of the server are gone.
LEMMA RestartRef ==
  ASSUME RefInv, NEW s \in Server, Restart(s)
  PROVE  RefInv'
<1>0. /\ UNCHANGED <<term, chosen, hist, clerk, calls>>
      /\ raft' = [raft EXCEPT ![s].lead = 0, ![s].applied = srv[s].snap.index]
      /\ chans' = [chans EXCEPT ![s] = {}]
      /\ handlers' \in SUBSET handlers
  BY DEF Restart, agreed
<1>1. IndInv'
  BY RestartInv DEF RefInv
<1>2. IndInv /\ LogInv /\ DOMAIN chans = Server
  BY DEF RefInv, IndInv, ChanInv
<1>3. srv[s].snap.index \in 0..raft[s].applied
  BY <1>2 DEF IndInv, ServerInv, ServerOK
<1>4. /\ raft'[s].lead = 0 /\ raft'[s].applied \in 0..raft[s].applied
      /\ \A x \in Server : raft'[x].log = raft[x].log
      /\ \A x \in Server \ {s} : raft'[x] = raft[x]
  BY <1>0, <1>2, <1>3, RaftTypes
<1>5. LogInv'
  <2>1. LogsBounded'
    BY <1>0, <1>2, <1>4, RaftTypes DEF LogInv, LogsBounded
  <2>2. LeaderComplete'
    <3> SUFFICES ASSUME NEW x \in Server, raft'[x].lead # 0, raft'[x].lead = term'
                 PROVE  /\ Len(chosen') <= Len(raft'[x].log)
                        /\ \A j \in 1..Len(chosen') : raft'[x].log[j] = chosen'[j]
      BY DEF LeaderComplete, Leads
    <3>1. raft'[x] = raft[x]
      BY <1>4, Zenon
    <3>2. /\ Len(chosen) <= Len(raft[x].log)
          /\ \A j \in 1..Len(chosen) : raft[x].log[j] = chosen[j]
      BY <1>0, <1>2, <3>1 DEF LogInv, LeaderComplete, Leads
    <3> QED
      BY <1>0, <3>1, <3>2, Zenon
  <2>3. OneLeader'
    BY <1>2, <1>4 DEF LogInv, OneLeader, Leads
  <2>4. TermCreated'
    <3> SUFFICES ASSUME NEW x \in Server, raft'[x].lead # 0
                 PROVE  /\ \A j \in 1..Len(chosen') :
                             chosen'[j].term = raft'[x].lead => j <= Len(raft'[x].log)
                        /\ \A y \in Server : \A j \in 1..Len(raft'[y].log) :
                             raft'[y].log[j].term = raft'[x].lead => j <= Len(raft'[x].log)
      BY DEF TermCreated, Leads
    <3>1. raft'[x] = raft[x]
      BY <1>4
    <3>2. \A j \in 1..Len(chosen) : chosen[j].term = raft[x].lead => j <= Len(raft[x].log)
      BY <1>2, <3>1 DEF LogInv, TermCreated, Leads
    <3>3. \A y \in Server : \A j \in 1..Len(raft[y].log) :
            raft[y].log[j].term = raft[x].lead => j <= Len(raft[x].log)
      BY <1>2, <3>1 DEF LogInv, TermCreated, Leads
    <3> QED
      BY <1>0, <1>4, <3>1, <3>2, <3>3, Zenon
  <2> QED
    BY <2>1, <2>2, <2>3, <2>4 DEF LogInv
<1>6. HandlerInv'
  BY <1>0, HandlersKept DEF RefInv
<1>7. WaitInv'
  <2>1. \A h \in handlers : h.srv \in Server
    BY <1>2, KnownTypes DEF Handler
  <2>2. \A h \in handlers : waits(h) /\ raft'[h.srv].lead # 0 =>
          raft[h.srv].lead # 0 /\ raft'[h.srv].log = raft[h.srv].log
    BY <1>4, <2>1
  <2>3. \A h \in handlers' : \A k \in chans'[h.srv] : k.buf # None =>
          \E m \in chans[h.srv] : m.index = k.index /\ m.buf # None
    BY <1>0, <1>2, <2>1
  <2> QED
    BY <1>0, <2>2, <2>3, WaitsKept, Zenon DEF RefInv
<1>8. SeqInv'
  <2>1. \A x \in Server : \E l \in Server : raft'[x].log = raft[l].log
    BY <1>4
  <2> QED
    BY <1>0, <2>1, SeqsKept, Zenon DEF RefInv
<1>9. DupInv' /\ NowInv' /\ ReplyInv'
  BY <1>0, DupsKept, NowKept, RepliesKept DEF RefInv
<1> QED
  BY <1>1, <1>5, <1>6, <1>7, <1>8, <1>9 DEF RefInv

-----------------------------------------------------------------------------
(* The invariance. *)

\* The initial state: nothing is under way and nothing executed.
LEMMA InitRef == Init => RefInv
<1> SUFFICES ASSUME Init PROVE RefInv
  OBVIOUS
<1>1. IndInv
  BY InitInv
<1>2. /\ chosen = <<>> /\ Len(chosen) = 0 /\ term = 0 /\ handlers = {} /\ hist[0] = NewState
      /\ Now = NewState
      /\ \A s \in Server : raft[s].lead = 0 /\ raft[s].log = <<>> /\ Len(raft[s].log) = 0
                           /\ raft[s].applied = 0
      /\ \A c \in Clerk : clerk[c].op = None /\ clerk[c].seqId = 0 /\ clerk[c].reply = None
  BY Zenon DEF Init, NewClerk, Now
<1>3. LogInv
  <2>1. \A s \in Server : ~Leads(s)
    BY <1>2 DEF Leads
  <2>2. LogsBounded
    BY <1>2 DEF LogsBounded
  <2> QED
    BY <2>1, <2>2 DEF LogInv, LeaderComplete, OneLeader, TermCreated
<1>4. HandlerInv /\ WaitInv /\ SeqInv
  <2>1. HandlerInv /\ WaitInv
    BY <1>2, Zenon DEF HandlerInv, WaitInv
  <2>2. 1..Len(chosen) = {} /\ \A s \in Server : 1..Len(raft[s].log) = {}
    BY <1>2
  <2>3. SeqInv
    BY <1>2, <2>2, Zenon DEF SeqInv
  <2> QED
    BY <2>1, <2>3
<1>5. /\ DOMAIN NewState.dup = Clerk
      /\ \A c \in Clerk : NewState.dup[c].SeqId = -1
  BY DEF NewState
<1>6. DupInv
  <2>1. hist[0] = NewState /\ Now = NewState /\ 0..Len(chosen) = {0}
    BY <1>2
  <2>2. DupOK(NewState.dup, NewState.dup)
    <3>1. -1 \in Int /\ -1 <= -1
      OBVIOUS
    <3> QED
      BY <1>5, <3>1, Zenon DEF DupOK
  <2> QED
    BY <2>1, <2>2 DEF DupInv
<1>7. NowInv
  <2>1. \A c \in Clerk : Now.dup[c].SeqId = -1 /\ clerk[c].seqId = 0
    BY <1>2, <1>5
  <2> SUFFICES ASSUME NEW c \in Clerk
               PROVE  /\ Now.dup[c].SeqId \in {clerk[c].seqId - 1, clerk[c].seqId}
                      /\ Now.dup[c].SeqId # clerk[c].seqId
    BY Zenon DEF NowInv
  <2> QED
    <3>1. Now.dup[c].SeqId = -1 /\ clerk[c].seqId = 0
      BY <2>1, Zenon
    <3> QED
      BY <3>1
<1>8. ReplyInv
  BY <1>2 DEF ReplyInv, NoAnswer
<1> QED
  BY <1>1, <1>3, <1>4, <1>6, <1>7, <1>8 DEF RefInv

\* Every step keeps the invariant.
LEMMA NextRef ==
  ASSUME ~Reelect, RefInv, [Next]_vars
  PROVE  RefInv'
<1>1. CASE RaftStep
  BY <1>1, ElectRef, StepDownRef, CommitRef, ReplicateRef DEF RaftStep
<1>2. CASE ClerkStep
  BY <1>2, RetryRef, ReturnRef, InvokeRef DEF ClerkStep
<1>3. CASE HandlerStep
  BY <1>3, StartRef, PutAppendRef, ChannelRef, ResultRef, TimeoutRef, RemoveRef DEF HandlerStep
<1>4. CASE ServerStep
  BY <1>4, RestartRef, ApplyRef, SnapshotRef DEF ServerStep
<1>5. CASE UNCHANGED vars
  <2>1. UNCHANGED <<chosen, hist, chans, handlers, clerk, calls, raft, term>>
    BY <1>5 DEF vars
  <2>2. IndInv' /\ LogInv'
    BY <1>5, <2>1, NextInv, LogsKept DEF RefInv
  <2> QED
    BY <2>1, <2>2, RaftKeepsRef, Zenon
<1> QED
  BY <1>1, <1>2, <1>3, <1>4, <1>5 DEF Next

-----------------------------------------------------------------------------
(* The refinement. *)

\* A step that commits nothing, and after which every clerk has its operation, its
\* number and its last result, is none of the atomic service.
LEMMA QuietStep ==
  ASSUME UNCHANGED <<chosen, hist>>,
         \A c \in Clerk : /\ clerk'[c].op = clerk[c].op
                          /\ clerk'[c].seqId = clerk[c].seqId
                          /\ clerk'[c].ret = clerk[c].ret
                          /\ clerk'[c].since = clerk[c].since
  PROVE  UNCHANGED Atomic!avars
<1>1. Now' = Now
  BY Zenon DEF Now
<1>2. \A c \in Clerk : Seen(c)' = Seen(c)
  BY SeenKept
<1> QED
  BY <1>1, <1>2, Zenon DEF Atomic!avars

\* Invoke is that of the atomic service.
LEMMA InvokeAtomic ==
  ASSUME RefInv, NEW c \in Clerk, NEW op \in Op, Invoke(c, op)
  PROVE  Atomic!Invoke(c, op)
<1>1. IndInv /\ ClerkInv /\ Len(chosen) \in Nat
  BY RaftTypes DEF RefInv, IndInv
<1>2. /\ UNCHANGED <<chosen, hist>>
      /\ clerk[c].op = None
      /\ clerk'[c].op = op /\ clerk'[c].seqId = clerk[c].seqId /\ clerk'[c].ret = clerk[c].ret
      /\ clerk'[c].since = Len(chosen)
      /\ \A d \in Clerk \ {c} : clerk'[d] = clerk[d]
  BY <1>1 DEF Invoke, agreed, ClerkInv
<1>3. Now' = Now
  BY <1>2 DEF Now
<1>4. \A d \in Clerk \ {c} : Seen(d)' = Seen(d)
  BY <1>2, SeenKept, Zenon
<1>5. op # None
  BY ServiceAssumption
<1>6. Seen(c)' = IF ReadOnly(op) THEN {Exec(Now.sm, op).reply} ELSE {}
  <2>1. CASE ReadOnly(op)
    <3>1. Seen(c)' = {Exec(hist[i].sm, op).reply : i \in Len(chosen)..Len(chosen)}
      BY <1>2, <1>5, <2>1, Zenon DEF Seen
    <3>2. \A i \in Len(chosen)..Len(chosen) : i = Len(chosen)
      BY <1>1
    <3>3. Len(chosen) \in Len(chosen)..Len(chosen)
      BY <1>1
    <3> QED
      BY <2>1, <3>1, <3>2, <3>3, Zenon DEF Now
  <2>2. CASE ~ReadOnly(op)
    <3>1. /\ clerk[c].seqId \in Nat
          /\ Now.dup[c].SeqId \in {clerk[c].seqId - 1, clerk[c].seqId}
          /\ Now.dup[c].SeqId # clerk[c].seqId
      BY <1>1, <1>2, Zenon DEF RefInv, NowInv, ClerkInv
    <3>2. ~requestDuplicate(Now.dup, c, clerk[c].seqId)
      BY <3>1 DEF requestDuplicate
    <3> QED
      BY <1>2, <1>3, <1>5, <2>2, <3>2, Zenon DEF Seen
  <2> QED
    BY <2>1, <2>2
<1>7. [d \in Clerk |-> clerk[d].op]' = [[d \in Clerk |-> clerk[d].op] EXCEPT ![c] = op]
  BY <1>2, Zenon
<1>8. [d \in Clerk |-> Seen(d)]' =
        [[d \in Clerk |-> Seen(d)] EXCEPT ![c] = IF ReadOnly(op) THEN {Exec(Now.sm, op).reply} ELSE {}]
  <2>1. \A d \in Clerk : Seen(d)' = IF d = c THEN IF ReadOnly(op) THEN {Exec(Now.sm, op).reply} ELSE {}
                                   ELSE Seen(d)
    BY <1>4, <1>6
  <2> QED
    BY <2>1, Zenon
<1>9. [d \in Clerk |-> clerk[d].ret]' = [d \in Clerk |-> clerk[d].ret]
  BY <1>2
<1> QED
  BY <1>2, <1>3, <1>7, <1>8, <1>9, Zenon DEF Atomic!Invoke

\* Return is that of the atomic service.
LEMMA ReturnAtomic ==
  ASSUME RefInv, NEW c \in Clerk, Return(c)
  PROVE  Atomic!Return(c)
<1>1. IndInv /\ ClerkInv
  BY DEF RefInv, IndInv
<1>2. /\ UNCHANGED <<chosen, hist>>
      /\ clerk[c].op # None
      /\ clerk'[c].op = None /\ clerk'[c].ret = clerk[c].reply
      /\ \A d \in Clerk \ {c} : clerk'[d] = clerk[d]
  BY <1>1 DEF Return, agreed, ClerkInv
<1>3. clerk[c].reply \in Seen(c)
  BY DEF RefInv, ReplyInv, NoAnswer, Return
<1>4. Now' = Now
  BY <1>2 DEF Now
<1>5. \A d \in Clerk \ {c} : Seen(d)' = Seen(d)
  BY <1>2, SeenKept, Zenon
<1>6. Seen(c)' = {}
  BY <1>2, Zenon DEF Seen
<1>7. [d \in Clerk |-> clerk[d].op]' = [[d \in Clerk |-> clerk[d].op] EXCEPT ![c] = None]
  BY <1>2, Zenon
<1>8. [d \in Clerk |-> Seen(d)]' = [[d \in Clerk |-> Seen(d)] EXCEPT ![c] = {}]
  <2>1. \A d \in Clerk : Seen(d)' = IF d = c THEN {} ELSE Seen(d)
    BY <1>5, <1>6
  <2> QED
    BY <2>1, Zenon
<1>9. [d \in Clerk |-> clerk[d].ret]' = [[d \in Clerk |-> clerk[d].ret] EXCEPT ![c] = clerk[c].reply]
  <2>1. \A d \in Clerk : clerk'[d].ret = IF d = c THEN clerk[c].reply ELSE clerk[d].ret
    BY <1>2
  <2> QED
    BY <2>1, Zenon
<1>10. [d \in Clerk |-> clerk[d].op][c] # None /\ clerk[c].reply \in [d \in Clerk |-> Seen(d)][c]
  BY <1>2, <1>3
<1> QED
  BY <1>4, <1>7, <1>8, <1>9, <1>10, Zenon DEF Atomic!Return

\* What a read may return after a commit: what it may before, and what it reads now.
LEMMA CommitRead ==
  ASSUME RefInv, NEW l \in Server, Commit(l), NEW d \in Clerk,
         clerk[d].op # None, ReadOnly(clerk[d].op)
  PROVE  Seen(d)' = Seen(d) \cup {Exec(Now'.sm, clerk[d].op).reply}
<1> DEFINE m == Len(chosen)
           f(i) == Exec(hist'[i].sm, clerk[d].op).reply
<1>0. /\ UNCHANGED clerk
      /\ Len(chosen') = m + 1
      /\ \A i \in 0..m : hist'[i] = hist[i]
  BY CommitFacts, Zenon
<1>1. m \in Nat /\ clerk[d].since \in 0..m
  BY RaftTypes, Zenon DEF RefInv, IndInv, ClerkInv
<1>2. Now' = hist'[m + 1]
  BY <1>0, Zenon DEF Now
<1>3. Seen(d) = {Exec(hist[i].sm, clerk[d].op).reply : i \in clerk[d].since..m}
  BY Zenon DEF Seen
<1>4. Seen(d)' = {f(i) : i \in clerk[d].since..(m + 1)}
  BY <1>0, Zenon DEF Seen
<1>5. \A i \in clerk[d].since..m : Exec(hist[i].sm, clerk[d].op).reply = f(i)
  BY <1>0, <1>1
<1>6. \A i \in clerk[d].since..(m + 1) : i \in clerk[d].since..m \/ i = m + 1
  BY <1>1
<1>7. \A i \in clerk[d].since..m : i \in clerk[d].since..(m + 1)
  BY <1>1
<1>8. m + 1 \in clerk[d].since..(m + 1)
  BY <1>1
<1>9. f(m + 1) = Exec(Now'.sm, clerk[d].op).reply
  BY <1>2
<1> HIDE DEF f, m
<1> QED
  BY <1>3, <1>4, <1>5, <1>6, <1>7, <1>8, <1>9, Zenon

\* Commit executes the pending write of a clerk, or nothing.
LEMMA CommitAtomic ==
  ASSUME RefInv, NEW l \in Server, Commit(l)
  PROVE  UNCHANGED Atomic!avars \/ \E c \in Clerk : Atomic!Execute(c)
<1>e. PICK e : e = raft[l].log[Len(chosen) + 1]
  OBVIOUS
<1>0. /\ UNCHANGED clerk
      /\ e \in Entry
      /\ WriteOK(e)
      /\ Now' = execute(Now, e)
  BY <1>e, CommitFacts, Zenon
<1>1. Len(chosen) \in Nat /\ \A d \in Clerk : clerk[d].since \in 0..Len(chosen) /\ clerk[d].seqId \in Nat
  BY RaftTypes, Zenon DEF RefInv, IndInv, ClerkInv
<1>2. ASSUME NEW d \in Clerk, clerk[d].op = None
      PROVE  Seen(d)' = Seen(d)
  BY <1>0, <1>2, Zenon DEF Seen
<1>3. ASSUME NEW d \in Clerk, clerk[d].op # None, ReadOnly(clerk[d].op)
      PROVE  Seen(d)' = Seen(d) \cup {Exec(Now'.sm, clerk[d].op).reply}
  BY <1>3, CommitRead
<1>4. ASSUME NEW d \in Clerk, clerk[d].op # None, ~ReadOnly(clerk[d].op), Now'.dup[d] = Now.dup[d]
      PROVE  Seen(d)' = Seen(d)
  BY <1>0, <1>4, Zenon DEF Seen, requestDuplicate
<1>5. CASE execute(Now, e) = Now
  <2>1. ASSUME NEW d \in Clerk
        PROVE  Seen(d)' = Seen(d)
    <3>1. CASE clerk[d].op # None /\ ReadOnly(clerk[d].op)
      <4>1. Seen(d) = {Exec(hist[i].sm, clerk[d].op).reply : i \in clerk[d].since..Len(chosen)}
        BY <3>1, Zenon DEF Seen
      <4>2. Len(chosen) \in clerk[d].since..Len(chosen)
        BY <1>1
      <4>3. Exec(Now.sm, clerk[d].op).reply \in Seen(d)
        BY <4>1, <4>2, Zenon DEF Now
      <4> QED
        BY <1>0, <1>3, <1>5, <3>1, <4>3, Zenon
    <3>2. CASE ~(clerk[d].op # None /\ ReadOnly(clerk[d].op))
      BY <1>0, <1>2, <1>4, <1>5, <3>2, Zenon
    <3> QED
      BY <3>1, <3>2
  <2> QED
    BY <1>0, <1>5, <2>1 DEF Atomic!avars
<1>6. CASE /\ TakesEffect(e)
           /\ execute(Now, e) =
                [sm |-> Exec(Now.sm, e.op).sm,
                 dup |-> [Now.dup EXCEPT ![e.clerk] =
                            [SeqId |-> e.seqId, Reply |-> Exec(Now.sm, e.op).reply]]]
  <2>c. PICK c \in Clerk : c = e.clerk
    BY <1>6, Zenon DEF TakesEffect
  <2>1. /\ c \in Clerk /\ e.op # None /\ ~ReadOnly(e.op) /\ clerk[c].op = e.op
        /\ clerk[c].seqId = e.seqId
        /\ ~requestDuplicate(Now.dup, c, clerk[c].seqId)
    <3>1. Now.dup[c].SeqId \in Int /\ e.seqId \in Nat
      BY <1>6, NowTable, Zenon DEF TakesEffect
    <3>2. e.op # None
      BY <1>0, ServiceAssumption, Zenon DEF Entry
    <3>3. /\ ~ReadOnly(e.op) /\ clerk[c].op = e.op /\ clerk[c].seqId = e.seqId
          /\ Now.dup[c].SeqId < e.seqId
      BY <1>6, <2>c, Zenon DEF TakesEffect
    <3>4. ~requestDuplicate(Now.dup, c, clerk[c].seqId)
      BY <3>1, <3>3 DEF requestDuplicate
    <3> QED
      BY <3>2, <3>3, <3>4, Zenon
  <2>2. /\ Now'.sm = Exec(Now.sm, clerk[c].op).sm
        /\ Now'.dup[c].SeqId = e.seqId
        /\ Now'.dup[c].Reply = Exec(Now.sm, clerk[c].op).reply
        /\ \A d \in Clerk \ {c} : Now'.dup[d] = Now.dup[d]
    <3> DEFINE last == [SeqId |-> e.seqId, Reply |-> Exec(Now.sm, e.op).reply]
    <3>1. last.SeqId = e.seqId /\ last.Reply = Exec(Now.sm, e.op).reply
      OBVIOUS
    <3>2. Now' = [sm |-> Exec(Now.sm, e.op).sm, dup |-> [Now.dup EXCEPT ![c] = last]]
      BY <1>0, <1>6, <2>c, Zenon
    <3> HIDE DEF last
    <3>3. Now'.sm = Exec(Now.sm, e.op).sm /\ Now'.dup = [Now.dup EXCEPT ![c] = last]
      BY <3>2
    <3>4. DOMAIN Now.dup = Clerk
      BY NowTable
    <3>5. Now'.dup[c] = last /\ \A d \in Clerk \ {c} : Now'.dup[d] = Now.dup[d]
      BY <3>3, <3>4
    <3> QED
      BY <2>1, <3>1, <3>3, <3>5, Zenon
  <2>3. Seen(c) = {}
    BY <2>1, Zenon DEF Seen
  <2>4. Seen(c)' = {Exec(Now.sm, clerk[c].op).reply}
    <3>1. requestDuplicate(Now'.dup, c, clerk[c].seqId)
      <4>1. Now'.dup[c].SeqId = clerk[c].seqId /\ clerk[c].seqId \in Nat
        BY <1>1, <2>1, <2>2, Zenon
      <4> QED
        BY <4>1 DEF requestDuplicate
    <3> QED
      <4>1. Seen(c)' = IF requestDuplicate(Now'.dup, c, clerk[c].seqId) THEN {Now'.dup[c].Reply} ELSE {}
        BY <1>0, <2>1, Zenon DEF Seen
      <4> QED
        BY <2>2, <3>1, <4>1, Zenon
  <2>5. \A d \in Clerk \ {c} :
          Seen(d)' = IF clerk[d].op # None /\ ReadOnly(clerk[d].op)
                       THEN Seen(d) \cup {Exec(Now'.sm, clerk[d].op).reply} ELSE Seen(d)
    BY <1>2, <1>3, <1>4, <2>2, Zenon
  <2>6. [d \in Clerk |-> Seen(d)]' =
          [d \in Clerk |->
             IF d = c THEN {Exec(Now.sm, clerk[c].op).reply}
             ELSE IF clerk[d].op # None /\ ReadOnly(clerk[d].op)
               THEN Seen(d) \cup {Exec(Now'.sm, clerk[d].op).reply}
             ELSE Seen(d)]
    BY <2>1, <2>4, <2>5, Zenon
  <2>7. /\ [d \in Clerk |-> clerk[d].op]' = [d \in Clerk |-> clerk[d].op]
        /\ [d \in Clerk |-> clerk[d].ret]' = [d \in Clerk |-> clerk[d].ret]
    BY <1>0
  <2>8. clerk[c].op # None /\ ~ReadOnly(clerk[c].op) /\ c \in Clerk
    BY <2>1, Zenon
  <2>9. Atomic!Execute(c)
    BY <2>2, <2>3, <2>6, <2>7, <2>8, Zenon DEF Atomic!Execute
  <2> QED
    BY <2>8, <2>9
<1> QED
  BY <1>0, <1>5, <1>6, CommitCases

\* A handler changes no operation and no result of a clerk.
LEMMA HandlerQuiet ==
  ASSUME RefInv, HandlerStep
  PROVE  UNCHANGED Atomic!avars
<1>1. PICK h \in handlers : \/ Get(h) \/ PutAppend(h) \/ PutAppendStart(h) \/ awaitChannel(h)
                            \/ awaitResult(h) \/ awaitTimeout(h) \/ removeChannel(h)
  BY DEF HandlerStep
<1>2. h \in Handler /\ ClerkInv
  BY KnownTypes, Zenon DEF RefInv, IndInv
<1>3. UNCHANGED <<chosen, hist>>
  BY <1>1, Zenon DEF Get, PutAppend, PutAppendStart, awaitChannel, awaitResult, awaitTimeout,
              removeChannel, agreed
<1>4. UNCHANGED clerk \/ \E reply : Respond(h, reply)
  BY <1>1, Zenon DEF Get, PutAppend, PutAppendStart, StartAgreement, awaitChannel, awaitResult,
              awaitTimeout, removeChannel
<1>5. \A c \in Clerk : /\ clerk'[c].op = clerk[c].op
                       /\ clerk'[c].seqId = clerk[c].seqId
                       /\ clerk'[c].ret = clerk[c].ret
                       /\ clerk'[c].since = clerk[c].since
  BY <1>2, <1>4, RespondFacts, Zenon
<1> QED
  BY <1>3, <1>5, QuietStep, Zenon

\* Every step of the replicated service is one of the atomic service, or none.
LEMMA NextAtomic ==
  ASSUME RefInv, [Next]_vars
  PROVE  [Atomic!ANext]_(Atomic!avars)
<1>1. CASE \E s \in Server : Commit(s)
  BY <1>1, CommitAtomic DEF Atomic!ANext
<1>2. CASE \E c \in Clerk : Return(c)
  BY <1>2, ReturnAtomic DEF Atomic!ANext
<1>3. CASE \E c \in Clerk : \E op \in Op : Invoke(c, op)
  BY <1>3, InvokeAtomic DEF Atomic!ANext
<1>4. CASE \E c \in Clerk : Retry(c)
  <2>1. PICK c \in Clerk : Retry(c)
    BY <1>4
  <2>2. UNCHANGED <<chosen, hist>>
    BY <2>1 DEF Retry, agreed
  <2>3. \A d \in Clerk : /\ clerk'[d].op = clerk[d].op
                         /\ clerk'[d].seqId = clerk[d].seqId
                         /\ clerk'[d].ret = clerk[d].ret
                         /\ clerk'[d].since = clerk[d].since
    BY <2>1 DEF Retry, RefInv, IndInv, ClerkInv
  <2> QED
    BY <2>2, <2>3, QuietStep, Zenon
<1>5. CASE HandlerStep
  BY <1>5, HandlerQuiet
<1>6. CASE UNCHANGED <<chosen, hist, clerk>>
  BY <1>6, QuietStep
<1>7. ServerStep => UNCHANGED <<chosen, hist, clerk>>
  BY Zenon DEF ServerStep, Restart, applyTask, applySnapshot, agreed
<1>8. RaftStep => UNCHANGED <<chosen, hist, clerk>> \/ \E s \in Server : Commit(s)
  BY Zenon DEF RaftStep, Elect, StepDown, Replicate, agreed
<1>9. UNCHANGED vars => UNCHANGED <<chosen, hist, clerk>>
  BY DEF vars
<1> QED
  BY <1>1, <1>2, <1>3, <1>4, <1>5, <1>6, <1>7, <1>8, <1>9 DEF Next, ClerkStep

\* The initial state is that of the atomic service.
LEMMA InitAtomic == Init => Atomic!AInit
<1> SUFFICES ASSUME Init PROVE Atomic!AInit
  OBVIOUS
<1>1. Now = NewState /\ \A c \in Clerk : clerk[c].op = None /\ clerk[c].ret = None
  BY Zenon DEF Init, Now, NewClerk
<1>2. Now.sm = SM0
  BY <1>1, Zenon DEF NewState
<1>3. \A c \in Clerk : Seen(c) = {}
  BY <1>1, Zenon DEF Seen
<1> QED
  BY <1>1, <1>2, <1>3 DEF Atomic!AInit

\* The service is linearizable, whatever the state machine and however many servers and
\* clerks there are, across retries, duplicates, late handlers, snapshots and crashes
\* (server.go, client.go), if no server is elected while a handler of an earlier
\* leadership of it waits: a handler compares neither the term nor the operation of the
\* entry it is woken for with its own.
THEOREM Refinement ==
  ASSUME ~Reelect
  PROVE  Spec => Linearizable
<1>1. Init => RefInv
  BY InitRef
<1>2. RefInv /\ [Next]_vars => RefInv'
  BY NextRef
<1>3. Spec => []RefInv
  BY <1>1, <1>2, PTL DEF Spec
<1>4. Init => Atomic!AInit
  BY InitAtomic
<1>5. RefInv /\ [Next]_vars => [Atomic!ANext]_(Atomic!avars)
  BY NextAtomic
<1> QED
  BY <1>3, <1>4, <1>5, PTL DEF Spec, Linearizable, Atomic!ASpec
=============================================================================
