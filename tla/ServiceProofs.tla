---------------------------- MODULE ServiceProofs ----------------------------
(***************************************************************************)
(* Every server of the replicated service holds what the chosen log leads   *)
(* to, and applyTask never blocks on a notify channel: proved for any       *)
(* number of servers and clerks, any operations and any state machine, and  *)
(* without any assumption on elections.                                     *)
(***************************************************************************)
EXTENDS ReplicatedService, TLAPS

-----------------------------------------------------------------------------
(* The inductive invariant. *)

Entry ==
  {e \in [term : Nat, op : Op, clerk : Clerk \cup {None}, seqId : Nat] :
     ~ReadOnly(e.op) => e.clerk \in Clerk}

Handler ==
  [clerk : Clerk, n : Nat, srv : Server, seqId : Nat, op : Op,
   pc : {"arrive", "start", "channel", "wait", "remove"}, index : Nat, term : Nat, ch : Nat]

TypeInv ==
  /\ term \in Nat
  /\ chosen \in Seq(Entry)
  /\ raft \in [Server -> [log : Seq(Entry), lead : Nat, applied : Nat]]
  /\ handlers \in SUBSET Handler
  /\ calls \in Nat

\* A clerk counts its calls with calls, and since is a length chosen has had.
ClerkInv ==
  /\ DOMAIN clerk = Clerk
  /\ \A c \in Clerk :
       /\ DOMAIN clerk[c] = {"leaderId", "seqId", "n", "op", "ops", "since", "reply", "ret"}
       /\ clerk[c].leaderId \in Server
       /\ clerk[c].seqId \in Nat
       /\ clerk[c].n \in 0..calls
       /\ clerk[c].op \in Op \cup {None}
       /\ clerk[c].since \in 0..Len(chosen)

\* The history is the run of the state machine over the chosen entries.
HistInv ==
  /\ DOMAIN hist = 0..Len(chosen)
  /\ hist[0] = NewState
  /\ \A i \in 1..Len(chosen) : hist[i] = execute(hist[i - 1], chosen[i])

\* State and snapshot of a server are points of the history.
ServerOK(sv, applied) ==
  /\ DOMAIN sv = {"state", "lastApplied", "snap"}
  /\ applied <= Len(chosen)
  /\ sv.state = hist[applied]
  /\ sv.lastApplied \in 0..applied
  /\ sv.snap.index \in 0..applied
  /\ sv.snap.state = hist[sv.snap.index]

ServerInv ==
  /\ DOMAIN srv = Server
  /\ \A s \in Server : ServerOK(srv[s], raft[s].applied)

\* A full channel is that of an applied entry, and holds the reply of that entry.
ChanOK(k, applied) ==
  /\ k.index \in Nat
  /\ k.id \in Nat
  /\ k.buf # None => /\ k.index \in 1..applied
                     /\ k.buf = replyTo(hist[k.index - 1], chosen[k.index])

ChanInv ==
  /\ DOMAIN chans = Server
  /\ \A s \in Server : \A k \in chans[s] : ChanOK(k, raft[s].applied)

IndInv == TypeInv /\ ClerkInv /\ HistInv /\ ServerInv /\ ChanInv

-----------------------------------------------------------------------------
(* What steps leave alone. *)

\* The history of a step that commits nothing.
LEMMA HistKept ==
  ASSUME HistInv, UNCHANGED <<chosen, hist>>
  PROVE  HistInv'
  BY DEF HistInv

\* The clerks, when their variables stay.
LEMMA ClerksKept ==
  ASSUME ClerkInv, UNCHANGED <<clerk, calls, chosen>>
  PROVE  ClerkInv'
  BY DEF ClerkInv

\* The servers, when no server applies anything (rf.Start, an election, a handler).
LEMMA ServersKept ==
  ASSUME ServerInv, UNCHANGED <<srv, chosen, hist>>,
         \A s \in Server : raft'[s].applied = raft[s].applied
  PROVE  ServerInv'
  BY DEF ServerInv, ServerOK

\* The channels, when no server applies anything and no handler touches them.
LEMMA ChansKept ==
  ASSUME ChanInv, UNCHANGED <<chans, chosen, hist>>,
         \A s \in Server : raft'[s].applied = raft[s].applied
  PROVE  ChanInv'
  BY DEF ChanInv, ChanOK

\* A reply to a clerk changes nothing else of the clerk.
LEMMA RespondKeeps ==
  ASSUME ClerkInv, NEW h \in Handler, NEW reply, Respond(h, reply), UNCHANGED <<calls, chosen>>
  PROVE  ClerkInv'
<1>1. h.clerk \in Clerk
  BY DEF Handler
<1>2. CASE clerk[h.clerk].n = h.n
  <2>1. clerk' = [clerk EXCEPT ![h.clerk].reply = reply]
    BY <1>2 DEF Respond
  <2> QED
    BY <1>1, <2>1 DEF ClerkInv
<1>3. CASE clerk[h.clerk].n # h.n
  BY <1>3, ClerksKept DEF Respond
<1> QED
  BY <1>2, <1>3

\* A handler that goes on stays a handler.
LEMMA GoType ==
  ASSUME NEW h, NEW g \in Handler, handlers \in SUBSET Handler, Go(h, g)
  PROVE  handlers' \in SUBSET Handler
  BY DEF Go

\* The sequence with one more entry.
LEMMA AppendFacts ==
  ASSUME NEW S, NEW q \in Seq(S), NEW e \in S
  PROVE  /\ Append(q, e) \in Seq(S)
         /\ Len(Append(q, e)) = Len(q) + 1
         /\ \A i \in 1..Len(q) : Append(q, e)[i] = q[i]
         /\ Append(q, e)[Len(q) + 1] = e
  OBVIOUS

-----------------------------------------------------------------------------
(* The initial state. *)

\* A new server has applied nothing, and an empty snapshot.
LEMMA InitInv == Init => IndInv
<1> SUFFICES ASSUME Init PROVE IndInv
  OBVIOUS
<1> USE ServiceAssumption
<1>1. TypeInv
  BY DEF Init, TypeInv
<1>2. ClerkInv
  BY DEF Init, ClerkInv, NewClerk, Server
<1>3. HistInv
  BY DEF Init, HistInv
<1>4. ServerInv
  BY DEF Init, ServerInv, ServerOK, StartKVServer, restoreFromSnapshot
<1>5. ChanInv
  BY DEF Init, ChanInv
<1> QED
  BY <1>1, <1>2, <1>3, <1>4, <1>5 DEF IndInv

-----------------------------------------------------------------------------
(* Raft's steps. *)

\* An election, the end of a leadership and a replication change no applied index.
LEMMA RaftKeeps ==
  ASSUME IndInv,
         UNCHANGED <<chosen, hist, srv, chans, handlers, clerk, bounds>>,
         term' \in Nat,
         raft' \in [Server -> [log : Seq(Entry), lead : Nat, applied : Nat]],
         \A s \in Server : raft'[s].applied = raft[s].applied
  PROVE  IndInv'
<1>1. TypeInv'
  BY DEF IndInv, TypeInv, bounds
<1>2. ClerkInv' /\ HistInv' /\ ServerInv' /\ ChanInv'
  BY ClerksKept, HistKept, ServersKept, ChansKept DEF IndInv, bounds
<1> QED
  BY <1>1, <1>2 DEF IndInv

\* Elect.
LEMMA ElectInv ==
  ASSUME IndInv, NEW s \in Server, Elect(s)
  PROVE  IndInv'
<1>1. /\ term' \in Nat
      /\ raft' \in [Server -> [log : Seq(Entry), lead : Nat, applied : Nat]]
      /\ \A x \in Server : raft'[x].applied = raft[x].applied
  <2>1. /\ term \in Nat /\ term + 1 \in Nat
        /\ raft \in [Server -> [log : Seq(Entry), lead : Nat, applied : Nat]]
    BY DEF IndInv, TypeInv
  <2>2. term' = term + 1 /\ raft' = [raft EXCEPT ![s].lead = term + 1]
    BY DEF Elect
  <2> QED
    BY <2>1, <2>2, Zenon
<1> QED
  BY <1>1, RaftKeeps DEF Elect

\* StepDown.
LEMMA StepDownInv ==
  ASSUME IndInv, NEW s \in Server, StepDown(s)
  PROVE  IndInv'
<1>1. /\ term' \in Nat
      /\ raft' \in [Server -> [log : Seq(Entry), lead : Nat, applied : Nat]]
      /\ \A x \in Server : raft'[x].applied = raft[x].applied
  BY Zenon DEF IndInv, TypeInv, StepDown, agreed
<1> QED
  BY <1>1, RaftKeeps DEF StepDown, agreed

\* Replicate.
LEMMA ReplicateInv ==
  ASSUME IndInv, NEW l \in Server, NEW s \in Server, Replicate(l, s)
  PROVE  IndInv'
<1>1. /\ term' \in Nat
      /\ raft' \in [Server -> [log : Seq(Entry), lead : Nat, applied : Nat]]
      /\ \A x \in Server : raft'[x].applied = raft[x].applied
  BY DEF IndInv, TypeInv, Replicate, agreed
<1> QED
  BY <1>1, RaftKeeps DEF Replicate, agreed

\* The entry a leader commits is one of its log.
LEMMA CommitEntry ==
  ASSUME TypeInv, NEW l \in Server, Commit(l)
  PROVE  /\ Len(chosen) + 1 \in 1..Len(raft[l].log)
         /\ raft[l].log[Len(chosen) + 1] \in Entry
         /\ chosen' \in Seq(Entry)
         /\ Len(chosen') = Len(chosen) + 1
         /\ \A i \in 1..Len(chosen) : chosen'[i] = chosen[i]
         /\ chosen'[Len(chosen) + 1] = raft[l].log[Len(chosen) + 1]
<1>1. raft[l].log \in Seq(Entry) /\ chosen \in Seq(Entry) /\ Len(chosen) \in Nat
  BY DEF TypeInv
<1>2. Len(chosen) + 1 \in 1..Len(raft[l].log)
  BY <1>1 DEF Commit
<1>3. raft[l].log[Len(chosen) + 1] \in Entry
  BY <1>1, <1>2
<1>4. chosen' = Append(chosen, raft[l].log[Len(chosen) + 1])
  BY DEF Commit
<1> QED
  BY <1>1, <1>2, <1>3, <1>4, AppendFacts

\* Commit extends the history by one point, and moves none.
LEMMA CommitHist ==
  ASSUME TypeInv, HistInv, NEW l \in Server, Commit(l)
  PROVE  /\ DOMAIN hist' = 0..(Len(chosen) + 1)
         /\ \A i \in 0..Len(chosen) : hist'[i] = hist[i]
         /\ hist'[Len(chosen) + 1] = execute(Now, raft[l].log[Len(chosen) + 1])
<1>1. Len(chosen) \in Nat
  BY DEF TypeInv
<1>2. hist' = [j \in 0..(Len(chosen) + 1) |->
                 IF j = Len(chosen) + 1 THEN execute(Now, raft[l].log[Len(chosen) + 1])
                 ELSE hist[j]]
  BY DEF Commit
<1> QED
  BY <1>1, <1>2

\* Commit.
LEMMA CommitInv ==
  ASSUME IndInv, NEW l \in Server, Commit(l)
  PROVE  IndInv'
<1>0. UNCHANGED <<term, raft, srv, chans, handlers, clerk, calls>> /\ Len(chosen) \in Nat
  BY DEF Commit, bounds, IndInv, TypeInv
<1>1. /\ chosen' \in Seq(Entry)
      /\ Len(chosen') = Len(chosen) + 1
      /\ \A i \in 1..Len(chosen) : chosen'[i] = chosen[i]
      /\ chosen'[Len(chosen) + 1] = raft[l].log[Len(chosen) + 1]
  BY CommitEntry DEF IndInv
<1>2. /\ DOMAIN hist' = 0..(Len(chosen) + 1)
      /\ \A i \in 0..Len(chosen) : hist'[i] = hist[i]
      /\ hist'[Len(chosen) + 1] = execute(Now, raft[l].log[Len(chosen) + 1])
  BY CommitHist DEF IndInv
<1>3. TypeInv'
  BY <1>0, <1>1 DEF IndInv, TypeInv
<1>4. ClerkInv'
  BY <1>0, <1>1 DEF IndInv, ClerkInv
<1>5. HistInv'
  <2>1. hist'[0] = NewState
    BY <1>0, <1>2 DEF IndInv, HistInv
  <2>2. ASSUME NEW i \in 1..Len(chosen)
        PROVE  hist'[i] = execute(hist'[i - 1], chosen'[i])
    BY <1>0, <1>1, <1>2 DEF IndInv, HistInv
  <2>3. hist'[Len(chosen) + 1] = execute(hist'[Len(chosen)], chosen'[Len(chosen) + 1])
    BY <1>0, <1>1, <1>2 DEF Now
  <2>4. ASSUME NEW i \in 1..Len(chosen')
        PROVE  hist'[i] = execute(hist'[i - 1], chosen'[i])
    <3>1. CASE i \in 1..Len(chosen)
      BY <3>1, <2>2
    <3>2. CASE i = Len(chosen) + 1
      BY <3>2, <2>3, <1>0
    <3> QED
      BY <3>1, <3>2, <1>0, <1>1
  <2> QED
    BY <1>1, <1>2, <2>1, <2>4 DEF HistInv
<1>6. ServerInv'
  <2>1. DOMAIN srv' = Server
    BY <1>0 DEF IndInv, ServerInv
  <2>2. ASSUME NEW s \in Server
        PROVE  ServerOK(srv[s], raft[s].applied)'
    <3>1. /\ ServerOK(srv[s], raft[s].applied)
          /\ raft[s].applied \in Nat
      BY DEF IndInv, ServerInv, TypeInv
    <3>2. /\ raft[s].applied \in 0..Len(chosen)
          /\ srv[s].snap.index \in 0..Len(chosen)
      BY <1>0, <3>1 DEF ServerOK
    <3>3. /\ hist'[raft[s].applied] = hist[raft[s].applied]
          /\ hist'[srv[s].snap.index] = hist[srv[s].snap.index]
          /\ raft[s].applied <= Len(chosen')
      BY <1>0, <1>1, <1>2, <3>2
    <3> QED
      BY <1>0, <3>1, <3>3, Zenon DEF ServerOK
  <2> QED
    BY <2>1, <2>2 DEF ServerInv
<1>7. ChanInv'
  <2>1. ASSUME NEW s \in Server, NEW k \in chans[s]
        PROVE  ChanOK(k, raft[s].applied)'
    <3>1. raft[s].applied \in 0..Len(chosen)
      BY DEF IndInv, ServerInv, ServerOK, TypeInv
    <3>2. ChanOK(k, raft[s].applied)
      BY DEF IndInv, ChanInv
    <3>3. k.index \in 1..raft[s].applied =>
            /\ hist'[k.index - 1] = hist[k.index - 1]
            /\ chosen'[k.index] = chosen[k.index]
      BY <1>0, <1>1, <1>2, <3>1
    <3> QED
      BY <1>0, <3>2, <3>3 DEF ChanOK
  <2> QED
    BY <1>0, <2>1 DEF IndInv, ChanInv
<1> QED
  BY <1>3, <1>4, <1>5, <1>6, <1>7 DEF IndInv

-----------------------------------------------------------------------------
(* The clerks. *)

\* The handler of a new call.
LEMMA CallType ==
  ASSUME NEW c \in Clerk, NEW n \in Nat, NEW s \in Server, NEW q \in Nat, NEW op \in Op
  PROVE  call(c, n, s, q, op) \in Handler
  BY DEF call, Handler

\* Invoke.
LEMMA InvokeInv ==
  ASSUME IndInv, NEW c \in Clerk, NEW op \in Op, Invoke(c, op)
  PROVE  IndInv'
<1>0. /\ UNCHANGED <<term, chosen, hist, raft, srv, chans>>
      /\ calls' = calls + 1
      /\ calls \in Nat /\ Len(chosen) \in Nat
  BY DEF Invoke, agreed, IndInv, TypeInv
<1>1. call(c, calls + 1, clerk[c].leaderId, clerk[c].seqId, op) \in Handler
  BY <1>0, CallType DEF IndInv, ClerkInv
<1>2. TypeInv'
  BY <1>0, <1>1 DEF IndInv, TypeInv, Invoke
<1>3. ClerkInv'
  <2>1. clerk' = [clerk EXCEPT ![c].op = op, ![c].ops = clerk[c].ops + 1, ![c].n = calls + 1,
                               ![c].since = Len(chosen), ![c].reply = None]
    BY DEF Invoke
  <2>2. DOMAIN clerk' = Clerk /\ \A d \in Clerk \ {c} : clerk'[d] = clerk[d]
    BY <2>1 DEF IndInv, ClerkInv
  <2>3. /\ DOMAIN clerk'[c] = {"leaderId", "seqId", "n", "op", "ops", "since", "reply", "ret"}
        /\ clerk'[c].leaderId = clerk[c].leaderId
        /\ clerk'[c].seqId = clerk[c].seqId
        /\ clerk'[c].n = calls + 1
        /\ clerk'[c].op = op
        /\ clerk'[c].since = Len(chosen)
    BY <2>1 DEF IndInv, ClerkInv
  <2>4. ASSUME NEW d \in Clerk
        PROVE  /\ DOMAIN clerk'[d] = {"leaderId", "seqId", "n", "op", "ops", "since", "reply", "ret"}
               /\ clerk'[d].leaderId \in Server
               /\ clerk'[d].seqId \in Nat
               /\ clerk'[d].n \in 0..calls'
               /\ clerk'[d].op \in Op \cup {None}
               /\ clerk'[d].since \in 0..Len(chosen')
    <3>1. CASE d = c
      BY <1>0, <2>3, <3>1 DEF IndInv, ClerkInv
    <3>2. CASE d # c
      BY <1>0, <2>2, <3>2 DEF IndInv, ClerkInv
    <3> QED
      BY <3>1, <3>2
  <2> QED
    BY <2>2, <2>4 DEF ClerkInv
<1>4. HistInv' /\ ServerInv' /\ ChanInv'
  BY <1>0, HistKept, ServersKept, ChansKept DEF IndInv
<1> QED
  BY <1>2, <1>3, <1>4 DEF IndInv

\* Retry: the next server is one.
LEMMA RetryInv ==
  ASSUME IndInv, NEW c \in Clerk, Retry(c)
  PROVE  IndInv'
<1> DEFINE next == (clerk[c].leaderId + 1) % N
<1>0. /\ UNCHANGED <<term, chosen, hist, raft, srv, chans>>
      /\ calls' = calls + 1
      /\ calls \in Nat
  BY DEF Retry, agreed, IndInv, TypeInv
<1>1. next \in Server
  BY ServiceAssumption DEF IndInv, ClerkInv, Server
<1>2. call(c, calls + 1, next, clerk[c].seqId, clerk[c].op) \in Handler
  <2>1. clerk[c].op \in Op /\ clerk[c].seqId \in Nat
    BY DEF Retry, IndInv, ClerkInv
  <2> QED
    BY <1>0, <1>1, <2>1, CallType
<1>3. /\ handlers' = handlers \cup {call(c, calls + 1, next, clerk[c].seqId, clerk[c].op)}
      /\ clerk' = [clerk EXCEPT ![c].leaderId = next, ![c].n = calls + 1, ![c].reply = None]
  BY DEF Retry
<1> HIDE DEF next
<1>4. TypeInv'
  BY <1>0, <1>2, <1>3 DEF IndInv, TypeInv
<1>5. ClerkInv'
  BY <1>0, <1>1, <1>3 DEF IndInv, ClerkInv
<1>6. HistInv' /\ ServerInv' /\ ChanInv'
  BY <1>0, HistKept, ServersKept, ChansKept DEF IndInv
<1> QED
  BY <1>4, <1>5, <1>6 DEF IndInv

\* Return.
LEMMA ReturnInv ==
  ASSUME IndInv, NEW c \in Clerk, Return(c)
  PROVE  IndInv'
<1>0. UNCHANGED <<term, chosen, hist, raft, srv, chans, handlers, calls>>
  BY DEF Return, agreed, bounds
<1>1. TypeInv'
  BY <1>0 DEF IndInv, TypeInv
<1>2. nextSeqId(clerk[c]) \in Nat
  BY DEF nextSeqId, IndInv, ClerkInv
<1>3. clerk' = [clerk EXCEPT ![c].op = None, ![c].seqId = nextSeqId(clerk[c]),
                             ![c].ret = clerk[c].reply, ![c].reply = None]
  BY DEF Return
<1>4. ClerkInv'
  BY <1>0, <1>2, <1>3 DEF IndInv, ClerkInv
<1>5. HistInv' /\ ServerInv' /\ ChanInv'
  BY <1>0, HistKept, ServersKept, ChansKept DEF IndInv
<1> QED
  BY <1>1, <1>4, <1>5 DEF IndInv

-----------------------------------------------------------------------------
(* The handlers. *)

\* The entry of a handler is one.
LEMMA EntryType ==
  ASSUME NEW h \in Handler, NEW t \in Nat
  PROVE  entry(h, t) \in Entry
  BY DEF entry, Entry, Handler

\* rf.Start appends one entry to the log of the server, or the clerk hears ErrWrongLeader.
LEMMA StartFacts ==
  ASSUME IndInv, NEW h \in handlers, StartAgreement(h), UNCHANGED <<calls, chosen>>
  PROVE  /\ raft' \in [Server -> [log : Seq(Entry), lead : Nat, applied : Nat]]
         /\ \A s \in Server : raft'[s].applied = raft[s].applied
         /\ handlers' \in SUBSET Handler
         /\ ClerkInv'
<1>1. /\ h \in Handler /\ h.srv \in Server /\ handlers \in SUBSET Handler
      /\ raft \in [Server -> [log : Seq(Entry), lead : Nat, applied : Nat]]
  BY DEF IndInv, TypeInv, Handler
<1>2. CASE Leads(h.srv)
  <2>1. /\ raft' = [raft EXCEPT ![h.srv].log = Append(raft[h.srv].log, entry(h, raft[h.srv].lead))]
        /\ Go(h, [h EXCEPT !.pc = "channel", !.index = Len(raft[h.srv].log) + 1,
                           !.term = raft[h.srv].lead])
        /\ UNCHANGED clerk
    BY <1>2 DEF StartAgreement, Start
  <2>2. /\ raft[h.srv].lead \in Nat
        /\ raft[h.srv].log \in Seq(Entry)
        /\ Len(raft[h.srv].log) \in Nat
    BY <1>1
  <2>3. Append(raft[h.srv].log, entry(h, raft[h.srv].lead)) \in Seq(Entry)
    BY <1>1, <2>2, EntryType, AppendFacts
  <2>4. [h EXCEPT !.pc = "channel", !.index = Len(raft[h.srv].log) + 1,
                  !.term = raft[h.srv].lead] \in Handler
    <3> DEFINE index == Len(raft[h.srv].log) + 1
               t == raft[h.srv].lead
    <3>1. index \in Nat /\ t \in Nat
      BY <2>2
    <3> HIDE DEF index, t
    <3>2. [h EXCEPT !.pc = "channel", !.index = index, !.term = t] \in Handler
      BY <1>1, <3>1, Zenon DEF Handler
    <3> QED
      BY <3>2 DEF index, t
  <2>5. handlers' \in SUBSET Handler
    BY <1>1, <2>1, <2>4, GoType, Zenon
  <2>6. ClerkInv'
    BY <2>1, ClerksKept DEF IndInv
  <2> QED
    BY <1>1, <2>1, <2>3, <2>5, <2>6, Zenon
<1>3. CASE ~Leads(h.srv)
  <2>1. /\ Respond(h, ErrWrongLeader)
        /\ handlers' = handlers \ {h}
        /\ UNCHANGED raft
    BY <1>3 DEF StartAgreement
  <2>2. ClerkInv'
    BY <1>1, <2>1, RespondKeeps DEF IndInv
  <2> QED
    BY <1>1, <2>1, <2>2
<1> QED
  BY <1>2, <1>3

\* A step of a handler that leaves the channels alone.
LEMMA HandlerKeeps ==
  ASSUME IndInv, UNCHANGED <<term, chosen, hist, srv, chans, calls>>,
         raft' \in [Server -> [log : Seq(Entry), lead : Nat, applied : Nat]],
         \A s \in Server : raft'[s].applied = raft[s].applied,
         handlers' \in SUBSET Handler, ClerkInv'
  PROVE  IndInv'
<1>1. TypeInv'
  BY DEF IndInv, TypeInv
<1>2. HistInv' /\ ServerInv' /\ ChanInv'
  BY HistKept, ServersKept, ChansKept DEF IndInv
<1> QED
  BY <1>1, <1>2 DEF IndInv

\* Get, and the second part of PutAppend.
LEMMA StartInv ==
  ASSUME IndInv, NEW h \in handlers, Get(h) \/ PutAppendStart(h)
  PROVE  IndInv'
<1>1. StartAgreement(h) /\ UNCHANGED <<term, chosen, hist, srv, chans, calls>>
  BY DEF Get, PutAppendStart, agreed, bounds
<1>2. /\ raft' \in [Server -> [log : Seq(Entry), lead : Nat, applied : Nat]]
      /\ \A s \in Server : raft'[s].applied = raft[s].applied
      /\ handlers' \in SUBSET Handler
      /\ ClerkInv'
  BY <1>1, StartFacts
<1> QED
  BY <1>1, <1>2, HandlerKeeps

\* The first part of PutAppend, which looks for a duplicate.
LEMMA PutAppendInv ==
  ASSUME IndInv, NEW h \in handlers, PutAppend(h)
  PROVE  IndInv'
<1>0. UNCHANGED <<term, chosen, hist, srv, chans, calls, raft>>
  BY DEF PutAppend, agreed, bounds
<1>1. h \in Handler /\ handlers \in SUBSET Handler
  BY DEF IndInv, TypeInv
<1>2. handlers' \in SUBSET Handler /\ ClerkInv'
  <2> DEFINE dup == srv[h.srv].state.dup
  <2>1. CASE requestDuplicate(dup, h.clerk, h.seqId)
    <3>1. Respond(h, dup[h.clerk].Reply) /\ handlers' = handlers \ {h}
      BY <2>1 DEF PutAppend
    <3> QED
      BY <1>0, <1>1, <3>1, RespondKeeps DEF IndInv
  <2>2. CASE ~requestDuplicate(dup, h.clerk, h.seqId)
    <3>1. Go(h, [h EXCEPT !.pc = "start"]) /\ UNCHANGED clerk
      BY <2>2 DEF PutAppend
    <3>2. [h EXCEPT !.pc = "start"] \in Handler
      BY <1>1 DEF Handler
    <3> QED
      BY <1>0, <1>1, <3>1, <3>2, GoType, ClerksKept DEF IndInv
  <2> QED
    BY <2>1, <2>2
<1>3. /\ raft' \in [Server -> [log : Seq(Entry), lead : Nat, applied : Nat]]
      /\ \A s \in Server : raft'[s].applied = raft[s].applied
  BY <1>0 DEF IndInv, TypeInv
<1> QED
  BY <1>0, <1>2, <1>3, HandlerKeeps

\* The timeout of a handler.
LEMMA TimeoutInv ==
  ASSUME IndInv, NEW h \in handlers, awaitTimeout(h)
  PROVE  IndInv'
<1>0. UNCHANGED <<term, chosen, hist, srv, chans, calls, raft>>
  BY DEF awaitTimeout, agreed, bounds
<1>1. h \in Handler /\ handlers \in SUBSET Handler
  BY DEF IndInv, TypeInv
<1>2. Respond(h, ErrTimeout) /\ Go(h, [h EXCEPT !.pc = "remove"])
  BY DEF awaitTimeout
<1>3. [h EXCEPT !.pc = "remove"] \in Handler
  BY <1>1 DEF Handler
<1>4. handlers' \in SUBSET Handler /\ ClerkInv'
  BY <1>0, <1>1, <1>2, <1>3, GoType, RespondKeeps DEF IndInv
<1>5. /\ raft' \in [Server -> [log : Seq(Entry), lead : Nat, applied : Nat]]
      /\ \A s \in Server : raft'[s].applied = raft[s].applied
  BY <1>0 DEF IndInv, TypeInv
<1> QED
  BY <1>0, <1>4, <1>5, HandlerKeeps

-----------------------------------------------------------------------------
(* The channels. *)

\* An empty channel of any index is one.
LEMMA EmptyChannel ==
  ASSUME NEW i \in Nat, NEW id \in Nat, NEW m, NEW n
  PROVE  ChanOK(channel(i, id, m, None), n)
  BY DEF ChanOK, channel

\* What a channel holds does not depend on whether it is mapped.
LEMMA SameChannel ==
  ASSUME NEW k, NEW m, NEW n, ChanOK(k, n)
  PROVE  ChanOK(channel(k.index, k.id, m, k.buf), n)
  BY DEF ChanOK, channel

\* getNotifyChannel adds at most an empty channel.
LEMMA GetChannel ==
  ASSUME NEW chs, NEW n, NEW i \in Nat, NEW id \in Nat, \A k \in chs : ChanOK(k, n)
  PROVE  \A k \in getNotifyChannel(chs, i, id) : ChanOK(k, n)
<1> SUFFICES ASSUME NEW k \in getNotifyChannel(chs, i, id) PROVE ChanOK(k, n)
  OBVIOUS
<1>1. k \in chs \/ k = channel(i, id, TRUE, None)
  BY Zenon DEF getNotifyChannel
<1> QED
  BY <1>1, EmptyChannel, Zenon

\* removeNotifyChannel only unmaps.
LEMMA RemoveChannel ==
  ASSUME NEW chs, NEW n, NEW i, \A k \in chs : ChanOK(k, n)
  PROVE  \A k \in removeNotifyChannel(chs, i) : ChanOK(k, n)
<1> SUFFICES ASSUME NEW k \in removeNotifyChannel(chs, i) PROVE ChanOK(k, n)
  OBVIOUS
<1>1. PICK g \in chs : k = channel(g.index, g.id, g.mapped /\ g.index # i, g.buf)
  BY DEF removeNotifyChannel
<1> QED
  BY <1>1, SameChannel

\* notify fills the channel of an entry with the reply of that entry, when the entry
\* is the next to apply.
LEMMA NotifyChannel ==
  ASSUME NEW chs, NEW n \in Nat, \A k \in chs : ChanOK(k, n), NEW reply,
         reply = replyTo(hist[n], chosen[n + 1])
  PROVE  \A k \in notify(chs, n + 1, reply) : ChanOK(k, n + 1)
<1> SUFFICES ASSUME NEW k \in notify(chs, n + 1, reply) PROVE ChanOK(k, n + 1)
  OBVIOUS
<1>1. PICK g \in getNotifyChannel(chs, n + 1, 0) :
        k = channel(g.index, g.id, g.mapped,
                    IF g.mapped /\ g.index = n + 1 THEN reply ELSE g.buf)
  BY DEF notify
<1>2. ChanOK(g, n)
  BY GetChannel
<1>3. CASE g.mapped /\ g.index = n + 1
  <2>1. k.index = n + 1 /\ k.id = g.id /\ k.buf = reply
    BY <1>1, <1>3 DEF channel
  <2> QED
    BY <1>2, <2>1 DEF ChanOK
<1>4. CASE ~(g.mapped /\ g.index = n + 1)
  <2>1. k.index = g.index /\ k.id = g.id /\ k.buf = g.buf
    BY <1>1, <1>4 DEF channel
  <2> QED
    BY <1>2, <2>1 DEF ChanOK
<1> QED
  BY <1>3, <1>4

\* A step of a handler that changes the channels of its server.
LEMMA ChannelStep ==
  ASSUME IndInv, NEW s \in Server, NEW chs, UNCHANGED <<term, chosen, hist, raft, srv, calls>>,
         chans' = [chans EXCEPT ![s] = chs],
         \A k \in chs : ChanOK(k, raft[s].applied),
         handlers' \in SUBSET Handler, ClerkInv'
  PROVE  IndInv'
<1>1. TypeInv'
  BY DEF IndInv, TypeInv
<1>2. HistInv' /\ ServerInv'
  BY HistKept, ServersKept DEF IndInv
<1>3. DOMAIN chans' = Server
  BY DEF IndInv, ChanInv
<1>4. ASSUME NEW x \in Server, NEW k \in chans'[x]
      PROVE  ChanOK(k, raft[x].applied)'
  <2>1. ChanOK(k, raft[x].applied)
    BY <1>4 DEF IndInv, ChanInv
  <2> QED
    BY <2>1 DEF ChanOK
<1>5. ChanInv'
  BY <1>3, <1>4 DEF ChanInv
<1> QED
  BY <1>1, <1>2, <1>5 DEF IndInv

\* A handler looks up its channel.
LEMMA ChannelInv ==
  ASSUME IndInv, NEW h \in handlers, awaitChannel(h)
  PROVE  IndInv'
<1> DEFINE chs == getNotifyChannel(chans[h.srv], h.index, h.n)
<1>0. UNCHANGED <<term, chosen, hist, srv, calls, raft, clerk>>
  BY DEF awaitChannel, agreed, bounds
<1>1. /\ h \in Handler /\ handlers \in SUBSET Handler
      /\ h.srv \in Server /\ h.index \in Nat /\ h.n \in Nat
  BY DEF IndInv, TypeInv, Handler
<1>2. \A k \in chans[h.srv] : ChanOK(k, raft[h.srv].applied)
  BY <1>1 DEF IndInv, ChanInv
<1>3. \A k \in chs : ChanOK(k, raft[h.srv].applied)
  BY <1>1, <1>2, GetChannel
<1>4. PICK k \in Mapped(chs, h.index) : Go(h, [h EXCEPT !.pc = "wait", !.ch = k.id])
  BY Zenon DEF awaitChannel
<1>5. chans' = [chans EXCEPT ![h.srv] = chs]
  BY DEF awaitChannel
<1>6. k.id \in Nat
  BY <1>3, <1>4 DEF Mapped, ChanOK
<1> HIDE DEF chs
<1>7. [h EXCEPT !.pc = "wait", !.ch = k.id] \in Handler
  BY <1>1, <1>6, Zenon DEF Handler
<1>8. handlers' \in SUBSET Handler
  BY <1>1, <1>4, <1>7, GoType
<1>9. ClerkInv'
  BY <1>0, ClerksKept DEF IndInv
<1> QED
  BY <1>0, <1>1, <1>3, <1>5, <1>8, <1>9, ChannelStep, Zenon

\* A handler receives its reply.
LEMMA ResultInv ==
  ASSUME IndInv, NEW h \in handlers, awaitResult(h)
  PROVE  IndInv'
<1>0. UNCHANGED <<term, chosen, hist, srv, calls, raft>>
  BY DEF awaitResult, agreed, bounds
<1>1. h \in Handler /\ handlers \in SUBSET Handler /\ h.srv \in Server
  BY DEF IndInv, TypeInv, Handler
<1>2. \A k \in chans[h.srv] : ChanOK(k, raft[h.srv].applied)
  BY <1>1 DEF IndInv, ChanInv
<1>3. PICK k \in chans[h.srv] :
        /\ chans' = [chans EXCEPT ![h.srv] =
                       (chans[h.srv] \ {k}) \cup {channel(k.index, k.id, k.mapped, None)}]
        /\ Respond(h, k.buf)
  BY Zenon DEF awaitResult
<1>4. ChanOK(channel(k.index, k.id, k.mapped, None), raft[h.srv].applied)
  BY <1>2, EmptyChannel, Zenon DEF ChanOK
<1>5. \A g \in (chans[h.srv] \ {k}) \cup {channel(k.index, k.id, k.mapped, None)} :
        ChanOK(g, raft[h.srv].applied)
  BY <1>2, <1>4
<1>6. [h EXCEPT !.pc = "remove"] \in Handler
  BY <1>1 DEF Handler
<1>7. handlers' \in SUBSET Handler
  BY <1>1, <1>6, GoType DEF awaitResult
<1>8. ClerkInv'
  BY <1>0, <1>1, <1>3, RespondKeeps DEF IndInv
<1> QED
  BY <1>0, <1>1, <1>3, <1>5, <1>7, <1>8, ChannelStep, Zenon

\* The goroutine that removes the channel.
LEMMA RemoveInv ==
  ASSUME IndInv, NEW h \in handlers, removeChannel(h)
  PROVE  IndInv'
<1>0. UNCHANGED <<term, chosen, hist, srv, calls, raft, clerk>>
  BY DEF removeChannel, agreed, bounds
<1>1. h \in Handler /\ handlers \in SUBSET Handler /\ h.srv \in Server
  BY DEF IndInv, TypeInv, Handler
<1>2. \A k \in chans[h.srv] : ChanOK(k, raft[h.srv].applied)
  BY <1>1 DEF IndInv, ChanInv
<1>3. \A k \in removeNotifyChannel(chans[h.srv], h.index) : ChanOK(k, raft[h.srv].applied)
  BY <1>2, RemoveChannel
<1>4. /\ chans' = [chans EXCEPT ![h.srv] = removeNotifyChannel(chans[h.srv], h.index)]
      /\ handlers' \in SUBSET Handler
  BY <1>1 DEF removeChannel
<1>5. ClerkInv'
  BY <1>0, ClerksKept DEF IndInv
<1> QED
  BY <1>0, <1>1, <1>3, <1>4, <1>5, ChannelStep, Zenon

-----------------------------------------------------------------------------
(* The apply task, snapshots, crashes. *)

\* The server after the next entry: one point further in the history.
LEMMA ApplyServer ==
  ASSUME IndInv, NEW s \in Server, NEW take \in BOOLEAN, applyTask(s, take)
  PROVE  /\ raft[s].applied + 1 \in 1..Len(chosen)
         /\ srv[s].state = hist[raft[s].applied]
         /\ srv[s].lastApplied <= raft[s].applied
         /\ execute(srv[s].state, chosen[raft[s].applied + 1]) = hist[raft[s].applied + 1]
<1>1. raft[s].applied \in Nat /\ Len(chosen) \in Nat /\ ServerOK(srv[s], raft[s].applied)
  BY DEF IndInv, TypeInv, ServerInv
<1>2. raft[s].applied + 1 \in DOMAIN chosen
  BY DEF applyTask
<1>3. DOMAIN chosen = 1..Len(chosen)
  BY DEF IndInv, TypeInv
<1>4. raft[s].applied + 1 \in 1..Len(chosen)
  BY <1>2, <1>3
<1>5. hist[raft[s].applied + 1] = execute(hist[raft[s].applied], chosen[raft[s].applied + 1])
  BY <1>1, <1>4 DEF IndInv, HistInv
<1> QED
  BY <1>1, <1>4, <1>5 DEF ServerOK

\* applyTask.  An entry is never one that a snapshot has brought already, since
\* lastApplied is at most what Raft has handed over.
LEMMA ApplyInv ==
  ASSUME IndInv, NEW s \in Server, NEW take \in BOOLEAN, applyTask(s, take)
  PROVE  IndInv'
<1> DEFINE i == raft[s].applied + 1
           e == chosen[i]
           state == execute(srv[s].state, e)
<1>0. UNCHANGED <<term, chosen, hist, handlers, clerk, calls>>
  BY DEF applyTask, agreed
<1>1. /\ i \in 1..Len(chosen)
      /\ srv[s].state = hist[raft[s].applied]
      /\ srv[s].lastApplied <= raft[s].applied
      /\ state = hist[i]
  BY ApplyServer
<1>2. /\ raft[s].applied \in Nat /\ i \in Nat /\ Len(chosen) \in Nat
      /\ raft \in [Server -> [log : Seq(Entry), lead : Nat, applied : Nat]]
      /\ ServerOK(srv[s], raft[s].applied)
  BY DEF IndInv, TypeInv, ServerInv
<1>3. raft' = [raft EXCEPT ![s].applied = i]
  BY DEF applyTask
<1>4. /\ srv' = [srv EXCEPT ![s] =
                   [state |-> state, lastApplied |-> i,
                    snap |-> IF take THEN makeSnapshot(state, i) ELSE srv[s].snap]]
      /\ chans' = [chans EXCEPT ![s] = IF Leads(s)
                     THEN notify(chans[s], i, replyTo(srv[s].state, e)) ELSE chans[s]]
  <2>1. ~(i <= srv[s].lastApplied)
    <3>1. srv[s].lastApplied \in Nat
      BY <1>2 DEF ServerOK
    <3> QED
      BY <1>1, <1>2, <3>1
  <2> QED
    BY <2>1 DEF applyTask
<1>5. replyTo(srv[s].state, e) = replyTo(hist[raft[s].applied], chosen[raft[s].applied + 1])
  BY <1>1
<1> HIDE DEF state, e, i
<1>6. /\ raft' \in [Server -> [log : Seq(Entry), lead : Nat, applied : Nat]]
      /\ raft'[s].applied = i
      /\ \A x \in Server \ {s} : raft'[x].applied = raft[x].applied
  BY <1>2, <1>3, Zenon
<1>7. TypeInv'
  BY <1>0, <1>6 DEF IndInv, TypeInv
<1>8. ClerkInv' /\ HistInv'
  BY <1>0, ClerksKept, HistKept DEF IndInv
<1>9. ServerInv'
  <2>1. DOMAIN srv' = Server
    BY <1>4 DEF IndInv, ServerInv
  <2>2. srv'[s] = [state |-> state, lastApplied |-> i,
                   snap |-> IF take THEN makeSnapshot(state, i) ELSE srv[s].snap]
    BY <1>4 DEF IndInv, ServerInv
  <2>3. /\ srv'[s].snap.index \in 0..i
        /\ srv'[s].snap.state = hist[srv'[s].snap.index]
    <3>1. CASE take
      BY <3>1, <2>2, <1>1, <1>2 DEF makeSnapshot
    <3>2. CASE ~take
      <4>1. srv'[s].snap = srv[s].snap
        BY <3>2, <2>2
      <4>2. srv[s].snap.index \in 0..i
        BY <1>2 DEF ServerOK, i
      <4> QED
        BY <4>1, <4>2, <1>2 DEF ServerOK
    <3> QED
      BY <3>1, <3>2
  <2>4. ServerOK(srv[s], raft[s].applied)'
    <3>1. /\ DOMAIN srv'[s] = {"state", "lastApplied", "snap"}
          /\ srv'[s].state = hist'[i]
          /\ srv'[s].lastApplied \in 0..i
      BY <1>0, <1>1, <1>2, <2>2
    <3>2. i <= Len(chosen')
      BY <1>0, <1>1
    <3> QED
      BY <1>0, <1>6, <2>3, <3>1, <3>2, Zenon DEF ServerOK
  <2>5. ASSUME NEW x \in Server \ {s}
        PROVE  ServerOK(srv[x], raft[x].applied)'
    <3>1. srv'[x] = srv[x]
      BY <1>4 DEF IndInv, ServerInv
    <3>2. ServerOK(srv[x], raft[x].applied)
      BY DEF IndInv, ServerInv
    <3> QED
      BY <1>0, <1>6, <3>1, <3>2 DEF ServerOK
  <2> QED
    BY <2>1, <2>4, <2>5 DEF ServerInv
<1>10. ChanInv'
  <2>1. DOMAIN chans' = Server
    BY <1>4 DEF IndInv, ChanInv
  <2>2. \A k \in chans[s] : ChanOK(k, raft[s].applied)
    BY DEF IndInv, ChanInv
  <2>3. \A k \in chans'[s] : ChanOK(k, i)
    <3>1. CASE Leads(s)
      <4>1. chans'[s] = notify(chans[s], raft[s].applied + 1, replyTo(srv[s].state, e))
        BY <1>4, <3>1 DEF IndInv, ChanInv, i
      <4>2. \A k \in notify(chans[s], raft[s].applied + 1, replyTo(srv[s].state, e)) :
              ChanOK(k, raft[s].applied + 1)
        BY <1>2, <1>5, <2>2, NotifyChannel, Zenon
      <4> QED
        BY <4>1, <4>2 DEF i
    <3>2. CASE ~Leads(s)
      <4>1. chans'[s] = chans[s]
        BY <1>4, <3>2 DEF IndInv, ChanInv
      <4> QED
        <5> SUFFICES ASSUME NEW k \in chans[s] PROVE ChanOK(k, i)
          BY <4>1
        <5>1. ChanOK(k, raft[s].applied)
          BY <2>2
        <5>2. 1..raft[s].applied \subseteq 1..i
          BY <1>2 DEF i
        <5> QED
          BY <5>1, <5>2, Zenon DEF ChanOK
    <3> QED
      BY <3>1, <3>2
  <2>4. ASSUME NEW x \in Server, NEW k \in chans'[x]
        PROVE  ChanOK(k, raft[x].applied)'
    <3>1. CASE x = s
      BY <3>1, <2>3, <2>4, <1>0, <1>6, Zenon DEF ChanOK
    <3>2. CASE x # s
      <4>1. k \in chans[x] /\ raft'[x].applied = raft[x].applied
        BY <1>4, <1>6, <2>4, <3>2 DEF IndInv, ChanInv
      <4>2. ChanOK(k, raft[x].applied)
        BY <4>1 DEF IndInv, ChanInv
      <4> QED
        BY <1>0, <4>1, <4>2 DEF ChanOK
    <3> QED
      BY <3>1, <3>2
  <2> QED
    BY <2>1, <2>4 DEF ChanInv
<1> QED
  BY <1>7, <1>8, <1>9, <1>10 DEF IndInv

\* The start of a sequence.
LEMMA PrefixFacts ==
  ASSUME NEW S, NEW q \in Seq(S), NEW n \in 0..Len(q)
  PROVE  /\ SubSeq(q, 1, n) \in Seq(S)
         /\ Len(SubSeq(q, 1, n)) = n
         /\ \A j \in 1..n : SubSeq(q, 1, n)[j] = q[j]
  OBVIOUS

\* A snapshot handed to applyTask: the leader's point of the history.
LEMMA SnapshotInv ==
  ASSUME IndInv, NEW l \in Server, NEW s \in Server, applySnapshot(l, s)
  PROVE  IndInv'
<1> DEFINE snap == srv[l].snap
<1>0. UNCHANGED <<term, chosen, hist, chans, handlers, clerk, calls>>
  BY DEF applySnapshot, agreed, bounds
<1>1. /\ raft \in [Server -> [log : Seq(Entry), lead : Nat, applied : Nat]]
      /\ ServerOK(srv[l], raft[l].applied) /\ ServerOK(srv[s], raft[s].applied)
      /\ chosen \in Seq(Entry) /\ Len(chosen) \in Nat
  BY DEF IndInv, TypeInv, ServerInv
<1>2. /\ snap.index \in 0..Len(chosen)
      /\ snap.state = hist[snap.index]
      /\ snap.index > raft[s].applied
  BY <1>1 DEF applySnapshot, ServerOK
<1>3. /\ raft' = [raft EXCEPT ![s] = [log |-> SubSeq(chosen, 1, snap.index), lead |-> 0,
                                     applied |-> snap.index]]
      /\ srv' = [srv EXCEPT ![s].state = restoreFromSnapshot(srv[s].state, snap),
                            ![s].lastApplied = snap.index, ![s].snap = snap]
  BY DEF applySnapshot
<1>4. restoreFromSnapshot(srv[s].state, snap) = hist[snap.index]
  <2>1. snap.index # 0
    BY <1>1, <1>2
  <2> QED
    BY <1>2, <2>1 DEF restoreFromSnapshot
<1> HIDE DEF snap
<1>5. /\ raft' \in [Server -> [log : Seq(Entry), lead : Nat, applied : Nat]]
      /\ raft'[s].applied = snap.index
      /\ \A x \in Server \ {s} : raft'[x].applied = raft[x].applied
  <2>1. SubSeq(chosen, 1, snap.index) \in Seq(Entry)
    BY <1>1, <1>2, PrefixFacts
  <2> QED
    BY <1>1, <1>2, <1>3, <2>1
<1>6. TypeInv'
  BY <1>0, <1>5 DEF IndInv, TypeInv
<1>7. ClerkInv' /\ HistInv'
  BY <1>0, ClerksKept, HistKept DEF IndInv
<1>8. ServerInv'
  <2>1. DOMAIN srv' = Server
    BY <1>3 DEF IndInv, ServerInv
  <2>2. /\ DOMAIN srv'[s] = {"state", "lastApplied", "snap"}
        /\ srv'[s].state = hist[snap.index]
        /\ srv'[s].lastApplied = snap.index
        /\ srv'[s].snap = snap
    BY <1>1, <1>3, <1>4 DEF IndInv, ServerInv, ServerOK
  <2>3. ServerOK(srv[s], raft[s].applied)'
    <3>1. /\ snap.index <= Len(chosen')
          /\ srv'[s].lastApplied \in 0..snap.index
          /\ srv'[s].snap.index \in 0..snap.index
      BY <1>0, <1>1, <1>2, <2>2
    <3> QED
      BY <1>0, <1>2, <1>5, <2>2, <3>1, Zenon DEF ServerOK
  <2>4. ASSUME NEW x \in Server \ {s}
        PROVE  ServerOK(srv[x], raft[x].applied)'
    <3>1. srv'[x] = srv[x]
      BY <1>3 DEF IndInv, ServerInv
    <3>2. ServerOK(srv[x], raft[x].applied)
      BY DEF IndInv, ServerInv
    <3> QED
      BY <1>0, <1>5, <3>1, <3>2 DEF ServerOK
  <2> QED
    BY <2>1, <2>3, <2>4 DEF ServerInv
<1>9. ChanInv'
  <2>1. ASSUME NEW x \in Server, NEW k \in chans[x]
        PROVE  ChanOK(k, raft[x].applied)'
    <3>1. ChanOK(k, raft[x].applied)
      BY DEF IndInv, ChanInv
    <3>2. raft[x].applied <= raft'[x].applied /\ raft[x].applied \in Nat /\ raft'[x].applied \in Nat
      <4>1. CASE x = s
        BY <1>1, <1>2, <1>5, <4>1
      <4>2. CASE x # s
        <5>1. raft'[x].applied = raft[x].applied
          BY <1>5, <4>2
        <5>2. raft[x].applied \in Nat
          BY <1>1
        <5> QED
          BY <5>1, <5>2
      <4> QED
        BY <4>1, <4>2
    <3> QED
      BY <1>0, <3>1, <3>2 DEF ChanOK
  <2> QED
    BY <1>0, <2>1 DEF IndInv, ChanInv
<1> QED
  BY <1>6, <1>7, <1>8, <1>9 DEF IndInv

\* A crash: the server goes back to its snapshot.
LEMMA RestartInv ==
  ASSUME IndInv, NEW s \in Server, Restart(s)
  PROVE  IndInv'
<1> DEFINE snap == srv[s].snap
<1>0. UNCHANGED <<term, chosen, hist, clerk, calls>>
  BY DEF Restart, agreed
<1>1. /\ raft \in [Server -> [log : Seq(Entry), lead : Nat, applied : Nat]]
      /\ ServerOK(srv[s], raft[s].applied) /\ Len(chosen) \in Nat
  BY DEF IndInv, TypeInv, ServerInv
<1>2. /\ snap.index \in 0..Len(chosen)
      /\ snap.state = hist[snap.index]
  BY <1>1 DEF ServerOK
<1>3. /\ raft' = [raft EXCEPT ![s].lead = 0, ![s].applied = snap.index]
      /\ srv' = [srv EXCEPT ![s] = StartKVServer(snap)]
      /\ chans' = [chans EXCEPT ![s] = {}]
      /\ handlers' \in SUBSET handlers
  BY DEF Restart
<1>4. /\ StartKVServer(snap) = [state |-> hist[snap.index], lastApplied |-> 0, snap |-> snap]
  <2>1. restoreFromSnapshot(NewState, snap) = hist[snap.index]
    BY <1>2 DEF restoreFromSnapshot, IndInv, HistInv
  <2> QED
    BY <2>1, Zenon DEF StartKVServer
<1> HIDE DEF snap
<1>5. /\ raft' \in [Server -> [log : Seq(Entry), lead : Nat, applied : Nat]]
      /\ raft'[s].applied = snap.index
      /\ \A x \in Server \ {s} : raft'[x].applied = raft[x].applied
  <2>1. snap.index \in Nat
    BY <1>1, <1>2
  <2> DEFINE index == snap.index
  <2> HIDE DEF index
  <2> DEFINE r == [raft[s] EXCEPT !.lead = 0, !.applied = index]
  <2>2. r \in [log : Seq(Entry), lead : Nat, applied : Nat] /\ r.applied = index
    BY <1>1, <2>1, Zenon DEF index
  <2>3. raft' = [raft EXCEPT ![s] = r]
    BY <1>3, Zenon DEF index
  <2> HIDE DEF r
  <2> QED
    BY <1>1, <2>2, <2>3 DEF index
<1>6. TypeInv'
  BY <1>0, <1>3, <1>5 DEF IndInv, TypeInv
<1>7. ClerkInv' /\ HistInv'
  BY <1>0, ClerksKept, HistKept DEF IndInv
<1>8. ServerInv'
  <2>1. /\ DOMAIN srv' = Server
        /\ srv'[s] = [state |-> hist[snap.index], lastApplied |-> 0, snap |-> snap]
    BY <1>3, <1>4 DEF IndInv, ServerInv
  <2>2. ServerOK(srv[s], raft[s].applied)'
    <3>1. /\ DOMAIN srv'[s] = {"state", "lastApplied", "snap"}
          /\ srv'[s].state = hist'[snap.index]
          /\ srv'[s].snap = snap
          /\ srv'[s].lastApplied \in 0..snap.index
      BY <1>0, <1>1, <1>2, <2>1
    <3>2. snap.index <= Len(chosen') /\ snap.index \in 0..snap.index
      BY <1>0, <1>1, <1>2
    <3> QED
      BY <1>0, <1>2, <1>5, <3>1, <3>2, Zenon DEF ServerOK
  <2>3. ASSUME NEW x \in Server \ {s}
        PROVE  ServerOK(srv[x], raft[x].applied)'
    <3>1. srv'[x] = srv[x]
      BY <1>3 DEF IndInv, ServerInv
    <3>2. ServerOK(srv[x], raft[x].applied)
      BY DEF IndInv, ServerInv
    <3> QED
      BY <1>0, <1>5, <3>1, <3>2, Zenon DEF ServerOK
  <2> QED
    BY <2>1, <2>2, <2>3 DEF ServerInv
<1>9. ChanInv'
  <2>1. /\ DOMAIN chans' = Server
        /\ chans'[s] = {}
        /\ \A x \in Server \ {s} : chans'[x] = chans[x]
    BY <1>3 DEF IndInv, ChanInv
  <2>2. ASSUME NEW x \in Server \ {s}, NEW k \in chans[x]
        PROVE  ChanOK(k, raft[x].applied)'
    <3>1. ChanOK(k, raft[x].applied)
      BY DEF IndInv, ChanInv
    <3> QED
      BY <1>0, <1>5, <3>1 DEF ChanOK
  <2> QED
    BY <2>1, <2>2 DEF ChanInv
<1> QED
  BY <1>6, <1>7, <1>8, <1>9 DEF IndInv

-----------------------------------------------------------------------------
(* The theorems. *)

\* Every step keeps the invariant.
LEMMA NextInv == IndInv /\ [Next]_vars => IndInv'
<1> SUFFICES ASSUME IndInv, [Next]_vars PROVE IndInv'
  OBVIOUS
<1>1. CASE RaftStep
  BY <1>1, ElectInv, StepDownInv, CommitInv, ReplicateInv DEF RaftStep
<1>2. CASE ClerkStep
  BY <1>2, RetryInv, ReturnInv, InvokeInv DEF ClerkStep
<1>3. CASE HandlerStep
  BY <1>3, StartInv, PutAppendInv, ChannelInv, ResultInv, TimeoutInv, RemoveInv DEF HandlerStep
<1>4. CASE ServerStep
  BY <1>4, RestartInv, ApplyInv, SnapshotInv DEF ServerStep
<1>5. CASE UNCHANGED vars
  <2>1. UNCHANGED <<chosen, hist, srv, chans, handlers, clerk, bounds, term, raft>>
    BY <1>5 DEF vars, bounds
  <2> QED
    BY <2>1, RaftKeeps DEF IndInv, TypeInv
<1> QED
  BY <1>1, <1>2, <1>3, <1>4, <1>5 DEF Next

\* The invariant holds in every reachable state.
THEOREM ServiceInvariance == Spec => []IndInv
  BY InitInv, NextInv, PTL DEF Spec

\* Whatever the state machine, the servers and the schedule of elections, a server that
\* has applied i entries has the state and the duplicate table that executing the first
\* i chosen entries leads to, each operation once (applyTask, makeSnapshot,
\* restoreFromSnapshot).
THEOREM ServersAgree == Spec => []StateIsLog
<1>1. IndInv => StateIsLog
  BY DEF IndInv, ServerInv, ServerOK, StateIsLog
<1> QED
  BY <1>1, ServiceInvariance, PTL

\* applyTask, which sends with kv.mu held, finds room in the channel of the entry it
\* applies, whatever handlers hold on to channels and whenever they are removed.
THEOREM ApplyNeverBlocks == Spec => []NotifyNeverBlocks
<1>1. IndInv => NotifyNeverBlocks
  BY DEF IndInv, TypeInv, ChanInv, ChanOK, NotifyNeverBlocks
<1> QED
  BY <1>1, ServiceInvariance, PTL
=============================================================================
