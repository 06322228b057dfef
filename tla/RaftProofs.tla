----------------------------- MODULE RaftProofs -----------------------------
(***************************************************************************)
(* What holds of the Raft group for any number of peers, any number of      *)
(* crashes, any behaviour of the network and whatever the bounds are: what  *)
(* the operations of the log return, the inductive invariant of the group,  *)
(* the steps that keep it, and what follows from it; then the invariant of  *)
(* elections.                                                               *)
(***************************************************************************)
EXTENDS Raft, TLAPS

(* What there is to know of sequences: logs, snapshots and the calls under way are some. *)

\* A sequence is a function on 1..n.
LEMMA SeqOf ==
  ASSUME NEW S, NEW n \in Nat, NEW q \in [1..n -> S]
  PROVE  q \in Seq(S) /\ Len(q) = n
  OBVIOUS

\* The domain and the items of a sequence.
LEMMA SeqLen ==
  ASSUME NEW S, NEW q \in Seq(S)
  PROVE  Len(q) \in Nat /\ q \in [1..Len(q) -> S] /\ DOMAIN q = 1..Len(q)
  OBVIOUS

\* An item of a sequence.
LEMMA SeqItem ==
  ASSUME NEW S, NEW q \in Seq(S), NEW i \in 1..Len(q)
  PROVE  q[i] \in S
  OBVIOUS

\* Only the empty sequence has no items.
LEMMA SeqEmpty ==
  ASSUME NEW S
  PROVE  /\ <<>> \in Seq(S) /\ Len(<<>>) = 0
         /\ \A q \in Seq(S) : q # <<>> => Len(q) \in Nat \ {0}
  OBVIOUS

\* Sequences with the same items are the same.
LEMMA SeqSame ==
  ASSUME NEW S, NEW q \in Seq(S), NEW r \in Seq(S), Len(q) = Len(r),
         \A i \in 1..Len(q) : q[i] = r[i]
  PROVE  q = r
  OBVIOUS

\* A sequence in which one item is replaced.
LEMMA SeqUpdate ==
  ASSUME NEW S, NEW q \in Seq(S), NEW i \in 1..Len(q), NEW e \in S
  PROVE  /\ [q EXCEPT ![i] = e] \in Seq(S)
         /\ Len([q EXCEPT ![i] = e]) = Len(q)
         /\ \A j \in 1..Len(q) : [q EXCEPT ![i] = e][j] = IF j = i THEN e ELSE q[j]
  OBVIOUS

\* One sequence after another.
LEMMA SeqConcat ==
  ASSUME NEW S, NEW q \in Seq(S), NEW r \in Seq(S)
  PROVE  /\ q \o r \in Seq(S)
         /\ Len(q \o r) = Len(q) + Len(r)
         /\ \A i \in 1..(Len(q) + Len(r)) :
              (q \o r)[i] = IF i <= Len(q) THEN q[i] ELSE r[i - Len(q)]
  OBVIOUS

\* The items from m to n.
LEMMA SeqCut ==
  ASSUME NEW S, NEW q, NEW m \in Int, NEW n \in Int, \A i \in m..n : q[i] \in S
  PROVE  /\ SubSeq(q, m, n) \in Seq(S)
         /\ Len(SubSeq(q, m, n)) = IF m <= n THEN n - m + 1 ELSE 0
         /\ \A i \in 1..(n - m + 1) : SubSeq(q, m, n)[i] = q[m + i - 1]
  OBVIOUS

\* A sequence and one more item.
LEMMA SeqAppend ==
  ASSUME NEW S, NEW q \in Seq(S), NEW e \in S
  PROVE  /\ Append(q, e) \in Seq(S)
         /\ Append(q, e) # <<>>
         /\ Len(Append(q, e)) = Len(q) + 1
         /\ \A i \in 1..Len(q) : Append(q, e)[i] = q[i]
         /\ Append(q, e)[Len(q) + 1] = e
  OBVIOUS

-----------------------------------------------------------------------------

(* The operations of the log: they keep it well formed, and move its two ends. *)

\* The ends of a log: there is always an entry, the dummy if no other.
LEMMA LogEnds ==
  ASSUME NEW rl \in Log
  PROVE  /\ rl.snapLastIdx \in Nat
         /\ rl.snapLastTerm \in Nat
         /\ rl.tailLog \in Seq(Entry)
         /\ rl.snapshot \in Seq(Entry)
         /\ Len(rl.snapshot) = rl.snapLastIdx
         /\ Len(rl.tailLog) \in Nat \ {0}
         /\ size(rl) \in Nat
         /\ lastIdx(rl) \in Nat
         /\ lastIdx(rl) >= rl.snapLastIdx
         /\ size(rl) = lastIdx(rl) + 1
         /\ lastTerm(rl) \in Nat
<1>1. /\ rl.snapLastIdx \in Nat
      /\ rl.snapLastTerm \in Nat
      /\ rl.tailLog \in Seq(Entry)
      /\ rl.snapshot \in Seq(Entry)
      /\ Len(rl.snapshot) = rl.snapLastIdx
      /\ Len(rl.tailLog) \in Nat \ {0}
  BY SeqEmpty DEF Log, RaftLogStruct
<1>2. rl.tailLog[Len(rl.tailLog)] \in Entry
  BY <1>1, SeqItem
<1>3. lastTerm(rl) \in Nat
  BY <1>2 DEF lastTerm, Entry
<1> QED
  BY <1>1, <1>3 DEF size, lastIdx

\* at returns an entry wherever idx does not panic.
LEMMA AtType ==
  ASSUME NEW rl \in Log, NEW i \in Nat, inRange(rl, i)
  PROVE  at(rl, i) \in Entry
<1>1. i - rl.snapLastIdx + 1 \in 1..Len(rl.tailLog)
  BY LogEnds DEF inRange, size
<1> QED
  BY <1>1, LogEnds, SeqItem DEF at

\* A dummy is an entry.
LEMMA DummyType ==
  ASSUME NEW term \in Nat
  PROVE  dummy(term) \in Entry
  BY DEF dummy, Entry

\* tail returns the entries from startIdx on, none if there is none.
LEMMA TailType ==
  ASSUME NEW rl \in Log, NEW startIdx \in Nat,
         rl.snapLastIdx <= startIdx, startIdx <= size(rl)
  PROVE  tail(rl, startIdx) \in Seq(Entry) /\ Len(tail(rl, startIdx)) = size(rl) - startIdx
<1> DEFINE m == startIdx - rl.snapLastIdx + 1
<1>1. m \in 1..(Len(rl.tailLog) + 1) /\ Len(rl.tailLog) \in Nat /\ rl.tailLog \in Seq(Entry)
  BY LogEnds DEF size
<1>2. /\ SubSeq(rl.tailLog, m, Len(rl.tailLog)) \in Seq(Entry)
      /\ Len(SubSeq(rl.tailLog, m, Len(rl.tailLog))) = Len(rl.tailLog) - m + 1
  BY <1>1, SeqCut
<1>3. rl.snapLastIdx \in Nat
  BY LogEnds
<1>4. tail(rl, startIdx) = SubSeq(rl.tailLog, m, Len(rl.tailLog))
  BY DEF tail
<1>5. Len(rl.tailLog) - m + 1 = size(rl) - startIdx
  <2> DEFINE len == Len(rl.tailLog)
             first == rl.snapLastIdx
  <2>1. len \in Nat /\ first \in Nat /\ size(rl) = first + len
    BY <1>1, <1>3 DEF size
  <2> HIDE DEF len, first
  <2>2. len - m + 1 = first + len - startIdx
    BY <2>1 DEF first
  <2> QED
    BY <2>1, <2>2 DEF len
<1> HIDE DEF m
<1> QED
  BY <1>2, <1>4, <1>5

\* append lengthens the log by one entry.
LEMMA AppendType ==
  ASSUME NEW rl \in Log, NEW e \in Entry
  PROVE  /\ append(rl, e) \in Log
         /\ append(rl, e).snapLastIdx = rl.snapLastIdx
         /\ lastIdx(append(rl, e)) = lastIdx(rl) + 1
<1>1. /\ Append(rl.tailLog, e) \in Seq(Entry)
      /\ Len(Append(rl.tailLog, e)) = Len(rl.tailLog) + 1
  BY LogEnds, SeqAppend
<1>2. /\ append(rl, e) \in Log
      /\ append(rl, e).snapLastIdx = rl.snapLastIdx
      /\ append(rl, e).tailLog = Append(rl.tailLog, e)
  <2>1. /\ append(rl, e) \in RaftLogStruct
        /\ append(rl, e).snapLastIdx = rl.snapLastIdx
        /\ append(rl, e).snapshot = rl.snapshot
        /\ append(rl, e).tailLog = Append(rl.tailLog, e)
    BY <1>1, Zenon DEF append, Log, RaftLogStruct
  <2> QED
    BY <1>1, <2>1, LogEnds DEF Log
<1>3. rl.snapLastIdx \in Nat /\ Len(rl.tailLog) \in Nat
  BY LogEnds
<1> QED
  BY <1>1, <1>2, <1>3 DEF lastIdx, size

\* appendFrom leaves the log up to prevIdx followed by the entries.
LEMMA AppendFromType ==
  ASSUME NEW rl \in Log, NEW prevIdx \in Nat, inRange(rl, prevIdx), NEW entries \in Seq(Entry)
  PROVE  /\ appendFrom(rl, prevIdx, entries) \in Log
         /\ appendFrom(rl, prevIdx, entries).snapLastIdx = rl.snapLastIdx
         /\ lastIdx(appendFrom(rl, prevIdx, entries)) = prevIdx + Len(entries)
<1> DEFINE n == prevIdx - rl.snapLastIdx + 1
           kept == SubSeq(rl.tailLog, 1, n)
           new == kept \o entries
<1>1. /\ rl.snapLastIdx \in Nat
      /\ rl.tailLog \in Seq(Entry)
      /\ Len(rl.snapshot) = rl.snapLastIdx
      /\ Len(rl.tailLog) \in Nat
  BY LogEnds
<1>2. n \in 1..Len(rl.tailLog) /\ Len(entries) \in Nat
  BY <1>1, SeqLen DEF inRange, size
<1>3. kept \in Seq(Entry) /\ Len(kept) = n
  BY <1>1, <1>2, SeqCut
<1>4. appendFrom(rl, prevIdx, entries) = [rl EXCEPT !.tailLog = new]
  BY DEF appendFrom
<1>5. new \in Seq(Entry) /\ Len(new) = n + Len(entries)
  <2> HIDE DEF kept, n
  <2> QED
    BY <1>3, SeqConcat, Zenon
<1>6. new # <<>>
  <2> HIDE DEF new
  <2> QED
    BY <1>2, <1>5, SeqEmpty
<1> HIDE DEF new
<1> DEFINE res == [rl EXCEPT !.tailLog = new]
<1>7. /\ res \in RaftLogStruct
      /\ res.snapLastIdx = rl.snapLastIdx
      /\ res.snapshot = rl.snapshot
      /\ res.tailLog = new
  BY <1>5, Zenon DEF Log, RaftLogStruct
<1> HIDE DEF res
<1>8. res \in Log
  BY <1>1, <1>6, <1>7 DEF Log
<1>9. lastIdx(res) = (rl.snapLastIdx + Len(new)) - 1
  BY <1>7 DEF lastIdx, size
<1>10. (rl.snapLastIdx + Len(new)) - 1 = prevIdx + Len(entries)
  BY <1>1, <1>2, <1>5, SMTT(30)
<1> QED
  BY <1>4, <1>7, <1>8, <1>9, <1>10 DEF res

\* The entries a snapshot stands for: all of them, in order.
LEMMA EntriesToType ==
  ASSUME NEW rl \in Log, NEW i \in Nat, i <= lastIdx(rl)
  PROVE  entriesTo(rl, i) \in Seq(Entry) /\ Len(entriesTo(rl, i)) = i
<1>1. ASSUME NEW k \in 1..i
      PROVE  entryAt(rl, k) \in Entry
  <2>1. CASE k <= rl.snapLastIdx
    BY <2>1, LogEnds, SeqItem DEF entryAt
  <2>2. CASE ~(k <= rl.snapLastIdx)
    <3>1. inRange(rl, k)
      BY <2>2, LogEnds DEF inRange
    <3> QED
      BY <2>2, <3>1, AtType DEF entryAt
  <2> QED
    BY <2>1, <2>2
<1>2. entriesTo(rl, i) \in [1..i -> Entry]
  BY <1>1 DEF entriesTo
<1> QED
  BY <1>2, SeqOf, SeqLen

\* doSnapshot moves the beginning of the log and leaves its end.
LEMMA DoSnapshotType ==
  ASSUME NEW rl \in Log, NEW index \in Nat, rl.snapLastIdx < index, index <= lastIdx(rl),
         NEW snap \in Seq(Entry), Len(snap) = index
  PROVE  /\ doSnapshot(rl, index, snap) \in Log
         /\ doSnapshot(rl, index, snap).snapLastIdx = index
         /\ lastIdx(doSnapshot(rl, index, snap)) = lastIdx(rl)
<1> DEFINE term == at(rl, index).Term
           rest == tail(rl, index + 1)
           new == <<dummy(term)>> \o rest
           short == [snapLastIdx |-> index, snapLastTerm |-> term, snapshot |-> snap,
                     tailLog |-> new]
<1>1. /\ rl.snapLastIdx \in Nat
      /\ lastIdx(rl) \in Nat
      /\ size(rl) = lastIdx(rl) + 1
  BY LogEnds
<1>2. term \in Nat
  <2>1. inRange(rl, index)
    BY <1>1 DEF inRange
  <2>2. at(rl, index) \in Entry
    BY <2>1, AtType
  <2> QED
    BY <2>2 DEF Entry
<1>3. rest \in Seq(Entry) /\ Len(rest) = lastIdx(rl) - index
  <2>1. index + 1 \in Nat /\ rl.snapLastIdx <= index + 1 /\ index + 1 <= size(rl)
    BY <1>1
  <2>2. rest \in Seq(Entry) /\ Len(rest) = size(rl) - (index + 1)
    BY <2>1, TailType
  <2> QED
    BY <1>1, <2>2
<1>4. <<dummy(term)>> \in Seq(Entry) /\ Len(<<dummy(term)>>) = 1
  BY <1>2, DummyType
<1> HIDE DEF term, rest
<1>5. new \in Seq(Entry) /\ Len(new) = 1 + Len(rest)
  BY <1>3, <1>4, SeqConcat
<1> HIDE DEF new
<1>6. new # <<>>
  BY <1>1, <1>3, <1>5, SeqEmpty
<1>7. short \in RaftLogStruct
  BY <1>2, <1>5 DEF RaftLogStruct
<1>8. short \in Log
  BY <1>6, <1>7 DEF Log
<1>9. doSnapshot(rl, index, snap) = short
  BY DEF doSnapshot, new, rest, term
<1>10. lastIdx(short) = lastIdx(rl)
  <2>1. lastIdx(short) = index + Len(new) - 1
    BY DEF lastIdx, size
  <2> QED
    BY <1>1, <1>3, <1>5, <2>1
<1> QED
  BY <1>8, <1>9, <1>10

\* installSnapshot leaves a log that ends where the snapshot does.
LEMMA InstallSnapshotType ==
  ASSUME NEW index \in Nat, NEW term \in Nat, NEW snap \in Seq(Entry), Len(snap) = index
  PROVE  /\ installSnapshot(index, term, snap) \in Log
         /\ installSnapshot(index, term, snap).snapLastIdx = index
         /\ lastIdx(installSnapshot(index, term, snap)) = index
<1> DEFINE new == <<dummy(term)>>
           rl == [snapLastIdx |-> index, snapLastTerm |-> term, snapshot |-> snap,
                  tailLog |-> new]
<1>1. new \in Seq(Entry) /\ Len(new) = 1
  BY DummyType
<1>2. installSnapshot(index, term, snap) = rl
  BY DEF installSnapshot
<1>e. Len(<<>>) = 0
  OBVIOUS
<1> HIDE DEF new
<1>3. new # <<>>
  BY <1>1, <1>e
<1>4. rl \in RaftLogStruct
  BY <1>1 DEF RaftLogStruct
<1>5. rl \in Log
  BY <1>3, <1>4 DEF Log
<1>6. lastIdx(rl) = index + Len(new) - 1
  BY DEF lastIdx, size
<1>7. index + Len(new) - 1 = index
  BY <1>1
<1> QED
  BY <1>2, <1>5, <1>6, <1>7

\* The log of a peer that starts for the first time is well formed.
LEMMA NewLogType == NewLog \in Log
<1> DEFINE new == <<dummy(0)>>
           none == <<>>
           rl == [snapLastIdx |-> 0, snapLastTerm |-> 0, snapshot |-> none, tailLog |-> new]
<1>1. new \in Seq(Entry) /\ Len(new) = 1 /\ none \in Seq(Entry) /\ Len(none) = 0
  BY DummyType
<1>2. NewLog = rl
  BY DEF NewLog
<1> HIDE DEF new, none
<1>3. new # <<>>
  BY <1>1, SeqEmpty
<1>4. rl \in RaftLogStruct
  BY <1>1 DEF RaftLogStruct
<1>5. rl \in Log
  BY <1>1, <1>3, <1>4 DEF Log
<1> QED
  BY <1>2, <1>5

-----------------------------------------------------------------------------
(* The calls under way. *)

callsIn(q) == {q[i] : i \in DOMAIN q}

-----------------------------------------------------------------------------
(* Sequences. *)

\* Removing a call from those outstanding adds none.
LEMMA WithoutProperties ==
  ASSUME NEW S, NEW q \in Seq(S), NEW i \in DOMAIN q
  PROVE  /\ without(q, i) \in Seq(S)
         /\ callsIn(without(q, i)) \subseteq callsIn(q)
<1> DEFINE u == SubSeq(q, 1, i - 1)
           v == SubSeq(q, i + 1, Len(q))
<1>1. i \in 1..Len(q) /\ Len(q) \in Nat
  BY SeqLen
<1>2. u \in Seq(S) /\ Len(u) = i - 1 /\ \A k \in 1..(i - 1) : u[k] = q[k]
  BY <1>1, SeqCut
<1>3. /\ v \in Seq(S)
      /\ Len(v) = Len(q) - i
      /\ \A k \in 1..(Len(q) - i) : v[k] = q[i + k]
  BY <1>1, SeqCut
<1>r. without(q, i) = u \o v
  BY DEF without
<1> HIDE DEF u, v
<1>4. /\ u \o v \in Seq(S)
      /\ DOMAIN (u \o v) = 1..(Len(q) - 1)
      /\ \A k \in 1..(Len(q) - 1) : (u \o v)[k] = IF k <= i - 1 THEN q[k] ELSE q[k + 1]
  BY <1>1, <1>2, <1>3, SeqConcat, SeqLen, SMTT(30)
<1>5. \A k \in 1..(Len(q) - 1) : (u \o v)[k] \in callsIn(q)
  <2>1. DOMAIN q = 1..Len(q)
    BY SeqLen
  <2>2. \A k \in 1..Len(q) : q[k] \in callsIn(q)
    BY <2>1, Zenon DEF callsIn
  <2> QED
    BY <1>1, <1>4, <2>2, SMTT(30)
<1>6. {(u \o v)[k] : k \in DOMAIN (u \o v)} \subseteq callsIn(q)
  BY <1>4, <1>5
<1> QED
  BY <1>r, <1>4, <1>6, Zenon DEF callsIn

\* Sending adds the call sent.
LEMMA AppendCalls ==
  ASSUME NEW S, NEW q \in Seq(S), NEW c \in S
  PROVE  /\ Append(q, c) \in Seq(S)
         /\ callsIn(Append(q, c)) \subseteq callsIn(q) \cup {c}
  BY SeqAppend, SeqLen DEF callsIn

\* Answering a call changes that call only.
LEMMA ExceptCalls ==
  ASSUME NEW S, NEW q \in Seq(S), NEW i \in DOMAIN q, NEW c \in S
  PROVE  /\ [q EXCEPT ![i] = c] \in Seq(S)
         /\ callsIn([q EXCEPT ![i] = c]) \subseteq callsIn(q) \cup {c}
  BY SeqUpdate, SeqLen DEF callsIn

-----------------------------------------------------------------------------
(***************************************************************************)
(* The inductive invariant.  TypeOK is not inductive by itself: a leader    *)
(* reads its log at nextIndex - 1, so it must be known that nextIndex does  *)
(* not pass the end of the log; nextIndex is taken from a reply, so the     *)
(* same must be known of every call under way; and a call may only be       *)
(* trusted while its sender still leads the term it was sent in, which a    *)
(* crash must not make it forget.                                           *)
(***************************************************************************)

saved(r) ==
  r.persister = [currentTerm |-> r.currentTerm, votedFor |-> r.votedFor, log |-> r.log]

\* An index the leader r may take for matchIndex: its idx does not panic there, or the
\* entry is committed already and idx is not asked.
indexOK(r, index) ==
  /\ index <= lastIdx(r.log)
  /\ index < r.log.snapLastIdx => index <= r.commitIndex

peerOK(r) ==
  /\ r \in Peer
  /\ saved(r)
  /\ r.role = Leader => \A p \in Server : /\ r.nextIndex[p] <= size(r.log)
                                         /\ indexOK(r, r.matchIndex[p])

\* What a successful reply to call c makes the sender take for matchIndex.
reach(c) ==
  IF c.kind = "AppendEntries" THEN c.args.PrevLogIndex + Len(c.args.Entries)
                              ELSE c.args.LastIncludedIndex

callOK(c, r) ==
  /\ c.args.Term <= r.currentTerm
  /\ (c.kind # "RequestVote" /\ c.args.Term = r.currentTerm)
     => r.role # Candidate /\ (r.role = Leader => indexOK(r, reach(c)))

IndInv ==
  /\ TypeOK
  /\ \A s \in Server : peerOK(rf[s])
  /\ \A s, p \in Server : \A c \in callsIn(rpc[s][p]) : callOK(c, rf[s])

\* How the peer may change without making a call under way dangerous.
keepsCalls(r, r2) ==
  /\ r2.currentTerm >= r.currentTerm
  /\ r2.currentTerm = r.currentTerm
     => /\ r2.role = Candidate => r.role = Candidate
        /\ (r2.role = Leader /\ r.role # Candidate)
           => /\ r.role = Leader
              /\ lastIdx(r2.log) >= lastIdx(r.log)
              /\ r2.commitIndex >= r.commitIndex
              /\ r2.log.snapLastIdx = r.log.snapLastIdx \/ r2.log.snapLastIdx <= r.commitIndex

\* A peer that changes so leaves the calls it has under way harmless.
LEMMA KeepsCalls ==
  ASSUME NEW r \in Peer, NEW r2 \in Peer, keepsCalls(r, r2),
         NEW c \in Call, callOK(c, r)
  PROVE  callOK(c, r2)
<1>1. c.args.Term \in Nat
  BY DEF Call, RequestVoteArgs, AppendEntriesArgs, InstallSnapshotArgs
<1>2. c.kind # "RequestVote" => reach(c) \in Nat
  <2>1. CASE c.kind = "AppendEntries"
    <3>1. c.args \in AppendEntriesArgs
      BY <2>1 DEF Call
    <3>2. c.args.PrevLogIndex \in Nat /\ Len(c.args.Entries) \in Nat
      BY <3>1, SeqLen DEF AppendEntriesArgs
    <3> QED
      BY <2>1, <3>2 DEF reach
  <2>2. CASE c.kind = "InstallSnapshot"
    BY <2>2 DEF Call, InstallSnapshotArgs, reach
  <2> QED
    BY <2>1, <2>2 DEF Call
<1>3. /\ r.currentTerm \in Nat /\ r2.currentTerm \in Nat
      /\ r.commitIndex \in Nat /\ r2.commitIndex \in Nat
      /\ r.log \in Log /\ r2.log \in Log
      /\ r2.role \in {Follower, Candidate, Leader}
  BY DEF Peer
<1>4. /\ lastIdx(r.log) \in Nat /\ lastIdx(r2.log) \in Nat
      /\ r.log.snapLastIdx \in Nat /\ r2.log.snapLastIdx \in Nat
  BY <1>3, LogEnds, Zenon
<1> QED
  BY <1>1, <1>2, <1>3, <1>4 DEF callOK, keepsCalls, indexOK, Candidate, Leader, Follower

sameCall(c, d) == c.kind = d.kind /\ c.args = d.args

\* The invariant is kept by a step that changes one peer, and the calls under way only by
\* answering, dropping or sending some.
LEMMA Preserves ==
  ASSUME IndInv,
         NEW x \in Server, NEW r2, peerOK(r2), keepsCalls(rf[x], r2),
         rf' = [rf EXCEPT ![x] = r2],
         rpc' \in [Server -> [Server -> Seq(Call)]],
         \A s, p \in Server : \A c \in callsIn(rpc'[s][p]) :
            \/ \E d \in callsIn(rpc[s][p]) : sameCall(c, d)
            \/ callOK(c, rf'[s]),
         restarts' \in Nat, snapshots' \in Nat
  PROVE  IndInv'
<1>1. rf' \in [Server -> Peer] /\ \A s \in Server : peerOK(rf'[s])
  BY Zenon DEF IndInv, TypeOK, peerOK
<1>2. ASSUME NEW s \in Server, NEW p \in Server, NEW c \in callsIn(rpc'[s][p])
      PROVE  callOK(c, rf'[s])
  <2>1. ASSUME NEW d \in callsIn(rpc[s][p]), sameCall(c, d)
        PROVE  callOK(c, rf'[s])
    <3>1. callOK(d, rf[s]) /\ rf[s] \in Peer
      BY DEF IndInv, TypeOK
    <3>2. d \in Call
      <4>1. rpc[s][p] \in Seq(Call)
        BY DEF IndInv, TypeOK
      <4>2. PICK i \in DOMAIN rpc[s][p] : d = rpc[s][p][i]
        BY Zenon DEF callsIn
      <4> QED
        BY <4>1, <4>2, SeqLen, SeqItem
    <3>3. rf'[s] = rf[s] \/ keepsCalls(rf[s], rf'[s])
      BY DEF IndInv, TypeOK
    <3>4. callOK(d, rf'[s])
      BY <1>1, <3>1, <3>2, <3>3, KeepsCalls
    <3>5. c.kind = d.kind /\ c.args = d.args
      BY <2>1 DEF sameCall
    <3> QED
      BY <3>4, <3>5 DEF callOK, reach
  <2> QED
    BY <2>1, Zenon
<1> QED
  BY <1>1, <1>2 DEF IndInv, TypeOK

-----------------------------------------------------------------------------
(* What the steps of the network do to the calls under way. *)

RpcType == [Server -> [Server -> Seq(Call)]]

\* A call under way is a call.
LEMMA CallType ==
  ASSUME rpc \in RpcType, NEW s \in Server, NEW p \in Server, NEW i \in DOMAIN rpc[s][p]
  PROVE  /\ rpc[s][p] \in Seq(Call)
         /\ rpc[s][p][i] \in Call
         /\ rpc[s][p][i] \in callsIn(rpc[s][p])
<1>1. rpc[s][p] \in Seq(Call)
  BY DEF RpcType
<1>2. rpc[s][p][i] \in Call
  BY <1>1, SeqLen, SeqItem
<1> QED
  BY <1>1, <1>2, Zenon DEF callsIn

\* The answer goes to the call it answers, and to no other.
LEMMA AnswerCalls ==
  ASSUME rpc \in RpcType, NEW s \in Server, NEW p \in Server, NEW i \in DOMAIN rpc[s][p],
         NEW reply \in Reply, Answer(s, p, i, reply)
  PROVE  /\ rpc' \in RpcType
         /\ \A s2, p2 \in Server : \A c \in callsIn(rpc'[s2][p2]) :
              \/ c \in callsIn(rpc[s2][p2])
              \/ /\ s2 = s /\ p2 = p
                 /\ sameCall(c, rpc[s][p][i])
                 /\ c.reply = reply
<1> DEFINE old == rpc[s][p][i]
           new == [old EXCEPT !.stage = IF old.stage = "req" THEN "rep" ELSE "void", !.reply = reply]
           q == [rpc[s][p] EXCEPT ![i] = new]
<1>1. rpc[s][p] \in Seq(Call) /\ old \in Call
  BY CallType
<1>2. new \in Call /\ sameCall(new, old) /\ new.reply = reply
  BY <1>1, Zenon DEF Call, Stage, sameCall
<1>3. rpc' = [rpc EXCEPT ![s] = [rpc[s] EXCEPT ![p] = q]]
  BY DEF Answer, RpcType
<1> HIDE DEF new
<1>4. q \in Seq(Call) /\ callsIn(q) \subseteq callsIn(rpc[s][p]) \cup {new}
  BY <1>1, <1>2, ExceptCalls
<1> HIDE DEF q
<1>5. rpc' \in RpcType
  BY <1>3, <1>4 DEF RpcType
<1>6. \A s2, p2 \in Server : rpc'[s2][p2] = IF s2 = s /\ p2 = p THEN q ELSE rpc[s2][p2]
  BY <1>3, Zenon DEF RpcType
<1> QED
  BY <1>2, <1>4, <1>5, <1>6

\* A goroutine that is done takes its call away.
LEMMA FinishCalls ==
  ASSUME rpc \in RpcType, NEW s \in Server, NEW p \in Server, NEW i \in DOMAIN rpc[s][p],
         Finish(s, p, i)
  PROVE  /\ rpc' \in RpcType
         /\ \A s2, p2 \in Server : callsIn(rpc'[s2][p2]) \subseteq callsIn(rpc[s2][p2])
<1> DEFINE q == without(rpc[s][p], i)
<1>1. q \in Seq(Call) /\ callsIn(q) \subseteq callsIn(rpc[s][p])
  BY CallType, WithoutProperties
<1>2. rpc' = [rpc EXCEPT ![s] = [rpc[s] EXCEPT ![p] = q]]
  BY DEF Finish, RpcType
<1> HIDE DEF q
<1>3. rpc' \in RpcType
  BY <1>1, <1>2 DEF RpcType
<1>4. \A s2, p2 \in Server : rpc'[s2][p2] = IF s2 = s /\ p2 = p THEN q ELSE rpc[s2][p2]
  BY <1>2, SMTT(20) DEF RpcType
<1> QED
  BY <1>1, <1>3, <1>4

\* A peer that sends a call to every other has these calls under way as well.
LEMMA SendCalls ==
  ASSUME rpc \in RpcType, NEW s \in Server, NEW e \in [Server -> Call],
         rpc' = [rpc EXCEPT ![s] = [p \in Server |->
                   IF p = s THEN rpc[s][p] ELSE Append(rpc[s][p], e[p])]]
  PROVE  /\ rpc' \in RpcType
         /\ \A s2, p2 \in Server : \A c \in callsIn(rpc'[s2][p2]) :
              c \in callsIn(rpc[s2][p2]) \/ (s2 = s /\ c = e[p2])
<1>1. \A p \in Server : /\ Append(rpc[s][p], e[p]) \in Seq(Call)
                        /\ callsIn(Append(rpc[s][p], e[p])) \subseteq
                             callsIn(rpc[s][p]) \cup {e[p]}
  <2> SUFFICES ASSUME NEW p \in Server
               PROVE  /\ Append(rpc[s][p], e[p]) \in Seq(Call)
                      /\ callsIn(Append(rpc[s][p], e[p])) \subseteq callsIn(rpc[s][p]) \cup {e[p]}
    BY Zenon
  <2>1. rpc[s][p] \in Seq(Call) /\ e[p] \in Call
    BY DEF RpcType
  <2> QED
    BY <2>1, AppendCalls
<1>2. rpc' \in RpcType
  BY <1>1 DEF RpcType
<1>3. ASSUME NEW s2 \in Server, NEW p2 \in Server, NEW c \in callsIn(rpc'[s2][p2])
      PROVE  c \in callsIn(rpc[s2][p2]) \/ (s2 = s /\ c = e[p2])
  <2>1. rpc'[s2][p2] = IF s2 = s /\ p2 # s THEN Append(rpc[s][p2], e[p2]) ELSE rpc[s2][p2]
    BY DEF RpcType
  <2>2. CASE s2 = s /\ p2 # s
    <3>1. c \in callsIn(Append(rpc[s][p2], e[p2]))
      BY <2>1, <2>2
    <3> QED
      BY <1>1, <2>2, <3>1, Zenon
  <2>3. CASE ~(s2 = s /\ p2 # s)
    BY <2>1, <2>3
  <2> QED
    BY <2>2, <2>3
<1> QED
  BY <1>2, <1>3

\* A crash leaves requests nobody waits for, and answers nobody reads.
LEMMA OrphanCalls ==
  ASSUME rpc \in RpcType, NEW s \in Server,
         rpc' = [rpc EXCEPT ![s] = [p \in Server |-> orphans(rpc[s][p])]]
  PROVE  /\ rpc' \in RpcType
         /\ \A s2, p2 \in Server : \A c \in callsIn(rpc'[s2][p2]) :
              \/ s2 # s /\ c \in callsIn(rpc[s2][p2])
              \/ /\ s2 = s
                 /\ c.stage \in {"orphan", "void"}
                 /\ \E d \in callsIn(rpc[s2][p2]) : sameCall(c, d)
<1>1. ASSUME NEW p \in Server
      PROVE  /\ orphans(rpc[s][p]) \in Seq(Call)
             /\ \A c \in callsIn(orphans(rpc[s][p])) :
                  /\ c.stage \in {"orphan", "void"}
                  /\ \E d \in callsIn(rpc[s][p]) : sameCall(c, d)
  <2> DEFINE q == rpc[s][p]
             o(d) == [d EXCEPT !.stage = IF d.stage \in {"req", "orphan"} THEN "orphan" ELSE "void"]
  <2>1. q \in Seq(Call) /\ DOMAIN q = 1..Len(q) /\ Len(q) \in Nat
    BY SeqLen DEF RpcType
  <2>2. \A d \in Call : o(d) \in Call /\ sameCall(o(d), d) /\ o(d).stage \in {"orphan", "void"}
    BY DEF Call, Stage, sameCall
  <2>3. \A i \in DOMAIN q : q[i] \in Call /\ q[i] \in callsIn(q)
    BY CallType
  <2>4. orphans(q) = [i \in DOMAIN q |-> o(q[i])]
    BY DEF orphans
  <2> HIDE DEF o, q
  <2>5. orphans(q) \in [1..Len(q) -> Call]
    BY <2>1, <2>2, <2>3, <2>4
  <2>6. orphans(q) \in Seq(Call)
    BY <2>1, <2>5, SeqOf
  <2>7. ASSUME NEW c \in callsIn(orphans(q))
        PROVE  /\ c.stage \in {"orphan", "void"}
               /\ \E d \in callsIn(q) : sameCall(c, d)
    <3>1. PICK i \in DOMAIN orphans(q) : c = orphans(q)[i]
      BY Zenon DEF callsIn
    <3>2. i \in DOMAIN q /\ c = o(q[i])
      BY <2>4, <3>1
    <3> QED
      BY <2>2, <2>3, <3>2
  <2> QED
    BY <2>6, <2>7 DEF q
<1>2. rpc' \in RpcType
  BY <1>1 DEF RpcType
<1>3. \A s2, p2 \in Server : rpc'[s2][p2] = IF s2 = s THEN orphans(rpc[s][p2]) ELSE rpc[s2][p2]
  BY DEF RpcType
<1> QED
  BY <1>1, <1>2, <1>3

-----------------------------------------------------------------------------
(* What the operations do to the peer that runs them. *)

\* The peer's term does not go back, and its vote in a term stays what it is.
voteStep(r, r2) ==
  /\ r2.currentTerm >= r.currentTerm
  /\ (r2.currentTerm = r.currentTerm /\ r.votedFor # Nil) => r2.votedFor = r.votedFor

\* A step that wins the peer nothing in an election: it goes on as it was, or follows.
noGain(r, r2) ==
  /\ voteStep(r, r2)
  /\ \/ r2.role = Follower
     \/ /\ r2.role = r.role
        /\ r2.votes = r.votes
        /\ r2.currentTerm = r.currentTerm
        /\ r2.votedFor = r.votedFor

\* All that the proofs ask of a step other than those of an election.
goodStep(r, r2) == peerOK(r2) /\ keepsCalls(r, r2) /\ noGain(r, r2)

\* Saving changes what the persister holds, to what it should hold.
LEMMA PersistLocked ==
  ASSUME NEW r \in Peer
  PROVE  /\ persistLocked(r) \in Peer
         /\ saved(persistLocked(r))
         /\ persistLocked(r).role = r.role
         /\ persistLocked(r).currentTerm = r.currentTerm
         /\ persistLocked(r).votedFor = r.votedFor
         /\ persistLocked(r).votes = r.votes
         /\ persistLocked(r).log = r.log
         /\ persistLocked(r).nextIndex = r.nextIndex
         /\ persistLocked(r).matchIndex = r.matchIndex
         /\ persistLocked(r).commitIndex = r.commitIndex
  BY DEF persistLocked, saved, Peer, Persisted

\* A peer that does nothing does nothing wrong.
LEMMA StaysGood ==
  ASSUME NEW r, peerOK(r)
  PROVE  goodStep(r, r)
<1>1. r \in Peer
  BY DEF peerOK
<1>2. r.currentTerm \in Nat /\ r.commitIndex \in Nat /\ lastIdx(r.log) \in Nat
  BY <1>1, LogEnds DEF Peer
<1> QED
  BY <1>1, <1>2 DEF goodStep, keepsCalls, noGain, voteStep

\* becomeFollowerLocked follows the term it is given if that is not an older one, and
\* has its new term on disk.
LEMMA BecomeFollower ==
  ASSUME NEW r, peerOK(r), NEW term \in Nat
  PROVE  LET r2 == becomeFollowerLocked(r, term)
         IN  /\ goodStep(r, r2)
             /\ r2.log = r.log
             /\ r2.commitIndex = r.commitIndex
             /\ term >= r.currentTerm => r2.role = Follower /\ r2.currentTerm = term
             /\ term > r.currentTerm => r2.votedFor = Nil
             /\ term = r.currentTerm => r2.votedFor = r.votedFor
             /\ term < r.currentTerm => r2 = r
<1> DEFINE f == [r EXCEPT !.role = Follower, !.currentTerm = term,
                          !.votedFor = IF term > r.currentTerm THEN Nil ELSE r.votedFor]
           r2 == becomeFollowerLocked(r, term)
<1>1. r \in Peer /\ saved(r) /\ r.currentTerm \in Nat
  BY DEF peerOK, Peer
<1>2. CASE r.currentTerm > term
  <2>1. r2 = r
    BY <1>2 DEF becomeFollowerLocked
  <2> QED
    BY <1>1, <1>2, <2>1, StaysGood
<1>3. CASE ~(r.currentTerm > term)
  <2>1. /\ f \in Peer
        /\ f.role = Follower
        /\ f.currentTerm = term
        /\ f.votedFor = IF term > r.currentTerm THEN Nil ELSE r.votedFor
        /\ f.log = r.log
        /\ f.commitIndex = r.commitIndex
        /\ f.persister = r.persister
    BY <1>1, Zenon DEF Peer
  <2>2. r2 = IF term # r.currentTerm THEN persistLocked(f) ELSE f
    BY <1>3 DEF becomeFollowerLocked
  <2> HIDE DEF f, r2
  <2>3. /\ r2 \in Peer
        /\ r2.role = Follower
        /\ r2.currentTerm = term
        /\ r2.votedFor = IF term > r.currentTerm THEN Nil ELSE r.votedFor
        /\ r2.log = r.log
        /\ r2.commitIndex = r.commitIndex
        /\ saved(r2)
    <3>1. CASE term # r.currentTerm
      BY <2>1, <2>2, <3>1, PersistLocked
    <3>2. CASE term = r.currentTerm
      BY <1>1, <2>1, <2>2, <3>2 DEF saved
    <3> QED
      BY <3>1, <3>2
  <2>4. goodStep(r, r2)
    BY <1>1, <1>3, <2>3
       DEF goodStep, peerOK, keepsCalls, noGain, voteStep, Follower, Candidate, Leader
  <2> QED
    BY <1>1, <1>3, <2>3, <2>4 DEF r2
<1> QED
  BY <1>2, <1>3

\* A follower may put any log in the place of its own, if it saves it.
LEMMA FollowerLog ==
  ASSUME NEW r, peerOK(r), r.role = Follower,
         NEW r2 \in Peer, r2.role = Follower, r2.currentTerm = r.currentTerm,
         r2.votedFor = r.votedFor
  PROVE  goodStep(r, persistLocked(r2))
<1>1. r \in Peer /\ r.currentTerm \in Nat
  BY DEF peerOK, Peer
<1> QED
  BY <1>1, PersistLocked
     DEF goodStep, peerOK, keepsCalls, noGain, voteStep, Follower, Candidate, Leader

\* Two good steps of one handler are a good step.
LEMMA GoodSteps ==
  ASSUME NEW r, NEW r2, NEW r3, peerOK(r), goodStep(r, r2), goodStep(r2, r3),
         r3.role = Follower
  PROVE  goodStep(r, r3)
<1>1. /\ r.currentTerm \in Nat /\ r2.currentTerm \in Nat /\ r3.currentTerm \in Nat
  BY DEF goodStep, peerOK, Peer
<1> QED
  BY <1>1 DEF goodStep, keepsCalls, noGain, voteStep, Follower, Candidate, Leader

\* A peer, leader or not, that goes on with its term, and a log that reaches as far as
\* before and has lost no entry that may still be asked for.
LEMMA LogGrows ==
  ASSUME NEW r, peerOK(r), NEW r2 \in Peer, saved(r2),
         r2.role = r.role, r2.currentTerm = r.currentTerm, r2.votedFor = r.votedFor,
         r2.votes = r.votes, r2.nextIndex = r.nextIndex, r2.matchIndex = r.matchIndex,
         r2.commitIndex >= r.commitIndex,
         lastIdx(r2.log) >= lastIdx(r.log),
         r2.log.snapLastIdx = r.log.snapLastIdx \/ r2.log.snapLastIdx <= r.commitIndex
  PROVE  goodStep(r, r2)
<1>1. /\ r \in Peer
      /\ r.currentTerm \in Nat /\ r.commitIndex \in Nat /\ r2.commitIndex \in Nat
      /\ \A p \in Server : r.nextIndex[p] \in Nat /\ r.matchIndex[p] \in Nat
      /\ r.log \in Log /\ r2.log \in Log
  BY DEF peerOK, Peer
<1>2. /\ lastIdx(r.log) \in Nat /\ lastIdx(r2.log) \in Nat
      /\ size(r.log) = lastIdx(r.log) + 1 /\ size(r2.log) = lastIdx(r2.log) + 1
      /\ r.log.snapLastIdx \in Nat /\ r2.log.snapLastIdx \in Nat
  BY <1>1, LogEnds
<1>3. peerOK(r2)
  BY <1>1, <1>2 DEF peerOK, indexOK
<1>4. keepsCalls(r, r2) /\ noGain(r, r2)
  BY <1>1, <1>2 DEF keepsCalls, noGain, voteStep
<1> QED
  BY <1>3, <1>4 DEF goodStep

learns(r, p, match, next) == [r EXCEPT !.matchIndex[p] = match, !.nextIndex[p] = next]

\* A good step after which the leader leads on, with the log it had.
leadsOn(r, r2) ==
  /\ goodStep(r, r2)
  /\ r2.log = r.log
  /\ r2.currentTerm = r.currentTerm
  /\ r2.commitIndex = r.commitIndex
  /\ r2.role = Leader

\* A leader that changes what it knows of one peer.
LEMMA LeaderLearns ==
  ASSUME NEW r, peerOK(r), r.role = Leader, NEW p \in Server,
         NEW next \in Nat, NEW match \in Nat, next <= size(r.log), indexOK(r, match)
  PROVE  leadsOn(r, learns(r, p, match, next))
<1> DEFINE m2 == [r.matchIndex EXCEPT ![p] = match]
           n2 == [r.nextIndex EXCEPT ![p] = next]
           r2 == [r EXCEPT !.matchIndex = m2, !.nextIndex = n2]
<1>1. /\ r \in Peer
      /\ r.currentTerm \in Nat /\ r.commitIndex \in Nat
      /\ r.nextIndex \in [Server -> Nat] /\ r.matchIndex \in [Server -> Nat]
      /\ r.log \in Log
  BY DEF peerOK, Peer
<1>2. m2 \in [Server -> Nat] /\ n2 \in [Server -> Nat]
  BY <1>1
<1>3. \A q \in Server : n2[q] <= size(r.log) /\ indexOK(r, m2[q])
  BY <1>1 DEF peerOK
<1>4. learns(r, p, match, next) = r2
  BY <1>1 DEF Peer, learns
<1> HIDE DEF m2, n2
<1>5. /\ r2 \in Peer
      /\ r2.role = r.role /\ r2.currentTerm = r.currentTerm /\ r2.votedFor = r.votedFor
      /\ r2.votes = r.votes /\ r2.log = r.log /\ r2.commitIndex = r.commitIndex
      /\ r2.persister = r.persister /\ r2.nextIndex = n2 /\ r2.matchIndex = m2
  BY <1>1, <1>2, Zenon DEF Peer
<1> HIDE DEF r2
<1>6. peerOK(r2)
  BY <1>3, <1>5 DEF peerOK, saved, indexOK
<1>7. lastIdx(r.log) \in Nat
  BY <1>1, LogEnds
<1>8. keepsCalls(r, r2) /\ noGain(r, r2)
  BY <1>1, <1>5, <1>7 DEF keepsCalls, noGain, voteStep
<1> QED
  BY <1>4, <1>5, <1>6, <1>8 DEF goodStep, leadsOn

-----------------------------------------------------------------------------
(* The steps.  Those that are not about elections are quiet as well. *)

\* A vote on its way to the candidate that asked for it.
grants(c) == c.kind = "RequestVote" /\ c.stage = "rep" /\ c.reply.Ok

noGrant ==
  \A s, p \in Server : \A c \in callsIn(rpc'[s][p]) : grants(c) => c \in callsIn(rpc[s][p])

Quiet == (\A s \in Server : noGain(rf[s], rf'[s])) /\ noGrant

\* What is to be shown of a step that is not about elections.
LEMMA QuietStep ==
  ASSUME IndInv,
         NEW x \in Server, NEW r2, goodStep(rf[x], r2), rf' = [rf EXCEPT ![x] = r2],
         rpc' \in RpcType,
         \A s, p \in Server : \A c \in callsIn(rpc'[s][p]) :
            \/ \E d \in callsIn(rpc[s][p]) : sameCall(c, d)
            \/ callOK(c, rf'[s]),
         noGrant,
         restarts' \in Nat, snapshots' \in Nat
  PROVE  IndInv' /\ Quiet
<1>1. IndInv'
  BY Preserves, Zenon DEF goodStep, RpcType
<1>2. ASSUME NEW s \in Server
      PROVE  noGain(rf[s], rf'[s])
  <2>1. s # x => rf'[s] = rf[s]
    BY DEF IndInv, TypeOK
  <2>2. s = x => rf'[s] = r2
    BY DEF IndInv, TypeOK
  <2>3. goodStep(rf[s], rf[s])
    BY StaysGood DEF IndInv
  <2> QED
    BY <2>1, <2>2, <2>3 DEF goodStep
<1> QED
  BY <1>1, <1>2 DEF Quiet

\* The same for a step that neither sends nor answers.
LEMMA QuietFinish ==
  ASSUME IndInv,
         NEW x \in Server, NEW r2, goodStep(rf[x], r2), rf' = [rf EXCEPT ![x] = r2],
         rpc' \in RpcType,
         \A s, p \in Server : callsIn(rpc'[s][p]) \subseteq callsIn(rpc[s][p]),
         restarts' \in Nat, snapshots' \in Nat
  PROVE  IndInv' /\ Quiet
<1>1. \A s, p \in Server : \A c \in callsIn(rpc'[s][p]) :
         \E d \in callsIn(rpc[s][p]) : sameCall(c, d)
  BY Zenon DEF sameCall
<1>2. noGrant
  BY DEF noGrant
<1> QED
  BY <1>1, <1>2, QuietStep, Zenon

\* The types the invariant gives.
LEMMA IndInvTypes ==
  ASSUME IndInv
  PROVE  /\ rf \in [Server -> Peer]
         /\ rpc \in RpcType
         /\ restarts \in Nat /\ snapshots \in Nat
         /\ \A s \in Server : /\ peerOK(rf[s])
                              /\ rf[s] \in Peer
                              /\ rf[s].currentTerm \in Nat
                              /\ rf[s].commitIndex \in Nat
                              /\ rf[s].votedFor \in Server \cup {Nil}
                              /\ rf[s].votes \subseteq Server
                              /\ rf[s].log \in Log
                              /\ rf[s].matchIndex \in [Server -> Nat]
                              /\ rf[s].nextIndex \in [Server -> Nat]
  BY Zenon DEF IndInv, TypeOK, RpcType, Peer

\* A call that fails leaves the peers alone.
LEMMA LoseStep ==
  ASSUME IndInv, NEW s \in Server, NEW p \in Server, NEW i \in DOMAIN rpc[s][p],
         Lose(s, p, i)
  PROVE  IndInv' /\ Quiet
<1>1. /\ rpc' \in RpcType
      /\ \A s2, p2 \in Server : callsIn(rpc'[s2][p2]) \subseteq callsIn(rpc[s2][p2])
  BY IndInvTypes, FinishCalls, Zenon DEF Lose
<1>2. rf' = [rf EXCEPT ![s] = rf[s]] /\ restarts' \in Nat /\ snapshots' \in Nat
  BY IndInvTypes DEF Lose
<1>3. goodStep(rf[s], rf[s])
  BY IndInvTypes, StaysGood
<1> QED
  BY <1>1, <1>2, <1>3, QuietFinish, Zenon

\* Start makes the leader's log longer, and saves it.
LEMMA StartStep ==
  ASSUME IndInv, NEW s \in Server, NEW command \in Cmd, Start(s, command)
  PROVE  IndInv' /\ Quiet
<1> DEFINE r == rf[s]
           e == [Term |-> r.currentTerm, Command |-> command]
           rl == append(r.log, e)
           r2 == [r EXCEPT !.log = rl]
<1>1. r \in Peer /\ peerOK(r) /\ r.log \in Log /\ r.currentTerm \in Nat
  BY IndInvTypes
<1>2. e \in Entry
  BY <1>1 DEF Entry
<1>3. rl \in Log /\ rl.snapLastIdx = r.log.snapLastIdx /\ lastIdx(rl) = lastIdx(r.log) + 1
  BY <1>1, <1>2, AppendType
<1>4. rf' = [rf EXCEPT ![s] = persistLocked(r2)]
  BY DEF Start
<1> HIDE DEF rl
<1>5. /\ r2 \in Peer /\ r2.log = rl /\ r2.role = r.role /\ r2.currentTerm = r.currentTerm
      /\ r2.votedFor = r.votedFor /\ r2.votes = r.votes /\ r2.commitIndex = r.commitIndex
      /\ r2.nextIndex = r.nextIndex /\ r2.matchIndex = r.matchIndex
  BY <1>1, <1>3 DEF Peer
<1> HIDE DEF r2
<1>6. lastIdx(r.log) \in Nat /\ r.commitIndex \in Nat
  BY <1>1, LogEnds DEF Peer
<1>7. goodStep(r, persistLocked(r2))
  <2> DEFINE r3 == persistLocked(r2)
  <2>1. /\ r3 \in Peer /\ saved(r3) /\ r3.log = rl
        /\ r3.role = r.role /\ r3.currentTerm = r.currentTerm /\ r3.votedFor = r.votedFor
        /\ r3.votes = r.votes /\ r3.nextIndex = r.nextIndex
        /\ r3.matchIndex = r.matchIndex /\ r3.commitIndex = r.commitIndex
    BY <1>5, PersistLocked
  <2> HIDE DEF r3, r
  <2>2. lastIdx(r3.log) >= lastIdx(r.log) /\ r3.commitIndex >= r.commitIndex
    BY <1>3, <1>6, <2>1
  <2>3. goodStep(r, r3)
    BY <1>1, <1>3, <2>1, <2>2, LogGrows
  <2> QED
    BY <2>3 DEF r3
<1>8. rpc' = rpc /\ rpc \in RpcType /\ restarts' \in Nat /\ snapshots' \in Nat
  BY IndInvTypes DEF Start
<1> QED
  BY <1>4, <1>7, <1>8, QuietFinish, Zenon

\* Snapshot shortens the log only where all is committed, so idx will not be asked there.
LEMMA SnapshotStep ==
  ASSUME IndInv, NEW s \in Server, NEW index \in 1..lastIdx(rf[s].log), Snapshot(s, index)
  PROVE  IndInv' /\ Quiet
<1> DEFINE r == rf[s]
           snap == entriesTo(r.log, index)
           rl == doSnapshot(r.log, index, snap)
           r2 == [r EXCEPT !.log = rl]
<1>1. /\ r \in Peer /\ peerOK(r) /\ r.log \in Log
      /\ lastIdx(r.log) \in Nat /\ r.log.snapLastIdx \in Nat /\ r.commitIndex \in Nat
  BY IndInvTypes, LogEnds
<1>2. /\ index \in Nat /\ index <= lastIdx(r.log) /\ index > r.log.snapLastIdx
      /\ index <= r.commitIndex
  BY <1>1 DEF Snapshot
<1>3. snap \in Seq(Entry) /\ Len(snap) = index
  BY <1>1, <1>2, EntriesToType
<1>4. rf' = [rf EXCEPT ![s] = persistLocked(r2)]
  BY DEF Snapshot
<1> HIDE DEF snap
<1>5. rl \in Log /\ rl.snapLastIdx = index /\ lastIdx(rl) = lastIdx(r.log)
  BY <1>1, <1>2, <1>3, DoSnapshotType
<1> HIDE DEF rl
<1>6. /\ r2 \in Peer /\ r2.log = rl /\ r2.role = r.role /\ r2.currentTerm = r.currentTerm
      /\ r2.votedFor = r.votedFor /\ r2.votes = r.votes /\ r2.commitIndex = r.commitIndex
      /\ r2.nextIndex = r.nextIndex /\ r2.matchIndex = r.matchIndex
  BY <1>1, <1>5 DEF Peer
<1> HIDE DEF r2
<1>7. goodStep(r, persistLocked(r2))
  <2> DEFINE r3 == persistLocked(r2)
  <2>1. /\ r3 \in Peer /\ saved(r3) /\ r3.log = rl
        /\ r3.role = r.role /\ r3.currentTerm = r.currentTerm /\ r3.votedFor = r.votedFor
        /\ r3.votes = r.votes /\ r3.nextIndex = r.nextIndex
        /\ r3.matchIndex = r.matchIndex /\ r3.commitIndex = r.commitIndex
    BY <1>6, PersistLocked
  <2> HIDE DEF r3
  <2>2. /\ lastIdx(r3.log) >= lastIdx(r.log) /\ r3.commitIndex >= r.commitIndex
        /\ r3.log.snapLastIdx <= r.commitIndex
    BY <1>1, <1>2, <1>5, <2>1
  <2>3. goodStep(r, r3)
    BY <1>1, <2>1, <2>2, LogGrows
  <2> QED
    BY <2>3 DEF r3
<1>8. rpc' = rpc /\ rpc \in RpcType /\ restarts' \in Nat /\ snapshots' \in Nat
  BY IndInvTypes DEF Snapshot
<1> QED
  BY <1>4, <1>7, <1>8, QuietFinish, Zenon

\* Handing a snapshot over only moves commitIndex forward.
LEMMA ApplicationStep ==
  ASSUME IndInv, NEW s \in Server, applicationTicker(s)
  PROVE  IndInv' /\ Quiet
<1> DEFINE r == rf[s]
           ci == IF r.commitIndex < r.log.snapLastIdx THEN r.log.snapLastIdx
                                                      ELSE r.commitIndex
           r2 == [r EXCEPT !.snapPending = FALSE, !.commitIndex = ci]
<1>1. /\ r \in Peer /\ peerOK(r) /\ r.commitIndex \in Nat /\ r.log \in Log
      /\ r.log.snapLastIdx \in Nat /\ lastIdx(r.log) \in Nat
  BY IndInvTypes, LogEnds
<1>2. ci \in Nat /\ ci >= r.commitIndex
  BY <1>1
<1>3. rf' = [rf EXCEPT ![s] = r2]
  BY IndInvTypes, Zenon DEF applicationTicker
<1> HIDE DEF ci
<1>4. /\ r2 \in Peer /\ r2.log = r.log /\ r2.role = r.role /\ r2.currentTerm = r.currentTerm
      /\ r2.votedFor = r.votedFor /\ r2.votes = r.votes /\ r2.commitIndex = ci
      /\ r2.nextIndex = r.nextIndex /\ r2.matchIndex = r.matchIndex
      /\ r2.persister = r.persister
  BY <1>1, <1>2, Zenon DEF Peer
<1> HIDE DEF r2
<1>5. saved(r2)
  BY <1>1, <1>4 DEF peerOK, saved
<1>6. lastIdx(r2.log) >= lastIdx(r.log)
  BY <1>1, <1>4
<1>7. goodStep(r, r2)
  BY <1>1, <1>2, <1>4, <1>5, <1>6, LogGrows
<1>8. rpc' = rpc /\ rpc \in RpcType /\ restarts' \in Nat /\ snapshots' \in Nat
  BY IndInvTypes DEF applicationTicker
<1> QED
  BY <1>3, <1>7, <1>8, QuietFinish, Zenon

\* A peer that crashed and is back has the term, the vote and the log it had, because
\* they were saved; the calls it had under way are nobody's.
LEMMA RestartStep ==
  ASSUME IndInv, NEW s \in Server, Restart(s)
  PROVE  IndInv' /\ Quiet
<1> DEFINE r == rf[s]
           r2 == Make(r.persister)
<1>1. r \in Peer /\ saved(r) /\ r.currentTerm \in Nat /\ r.log \in Log
  BY IndInvTypes DEF peerOK
<1>2. r.persister \in Persisted /\ r.log.snapLastIdx \in Nat
  BY <1>1, LogEnds DEF Peer
<1>3. /\ r2 \in Peer /\ saved(r2) /\ r2.role = Follower
      /\ r2.currentTerm = r.currentTerm /\ r2.votedFor = r.votedFor
  <2>1. /\ r.persister.currentTerm = r.currentTerm /\ r.persister.votedFor = r.votedFor
        /\ r.persister.log = r.log
        /\ r.persister = [currentTerm |-> r.currentTerm, votedFor |-> r.votedFor, log |-> r.log]
    BY <1>1 DEF saved
  <2>2. r.votedFor \in Server \cup {Nil}
    BY <1>1 DEF Peer
  <2>3. r2 \in Peer
    BY <1>1, <1>2, <2>1, <2>2 DEF Make, Peer
  <2>4. /\ r2.role = Follower /\ r2.currentTerm = r.currentTerm /\ r2.votedFor = r.votedFor
        /\ r2.log = r.log /\ r2.persister = r.persister
    BY <2>1, Zenon DEF Make
  <2> QED
    BY <2>1, <2>3, <2>4 DEF saved
<1>4. rf' = [rf EXCEPT ![s] = r2] /\ restarts' \in Nat /\ snapshots' \in Nat
  BY IndInvTypes DEF Restart
<1> HIDE DEF r2
<1>5. goodStep(r, r2)
  BY <1>1, <1>3 DEF goodStep, peerOK, keepsCalls, noGain, voteStep, Follower, Candidate, Leader
<1>6. /\ rpc' \in RpcType
      /\ \A s2, p2 \in Server : \A c \in callsIn(rpc'[s2][p2]) :
           \/ s2 # s /\ c \in callsIn(rpc[s2][p2])
           \/ /\ s2 = s
              /\ c.stage \in {"orphan", "void"}
              /\ \E d \in callsIn(rpc[s2][p2]) : sameCall(c, d)
  BY IndInvTypes, OrphanCalls, Zenon DEF Restart
<1>7. \A s2, p2 \in Server : \A c \in callsIn(rpc'[s2][p2]) :
         \E d \in callsIn(rpc[s2][p2]) : sameCall(c, d)
  BY <1>6 DEF sameCall
<1>8. noGrant
  BY <1>6 DEF noGrant, grants
<1> QED
  BY <1>4, <1>5, <1>6, <1>7, <1>8, QuietStep, Zenon

\* What the type of a call says of its arguments.
LEMMA ArgTypes ==
  ASSUME NEW c \in Call
  PROVE  /\ c.args.Term \in Nat
         /\ c.reply \in Reply /\ c.reply.Term \in Nat /\ c.reply.Ok \in BOOLEAN
         /\ c.kind = "RequestVote" => c.args.LastLogIndex \in Nat /\ c.args.LastLogTerm \in Nat
         /\ c.kind = "AppendEntries" => /\ c.args.PrevLogIndex \in Nat
                                        /\ c.args.Entries \in Seq(Entry)
                                        /\ Len(c.args.Entries) \in Nat
                                        /\ c.args.LeaderCommit \in Nat
         /\ c.kind = "InstallSnapshot" => /\ c.args.LastIncludedIndex \in Nat
                                          /\ c.args.LastIncludedTerm \in Nat
                                          /\ c.args.Snapshot \in Seq(Entry)
                                          /\ Len(c.args.Snapshot) = c.args.LastIncludedIndex
<1>1. c.args.Term \in Nat /\ c.reply \in Reply
  BY DEF Call, RequestVoteArgs, AppendEntriesArgs, InstallSnapshotArgs
<1>2. c.reply.Term \in Nat /\ c.reply.Ok \in BOOLEAN
  BY <1>1 DEF Reply
<1>3. c.kind = "AppendEntries" => c.args \in AppendEntriesArgs
  BY DEF Call
<1>4. c.kind = "AppendEntries" => /\ c.args.PrevLogIndex \in Nat
                                  /\ c.args.Entries \in Seq(Entry)
                                  /\ c.args.LeaderCommit \in Nat
  BY <1>3 DEF AppendEntriesArgs
<1>5. c.kind = "AppendEntries" => Len(c.args.Entries) \in Nat
  BY <1>4, SeqLen
<1>6. c.kind = "InstallSnapshot" => c.args \in InstallSnapshotArgs
  BY DEF Call
<1>7. c.kind = "InstallSnapshot" => /\ c.args.LastIncludedIndex \in Nat
                                    /\ c.args.LastIncludedTerm \in Nat
                                    /\ c.args.Snapshot \in Seq(Entry)
                                    /\ Len(c.args.Snapshot) = c.args.LastIncludedIndex
  BY <1>6 DEF InstallSnapshotArgs
<1>8. c.kind = "RequestVote" => c.args.LastLogIndex \in Nat /\ c.args.LastLogTerm \in Nat
  BY DEF Call, RequestVoteArgs
<1> QED
  BY <1>1, <1>2, <1>4, <1>5, <1>7, <1>8

\* An answer to a call of another kind is no vote.
LEMMA QuietAnswer ==
  ASSUME IndInv, NEW s \in Server, NEW p \in Server, NEW i \in DOMAIN rpc[s][p],
         rpc[s][p][i].kind # "RequestVote",
         NEW reply \in Reply, Answer(s, p, i, reply),
         NEW r2, goodStep(rf[p], r2), rf' = [rf EXCEPT ![p] = r2],
         UNCHANGED <<restarts, snapshots>>
  PROVE  IndInv' /\ Quiet
<1>1. rpc \in RpcType /\ restarts' \in Nat /\ snapshots' \in Nat
  BY IndInvTypes
<1>2. rpc[s][p][i] \in callsIn(rpc[s][p])
  BY <1>1, CallType
<1>3. /\ rpc' \in RpcType
      /\ \A s2, p2 \in Server : \A c \in callsIn(rpc'[s2][p2]) :
           \/ c \in callsIn(rpc[s2][p2])
           \/ /\ s2 = s /\ p2 = p
              /\ sameCall(c, rpc[s][p][i])
              /\ c.reply = reply
  BY <1>1, AnswerCalls, ZenonT(60)
<1>4. \A s2, p2 \in Server : \A c \in callsIn(rpc'[s2][p2]) :
         \E d \in callsIn(rpc[s2][p2]) : sameCall(c, d)
  BY <1>2, <1>3 DEF sameCall
<1>5. noGrant
  BY <1>3 DEF noGrant, grants, sameCall
<1> QED
  BY <1>1, <1>3, <1>4, <1>5, QuietStep, Zenon

-----------------------------------------------------------------------------
(* The steps of replication and compaction. *)

\* A follower's log may be cut and replaced; a leader or a candidate of the same term
\* has become a follower before that happens.
LEMMA AppendEntriesStep ==
  ASSUME IndInv, NEW s \in Server, NEW p \in Server, NEW i \in DOMAIN rpc[s][p],
         AppendEntries(s, p, i)
  PROVE  IndInv' /\ Quiet
<1> DEFINE call == rpc[s][p][i]
           args == call.args
           r == becomeFollowerLocked(rf[p], args.Term)
           success == accepts(r, args)
           rl == appendFrom(r.log, args.PrevLogIndex, args.Entries)
           ci == IF args.LeaderCommit > r.commitIndex THEN args.LeaderCommit
                                                      ELSE r.commitIndex
           r2 == [r EXCEPT !.log = rl, !.commitIndex = ci]
           r3 == IF success THEN persistLocked(r2) ELSE r
           reply == [Term |-> rf[p].currentTerm, Ok |-> success]
<1>1. call \in Call /\ call.kind = "AppendEntries"
  BY IndInvTypes, CallType, Zenon DEF AppendEntries, Arrives
<1> HIDE DEF call
<1>2. /\ args.Term \in Nat /\ args.PrevLogIndex \in Nat /\ args.Entries \in Seq(Entry)
      /\ args.LeaderCommit \in Nat
  BY <1>1, ArgTypes
<1> HIDE DEF args
<1>3. peerOK(rf[p]) /\ rf[p].currentTerm \in Nat
  BY IndInvTypes
<1>4. /\ goodStep(rf[p], r)
      /\ args.Term >= rf[p].currentTerm => r.role = Follower /\ r.currentTerm = args.Term
      /\ args.Term < rf[p].currentTerm => r = rf[p]
  BY <1>2, <1>3, BecomeFollower
<1>5. rf' = [rf EXCEPT ![p] = r3] /\ Answer(s, p, i, reply) /\ UNCHANGED <<restarts, snapshots>>
  BY Zenon DEF AppendEntries, call, args
<1> HIDE DEF r
<1>6. success \in BOOLEAN
  BY DEF accepts, prevLogMatches
<1>7. reply \in Reply
  BY <1>3, <1>6 DEF Reply
<1>8. goodStep(rf[p], r3)
  <2>1. CASE success
    <3>1. peerOK(r) /\ r \in Peer /\ r.log \in Log /\ r.commitIndex \in Nat
      BY <1>4 DEF goodStep, peerOK, Peer
    <3>2. r.role = Follower /\ inRange(r.log, args.PrevLogIndex)
      <4>1. args.Term >= r.currentTerm /\ inRange(r.log, args.PrevLogIndex)
        BY <2>1 DEF accepts, prevLogMatches
      <4>2. args.Term >= rf[p].currentTerm
        BY <1>2, <1>3, <1>4, <4>1
      <4> QED
        BY <1>4, <4>1, <4>2
    <3>3. rl \in Log /\ ci \in Nat
      BY <1>2, <3>1, <3>2, AppendFromType
    <3> HIDE DEF rl, ci
    <3>4. /\ r2 \in Peer /\ r2.role = Follower /\ r2.currentTerm = r.currentTerm
          /\ r2.votedFor = r.votedFor
      BY <3>1, <3>2, <3>3, Zenon DEF Peer
    <3> HIDE DEF r2
    <3>5. goodStep(r, persistLocked(r2)) /\ persistLocked(r2).role = Follower
      BY <3>1, <3>2, <3>4, FollowerLog, PersistLocked
    <3>6. goodStep(rf[p], persistLocked(r2))
      BY <1>3, <1>4, <3>5, GoodSteps
    <3> QED
      BY <2>1, <3>6
  <2>2. CASE ~success
    BY <1>4, <2>2
  <2> QED
    BY <2>1, <2>2
<1> HIDE DEF r3, reply
<1> QED
  BY <1>1, <1>5, <1>7, <1>8, QuietAnswer, Zenon DEF call

\* The same for a snapshot in the place of the whole log.
LEMMA InstallSnapshotStep ==
  ASSUME IndInv, NEW s \in Server, NEW p \in Server, NEW i \in DOMAIN rpc[s][p],
         InstallSnapshot(s, p, i)
  PROVE  IndInv' /\ Quiet
<1> DEFINE call == rpc[s][p][i]
           args == call.args
           r == becomeFollowerLocked(rf[p], args.Term)
           ignored == \/ args.Term < rf[p].currentTerm
                      \/ r.log.snapLastIdx >= args.LastIncludedIndex
           rl == installSnapshot(args.LastIncludedIndex, args.LastIncludedTerm, args.Snapshot)
           r2 == [r EXCEPT !.log = rl, !.snapPending = TRUE]
           r3 == IF ignored THEN r ELSE persistLocked(r2)
           reply == [Term |-> rf[p].currentTerm, Ok |-> FALSE]
<1>1. call \in Call /\ call.kind = "InstallSnapshot"
  BY IndInvTypes, CallType, Zenon DEF InstallSnapshot, Arrives
<1> HIDE DEF call
<1>2. /\ args.Term \in Nat /\ args.LastIncludedIndex \in Nat
      /\ args.LastIncludedTerm \in Nat /\ args.Snapshot \in Seq(Entry)
      /\ Len(args.Snapshot) = args.LastIncludedIndex
  BY <1>1, ArgTypes
<1> HIDE DEF args
<1>3. peerOK(rf[p]) /\ rf[p].currentTerm \in Nat
  BY IndInvTypes
<1>4. /\ goodStep(rf[p], r)
      /\ args.Term >= rf[p].currentTerm => r.role = Follower /\ r.currentTerm = args.Term
  BY <1>2, <1>3, BecomeFollower
<1>5. rf' = [rf EXCEPT ![p] = r3] /\ Answer(s, p, i, reply) /\ UNCHANGED <<restarts, snapshots>>
  BY Zenon DEF InstallSnapshot, call, args
<1> HIDE DEF r
<1>7. reply \in Reply
  BY <1>3 DEF Reply
<1>8. goodStep(rf[p], r3)
  <2>1. CASE ~ignored
    <3>1. peerOK(r) /\ r \in Peer
      BY <1>4 DEF goodStep, peerOK
    <3>2. r.role = Follower
      <4>1. ~(args.Term < rf[p].currentTerm)
        BY <2>1, Zenon
      <4>2. args.Term >= rf[p].currentTerm
        BY <1>2, <1>3, <4>1
      <4> QED
        BY <1>4, <4>2
    <3>3. rl \in Log
      BY <1>2, InstallSnapshotType
    <3> HIDE DEF rl
    <3>4. /\ r2 \in Peer /\ r2.role = Follower /\ r2.currentTerm = r.currentTerm
          /\ r2.votedFor = r.votedFor
      BY <3>1, <3>2, <3>3, Zenon DEF Peer
    <3> HIDE DEF r2
    <3>5. goodStep(r, persistLocked(r2)) /\ persistLocked(r2).role = Follower
      BY <3>1, <3>2, <3>4, FollowerLog, PersistLocked
    <3>6. goodStep(rf[p], persistLocked(r2))
      BY <1>3, <1>4, <3>5, GoodSteps
    <3> QED
      BY <2>1, <3>6
  <2>2. CASE ignored
    BY <1>4, <2>2
  <2> QED
    BY <2>1, <2>2
<1> HIDE DEF r3, reply
<1> QED
  BY <1>1, <1>5, <1>7, <1>8, QuietAnswer, Zenon DEF call

\* A refused leader goes back, but not below its snapshot, and never forward past its log.
LEMMA ReplicateFailedStep ==
  ASSUME IndInv, NEW s \in Server, NEW p \in Server, rf[s].role = Leader,
         replicateFailed(s, p)
  PROVE  \E r2 : rf' = [rf EXCEPT ![s] = r2] /\ goodStep(rf[s], r2)
<1> DEFINE r == rf[s]
           rl == r.log
           from == r.nextIndex[p] - 1
           step(next) == learns(r, p, r.matchIndex[p], next)
<1>1. /\ r \in Peer /\ peerOK(r) /\ r.nextIndex \in [Server -> Nat]
      /\ r.matchIndex \in [Server -> Nat] /\ rl \in Log
      /\ rl.snapLastIdx \in Nat /\ lastIdx(rl) \in Nat /\ size(rl) \in Nat
      /\ size(rl) = lastIdx(rl) + 1 /\ lastIdx(rl) >= rl.snapLastIdx
  BY IndInvTypes, LogEnds
<1>2. r.nextIndex[p] <= size(rl) /\ indexOK(r, r.matchIndex[p])
  BY <1>1 DEF peerOK
<1>3. \A next \in Nat : [rf EXCEPT ![s].nextIndex[p] = next] = [rf EXCEPT ![s] = step(next)]
  BY <1>1, IndInvTypes, Zenon DEF Peer, learns
<1>4. \A next \in Nat : next <= size(rl) => goodStep(r, step(next))
  BY <1>1, <1>2, LeaderLearns, Zenon DEF leadsOn
<1> HIDE DEF step
<1>5. CASE from < rl.snapLastIdx
  <2>1. rf' = [rf EXCEPT ![s].nextIndex[p] = rl.snapLastIdx + 1]
    BY <1>5 DEF replicateFailed
  <2>2. rl.snapLastIdx + 1 \in Nat /\ rl.snapLastIdx + 1 <= size(rl)
    BY <1>1
  <2> QED
    BY <1>3, <1>4, <2>1, <2>2, Zenon
<1>6. CASE ~(from < rl.snapLastIdx)
  <2>1. PICK idx \in (rl.snapLastIdx - 1)..from :
           rf' = [rf EXCEPT ![s].nextIndex[p] = idx + 1]
    BY <1>6 DEF replicateFailed
  <2>2. idx + 1 \in Nat /\ idx + 1 <= size(rl)
    BY <1>1, <1>2
  <2> QED
    BY <1>3, <1>4, <2>1, <2>2, Zenon
<1> QED
  BY <1>5, <1>6

\* A leader takes for matchIndex what it sent, which its log still reaches, and commits
\* what it has.
LEMMA ReplicateSucceededStep ==
  ASSUME IndInv, NEW s \in Server, NEW p \in Server, rf[s].role = Leader,
         NEW c \in Call, c.kind = "AppendEntries", callOK(c, rf[s]),
         c.args.Term = rf[s].currentTerm, replicateSucceeded(s, p, c.args)
  PROVE  \E r2 : rf' = [rf EXCEPT ![s] = r2] /\ goodStep(rf[s], r2)
<1> DEFINE match == matched(rf[s], c.args)
           next == match + 1
           r == learns(rf[s], p, match, next)
           to(v) == IF committable(r, v) THEN v ELSE r.commitIndex
           r2(v) == [r EXCEPT !.commitIndex = to(v)]
<1>1. /\ rf[s] \in Peer /\ peerOK(rf[s]) /\ rf[s].log \in Log
      /\ lastIdx(rf[s].log) \in Nat /\ size(rf[s].log) = lastIdx(rf[s].log) + 1
  BY IndInvTypes, LogEnds
<1>2. match \in Nat /\ match = reach(c)
  BY ArgTypes DEF matched, reach
<1>3. indexOK(rf[s], match)
  BY <1>2 DEF callOK, Leader
<1>4. next \in Nat /\ next <= size(rf[s].log)
  BY <1>1, <1>2, <1>3 DEF indexOK
<1>5. PICK q \in Server : rf' = [rf EXCEPT ![s] = r2(r.matchIndex[q])]
  BY Zenon DEF replicateSucceeded, learns
<1> HIDE DEF match, next
<1>6. /\ goodStep(rf[s], r) /\ r.log = rf[s].log /\ r.currentTerm = rf[s].currentTerm
      /\ r.commitIndex = rf[s].commitIndex /\ r.role = Leader
  <2>1. leadsOn(rf[s], r)
    BY <1>1, <1>2, <1>3, <1>4, LeaderLearns, Zenon
  <2> QED
    BY <2>1, Zenon DEF leadsOn
<1> HIDE DEF r
<1>7. /\ peerOK(r) /\ r \in Peer /\ r.commitIndex \in Nat /\ r.matchIndex[q] \in Nat
      /\ r.currentTerm \in Nat
  BY <1>6, Zenon DEF goodStep, peerOK, Peer
<1> DEFINE v == r.matchIndex[q]
<1>8. to(v) \in Nat /\ to(v) >= r.commitIndex
  BY <1>7 DEF committable
<1> HIDE DEF to
<1>9. /\ r2(v) \in Peer /\ r2(v).log = r.log /\ r2(v).role = r.role
      /\ r2(v).currentTerm = r.currentTerm /\ r2(v).votedFor = r.votedFor
      /\ r2(v).votes = r.votes /\ r2(v).commitIndex = to(v)
      /\ r2(v).nextIndex = r.nextIndex /\ r2(v).matchIndex = r.matchIndex
      /\ r2(v).persister = r.persister
  BY <1>7, <1>8 DEF Peer
<1>10. saved(r2(v))
  BY <1>7, <1>9 DEF peerOK, saved
<1>11. lastIdx(r2(v).log) >= lastIdx(r.log)
  BY <1>1, <1>6, <1>9, SMTT(20)
<1> HIDE DEF r2
<1>12. goodStep(r, r2(v))
  BY <1>7, <1>8, <1>9, <1>10, <1>11, LogGrows, Zenon
<1>13. goodStep(rf[s], r2(v))
  <2>1. noGain(rf[s], r2(v))
    BY <1>6, <1>7, <1>9, Zenon DEF goodStep, noGain, voteStep, Follower, Leader
  <2>2. keepsCalls(rf[s], r2(v))
    <3>1. keepsCalls(rf[s], r) /\ r2(v).commitIndex >= r.commitIndex
      BY <1>6, <1>8, <1>9, Zenon DEF goodStep
    <3> QED
      BY <1>1, <1>6, <1>7, <1>8, <1>9, <3>1, Zenon DEF keepsCalls
  <2> QED
    BY <1>12, <2>1, <2>2, Zenon DEF goodStep
<1> QED
  BY <1>5, <1>13, Zenon

\* The goroutine that waited for the reply to AppendEntries.
LEMMA ReplicateToPeerStep ==
  ASSUME IndInv, NEW s \in Server, NEW p \in Server, NEW i \in DOMAIN rpc[s][p],
         replicateToPeer(s, p, i)
  PROVE  IndInv' /\ Quiet
<1> DEFINE call == rpc[s][p][i]
<1>1. call \in Call /\ call \in callsIn(rpc[s][p]) /\ call.kind = "AppendEntries"
  BY IndInvTypes, CallType, Zenon DEF replicateToPeer, Returns
<1>2. call.reply.Term \in Nat /\ call.args.Term \in Nat
  BY <1>1, ArgTypes
<1>3. callOK(call, rf[s]) /\ peerOK(rf[s])
  BY <1>1 DEF IndInv
<1>4. /\ rpc' \in RpcType
      /\ \A s2, p2 \in Server : callsIn(rpc'[s2][p2]) \subseteq callsIn(rpc[s2][p2])
      /\ restarts' \in Nat /\ snapshots' \in Nat
  BY IndInvTypes, FinishCalls, Zenon DEF replicateToPeer
<1>5. \E r2 : rf' = [rf EXCEPT ![s] = r2] /\ goodStep(rf[s], r2)
  <2>1. CASE call.reply.Term > rf[s].currentTerm
    <3>1. rf' = [rf EXCEPT ![s] = becomeFollowerLocked(rf[s], call.reply.Term)]
      BY <2>1, Zenon DEF replicateToPeer
    <3>2. goodStep(rf[s], becomeFollowerLocked(rf[s], call.reply.Term))
      BY <1>2, <1>3, BecomeFollower, Zenon
    <3> QED
      BY <3>1, <3>2, Zenon
  <2>2. CASE /\ ~(call.reply.Term > rf[s].currentTerm)
             /\ contextLostLocked(rf[s], Leader, call.args.Term)
    <3>1. rf' = rf /\ rf = [rf EXCEPT ![s] = rf[s]]
      BY <2>2, IndInvTypes DEF replicateToPeer
    <3> QED
      BY <1>3, <3>1, StaysGood, SMTT(20)
  <2>3. CASE /\ ~(call.reply.Term > rf[s].currentTerm)
             /\ ~contextLostLocked(rf[s], Leader, call.args.Term)
    <3>1. rf[s].role = Leader /\ call.args.Term = rf[s].currentTerm
      BY <2>3 DEF contextLostLocked
    <3>2. CASE call.reply.Ok
      <4>1. replicateSucceeded(s, p, call.args)
        BY <2>3, <3>2, Zenon DEF replicateToPeer
      <4> QED
        BY <1>1, <1>3, <3>1, <4>1, ReplicateSucceededStep
    <3>3. CASE ~call.reply.Ok
      <4>1. replicateFailed(s, p)
        BY <2>3, <3>3, Zenon DEF replicateToPeer
      <4> QED
        BY <3>1, <4>1, ReplicateFailedStep
    <3> QED
      BY <3>2, <3>3
  <2> QED
    BY <2>1, <2>2, <2>3
<1> QED
  BY <1>4, <1>5, QuietFinish, Zenon

\* The goroutine that waited for the reply to InstallSnapshot.
LEMMA InstallOnPeerStep ==
  ASSUME IndInv, NEW s \in Server, NEW p \in Server, NEW i \in DOMAIN rpc[s][p],
         installOnPeer(s, p, i)
  PROVE  IndInv' /\ Quiet
<1> DEFINE call == rpc[s][p][i]
           index == call.args.LastIncludedIndex
           next == index + 1
           r == rf[s]
           ignored == \/ contextLostLocked(r, Leader, call.args.Term)
                      \/ index <= r.matchIndex[p]
           r2 == IF call.reply.Term > r.currentTerm
                   THEN becomeFollowerLocked(r, call.reply.Term)
                 ELSE IF ignored THEN r ELSE learns(r, p, index, next)
<1>1. call \in Call /\ call \in callsIn(rpc[s][p]) /\ call.kind = "InstallSnapshot"
  BY IndInvTypes, CallType DEF installOnPeer, Returns
<1> HIDE DEF call
<1>2. call.reply.Term \in Nat /\ call.args.Term \in Nat /\ index \in Nat
  BY <1>1, ArgTypes
<1>3. callOK(call, r) /\ peerOK(r)
  BY <1>1 DEF IndInv
<1>4. /\ rpc' \in RpcType
      /\ \A s2, p2 \in Server : callsIn(rpc'[s2][p2]) \subseteq callsIn(rpc[s2][p2])
      /\ restarts' \in Nat /\ snapshots' \in Nat
  BY IndInvTypes, FinishCalls, Zenon DEF installOnPeer
<1>5. rf' = [rf EXCEPT ![s] = r2]
  BY DEF installOnPeer, learns, call
<1>6. goodStep(r, r2)
  <2>1. CASE call.reply.Term > r.currentTerm
    BY <1>2, <1>3, <2>1, BecomeFollower, Zenon
  <2>2. CASE ~(call.reply.Term > r.currentTerm) /\ ignored
    <3>1. r2 = r
      BY <2>2
    <3> HIDE DEF r2, ignored
    <3> QED
      BY <1>3, <3>1, StaysGood, Zenon
  <2>3. CASE ~(call.reply.Term > r.currentTerm) /\ ~ignored
    <3>1. r.role = Leader /\ call.args.Term = r.currentTerm
      BY <2>3 DEF contextLostLocked
    <3>2. indexOK(r, index)
      BY <1>1, <1>3, <3>1 DEF callOK, reach, Leader
    <3>3. r.log \in Log /\ lastIdx(r.log) \in Nat /\ size(r.log) = lastIdx(r.log) + 1
      <4>1. r.log \in Log
        BY IndInvTypes
      <4> QED
        BY <4>1, LogEnds, Zenon
    <3>4. next \in Nat /\ next <= size(r.log)
      <4>1. index <= lastIdx(r.log)
        BY <3>2 DEF indexOK
      <4> HIDE DEF index, r
      <4> QED
        BY <1>2, <3>3, <4>1
    <3>5. r2 = learns(r, p, index, next)
      BY <2>3
    <3> HIDE DEF next, index, r2
    <3> QED
      BY <1>2, <1>3, <3>1, <3>2, <3>4, <3>5, LeaderLearns, Zenon DEF leadsOn
  <2> QED
    BY <2>1, <2>2, <2>3, Zenon
<1> HIDE DEF r2
<1> QED
  BY <1>4, <1>5, <1>6, QuietFinish, Zenon

\* What a leader sends, it has.
LEMMA ReplicationCall ==
  ASSUME NEW r, peerOK(r), r.role = Leader, NEW p \in Server
  PROVE  LET c == replicationCall(r, p)
         IN  /\ c \in Call
             /\ c.kind # "RequestVote"
             /\ c.args.Term = r.currentTerm
             /\ indexOK(r, reach(c))
<1> DEFINE prevIdx == r.nextIndex[p] - 1
           c == replicationCall(r, p)
           none == [Term |-> 0, Ok |-> FALSE]
<1>1. /\ r.log \in Log /\ r.currentTerm \in Nat /\ r.commitIndex \in Nat
      /\ r.nextIndex[p] \in Nat /\ r.nextIndex[p] <= size(r.log)
  BY DEF peerOK, Peer
<1>2. /\ r.log.snapLastIdx \in Nat /\ r.log.snapLastTerm \in Nat
      /\ r.log.snapshot \in Seq(Entry) /\ Len(r.log.snapshot) = r.log.snapLastIdx
      /\ lastIdx(r.log) \in Nat /\ size(r.log) = lastIdx(r.log) + 1
      /\ lastIdx(r.log) >= r.log.snapLastIdx
  BY <1>1, LogEnds
<1>3. none \in Reply
  BY DEF Reply
<1> HIDE DEF none
<1>4. CASE prevIdx < r.log.snapLastIdx
  <2> DEFINE args == [Term |-> r.currentTerm, LastIncludedIndex |-> r.log.snapLastIdx,
                      LastIncludedTerm |-> r.log.snapLastTerm, Snapshot |-> r.log.snapshot]
  <2>1. c = [stage |-> "req", kind |-> "InstallSnapshot", args |-> args, reply |-> none]
    BY <1>4, Zenon DEF replicationCall, request, none
  <2>2. /\ args \in InstallSnapshotArgs /\ args.Term = r.currentTerm
        /\ args.LastIncludedIndex = r.log.snapLastIdx
    BY <1>1, <1>2, Zenon DEF InstallSnapshotArgs
  <2> HIDE DEF args, c
  <2>3. /\ c \in Call /\ c.kind = "InstallSnapshot" /\ c.args = args
    BY <1>3, <2>1, <2>2 DEF Call, Stage
  <2>4. reach(c) = r.log.snapLastIdx
    BY <2>2, <2>3 DEF reach
  <2>5. indexOK(r, reach(c))
    BY <1>2, <2>4 DEF indexOK
  <2> QED
    BY <2>2, <2>3, <2>5 DEF c
<1>5. CASE ~(prevIdx < r.log.snapLastIdx)
  <2> DEFINE prevTerm == at(r.log, prevIdx).Term
             entries == tail(r.log, prevIdx + 1)
             args == [Term |-> r.currentTerm, PrevLogIndex |-> prevIdx,
                      PrevLogTerm |-> prevTerm, Entries |-> entries,
                      LeaderCommit |-> r.commitIndex]
  <2>1. c = [stage |-> "req", kind |-> "AppendEntries", args |-> args, reply |-> none]
    BY <1>5, Zenon DEF replicationCall, request, none
  <2>2. /\ prevIdx \in Nat /\ inRange(r.log, prevIdx) /\ prevIdx + 1 \in Nat
        /\ r.log.snapLastIdx <= prevIdx + 1 /\ prevIdx + 1 <= size(r.log)
    BY <1>1, <1>2, <1>5 DEF inRange
  <2>3. at(r.log, prevIdx) \in Entry
    BY <1>1, <2>2, AtType
  <2>4. prevTerm \in Nat
    BY <2>3 DEF Entry
  <2>5. entries \in Seq(Entry) /\ Len(entries) = size(r.log) - (prevIdx + 1)
    BY <1>1, <2>2, TailType, Zenon
  <2> HIDE DEF prevTerm, entries
  <2>6. /\ args \in AppendEntriesArgs /\ args.Term = r.currentTerm
        /\ args.PrevLogIndex = prevIdx /\ args.Entries = entries
    BY <1>1, <2>2, <2>4, <2>5, Zenon DEF AppendEntriesArgs
  <2> HIDE DEF args, c
  <2>7. /\ c \in Call /\ c.kind = "AppendEntries" /\ c.args = args
    BY <1>3, <2>1, <2>6, Zenon DEF Call, Stage
  <2>8. reach(c) = lastIdx(r.log)
    <3> HIDE DEF prevIdx
    <3>1. c.args.PrevLogIndex = prevIdx /\ c.args.Entries = entries
      BY <2>6, <2>7
    <3>2. reach(c) = prevIdx + Len(entries)
      BY <2>7, <3>1, Zenon DEF reach
    <3>3. Len(entries) \in Int /\ prevIdx + Len(entries) = lastIdx(r.log)
      BY <1>2, <2>2, <2>5
    <3> QED
      BY <3>2, <3>3
  <2>9. indexOK(r, reach(c))
    BY <1>2, <2>8 DEF indexOK
  <2> QED
    BY <2>6, <2>7, <2>9 DEF c
<1> QED
  BY <1>4, <1>5

\* A round of replication.
LEMMA StartReplicationStep ==
  ASSUME IndInv, NEW s \in Server, startReplication(s)
  PROVE  IndInv' /\ Quiet
<1> DEFINE r == rf[s]
           match == lastIdx(r.log)
           next == size(r.log)
           r2 == learns(r, s, match, next)
           e == [p \in Server |-> replicationCall(r, p)]
<1>1. /\ r \in Peer /\ peerOK(r) /\ r.role = Leader /\ r.log \in Log /\ rpc \in RpcType
      /\ r.matchIndex \in [Server -> Nat] /\ r.nextIndex \in [Server -> Nat]
      /\ restarts' \in Nat /\ snapshots' \in Nat
  BY IndInvTypes DEF startReplication
<1>2. /\ match \in Nat /\ next \in Nat /\ match >= r.log.snapLastIdx
      /\ r.log.snapLastIdx \in Nat
  BY <1>1, LogEnds, Zenon
<1>3. indexOK(r, match) /\ next <= size(r.log)
  BY <1>2 DEF indexOK
<1>4. rf' = [rf EXCEPT ![s] = r2]
  BY DEF startReplication, learns
<1> HIDE DEF match, next, r
<1>5. /\ goodStep(r, r2) /\ r2.log = r.log /\ r2.currentTerm = r.currentTerm
      /\ r2.commitIndex = r.commitIndex /\ r2.role = Leader
  <2>1. leadsOn(r, r2)
    BY <1>1, <1>2, <1>3, LeaderLearns, Zenon
  <2> QED
    BY <2>1, Zenon DEF leadsOn
<1>6. \A p \in Server : /\ e[p] \in Call /\ e[p].kind # "RequestVote"
                        /\ e[p].args.Term = r.currentTerm /\ indexOK(r, reach(e[p]))
  BY <1>1, ReplicationCall, Zenon
<1>7. rpc' = [rpc EXCEPT ![s] = [p \in Server |->
                IF p = s THEN rpc[s][p] ELSE Append(rpc[s][p], e[p])]]
  BY Zenon DEF startReplication, r
<1>8. e \in [Server -> Call]
  BY <1>6
<1> HIDE DEF r2, e
<1>9. /\ rpc' \in RpcType
      /\ \A s2, p2 \in Server : \A c \in callsIn(rpc'[s2][p2]) :
           c \in callsIn(rpc[s2][p2]) \/ (s2 = s /\ c = e[p2])
  BY <1>1, <1>7, <1>8, SendCalls, Zenon
<1>10. rf'[s] = r2
  BY <1>4, IndInvTypes
<1>11. \A p \in Server : callOK(e[p], rf'[s])
  <2> SUFFICES ASSUME NEW p \in Server PROVE callOK(e[p], r2)
    BY <1>10
  <2>1. /\ e[p].args.Term = r2.currentTerm /\ indexOK(r2, reach(e[p]))
        /\ r2.role # Candidate /\ r2.currentTerm \in Nat
    BY <1>1, <1>5, <1>6, Zenon DEF indexOK, Leader, Candidate, Peer
  <2> QED
    BY <2>1 DEF callOK
<1>12. \A s2, p2 \in Server : \A c \in callsIn(rpc'[s2][p2]) :
         \/ \E d \in callsIn(rpc[s2][p2]) : sameCall(c, d)
         \/ callOK(c, rf'[s2])
  BY <1>9, <1>11, Zenon DEF sameCall
<1>13. noGrant
  BY <1>6, <1>9 DEF noGrant, grants
<1> QED
  BY <1>1, <1>4, <1>5, <1>9, <1>12, <1>13, QuietStep, Zenon DEF r

-----------------------------------------------------------------------------
(* The steps of an election. *)

\* A candidate has a new term and votes for itself, and has saved both.
LEMMA BecomeCandidate ==
  ASSUME NEW r, peerOK(r), NEW me \in Server
  PROVE  LET r2 == becomeCandidateLocked(r, me)
         IN  /\ peerOK(r2) /\ keepsCalls(r, r2)
             /\ r2.role = Candidate /\ r2.currentTerm = r.currentTerm + 1
             /\ r2.votedFor = me /\ r2.votes = {}
<1> DEFINE term == r.currentTerm + 1
           none == {}
           r1 == [r EXCEPT !.role = Candidate, !.currentTerm = term, !.votedFor = me,
                           !.votes = none]
           r2 == persistLocked(r1)
<1>1. r \in Peer /\ r.currentTerm \in Nat /\ term \in Nat /\ none \in SUBSET Server
  BY DEF peerOK, Peer
<1>2. becomeCandidateLocked(r, me) = r2
  BY DEF becomeCandidateLocked
<1> HIDE DEF term, none
<1>3. /\ r1 \in Peer /\ r1.role = Candidate /\ r1.currentTerm = term
      /\ r1.votedFor = me /\ r1.votes = none
  BY <1>1, Zenon DEF Peer
<1> HIDE DEF r1
<1>4. /\ r2 \in Peer /\ saved(r2) /\ r2.role = Candidate
      /\ r2.currentTerm = term /\ r2.votedFor = me /\ r2.votes = none
  BY <1>3, PersistLocked
<1> HIDE DEF r2
<1>5. peerOK(r2) /\ keepsCalls(r, r2)
  BY <1>1, <1>4 DEF peerOK, keepsCalls, Candidate, Leader, term
<1> QED
  BY <1>2, <1>4, <1>5 DEF term, none

\* The election timer.
LEMMA ElectionTickerStep ==
  ASSUME IndInv, NEW s \in Server, electionTicker(s)
  PROVE  IndInv'
<1> DEFINE r2 == becomeCandidateLocked(rf[s], s)
<1>1. peerOK(r2) /\ keepsCalls(rf[s], r2)
  BY IndInvTypes, BecomeCandidate
<1>2. /\ rf' = [rf EXCEPT ![s] = r2] /\ rpc' = rpc /\ rpc \in RpcType
      /\ restarts' \in Nat /\ snapshots' \in Nat
  BY IndInvTypes DEF electionTicker
<1>3. \A s2, p2 \in Server : \A c \in callsIn(rpc'[s2][p2]) :
         \E d \in callsIn(rpc[s2][p2]) : sameCall(c, d)
  BY <1>2 DEF sameCall
<1> HIDE DEF r2
<1> QED
  BY <1>1, <1>2, <1>3, Preserves, Zenon DEF RpcType

\* What startElection sends, and that it leaves the candidate with its own vote.
LEMMA StartElectionCalls ==
  ASSUME IndInv, NEW s \in Server, startElection(s)
  PROVE  /\ rpc' \in RpcType
         /\ \A s2, p2 \in Server : \A c \in callsIn(rpc'[s2][p2]) :
              \/ c \in callsIn(rpc[s2][p2])
              \/ /\ s2 = s /\ c.kind = "RequestVote" /\ c.stage = "req"
                 /\ c.args.Term = rf[s].currentTerm
<1> DEFINE r == rf[s]
           li == lastIdx(r.log)
           lt == lastTerm(r.log)
           args == [Term |-> r.currentTerm, LastLogIndex |-> li, LastLogTerm |-> lt]
           call == request("RequestVote", args)
           e == [p \in Server |-> call]
<1>1. r.log \in Log /\ rpc \in RpcType /\ r.currentTerm \in Nat
  BY IndInvTypes
<1>2. li \in Nat /\ lt \in Nat
  BY <1>1, LogEnds
<1>3. rpc' = [rpc EXCEPT ![s] = [p \in Server |->
                IF p = s THEN rpc[s][p] ELSE Append(rpc[s][p], e[p])]]
  BY Zenon DEF startElection
<1> HIDE DEF li, lt
<1>4. args \in RequestVoteArgs /\ args.Term = r.currentTerm
  BY <1>1, <1>2 DEF RequestVoteArgs
<1> HIDE DEF args
<1>5. /\ call \in Call /\ call.kind = "RequestVote" /\ call.stage = "req"
      /\ call.args = args
  BY <1>4, Zenon DEF Call, Stage, Reply, request
<1>6. e \in [Server -> Call] /\ \A p \in Server : e[p] = call
  BY <1>5, SMTT(20)
<1> HIDE DEF e, call
<1>7. /\ rpc' \in RpcType
      /\ \A s2, p2 \in Server : \A c \in callsIn(rpc'[s2][p2]) :
           c \in callsIn(rpc[s2][p2]) \/ (s2 = s /\ c = e[p2])
  BY <1>1, <1>3, <1>6, SendCalls, Zenon
<1> QED
  BY <1>4, <1>5, <1>6, <1>7

\* The election goroutine of the term.
LEMMA StartElectionStep ==
  ASSUME IndInv, NEW s \in Server, startElection(s)
  PROVE  /\ IndInv'
         /\ rf' = [rf EXCEPT ![s] = [rf[s] EXCEPT !.votes = {s}]]
<1> DEFINE r == rf[s]
           r2 == [r EXCEPT !.votes = {s}]
<1>1. peerOK(r) /\ r \in Peer /\ rf \in [Server -> Peer] /\ r.role = Candidate
  BY IndInvTypes DEF startElection
<1>2. /\ r2 \in Peer /\ r2.role = r.role /\ r2.currentTerm = r.currentTerm
      /\ r2.votedFor = r.votedFor /\ r2.log = r.log /\ r2.persister = r.persister
  BY <1>1, Zenon DEF Peer
<1>3. rf' = [rf EXCEPT ![s] = r2] /\ restarts' \in Nat /\ snapshots' \in Nat
  BY <1>1, IndInvTypes DEF startElection
<1> HIDE DEF r2
<1>4. peerOK(r2) /\ keepsCalls(r, r2)
  <2>1. r.role # Leader
    BY <1>1 DEF Candidate, Leader
  <2>2. saved(r2)
    BY <1>1, <1>2, Zenon DEF peerOK, saved
  <2>3. peerOK(r2)
    BY <1>1, <1>2, <2>1, <2>2, Zenon DEF peerOK
  <2> QED
    BY <1>1, <1>2, <2>1, <2>3 DEF keepsCalls, Peer
<1>5. rf'[s] = r2 /\ r.currentTerm \in Nat
  BY <1>1, <1>3, IndInvTypes, Zenon
<1>6. /\ rpc' \in RpcType
      /\ \A s2, p2 \in Server : \A c \in callsIn(rpc'[s2][p2]) :
           \/ c \in callsIn(rpc[s2][p2])
           \/ /\ s2 = s /\ c.kind = "RequestVote" /\ c.stage = "req"
              /\ c.args.Term = rf[s].currentTerm
  BY StartElectionCalls
<1>7. \A s2, p2 \in Server : \A c \in callsIn(rpc'[s2][p2]) :
         \/ \E d \in callsIn(rpc[s2][p2]) : sameCall(c, d)
         \/ callOK(c, rf'[s2])
  BY <1>2, <1>5, <1>6 DEF sameCall, callOK
<1>8. IndInv'
  BY <1>3, <1>4, <1>6, <1>7, Preserves, Zenon DEF RpcType
<1> QED
  BY <1>3, <1>8 DEF r2

\* What RequestVote makes of the peer that runs it, and of the term and the vote it has.
VoteResult(s, p, args, r2, granted) ==
  /\ peerOK(r2) /\ keepsCalls(rf[p], r2) /\ voteStep(rf[p], r2)
  /\ ~granted => noGain(rf[p], r2)
  /\ granted => /\ r2.currentTerm = args.Term /\ r2.votedFor = s
                /\ \/ rf[p].currentTerm < args.Term /\ r2.role = Follower
                   \/ /\ rf[p].currentTerm = args.Term /\ rf[p].votedFor \in {Nil, s}
                      /\ r2.role = rf[p].role /\ r2.votes = rf[p].votes

\* The RequestVote of call i leaves peer p as r2, and the reply says whether it granted.
VoteAnswered(s, p, i, r2, granted) ==
  /\ rf' = [rf EXCEPT ![p] = r2]
  /\ Answer(s, p, i, [Term |-> rf[p].currentTerm, Ok |-> granted])
  /\ VoteResult(s, p, rpc[s][p][i].args, r2, granted)

\* A peer votes once in a term, for a term that is not behind its own, and has saved its
\* vote when it answers.
LEMMA RequestVoteResult ==
  ASSUME IndInv, NEW s \in Server, NEW p \in Server, NEW i \in DOMAIN rpc[s][p],
         RequestVote(s, p, i)
  PROVE  \E r2 : \E granted \in BOOLEAN : VoteAnswered(s, p, i, r2, granted)
<1> DEFINE call == rpc[s][p][i]
           args == call.args
           r == IF args.Term > rf[p].currentTerm THEN becomeFollowerLocked(rf[p], args.Term)
                ELSE rf[p]
           granted == /\ args.Term >= rf[p].currentTerm
                      /\ r.votedFor \in {Nil, s}
                      /\ ~isMoreUptoDateLocked(r.log, args.LastLogIndex, args.LastLogTerm)
           voted == [r EXCEPT !.votedFor = s]
           r2 == IF granted THEN voteFor(r, s) ELSE r
<1>1. call \in Call /\ args.Term \in Nat
  BY IndInvTypes, CallType, ArgTypes
<1>2. peerOK(rf[p]) /\ rf[p] \in Peer /\ rf[p].currentTerm \in Nat
  BY IndInvTypes
<1>3. rf' = [rf EXCEPT ![p] = r2] /\ Answer(s, p, i, [Term |-> rf[p].currentTerm, Ok |-> granted])
  BY Zenon DEF RequestVote
<1> HIDE DEF args
<1>4. /\ goodStep(rf[p], r)
      /\ args.Term > rf[p].currentTerm => /\ r.role = Follower /\ r.currentTerm = args.Term
                                          /\ r.votedFor = Nil
      /\ ~(args.Term > rf[p].currentTerm) => r = rf[p]
  <2>1. CASE args.Term > rf[p].currentTerm
    <3>1. r = becomeFollowerLocked(rf[p], args.Term)
      BY <2>1
    <3> HIDE DEF r
    <3> QED
      <4>1. args.Term \in Nat /\ rf[p].currentTerm \in Nat /\ args.Term >= rf[p].currentTerm
        BY <1>1, <1>2, <2>1 DEF peerOK, Peer
      <4> QED
        BY <1>1, <1>2, <2>1, <3>1, <4>1, BecomeFollower, Zenon
  <2>2. CASE ~(args.Term > rf[p].currentTerm)
    <3>1. r = rf[p]
      BY <2>2
    <3> HIDE DEF r
    <3> QED
      BY <1>2, <2>2, <3>1, StaysGood
  <2> QED
    BY <2>1, <2>2, Zenon
<1> HIDE DEF r
<1>5. /\ peerOK(r) /\ r \in Peer /\ saved(r) /\ r.currentTerm \in Nat /\ r.commitIndex \in Nat
      /\ r.log \in Log
  BY <1>4, Zenon DEF goodStep, peerOK, Peer
<1>6. granted \in BOOLEAN
  OBVIOUS
<1>7. CASE granted
  <2>1. args.Term >= rf[p].currentTerm /\ r.votedFor \in {Nil, s}
    BY <1>7
  <2>2. r2 = persistLocked(voted)
    BY <1>7 DEF voteFor
  <2> HIDE DEF granted, r2
  <2>3. /\ voted \in Peer /\ voted.role = r.role /\ voted.currentTerm = r.currentTerm
        /\ voted.votedFor = s /\ voted.votes = r.votes /\ voted.log = r.log
        /\ voted.nextIndex = r.nextIndex /\ voted.matchIndex = r.matchIndex
        /\ voted.commitIndex = r.commitIndex
    BY <1>5 DEF Peer
  <2> HIDE DEF voted
  <2>4. /\ r2 \in Peer /\ saved(r2) /\ r2.role = r.role /\ r2.currentTerm = r.currentTerm
        /\ r2.votedFor = s /\ r2.votes = r.votes /\ r2.log = r.log
        /\ r2.nextIndex = r.nextIndex /\ r2.matchIndex = r.matchIndex
        /\ r2.commitIndex = r.commitIndex
    BY <2>2, <2>3, PersistLocked
  <2>5. lastIdx(r.log) \in Nat
    BY <1>5, LogEnds
  <2>6. peerOK(r2) /\ keepsCalls(r, r2)
    BY <1>5, <2>4, <2>5, SMTT(20) DEF peerOK, indexOK, keepsCalls
  <2>7. VoteResult(s, p, args, r2, granted)
    <3>1. CASE args.Term > rf[p].currentTerm
      <4>0. r2.currentTerm = args.Term /\ args.Term \in Nat /\ rf[p].currentTerm \in Nat
        BY <1>1, <1>2, <1>4, <2>4, <3>1
      <4>1. keepsCalls(rf[p], r2) /\ voteStep(rf[p], r2)
        BY <3>1, <4>0 DEF keepsCalls, voteStep
      <4> QED
        BY <1>4, <1>7, <2>4, <2>6, <3>1, <4>1, Zenon DEF VoteResult
    <3>2. CASE ~(args.Term > rf[p].currentTerm)
      <4>1. r = rf[p] /\ rf[p].currentTerm = args.Term
        BY <1>1, <1>2, <1>4, <2>1, <3>2
      <4>2. voteStep(rf[p], r2)
        BY <1>2, <2>1, <2>4, <4>1 DEF voteStep
      <4> QED
        BY <1>7, <2>1, <2>4, <2>6, <4>1, <4>2, Zenon DEF VoteResult
    <3> QED
      BY <3>1, <3>2, SMTT(20)
  <2> QED
    BY <1>3, <1>6, <2>7, Zenon DEF r2, args, VoteAnswered
<1>8. CASE ~granted
  <2>1. r2 = r
    BY <1>8
  <2> HIDE DEF granted, r2
  <2>2. VoteResult(s, p, args, r2, granted)
    BY <1>4, <1>8, <2>1 DEF VoteResult, goodStep, noGain
  <2> QED
    BY <1>3, <1>6, <2>2, Zenon DEF r2, args, VoteAnswered
<1> QED
  BY <1>7, <1>8, Zenon

\* The handler of RequestVote.
LEMMA RequestVoteStep ==
  ASSUME IndInv, NEW s \in Server, NEW p \in Server, NEW i \in DOMAIN rpc[s][p],
         RequestVote(s, p, i)
  PROVE  IndInv'
<1>1. PICK r2 : \E granted \in BOOLEAN : VoteAnswered(s, p, i, r2, granted)
  BY RequestVoteResult, Zenon
<1>2. PICK granted \in BOOLEAN :
           /\ rf' = [rf EXCEPT ![p] = r2]
           /\ Answer(s, p, i, [Term |-> rf[p].currentTerm, Ok |-> granted])
           /\ VoteResult(s, p, rpc[s][p][i].args, r2, granted)
  BY <1>1, Zenon DEF VoteAnswered
<1> DEFINE reply == [Term |-> rf[p].currentTerm, Ok |-> granted]
<1>3. reply \in Reply /\ rpc \in RpcType /\ rpc[s][p][i] \in callsIn(rpc[s][p])
  BY IndInvTypes, CallType DEF Reply
<1>4. Answer(s, p, i, reply)
  BY <1>2
<1> HIDE DEF reply
<1>5. /\ rpc' \in RpcType
      /\ \A s2, p2 \in Server : \A c \in callsIn(rpc'[s2][p2]) :
           \/ c \in callsIn(rpc[s2][p2])
           \/ /\ s2 = s /\ p2 = p
              /\ sameCall(c, rpc[s][p][i])
              /\ c.reply = reply
  BY <1>3, <1>4, AnswerCalls, Zenon
<1>6. \A s2, p2 \in Server : \A c \in callsIn(rpc'[s2][p2]) :
         \E d \in callsIn(rpc[s2][p2]) : sameCall(c, d)
  BY <1>3, <1>5 DEF sameCall
<1>7. peerOK(r2) /\ keepsCalls(rf[p], r2)
  <2>1. VoteResult(s, p, rpc[s][p][i].args, r2, granted)
    BY <1>2
  <2> QED
    BY <2>1, Zenon DEF VoteResult
<1>8. restarts' \in Nat /\ snapshots' \in Nat
  BY IndInvTypes, Zenon DEF RequestVote
<1> QED
  BY <1>2, <1>5, <1>6, <1>7, <1>8, Preserves, Zenon DEF RpcType

\* A candidate that counts a vote has one more, and leads if it has a majority; it then
\* knows nothing of the peers.
LEMMA CountVote ==
  ASSUME NEW r, peerOK(r), r.role = Candidate, NEW p \in Server
  PROVE  LET r2 == countVote(r, p)
         IN  /\ peerOK(r2) /\ keepsCalls(r, r2)
             /\ r2.currentTerm = r.currentTerm /\ r2.votedFor = r.votedFor
             /\ r2.votes = r.votes \cup {p}
             /\ \/ r2.role = Candidate
                \/ r2.role = Leader /\ Cardinality(r2.votes) > Cardinality(Server) \div 2
<1> DEFINE votes == r.votes \cup {p}
           counted == [r EXCEPT !.votes = votes]
           none == [q \in Server |-> 0]
           next == [q \in Server |-> size(r.log)]
           elected == [counted EXCEPT !.role = Leader, !.nextIndex = next, !.matchIndex = none]
           won == Cardinality(counted.votes) > Cardinality(Server) \div 2
           r2 == countVote(r, p)
<1>1. /\ r \in Peer /\ saved(r) /\ r.log \in Log /\ r.currentTerm \in Nat
      /\ r.commitIndex \in Nat /\ votes \in SUBSET Server
  BY DEF peerOK, Peer
<1>2. size(r.log) \in Nat /\ lastIdx(r.log) \in Nat /\ size(r.log) \in Int
  BY <1>1, LogEnds
<1>3. none \in [Server -> Nat] /\ next \in [Server -> Nat]
  BY <1>2
<1>4. \A q \in Server : next[q] <= size(r.log) /\ none[q] = 0
  BY <1>2
<1> HIDE DEF votes
<1>5. /\ counted \in Peer /\ counted.role = Candidate /\ counted.votes = votes
      /\ counted.currentTerm = r.currentTerm /\ counted.votedFor = r.votedFor
      /\ counted.log = r.log /\ counted.commitIndex = r.commitIndex
      /\ counted.persister = r.persister
  BY <1>1 DEF Peer
<1>6. r2 = IF won THEN elected ELSE counted
  BY <1>5 DEF countVote, becomeLeaderLocked, votes
<1> HIDE DEF counted, none, next, r2
<1>7. CASE won
  <2>1. /\ elected \in Peer /\ elected.role = Leader /\ elected.votes = votes
        /\ elected.currentTerm = r.currentTerm /\ elected.votedFor = r.votedFor
        /\ elected.log = r.log /\ elected.commitIndex = r.commitIndex
        /\ elected.persister = r.persister
        /\ elected.nextIndex = next /\ elected.matchIndex = none
    BY <1>3, <1>5, Zenon DEF Peer
  <2> HIDE DEF elected
  <2>2. r.log.snapLastIdx \in Nat
    BY <1>1, LogEnds
  <2>3. peerOK(elected)
    BY <1>1, <1>2, <1>4, <2>1, <2>2 DEF peerOK, saved, indexOK
  <2>4. keepsCalls(r, elected)
    BY <1>1, <2>1 DEF keepsCalls, Candidate, Leader
  <2> QED
    BY <1>5, <1>6, <1>7, <2>1, <2>3, <2>4, Zenon DEF votes, r2
<1>8. CASE ~won
  <2>1. peerOK(counted) /\ keepsCalls(r, counted)
    BY <1>1, <1>5, SMTT(20) DEF peerOK, saved, keepsCalls, Candidate, Leader
  <2> QED
    BY <1>5, <1>6, <1>8, <2>1 DEF votes, r2
<1> QED
  BY <1>7, <1>8, Zenon

\* The goroutine that waited for the reply to RequestVote: it steps down, counts the vote
\* of a candidacy that is still its own, or does nothing.
LEMMA AskVoteResult ==
  ASSUME IndInv, NEW s \in Server, NEW p \in Server, NEW i \in DOMAIN rpc[s][p],
         askVoteFromPeer(s, p, i)
  PROVE  LET call == rpc[s][p][i]
         IN  \E r2 :
               /\ rf' = [rf EXCEPT ![s] = r2]
               /\ peerOK(r2) /\ keepsCalls(rf[s], r2)
               /\ \/ noGain(rf[s], r2)
                  \/ /\ rf[s].role = Candidate /\ rf[s].currentTerm = call.args.Term
                     /\ grants(call) /\ r2 = countVote(rf[s], p)
<1> DEFINE call == rpc[s][p][i]
           r == rf[s]
           r2 == IF call.reply.Term > r.currentTerm
                   THEN becomeFollowerLocked(r, call.reply.Term)
                 ELSE IF wonVote(r, call) THEN countVote(r, p) ELSE r
<1>1. call \in Call /\ call.kind = "RequestVote" /\ call.stage = "rep"
  BY IndInvTypes, CallType, Zenon DEF askVoteFromPeer, Returns
<1>2. call.reply.Term \in Nat
  BY <1>1, ArgTypes
<1>3. peerOK(r)
  BY IndInvTypes
<1>4. rf' = [rf EXCEPT ![s] = r2]
  BY DEF askVoteFromPeer
<1> HIDE DEF call
<1>5. CASE call.reply.Term > r.currentTerm
  <2>1. r2 = becomeFollowerLocked(r, call.reply.Term)
    BY <1>5
  <2>2. goodStep(r, becomeFollowerLocked(r, call.reply.Term))
    BY <1>2, <1>3, BecomeFollower, Zenon
  <2> QED
    BY <1>4, <2>1, <2>2, Zenon DEF goodStep
<1>6. CASE ~(call.reply.Term > r.currentTerm) /\ wonVote(r, call)
  <2>1. r2 = countVote(r, p)
    BY <1>6, Zenon
  <2>2. r.role = Candidate /\ r.currentTerm = call.args.Term /\ call.reply.Ok
    BY <1>6 DEF wonVote, contextLostLocked
  <2>3. peerOK(r2) /\ keepsCalls(r, r2)
    <3>1. peerOK(countVote(r, p)) /\ keepsCalls(r, countVote(r, p))
      BY <1>3, <2>2, CountVote, Zenon
    <3> HIDE DEF r2
    <3> QED
      BY <2>1, <3>1, Zenon
  <2>4. grants(call)
    BY <1>1, <2>2 DEF grants
  <2> HIDE DEF r2
  <2> QED
    BY <1>4, <2>1, <2>2, <2>3, <2>4, Zenon DEF call
<1>7. CASE ~(call.reply.Term > r.currentTerm) /\ ~wonVote(r, call)
  <2>1. r2 = r
    BY <1>7
  <2>2. goodStep(r, r2)
    BY <1>3, <2>1, StaysGood, Zenon
  <2> HIDE DEF r2
  <2> QED
    BY <1>4, <2>2, Zenon DEF goodStep
<1> QED
  BY <1>5, <1>6, <1>7, Zenon

\* The same, for the invariant.
LEMMA AskVoteStep ==
  ASSUME IndInv, NEW s \in Server, NEW p \in Server, NEW i \in DOMAIN rpc[s][p],
         askVoteFromPeer(s, p, i)
  PROVE  IndInv'
<1>1. PICK r2 : rf' = [rf EXCEPT ![s] = r2] /\ peerOK(r2) /\ keepsCalls(rf[s], r2)
  BY AskVoteResult, Zenon
<1>2. /\ rpc' \in RpcType
      /\ \A s2, p2 \in Server : callsIn(rpc'[s2][p2]) \subseteq callsIn(rpc[s2][p2])
      /\ restarts' \in Nat /\ snapshots' \in Nat
  BY IndInvTypes, FinishCalls, Zenon DEF askVoteFromPeer
<1>3. \A s2, p2 \in Server : \A c \in callsIn(rpc'[s2][p2]) :
         \E d \in callsIn(rpc[s2][p2]) : sameCall(c, d)
  BY <1>2, Zenon DEF sameCall
<1> QED
  BY <1>1, <1>2, <1>3, Preserves, Zenon DEF RpcType

-----------------------------------------------------------------------------
(* The theorems. *)

\* Nothing is wrong of a group that has just been made.
LEMMA InitInv == Init => IndInv
<1> SUFFICES ASSUME Init PROVE IndInv
  OBVIOUS
<1> DEFINE ps == [currentTerm |-> 0, votedFor |-> Nil, log |-> NewLog]
<1>1. ps \in Persisted /\ ps.log = NewLog /\ ps.currentTerm = 0 /\ ps.votedFor = Nil
  BY NewLogType DEF Persisted
<1>2. NewLog.snapLastIdx \in Nat
  BY NewLogType, LogEnds
<1>3. rf = [s \in Server |-> Make(ps)]
  BY SMTT(20) DEF Init
<1> HIDE DEF ps
<1>4. Make(ps) \in Peer /\ saved(Make(ps)) /\ Make(ps).role = Follower
  BY <1>1, <1>2, Zenon DEF Make, Peer, Persisted, saved
<1>5. \A s \in Server : rf[s] = Make(ps)
  BY <1>3
<1>6. peerOK(Make(ps))
  BY <1>4 DEF peerOK, Follower, Leader
<1>7. \A s, p \in Server : rpc[s][p] = <<>>
  BY DEF Init
<1>8. \A s, p \in Server : \A c \in callsIn(rpc[s][p]) : callOK(c, rf[s])
  BY <1>7 DEF callsIn
<1>9. TypeOK
  <2>1. <<>> \in Seq(Call)
    OBVIOUS
  <2>2. rpc \in [Server -> [Server -> Seq(Call)]]
    BY <2>1 DEF Init
  <2> QED
    BY <1>3, <1>4, <2>2 DEF Init, TypeOK
<1> QED
  BY <1>5, <1>6, <1>8, <1>9 DEF IndInv

\* No step breaks the invariant.
LEMMA NextInv == IndInv /\ [Next]_vars => IndInv'
<1> SUFFICES ASSUME IndInv, [Next]_vars PROVE IndInv'
  OBVIOUS
<1>1. ASSUME NEW s \in Server, electionTicker(s) PROVE IndInv'
  BY <1>1, ElectionTickerStep
<1>2. ASSUME NEW s \in Server, startElection(s) PROVE IndInv'
  BY <1>2, StartElectionStep
<1>3. ASSUME NEW s \in Server, startReplication(s) PROVE IndInv'
  BY <1>3, StartReplicationStep
<1>4. ASSUME NEW s \in Server, applicationTicker(s) PROVE IndInv'
  BY <1>4, ApplicationStep
<1>5. ASSUME NEW s \in Server, Restart(s) PROVE IndInv'
  BY <1>5, RestartStep
<1>6. ASSUME NEW s \in Server, NEW command \in Cmd, Start(s, command) PROVE IndInv'
  BY <1>6, StartStep
<1>7. ASSUME NEW s \in Server, NEW index \in 1..lastIdx(rf[s].log), Snapshot(s, index)
      PROVE  IndInv'
  BY <1>7, SnapshotStep
<1>8. ASSUME NEW s \in Server, NEW p \in Server, Handle(s, p) PROVE IndInv'
  BY <1>8, RequestVoteStep, AppendEntriesStep, InstallSnapshotStep DEF Handle
<1>9. ASSUME NEW s \in Server, NEW p \in Server, Resume(s, p) PROVE IndInv'
  BY <1>9, AskVoteStep, ReplicateToPeerStep, InstallOnPeerStep DEF Resume
<1>10. ASSUME NEW s \in Server, NEW p \in Server, NEW i \in DOMAIN rpc[s][p], Lose(s, p, i)
       PROVE  IndInv'
  BY <1>10, LoseStep
<1>11. CASE UNCHANGED vars
  BY <1>11 DEF vars, IndInv, TypeOK
<1> QED
  BY <1>1, <1>2, <1>3, <1>4, <1>5, <1>6, <1>7, <1>8, <1>9, <1>10, <1>11, Zenon DEF Next

\* The invariant always holds.
THEOREM Invariance == Spec => []IndInv
  BY InitInv, NextInv, PTL DEF Spec

\* Every variable always has its type: no handler leaves a peer or a call in a state the
\* Go types do not have, "no entry" included, which is index 0 and never -1.
THEOREM TypeCorrect == Spec => []TypeOK
<1>1. IndInv => TypeOK
  BY DEF IndInv
<1> QED
  BY <1>1, Invariance, PTL

\* Whatever peers there are and however often they crash, term, vote and log are on the
\* persister whenever a handler releases rf.mu (raft_persistence.go).
THEOREM AlwaysDurable == Spec => []Durable
<1>1. IndInv => Durable
  BY Zenon DEF IndInv, peerOK, saved, Durable
<1> QED
  BY <1>1, Invariance, PTL

\* A leader never makes idx panic (raft_log.go:68), for any group, any log and any
\* schedule of its snapshots.
THEOREM NoLeaderPanics == Spec => []LeaderIndexesInRange
<1>1. ASSUME IndInv PROVE LeaderIndexesInRange
  <2> SUFFICES ASSUME NEW s \in Server, NEW p \in Server, rf[s].role = Leader
               PROVE  /\ rf[s].nextIndex[p] <= size(rf[s].log)
                      /\ rf[s].matchIndex[p] > rf[s].commitIndex
                         => inRange(rf[s].log, rf[s].matchIndex[p])
    BY DEF LeaderIndexesInRange
  <2>1. /\ rf[s].nextIndex[p] <= size(rf[s].log)
        /\ indexOK(rf[s], rf[s].matchIndex[p])
    BY <1>1 DEF IndInv, peerOK
  <2>2. /\ rf[s].log \in Log /\ rf[s].matchIndex[p] \in Nat /\ rf[s].commitIndex \in Nat
    BY <1>1, IndInvTypes
  <2>3. /\ rf[s].log.snapLastIdx \in Nat /\ lastIdx(rf[s].log) \in Nat
        /\ size(rf[s].log) = lastIdx(rf[s].log) + 1
    BY <2>2, LogEnds
  <2>4. /\ rf[s].matchIndex[p] <= lastIdx(rf[s].log)
        /\ rf[s].matchIndex[p] < rf[s].log.snapLastIdx => rf[s].matchIndex[p] <= rf[s].commitIndex
    BY <2>1 DEF indexOK
  <2> DEFINE rl == rf[s].log
             m == rf[s].matchIndex[p]
             ci == rf[s].commitIndex
  <2>5. m > ci => rl.snapLastIdx <= m /\ m < size(rl)
    <3> HIDE DEF rl, m, ci
    <3> QED
      BY <2>2, <2>3, <2>4 DEF rl, m, ci
  <2> QED
    BY <2>1, <2>2, <2>5 DEF inRange
<1> QED
  BY <1>1, Invariance, PTL

-----------------------------------------------------------------------------
(* The votes: no two leaders in a term. *)

\* The candidate r holds the vote of q in term T, or it is on its way among calls.
holdsVote(r, calls, q, T) ==
  \/ r.role # Follower /\ r.currentTerm = T /\ q \in r.votes
  \/ \E c \in callsIn(calls) : grants(c) /\ c.args.Term = T

\* The peer r cannot vote in term T for another than s any more.
gave(r, s, T) == r.currentTerm > T \/ (r.currentTerm = T /\ r.votedFor = s)

-----------------------------------------------------------------------------
(***************************************************************************)
(* The inductive invariant.  ElectionSafety speaks of leaders, and is lost  *)
(* when a vote is given twice, long before the second leader is there: the  *)
(* invariant follows the votes, from the peer that gives one through the    *)
(* reply to the candidate that counts it.                                   *)
(***************************************************************************)

\* Who is not a follower has voted for itself.
OwnVote == \A s \in Server : rf[s].role # Follower => rf[s].votedFor = s

\* Who gave a vote remembers it until the term is over.
VotesKept ==
  \A s, q \in Server : \A T \in Nat : holdsVote(rf[s], rpc[s][q], q, T) => gave(rf[q], s, T)

\* Nobody gives two candidates a vote in the same term.
VotesUnique ==
  \A s, t, q \in Server : \A T \in Nat :
    holdsVote(rf[s], rpc[s][q], q, T) /\ holdsVote(rf[t], rpc[t][q], q, T) => s = t

\* Who leads has the votes of a majority.
LeaderElected ==
  \A s \in Server :
    rf[s].role = Leader => Cardinality(rf[s].votes) > Cardinality(Server) \div 2

ElectionInv == IndInv /\ OwnVote /\ VotesKept /\ VotesUnique /\ LeaderElected

\* In this step q gives s its vote in term T.
votesFor(q, s, T) ==
  /\ rf'[q].currentTerm = T
  /\ rf'[q].votedFor = s
  /\ \/ rf[q].currentTerm < T
     \/ rf[q].currentTerm = T /\ rf[q].votedFor \in {Nil, s}

VotesGiven ==
  \A s, q \in Server : \A T \in Nat :
    holdsVote(rf'[s], rpc'[s][q], q, T) =>
      holdsVote(rf[s], rpc[s][q], q, T) \/ votesFor(q, s, T)

\* A peer is a candidate once in a term, before it leads.
roleStep(r, r2) ==
  /\ r2.role = Candidate => \/ r2.currentTerm > r.currentTerm
                            \/ r2.currentTerm = r.currentTerm /\ r.role = Candidate
  /\ r2.role = Leader => r2.currentTerm = r.currentTerm /\ r.role # Follower

OrderlyStep ==
  /\ ElectionInv'
  /\ VotesGiven
  /\ \A s \in Server : voteStep(rf[s], rf'[s]) /\ roleStep(rf[s], rf'[s])

-----------------------------------------------------------------------------

\* It is enough to look at the votes given in a step.
LEMMA VotesStep ==
  ASSUME ElectionInv,
         \A q \in Server : voteStep(rf[q], rf'[q]),
         \A q \in Server : rf'[q].currentTerm \in Nat,
         \A s, q \in Server : \A T \in Nat :
           holdsVote(rf'[s], rpc'[s][q], q, T) =>
             holdsVote(rf[s], rpc[s][q], q, T) \/ votesFor(q, s, T)
  PROVE  VotesKept' /\ VotesUnique'
<1>1. \A q \in Server : rf[q].currentTerm \in Nat
  BY IndInvTypes, Zenon DEF ElectionInv
<1>2. ASSUME NEW s \in Server, NEW q \in Server, NEW T \in Nat,
             holdsVote(rf'[s], rpc'[s][q], q, T)
      PROVE  gave(rf'[q], s, T)
  <2>1. CASE holdsVote(rf[s], rpc[s][q], q, T)
    <3>1. gave(rf[q], s, T)
      BY <2>1, Zenon DEF ElectionInv, VotesKept
    <3>2. s # Nil
      BY ServerAssumption
    <3> QED
      BY <1>1, <3>1, <3>2 DEF gave, voteStep
  <2>2. CASE votesFor(q, s, T)
    BY <2>2, Zenon DEF votesFor, gave
  <2> QED
    BY <1>2, <2>1, <2>2, Zenon
<1>3. ASSUME NEW s \in Server, NEW t \in Server, NEW q \in Server, NEW T \in Nat,
             holdsVote(rf[s], rpc[s][q], q, T), votesFor(q, t, T)
      PROVE  s = t
  <2>1. gave(rf[q], s, T)
    BY <1>3, Zenon DEF ElectionInv, VotesKept
  <2>2. s # Nil
    BY ServerAssumption
  <2> QED
    BY <1>1, <1>3, <2>1, <2>2 DEF gave, votesFor
<1>4. ASSUME NEW s \in Server, NEW t \in Server, NEW q \in Server, NEW T \in Nat,
             holdsVote(rf'[s], rpc'[s][q], q, T), holdsVote(rf'[t], rpc'[t][q], q, T)
      PROVE  s = t
  <2>1. holdsVote(rf[s], rpc[s][q], q, T) \/ votesFor(q, s, T)
    BY <1>4, Zenon
  <2>2. holdsVote(rf[t], rpc[t][q], q, T) \/ votesFor(q, t, T)
    BY <1>4, Zenon
  <2>3. CASE holdsVote(rf[s], rpc[s][q], q, T) /\ holdsVote(rf[t], rpc[t][q], q, T)
    BY <2>3, Zenon DEF ElectionInv, VotesUnique
  <2>4. CASE votesFor(q, s, T) /\ votesFor(q, t, T)
    BY <2>4, Zenon DEF votesFor
  <2> QED
    BY <1>3, <2>1, <2>2, <2>3, <2>4, Zenon
<1> QED
  BY <1>2, <1>4, Zenon DEF VotesKept, VotesUnique

\* A step that is not about elections.
LEMMA QuietElection ==
  ASSUME ElectionInv, IndInv', Quiet
  PROVE  OrderlyStep
<1>1. \A q \in Server : noGain(rf[q], rf'[q]) /\ voteStep(rf[q], rf'[q])
  BY DEF Quiet, noGain
<1>2. \A q \in Server : rf'[q].currentTerm \in Nat
  BY DEF IndInv, TypeOK, Peer
<1>3. ASSUME NEW s \in Server, NEW q \in Server, NEW T \in Nat,
             holdsVote(rf'[s], rpc'[s][q], q, T)
      PROVE  holdsVote(rf[s], rpc[s][q], q, T)
  <2>1. CASE rf'[s].role # Follower /\ rf'[s].currentTerm = T /\ q \in rf'[s].votes
    BY <1>1, <2>1 DEF noGain, holdsVote
  <2>2. CASE \E c \in callsIn(rpc'[s][q]) : grants(c) /\ c.args.Term = T
    BY <2>2, Zenon DEF Quiet, noGrant, holdsVote
  <2> QED
    BY <1>3, <2>1, <2>2, Zenon DEF holdsVote
<1>4. VotesKept' /\ VotesUnique'
  BY <1>1, <1>2, <1>3, VotesStep, Zenon
<1>5. OwnVote'
  BY <1>1, Zenon DEF noGain, ElectionInv, OwnVote
<1>6. LeaderElected'
  BY <1>1 DEF noGain, ElectionInv, LeaderElected, Follower, Leader
<1>7. \A s \in Server : roleStep(rf[s], rf'[s])
  BY <1>1 DEF noGain, roleStep, Follower, Candidate, Leader
<1>8. ElectionInv'
  BY <1>4, <1>5, <1>6 DEF ElectionInv
<1>9. VotesGiven
  BY <1>3 DEF VotesGiven
<1> QED
  BY <1>1, <1>7, <1>8, <1>9 DEF OrderlyStep

\* A new candidate has no vote yet.
LEMMA ElectionTickerElection ==
  ASSUME ElectionInv, IndInv', NEW x \in Server, electionTicker(x)
  PROVE  OrderlyStep
<1> DEFINE r2 == becomeCandidateLocked(rf[x], x)
<1>1. /\ rf \in [Server -> Peer]
      /\ \A q \in Server : rf[q].currentTerm \in Nat /\ rf'[q].currentTerm \in Nat
  BY IndInvTypes, Zenon DEF ElectionInv, IndInv, TypeOK, Peer
<1>2. /\ r2.role = Candidate /\ r2.currentTerm = rf[x].currentTerm + 1
      /\ r2.votedFor = x /\ r2.votes = {}
  BY IndInvTypes, BecomeCandidate DEF ElectionInv
<1>3. rf' = [rf EXCEPT ![x] = r2] /\ rpc' = rpc
  BY DEF electionTicker
<1> HIDE DEF r2
<1>4. rf'[x] = r2 /\ \A s \in Server \ {x} : rf'[s] = rf[s]
  BY <1>1, <1>3
<1>5. \A q \in Server : voteStep(rf[q], rf'[q])
  BY <1>1, <1>2, <1>4 DEF voteStep
<1>6. \A s, q \in Server : \A T \in Nat :
        holdsVote(rf'[s], rpc'[s][q], q, T) => holdsVote(rf[s], rpc[s][q], q, T)
  BY <1>2, <1>3, <1>4 DEF holdsVote
<1>7. VotesKept' /\ VotesUnique'
  BY <1>1, <1>5, <1>6, VotesStep, Zenon
<1>8. OwnVote' /\ LeaderElected'
  BY <1>2, <1>4 DEF ElectionInv, OwnVote, LeaderElected, Candidate, Leader
<1>9. \A s \in Server : roleStep(rf[s], rf'[s])
  BY <1>1, <1>2, <1>4 DEF roleStep, Candidate, Leader, Follower
<1>10. ElectionInv'
  BY <1>7, <1>8 DEF ElectionInv
<1>11. VotesGiven
  BY <1>6, Zenon DEF VotesGiven
<1> QED
  BY <1>5, <1>9, <1>10, <1>11, Zenon DEF OrderlyStep

\* A candidate counts its own vote, which it gave when it became one.
LEMMA StartElectionElection ==
  ASSUME ElectionInv, IndInv', NEW x \in Server, startElection(x)
  PROVE  OrderlyStep
<1> DEFINE r2 == [rf[x] EXCEPT !.votes = {x}]
<1>1. /\ rf \in [Server -> Peer] /\ rf[x] \in Peer
      /\ \A q \in Server : rf[q].currentTerm \in Nat /\ rf'[q].currentTerm \in Nat
  BY IndInvTypes, Zenon DEF ElectionInv, IndInv, TypeOK, Peer
<1>2. rf[x].role = Candidate
  BY DEF startElection
<1>3. /\ r2.role = rf[x].role /\ r2.currentTerm = rf[x].currentTerm
      /\ r2.votedFor = rf[x].votedFor /\ r2.votes = {x}
  BY <1>1 DEF Peer
<1>4. rf' = [rf EXCEPT ![x] = r2]
  BY StartElectionStep DEF ElectionInv
<1> HIDE DEF r2
<1>5. rf'[x] = r2 /\ \A s \in Server \ {x} : rf'[s] = rf[s]
  BY <1>1, <1>4
<1>6. \A q \in Server : voteStep(rf[q], rf'[q])
  BY <1>1, <1>3, <1>5 DEF voteStep
<1>7. noGrant
  <2>1. \A s2, p2 \in Server : \A c \in callsIn(rpc'[s2][p2]) :
           \/ c \in callsIn(rpc[s2][p2])
           \/ /\ s2 = x /\ c.kind = "RequestVote" /\ c.stage = "req"
              /\ c.args.Term = rf[x].currentTerm
    BY StartElectionCalls, Zenon DEF ElectionInv
  <2> QED
    BY <2>1, Zenon DEF noGrant, grants
<1>8. rf[x].votedFor = x
  BY <1>2 DEF ElectionInv, OwnVote, Candidate, Follower
<1>9. ASSUME NEW s \in Server, NEW q \in Server, NEW T \in Nat,
             holdsVote(rf'[s], rpc'[s][q], q, T)
      PROVE  holdsVote(rf[s], rpc[s][q], q, T) \/ votesFor(q, s, T)
  <2>1. CASE rf'[s].role # Follower /\ rf'[s].currentTerm = T /\ q \in rf'[s].votes
    <3>1. CASE s = x
      BY <1>3, <1>5, <1>8, <2>1, <3>1 DEF votesFor
    <3>2. CASE s # x
      BY <1>5, <2>1, <3>2 DEF holdsVote
    <3> QED
      BY <3>1, <3>2
  <2>2. CASE \E c \in callsIn(rpc'[s][q]) : grants(c) /\ c.args.Term = T
    BY <1>7, <2>2 DEF noGrant, holdsVote
  <2> QED
    BY <1>9, <2>1, <2>2, Zenon DEF holdsVote
<1>10. VotesKept' /\ VotesUnique'
  BY <1>1, <1>6, <1>9, VotesStep, Zenon
<1>11. OwnVote' /\ LeaderElected'
  BY <1>2, <1>3, <1>5, Zenon DEF ElectionInv, OwnVote, LeaderElected, Candidate, Leader
<1>12. \A s \in Server : roleStep(rf[s], rf'[s])
  BY <1>1, <1>3, <1>5 DEF roleStep, Leader, Follower
<1>13. ElectionInv'
  BY <1>10, <1>11 DEF ElectionInv
<1>14. VotesGiven
  BY <1>9 DEF VotesGiven
<1> QED
  BY <1>6, <1>12, <1>13, <1>14, Zenon DEF OrderlyStep

\* A peer that votes gives its vote to the candidate that gets the reply.
LEMMA RequestVoteElection ==
  ASSUME IndInv, ElectionInv, IndInv', NEW s \in Server, NEW p \in Server,
         NEW i \in DOMAIN rpc[s][p], RequestVote(s, p, i)
  PROVE  OrderlyStep
<1>1. PICK r2 : \E granted \in BOOLEAN : VoteAnswered(s, p, i, r2, granted)
  BY RequestVoteResult, Zenon
<1>2. PICK granted \in BOOLEAN :
           /\ rf' = [rf EXCEPT ![p] = r2]
           /\ Answer(s, p, i, [Term |-> rf[p].currentTerm, Ok |-> granted])
           /\ VoteResult(s, p, rpc[s][p][i].args, r2, granted)
  BY <1>1, Zenon DEF VoteAnswered
<1> DEFINE args == rpc[s][p][i].args
<1>v. VoteResult(s, p, args, r2, granted)
  BY <1>2
<1> DEFINE reply == [Term |-> rf[p].currentTerm, Ok |-> granted]
<1>3. /\ rf \in [Server -> Peer] /\ rpc \in RpcType
      /\ \A q \in Server : rf[q].currentTerm \in Nat /\ rf'[q].currentTerm \in Nat
  BY IndInvTypes, Zenon DEF IndInv, TypeOK, Peer
<1>4. reply \in Reply /\ rpc \in RpcType
  BY <1>3 DEF Reply
<1>o. reply.Ok = granted
  OBVIOUS
<1>5. Answer(s, p, i, reply)
  BY <1>2, Zenon
<1> HIDE DEF reply, args
<1>6. /\ rpc' \in RpcType
      /\ \A s2, p2 \in Server : \A c \in callsIn(rpc'[s2][p2]) :
           \/ c \in callsIn(rpc[s2][p2])
           \/ /\ s2 = s /\ p2 = p
              /\ sameCall(c, rpc[s][p][i])
              /\ c.reply = reply
  BY <1>4, <1>5, AnswerCalls, Zenon
<1>7. rf'[p] = r2 /\ \A u \in Server \ {p} : rf'[u] = rf[u]
  BY <1>2, <1>3, SMTT(20)
<1>8. \A q \in Server : voteStep(rf[q], rf'[q])
  <2>1. voteStep(rf[p], rf'[p])
    BY <1>7, <1>v, Zenon DEF VoteResult
  <2>2. \A q \in Server \ {p} : voteStep(rf[q], rf'[q])
    BY <1>3, <1>7 DEF voteStep
  <2> QED
    BY <2>1, <2>2
<1>9. r2.role # Follower => /\ r2.role = rf[p].role /\ r2.votes = rf[p].votes
                            /\ r2.currentTerm = rf[p].currentTerm
  <2>1. CASE granted
    BY <1>v, <2>1, Zenon DEF VoteResult
  <2>2. CASE ~granted
    BY <1>v, <2>2, Zenon DEF VoteResult, noGain
  <2> QED
    BY <1>2, <2>1, <2>2, Zenon
<1>10. ASSUME NEW u \in Server, NEW q \in Server, NEW T \in Nat,
              holdsVote(rf'[u], rpc'[u][q], q, T)
       PROVE  holdsVote(rf[u], rpc[u][q], q, T) \/ votesFor(q, u, T)
  <2>1. CASE rf'[u].role # Follower /\ rf'[u].currentTerm = T /\ q \in rf'[u].votes
    <3>1. rf[u].role # Follower /\ rf[u].currentTerm = T /\ q \in rf[u].votes
      <4>1. CASE u = p
        BY <1>7, <1>9, <2>1, <4>1, Zenon
      <4>2. CASE u # p
        BY <1>7, <2>1, <4>2, Zenon
      <4> QED
        BY <4>1, <4>2, Zenon
    <3> QED
      BY <3>1, Zenon DEF holdsVote
  <2>2. CASE \E c \in callsIn(rpc'[u][q]) : grants(c) /\ c.args.Term = T
    <3>1. PICK c \in callsIn(rpc'[u][q]) : grants(c) /\ c.args.Term = T
      BY <2>2, Zenon
    <3>2. CASE c \in callsIn(rpc[u][q])
      BY <3>1, <3>2 DEF holdsVote
    <3>3. CASE u = s /\ q = p /\ sameCall(c, rpc[s][p][i]) /\ c.reply = reply
      <4>1. granted /\ rpc[s][p][i].args.Term = T
        BY <1>o, <3>1, <3>3 DEF grants, sameCall
      <4>2. votesFor(p, s, T)
        BY <1>2, <1>7, <4>1, Zenon DEF VoteResult, votesFor
      <4> QED
        BY <3>3, <4>2, SMTT(20)
    <3> QED
      BY <1>6, <3>2, <3>3, Zenon
  <2> QED
    BY <1>10, <2>1, <2>2, Zenon DEF holdsVote
<1>11. VotesKept' /\ VotesUnique'
  BY <1>3, <1>8, <1>10, VotesStep, Zenon
<1>12. OwnVote'
  <2>1. rf[p].role # Follower => rf[p].votedFor = p
    BY DEF ElectionInv, OwnVote
  <2>2. p # Nil
    BY ServerAssumption
  <2>3. r2.role # Follower => r2.votedFor = p
    BY <1>2, <1>9, <2>1, <2>2, Zenon DEF VoteResult, noGain
  <2> QED
    BY <1>7, <2>3 DEF ElectionInv, OwnVote
<1>13. LeaderElected'
  <2> SUFFICES ASSUME NEW u \in Server, rf'[u].role = Leader
               PROVE  Cardinality(rf'[u].votes) > Cardinality(Server) \div 2
    BY DEF LeaderElected
  <2>1. rf[u].role = Leader /\ rf[u].votes = rf'[u].votes
    <3>1. CASE u = p
      BY <1>7, <1>9, <3>1 DEF Follower, Leader
    <3>2. CASE u # p
      BY <1>7, <3>2, Zenon
    <3> QED
      BY <3>1, <3>2, Zenon
  <2> QED
    BY <2>1, Zenon DEF ElectionInv, LeaderElected
<1>14. \A u \in Server : roleStep(rf[u], rf'[u])
  BY <1>3, <1>7, <1>9 DEF roleStep, Candidate, Leader, Follower
<1>15. ElectionInv'
  BY <1>11, <1>12, <1>13 DEF ElectionInv
<1>16. VotesGiven
  BY <1>10, Zenon DEF VotesGiven
<1> QED
  BY <1>8, <1>14, <1>15, <1>16, Zenon DEF OrderlyStep

\* A vote that is counted was on its way.
LEMMA AskVoteElection ==
  ASSUME IndInv, ElectionInv, IndInv', NEW s \in Server, NEW p \in Server,
         NEW i \in DOMAIN rpc[s][p], askVoteFromPeer(s, p, i)
  PROVE  OrderlyStep
<1> DEFINE call == rpc[s][p][i]
<1>1. PICK r2 : /\ rf' = [rf EXCEPT ![s] = r2]
                /\ \/ noGain(rf[s], r2)
                   \/ /\ rf[s].role = Candidate /\ rf[s].currentTerm = call.args.Term
                      /\ grants(call) /\ r2 = countVote(rf[s], p)
  BY AskVoteResult, Zenon
<1>2. /\ rf \in [Server -> Peer] /\ rpc \in RpcType /\ peerOK(rf[s])
      /\ \A q \in Server : rf[q].currentTerm \in Nat /\ rf'[q].currentTerm \in Nat
  BY IndInvTypes, Zenon DEF IndInv, TypeOK, Peer
<1>3. \A s2, p2 \in Server : callsIn(rpc'[s2][p2]) \subseteq callsIn(rpc[s2][p2])
  BY <1>2, FinishCalls, Zenon DEF askVoteFromPeer
<1>4. rf'[s] = r2 /\ \A u \in Server \ {s} : rf'[u] = rf[u]
  BY <1>1, <1>2, Zenon
<1>5. CASE noGain(rf[s], r2)
  <2>1. ASSUME NEW u \in Server PROVE noGain(rf[u], rf'[u])
    <3>1. CASE u = s
      BY <1>4, <1>5, <3>1, Zenon
    <3>2. CASE u # s
      <4>1. rf'[u] = rf[u] /\ rf[u].currentTerm \in Nat
        BY <1>2, <1>4, <3>2, Zenon
      <4> QED
        BY <4>1 DEF noGain, voteStep
    <3> QED
      BY <3>1, <3>2, Zenon
  <2>2. noGrant
    BY <1>3 DEF noGrant
  <2> QED
    BY <2>1, <2>2, QuietElection, Zenon DEF Quiet
<1>6. CASE /\ rf[s].role = Candidate /\ rf[s].currentTerm = call.args.Term
           /\ grants(call) /\ r2 = countVote(rf[s], p)
  <2>1. /\ r2.currentTerm = rf[s].currentTerm /\ r2.votedFor = rf[s].votedFor
        /\ r2.votes = rf[s].votes \cup {p}
        /\ \/ r2.role = Candidate
           \/ r2.role = Leader /\ Cardinality(r2.votes) > Cardinality(Server) \div 2
    BY <1>2, <1>6, CountVote, Zenon
  <2>2. ASSUME NEW u \in Server PROVE voteStep(rf[u], rf'[u])
    <3>1. rf'[u].currentTerm = rf[u].currentTerm /\ rf'[u].votedFor = rf[u].votedFor
      <4>1. CASE u = s
        BY <1>4, <2>1, <4>1, Zenon
      <4>2. CASE u # s
        BY <1>4, <4>2, Zenon
      <4> QED
        BY <4>1, <4>2, Zenon
    <3>2. rf[u].currentTerm \in Nat
      BY <1>2, Zenon
    <3> QED
      BY <3>1, <3>2 DEF voteStep
  <2>3. holdsVote(rf[s], rpc[s][p], p, rf[s].currentTerm)
    <3>1. call \in callsIn(rpc[s][p])
      BY <1>2, CallType, Zenon
    <3> QED
      BY <1>6, <3>1 DEF holdsVote
  <2>4. ASSUME NEW u \in Server, NEW q \in Server, NEW T \in Nat,
               holdsVote(rf'[u], rpc'[u][q], q, T)
        PROVE  holdsVote(rf[u], rpc[u][q], q, T)
    <3>1. CASE rf'[u].role # Follower /\ rf'[u].currentTerm = T /\ q \in rf'[u].votes
      <4>1. CASE u = s /\ q = p
        BY <1>4, <2>1, <2>3, <3>1, <4>1, Zenon
      <4>2. CASE u = s /\ q # p
        BY <1>4, <1>6, <2>1, <3>1, <4>2, Zenon DEF holdsVote, Candidate, Follower
      <4>3. CASE u # s
        BY <1>4, <3>1, <4>3, Zenon DEF holdsVote
      <4> QED
        BY <4>1, <4>2, <4>3, Zenon
    <3>2. CASE \E c \in callsIn(rpc'[u][q]) : grants(c) /\ c.args.Term = T
      BY <1>3, <3>2 DEF holdsVote
    <3> QED
      BY <2>4, <3>1, <3>2, Zenon DEF holdsVote
  <2>5. VotesKept' /\ VotesUnique'
    BY <1>2, <2>2, <2>4, VotesStep, Zenon
  <2>6. OwnVote'
    BY <1>4, <1>6, <2>1, Zenon DEF ElectionInv, OwnVote, Candidate, Follower
  <2>7. LeaderElected'
    BY <1>4, <2>1, Zenon DEF ElectionInv, LeaderElected, Candidate, Leader
  <2>8. \A u \in Server : roleStep(rf[u], rf'[u])
    BY <1>2, <1>4, <1>6, <2>1, Zenon DEF roleStep, Candidate, Leader, Follower
  <2>9. ElectionInv'
    BY <2>5, <2>6, <2>7 DEF ElectionInv
  <2>10. VotesGiven
    BY <2>4, Zenon DEF VotesGiven
  <2> QED
    BY <2>2, <2>8, <2>9, <2>10, Zenon DEF OrderlyStep
<1> QED
  BY <1>1, <1>5, <1>6, Zenon

-----------------------------------------------------------------------------
(* The theorems. *)

\* Nobody has voted when the group is made.
LEMMA InitElection == Init => ElectionInv
<1> SUFFICES ASSUME Init PROVE ElectionInv
  OBVIOUS
<1>1. IndInv
  BY InitInv
<1>2. \A s \in Server : rf[s].role = Follower
  BY DEF Init, Make
<1>3. \A s, q \in Server : rpc[s][q] = <<>>
  BY DEF Init
<1>4. \A s, q \in Server : callsIn(rpc[s][q]) = {}
  BY <1>3 DEF callsIn
<1>5. \A s, q \in Server : \A T \in Nat : ~holdsVote(rf[s], rpc[s][q], q, T)
  BY <1>2, <1>4 DEF holdsVote
<1> QED
  BY <1>1, <1>2, <1>5
     DEF ElectionInv, OwnVote, VotesKept, VotesUnique, LeaderElected, Follower, Leader

\* No step breaks the invariant, and none makes a peer go back on its term or its vote.
LEMMA NextElection ==
  ASSUME ElectionInv, [Next]_vars
  PROVE  OrderlyStep
<1>0. IndInv /\ IndInv'
  BY NextInv DEF ElectionInv
<1>g. ASSUME Quiet PROVE OrderlyStep
  BY <1>0, <1>g, QuietElection
<1>1. ASSUME NEW s \in Server, electionTicker(s) PROVE OrderlyStep
  BY <1>0, <1>1, ElectionTickerElection
<1>2. ASSUME NEW s \in Server, startElection(s) PROVE OrderlyStep
  BY <1>0, <1>2, StartElectionElection
<1>3. ASSUME NEW s \in Server, startReplication(s) PROVE OrderlyStep
  BY <1>0, <1>3, <1>g, StartReplicationStep
<1>4. ASSUME NEW s \in Server, applicationTicker(s) PROVE OrderlyStep
  BY <1>0, <1>4, <1>g, ApplicationStep
<1>5. ASSUME NEW s \in Server, Restart(s) PROVE OrderlyStep
  BY <1>0, <1>5, <1>g, RestartStep
<1>6. ASSUME NEW s \in Server, NEW command \in Cmd, Start(s, command) PROVE OrderlyStep
  BY <1>0, <1>6, <1>g, StartStep
<1>7. ASSUME NEW s \in Server, NEW index \in 1..lastIdx(rf[s].log), Snapshot(s, index)
      PROVE  OrderlyStep
  BY <1>0, <1>7, <1>g, SnapshotStep
<1>8. ASSUME NEW s \in Server, NEW p \in Server, Handle(s, p) PROVE OrderlyStep
  <2>1. ASSUME NEW i \in DOMAIN rpc[s][p], RequestVote(s, p, i) PROVE OrderlyStep
    BY <1>0, <2>1, RequestVoteElection, Zenon
  <2>2. ASSUME NEW i \in DOMAIN rpc[s][p], AppendEntries(s, p, i) PROVE OrderlyStep
    BY <1>0, <2>2, <1>g, AppendEntriesStep, Zenon
  <2>3. ASSUME NEW i \in DOMAIN rpc[s][p], InstallSnapshot(s, p, i) PROVE OrderlyStep
    BY <1>0, <2>3, <1>g, InstallSnapshotStep
  <2> QED
    BY <1>8, <2>1, <2>2, <2>3, Zenon DEF Handle
<1>9. ASSUME NEW s \in Server, NEW p \in Server, Resume(s, p) PROVE OrderlyStep
  <2>1. ASSUME NEW i \in DOMAIN rpc[s][p], askVoteFromPeer(s, p, i) PROVE OrderlyStep
    BY <1>0, <2>1, AskVoteElection
  <2>2. ASSUME NEW i \in DOMAIN rpc[s][p], replicateToPeer(s, p, i) PROVE OrderlyStep
    BY <1>0, <2>2, <1>g, ReplicateToPeerStep
  <2>3. ASSUME NEW i \in DOMAIN rpc[s][p], installOnPeer(s, p, i) PROVE OrderlyStep
    BY <1>0, <2>3, <1>g, InstallOnPeerStep
  <2> QED
    BY <1>9, <2>1, <2>2, <2>3 DEF Resume
<1>10. ASSUME NEW s \in Server, NEW p \in Server, NEW i \in DOMAIN rpc[s][p], Lose(s, p, i)
       PROVE  OrderlyStep
  BY <1>0, <1>10, <1>g, LoseStep
<1>11. CASE UNCHANGED vars
  <2>1. rf' = rf /\ rpc' = rpc
    BY <1>11 DEF vars
  <2>2. \A s \in Server : rf[s].currentTerm \in Nat
    BY <1>0, IndInvTypes
  <2>3. \A s \in Server : noGain(rf[s], rf'[s])
    BY <2>1, <2>2 DEF noGain, voteStep
  <2> QED
    BY <1>g, <2>1, <2>3 DEF Quiet, noGrant
<1> QED
  BY <1>1, <1>2, <1>3, <1>4, <1>5, <1>6, <1>7, <1>8, <1>9, <1>10, <1>11, Zenon DEF Next

\* The votes are always in order.
THEOREM ElectionInvariance == Spec => []ElectionInv
<1>1. ElectionInv /\ [Next]_vars => ElectionInv'
  BY NextElection DEF OrderlyStep
<1> QED
  BY <1>1, InitElection, PTL DEF Spec

\* The votes that make a leader.
majority(Q) == Cardinality(Q) > Cardinality(Server) \div 2

\* What elections need of majorities: two of them meet, and a larger set is one too.
Quorums ==
  /\ \A Q, R \in SUBSET Server : majority(Q) /\ majority(R) => \E q \in Server : q \in Q /\ q \in R
  /\ \A Q, R \in SUBSET Server : Q \subseteq R /\ majority(Q) => majority(R)

\* Of two majorities one peer is in both, and it voted for one only.
LEMMA MajoritiesAgree ==
  ASSUME Quorums, ElectionInv
  PROVE  ElectionSafety
<1> SUFFICES ASSUME NEW s \in Server, NEW t \in Server,
                    rf[s].role = Leader, rf[t].role = Leader,
                    rf[s].currentTerm = rf[t].currentTerm
             PROVE  s = t
  BY DEF ElectionSafety
<1> DEFINE V == rf[s].votes
           W == rf[t].votes
<1>1. V \in SUBSET Server /\ W \in SUBSET Server /\ rf[s].currentTerm \in Nat
  BY IndInvTypes DEF ElectionInv
<1>2. majority(V) /\ majority(W)
  BY DEF ElectionInv, LeaderElected, majority
<1> HIDE DEF V, W
<1>3. PICK q \in Server : q \in V /\ q \in W
  BY <1>1, <1>2, Zenon DEF Quorums
<1>4. /\ holdsVote(rf[s], rpc[s][q], q, rf[s].currentTerm)
      /\ holdsVote(rf[t], rpc[t][q], q, rf[s].currentTerm)
  BY <1>3 DEF holdsVote, V, W, Leader, Follower
<1> QED
  BY <1>1, <1>4, Zenon DEF ElectionInv, VotesUnique

\* No peer ever goes back on its term or on its vote in a term, across any crash.
THEOREM VotesOnce == Spec => VoteOncePerTerm
<1>1. ASSUME ElectionInv, [Next]_vars
      PROVE  [\A s \in Server :
                /\ rf'[s].currentTerm >= rf[s].currentTerm
                /\ (rf'[s].currentTerm = rf[s].currentTerm /\ rf[s].votedFor # Nil)
                   => rf'[s].votedFor = rf[s].votedFor]_vars
  BY <1>1, NextElection, Zenon DEF OrderlyStep, voteStep
<1> QED
  BY <1>1, ElectionInvariance, PTL DEF Spec, VoteOncePerTerm
=============================================================================
