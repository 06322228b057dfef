------------------------------ MODULE RaftLog ------------------------------
(***************************************************************************)
(* The log of one Raft peer (src/src/raft/raft_log.go): a snapshot that     *)
(* stands for the entries 1..snapLastIdx, and tailLog, whose first element  *)
(* is a dummy that carries the term of entry snapLastIdx.  Indexes are the  *)
(* code's logical indexes; an operator is only applied where the code's     *)
(* idx does not panic.  The bytes of a snapshot are abstracted to the       *)
(* entries they stand for.                                                  *)
(***************************************************************************)
EXTENDS Integers, Sequences, FiniteSets

CONSTANTS Cmd,      \* the commands a service may pass to Start
          NoCmd     \* the command of a dummy entry

ASSUME NoCmdAssumption == NoCmd \notin Cmd

Entry == [Term : Nat, Command : Cmd \cup {NoCmd}]

RaftLogStruct == [snapLastIdx : Nat, snapLastTerm : Nat, snapshot : Seq(Entry),
                  tailLog : Seq(Entry)]

Log == {rl \in RaftLogStruct : rl.tailLog # <<>> /\ Len(rl.snapshot) = rl.snapLastIdx}

dummy(term) == [Term |-> term, Command |-> NoCmd]

\* NewLog(InvalidIndex, InvalidTerm, nil, nil), the only way the code calls it.
NewLog ==
  [snapLastIdx |-> 0, snapLastTerm |-> 0, snapshot |-> <<>>, tailLog |-> <<dummy(0)>>]

size(rl) == rl.snapLastIdx + Len(rl.tailLog)

\* The indexes on which the code's idx returns instead of panicking.
inRange(rl, i) == rl.snapLastIdx <= i /\ i < size(rl)

at(rl, i) == rl.tailLog[i - rl.snapLastIdx + 1]

lastIdx(rl) == size(rl) - 1

lastTerm(rl) == rl.tailLog[Len(rl.tailLog)].Term

\* The entries from startIdx on; none when startIdx is past the end.
tail(rl, startIdx) == SubSeq(rl.tailLog, startIdx - rl.snapLastIdx + 1, Len(rl.tailLog))

append(rl, e) == [rl EXCEPT !.tailLog = Append(rl.tailLog, e)]

\* Whatever follows prevIdx is dropped, matching or not.
appendFrom(rl, prevIdx, entries) ==
  [rl EXCEPT !.tailLog = SubSeq(rl.tailLog, 1, prevIdx - rl.snapLastIdx + 1) \o entries]

\* Mutant: the entry the dummy stands for is kept as well.
doSnapshotKeepsLast(rl, index, snap) ==
  [snapLastIdx |-> index, snapLastTerm |-> at(rl, index).Term, snapshot |-> snap,
   tailLog |-> <<dummy(at(rl, index).Term)>> \o tail(rl, index)]

doSnapshot(rl, index, snap) ==
  [snapLastIdx |-> index, snapLastTerm |-> at(rl, index).Term, snapshot |-> snap,
   tailLog |-> <<dummy(at(rl, index).Term)>> \o tail(rl, index + 1)]

\* The whole local log is discarded.
installSnapshot(index, term, snap) ==
  [snapLastIdx |-> index, snapLastTerm |-> term, snapshot |-> snap,
   tailLog |-> <<dummy(term)>>]

(***************************************************************************)
(* What a log says of index i, for the properties.                          *)
(***************************************************************************)
entryAt(rl, i) == IF i <= rl.snapLastIdx THEN rl.snapshot[i] ELSE at(rl, i)

\* The entries 1..i: what a service that applied them has seen.
entriesTo(rl, i) == [k \in 1..i |-> entryAt(rl, k)]

\* The two logs hold the same entries up to and including i.
agreeTo(rl1, rl2, i) == \A k \in 1..i : entryAt(rl1, k) = entryAt(rl2, k)
=============================================================================
