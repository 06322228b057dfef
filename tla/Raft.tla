-------------------------------- MODULE Raft --------------------------------
(***************************************************************************)
(* The peers of one Raft group (src/src/raft): elections, log replication,  *)
(* log compaction, persistence, and the RPCs between them.                  *)
(*                                                                         *)
(* rf[s] is the Go struct of peer s; every handler runs with rf.mu held,    *)
(* so it is one step.  rpc[s][p] holds the RPCs s has outstanding at p, in  *)
(* the order in which they were sent; each is a goroutine of s blocked in   *)
(* Call.  A call is a request ("req") until p runs its handler, then a      *)
(* reply ("rep") until s handles it.  A request of a process that crashed   *)
(* since may still arrive ("orphan"); once it did, or when the reply was    *)
(* under way, the call is "void", and nothing looks at it again.            *)
(*                                                                         *)
(* The goroutines that wait for a timer are free to run at any time.        *)
(* replicationTicker(term) exists exactly while its peer is the leader of   *)
(* that term, and the startElection goroutine of the current term has not   *)
(* run yet exactly while a candidate's votes are empty.                     *)
(***************************************************************************)
EXTENDS RaftLog

CONSTANTS Server,       \* the peers
          Nil,          \* votedFor = -1
          Reorder,      \* may requests of one peer to another overtake each other?
          Lossy,        \* may an RPC fail?
          MaxTerm,      \* bound: no election beyond this term
          MaxLog,       \* bound: no Start beyond this index
          MaxCalls,     \* bound: outstanding RPCs of one peer at another
          MaxRestarts,  \* bound: crashes
          MaxSnapshots  \* bound: calls of Snapshot

ASSUME ServerAssumption == IsFiniteSet(Server) /\ Nil \notin Server

ASSUME BoundAssumption ==
  /\ {Reorder, Lossy} \subseteq BOOLEAN
  /\ {MaxTerm, MaxLog, MaxCalls, MaxRestarts, MaxSnapshots} \subseteq Nat

VARIABLES rf, rpc, restarts, snapshots

vars == <<rf, rpc, restarts, snapshots>>

Follower == "Follower"
Candidate == "Candidate"
Leader == "Leader"

Persisted == [currentTerm : Nat, votedFor : Server \cup {Nil}, log : Log]

Peer == [role : {Follower, Candidate, Leader},
         currentTerm : Nat,
         votedFor : Server \cup {Nil},
         votes : SUBSET Server,      \* whose votes startElection(currentTerm) counted
         log : Log,
         nextIndex : [Server -> Nat],
         matchIndex : [Server -> Nat],
         commitIndex : Nat,
         snapPending : BOOLEAN,
         persister : Persisted]

RequestVoteArgs == [Term : Nat, LastLogIndex : Nat, LastLogTerm : Nat]

AppendEntriesArgs == [Term : Nat, PrevLogIndex : Nat, PrevLogTerm : Nat,
                      Entries : Seq(Entry), LeaderCommit : Nat]

InstallSnapshotArgs ==
  {args \in [Term : Nat, LastIncludedIndex : Nat, LastIncludedTerm : Nat,
             Snapshot : Seq(Entry)] :
     Len(args.Snapshot) = args.LastIncludedIndex}

Reply == [Term : Nat, Ok : BOOLEAN]   \* Ok is VoteGranted, or Success

Stage == {"req", "rep", "orphan", "void"}

Call ==
       [stage : Stage, kind : {"RequestVote"},
        args : RequestVoteArgs, reply : Reply]
  \cup [stage : Stage, kind : {"AppendEntries"},
        args : AppendEntriesArgs, reply : Reply]
  \cup [stage : Stage, kind : {"InstallSnapshot"},
        args : InstallSnapshotArgs, reply : Reply]

TypeOK ==
  /\ rf \in [Server -> Peer]
  /\ rpc \in [Server -> [Server -> Seq(Call)]]
  /\ restarts \in Nat
  /\ snapshots \in Nat

-----------------------------------------------------------------------------
(* Persistence: raft_persistence.go, persister.go, Make. *)

persistLocked(r) ==
  [r EXCEPT !.persister =
     [currentTerm |-> r.currentTerm, votedFor |-> r.votedFor, log |-> r.log]]

\* A new process on what the persister holds.
Make(ps) ==
  [role |-> Follower, currentTerm |-> ps.currentTerm, votedFor |-> ps.votedFor,
   votes |-> {}, log |-> ps.log,
   nextIndex |-> [p \in Server |-> 0], matchIndex |-> [p \in Server |-> 0],
   commitIndex |-> ps.log.snapLastIdx, snapPending |-> FALSE, persister |-> ps]

Init ==
  /\ rf = [s \in Server |-> Make([currentTerm |-> 0, votedFor |-> Nil, log |-> NewLog])]
  /\ rpc = [s \in Server |-> [p \in Server |-> <<>>]]
  /\ restarts = 0
  /\ snapshots = 0

-----------------------------------------------------------------------------
(* The network: labrpc.  A call that fails makes its goroutine return. *)

request(kind, args) ==
  [stage |-> "req", kind |-> kind, args |-> args, reply |-> [Term |-> 0, Ok |-> FALSE]]

outstanding(calls) == Cardinality({i \in DOMAIN calls : calls[i].stage # "void"})

\* Call i of s is the next request p may execute.
Arrives(s, p, i, kind) ==
  /\ rpc[s][p][i].kind = kind
  /\ rpc[s][p][i].stage \in {"req", "orphan"}
  /\ ~Reorder => \A j \in 1..(i - 1) : rpc[s][p][j].stage \in {"rep", "void"}

Returns(s, p, i, kind) == rpc[s][p][i].kind = kind /\ rpc[s][p][i].stage = "rep"

\* p's handler is done with call i of s.
Answer(s, p, i, reply) ==
  LET call == rpc[s][p][i]
      answered == [call EXCEPT !.stage = IF call.stage = "req" THEN "rep" ELSE "void",
                              !.reply = reply]
  IN  rpc' = [rpc EXCEPT ![s][p][i] = answered]

without(calls, i) == SubSeq(calls, 1, i - 1) \o SubSeq(calls, i + 1, Len(calls))

\* The goroutine of call i of s is done.
Finish(s, p, i) == rpc' = [rpc EXCEPT ![s][p] = without(rpc[s][p], i)]

\* Call returns false: the request or the reply is lost, or p is dead.
Lose(s, p, i) ==
  /\ Lossy
  /\ rpc[s][p][i].stage # "void"
  /\ Finish(s, p, i)
  /\ UNCHANGED <<rf, restarts, snapshots>>

-----------------------------------------------------------------------------
(* Roles: raft.go. *)

\* Mutant: the vote is forgotten in the same term as well.
becomeFollowerForgets(r, term) ==
  IF r.currentTerm > term THEN r
  ELSE persistLocked([r EXCEPT !.role = Follower, !.currentTerm = term, !.votedFor = Nil])

becomeFollowerLocked(r, term) ==
  IF r.currentTerm > term THEN r
  ELSE LET f == [r EXCEPT !.role = Follower, !.currentTerm = term,
                          !.votedFor = IF term > r.currentTerm THEN Nil ELSE r.votedFor]
       IN  IF term # r.currentTerm THEN persistLocked(f) ELSE f

becomeCandidateLocked(r, me) ==
  persistLocked([r EXCEPT !.role = Candidate, !.currentTerm = r.currentTerm + 1,
                          !.votedFor = me, !.votes = {}])

\* Mutant: "no entry" is -1, and nextIndex one too far.
becomeLeaderBeyond(r) ==
  [r EXCEPT !.role = Leader, !.nextIndex = [p \in Server |-> size(r.log) + 1],
            !.matchIndex = [p \in Server |-> -1]]

becomeLeaderLocked(r) ==
  [r EXCEPT !.role = Leader, !.nextIndex = [p \in Server |-> size(r.log)],
            !.matchIndex = [p \in Server |-> 0]]

contextLostLocked(r, role, term) == r.role # role \/ r.currentTerm # term

-----------------------------------------------------------------------------
(* Elections: raft_election.go. *)

\* Mutant: a candidate's log is not looked at.
isNeverMoreUptoDate(rl, candidateIndex, candidateTerm) == FALSE

isMoreUptoDateLocked(rl, candidateIndex, candidateTerm) ==
  IF lastTerm(rl) # candidateTerm THEN lastTerm(rl) > candidateTerm
                                  ELSE lastIdx(rl) > candidateIndex

\* The election timer of s has run out.
electionTicker(s) ==
  /\ rf[s].role # Leader
  /\ rf[s].currentTerm < MaxTerm
  /\ rf' = [rf EXCEPT ![s] = becomeCandidateLocked(rf[s], s)]
  /\ UNCHANGED <<rpc, restarts, snapshots>>

startElection(s) ==
  /\ rf[s].role = Candidate
  /\ rf[s].votes = {}
  /\ \A p \in Server \ {s} : outstanding(rpc[s][p]) < MaxCalls
  /\ rf' = [rf EXCEPT ![s].votes = {s}]
  /\ rpc' = [rpc EXCEPT ![s] = [p \in Server |->
               IF p = s THEN rpc[s][p]
               ELSE Append(rpc[s][p], request("RequestVote",
                      [Term |-> rf[s].currentTerm, LastLogIndex |-> lastIdx(rf[s].log),
                       LastLogTerm |-> lastTerm(rf[s].log)]))]]
  /\ UNCHANGED <<restarts, snapshots>>

\* Mutant: the vote is given before it is on disk.
voteUnsaved(r, s) == [r EXCEPT !.votedFor = s]

voteFor(r, s) == persistLocked([r EXCEPT !.votedFor = s])

\* p votes; the term it replies is the one it had before it read the request.
RequestVote(s, p, i) ==
  LET args == rpc[s][p][i].args
      r == IF args.Term > rf[p].currentTerm THEN becomeFollowerLocked(rf[p], args.Term)
           ELSE rf[p]
      granted == /\ args.Term >= rf[p].currentTerm
                 /\ r.votedFor \in {Nil, s}
                 /\ ~isMoreUptoDateLocked(r.log, args.LastLogIndex, args.LastLogTerm)
  IN  /\ Arrives(s, p, i, "RequestVote")
      /\ rf' = [rf EXCEPT ![p] =
                  IF granted THEN voteFor(r, s) ELSE r]
      /\ Answer(s, p, i, [Term |-> rf[p].currentTerm, Ok |-> granted])
      /\ UNCHANGED <<restarts, snapshots>>

\* Mutant: a vote counts whatever has become of the candidacy.
wonAnyVote(r, call) == call.reply.Ok

wonVote(r, call) == ~contextLostLocked(r, Candidate, call.args.Term) /\ call.reply.Ok

countVote(r, p) ==
  LET counted == [r EXCEPT !.votes = r.votes \cup {p}]
  IN  IF Cardinality(counted.votes) > Cardinality(Server) \div 2
        THEN becomeLeaderLocked(counted) ELSE counted

askVoteFromPeer(s, p, i) ==
  LET call == rpc[s][p][i]
      r == rf[s]
  IN  /\ Returns(s, p, i, "RequestVote")
      /\ Finish(s, p, i)
      /\ rf' = [rf EXCEPT ![s] =
                  IF call.reply.Term > r.currentTerm
                    THEN becomeFollowerLocked(r, call.reply.Term)
                  ELSE IF wonVote(r, call) THEN countVote(r, p) ELSE r]
      /\ UNCHANGED <<restarts, snapshots>>

-----------------------------------------------------------------------------
(* Replication: raft_replication.go. *)

Start(s, command) ==
  /\ rf[s].role = Leader
  /\ size(rf[s].log) <= MaxLog
  /\ LET e == [Term |-> rf[s].currentTerm, Command |-> command]
         r == [rf[s] EXCEPT !.log = append(rf[s].log, e)]
     IN  rf' = [rf EXCEPT ![s] = persistLocked(r)]
  /\ UNCHANGED <<rpc, restarts, snapshots>>

\* What the leader sends a peer: its snapshot if it no longer has the entry before
\* nextIndex, else all its entries from nextIndex on.
replicationCall(r, p) ==
  LET prevIdx == r.nextIndex[p] - 1
  IN  IF prevIdx < r.log.snapLastIdx
        THEN request("InstallSnapshot",
               [Term |-> r.currentTerm, LastIncludedIndex |-> r.log.snapLastIdx,
                LastIncludedTerm |-> r.log.snapLastTerm, Snapshot |-> r.log.snapshot])
        ELSE request("AppendEntries",
               [Term |-> r.currentTerm, PrevLogIndex |-> prevIdx,
                PrevLogTerm |-> at(r.log, prevIdx).Term,
                Entries |-> tail(r.log, prevIdx + 1), LeaderCommit |-> r.commitIndex])

startReplication(s) ==
  /\ rf[s].role = Leader
  /\ \A p \in Server \ {s} : outstanding(rpc[s][p]) < MaxCalls
  /\ LET r == [rf[s] EXCEPT !.matchIndex[s] = lastIdx(rf[s].log),
                            !.nextIndex[s] = size(rf[s].log)]
     IN  rf' = [rf EXCEPT ![s] = r]
  /\ rpc' = [rpc EXCEPT ![s] = [p \in Server |->
               IF p = s THEN rpc[s][p] ELSE Append(rpc[s][p], replicationCall(rf[s], p))]]
  /\ UNCHANGED <<restarts, snapshots>>

\* Mutant: having an entry there is enough.
prevLogInRange(rl, args) == inRange(rl, args.PrevLogIndex)

prevLogMatches(rl, args) ==
  /\ inRange(rl, args.PrevLogIndex)
  /\ at(rl, args.PrevLogIndex).Term = args.PrevLogTerm

\* Mutant: an older leader is obeyed.
acceptsFromAny(r, args) == prevLogMatches(r.log, args)

\* r has aligned its term with the request's.
accepts(r, args) == args.Term >= r.currentTerm /\ prevLogMatches(r.log, args)

AppendEntries(s, p, i) ==
  LET args == rpc[s][p][i].args
      r == becomeFollowerLocked(rf[p], args.Term)
      success == accepts(r, args)
      appended == [r EXCEPT !.log = appendFrom(r.log, args.PrevLogIndex, args.Entries),
                            !.commitIndex = IF args.LeaderCommit > r.commitIndex
                                              THEN args.LeaderCommit ELSE r.commitIndex]
  IN  /\ Arrives(s, p, i, "AppendEntries")
      /\ rf' = [rf EXCEPT ![p] = IF success THEN persistLocked(appended) ELSE r]
      /\ Answer(s, p, i, [Term |-> rf[p].currentTerm, Ok |-> success])
      /\ UNCHANGED <<restarts, snapshots>>

\* idx is where the loop that goes back a term stops.
backsUpTo(rl, from, idx) ==
  /\ idx >= rl.snapLastIdx => at(rl, idx).Term # at(rl, from).Term
  /\ \A k \in (idx + 1)..from : at(rl, k).Term = at(rl, from).Term

\* Mutant: a refused peer is sent the same again.
replicateAgain(s, p) == UNCHANGED rf

\* The peer refused: go back a term from the nextIndex of now, not of the request.
replicateFailed(s, p) ==
  LET rl == rf[s].log
      from == rf[s].nextIndex[p] - 1
  IN  IF from < rl.snapLastIdx
        THEN rf' = [rf EXCEPT ![s].nextIndex[p] = rl.snapLastIdx + 1]
        ELSE \E idx \in (rl.snapLastIdx - 1)..from :
               /\ backsUpTo(rl, from, idx)
               /\ rf' = [rf EXCEPT ![s].nextIndex[p] = idx + 1]

\* v is at place (n-1)/2, counting from 0, of the sorted values of matchIndex.
getMajorityIndexLocked(matchIndex, v) ==
  LET place == (Cardinality(Server) - 1) \div 2
  IN  /\ Cardinality({q \in Server : matchIndex[q] < v}) <= place
      /\ Cardinality({q \in Server : matchIndex[q] <= v}) > place

\* Mutant: entries of earlier terms are committed by counting.
committableAnyTerm(r, v) == v > r.commitIndex

committable(r, v) == v > r.commitIndex /\ at(r.log, v).Term = r.currentTerm

\* Mutant: the peer is taken to have all the leader has by now.
matchedAll(r, args) == lastIdx(r.log)

matched(r, args) == args.PrevLogIndex + Len(args.Entries)

replicateSucceeded(s, p, args) ==
  LET match == matched(rf[s], args)
      r == [rf[s] EXCEPT !.matchIndex[p] = match, !.nextIndex[p] = match + 1]
  IN  \E q \in Server :
        LET v == r.matchIndex[q]
            r2 == [r EXCEPT !.commitIndex = IF committable(r, v) THEN v ELSE r.commitIndex]
        IN  getMajorityIndexLocked(r.matchIndex, v) /\ rf' = [rf EXCEPT ![s] = r2]

replicateToPeer(s, p, i) ==
  LET call == rpc[s][p][i]
  IN  /\ Returns(s, p, i, "AppendEntries")
      /\ Finish(s, p, i)
      /\ IF call.reply.Term > rf[s].currentTerm
           THEN rf' = [rf EXCEPT ![s] = becomeFollowerLocked(rf[s], call.reply.Term)]
         ELSE IF contextLostLocked(rf[s], Leader, call.args.Term) THEN UNCHANGED rf
         ELSE IF call.reply.Ok THEN replicateSucceeded(s, p, call.args)
         ELSE replicateFailed(s, p)
      /\ UNCHANGED <<restarts, snapshots>>

-----------------------------------------------------------------------------
(* Compaction: raft_compaction.go. *)

\* The service has applied the entries up to index and hands over their state.  Whether
\* the log still has the entry by then is module RaftApply's subject.
Snapshot(s, index) ==
  /\ snapshots < MaxSnapshots
  /\ index <= rf[s].commitIndex
  /\ index > rf[s].log.snapLastIdx
  /\ LET rl == rf[s].log
         r == [rf[s] EXCEPT !.log = doSnapshot(rl, index, entriesTo(rl, index))]
     IN  rf' = [rf EXCEPT ![s] = persistLocked(r)]
  /\ snapshots' = snapshots + 1
  /\ UNCHANGED <<rpc, restarts>>

InstallSnapshot(s, p, i) ==
  LET args == rpc[s][p][i].args
      r == becomeFollowerLocked(rf[p], args.Term)
      ignored == \/ args.Term < rf[p].currentTerm
                 \/ r.log.snapLastIdx >= args.LastIncludedIndex
      installed == [r EXCEPT !.log = installSnapshot(args.LastIncludedIndex,
                                                     args.LastIncludedTerm, args.Snapshot),
                             !.snapPending = TRUE]
  IN  /\ Arrives(s, p, i, "InstallSnapshot")
      /\ rf' = [rf EXCEPT ![p] = IF ignored THEN r ELSE persistLocked(installed)]
      /\ Answer(s, p, i, [Term |-> rf[p].currentTerm, Ok |-> FALSE])
      /\ UNCHANGED <<restarts, snapshots>>

installOnPeer(s, p, i) ==
  LET call == rpc[s][p][i]
      index == call.args.LastIncludedIndex
      r == rf[s]
      caughtUp == [r EXCEPT !.matchIndex[p] = index, !.nextIndex[p] = index + 1]
  IN  /\ Returns(s, p, i, "InstallSnapshot")
      /\ Finish(s, p, i)
      /\ rf' = [rf EXCEPT ![s] =
                  IF call.reply.Term > r.currentTerm
                    THEN becomeFollowerLocked(r, call.reply.Term)
                  ELSE IF \/ contextLostLocked(r, Leader, call.args.Term)
                          \/ index <= r.matchIndex[p]
                    THEN r ELSE caughtUp]
      /\ UNCHANGED <<restarts, snapshots>>

\* The apply loop has handed an installed snapshot to the service.  What it does
\* between its two critical sections is module RaftApply's subject.
applicationTicker(s) ==
  /\ rf[s].snapPending
  /\ rf' = [rf EXCEPT ![s].snapPending = FALSE,
                      ![s].commitIndex = IF rf[s].commitIndex < rf[s].log.snapLastIdx
                                           THEN rf[s].log.snapLastIdx ELSE rf[s].commitIndex]
  /\ UNCHANGED <<rpc, restarts, snapshots>>

-----------------------------------------------------------------------------
(* Crash and restart. *)

orphans(calls) ==
  [i \in DOMAIN calls |-> [calls[i] EXCEPT !.stage =
     IF calls[i].stage \in {"req", "orphan"} THEN "orphan" ELSE "void"]]

Restart(s) ==
  /\ restarts < MaxRestarts
  /\ rf' = [rf EXCEPT ![s] = Make(rf[s].persister)]
  /\ rpc' = [rpc EXCEPT ![s] = [p \in Server |-> orphans(rpc[s][p])]]
  /\ restarts' = restarts + 1
  /\ UNCHANGED snapshots

\* p executes a request of s.
Handle(s, p) ==
  \E i \in DOMAIN rpc[s][p] :
    \/ RequestVote(s, p, i)
    \/ AppendEntries(s, p, i)
    \/ InstallSnapshot(s, p, i)

\* A goroutine of s that called p goes on.
Resume(s, p) ==
  \E i \in DOMAIN rpc[s][p] :
    \/ askVoteFromPeer(s, p, i)
    \/ replicateToPeer(s, p, i)
    \/ installOnPeer(s, p, i)

Next ==
  \/ \E s \in Server :
       \/ electionTicker(s)
       \/ startElection(s)
       \/ startReplication(s)
       \/ applicationTicker(s)
       \/ Restart(s)
       \/ \E command \in Cmd : Start(s, command)
       \/ \E index \in 1..lastIdx(rf[s].log) : Snapshot(s, index)
  \/ \E s, p \in Server :
       \/ Handle(s, p)
       \/ Resume(s, p)
       \/ \E i \in DOMAIN rpc[s][p] : Lose(s, p, i)

Spec == Init /\ [][Next]_vars

\* replicationTicker sends every replicationInterval as long as its peer leads, a peer
\* runs the handlers of what reaches it, and the goroutine of a call that returned goes
\* on.  Nothing is said of elections, of crashes and of the service, and where Lossy the
\* network may still lose everything.
Fairness ==
  /\ \A s \in Server : WF_vars(startReplication(s))
  /\ \A s \in Server : \A p \in Server \ {s} :
       WF_vars(Handle(s, p)) /\ WF_vars(Resume(s, p))

FairSpec == Spec /\ Fairness

-----------------------------------------------------------------------------
(* Properties. *)

\* At most one leader is elected in a term (raft_paper.md, property 1), whatever
\* the network and the crashes do: what the persisted votes are for.
ElectionSafety ==
  \A s, t \in Server :
    /\ rf[s].role = Leader
    /\ rf[t].role = Leader
    /\ rf[s].currentTerm = rf[t].currentTerm
    => s = t

\* Whenever a handler releases rf.mu, a crash would lose nothing that Raft must not
\* forget: term, vote and log are on the persister.
Durable ==
  \A s \in Server :
    rf[s].persister = [currentTerm |-> rf[s].currentTerm, votedFor |-> rf[s].votedFor,
                       log |-> rf[s].log]

\* The term of a peer never goes back, and its vote in a term is never taken back or
\* given to another, across any crash and restart.
VoteOncePerTerm ==
  [][\A s \in Server :
       /\ rf'[s].currentTerm >= rf[s].currentTerm
       /\ (rf'[s].currentTerm = rf[s].currentTerm /\ rf[s].votedFor # Nil)
          => rf'[s].votedFor = rf[s].votedFor]_vars

\* A leader never overwrites or deletes an entry while it leads (raft_paper.md,
\* property 2): no handler that truncates runs on it in its own term.
LeaderAppendOnly ==
  [][\A s \in Server :
       (rf[s].role = Leader /\ rf'[s].role = Leader)
       => /\ lastIdx(rf'[s].log) >= lastIdx(rf[s].log)
          /\ agreeTo(rf[s].log, rf'[s].log, lastIdx(rf[s].log))]_vars

\* Two logs with an entry of the same index and term hold the same entries up to
\* it (raft_paper.md, property 3).
LogMatching ==
  \A s, t \in Server :
    \A i \in 1..lastIdx(rf[s].log) :
      /\ inRange(rf[s].log, i)
      /\ inRange(rf[t].log, i)
      /\ at(rf[s].log, i).Term = at(rf[t].log, i).Term
      => agreeTo(rf[s].log, rf[t].log, i)

\* The last entry s knows to be committed and has.
committed(s) ==
  IF rf[s].commitIndex < lastIdx(rf[s].log) THEN rf[s].commitIndex ELSE lastIdx(rf[s].log)

\* What any peer knows to be committed is in the log of every leader of that peer's
\* term or a later one (raft_paper.md, property 4).
LeaderCompleteness ==
  \A s, l \in Server :
    (rf[l].role = Leader /\ rf[l].currentTerm >= rf[s].currentTerm)
    => /\ committed(s) <= lastIdx(rf[l].log)
       /\ agreeTo(rf[s].log, rf[l].log, committed(s))

\* No two peers hand different entries of the same index to their services
\* (raft_paper.md, property 5).
StateMachineSafety ==
  \A s, t \in Server :
    agreeTo(rf[s].log, rf[t].log,
            IF committed(s) < committed(t) THEN committed(s) ELSE committed(t))

\* What a leader counts towards a majority is true of the peer: as long as it has seen
\* no later term, the peer still has the leader's entries up to matchIndex.
MatchIndexHolds ==
  \A s, p \in Server :
    (rf[s].role = Leader /\ rf[p].currentTerm = rf[s].currentTerm)
    => /\ rf[s].matchIndex[p] <= lastIdx(rf[p].log)
       /\ agreeTo(rf[s].log, rf[p].log, rf[s].matchIndex[p])

\* A leader never asks its log for an entry it does not have, be it to send the entries
\* from nextIndex on or to look at the term of a majority's matchIndex: idx would panic
\* (raft_log.go:68).  An installed snapshot that is not applied yet leaves commitIndex
\* behind the log's first entry, so neither is obvious.
LeaderIndexesInRange ==
  \A s, p \in Server :
    rf[s].role = Leader
    => /\ rf[s].nextIndex[p] <= size(rf[s].log)
       /\ rf[s].matchIndex[p] > rf[s].commitIndex
          => inRange(rf[s].log, rf[s].matchIndex[p])

\* Under a leader that stays, every log becomes and stays the leader's
\* (raft_paper.md:35): the going back of nextIndex ends where the logs agree.
LogsConverge ==
  \A s \in Server :
    <>[](rf[s].role = Leader)
    => <>[](\A p \in Server : /\ lastIdx(rf[p].log) = lastIdx(rf[s].log)
                              /\ agreeTo(rf[p].log, rf[s].log, lastIdx(rf[s].log)))
=============================================================================
