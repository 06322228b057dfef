------------------------------- MODULE MCRaft -------------------------------
(***************************************************************************)
(* The Raft group for TLC.  The peers are interchangeable and so are the    *)
(* commands, and states that differ only in values nobody reads again are   *)
(* one state: votes outside a candidacy, nextIndex and matchIndex outside a *)
(* leadership (both are assigned before they are next read), and what is    *)
(* left of a call whose handler or goroutine can only look at its term.     *)
(***************************************************************************)
EXTENDS Raft, TLC, Functions

Symmetry == Permutations(Server) \cup Permutations(Cmd)

livePeer(r) ==
  IF r.role = Leader THEN [r EXCEPT !.votes = {}]
  ELSE [r EXCEPT !.nextIndex = <<>>, !.matchIndex = <<>>,
                 !.votes = IF r.role = Candidate THEN @ ELSE {}]

\* What the goroutine of s that gets this reply can still tell apart.
liveReply(c, r) ==
  IF c.reply.Term > r.currentTerm THEN <<"newer", c.reply.Term>>
  ELSE IF contextLostLocked(r, IF c.kind = "RequestVote" THEN Candidate ELSE Leader,
                            c.args.Term)
    THEN <<"lost">>
  ELSE IF c.kind = "RequestVote" THEN <<"vote", c.reply.Ok>>
  ELSE IF c.kind = "InstallSnapshot" THEN <<"installed", c.args.LastIncludedIndex>>
  ELSE IF c.reply.Ok THEN <<"matched", c.args.PrevLogIndex + Len(c.args.Entries)>>
  ELSE <<"refused">>

\* What the handler of p that gets this request can still tell apart.
liveRequest(c, r) ==
  IF c.args.Term < r.currentTerm THEN <<c.stage, "stale">>
                                 ELSE <<c.stage, c.kind, c.args>>

liveCalls(s, p) ==
  LET calls == SelectSeq(rpc[s][p], LAMBDA c : c.stage # "void")
  IN  [i \in DOMAIN calls |-> IF calls[i].stage = "rep" THEN liveReply(calls[i], rf[s])
                                                       ELSE liveRequest(calls[i], rf[p])]

View == <<[s \in Server |-> livePeer(rf[s])],
          [s \in Server |-> [p \in Server |-> liveCalls(s, p)]], restarts, snapshots>>

\* Where the known hard case of old-term entries starts (Figure 8 of the Raft paper).
\* s1 led term 1 and s2 led term 2, each elected with s3 and each with one entry it
\* sent to nobody; s2 crashed and is back, s1 timed out and s3 elected it for term 3,
\* which s2 has not noticed.  Every RPC so far is finished or lost.
peerAt(term, votedFor, role, votes, entries) ==
  LET r == [Make([currentTerm |-> term, votedFor |-> votedFor,
                  log |-> appendFrom(NewLog, 0, entries)])
            EXCEPT !.role = role, !.votes = votes]
  IN  IF role = Leader
        THEN [becomeLeaderLocked(r) EXCEPT !.nextIndex = [p \in Server |-> 1]] ELSE r

Figure8Init ==
  /\ \E s1, s2, s3 \in Server, command \in Cmd :
       /\ Server = {s1, s2, s3}
       /\ Cardinality(Server) = 3
       /\ rf = s1 :> becomeLeaderLocked(
                     peerAt(3, s1, Candidate, {s1, s3}, <<[Term |-> 1, Command |-> command]>>))
             @@ s2 :> peerAt(2, s2, Follower, {}, <<[Term |-> 2, Command |-> command]>>)
             @@ s3 :> peerAt(3, s1, Follower, {}, <<>>)
  /\ rpc = [s \in Server |-> [p \in Server |-> <<>>]]
  /\ restarts = 0
  /\ snapshots = 0

Figure8Spec == Figure8Init /\ [][Next]_vars

\* One peer leads term 1, elected by all; the RPCs of the election are over and the
\* service has called Start n times, each time with another command.
LeaderInit(n) ==
  /\ \E l \in Server, command \in [1..n -> Cmd] :
       /\ IsInjective(command)
       /\ rf = [s \in Server |->
               IF s = l THEN peerAt(1, l, Leader, Server,
                                    [i \in 1..n |-> [Term |-> 1, Command |-> command[i]]])
                        ELSE peerAt(1, l, Follower, {}, <<>>)]
  /\ rpc = [s \in Server |-> [p \in Server |-> <<>>]]
  /\ restarts = 0
  /\ snapshots = 0

Leader1Spec == LeaderInit(1) /\ [][Next]_vars

Leader2Spec == LeaderInit(2) /\ [][Next]_vars

\* A little later: the first command is committed with the help of one peer, the RPC to
\* the others failed, and the service has called Start again.
CommittedInit ==
  /\ \E l, q \in Server, command \in Cmd :
       LET e == [Term |-> 1, Command |-> command]
       IN  /\ l # q
           /\ rf = [s \in Server |->
                 IF s = l
                   THEN [peerAt(1, l, Leader, Server, <<e, e>>) EXCEPT
                           !.commitIndex = 1,
                           !.nextIndex = [p \in Server |-> IF p \in {l, q} THEN 2 ELSE 1],
                           !.matchIndex = [p \in Server |-> IF p \in {l, q} THEN 1 ELSE 0]]
                   ELSE peerAt(1, l, Follower, {}, IF s = q THEN <<e>> ELSE <<>>)]
  /\ rpc = [s \in Server |-> [p \in Server |-> <<>>]]
  /\ restarts = 0
  /\ snapshots = 0

CommittedSpec == CommittedInit /\ [][Next]_vars
=============================================================================
