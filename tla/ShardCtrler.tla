----------------------------- MODULE ShardCtrler -----------------------------
(***************************************************************************)
(* The shard controller (src/src/shardctrler): a replicated service whose   *)
(* state machine is the sequence of all configurations (state_machine.go).  *)
(* Join and Leave spread the shards over the groups that are there.         *)
(*                                                                         *)
(* server.go and client.go are the code of kvraft without snapshots, and    *)
(* their steps are those of module ReplicatedService.                       *)
(***************************************************************************)
EXTENDS ReplicatedService, SequencesExt

CONSTANT NShards   \* number of shards

ASSUME NShardsAssumption == NShards \in Nat \ {0}

Shard == 0..(NShards - 1)

\* Config: Shards gives the gid of every shard, Groups the servers of every gid.
Config(num, shards, groups) == [Num |-> num, Shards |-> shards, Groups |-> groups]

NewCtrlerStateMachine == <<Config(0, [sh \in Shard |-> 0], <<>>)>>

\* csm.Configs[num], or the last one.
smQuery(cs, num) ==
  IF num < 0 \/ num >= Len(cs) THEN Last(cs) ELSE cs[num + 1]

newConfig(cs, shards, groups) == Append(cs, Config(Len(cs), shards, groups))

-----------------------------------------------------------------------------
(* The shards of every gid, in a map from gids to lists of shards. *)

gidToShards(cf) ==
  [g \in DOMAIN cf.Groups \cup Range(cf.Shards) |->
     SetToSortSeq({sh \in Shard : cf.Shards[sh] = g}, <)]

shardsOf(g2s, g) == IF g \in DOMAIN g2s THEN g2s[g] ELSE <<>>

\* The array newShards, filled from the lists.
toShards(g2s) ==
  [sh \in Shard |-> IF \E g \in DOMAIN g2s : sh \in Range(g2s[g])
                      THEN CHOOSE g \in DOMAIN g2s : sh \in Range(g2s[g]) ELSE 0]

\* The first in the order of the gids, so that all servers agree.
gidWithMaxShards(g2s) ==
  IF shardsOf(g2s, 0) # <<>> THEN 0
  ELSE Min({g \in DOMAIN g2s : \A x \in DOMAIN g2s : Len(g2s[g]) >= Len(g2s[x])})

gidWithMinShards(g2s) ==
  LET gids == DOMAIN g2s \ {0}
  IN  IF gids = {} THEN -1
      ELSE Min({g \in gids : \A x \in gids : Len(g2s[g]) <= Len(g2s[x])})

give(g2s, g, shard) == (g :> Append(shardsOf(g2s, g), shard)) @@ g2s

RECURSIVE rebalanceLoosely(_)
\* Mutant: a difference of two is good enough.
rebalanceLoosely(g2s) ==
  LET max == gidWithMaxShards(g2s)
      min == gidWithMinShards(g2s)
  IN  IF max # 0 /\ Len(g2s[max]) - Len(shardsOf(g2s, min)) <= 2 THEN g2s
      ELSE rebalanceLoosely([give(g2s, min, Head(g2s[max])) EXCEPT ![max] = Tail(g2s[max])])

RECURSIVE rebalance(_)
\* The loop of Join: from the largest group to the smallest, until they differ by at
\* most one and group 0 has no shard.
rebalance(g2s) ==
  LET max == gidWithMaxShards(g2s)
      min == gidWithMinShards(g2s)
  IN  IF max # 0 /\ Len(g2s[max]) - Len(shardsOf(g2s, min)) <= 1 THEN g2s
      ELSE rebalance([give(g2s, min, Head(g2s[max])) EXCEPT ![max] = Tail(g2s[max])])

smJoin(cs, groups) ==
  LET last == Last(cs)
      all == last.Groups @@ groups
  IN  newConfig(cs, toShards(rebalance(gidToShards(Config(0, last.Shards, all)))), all)

\* The shards of the i-th group that leaves: none if it is named a second time.
shardsOnce(g2s, gids, i) ==
  IF gids[i] \in Range(SubSeq(gids, 1, i - 1)) THEN <<>> ELSE shardsOf(g2s, gids[i])

\* Mutant (shardctrler_original): nothing is written back when the groups had no shard.
smLeaveWithShards(cs, gids) ==
  LET last == Last(cs)
      g2s == gidToShards(last)
      unassigned == FlattenSeq([i \in DOMAIN gids |-> shardsOnce(g2s, gids, i)])
      groups == Restrict(last.Groups, DOMAIN last.Groups \ Range(gids))
      assign(g, sh) == give(g, gidWithMinShards(g), sh)
      rest == FoldLeft(assign, Restrict(g2s, DOMAIN g2s \ Range(gids)), unassigned)
  IN  newConfig(cs, toShards(IF DOMAIN groups = {} \/ unassigned = <<>> THEN <<>> ELSE rest), groups)

\* The shards of the groups that leave go, one by one, to the smallest group.
smLeave(cs, gids) ==
  LET last == Last(cs)
      g2s == gidToShards(last)
      unassigned == FlattenSeq([i \in DOMAIN gids |-> shardsOnce(g2s, gids, i)])
      groups == Restrict(last.Groups, DOMAIN last.Groups \ Range(gids))
      assign(g, sh) == give(g, gidWithMinShards(g), sh)
      rest == FoldLeft(assign, Restrict(g2s, DOMAIN g2s \ Range(gids)), unassigned)
  IN  newConfig(cs, toShards(IF DOMAIN groups = {} THEN <<>> ELSE rest), groups)

smMove(cs, shard, gid) ==
  newConfig(cs, [Last(cs).Shards EXCEPT ![shard] = gid], Last(cs).Groups)

-----------------------------------------------------------------------------
(* The service. *)

OpQuery(op) == op.type = "Query"

applyToStateMachine(cs, op) ==
  LET done(new) == [sm |-> new, reply |-> [Err |-> "OK", Value |-> None]]
  IN  CASE op.type = "Query" -> [sm |-> cs, reply |-> [Err |-> "OK", Value |-> smQuery(cs, op.num)]]
        [] op.type = "Join" -> done(smJoin(cs, op.servers))
        [] op.type = "Leave" -> done(smLeave(cs, op.gids))
        [] op.type = "Move" -> done(smMove(cs, op.shard, op.gid))

\* Join, Leave, Move and Query all run command, in the steps of a handler.
command(h) ==
  \/ Get(h)
  \/ PutAppend(h)
  \/ PutAppendStart(h)
  \/ awaitChannel(h)
  \/ awaitResult(h)
  \/ awaitTimeout(h)
  \/ removeChannel(h)

applyCommand(s) == applyTask(s, FALSE)

\* The controller has no snapshots: a restarted server applies the whole log again.
StartServer(s) == Restart(s)

clerkCall(c) == Retry(c) \/ Return(c) \/ \E op \in Op : Invoke(c, op)

CtrlNext ==
  \/ RaftStep
  \/ \E c \in Clerk : clerkCall(c)
  \/ \E h \in handlers : command(h)
  \/ \E s \in Server : applyCommand(s) \/ StartServer(s)

CtrlSpec == Init /\ [][CtrlNext]_vars

-----------------------------------------------------------------------------
(* Properties. *)

\* The shards on every group of a configuration, and how many shards change hands.
Count(cf, g) == Cardinality({sh \in Shard : cf.Shards[sh] = g})

Balanced(cf) == \A g, h \in DOMAIN cf.Groups : Count(cf, g) <= Count(cf, h) + 1

Moved(shards, cf) == Cardinality({sh \in Shard : shards[sh] # cf.Shards[sh]})

\* Every shard is on a group that is there; with no group at all, on group 0.
Sound(cf) ==
  IF DOMAIN cf.Groups = {} THEN Range(cf.Shards) = {0} ELSE Range(cf.Shards) \subseteq DOMAIN cf.Groups

\* An operation of that type turns the configuration old into new.
Successive(type, P(_, _)) ==
  (Len(Now'.sm) > Len(Now.sm) /\ Last(chosen').op.type = type) => P(Last(Now.sm), Last(Now'.sm))

\* Join leaves no shard without a group and no group with two shards more than another,
\* and it moves as few shards as any assignment that does so (state_machine.go:77,
\* the test's "non-minimal transfer after Join()s"), unless a Move had put a shard on a
\* group that is not there.
JoinRebalances ==
  [][Successive("Join", LAMBDA old, new :
       Sound(old) =>
         /\ Sound(new)
         /\ Balanced(new)
         /\ \A f \in [Shard -> DOMAIN new.Groups] :
              Balanced(Config(0, f, new.Groups)) => Moved(f, old) >= Moved(new.Shards, old))]_vars

\* Leave moves the shards of the groups that leave and no other, to groups that stay, and
\* keeps balanced groups balanced (state_machine.go:137, the test's "non-minimal
\* transfer after Leave()s").
LeaveMovesOnlyTheirs ==
  [][Successive("Leave", LAMBDA old, new :
       Sound(old) =>
         /\ Sound(new)
         /\ \A sh \in Shard : old.Shards[sh] \in DOMAIN new.Groups => new.Shards[sh] = old.Shards[sh]
         /\ Balanced(old) => Balanced(new))]_vars
=============================================================================
