---------------------------- MODULE MCShardCtrler ----------------------------
(***************************************************************************)
(* The shard controller for TLC, with three groups.                         *)
(***************************************************************************)
EXTENDS ShardCtrler

MCOp ==
  {[type |-> "Join", servers |-> [g \in gids |-> "s"]] : gids \in {{1, 2}, {2, 3}}}
    \cup {[type |-> "Leave", gids |-> gids] : gids \in {<<1>>, <<3, 2>>}}
    \cup {[type |-> "Move", shard |-> 0, gid |-> 2],
          [type |-> "Query", num |-> -1], [type |-> "Query", num |-> 1]}

\* As in module MCKVRaft: what can no longer matter is left out.
dead(h) ==
  /\ h.pc = "remove" \/ (h.pc \in {"channel", "wait"} /\ clerk[h.clerk].n # h.n)
  /\ h.index <= raft[h.srv].applied
  /\ \A g \in handlers \ {h} : g.srv # h.srv \/ g.index # h.index

View ==
  <<term, chosen, raft, [s \in Server |-> srv[s].state],
    [s \in Server |-> {k \in chans[s] : k.index > raft[s].applied \/ \E h \in handlers : ~dead(h) /\ h.index = k.index}],
    {h \in handlers : ~dead(h)}, clerk, bounds>>
=============================================================================
