------------------------------ MODULE MCKVRaft ------------------------------
(***************************************************************************)
(* The key/value store for TLC.  The clerks are interchangeable, and states *)
(* that differ only in what can no longer matter are one state: a handler   *)
(* nobody waits for, and a channel nobody will look up, at an index that is *)
(* applied (no other handler gets that index), and what follows from the    *)
(* rest of the state (hist, lastApplied).                                   *)
(***************************************************************************)
EXTENDS KVRaft

\* A read, and a write that shows whether it was executed twice.
MCOp == {[type |-> "Get", key |-> "x", value |-> <<>>],
         [type |-> "Append", key |-> "x", value |-> <<"a">>]}

Symmetry == Permutations(Clerk)

answers(h) == h.pc # "remove" /\ clerk[h.clerk].n = h.n

dead(h) ==
  /\ h.pc \notin {"arrive", "start"}
  /\ ~answers(h)
  /\ h.index <= raft[h.srv].applied
  /\ \A g \in handlers \ {h} : g.srv # h.srv \/ g.index # h.index

liveChans(s) ==
  {k \in chans[s] :
     \/ \E h \in handlers : ~dead(h) /\ h.srv = s /\ h.index = k.index
     \/ k.mapped /\ k.index > raft[s].applied}

View ==
  <<term, chosen, raft, [s \in Server |-> <<srv[s].state, srv[s].snap, liveChans(s)>>],
    {[h EXCEPT !.n = IF answers(h) THEN 0 ELSE h.n] : h \in {g \in handlers : ~dead(g)}},
    [c \in Clerk |->
       [clerk[c] EXCEPT !.n = 0, !.ret = None,
          !.since = IF clerk[c].op # None /\ ReadOnly(clerk[c].op) THEN clerk[c].since ELSE 0]],
    bounds>>
=============================================================================
