---------------------------- MODULE AtomicService ----------------------------
(***************************************************************************)
(* What a replicated service promises its clerks: one copy of the state,    *)
(* on which every operation takes effect once, at one moment between its    *)
(* call and its return (linearizability).  A clerk has one operation at a   *)
(* time.  seen[c] holds the replies c's operation may return: for a write   *)
(* the reply of its only execution, for a read what it would have read at   *)
(* some moment since it was called.                                         *)
(***************************************************************************)
CONSTANTS Clerk,        \* the clerks
          Op,           \* the operations
          None,         \* no operation, no reply
          SM0,          \* the state of a new service
          Exec(_, _),   \* the state and the reply of an operation on a state
          ReadOnly(_)   \* is it a read?

VARIABLES sm, pending, seen, ret

avars == <<sm, pending, seen, ret>>

AInit ==
  /\ sm = SM0
  /\ pending = [c \in Clerk |-> None]
  /\ seen = [c \in Clerk |-> {}]
  /\ ret = [c \in Clerk |-> None]

Invoke(c, op) ==
  /\ pending[c] = None
  /\ pending' = [pending EXCEPT ![c] = op]
  /\ seen' = [seen EXCEPT ![c] = IF ReadOnly(op) THEN {Exec(sm, op).reply} ELSE {}]
  /\ UNCHANGED <<sm, ret>>

\* The write of c takes effect; every read under way may see it.
Execute(c) ==
  /\ pending[c] # None
  /\ ~ReadOnly(pending[c])
  /\ seen[c] = {}
  /\ sm' = Exec(sm, pending[c]).sm
  /\ seen' = [d \in Clerk |->
       IF d = c THEN {Exec(sm, pending[c]).reply}
       ELSE IF pending[d] # None /\ ReadOnly(pending[d])
         THEN seen[d] \cup {Exec(sm', pending[d]).reply}
       ELSE seen[d]]
  /\ UNCHANGED <<pending, ret>>

Return(c) ==
  /\ pending[c] # None
  /\ \E r \in seen[c] : ret' = [ret EXCEPT ![c] = r]
  /\ pending' = [pending EXCEPT ![c] = None]
  /\ seen' = [seen EXCEPT ![c] = {}]
  /\ UNCHANGED sm

ANext == \E c \in Clerk : Execute(c) \/ Return(c) \/ \E op \in Op : Invoke(c, op)

ASpec == AInit /\ [][ANext]_avars
=============================================================================
