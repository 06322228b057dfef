------------------------------- MODULE KVRaft -------------------------------
(***************************************************************************)
(* The key/value store: the state machine of kvraft (state_machine.go) in   *)
(* the replicated service.  A map's domain is the set of keys that are      *)
(* there, and a value is the sequence of what was appended to it: the code  *)
(* concatenates strings.                                                    *)
(***************************************************************************)
EXTENDS ReplicatedService, TLC

NewMemoryKVStateMachine == <<>>

smGet(kv, key) ==
  IF key \in DOMAIN kv THEN [Err |-> "OK", Value |-> kv[key]]
                       ELSE [Err |-> "ErrNoKey", Value |-> <<>>]

smPut(kv, key, value) == (key :> value) @@ kv

smAppend(kv, key, value) == (key :> smGet(kv, key).Value \o value) @@ kv

OpGet(op) == op.type = "Get"

applyToStateMachine(kv, op) ==
  CASE op.type = "Get" -> [sm |-> kv, reply |-> smGet(kv, op.key)]
    [] op.type = "Put" -> [sm |-> smPut(kv, op.key, op.value),
                           reply |-> [Err |-> "OK", Value |-> <<>>]]
    [] op.type = "Append" -> [sm |-> smAppend(kv, op.key, op.value),
                              reply |-> [Err |-> "OK", Value |-> <<>>]]
=============================================================================
