---------------------------- MODULE MCPorcupine ----------------------------
(***************************************************************************)
(* The checker for TLC: histories of three operations, in the order of      *)
(* their calls, on one key or two.                                          *)
(***************************************************************************)
EXTENDS Porcupine

CONSTANT MaxTime   \* bound: times of calls and returns

What ==
  {[Key |-> "x", Op |-> "append", Value |-> <<"a">>, Output |-> <<>>],
   [Key |-> "x", Op |-> "put", Value |-> <<"b">>, Output |-> <<>>],
   [Key |-> "x", Op |-> "get", Value |-> <<>>, Output |-> <<"a">>],
   [Key |-> "y", Op |-> "append", Value |-> <<"a">>, Output |-> <<>>]}

When == {t \in (1..MaxTime) \X (1..MaxTime) : t[1] <= t[2]}

MCHistory ==
  {<<>>} \cup
  {[i \in 1..3 |-> [Key |-> w[i].Key, Op |-> w[i].Op, Value |-> w[i].Value,
                    Output |-> w[i].Output, Call |-> t[i][1], Return |-> t[i][2]]] :
     w \in [1..3 -> What], t \in {u \in [1..3 -> When] : u[1][1] <= u[2][1] /\ u[2][1] <= u[3][1]}}
=============================================================================
