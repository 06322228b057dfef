------------------------------ MODULE Porcupine ------------------------------
(***************************************************************************)
(* The linearizability checker the tests rely on (src/src/porcupine), with  *)
(* the model of a key/value store (src/src/models/kv.go).                   *)
(*                                                                         *)
(* The history is split by key, and every part searched by a goroutine of   *)
(* its own (checkSingle) for an order of its operations that explains what  *)
(* they returned; checkParallel collects the answers, with a timeout and a  *)
(* flag that stops the goroutines.  An iteration of either loop is a step.  *)
(*                                                                         *)
(* The list of entries loses an operation's call and return when the        *)
(* operation is linearized (lift) and gets them back, in their places, when *)
(* that is undone: it is the sequence of all entries, without those of the  *)
(* set linearized.  The cache, hashed or not, is a set.  A value is the     *)
(* sequence of what was appended.                                           *)
(***************************************************************************)
EXTENDS Integers, Sequences, SequencesExt, FiniteSets

CONSTANTS History,       \* the histories: sequences of operations
          Timeout        \* may the timeout expire?

ASSUME CheckerAssumption == Timeout \in BOOLEAN

VARIABLES history,   \* the operations: Key, Op, Value, Output, Call, Return
          entries,   \* the entries of every part
          search,    \* the state of every checkSingle
          results,   \* the channel
          kill,
          main       \* the state of checkParallel; computeInfo: partial linearizations are asked for

vars == <<history, entries, search, results, kill, main>>

-----------------------------------------------------------------------------
(* models/kv.go *)

KvInit == <<>>

StepOK(state, op) == op.Op = "get" => op.Output = state

StepState(state, op) ==
  CASE op.Op = "get" -> state
    [] op.Op = "put" -> op.Value
    [] op.Op = "append" -> state \o op.Value

Keys(h) == {h[i].Key : i \in DOMAIN h}

Partition(h) == [k \in Keys(h) |-> SelectSeq(h, LAMBDA op : op.Key = k)]

-----------------------------------------------------------------------------
(* The entries of a history, by time. *)

entry(kind, id, time) == [kind |-> kind, id |-> id, time |-> time]

\* Calls come before returns of the same time.  The sort is not stable: entries that are
\* equal to it come in the order of their ids or against it (up).
byTime(a, b, up) ==
  \/ a.time < b.time
  \/ a.time = b.time /\ a.kind = "call" /\ b.kind = "return"
  \/ a.time = b.time /\ a.kind = b.kind /\ (up <=> a.id < b.id) /\ a.id # b.id

makeEntries(ops, up) ==
  SetToSortSeq({entry("call", i, ops[i].Call) : i \in DOMAIN ops}
                 \cup {entry("return", i, ops[i].Return) : i \in DOMAIN ops},
               LAMBDA a, b : byTime(a, b, up))

-----------------------------------------------------------------------------
(* checkSingle *)

\* The next entry after the i-th that is in the list; 0 is the head, and none is 0.
nextEntry(es, linearized, i) ==
  LET rest == {j \in (i + 1)..Len(es) : es[j].id \notin linearized}
  IN  IF rest = {} THEN 0 ELSE CHOOSE j \in rest : \A x \in rest : j <= x

set(bits, pos) == bits \cup {pos}

clear(bits, pos) == bits \ {pos}

NewSearch(n) ==
  [pc |-> "run", at |-> 1, linearized |-> {}, cache |-> {}, calls |-> <<>>, state |-> KvInit,
   longest |-> [i \in 1..n |-> <<>>]]

ids(calls) == [j \in DOMAIN calls |-> calls[j].id]

\* A search that is over sends its answer.
finishSearch(k, s, answer) ==
  /\ search' = [search EXCEPT ![k] = [s EXCEPT !.pc = "done"]]
  /\ results' = Append(results, answer)

\* Mutant: the operation is not taken out of calls.
backtrackKeepingCall(s, es, longest) ==
  LET top == Last(s.calls)
      linearized == clear(s.linearized, top.id)
  IN  [s EXCEPT !.state = top.state, !.linearized = linearized,
                !.longest = longest, !.at = nextEntry(es, linearized, top.at)]

\* The last operation is taken out of the order again, and the search goes on behind it.
backtrack(s, es, longest) ==
  LET top == Last(s.calls)
      linearized == clear(s.linearized, top.id)
  IN  [s EXCEPT !.state = top.state, !.linearized = linearized, !.calls = Front(s.calls),
                !.longest = longest, !.at = nextEntry(es, linearized, top.at)]

cacheContains(cache, linearized, state) == <<linearized, state>> \in cache

\* The longest order so far with an operation in it.
recordLongest(s) ==
  IF ~main.computeInfo THEN s.longest
  ELSE [i \in DOMAIN s.longest |->
          IF i \in Range(ids(s.calls)) /\ Len(s.calls) > Len(s.longest[i])
            THEN ids(s.calls) ELSE s.longest[i]]

\* One iteration for the part of key k.
checkSingle(k) ==
  LET s == search[k]
      es == entries[k]
      ops == Partition(history)[k]
      e == es[s.at]
      state == StepState(s.state, ops[e.id])
      linearized == set(s.linearized, e.id)
  IN  /\ s.pc = "run"
      /\ \/ /\ nextEntry(es, s.linearized, 0) = 0
            /\ finishSearch(k, [s EXCEPT !.longest = [i \in DOMAIN ops |-> ids(s.calls)]], TRUE)
         \/ /\ nextEntry(es, s.linearized, 0) # 0
            /\ kill
            /\ finishSearch(k, s, FALSE)
         \/ /\ nextEntry(es, s.linearized, 0) # 0
            /\ ~kill
            /\ IF e.kind = "call"
                 THEN /\ search' = [search EXCEPT ![k] =
                           IF StepOK(s.state, ops[e.id]) /\ ~cacheContains(s.cache, linearized, state)
                             THEN [s EXCEPT !.cache = s.cache \cup {<<linearized, state>>},
                                            !.calls = Append(s.calls, [id |-> e.id, at |-> s.at,
                                                                       state |-> s.state]),
                                            !.state = state, !.linearized = linearized,
                                            !.at = nextEntry(es, linearized, 0)]
                             ELSE [s EXCEPT !.at = nextEntry(es, s.linearized, s.at)]]
                      /\ UNCHANGED results
               ELSE IF s.calls = <<>> THEN finishSearch(k, s, FALSE)
               ELSE /\ search' = [search EXCEPT ![k] = backtrack(s, es, recordLongest(s))]
                    /\ UNCHANGED results
      /\ UNCHANGED <<history, entries, kill, main>>

-----------------------------------------------------------------------------
(* checkParallel *)

\* Mutant: one more answer is waited for than there are parts.
receiveOneMore ==
  /\ main.pc = "loop"
  /\ results # <<>>
  /\ LET ok == main.ok /\ Head(results)
         failed == ~ok /\ ~main.computeInfo
     IN  /\ kill' = (kill \/ failed)
         /\ main' = [main EXCEPT !.ok = ok, !.count = main.count + 1,
                       !.pc = IF failed \/ main.count >= Cardinality(DOMAIN entries)
                                THEN "report" ELSE "loop"]
  /\ results' = Tail(results)
  /\ UNCHANGED <<history, entries, search>>

receiveResult ==
  /\ main.pc = "loop"
  /\ results # <<>>
  /\ LET ok == main.ok /\ Head(results)
         failed == ~ok /\ ~main.computeInfo
     IN  /\ kill' = (kill \/ failed)
         /\ main' = [main EXCEPT !.ok = ok, !.count = main.count + 1,
                       !.pc = IF failed \/ main.count + 1 >= Cardinality(DOMAIN entries)
                                THEN "report" ELSE "loop"]
  /\ results' = Tail(results)
  /\ UNCHANGED <<history, entries, search>>

\* Mutant: after the timeout the loop goes on to collect answers.
timeoutAndCollect ==
  /\ main.pc = "loop"
  /\ Timeout
  /\ kill' = TRUE
  /\ main' = [main EXCEPT !.timedOut = TRUE]
  /\ UNCHANGED <<history, entries, search, results>>

timeoutChan ==
  /\ main.pc = "loop"
  /\ Timeout
  /\ kill' = TRUE
  /\ main' = [main EXCEPT !.timedOut = TRUE, !.pc = "report"]
  /\ UNCHANGED <<history, entries, search, results>>

\* With computeInfo, the answers still to come are waited for.
report ==
  /\ main.pc = "report"
  /\ main.computeInfo => main.count + Len(results) = Cardinality(DOMAIN entries)
  /\ main' = [main EXCEPT !.pc = "done",
                !.result = IF ~main.ok THEN "Illegal" ELSE IF main.timedOut THEN "Unknown" ELSE "Ok"]
  /\ UNCHANGED <<history, entries, search, results, kill>>

-----------------------------------------------------------------------------
(* Visualize *)

partialLinearizations(k) == Range(search[k].longest) \ {<<>>}

\* The states a partial linearization goes through, and whether the model allows them.
replay(ops, partial) ==
  FoldLeft(LAMBDA r, i : [ok |-> r.ok /\ StepOK(r.state, ops[i]), state |-> StepState(r.state, ops[i])],
           [ok |-> TRUE, state |-> KvInit], partial)

\* The tests show a history that is not linearizable; a step the model does not allow is
\* a panic.
computeVisualizationData ==
  /\ main.pc = "done"
  /\ main.computeInfo
  /\ main.result = "Illegal"
  /\ main' = [main EXCEPT !.pc =
       IF \A k \in DOMAIN search : \A partial \in partialLinearizations(k) :
            replay(Partition(history)[k], partial).ok
         THEN "shown" ELSE "panic"]
  /\ UNCHANGED <<history, entries, search, results, kill>>

-----------------------------------------------------------------------------

\* checkOperations.
Init ==
  /\ history \in History
  /\ \E up \in BOOLEAN :
       entries = [k \in Keys(history) |-> makeEntries(Partition(history)[k], up)]
  /\ search = [k \in Keys(history) |-> NewSearch(Len(Partition(history)[k]))]
  /\ results = <<>>
  /\ kill = FALSE
  /\ \E info \in BOOLEAN :
       main = [pc |-> "loop", ok |-> TRUE, count |-> 0, timedOut |-> FALSE, result |-> "",
               computeInfo |-> info]

Next ==
  \/ \E k \in DOMAIN search : checkSingle(k)
  \/ receiveResult
  \/ timeoutChan
  \/ report
  \/ computeVisualizationData

Fairness == WF_vars(receiveResult) /\ WF_vars(report) /\ WF_vars(\E k \in DOMAIN search : checkSingle(k))

Spec == Init /\ [][Next]_vars /\ Fairness

-----------------------------------------------------------------------------
(* What the answer ought to be: operations of the whole history in an order that has     *)
(* every operation after those that returned before it was called, and in which every    *)
(* get returns the value of its key.                                                     *)

ordered(h, f) == \A i, j \in DOMAIN f : h[f[i]].Return < h[f[j]].Call => i < j

valueBefore(h, f, n) ==
  LET earlier == SelectSeq(SubSeq(f, 1, n - 1), LAMBDA i : h[i].Key = h[f[n]].Key)
  IN  FoldLeft(LAMBDA v, i : StepState(v, h[i]), KvInit, earlier)

explains(h, f) == ordered(h, f) /\ \A n \in DOMAIN f : StepOK(valueBefore(h, f, n), h[f[n]])

Orders(S) == {f \in [1..Cardinality(S) -> S] : \A i, j \in DOMAIN f : f[i] = f[j] => i = j}

IsLinearizable(h) == \E f \in Orders(DOMAIN h) : explains(h, f)

\* The checker's answer is right: Ok for a linearizable history and Illegal for another,
\* also when goroutines are stopped by a timeout or by each other (checker.go:243).
AnswerRight ==
  /\ main.result = "Ok" => IsLinearizable(history)
  /\ main.result = "Illegal" => ~IsLinearizable(history)

\* What verbose checks show as partial linearizations are orders that explain what the
\* operations in them returned, and keep to real time, also when the search was stopped
\* (checker.go:219); showing them does not panic (visualization.go:67).
PartialsExplain ==
  /\ \A k \in DOMAIN search : \A f \in partialLinearizations(k) : explains(Partition(history)[k], f)
  /\ main.pc # "panic"

\* A check ends with an answer, unless there is nothing to check.
Decides == history # <<>> => <>(main.result # "")
=============================================================================
