------------------------------- MODULE LabRPC -------------------------------
(***************************************************************************)
(* The simulated network all RPCs go through (src/src/labrpc/labrpc.go),    *)
(* under the harness that connects, crashes and restarts servers            *)
(* (src/src/raft/config.go).                                                *)
(*                                                                         *)
(* Every Call is handled by goroutines of its own, so each of its stages is *)
(* a step that may come after any time: the delays of processReq            *)
(* (LongDelays, LongReordering and the short delay) are not modelled        *)
(* otherwise.  A server is one instance after the other; an old one runs on *)
(* and may call through its ends, but what it saves goes to its own         *)
(* persister, which the harness has copied for the next one.                *)
(***************************************************************************)
EXTENDS Integers, FiniteSets

CONSTANTS n,             \* number of servers
          Rpc,           \* the calls
          MaxInstances   \* bound: instances of a server

ASSUME NetAssumption == {n, MaxInstances} \subseteq Nat \ {0}

VARIABLES net,        \* the Network: reliable, done, and whether its goroutine runs
          enabled,    \* the names of the enabled ends
          servers,    \* the instance behind every server name, 0 for nil
          req,        \* the calls under way
          connected,  \* harness: which servers are attached
          newest,     \* harness: the last instance of every server, whose ends endnames has
          disk,       \* harness: the persister of a server (saved), with the instance that
                      \* writes to it and the calls whose effect it holds
          tester      \* harness: what crash1 or start1 does next, and to which server

network == <<net, enabled, servers>>
harness == <<connected, newest, disk, tester>>
vars == <<net, enabled, servers, req, connected, newest, disk, tester>>

Server == 0..(n - 1)

\* The end of instance g of server i for calls to server j.
end(i, g, j) == [from |-> i, instance |-> g, to |-> j]

\* The server an end is connected to, which start1 does as soon as it has made the end.
connection(e) == e.to

endname(i, j) == end(i, newest[i], j)

Made == {end(i, g, j) : i \in Server, g \in 1..MaxInstances, j \in Server}

MakeReq(e) == [stage |-> "send", end |-> e, server |-> 0, reliable |-> TRUE, handler |-> "none"]

Idle == [MakeReq(end(0, 0, 0)) EXCEPT !.stage = "idle"]

-----------------------------------------------------------------------------
(* The harness. *)

Resting == [at |-> "idle", i |-> 0, restart |-> FALSE]

Reliable(yes) ==
  /\ tester = Resting
  /\ net' = [net EXCEPT !.reliable = yes]
  /\ UNCHANGED <<enabled, servers, req, harness>>

Enable(names, yes) == enabled' = IF yes THEN enabled \cup names ELSE enabled \ names

\* Attach server i to those that are attached.
connect(i) ==
  LET peers == {j \in Server : connected[j]} \cup {i}
  IN  /\ tester = Resting
      /\ connected' = [connected EXCEPT ![i] = TRUE]
      /\ Enable({endname(i, j) : j \in peers} \cup {endname(j, i) : j \in peers}, TRUE)
      /\ UNCHANGED <<net, servers, req, newest, disk, tester>>

\* Mutant: the server may still send.
cutIncoming(i) ==
  /\ connected' = [connected EXCEPT ![i] = FALSE]
  /\ Enable({endname(j, i) : j \in Server \ {i}}, FALSE)

\* Detach server i.
cut(i) ==
  /\ connected' = [connected EXCEPT ![i] = FALSE]
  /\ Enable({endname(i, j) : j \in Server} \cup {endname(j, i) : j \in Server}, FALSE)

disconnect(i) ==
  /\ tester = Resting
  /\ cut(i)
  /\ UNCHANGED <<net, servers, req, newest, disk, tester>>

\* crash1, the first half of start1 (restart), detaches the server,
crash1(i, restart) ==
  /\ tester = Resting
  /\ restart => newest[i] < MaxInstances
  /\ cut(i)
  /\ tester' = [at |-> "delete", i |-> i, restart |-> restart]
  /\ UNCHANGED <<net, servers, req, newest, disk>>

\* deletes it
DeleteServer ==
  /\ tester.at = "delete"
  /\ servers' = [servers EXCEPT ![tester.i] = 0]
  /\ tester' = [tester EXCEPT !.at = "copy"]
  /\ UNCHANGED <<net, enabled, req, connected, newest, disk>>

\* and copies the persister.
Copy ==
  /\ tester.at = "copy"
  /\ disk' = [disk EXCEPT ![tester.i].writer = 0]
  /\ tester' = IF tester.restart THEN [tester EXCEPT !.at = "start"] ELSE Resting
  /\ UNCHANGED <<network, req, connected, newest>>

AddServer(i, g) == servers' = [servers EXCEPT ![i] = g]

\* A new instance, with new ends and the copy, gets the name.
start1 ==
  LET i == tester.i
      g == newest[i] + 1
  IN  /\ tester.at = "start"
      /\ newest' = [newest EXCEPT ![i] = g]
      /\ disk' = [disk EXCEPT ![i].writer = g]
      /\ AddServer(i, g)
      /\ tester' = Resting
      /\ UNCHANGED <<net, enabled, req, connected>>

Cleanup ==
  /\ tester = Resting
  /\ ~net.done
  /\ net' = [net EXCEPT !.done = TRUE]
  /\ UNCHANGED <<enabled, servers, req, harness>>

\* The goroutine of MakeNetwork, which takes the requests, returns.
Stop ==
  /\ net.done
  /\ net.listening
  /\ net' = [net EXCEPT !.listening = FALSE]
  /\ UNCHANGED <<enabled, servers, req, harness>>

-----------------------------------------------------------------------------
(* A call. *)

To(c, stage) ==
  /\ req' = [req EXCEPT ![c].stage = stage]
  /\ UNCHANGED <<network, harness>>

\* The request goes to the network's goroutine, or the network has been cleaned up.
Call(c, e) ==
  /\ req[c].stage = "idle"
  /\ e.instance <= newest[e.from]
  /\ e.from # e.to
  /\ req' = [req EXCEPT ![c] = MakeReq(e)]
  /\ UNCHANGED <<network, harness>>

CallAccepted(c) == req[c].stage = "send" /\ net.listening /\ To(c, "sent")

CallAfterCleanup(c) == req[c].stage = "send" /\ net.done /\ To(c, "false")

readEndnameInfo(e) ==
  [enabled |-> e \in enabled, server |-> servers[connection(e)], reliable |-> net.reliable]

\* processReq begins: the end is disabled, or there is no server, or the request goes on.
processReq(c) ==
  LET info == readEndnameInfo(req[c].end)
  IN  /\ req[c].stage = "sent"
      /\ req' = [req EXCEPT ![c].stage = IF info.enabled /\ info.server # 0 THEN "deliver" ELSE "fail",
                            ![c].server = info.server, ![c].reliable = info.reliable]
      /\ UNCHANGED <<network, harness>>

dropRequest(c) == req[c].stage = "deliver" /\ ~req[c].reliable /\ To(c, "fail")

\* server.dispatch, in a goroutine of its own.
dispatch(c) ==
  /\ req[c].stage = "deliver"
  /\ req' = [req EXCEPT ![c].stage = "wait", ![c].handler = "running"]
  /\ UNCHANGED <<network, harness>>

\* Instance g of server i saves; the harness has the persister of the last one only.
Save(i, g, c) ==
  disk' = IF g = disk[i].writer THEN [disk EXCEPT ![i].calls = disk[i].calls \cup {c}] ELSE disk

\* The handler does its work, which its instance saves, and returns.
handle(c) ==
  /\ req[c].handler = "running"
  /\ Save(req[c].end.to, req[c].server, c)
  /\ req' = [req EXCEPT ![c].handler = "returned"]
  /\ UNCHANGED <<network, connected, newest, tester>>

\* The handler does not return.
hang(c) ==
  /\ req[c].handler = "running"
  /\ req' = [req EXCEPT ![c].handler = "hangs"]
  /\ UNCHANGED <<network, harness>>

isServerDead(r) == r.end \notin enabled \/ servers[connection(r.end)] # r.server

receiveReply(c) == req[c].stage = "wait" /\ req[c].handler = "returned" /\ To(c, "got")

\* Mutant: the loop waits for the handler only.
waitForHandler(c) == req[c].stage = "wait" /\ isServerDead(req[c]) /\ req[c].handler = "returned" /\ To(c, "fail")

\* Every 100 ms.
checkServer(c) == req[c].stage = "wait" /\ isServerDead(req[c]) /\ To(c, "fail")

\* Mutant: what came from the handler is sent on.
replyAlways(c) == req[c].stage = "got" /\ To(c, "reply")

\* The reply, unless the server is dead by now, or the reply is dropped.
replyToCall(c) ==
  /\ req[c].stage = "got"
  /\ IF isServerDead(req[c]) THEN To(c, "fail")
     ELSE To(c, "reply") \/ (~req[c].reliable /\ To(c, "fail"))

\* Call returns.
Return(c) ==
  \/ req[c].stage = "fail" /\ To(c, "false")
  \/ req[c].stage = "reply" /\ To(c, "true")

-----------------------------------------------------------------------------

\* make_config: all servers are started and connected.
Init ==
  /\ net = [reliable |-> TRUE, done |-> FALSE, listening |-> TRUE]
  /\ enabled = {end(i, 1, j) : i, j \in Server}
  /\ servers = [i \in Server |-> 1]
  /\ req = [c \in Rpc |-> Idle]
  /\ connected = [i \in Server |-> TRUE]
  /\ newest = [i \in Server |-> 1]
  /\ disk = [i \in Server |-> [writer |-> 1, calls |-> {}]]
  /\ tester = Resting

Tester ==
  \/ \E yes \in BOOLEAN : Reliable(yes)
  \/ \E i \in Server : connect(i) \/ disconnect(i) \/ \E restart \in BOOLEAN : crash1(i, restart)
  \/ DeleteServer \/ Copy \/ start1
  \/ Cleanup

\* What the goroutines of a call do by themselves.
Deliver(c) ==
  \/ CallAccepted(c)
  \/ CallAfterCleanup(c)
  \/ processReq(c)
  \/ dropRequest(c)
  \/ dispatch(c)
  \/ receiveReply(c)
  \/ checkServer(c)
  \/ replyToCall(c)
  \/ Return(c)

Next ==
  \/ Tester
  \/ Stop
  \/ \E c \in Rpc : Deliver(c) \/ handle(c) \/ hang(c) \/ \E e \in Made : Call(c, e)

\* Goroutines run; a handler need not return.
Fairness == \A c \in Rpc : WF_vars(Deliver(c))

Spec == Init /\ [][Next]_vars /\ Fairness

-----------------------------------------------------------------------------
(* Properties. *)

\* A call that returned true was executed by an instance whose state the server still
\* has, however often it was deleted and restarted meanwhile (the comment at
\* labrpc.go:262, "this is needed to avoid situation in which a client gets a positive
\* reply to an Append, but the server persisted the update into the old Persister").
AckedIsKept == \A c \in Rpc : req[c].stage = "true" => c \in disk[req[c].end.to].calls

\* An instance that was replaced is cut off: no call it sends gets to a server (config.go:277,
\* "so that old crashed instance's ClientEnds can't send").
OldInstancesMute ==
  [][\A c \in Rpc : (req[c].stage = "sent" /\ req'[c].stage = "deliver") =>
       req[c].end.instance = newest[req[c].end.from]]_vars

\* A call returns, also when its handler does not, once its server is deleted or its end
\* disabled (labrpc.go:37, "Call() is guaranteed to return (perhaps after a delay)
\* *except* if the handler function on the server side does not return").
CallReturns ==
  \A c \in Rpc :
    req[c].stage # "idle" ~> \/ req[c].stage \in {"true", "false"}
                             \/ req[c].handler \in {"running", "hangs"} /\ ~isServerDead(req[c])
=============================================================================
