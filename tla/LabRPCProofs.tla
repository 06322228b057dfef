---------------------------- MODULE LabRPCProofs ----------------------------
(***************************************************************************)
(* The network acknowledges nothing that a restarted server has lost, and   *)
(* an instance that was replaced reaches nobody: for any number of servers, *)
(* calls and restarts.                                                      *)
(***************************************************************************)
EXTENDS LabRPC, TLAPS

-----------------------------------------------------------------------------
(***************************************************************************)
(* The inductive invariant.  What AckedIsKept says of a call that returned  *)
(* is decided when its reply passes isServerDead, long after its handler    *)
(* saved: the invariant says which instance may still be the server by then.*)
(***************************************************************************)

Stages == {"idle", "send", "sent", "deliver", "wait", "got", "reply", "fail", "true", "false"}

End == [from : Server, instance : Nat, to : Server]

Request ==
  [stage : Stages, end : End, server : Nat, reliable : BOOLEAN,
   handler : {"none", "running", "returned", "hangs"}]

Net == [reliable : BOOLEAN, done : BOOLEAN, listening : BOOLEAN]

TypeInv ==
  /\ net \in Net
  /\ newest \in [Server -> Nat \ {0}]
  /\ servers \in [Server -> Nat]
  /\ disk \in [Server -> [writer : Nat, calls : SUBSET Rpc]]
  /\ req \in [Rpc -> Request]
  /\ tester \in [at : {"idle", "delete", "copy", "start"}, i : Server, restart : BOOLEAN]
  /\ tester.at = "idle" => tester = Resting

\* The instance behind a name is the newest, and it writes to the persister that the
\* harness has; the harness deletes it before it takes the copy.
ServerInv ==
  /\ \A i \in Server :
       /\ servers[i] \in {0, newest[i]}
       /\ disk[i].writer \in {0, newest[i]}
       /\ servers[i] # 0 => disk[i].writer = newest[i]
  /\ tester.at \in {"copy", "start"} => servers[tester.i] = 0

\* Only ends of newest instances are enabled, and none of a server that is replaced.
EndInv ==
  /\ \A e \in enabled : e \in End /\ e.instance = newest[e.from]
  /\ tester.at # "idle" => \A e \in enabled : e.from # tester.i

\* A handler saved to the persister the harness has, or its instance was gone by then.
CallOK(c, r) ==
  /\ r.server <= newest[r.end.to]
  /\ r.stage \in {"deliver", "wait", "got"} => r.server # 0
  /\ r.stage \in {"idle", "send", "sent", "deliver"} => r.handler = "none"
  /\ r.stage = "got" => r.handler = "returned"
  /\ r.handler = "returned" => \/ c \in disk[r.end.to].calls
                               \/ r.server < newest[r.end.to]
                               \/ disk[r.end.to].writer = 0
  /\ r.stage \in {"reply", "true"} => c \in disk[r.end.to].calls

CallInv == \A c \in Rpc : CallOK(c, req[c])

IndInv == TypeInv /\ ServerInv /\ EndInv /\ CallInv

-----------------------------------------------------------------------------
(* The steps of the harness. *)

\* A step that leaves servers, persisters and calls alone.
LEMMA EndsStep ==
  ASSUME IndInv, net' \in Net, UNCHANGED <<servers, req, newest, disk>>,
         \/ tester' = tester
         \/ tester'.at = "delete" /\ tester' \in [at : {"delete"}, i : Server, restart : BOOLEAN],
         EndInv'
  PROVE  IndInv'
<1>1. TypeInv'
  BY DEF IndInv, TypeInv
<1>2. ServerInv'
  BY DEF IndInv, ServerInv
<1>3. CallInv'
  BY DEF IndInv, CallInv, CallOK
<1> QED
  BY <1>1, <1>2, <1>3 DEF IndInv

\* What a server cut off leaves enabled: nothing of it.
LEMMA CutEnds ==
  ASSUME IndInv, NEW i \in Server, cut(i)
  PROVE  \A e \in enabled' : e \in enabled /\ e.from # i
<1>1. enabled' = enabled \ ({endname(i, j) : j \in Server} \cup {endname(j, i) : j \in Server})
  BY DEF cut, Enable
<1>2. ASSUME NEW e \in enabled, e.from = i
      PROVE  e \in {endname(i, j) : j \in Server}
  <2>1. e \in End /\ e.instance = newest[i]
    BY <1>2 DEF IndInv, EndInv
  <2>2. e = endname(i, e.to) /\ e.to \in Server
    BY <1>2, <2>1 DEF End, endname, end
  <2> QED
    BY <2>2
<1> QED
  BY <1>1, <1>2

\* connect enables ends of newest instances, and only between two crashes.
LEMMA ConnectInv ==
  ASSUME IndInv, NEW i \in Server, connect(i)
  PROVE  IndInv'
<1> DEFINE peers == {j \in Server : connected[j]} \cup {i}
           names == {endname(i, j) : j \in peers} \cup {endname(j, i) : j \in peers}
<1>1. /\ tester = Resting /\ UNCHANGED <<servers, req, newest, disk, tester>>
      /\ enabled' = enabled \cup names /\ net' \in Net
  BY DEF connect, Enable, IndInv, TypeInv
<1>2. \A e \in names : e \in End /\ e.instance = newest[e.from]
  <2>1. \A a, b \in Server : endname(a, b) \in End /\ endname(a, b).instance = newest[endname(a, b).from]
    BY DEF endname, end, End, IndInv, TypeInv
  <2>2. peers \subseteq Server
    OBVIOUS
  <2> QED
    BY <2>1, <2>2
<1> HIDE DEF names
<1>3. EndInv'
  BY <1>1, <1>2 DEF IndInv, EndInv, Resting
<1> QED
  BY <1>1, <1>3, EndsStep

\* disconnect.
LEMMA DisconnectInv ==
  ASSUME IndInv, NEW i \in Server, disconnect(i)
  PROVE  IndInv'
<1>1. UNCHANGED <<servers, req, newest, disk, tester>> /\ cut(i) /\ net' \in Net
  BY DEF disconnect, IndInv, TypeInv
<1>2. EndInv'
  BY <1>1, CutEnds DEF IndInv, EndInv
<1> QED
  BY <1>1, <1>2, EndsStep

\* A crash begins: from here to the next instance no end of the server is enabled.
LEMMA CrashInv ==
  ASSUME IndInv, NEW i \in Server, NEW restart \in BOOLEAN, crash1(i, restart)
  PROVE  IndInv'
<1>1. /\ UNCHANGED <<servers, req, newest, disk>> /\ cut(i) /\ net' \in Net
      /\ tester' = [at |-> "delete", i |-> i, restart |-> restart]
  BY DEF crash1, IndInv, TypeInv
<1>2. /\ tester'.at = "delete" /\ tester'.i = i
      /\ tester' \in [at : {"delete"}, i : Server, restart : BOOLEAN]
  BY <1>1
<1>3. EndInv'
  BY <1>1, <1>2, CutEnds DEF IndInv, EndInv
<1> QED
  BY <1>1, <1>2, <1>3, EndsStep

\* The network's own steps, and what the harness does to it as a whole.
LEMMA QuietInv ==
  ASSUME IndInv, net' \in Net, UNCHANGED <<enabled, servers, req, harness>>
  PROVE  IndInv'
<1>1. UNCHANGED <<servers, req, newest, disk, tester>>
  BY DEF harness
<1>2. EndInv'
  BY <1>1 DEF IndInv, EndInv
<1> QED
  BY <1>1, <1>2, EndsStep

\* DeleteServer: the instance is gone before its persister is copied.
LEMMA DeleteInv ==
  ASSUME IndInv, DeleteServer
  PROVE  IndInv'
<1>1. /\ tester.at = "delete" /\ servers' = [servers EXCEPT ![tester.i] = 0]
      /\ tester' = [tester EXCEPT !.at = "copy"]
      /\ UNCHANGED <<net, enabled, req, newest, disk>>
  BY DEF DeleteServer
<1>2. tester.i \in Server
  BY DEF IndInv, TypeInv
<1>3. /\ tester' \in [at : {"idle", "delete", "copy", "start"}, i : Server, restart : BOOLEAN]
      /\ tester'.at = "copy" /\ tester'.i = tester.i
  BY <1>1 DEF IndInv, TypeInv
<1>4. /\ servers' \in [Server -> Nat]
      /\ \A i \in Server : servers'[i] = IF i = tester.i THEN 0 ELSE servers[i]
  BY <1>1, <1>2 DEF IndInv, TypeInv
<1>5. TypeInv'
  BY <1>1, <1>3, <1>4 DEF IndInv, TypeInv
<1>6. ServerInv'
  BY <1>1, <1>2, <1>3, <1>4 DEF IndInv, ServerInv
<1>7. EndInv'
  BY <1>1, <1>3 DEF IndInv, EndInv
<1>8. CallInv'
  BY <1>1 DEF IndInv, CallInv, CallOK
<1> QED
  BY <1>5, <1>6, <1>7, <1>8 DEF IndInv

\* Copy: from here on nobody writes to the persister that the harness has.
LEMMA CopyInv ==
  ASSUME IndInv, Copy
  PROVE  IndInv'
<1>1. /\ tester.at = "copy" /\ disk' = [disk EXCEPT ![tester.i].writer = 0]
      /\ tester' = IF tester.restart THEN [tester EXCEPT !.at = "start"] ELSE Resting
      /\ UNCHANGED <<net, enabled, servers, req, newest>>
  BY DEF Copy, network
<1>2. tester.i \in Server /\ servers[tester.i] = 0 /\ 0 \in Server
  BY <1>1, NetAssumption DEF IndInv, TypeInv, ServerInv, Server
<1>3. /\ tester' \in [at : {"idle", "delete", "copy", "start"}, i : Server, restart : BOOLEAN]
      /\ \/ tester'.at = "start" /\ tester'.i = tester.i
         \/ tester'.at = "idle" /\ tester' = Resting
  BY <1>1, <1>2 DEF IndInv, TypeInv, Resting
<1>4. /\ disk' \in [Server -> [writer : Nat, calls : SUBSET Rpc]]
      /\ \A i \in Server : /\ disk'[i].writer = IF i = tester.i THEN 0 ELSE disk[i].writer
                           /\ disk'[i].calls = disk[i].calls
  BY <1>1, <1>2 DEF IndInv, TypeInv
<1>5. TypeInv'
  BY <1>1, <1>3, <1>4 DEF IndInv, TypeInv
<1>6. ServerInv'
  BY <1>1, <1>2, <1>3, <1>4 DEF IndInv, ServerInv
<1>7. EndInv'
  BY <1>1, <1>3 DEF IndInv, EndInv
<1>8. CallInv'
  <2>1. \A c \in Rpc : req[c].end.to \in Server
    BY DEF IndInv, TypeInv, Request, End
  <2> QED
    BY <1>1, <1>4, <2>1 DEF IndInv, CallInv, CallOK
<1> QED
  BY <1>5, <1>6, <1>7, <1>8 DEF IndInv

\* start1: a newer instance, and all that was before is older.
LEMMA StartInv ==
  ASSUME IndInv, start1
  PROVE  IndInv'
<1> DEFINE i == tester.i
           g == newest[i] + 1
<1>1. /\ tester.at = "start"
      /\ newest' = [newest EXCEPT ![i] = g]
      /\ disk' = [disk EXCEPT ![i].writer = g]
      /\ servers' = [servers EXCEPT ![i] = g]
      /\ tester' = Resting
      /\ UNCHANGED <<net, enabled, req>>
  BY DEF start1, AddServer
<1>2. i \in Server /\ newest[i] \in Nat \ {0} /\ g \in Nat \ {0} /\ g > newest[i] /\ 0 \in Server
  BY NetAssumption DEF IndInv, TypeInv, Server
<1> HIDE DEF g
<1>3. /\ newest' \in [Server -> Nat \ {0}]
      /\ \A x \in Server : newest'[x] = IF x = i THEN g ELSE newest[x]
  BY <1>1, <1>2 DEF IndInv, TypeInv
<1>4. /\ servers' \in [Server -> Nat]
      /\ \A x \in Server : servers'[x] = IF x = i THEN g ELSE servers[x]
  BY <1>1, <1>2 DEF IndInv, TypeInv
<1>5. /\ disk' \in [Server -> [writer : Nat, calls : SUBSET Rpc]]
      /\ \A x \in Server : /\ disk'[x].writer = IF x = i THEN g ELSE disk[x].writer
                           /\ disk'[x].calls = disk[x].calls
  BY <1>1, <1>2 DEF IndInv, TypeInv
<1>6. tester' \in [at : {"idle", "delete", "copy", "start"}, i : Server, restart : BOOLEAN]
  BY <1>1, <1>2 DEF Resting
<1>7. TypeInv'
  BY <1>1, <1>3, <1>4, <1>5, <1>6 DEF IndInv, TypeInv
<1>8. ServerInv'
  BY <1>1, <1>2, <1>3, <1>4, <1>5 DEF IndInv, ServerInv, Resting
<1>9. EndInv'
  <2>1. \A e \in enabled : e \in End /\ e.from # i /\ e.instance = newest[e.from]
    BY <1>1 DEF IndInv, EndInv
  <2>2. \A e \in End : e.from \in Server
    BY DEF End
  <2> QED
    BY <1>1, <1>3, <2>1, <2>2 DEF EndInv, Resting
<1>10. CallInv'
  <2> SUFFICES ASSUME NEW c \in Rpc PROVE CallOK(c, req[c])'
    BY DEF CallInv
  <2>1. req[c].end.to \in Server /\ req[c].server \in Nat
    BY DEF IndInv, TypeInv, Request, End
  <2>2. req[c].server <= newest[req[c].end.to]
    BY DEF IndInv, CallInv, CallOK
  <2>3. CASE req[c].end.to = i
    <3>1. req[c].server < newest'[req[c].end.to]
      BY <1>2, <1>3, <2>1, <2>2, <2>3
    <3>2. req[c].server <= newest'[req[c].end.to]
      BY <1>2, <1>3, <2>1, <2>2, <2>3
    <3>3. CallOK(c, req[c]) /\ disk'[req[c].end.to].calls = disk[req[c].end.to].calls
      BY <1>5, <2>1 DEF IndInv, CallInv
    <3> QED
      BY <1>1, <3>1, <3>2, <3>3, Zenon DEF CallOK
  <2>4. CASE req[c].end.to # i
    BY <1>1, <1>3, <1>5, <2>1, <2>4 DEF IndInv, CallInv, CallOK
  <2> QED
    BY <2>3, <2>4
<1> QED
  BY <1>7, <1>8, <1>9, <1>10 DEF IndInv

-----------------------------------------------------------------------------
(* The steps of a call. *)

\* A step of one call, which may save.
LEMMA CallStep ==
  ASSUME IndInv, NEW c \in Rpc, NEW r \in Request, req' = [req EXCEPT ![c] = r],
         UNCHANGED <<net, enabled, servers, newest, tester>>,
         disk' \in [Server -> [writer : Nat, calls : SUBSET Rpc]],
         \A i \in Server : disk'[i].writer = disk[i].writer /\ disk[i].calls \subseteq disk'[i].calls,
         CallOK(c, r)'
  PROVE  IndInv'
<1>1. /\ req' \in [Rpc -> Request]
      /\ \A d \in Rpc : req'[d] = IF d = c THEN r ELSE req[d]
  BY DEF IndInv, TypeInv, Request
<1>2. TypeInv'
  BY <1>1 DEF IndInv, TypeInv, Request
<1>3. ServerInv' /\ EndInv'
  BY DEF IndInv, ServerInv, EndInv
<1>4. CallInv'
  <2>1. ASSUME NEW d \in Rpc
        PROVE  CallOK(d, req[d])'
    <3>1. CASE d = c
      <4>1. req'[d] = r
        BY <1>1, <3>1
      <4> QED
        BY <3>1, <4>1 DEF CallOK
    <3>2. CASE d # c
      <4>1. req'[d] = req[d] /\ req[d].end.to \in Server
        BY <1>1, <3>2 DEF IndInv, TypeInv, Request, End
      <4>2. CallOK(d, req[d])
        BY DEF IndInv, CallInv
      <4> QED
        BY <4>1, <4>2 DEF CallOK
    <3> QED
      BY <3>1, <3>2
  <2> QED
    BY <2>1 DEF CallInv
<1> QED
  BY <1>2, <1>3, <1>4 DEF IndInv

\* A step of one call that saves nothing and does not touch the network.
LEMMA PlainStep ==
  ASSUME IndInv, NEW c \in Rpc, NEW r \in Request, req' = [req EXCEPT ![c] = r],
         UNCHANGED <<network, harness>>, CallOK(c, r)
  PROVE  IndInv'
<1>1. UNCHANGED <<net, enabled, servers, newest, tester, disk>>
  BY DEF network, harness
<1>2. disk' \in [Server -> [writer : Nat, calls : SUBSET Rpc]]
  BY <1>1 DEF IndInv, TypeInv
<1>3. CallOK(c, r)'
  BY <1>1 DEF CallOK
<1> QED
  BY <1>1, <1>2, <1>3, CallStep, Zenon

\* A call that goes from one stage to the next, and nothing else happens to it.
LEMMA ToStep ==
  ASSUME IndInv, NEW c \in Rpc, NEW stage \in Stages, To(c, stage),
         stage \in {"idle", "send", "sent", "deliver"} => req[c].handler = "none",
         stage \in {"deliver", "wait"} => req[c].server # 0,
         stage = "got" => req[c].handler = "returned" /\ req[c].server # 0,
         stage \in {"reply", "true"} => c \in disk[req[c].end.to].calls
  PROVE  IndInv'
<1> DEFINE r == [req[c] EXCEPT !.stage = stage]
<1>1. req[c] \in Request
  BY DEF IndInv, TypeInv
<1>2. /\ r \in Request /\ r.stage = stage /\ r.end = req[c].end
      /\ r.server = req[c].server /\ r.handler = req[c].handler
  BY <1>1 DEF Request
<1>3. req' = [req EXCEPT ![c] = r] /\ UNCHANGED <<network, harness>>
  BY DEF To
<1> HIDE DEF r
<1>4. CallOK(c, req[c])
  BY DEF IndInv, CallInv
<1>5. CallOK(c, r)
  BY <1>2, <1>4 DEF CallOK
<1>6. PICK q : q = r
  OBVIOUS
<1> QED
  BY <1>2, <1>3, <1>5, <1>6, PlainStep, Zenon

\* A new request.
LEMMA MakeReqInv ==
  ASSUME IndInv, NEW c \in Rpc, NEW e \in Made, Call(c, e)
  PROVE  IndInv'
<1>1. /\ e \in End /\ req' = [req EXCEPT ![c] = MakeReq(e)] /\ UNCHANGED <<network, harness>>
  BY NetAssumption DEF Call, Made, end, End
<1>2. /\ MakeReq(e) \in Request /\ MakeReq(e).stage = "send" /\ MakeReq(e).server = 0
      /\ MakeReq(e).end = e /\ MakeReq(e).handler = "none"
  BY <1>1 DEF MakeReq, Request, Stages
<1>3. newest[e.to] \in Nat
  BY <1>1 DEF End, IndInv, TypeInv
<1>4. CallOK(c, MakeReq(e))
  BY <1>2, <1>3 DEF CallOK
<1> QED
  BY <1>1, <1>2, <1>4, PlainStep, Zenon

\* processReq reads what the network knows of the end: an instance, if any, that is the
\* newest of the server.
LEMMA ProcessReqInv ==
  ASSUME IndInv, NEW c \in Rpc, processReq(c)
  PROVE  IndInv'
<1> DEFINE info == readEndnameInfo(req[c].end)
           stage == IF info.enabled /\ info.server # 0 THEN "deliver" ELSE "fail"
           reliable == info.reliable
           server == info.server
           r == [req[c] EXCEPT !.stage = stage, !.server = server, !.reliable = reliable]
<1>1. /\ req[c].stage = "sent" /\ UNCHANGED <<network, harness>>
      /\ req' = [req EXCEPT ![c] = r]
  BY Zenon DEF processReq
<1>2. /\ req[c] \in Request /\ req[c].end.to \in Server
      /\ CallOK(c, req[c]) /\ req[c].handler = "none"
  BY <1>1 DEF IndInv, TypeInv, Request, End, CallInv, CallOK
<1>3. server = servers[req[c].end.to] /\ server \in Nat /\ server <= newest[req[c].end.to]
  BY <1>2 DEF readEndnameInfo, connection, IndInv, ServerInv, TypeInv
<1>4. /\ stage \in Stages /\ stage \in {"deliver", "fail"}
      /\ stage = "deliver" => server # 0
  BY DEF Stages
<1>5. PICK q \in BOOLEAN : reliable = q
  BY DEF readEndnameInfo, IndInv, TypeInv, Net
<1>6. PICK st, sv : st = stage /\ sv = server
  OBVIOUS
<1> DEFINE p == [req[c] EXCEPT !.stage = st, !.server = sv, !.reliable = q]
<1>7. r = p
  BY <1>5, <1>6
<1> HIDE DEF info, stage, server, reliable, r
<1>8. /\ p \in Request /\ p.stage = st /\ p.server = sv /\ p.end = req[c].end /\ p.handler = "none"
  BY <1>2, <1>3, <1>4, <1>6, Zenon DEF Request
<1>9. CallOK(c, p)
  BY <1>2, <1>3, <1>4, <1>6, <1>8 DEF CallOK
<1> HIDE DEF p
<1>10. PICK z : z = p
  OBVIOUS
<1> QED
  BY <1>1, <1>7, <1>8, <1>9, <1>10, PlainStep, Zenon

\* server.dispatch.
LEMMA DispatchInv ==
  ASSUME IndInv, NEW c \in Rpc, dispatch(c)
  PROVE  IndInv'
<1> DEFINE r == [req[c] EXCEPT !.stage = "wait", !.handler = "running"]
<1>1. /\ req[c].stage = "deliver" /\ UNCHANGED <<network, harness>>
      /\ req' = [req EXCEPT ![c] = r]
  BY Zenon DEF dispatch
<1>2. req[c] \in Request /\ CallOK(c, req[c])
  BY DEF IndInv, TypeInv, CallInv
<1>3. /\ r \in Request /\ r.stage = "wait" /\ r.handler = "running"
      /\ r.server = req[c].server /\ r.end = req[c].end
  BY <1>2, Zenon DEF Request, Stages
<1> HIDE DEF r
<1>4. CallOK(c, r)
  BY <1>1, <1>2, <1>3 DEF CallOK
<1>5. PICK q : q = r
  OBVIOUS
<1> QED
  BY <1>1, <1>3, <1>4, <1>5, PlainStep, Zenon

\* A handler that hangs.
LEMMA HangInv ==
  ASSUME IndInv, NEW c \in Rpc, hang(c)
  PROVE  IndInv'
<1> DEFINE r == [req[c] EXCEPT !.handler = "hangs"]
<1>1. /\ req[c].handler = "running" /\ UNCHANGED <<network, harness>>
      /\ req' = [req EXCEPT ![c] = r]
  BY DEF hang
<1>2. req[c] \in Request /\ CallOK(c, req[c])
  BY DEF IndInv, TypeInv, CallInv
<1>3. /\ r \in Request /\ r.handler = "hangs"
      /\ r.stage = req[c].stage /\ r.server = req[c].server /\ r.end = req[c].end
  BY <1>2 DEF Request
<1> HIDE DEF r
<1>4. CallOK(c, r)
  BY <1>1, <1>2, <1>3 DEF CallOK
<1>5. PICK q : q = r
  OBVIOUS
<1> QED
  BY <1>1, <1>3, <1>4, <1>5, PlainStep, Zenon

\* A handler saves and returns.  If its instance does not write to the persister that the
\* harness has, the instance is gone: the copy has been taken, or there is a newer one.
LEMMA HandleInv ==
  ASSUME IndInv, NEW c \in Rpc, handle(c)
  PROVE  IndInv'
<1> DEFINE r == [req[c] EXCEPT !.handler = "returned"]
           to == req[c].end.to
<1>1. /\ req[c].handler = "running" /\ req' = [req EXCEPT ![c] = r]
      /\ disk' = IF req[c].server = disk[to].writer
                   THEN [disk EXCEPT ![to].calls = disk[to].calls \cup {c}] ELSE disk
      /\ UNCHANGED <<net, enabled, servers, newest, tester>>
  BY DEF handle, Save, network
<1>2. req[c] \in Request /\ CallOK(c, req[c]) /\ to \in Server
  BY DEF IndInv, TypeInv, CallInv, Request, End
<1>3. /\ r \in Request /\ r.handler = "returned"
      /\ r.stage = req[c].stage /\ r.server = req[c].server /\ r.end.to = to
  BY <1>2 DEF Request
<1>4. /\ disk' \in [Server -> [writer : Nat, calls : SUBSET Rpc]]
      /\ \A i \in Server : /\ disk'[i].writer = disk[i].writer
                           /\ disk[i].calls \subseteq disk'[i].calls
      /\ req[c].server = disk[to].writer => c \in disk'[to].calls
  <2>1. CASE req[c].server = disk[to].writer
    BY <1>1, <1>2, <2>1 DEF IndInv, TypeInv
  <2>2. CASE req[c].server # disk[to].writer
    BY <1>1, <2>2 DEF IndInv, TypeInv
  <2> QED
    BY <2>1, <2>2
<1>5. req[c].server # disk[to].writer => req[c].server < newest[to] \/ disk[to].writer = 0
  <2>1. req[c].server <= newest[to] /\ req[c].server \in Nat /\ newest[to] \in Nat
    BY <1>2 DEF IndInv, TypeInv, CallOK, Request
  <2>2. disk[to].writer \in {0, newest[to]}
    BY <1>2 DEF IndInv, ServerInv
  <2> QED
    BY <2>1, <2>2
<1> HIDE DEF r, to
<1>6. PICK q, z : q = r /\ z = to
  OBVIOUS
<1>7. CallOK(c, q)'
  <2>1. z = req[c].end.to /\ q.end.to = z /\ z \in Server
    BY <1>2, <1>3, <1>6 DEF to
  <2>2. /\ disk'[z].writer = disk[z].writer
        /\ disk[z].calls \subseteq disk'[z].calls
        /\ req[c].server = disk[z].writer => c \in disk'[z].calls
        /\ req[c].server # disk[z].writer => req[c].server < newest[z] \/ disk[z].writer = 0
    BY <1>4, <1>5, <1>6, <2>1
  <2> QED
    BY <1>1, <1>2, <1>3, <1>6, <2>1, <2>2, Zenon DEF CallOK
<1> QED
  BY <1>1, <1>3, <1>4, <1>6, <1>7, CallStep, Zenon

\* A reply is sent on if the instance that made it is still the server: then it has saved
\* to the persister that the harness has.
LEMMA ReplyInv ==
  ASSUME IndInv, NEW c \in Rpc, replyToCall(c)
  PROVE  IndInv'
<1>1. req[c].stage = "got" /\ (To(c, "fail") \/ (~isServerDead(req[c]) /\ To(c, "reply")))
  BY DEF replyToCall
<1>2. /\ CallOK(c, req[c]) /\ req[c].end.to \in Server
      /\ req[c].server # 0 /\ req[c].handler = "returned"
  BY <1>1 DEF IndInv, TypeInv, CallInv, CallOK, Request, End
<1>3. CASE To(c, "fail")
  BY <1>3, ToStep DEF Stages
<1>4. CASE ~isServerDead(req[c]) /\ To(c, "reply")
  <2>1. servers[req[c].end.to] = req[c].server
    BY <1>4 DEF isServerDead, connection
  <2>2. c \in disk[req[c].end.to].calls
    BY <1>2, <2>1 DEF IndInv, ServerInv, TypeInv, CallOK
  <2> QED
    BY <1>4, <2>2, ToStep DEF Stages
<1> QED
  BY <1>1, <1>3, <1>4

\* What the goroutines of a call do.
LEMMA DeliverInv ==
  ASSUME IndInv, NEW c \in Rpc, Deliver(c)
  PROVE  IndInv'
<1>1. CallOK(c, req[c])
  BY DEF IndInv, CallInv
<1>2. CASE CallAccepted(c)
  BY <1>1, <1>2, ToStep DEF CallAccepted, Stages, CallOK
<1>3. CASE CallAfterCleanup(c)
  BY <1>3, ToStep DEF CallAfterCleanup, Stages
<1>4. CASE dropRequest(c)
  BY <1>4, ToStep DEF dropRequest, Stages
<1>5. CASE receiveReply(c)
  BY <1>1, <1>5, ToStep, Zenon DEF receiveReply, Stages, CallOK
<1>6. CASE checkServer(c)
  BY <1>6, ToStep DEF checkServer, Stages
<1>7. CASE Return(c)
  <2>1. CASE To(c, "false")
    BY <2>1, ToStep DEF Stages
  <2>2. CASE req[c].stage = "reply" /\ To(c, "true")
    BY <1>1, <2>2, ToStep DEF Stages, CallOK
  <2> QED
    BY <1>7, <2>1, <2>2 DEF Return
<1> QED
  BY <1>2, <1>3, <1>4, <1>5, <1>6, <1>7, ProcessReqInv, DispatchInv, ReplyInv DEF Deliver

-----------------------------------------------------------------------------
(* The theorems. *)

\* All servers started and connected, no call made.
LEMMA InitInv ==
  ASSUME Init
  PROVE  IndInv
<1>1. 0 \in Server
  BY NetAssumption DEF Server
<1>2. /\ Idle \in Request /\ Idle.stage = "idle" /\ Idle.server = 0 /\ Idle.handler = "none"
      /\ Idle.end.to = 0
  BY <1>1, Zenon DEF Idle, MakeReq, end, Request, End, Stages
<1>3. TypeInv
  <2>1. /\ net \in Net /\ newest \in [Server -> Nat \ {0}] /\ servers \in [Server -> Nat]
        /\ disk \in [Server -> [writer : Nat, calls : SUBSET Rpc]]
    BY DEF Init, Net
  <2>2. req \in [Rpc -> Request]
    BY <1>2 DEF Init
  <2>3. tester = Resting /\ Resting \in [at : {"idle", "delete", "copy", "start"}, i : Server, restart : BOOLEAN]
    BY <1>1 DEF Init, Resting
  <2> QED
    BY <2>1, <2>2, <2>3 DEF TypeInv
<1>4. ServerInv
  BY DEF Init, ServerInv, Resting
<1>5. EndInv
  BY DEF Init, EndInv, Resting, end, End
<1>6. CallInv
  <2>1. ASSUME NEW c \in Rpc PROVE CallOK(c, req[c])
    <3>1. req[c] = Idle /\ newest[0] = 1
      BY <1>1 DEF Init
    <3> QED
      BY <1>2, <3>1 DEF CallOK
  <2> QED
    BY <2>1 DEF CallInv
<1> QED
  BY <1>3, <1>4, <1>5, <1>6 DEF IndInv

\* The harness.
LEMMA TesterInv ==
  ASSUME IndInv, Tester
  PROVE  IndInv'
<1>1. ASSUME NEW yes \in BOOLEAN, Reliable(yes)
      PROVE  IndInv'
  <2>1. net' \in Net
    BY <1>1 DEF Reliable, IndInv, TypeInv, Net
  <2> QED
    BY <1>1, <2>1, QuietInv DEF Reliable
<1>2. CASE Cleanup
  <2>1. net' \in Net
    BY <1>2, Zenon DEF Cleanup, IndInv, TypeInv, Net
  <2> QED
    BY <1>2, <2>1, QuietInv DEF Cleanup
<1> QED
  BY <1>1, <1>2, ConnectInv, DisconnectInv, CrashInv, DeleteInv, CopyInv, StartInv DEF Tester

\* Every step keeps the invariant.
LEMMA NextInv ==
  ASSUME IndInv, [Next]_vars
  PROVE  IndInv'
<1>1. CASE UNCHANGED vars
  BY <1>1, QuietInv DEF vars, harness, IndInv, TypeInv
<1>2. CASE Stop
  <2>1. net' \in Net
    BY <1>2, Zenon DEF Stop, IndInv, TypeInv, Net
  <2> QED
    BY <1>2, <2>1, QuietInv DEF Stop
<1> QED
  BY <1>1, <1>2, TesterInv, DeliverInv, HandleInv, HangInv, MakeReqInv DEF Next

\* The invariant of the network under the harness.
THEOREM NetInvariance == Spec => []IndInv
<1>1. IndInv /\ [Next]_vars => IndInv'
  BY NextInv
<1> QED
  BY <1>1, InitInv, PTL DEF Spec

\* A call that returned true has its effect in the state of the server, however often
\* the server was deleted and started again between the handler and the reply.
THEOREM NothingAckedIsLost == Spec => []AckedIsKept
<1>1. IndInv => AckedIsKept
  BY DEF IndInv, CallInv, CallOK, AckedIsKept
<1> QED
  BY <1>1, NetInvariance, PTL

\* A request reaches processReq's delivery only through an enabled end.
LEMMA DeliversEnabled ==
  ASSUME IndInv, [Next]_vars, NEW c \in Rpc, req[c].stage = "sent", req'[c].stage = "deliver"
  PROVE  req[c].end \in enabled
<1>1. ASSUME NEW d \in Rpc, NEW stage \in Stages \ {"deliver"}, To(d, stage)
      PROVE  FALSE
  BY <1>1 DEF To, IndInv, TypeInv, Request
<1>2. ASSUME UNCHANGED req
      PROVE  FALSE
  BY <1>2
<1>3. ASSUME Tester \/ Stop \/ UNCHANGED vars
      PROVE  FALSE
  BY <1>2, <1>3, Zenon DEF Tester, Stop, vars, Reliable, connect, disconnect, crash1, DeleteServer,
     Copy, start1, Cleanup
<1>4. ASSUME NEW d \in Rpc, processReq(d)
      PROVE  req[c].end \in enabled
  <2>1. readEndnameInfo(req[d].end).enabled <=> req[d].end \in enabled
    BY Zenon DEF readEndnameInfo
  <2>2. req[d].end \notin enabled => req'[d].stage = "fail"
    BY <1>4, <2>1 DEF processReq, IndInv, TypeInv, Request
  <2>3. d # c => req'[c] = req[c]
    BY <1>4 DEF processReq, IndInv, TypeInv
  <2> QED
    BY <2>2, <2>3
<1>5. ASSUME NEW d \in Rpc, dispatch(d) \/ handle(d) \/ hang(d) \/ \E e \in Made : Call(d, e)
      PROVE  FALSE
  <2>1. d # c => req'[c] = req[c]
    BY <1>5 DEF dispatch, handle, hang, Call, IndInv, TypeInv
  <2>2. CASE dispatch(d)
    BY <2>1, <2>2 DEF dispatch, IndInv, TypeInv, Request
  <2>3. CASE handle(d) \/ hang(d)
    <3>1. req'[d].stage = req[d].stage
      BY <2>3 DEF handle, hang, IndInv, TypeInv, Request
    <3> QED
      BY <2>1, <3>1
  <2>4. ASSUME NEW e \in Made, Call(d, e)
        PROVE  FALSE
    BY <2>1, <2>4 DEF Call
  <2> QED
    BY <1>5, <2>2, <2>3, <2>4
<1>6. ASSUME NEW d \in Rpc, Deliver(d), ~processReq(d), ~dispatch(d)
      PROVE  FALSE
  BY <1>1, <1>6 DEF Deliver, CallAccepted, CallAfterCleanup, dropRequest, receiveReply,
     checkServer, replyToCall, Return, Stages
<1> QED
  BY <1>3, <1>4, <1>5, <1>6 DEF Next

\* No call of an instance that was replaced gets to a server: its ends were disabled
\* before, and nobody enables them again.
THEOREM OldInstancesCutOff == Spec => OldInstancesMute
<1>1. ASSUME IndInv, [Next]_vars, NEW c \in Rpc, req[c].stage = "sent", req'[c].stage = "deliver"
      PROVE  req[c].end.instance = newest[req[c].end.from]
  BY <1>1, DeliversEnabled DEF IndInv, EndInv
<1>2. IndInv /\ [Next]_vars =>
        [\A c \in Rpc : (req[c].stage = "sent" /\ req'[c].stage = "deliver") =>
           req[c].end.instance = newest[req[c].end.from]]_vars
  BY <1>1
<1> QED
  BY <1>2, NetInvariance, PTL DEF Spec, OldInstancesMute
=============================================================================
