--------------------------- MODULE MapReduceProofs ---------------------------
(***************************************************************************)
(* A finished job has the outputs of the sequential program, for any number *)
(* of tasks and workers and any number of crashes.                          *)
(***************************************************************************)
EXTENDS MapReduce, TLAPS

-----------------------------------------------------------------------------
(***************************************************************************)
(* The inductive invariant.  What the files hold is decided step by step by *)
(* the workers, and read by other workers after a report: the invariant     *)
(* follows a task from the worker that has it through the report to the     *)
(* coordinator's state of it.                                               *)
(***************************************************************************)

holds(t, type) == t.pc \in {"work", "report"} /\ t.type = type

\* The file names of a reduce task: those of all the map tasks.
allFiles == [m \in MapId |-> m]

TypeInv ==
  /\ phase \in {"duringMap", "duringReduce", "finish"}
  /\ mapTasks \in [MapId -> {"Idle", "InProgress", "Completed"}]
  /\ DOMAIN worker = Proc
  /\ inter \subseteq MapId \X ReduceId
  /\ out = [r \in ReduceId |-> out[r]]
  /\ panics \in Nat

\* A worker that has a map task has renamed k files, all of them when it reports (unless
\* there was a panic); the coordinator has not heard of another one that completed it
\* (unless the task was handed out twice).
MapOK(t) ==
  holds(t, "Map") =>
    /\ t.id \in MapId
    /\ t.pc = "work" => t.k < nReduce
    /\ panics = 0 => /\ t.pc = "report" => t.k = nReduce
                     /\ \A r \in 1..t.k : <<t.id, r>> \in inter
    /\ late = {} => mapTasks[t.id] = "InProgress"

\* A worker that has a reduce task has read k files, all of them when it reports.
ReduceOK(t) ==
  holds(t, "Reduce") =>
    /\ phase # "duringMap"
    /\ late = {} =>
         /\ t.id \in ReduceId
         /\ reduceTasks[t.id].State = "InProgress"
         /\ t.names = allFiles
         /\ panics = 0 => /\ t.pc = "work" => t.k < nMap
                          /\ t.pc = "report" => out[t.id] = allFiles

TaskOK(t) ==
  /\ DOMAIN t = {"pc", "type", "id", "names", "k"}
  /\ t.pc \in {"gone", "wait", "work", "report"}
  /\ t.k \in Nat
  /\ t.pc \in {"work", "report"} => t.type \in {"Map", "Reduce"}
  /\ MapOK(t)
  /\ ReduceOK(t)

WorkerInv == \A w \in Proc : TaskOK(worker[w])

\* No two workers have the same task, unless it was handed out twice.
same(t, u) == \E type \in {"Map", "Reduce"} : holds(t, type) /\ holds(u, type) /\ t.id = u.id

HolderInv == late = {} => \A v, w \in Proc : same(worker[v], worker[w]) => v = w

\* The files of a completed map task are there, and in the reduce phase all are completed.
FilesInv ==
  /\ panics = 0 => \A m \in MapId : mapTasks[m] = "Completed" => \A r \in ReduceId : <<m, r>> \in inter
  /\ phase # "duringMap" => \A m \in MapId : mapTasks[m] = "Completed"

\* There is one list of reduce tasks, and the output of a completed one is whole.
ListInv ==
  late = {} =>
    /\ phase = "duringMap" => reduceTasks = <<>>
    /\ phase # "duringMap" =>
         /\ reduceTasks \in [ReduceId -> [Id : ReduceId, FileNames : {allFiles},
                                          State : {"Idle", "InProgress", "Completed"}]]
         /\ \A r \in ReduceId : reduceTasks[r].Id = r
         /\ panics = 0 => \A r \in ReduceId : reduceTasks[r].State = "Completed" => out[r] = allFiles
    /\ phase = "finish" => \A r \in ReduceId : reduceTasks[r].State = "Completed"

IndInv == TypeInv /\ WorkerInv /\ HolderInv /\ FilesInv /\ ListInv

-----------------------------------------------------------------------------
(* What the steps are made of. *)

\* The sizes of a job.
LEMMA Sizes ==
  /\ nMap \in Nat \ {0} /\ nReduce \in Nat \ {0}
  /\ MapId = 1..nMap /\ ReduceId = 1..nReduce
  /\ allFiles \in Seq(MapId) /\ Len(allFiles) = nMap /\ \A m \in MapId : allFiles[m] = m
<1>1. /\ nMap \in Nat \ {0} /\ nReduce \in Nat \ {0}
      /\ MapId = 1..nMap /\ ReduceId = 1..nReduce
  BY SizeAssumption DEF MapId, ReduceId
<1>2. \A m \in MapId : allFiles[m] = m
  BY DEF allFiles
<1>3. allFiles \in Seq(MapId) /\ Len(allFiles) = nMap
  <2>1. allFiles \in [1..nMap -> MapId]
    BY <1>1 DEF allFiles
  <2> QED
    BY <1>1, <2>1
<1> QED
  BY <1>1, <1>2, <1>3

\* A process that has no task.
LEMMA Idles ==
  ASSUME NEW t \in {Gone, Waiting}
  PROVE  /\ DOMAIN t = {"pc", "type", "id", "names", "k"}
         /\ t.pc \in {"gone", "wait"} /\ t.k = 0
         /\ ~holds(t, "Map") /\ ~holds(t, "Reduce")
<1>1. CASE t = Gone
  BY <1>1, Zenon DEF Gone, holds
<1>2. CASE t = Waiting
  BY <1>2, Zenon DEF Gone, Waiting, holds
<1> QED
  BY <1>1, <1>2

\* The workers after a step of one of them.
LEMMA OneWorker ==
  ASSUME IndInv, NEW w \in Proc, NEW t, worker' = [worker EXCEPT ![w] = t]
  PROVE  /\ DOMAIN worker' = Proc
         /\ worker'[w] = t
         /\ \A v \in Proc \ {w} : worker'[v] = worker[v]
  BY DEF IndInv, TypeInv

\* No two workers have the same task after a step of w that keeps its task or drops it.
LEMMA HoldersKept ==
  ASSUME IndInv, NEW w \in Proc, NEW t, worker' = [worker EXCEPT ![w] = t], late' = late,
         \A type \in {"Map", "Reduce"} : holds(t, type) => holds(worker[w], type) /\ t.id = worker[w].id
  PROVE  HolderInv'
<1> SUFFICES ASSUME late = {}, NEW u \in Proc, NEW v \in Proc, same(worker'[u], worker'[v])
             PROVE  u = v
  BY Zenon DEF HolderInv
<1>1. \A x \in Proc : worker'[x] = IF x = w THEN t ELSE worker[x]
  BY OneWorker, Zenon
<1>2. \A x \in Proc, type \in {"Map", "Reduce"} : holds(worker'[x], type) =>
        holds(worker[x], type) /\ worker'[x].id = worker[x].id
  BY <1>1
<1>3. same(worker[u], worker[v])
  BY <1>2 DEF same
<1> QED
  BY <1>3 DEF IndInv, HolderInv

\* A process drops its task, or gets none.
LEMMA DropStep ==
  ASSUME IndInv, NEW w \in Proc, NEW t \in {Gone, Waiting}, worker' = [worker EXCEPT ![w] = t],
         UNCHANGED <<phase, mapTasks, reduceTasks, files, late, panics>>
  PROVE  IndInv'
<1>0. UNCHANGED <<inter, out>>
  BY DEF files
<1>1. TypeInv'
  BY <1>0, OneWorker DEF IndInv, TypeInv
<1>2. WorkerInv'
  <2> SUFFICES ASSUME NEW v \in Proc PROVE TaskOK(worker[v])'
    BY DEF WorkerInv
  <2>1. CASE v = w
    <3>1. worker'[v] = t
      BY <2>1, OneWorker, Zenon
    <3> QED
      BY <3>1, Idles DEF TaskOK, MapOK, ReduceOK
  <2>2. CASE v # w
    <3>1. worker'[v] = worker[v] /\ TaskOK(worker[v])
      BY <2>2, OneWorker DEF IndInv, WorkerInv
    <3> QED
      BY <1>0, <3>1 DEF TaskOK, MapOK, ReduceOK
  <2> QED
    BY <2>1, <2>2
<1>3. HolderInv'
  BY HoldersKept, Idles, Zenon
<1>4. FilesInv' /\ ListInv'
  BY <1>0 DEF IndInv, FilesInv, ListInv
<1> QED
  BY <1>1, <1>2, <1>3, <1>4 DEF IndInv

-----------------------------------------------------------------------------
(* The workers. *)

\* A panic: what follows is not claimed any more.
LEMMA RecoverInv ==
  ASSUME IndInv, NEW w \in Proc, Recover(w)
  PROVE  IndInv'
<1> DEFINE t == [worker[w] EXCEPT !.pc = "report"]
<1>0. /\ worker[w].pc = "work" /\ worker' = [worker EXCEPT ![w] = t]
      /\ panics' # 0 /\ panics' \in Nat
      /\ UNCHANGED <<phase, mapTasks, reduceTasks, inter, out, late>>
  BY DEF Recover, coordinator, files, IndInv, TypeInv
<1>1. TaskOK(worker[w])
  BY DEF IndInv, WorkerInv
<1>2. /\ DOMAIN t = {"pc", "type", "id", "names", "k"} /\ t.pc = "report"
      /\ t.type = worker[w].type /\ t.id = worker[w].id /\ t.names = worker[w].names /\ t.k = worker[w].k
  BY <1>1 DEF TaskOK
<1> HIDE DEF t
<1>3. TypeInv'
  BY <1>0, OneWorker DEF IndInv, TypeInv
<1>4. WorkerInv'
  <2> SUFFICES ASSUME NEW v \in Proc PROVE TaskOK(worker[v])'
    BY DEF WorkerInv
  <2>1. CASE v = w
    <3>1. worker'[v] = t
      BY <1>0, <2>1, OneWorker, Zenon
    <3> QED
      BY <1>0, <1>1, <1>2, <3>1 DEF TaskOK, MapOK, ReduceOK, holds
  <2>2. CASE v # w
    <3>1. worker'[v] = worker[v] /\ TaskOK(worker[v])
      BY <1>0, <2>2, OneWorker DEF IndInv, WorkerInv
    <3> QED
      BY <1>0, <3>1 DEF TaskOK, MapOK, ReduceOK
  <2> QED
    BY <2>1, <2>2
<1>5. HolderInv'
  BY <1>0, <1>2, HoldersKept, Zenon DEF holds
<1>6. FilesInv' /\ ListInv'
  BY <1>0 DEF IndInv, FilesInv, ListInv
<1> QED
  BY <1>3, <1>4, <1>5, <1>6 DEF IndInv

\* The worker of a map task after the next rename.
LEMMA MapProgress ==
  ASSUME IndInv, NEW w \in Proc, HandleMapTask(w)
  PROVE  \E t : /\ worker' = [worker EXCEPT ![w] = t]
                /\ DOMAIN t = {"pc", "type", "id", "names", "k"}
                /\ t.type = "Map" /\ t.id = worker[w].id
                /\ t.k = worker[w].k + 1 /\ t.k \in ReduceId
                /\ t.pc = IF t.k = nReduce THEN "report" ELSE "work"
<1> DEFINE pc == IF worker[w].k + 1 = nReduce THEN "report" ELSE "work"
           t == [worker[w] EXCEPT !.k = worker[w].k + 1, !.pc = pc]
<1>1. /\ worker[w].pc = "work" /\ worker[w].type = "Map" /\ TaskOK(worker[w])
  BY DEF HandleMapTask, IndInv, WorkerInv
<1>2. worker' = [worker EXCEPT ![w] = t]
  BY <1>1, Zenon DEF HandleMapTask, progress
<1>3. worker[w].k + 1 \in ReduceId
  BY <1>1, Sizes DEF TaskOK, MapOK, holds
<1> HIDE DEF pc
<1>4. /\ DOMAIN t = {"pc", "type", "id", "names", "k"}
      /\ t.type = "Map" /\ t.id = worker[w].id /\ t.k = worker[w].k + 1 /\ t.pc = pc
  BY <1>1 DEF TaskOK
<1> HIDE DEF t
<1>5. PICK q : q = t
  OBVIOUS
<1> QED
  BY <1>2, <1>3, <1>4, <1>5, Zenon DEF pc

\* A file of a map task gets its name.
LEMMA HandleMapInv ==
  ASSUME IndInv, NEW w \in Proc, HandleMapTask(w)
  PROVE  IndInv'
<1>0. /\ worker[w].pc = "work" /\ worker[w].type = "Map" /\ TaskOK(worker[w])
      /\ inter' = inter \cup {<<worker[w].id, worker[w].k + 1>>}
      /\ UNCHANGED <<phase, mapTasks, reduceTasks, out, late, panics>>
  BY DEF HandleMapTask, rename, coordinator, IndInv, WorkerInv
<1>1. PICK t : /\ worker' = [worker EXCEPT ![w] = t]
               /\ DOMAIN t = {"pc", "type", "id", "names", "k"}
               /\ t.type = "Map" /\ t.id = worker[w].id
               /\ t.k = worker[w].k + 1 /\ t.k \in ReduceId
               /\ t.pc = IF t.k = nReduce THEN "report" ELSE "work"
  BY MapProgress
<1>2. /\ worker[w].id \in MapId /\ worker[w].k \in Nat
      /\ panics = 0 => \A r \in 1..worker[w].k : <<worker[w].id, r>> \in inter
      /\ late = {} => mapTasks[worker[w].id] = "InProgress"
  BY <1>0 DEF TaskOK, MapOK, holds
<1>3. TypeInv'
  BY <1>0, <1>1, <1>2, OneWorker DEF IndInv, TypeInv
<1>4. TaskOK(t)'
  <2>1. t.k \in Nat /\ (t.pc = "work" => t.k < nReduce) /\ (t.pc = "report" => t.k = nReduce)
    BY <1>1, Sizes
  <2>2. panics = 0 => \A r \in 1..t.k : <<t.id, r>> \in inter'
    <3>1. \A r \in 1..t.k : r \in 1..worker[w].k \/ r = worker[w].k + 1
      BY <1>1, <1>2
    <3> QED
      BY <1>0, <1>1, <1>2, <3>1
  <2>3. MapOK(t)'
    BY <1>0, <1>1, <1>2, <2>1, <2>2 DEF MapOK
  <2>4. ~holds(t, "Reduce") /\ t.pc \in {"work", "report"}
    BY <1>1 DEF holds
  <2> QED
    BY <1>1, <2>1, <2>3, <2>4 DEF TaskOK, ReduceOK
<1>5. WorkerInv'
  <2> SUFFICES ASSUME NEW v \in Proc PROVE TaskOK(worker[v])'
    BY DEF WorkerInv
  <2>1. CASE v = w
    <3>1. worker'[v] = t
      BY <1>1, <2>1, OneWorker, Zenon
    <3> QED
      BY <1>4, <3>1 DEF TaskOK, MapOK, ReduceOK
  <2>2. CASE v # w
    <3>1. worker'[v] = worker[v] /\ TaskOK(worker[v])
      BY <1>1, <2>2, OneWorker DEF IndInv, WorkerInv
    <3> QED
      BY <1>0, <3>1 DEF TaskOK, MapOK, ReduceOK
  <2> QED
    BY <2>1, <2>2
<1>6. HolderInv'
  BY <1>0, <1>1, HoldersKept, Zenon DEF holds
<1>7. FilesInv' /\ ListInv'
  BY <1>0 DEF IndInv, FilesInv, ListInv
<1> QED
  BY <1>3, <1>5, <1>6, <1>7 DEF IndInv

\* Reading all of a job's files gives the whole of them.
LEMMA WholeOfFiles ==
  SubSeq(allFiles, 1, nMap) = allFiles
<1>1. /\ SubSeq(allFiles, 1, nMap) \in Seq(MapId) /\ Len(SubSeq(allFiles, 1, nMap)) = nMap
      /\ \A m \in 1..nMap : SubSeq(allFiles, 1, nMap)[m] = allFiles[m]
  BY Sizes
<1> QED
  BY <1>1, Sizes

\* The worker of a reduce task after the next file: it gets no further without one.
LEMMA ReduceProgress ==
  ASSUME IndInv, NEW w \in Proc, HandleReduceTask(w)
  PROVE  \E t : /\ worker' = [worker EXCEPT ![w] = t]
                /\ DOMAIN t = {"pc", "type", "id", "names", "k"}
                /\ t.type = "Reduce" /\ t.id = worker[w].id /\ t.names = worker[w].names
                /\ t.k \in Nat /\ t.pc \in {"work", "report"}
                /\ \/ /\ \/ worker[w].names = <<>>
                         \/ <<worker[w].names[worker[w].k + 1], worker[w].id>> \notin inter
                      /\ out' = out
                   \/ /\ t.k = worker[w].k + 1
                      /\ t.pc = IF t.k = Len(t.names) THEN "report" ELSE "work"
                      /\ out' = [out EXCEPT ![t.id] = SubSeq(t.names, 1, t.k)]
<1>1. worker[w].pc = "work" /\ worker[w].type = "Reduce" /\ TaskOK(worker[w])
  BY DEF HandleReduceTask, IndInv, WorkerInv
<1>2. CASE worker[w].names = <<>> \/ <<worker[w].names[worker[w].k + 1], worker[w].id>> \notin inter
  <2> DEFINE t == [worker[w] EXCEPT !.pc = "report"]
  <2>1. worker' = [worker EXCEPT ![w] = t] /\ out' = out
    BY <1>2 DEF HandleReduceTask
  <2>2. /\ DOMAIN t = {"pc", "type", "id", "names", "k"} /\ t.type = "Reduce" /\ t.id = worker[w].id
        /\ t.names = worker[w].names /\ t.k \in Nat /\ t.pc \in {"work", "report"}
    BY <1>1 DEF TaskOK
  <2> HIDE DEF t
  <2>3. PICK q : q = t
    OBVIOUS
  <2> QED
    BY <1>2, <2>1, <2>2, <2>3, Zenon
<1>3. CASE ~(worker[w].names = <<>> \/ <<worker[w].names[worker[w].k + 1], worker[w].id>> \notin inter)
  <2> DEFINE pc == IF worker[w].k + 1 = Len(worker[w].names) THEN "report" ELSE "work"
             t == [worker[w] EXCEPT !.k = worker[w].k + 1, !.pc = pc]
  <2>1. /\ worker' = [worker EXCEPT ![w] = t]
        /\ out' = [out EXCEPT ![worker[w].id] = SubSeq(worker[w].names, 1, worker[w].k + 1)]
    BY <1>1, <1>3, Zenon DEF HandleReduceTask, progress
  <2> HIDE DEF pc
  <2>2. /\ DOMAIN t = {"pc", "type", "id", "names", "k"} /\ t.type = "Reduce" /\ t.id = worker[w].id
        /\ t.names = worker[w].names /\ t.k = worker[w].k + 1 /\ t.k \in Nat /\ t.pc = pc
    BY <1>1 DEF TaskOK
  <2> HIDE DEF t
  <2>3. PICK q : q = t
    OBVIOUS
  <2>4. q.pc = IF q.k = Len(q.names) THEN "report" ELSE "work"
    BY <2>2, <2>3 DEF pc
  <2> QED
    BY <2>1, <2>2, <2>3, <2>4, Zenon
<1> QED
  BY <1>2, <1>3

\* An input file is read, and the output written: the next file of the task is there,
\* since all map tasks are completed, and no other worker writes this output.
LEMMA HandleReduceInv ==
  ASSUME IndInv, NEW w \in Proc, HandleReduceTask(w)
  PROVE  IndInv'
<1>0. /\ worker[w].pc = "work" /\ worker[w].type = "Reduce" /\ TaskOK(worker[w])
      /\ UNCHANGED <<phase, mapTasks, reduceTasks, inter, late, panics>>
  BY DEF HandleReduceTask, coordinator, IndInv, WorkerInv
<1>1. PICK t : /\ worker' = [worker EXCEPT ![w] = t]
               /\ DOMAIN t = {"pc", "type", "id", "names", "k"}
               /\ t.type = "Reduce" /\ t.id = worker[w].id /\ t.names = worker[w].names
               /\ t.k \in Nat /\ t.pc \in {"work", "report"}
               /\ \/ /\ \/ worker[w].names = <<>>
                        \/ <<worker[w].names[worker[w].k + 1], worker[w].id>> \notin inter
                     /\ out' = out
                  \/ /\ t.k = worker[w].k + 1
                     /\ t.pc = IF t.k = Len(t.names) THEN "report" ELSE "work"
                     /\ out' = [out EXCEPT ![t.id] = SubSeq(t.names, 1, t.k)]
  BY ReduceProgress
<1>2. /\ phase # "duringMap" /\ worker[w].k \in Nat
      /\ late = {} => /\ t.id \in ReduceId /\ t.names = allFiles
                      /\ reduceTasks[t.id].State = "InProgress"
                      /\ panics = 0 => worker[w].k < nMap
  BY <1>0, <1>1 DEF TaskOK, ReduceOK, holds
<1>3. out' = [r \in ReduceId |-> out'[r]] /\ \A r \in ReduceId : r # t.id => out'[r] = out[r]
  BY <1>1 DEF IndInv, TypeInv
<1>4. ASSUME late = {}, panics = 0
      PROVE  /\ t.pc = "work" => t.k < nMap
             /\ t.pc = "report" => out'[t.id] = allFiles
  <2>1. worker[w].k + 1 \in MapId
    BY <1>2, <1>4, Sizes
  <2>2. <<allFiles[worker[w].k + 1], t.id>> \in inter
    BY <1>2, <1>4, <2>1, Sizes DEF IndInv, FilesInv
  <2>3. allFiles # <<>>
    BY Sizes
  <2>4. /\ t.k = worker[w].k + 1
        /\ t.pc = IF t.k = nMap THEN "report" ELSE "work"
        /\ out' = [out EXCEPT ![t.id] = SubSeq(allFiles, 1, t.k)]
    BY <1>1, <1>2, <1>4, <2>2, <2>3, Sizes, Zenon
  <2>5. out'[t.id] = SubSeq(allFiles, 1, t.k)
    BY <1>2, <1>4, <2>4 DEF IndInv, TypeInv
  <2>6. t.pc = "work" => t.k < nMap
    BY <2>1, <2>4, Sizes
  <2>7. t.pc = "report" => t.k = nMap
    BY <2>4
  <2> QED
    BY <2>5, <2>6, <2>7, WholeOfFiles
<1>5. TypeInv'
  BY <1>0, <1>1, <1>3, OneWorker DEF IndInv, TypeInv
<1>6. WorkerInv'
  <2> SUFFICES ASSUME NEW v \in Proc PROVE TaskOK(worker[v])'
    BY DEF WorkerInv
  <2>1. CASE v = w
    <3>1. worker'[v] = t
      BY <1>1, <2>1, OneWorker, Zenon
    <3>2. ReduceOK(t)'
      BY <1>0, <1>2, <1>4 DEF ReduceOK
    <3> QED
      BY <1>1, <3>1, <3>2 DEF TaskOK, MapOK, ReduceOK, holds
  <2>2. CASE v # w
    <3>1. worker'[v] = worker[v] /\ TaskOK(worker[v])
      BY <1>1, <2>2, OneWorker DEF IndInv, WorkerInv
    <3>2. late = {} /\ holds(worker[v], "Reduce") => worker[v].id # t.id /\ worker[v].id \in ReduceId
      <4>1. late = {} /\ holds(worker[v], "Reduce") => worker[v].id \in ReduceId
        BY <3>1 DEF TaskOK, ReduceOK
      <4>2. holds(worker[w], "Reduce") /\ t.id = worker[w].id
        BY <1>0, <1>1 DEF holds
      <4>3. late = {} => ~same(worker[v], worker[w])
        BY <2>2, Zenon DEF IndInv, HolderInv
      <4>4. holds(worker[v], "Reduce") /\ worker[v].id = worker[w].id => same(worker[v], worker[w])
        BY <4>2, Zenon DEF same
      <4> QED
        BY <4>1, <4>2, <4>3, <4>4, Zenon
    <3> QED
      BY <1>0, <1>3, <3>1, <3>2 DEF TaskOK, MapOK, ReduceOK
  <2> QED
    BY <2>1, <2>2
<1>7. HolderInv'
  BY <1>0, <1>1, HoldersKept, Zenon DEF holds
<1>8. FilesInv'
  BY <1>0 DEF IndInv, FilesInv
<1>9. ListInv'
  BY <1>0, <1>2, <1>3 DEF IndInv, ListInv
<1> QED
  BY <1>5, <1>6, <1>7, <1>8, <1>9 DEF IndInv

-----------------------------------------------------------------------------
(* The coordinator. *)

\* Done, and the calls that change nothing.
LEMMA QuietStep ==
  ASSUME IndInv, UNCHANGED <<phase, mapTasks, reduceTasks, worker, files, late, panics>>
  PROVE  IndInv'
<1>1. UNCHANGED <<inter, out>>
  BY DEF files
<1>2. TypeInv' /\ HolderInv' /\ FilesInv' /\ ListInv'
  BY <1>1 DEF IndInv, TypeInv, HolderInv, FilesInv, ListInv
<1>3. WorkerInv'
  BY <1>1 DEF IndInv, WorkerInv, TaskOK, MapOK, ReduceOK
<1> QED
  BY <1>2, <1>3 DEF IndInv

\* A task handed out.
LEMMA WorkFacts ==
  ASSUME NEW type, NEW id, NEW names
  PROVE  LET t == work(type, id, names)
         IN  /\ DOMAIN t = {"pc", "type", "id", "names", "k"}
             /\ t.pc = "work" /\ t.type = type /\ t.id = id /\ t.names = names /\ t.k = 0
  BY DEF work

\* When a task is handed out and no task was handed out twice, nobody had it.
LEMMA NotOvertaken ==
  ASSUME NEW type, NEW i, NEW id, overtake(type, i, id), late' = {}
  PROVE  late = {} /\ \A v \in Proc : ~(holds(worker[v], type) /\ worker[v].id = id)
  BY Zenon DEF overtake, held, holds

\* No two workers have the same task after w got one that nobody had.
LEMMA HoldersGrow ==
  ASSUME IndInv, NEW w \in Proc, NEW t, NEW type \in {"Map", "Reduce"},
         worker' = [worker EXCEPT ![w] = t], t.type = type,
         late' = {} => /\ late = {}
                       /\ \A v \in Proc : ~(holds(worker[v], type) /\ worker[v].id = t.id)
  PROVE  HolderInv'
<1> SUFFICES ASSUME late' = {}, NEW u \in Proc, NEW v \in Proc, same(worker'[u], worker'[v])
             PROVE  u = v
  BY Zenon DEF HolderInv
<1>1. \A x \in Proc : worker'[x] = IF x = w THEN t ELSE worker[x]
  BY OneWorker, Zenon
<1>2. \A x \in Proc \ {w} : ~same(worker[x], t) /\ ~same(t, worker[x])
  BY DEF same, holds
<1>3. CASE u # w /\ v # w
  BY <1>1, <1>3 DEF IndInv, HolderInv
<1>4. CASE u = w \/ v = w
  BY <1>1, <1>2, <1>4
<1> QED
  BY <1>3, <1>4

\* A map task is handed out.
LEMMA GetMapInv ==
  ASSUME IndInv, NEW w \in Proc, NEW m \in MapId,
         phase = "duringMap", findAvailableTask(mapTasks, m), overtake("Map", m, m),
         mapTasks' = [mapTasks EXCEPT ![m] = "InProgress"],
         worker' = [worker EXCEPT ![w] = work("Map", m, <<m>>)],
         UNCHANGED <<phase, reduceTasks, files, panics>>
  PROVE  IndInv'
<1> DEFINE t == work("Map", m, <<m>>)
<1>0. UNCHANGED <<inter, out>> /\ mapTasks[m] # "Completed"
  BY DEF files, findAvailableTask
<1>1. /\ DOMAIN t = {"pc", "type", "id", "names", "k"}
      /\ t.pc = "work" /\ t.type = "Map" /\ t.id = m /\ t.k = 0
  BY WorkFacts
<1> HIDE DEF t
<1>2. late' = {} => late = {} /\ \A v \in Proc : ~(holds(worker[v], "Map") /\ worker[v].id = m)
  BY NotOvertaken
<1>3. /\ mapTasks' \in [MapId -> {"Idle", "InProgress", "Completed"}]
      /\ mapTasks'[m] = "InProgress"
      /\ \A x \in MapId \ {m} : mapTasks'[x] = mapTasks[x]
  BY DEF IndInv, TypeInv
<1>4. worker' = [worker EXCEPT ![w] = t]
  BY DEF t
<1>5. TypeInv'
  BY <1>0, <1>3, <1>4, OneWorker DEF IndInv, TypeInv
<1>6. WorkerInv'
  <2> SUFFICES ASSUME NEW v \in Proc PROVE TaskOK(worker[v])'
    BY DEF WorkerInv
  <2>1. CASE v = w
    <3>1. worker'[v] = t
      BY <1>4, <2>1, OneWorker, Zenon
    <3>2. 0 \in Nat /\ 0 < nReduce /\ 1..0 = {}
      BY Sizes
    <3> QED
      BY <1>1, <1>3, <3>1, <3>2 DEF TaskOK, MapOK, ReduceOK, holds
  <2>2. CASE v # w
    <3>1. worker'[v] = worker[v] /\ TaskOK(worker[v])
      BY <1>4, <2>2, OneWorker DEF IndInv, WorkerInv
    <3>2. MapOK(worker[v])'
      BY <1>0, <1>2, <1>3, <3>1 DEF TaskOK, MapOK
    <3>3. ReduceOK(worker[v])'
      BY <3>1 DEF TaskOK, ReduceOK
    <3> QED
      BY <3>1, <3>2, <3>3 DEF TaskOK
  <2> QED
    BY <2>1, <2>2
<1>7. HolderInv'
  <2>1. /\ t.type = "Map"
        /\ late' = {} => /\ late = {}
                         /\ \A v \in Proc : ~(holds(worker[v], "Map") /\ worker[v].id = t.id)
    BY <1>1, <1>2
  <2> QED
    BY <1>4, <2>1, HoldersGrow, Zenon
<1>8. FilesInv'
  BY <1>0, <1>3 DEF IndInv, FilesInv
<1>9. ListInv'
  BY <1>2 DEF IndInv, ListInv
<1> QED
  BY <1>5, <1>6, <1>7, <1>8, <1>9 DEF IndInv

\* A reduce task is handed out.
LEMMA GetReduceInv ==
  ASSUME IndInv, NEW w \in Proc, NEW i \in DOMAIN reduceTasks,
         phase = "duringReduce",
         findAvailableTask([j \in DOMAIN reduceTasks |-> reduceTasks[j].State], i),
         overtake("Reduce", i, reduceTasks[i].Id),
         reduceTasks' = [reduceTasks EXCEPT ![i].State = "InProgress"],
         worker' = [worker EXCEPT ![w] = work("Reduce", reduceTasks[i].Id, reduceTasks[i].FileNames)],
         UNCHANGED <<phase, mapTasks, files, panics>>
  PROVE  IndInv'
<1> DEFINE t == work("Reduce", reduceTasks[i].Id, reduceTasks[i].FileNames)
<1>0. UNCHANGED <<inter, out>> /\ reduceTasks[i].State # "Completed"
  BY DEF files, findAvailableTask
<1>1. /\ DOMAIN t = {"pc", "type", "id", "names", "k"}
      /\ t.pc = "work" /\ t.type = "Reduce" /\ t.id = reduceTasks[i].Id
      /\ t.names = reduceTasks[i].FileNames /\ t.k = 0
  BY WorkFacts
<1>4. worker' = [worker EXCEPT ![w] = t]
  OBVIOUS
<1> HIDE DEF t
<1>2. PICK q : q = t
  OBVIOUS
<1>3. /\ DOMAIN q = {"pc", "type", "id", "names", "k"}
      /\ q.pc = "work" /\ q.type = "Reduce" /\ q.id = reduceTasks[i].Id
      /\ q.names = reduceTasks[i].FileNames /\ q.k = 0
      /\ worker' = [worker EXCEPT ![w] = q]
  BY <1>1, <1>2, <1>4, Zenon
<1>5. late' = {} => late = {} /\ \A v \in Proc : ~(holds(worker[v], "Reduce") /\ worker[v].id = q.id)
  BY <1>3, NotOvertaken
<1>6. ASSUME late' = {}
      PROVE  /\ q.id = i /\ i \in ReduceId /\ q.names = allFiles
             /\ reduceTasks' \in [ReduceId -> [Id : ReduceId, FileNames : {allFiles},
                                              State : {"Idle", "InProgress", "Completed"}]]
             /\ reduceTasks'[i].State = "InProgress"
             /\ \A r \in ReduceId : /\ reduceTasks'[r].Id = r
                                    /\ r # i => reduceTasks'[r] = reduceTasks[r]
  <2>1. /\ reduceTasks \in [ReduceId -> [Id : ReduceId, FileNames : {allFiles},
                                         State : {"Idle", "InProgress", "Completed"}]]
        /\ \A r \in ReduceId : reduceTasks[r].Id = r
    BY <1>5, <1>6 DEF IndInv, ListInv
  <2> QED
    BY <1>3, <2>1
<1>7. TypeInv'
  BY <1>0, <1>3, OneWorker DEF IndInv, TypeInv
<1>8. WorkerInv'
  <2> SUFFICES ASSUME NEW v \in Proc PROVE TaskOK(worker[v])'
    BY DEF WorkerInv
  <2>1. CASE v = w
    <3>1. worker'[v] = q
      BY <1>3, <2>1, OneWorker, Zenon
    <3>2. 0 \in Nat /\ 0 < nMap
      BY Sizes
    <3>3. ReduceOK(worker[v])'
      BY <1>3, <1>6, <3>1, <3>2 DEF ReduceOK
    <3> QED
      BY <1>3, <3>1, <3>2, <3>3 DEF TaskOK, MapOK, holds
  <2>2. CASE v # w
    <3>1. worker'[v] = worker[v] /\ TaskOK(worker[v])
      BY <1>3, <2>2, OneWorker DEF IndInv, WorkerInv
    <3>2. MapOK(worker[v])'
      BY <1>0, <1>5, <3>1 DEF TaskOK, MapOK
    <3>3. ReduceOK(worker[v])'
      BY <1>0, <1>5, <1>6, <3>1 DEF TaskOK, ReduceOK
    <3> QED
      BY <3>1, <3>2, <3>3 DEF TaskOK
  <2> QED
    BY <2>1, <2>2
<1>9. HolderInv'
  BY <1>3, <1>5, HoldersGrow, Zenon
<1>10. FilesInv'
  BY <1>0 DEF IndInv, FilesInv
<1>11. ListInv'
  BY <1>0, <1>5, <1>6 DEF IndInv, ListInv
<1> QED
  BY <1>7, <1>8, <1>9, <1>10, <1>11 DEF IndInv

\* HandleGetTaskRequest.
LEMMA GetTaskInv ==
  ASSUME IndInv, NEW w \in Proc, HandleGetTaskRequest(w)
  PROVE  IndInv'
<1>1. CASE phase = "duringMap"
  BY <1>1, GetMapInv, Zenon DEF HandleGetTaskRequest
<1>2. CASE phase = "duringReduce"
  BY <1>2, GetReduceInv, Zenon DEF HandleGetTaskRequest
<1>3. CASE phase = "finish"
  BY <1>3, DropStep DEF HandleGetTaskRequest
<1> QED
  BY <1>1, <1>2, <1>3 DEF HandleGetTaskRequest

\* What AssignReduceTasks makes of one idle task: the same task with the files.
LEMMA FilledTask ==
  ASSUME NEW r, NEW x, NEW y
  PROVE  [[Id |-> r, FileNames |-> x, State |-> "Idle"] EXCEPT !.FileNames = y, !.State = "Idle"] =
           [Id |-> r, FileNames |-> y, State |-> "Idle"]
<1>1. PICK u : u = [Id |-> r, FileNames |-> x, State |-> "Idle"]
  BY Zenon
<1>2. PICK v : v = [u EXCEPT !.FileNames = y, !.State = "Idle"]
  OBVIOUS
<1>3. u \in [Id : {r}, FileNames : {x, y}, State : {"Idle"}]
  BY <1>1
<1>4. v \in [Id : {r}, FileNames : {x, y}, State : {"Idle"}] /\ v.FileNames = y
  BY <1>2, <1>3, Zenon
<1>5. v = [Id |-> r, FileNames |-> y, State |-> "Idle"]
  BY <1>4
<1> QED
  BY <1>1, <1>2, <1>5, Zenon

\* The reduce tasks when the map phase ends: one for every output, with all the files.
LEMMA AssignFacts ==
  LET q == AssignReduceTasks(<<>> \o newReduceTasks)
  IN  /\ q \in [ReduceId -> [Id : ReduceId, FileNames : {allFiles},
                             State : {"Idle", "InProgress", "Completed"}]]
      /\ \A r \in ReduceId : q[r].Id = r /\ q[r].State = "Idle"
<1>1. newReduceTasks \in Seq([Id : ReduceId, FileNames : {<<>>}, State : {"Idle"}])
  BY Sizes DEF newReduceTasks
<1>2. <<>> \o newReduceTasks = newReduceTasks
  BY <1>1
<1>3. <<>> \o allFiles = allFiles
  BY Sizes
<1> DEFINE task(r) == [newReduceTasks[r] EXCEPT !.FileNames = newReduceTasks[r].FileNames \o allFiles,
                                                 !.State = "Idle"]
<1>4. ASSUME NEW r \in ReduceId
      PROVE  task(r) = [Id |-> r, FileNames |-> allFiles, State |-> "Idle"]
  <2>1. newReduceTasks[r] = [Id |-> r, FileNames |-> <<>>, State |-> "Idle"]
    BY DEF newReduceTasks
  <2>2. newReduceTasks[r].FileNames \o allFiles = allFiles
    BY <1>3, <2>1
  <2>3. [[Id |-> r, FileNames |-> <<>>, State |-> "Idle"] EXCEPT !.FileNames = allFiles, !.State = "Idle"] =
          [Id |-> r, FileNames |-> allFiles, State |-> "Idle"]
    BY FilledTask, Zenon
  <2> QED
    BY <2>1, <2>2, <2>3, Zenon
<1>5. DOMAIN newReduceTasks = ReduceId /\ \A r \in ReduceId : r <= nReduce
  BY Sizes DEF newReduceTasks
<1>6. AssignReduceTasks(newReduceTasks) = [r \in ReduceId |-> task(r)]
  BY <1>5, Zenon DEF AssignReduceTasks, allFiles
<1> HIDE DEF task
<1>7. AssignReduceTasks(newReduceTasks) = [r \in ReduceId |-> [Id |-> r, FileNames |-> allFiles, State |-> "Idle"]]
  BY <1>4, <1>6
<1> QED
  BY <1>2, <1>7

\* The report of a map task.
LEMMA DoneMapInv ==
  ASSUME IndInv, NEW w \in Proc, TaskDone(w), worker[w].type = "Map"
  PROVE  IndInv'
<1> DEFINE id == worker[w].id
<1>0. /\ worker[w].pc = "report" /\ TaskOK(worker[w]) /\ holds(worker[w], "Map")
      /\ mapTasks' = [mapTasks EXCEPT ![id] = "Completed"]
      /\ worker' = [worker EXCEPT ![w] = Waiting]
      /\ UNCHANGED <<inter, out, late, panics>>
  BY DEF TaskDone, notifyTaskDone, TaskDoneMap, files, IndInv, WorkerInv, holds
<1>1. \/ /\ \A m \in MapId : mapTasks'[m] = "Completed"
         /\ phase' = "duringReduce"
         /\ reduceTasks' = AssignReduceTasks(reduceTasks \o newReduceTasks)
      \/ /\ ~\A m \in MapId : mapTasks'[m] = "Completed"
         /\ UNCHANGED <<phase, reduceTasks>>
  BY <1>0 DEF TaskDone, TaskDoneMap, allMapTasksCompleted
<1>2. /\ id \in MapId
      /\ panics = 0 => worker[w].k = nReduce /\ \A r \in 1..worker[w].k : <<id, r>> \in inter
      /\ late = {} => mapTasks[id] = "InProgress"
  BY <1>0 DEF TaskOK, MapOK
<1>3. /\ mapTasks' \in [MapId -> {"Idle", "InProgress", "Completed"}]
      /\ mapTasks'[id] = "Completed"
      /\ \A m \in MapId \ {id} : mapTasks'[m] = mapTasks[m]
  BY <1>0, <1>2 DEF IndInv, TypeInv
<1>4. late = {} => phase = "duringMap" /\ reduceTasks = <<>>
  BY <1>2 DEF IndInv, FilesInv, ListInv
<1>5. phase # "duringMap" => phase' # "duringMap"
  BY <1>1
<1>6. TypeInv'
  BY <1>0, <1>1, <1>3, OneWorker DEF IndInv, TypeInv
<1>7. WorkerInv'
  <2> SUFFICES ASSUME NEW v \in Proc PROVE TaskOK(worker[v])'
    BY DEF WorkerInv
  <2>1. CASE v = w
    <3>1. worker'[v] = Waiting
      BY <1>0, <2>1, OneWorker, Zenon
    <3> QED
      BY <3>1, Idles DEF TaskOK, MapOK, ReduceOK
  <2>2. CASE v # w
    <3>1. worker'[v] = worker[v] /\ TaskOK(worker[v])
      BY <1>0, <2>2, OneWorker DEF IndInv, WorkerInv
    <3>2. late = {} => ~(holds(worker[v], "Map") /\ worker[v].id = id)
      BY <1>0, <2>2 DEF IndInv, HolderInv, same
    <3>3. MapOK(worker[v])'
      BY <1>0, <1>3, <3>1, <3>2 DEF TaskOK, MapOK
    <3>4. ReduceOK(worker[v])'
      BY <1>0, <1>4, <1>5, <3>1 DEF TaskOK, ReduceOK
    <3> QED
      BY <3>1, <3>3, <3>4 DEF TaskOK
  <2> QED
    BY <2>1, <2>2
<1>8. HolderInv'
  BY <1>0, HoldersKept, Idles, Zenon
<1>9. FilesInv'
  <2>1. panics = 0 => \A r \in ReduceId : <<id, r>> \in inter
    BY <1>2, Sizes
  <2> QED
    BY <1>0, <1>1, <1>3, <2>1 DEF IndInv, FilesInv
<1>10. ListInv'
  <2> SUFFICES ASSUME late = {} PROVE ListInv'
    BY <1>0 DEF ListInv
  <2>1. phase = "duringMap" /\ reduceTasks = <<>>
    BY <1>4
  <2>2. CASE phase' = "duringReduce" /\ reduceTasks' = AssignReduceTasks(<<>> \o newReduceTasks)
    BY <2>2, AssignFacts DEF ListInv
  <2>3. CASE UNCHANGED <<phase, reduceTasks>>
    BY <2>1, <2>3 DEF ListInv
  <2> QED
    BY <1>1, <2>1, <2>2, <2>3
<1> QED
  BY <1>6, <1>7, <1>8, <1>9, <1>10 DEF IndInv

\* The report of a reduce task.
LEMMA DoneReduceInv ==
  ASSUME IndInv, NEW w \in Proc, TaskDone(w), worker[w].type # "Map"
  PROVE  IndInv'
<1> DEFINE id == worker[w].id
           first == CHOOSE i \in DOMAIN reduceTasks :
                      /\ reduceTasks[i].Id = id
                      /\ \A j \in 1..(i - 1) : reduceTasks[j].Id # id
<1>0. /\ worker[w].pc = "report" /\ TaskOK(worker[w]) /\ holds(worker[w], "Reduce")
      /\ reduceTasks' = [reduceTasks EXCEPT ![first].State = "Completed"]
      /\ phase' = IF \A i \in DOMAIN reduceTasks' : reduceTasks'[i].State = "Completed"
                    THEN "finish" ELSE phase
      /\ worker' = [worker EXCEPT ![w] = Waiting]
      /\ UNCHANGED <<mapTasks, inter, out, late, panics>>
  <2>1. worker[w].pc = "report" /\ TaskOK(worker[w])
    BY Zenon DEF TaskDone, notifyTaskDone, IndInv, WorkerInv
  <2>2. holds(worker[w], "Reduce")
    BY <2>1 DEF TaskOK, holds
  <2> QED
    BY <2>1, <2>2, Zenon DEF TaskDone, notifyTaskDone, TaskDoneReduce, files
<1>1. /\ phase # "duringMap"
      /\ late = {} => id \in ReduceId /\ (panics = 0 => out[id] = allFiles)
  BY <1>0 DEF TaskOK, ReduceOK
<1>2. phase' \in {"duringReduce", "finish"}
  BY <1>0, <1>1 DEF IndInv, TypeInv
<1>3. ASSUME late = {}
      PROVE  /\ reduceTasks' \in [ReduceId -> [Id : ReduceId, FileNames : {allFiles},
                                              State : {"Idle", "InProgress", "Completed"}]]
             /\ reduceTasks'[id].State = "Completed"
             /\ \A r \in ReduceId : /\ reduceTasks'[r].Id = r
                                    /\ r # id => reduceTasks'[r] = reduceTasks[r]
  <2>1. /\ reduceTasks \in [ReduceId -> [Id : ReduceId, FileNames : {allFiles},
                                         State : {"Idle", "InProgress", "Completed"}]]
        /\ \A r \in ReduceId : reduceTasks[r].Id = r
    BY <1>1, <1>3 DEF IndInv, ListInv
  <2>2. first = id
    <3>1. DOMAIN reduceTasks = ReduceId /\ id \in ReduceId
      BY <1>1, <1>3, <2>1
    <3>2. \A j \in 1..(id - 1) : j \in ReduceId /\ j # id
      BY <3>1, Sizes
    <3>3. \A j \in 1..(id - 1) : reduceTasks[j].Id # id
      BY <2>1, <3>2
    <3>4. \A i \in DOMAIN reduceTasks : reduceTasks[i].Id = id => i = id
      BY <2>1, <3>1
    <3> QED
      BY <2>1, <3>1, <3>3, <3>4
  <2> HIDE DEF first
  <2>3. reduceTasks' = [reduceTasks EXCEPT ![id].State = "Completed"] /\ id \in ReduceId
    BY <1>0, <1>1, <1>3, <2>2
  <2> HIDE DEF id
  <2> QED
    BY <2>1, <2>3
<1> HIDE DEF first
<1>4. TypeInv'
  BY <1>0, <1>2, OneWorker DEF IndInv, TypeInv
<1>5. WorkerInv'
  <2> SUFFICES ASSUME NEW v \in Proc PROVE TaskOK(worker[v])'
    BY DEF WorkerInv
  <2>1. CASE v = w
    <3>1. worker'[v] = Waiting
      BY <1>0, <2>1, OneWorker, Zenon
    <3> QED
      BY <3>1, Idles DEF TaskOK, MapOK, ReduceOK
  <2>2. CASE v # w
    <3>1. worker'[v] = worker[v] /\ TaskOK(worker[v])
      BY <1>0, <2>2, OneWorker DEF IndInv, WorkerInv
    <3>2. late = {} => ~(holds(worker[v], "Reduce") /\ worker[v].id = id)
      BY <1>0, <2>2 DEF IndInv, HolderInv, same
    <3>3. MapOK(worker[v])'
      BY <1>0, <3>1 DEF TaskOK, MapOK
    <3>4. ReduceOK(worker[v])'
      BY <1>0, <1>2, <1>3, <3>1, <3>2 DEF TaskOK, ReduceOK
    <3> QED
      BY <3>1, <3>3, <3>4 DEF TaskOK
  <2> QED
    BY <2>1, <2>2
<1>6. HolderInv'
  BY <1>0, HoldersKept, Idles, Zenon
<1>7. FilesInv'
  BY <1>0, <1>1 DEF IndInv, FilesInv
<1>8. ListInv'
  <2> SUFFICES ASSUME late = {} PROVE ListInv'
    BY <1>0 DEF ListInv
  <2>1. panics = 0 => \A r \in ReduceId : reduceTasks'[r].State = "Completed" => out[r] = allFiles
    BY <1>1, <1>3 DEF IndInv, ListInv
  <2>2. phase' = "finish" => \A r \in ReduceId : reduceTasks'[r].State = "Completed"
    <3>1. CASE \A i \in DOMAIN reduceTasks' : reduceTasks'[i].State = "Completed"
      BY <1>3, <3>1
    <3>2. CASE ~\A i \in DOMAIN reduceTasks' : reduceTasks'[i].State = "Completed"
      BY <1>0, <1>3, <3>2 DEF IndInv, ListInv
    <3> QED
      BY <3>1, <3>2
  <2> QED
    BY <1>0, <1>2, <1>3, <2>1, <2>2 DEF ListInv
<1> QED
  BY <1>4, <1>5, <1>6, <1>7, <1>8 DEF IndInv

-----------------------------------------------------------------------------
(* The theorems. *)

\* A job that has just been made.
LEMMA InitInv ==
  ASSUME Init
  PROVE  IndInv
<1>1. TypeInv
  BY DEF Init, TypeInv
<1>2. \A w \in Proc : worker[w] = Gone
  BY DEF Init
<1>3. WorkerInv
  BY <1>2, Idles DEF WorkerInv, TaskOK, MapOK, ReduceOK
<1>4. HolderInv
  BY <1>2, Idles DEF HolderInv, same
<1>5. FilesInv /\ ListInv
  BY DEF Init, FilesInv, ListInv
<1> QED
  BY <1>1, <1>3, <1>4, <1>5 DEF IndInv

\* Every step keeps the invariant.
LEMMA NextInv ==
  ASSUME IndInv, [Next]_vars
  PROVE  IndInv'
<1>1. CASE UNCHANGED vars \/ Done
  BY <1>1, QuietStep DEF vars, Done, files
<1>2. ASSUME NEW w \in Proc, StartWorker(w) \/ Crash(w) \/ GiveUp(w) \/ Fatal(w)
      PROVE  IndInv'
  BY <1>2, DropStep DEF StartWorker, Crash, GiveUp, Fatal, coordinator
<1> QED
  BY <1>1, <1>2, GetTaskInv, DoneMapInv, DoneReduceInv, HandleMapInv, HandleReduceInv, RecoverInv
     DEF Next, Steps

\* The invariant of the coordinator, the workers and the files.
THEOREM MapReduceInvariance == Spec => []IndInv
<1>1. IndInv /\ [Next]_vars => IndInv'
  BY NextInv
<1> QED
  BY <1>1, InitInv, PTL DEF Spec

\* All the files that the reduce tasks read are there in the reduce phase, whoever was slow
\* or crashed between two renames.
THEOREM ReduceInputsThere == Spec => []InputsThere
<1>1. IndInv => InputsThere
  BY DEF IndInv, TypeInv, FilesInv, InputsThere
<1> QED
  BY <1>1, MapReduceInvariance, PTL

\* A finished job has the outputs of the sequential program.
THEOREM OutputsSequential == Spec => []OutputComplete
<1>1. ASSUME IndInv, phase = "finish", late = {}, panics = 0
      PROVE  out = sequential
  <2>1. \A r \in ReduceId : out[r] = allFiles
    BY <1>1 DEF IndInv, ListInv
  <2>2. out = [r \in ReduceId |-> out[r]]
    BY <1>1 DEF IndInv, TypeInv
  <2> QED
    BY <2>1, <2>2 DEF sequential, allFiles
<1>2. IndInv => OutputComplete
  BY <1>1 DEF OutputComplete
<1> QED
  BY <1>2, MapReduceInvariance, PTL
=============================================================================
