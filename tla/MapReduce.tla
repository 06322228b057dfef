------------------------------ MODULE MapReduce ------------------------------
(***************************************************************************)
(* MapReduce (src/src/mr): a coordinator that hands out the map tasks and   *)
(* then the reduce tasks, workers that ask for them, and the files they     *)
(* leave behind.                                                            *)
(*                                                                         *)
(* The coordinator's handlers hold c.mu from start to end.  A task whose    *)
(* worker has had it for TaskTimeout is handed out again, whether the       *)
(* worker is dead or slow.  A file appears when its temporary file is       *)
(* renamed.  mr-m-r holds what map task m emitted for reduce task r, so     *)
(* what an output mr-out-r was made from is the sequence of map tasks whose *)
(* files its worker had read.                                               *)
(***************************************************************************)
EXTENDS Integers, Sequences, FiniteSets

CONSTANTS nMap, nReduce,
          Proc,        \* the worker processes
          MaxExits,    \* bound: workers that crash, or give up waiting
          MaxLate,     \* bound: tasks handed out again although their worker lives
          MaxPanics    \* bound: workers that panic in the middle of a task

ASSUME SizeAssumption ==
  /\ nMap \in Nat \ {0} /\ nReduce \in Nat \ {0}
  /\ {MaxExits, MaxLate, MaxPanics} \subseteq Nat

VARIABLES phase,
          mapTasks,      \* the states of the map tasks
          reduceTasks,   \* the reduce tasks: Id, FileNames (by map task), State
          worker,        \* what every process is doing
          inter,         \* the files mr-m-r that exist
          out,           \* what every mr-out-r was made from, <<>> if it is not there
          up,            \* the coordinator process runs
          exits, late, panics

coordinator == <<phase, mapTasks, reduceTasks, up>>
files == <<inter, out>>
vars == <<phase, mapTasks, reduceTasks, up, worker, inter, out, exits, late, panics>>

MapId == 1..nMap
ReduceId == 1..nReduce

\* No process, and a process between two tasks.
Gone == [pc |-> "gone", type |-> "", id |-> 0, names |-> <<>>, k |-> 0]
Waiting == [Gone EXCEPT !.pc = "wait"]

\* A worker calls the coordinator, for a task or with a report.
CallGetTask(w) == worker[w] = Waiting /\ up
notifyTaskDone(w) == worker[w].pc = "report" /\ up

-----------------------------------------------------------------------------
(* The coordinator. *)

\* Does a living worker have the task?
held(type, id) ==
  \E w \in Proc : worker[w].pc \in {"work", "report"} /\ worker[w].type = type /\ worker[w].id = id

\* Mutant: a task is handed out once.
findIdleTask(states, i) ==
  /\ states[i] = "Idle"
  /\ \A j \in 1..(i - 1) : states[j] # "Idle"

\* The i-th task is handed out: it is idle or has timed out, and no earlier one is.
findAvailableTask(states, i) ==
  /\ states[i] \in {"Idle", "InProgress"}
  /\ \A j \in 1..(i - 1) : states[j] # "Idle"

\* A task whose worker lives is handed out again only so often.
overtake(type, i, id) ==
  IF held(type, id) THEN Cardinality(late) < MaxLate /\ late' = late \cup {<<type, i>>}
                    ELSE UNCHANGED late

work(type, id, names) == [pc |-> "work", type |-> type, id |-> id, names |-> names, k |-> 0]

\* A worker is answered with a task.  (An answer without one changes nothing.)
HandleGetTaskRequest(w) ==
  /\ CallGetTask(w)
  /\ \/ /\ phase = "duringMap"
        /\ \E m \in MapId :
             /\ findAvailableTask(mapTasks, m)
             /\ overtake("Map", m, m)
             /\ mapTasks' = [mapTasks EXCEPT ![m] = "InProgress"]
             /\ worker' = [worker EXCEPT ![w] = work("Map", m, <<m>>)]
             /\ UNCHANGED reduceTasks
     \/ /\ phase = "duringReduce"
        /\ \E i \in DOMAIN reduceTasks :
             LET t == reduceTasks[i]
             IN  /\ findAvailableTask([j \in DOMAIN reduceTasks |-> reduceTasks[j].State], i)
                 /\ overtake("Reduce", i, t.Id)
                 /\ reduceTasks' = [reduceTasks EXCEPT ![i].State = "InProgress"]
                 /\ worker' = [worker EXCEPT ![w] = work("Reduce", t.Id, t.FileNames)]
                 /\ UNCHANGED mapTasks
     \/ /\ phase = "finish"
        /\ worker' = [worker EXCEPT ![w] = Gone]
        /\ UNCHANGED <<mapTasks, reduceTasks, late>>
  /\ UNCHANGED <<phase, up, files, exits, panics>>

newReduceTasks == [r \in ReduceId |-> [Id |-> r, FileNames |-> <<>>, State |-> "Idle"]]

\* The files of the first nReduce tasks, which become idle.
AssignReduceTasks(tasks) ==
  [i \in DOMAIN tasks |->
     IF i <= nReduce
       THEN [tasks[i] EXCEPT !.FileNames = tasks[i].FileNames \o [m \in MapId |-> m],
                             !.State = "Idle"]
       ELSE tasks[i]]

\* Mutant: the first report ends the map phase.
someMapTaskCompleted(states) == \E m \in MapId : states[m] = "Completed"

allMapTasksCompleted(states) == \A m \in MapId : states[m] = "Completed"

\* Every report that finds all map tasks completed starts the reduce phase.
TaskDoneMap(id) ==
  LET states == [mapTasks EXCEPT ![id] = "Completed"]
  IN  /\ mapTasks' = states
      /\ IF allMapTasksCompleted(states)
           THEN /\ phase' = "duringReduce"
                /\ reduceTasks' = AssignReduceTasks(reduceTasks \o newReduceTasks)
           ELSE UNCHANGED <<phase, reduceTasks>>

\* The first task with that id is completed.
TaskDoneReduce(id) ==
  LET first == CHOOSE i \in DOMAIN reduceTasks :
                 /\ reduceTasks[i].Id = id
                 /\ \A j \in 1..(i - 1) : reduceTasks[j].Id # id
      tasks == [reduceTasks EXCEPT ![first].State = "Completed"]
  IN  /\ reduceTasks' = tasks
      /\ phase' = IF \A i \in DOMAIN tasks : tasks[i].State = "Completed" THEN "finish" ELSE phase
      /\ UNCHANGED mapTasks

\* Whether the task succeeded is in the request and not looked at.
TaskDone(w) ==
  /\ notifyTaskDone(w)
  /\ IF worker[w].type = "Map" THEN TaskDoneMap(worker[w].id) ELSE TaskDoneReduce(worker[w].id)
  /\ worker' = [worker EXCEPT ![w] = Waiting]
  /\ UNCHANGED <<up, files, exits, late, panics>>

\* main/mrcoordinator.go sees that the job is done, and ends the process.
Done ==
  /\ up
  /\ phase = "finish"
  /\ up' = FALSE
  /\ UNCHANGED <<phase, mapTasks, reduceTasks, worker, files, exits, late, panics>>

-----------------------------------------------------------------------------
(* The workers. *)

StartWorker(w) ==
  /\ worker[w] = Gone
  /\ up
  /\ worker' = [worker EXCEPT ![w] = Waiting]
  /\ UNCHANGED <<coordinator, files, exits, late, panics>>

progress(w) ==
  worker' = [worker EXCEPT ![w].k = worker[w].k + 1,
                           ![w].pc = IF worker[w].k + 1 = (IF worker[w].type = "Map" THEN nReduce
                                                           ELSE Len(worker[w].names))
                                       THEN "report" ELSE "work"]

\* Mutant: all but the last of the files are renamed before the report.
renameBut(w) ==
  inter' = inter \cup {<<worker[w].id, worker[w].k>>}

\* The temporary file for the next reduce task gets its name.
rename(w) == inter' = inter \cup {<<worker[w].id, worker[w].k + 1>>}

HandleMapTask(w) ==
  /\ worker[w].pc = "work"
  /\ worker[w].type = "Map"
  /\ rename(w)
  /\ progress(w)
  /\ UNCHANGED <<coordinator, out, exits, late, panics>>

\* The next input file is read, and the output for all that was read so far written and
\* renamed to mr-out-r.  Without the file the worker panics, recovers and reports.
HandleReduceTask(w) ==
  LET t == worker[w]
  IN  /\ t.pc = "work"
      /\ t.type = "Reduce"
      /\ IF t.names = <<>> \/ <<t.names[t.k + 1], t.id>> \notin inter
           THEN /\ worker' = [worker EXCEPT ![w].pc = "report"]
                /\ UNCHANGED out
           ELSE /\ out' = [out EXCEPT ![t.id] = SubSeq(t.names, 1, t.k + 1)]
                /\ progress(w)
      /\ UNCHANGED <<coordinator, inter, exits, late, panics>>

\* The map or the reduce function panics, or a write fails; the deferred function
\* recovers and reports all the same.
Recover(w) ==
  /\ worker[w].pc = "work"
  /\ panics < MaxPanics
  /\ panics' = panics + 1
  /\ worker' = [worker EXCEPT ![w].pc = "report"]
  /\ UNCHANGED <<coordinator, files, exits, late>>

\* The process dies (maybeCrash of mrapps/crash.go, or any other way) before it has reported.
Crash(w) ==
  /\ worker[w].pc \in {"work", "report"}
  /\ exits < MaxExits
  /\ exits' = exits + 1
  /\ worker' = [worker EXCEPT ![w] = Gone]
  /\ UNCHANGED <<coordinator, files, late, panics>>

\* The timer of Worker: no task for ten seconds, or one that took longer than that (the
\* tick stays in timer.C when the timer is reset).
GiveUp(w) ==
  /\ worker[w] = Waiting
  /\ exits < MaxExits
  /\ exits' = exits + 1
  /\ worker' = [worker EXCEPT ![w] = Gone]
  /\ UNCHANGED <<coordinator, files, late, panics>>

\* call cannot reach the coordinator: log.Fatal.
Fatal(w) ==
  /\ worker[w].pc \in {"wait", "report"}
  /\ ~up
  /\ worker' = [worker EXCEPT ![w] = Gone]
  /\ UNCHANGED <<coordinator, files, exits, late, panics>>

-----------------------------------------------------------------------------

\* MakeCoordinator.
Init ==
  /\ phase = "duringMap"
  /\ mapTasks = [m \in MapId |-> "Idle"]
  /\ reduceTasks = <<>>
  /\ worker = [w \in Proc |-> Gone]
  /\ inter = {}
  /\ out = [r \in ReduceId |-> <<>>]
  /\ up = TRUE
  /\ exits = 0 /\ late = {} /\ panics = 0

Steps(w) == HandleGetTaskRequest(w) \/ TaskDone(w) \/ HandleMapTask(w) \/ HandleReduceTask(w)

Next ==
  \/ Done
  \/ \E w \in Proc : Steps(w) \/ StartWorker(w) \/ Recover(w) \/ Crash(w) \/ GiveUp(w) \/ Fatal(w)

\* A worker that lives goes on, and workers are started as long as the coordinator runs
\* (main/test-mr.sh, the crash test).
Fairness == WF_vars(Done) /\ \A w \in Proc : WF_vars(Steps(w)) /\ WF_vars(StartWorker(w))

Spec == Init /\ [][Next]_vars /\ Fairness

-----------------------------------------------------------------------------
(* Properties. *)

\* main/mrsequential.go: every key is reduced with what Map made of all the input files, in
\* their order.
sequential == [r \in ReduceId |-> [m \in MapId |-> m]]

\* Once the job is finished the outputs are those of the sequential program: each made from
\* the files of all map tasks, each once, whatever workers crashed where, unless a worker
\* panicked (its report counts as success) or a task was handed out while its worker lived.
OutputComplete ==
  (phase = "finish" /\ late = {} /\ panics = 0) => out = sequential

\* In the reduce phase all the files the reduce tasks read are there, also with workers
\* that are slow or crash between two renames: no reduce task panics for want of a file.
InputsThere == (phase # "duringMap" /\ panics = 0) => inter = MapId \X ReduceId

\* The job ends, whatever workers crash, give up or panic, unless a map task was handed
\* out a second time while its worker lived (whose report starts the reduce phase again,
\* with tasks nobody can complete).
JobFinishes == [](\A l \in late : l[1] # "Map") => <>~up
=============================================================================
