----------------------------- MODULE AsyncTask -----------------------------
(***************************************************************************)
(* android.os.AsyncTask as the tasks of this application use it: execute() *)
(* on the main thread, one background thread that takes the tasks one at a *)
(* time (SERIAL_EXECUTOR), publishProgress and the result, which go through *)
(* the main looper, a FIFO queue of messages, and the callbacks that the   *)
(* main thread runs for them.  The framework is not part of the repository; *)
(* its two task classes extend it and MainActivity calls execute().         *)
(*                                                                         *)
(* The operators here are the steps of the framework; the modules of the   *)
(* tasks say when they are taken and what the tasks do in them.             *)
(***************************************************************************)
EXTENDS Integers, Sequences

CONSTANT MaxTasks  \* bound: execute() calls in one behaviour

ASSUME AsyncTaskAssumption == MaxTasks \in Nat

VARIABLES
  submitted,  \* number of execute() calls; a task is named by its number
  queue,      \* the tasks the executor has not started
  active,     \* the tasks whose doInBackground runs
  looper,     \* messages posted to the main thread
  reported,   \* history: tasks whose onPostExecute ran, with their results
  lost        \* history: tasks that died with their process

taskVars == <<submitted, queue, active, looper, reported, lost>>

Tasks == 1..MaxTasks

(* A message carries either the value of a publishProgress or the result    *)
(* of doInBackground.                                                       *)
Progress(t, value) == [task |-> t, result |-> FALSE, value |-> value]
Result(t, value) == [task |-> t, result |-> TRUE, value |-> value]

InitTasks ==
  /\ submitted = 0 /\ queue = << >> /\ active = {}
  /\ looper = << >> /\ reported = << >> /\ lost = {}

(* The task the next execute() names. *)
NewTask == submitted + 1

Execute ==
  /\ submitted < MaxTasks
  /\ submitted' = NewTask
  /\ queue' = Append(queue, NewTask)
  /\ UNCHANGED <<active, looper, reported, lost>>

(* Mutant: THREAD_POOL_EXECUTOR, which starts a task at once. *)
StartParallel ==
  /\ queue # << >>
  /\ active' = active \cup {Head(queue)}
  /\ queue' = Tail(queue)
  /\ UNCHANGED <<submitted, looper, reported, lost>>

(* SERIAL_EXECUTOR.scheduleNext: the next task when none runs. *)
Start ==
  /\ active = {} /\ queue # << >>
  /\ active' = {Head(queue)}
  /\ queue' = Tail(queue)
  /\ UNCHANGED <<submitted, looper, reported, lost>>

Publish(t, value) ==
  /\ t \in active
  /\ looper' = Append(looper, Progress(t, value))
  /\ UNCHANGED <<submitted, queue, active, reported, lost>>

(* Mutant: the result is delivered ahead of the messages already posted. *)
FinishOvertakes(t, value) ==
  /\ t \in active
  /\ looper' = <<Result(t, value)>> \o looper
  /\ active' = active \ {t}
  /\ UNCHANGED <<submitted, queue, reported, lost>>

(* Mutant: a task that ends never posts its result. *)
FinishSilent(t, value) ==
  /\ t \in active
  /\ active' = active \ {t}
  /\ UNCHANGED <<submitted, queue, looper, reported, lost>>

(* doInBackground returns: the result is posted, then the thread is free. *)
Finish(t, value) ==
  /\ t \in active
  /\ looper' = Append(looper, Result(t, value))
  /\ active' = active \ {t}
  /\ UNCHANGED <<submitted, queue, reported, lost>>

Message == Head(looper)

(* The main thread handles the oldest message: onProgressUpdate ...  *)
HandleProgress ==
  /\ looper # << >> /\ ~Message.result
  /\ looper' = Tail(looper)
  /\ UNCHANGED <<submitted, queue, active, reported, lost>>

(* ... or onPostExecute. *)
HandleResult ==
  /\ looper # << >> /\ Message.result
  /\ looper' = Tail(looper)
  /\ reported' = Append(reported, [task |-> Message.task, value |-> Message.value])
  /\ UNCHANGED <<submitted, queue, active, lost>>

(* The tasks whose result is on its way to the main thread. *)
Finished == {looper[k].task : k \in {j \in DOMAIN looper : looper[j].result}}

Queued == {queue[k] : k \in DOMAIN queue}

Pending == Queued \cup active \cup Finished

(* The process dies: only the history remembers its tasks. *)
KillTasks ==
  /\ queue' = << >> /\ active' = {} /\ looper' = << >>
  /\ lost' = lost \cup Pending
  /\ UNCHANGED <<submitted, reported>>

-----------------------------------------------------------------------------
TasksTypeOK ==
  /\ submitted \in 0..MaxTasks
  /\ queue \in Seq(Tasks)
  /\ active \subseteq Tasks
  /\ \A k \in DOMAIN looper : looper[k].task \in Tasks /\ looper[k].result \in BOOLEAN
  /\ \A k \in DOMAIN reported : reported[k].task \in Tasks
  /\ lost \subseteq Tasks

IsReported(t) == \E k \in DOMAIN reported : reported[k].task = t

Answers == [k \in DOMAIN reported |-> reported[k].task]

Service == INSTANCE TaskService WITH pending <- Pending, answered <- Answers

(* The tasks are answered in the order of the taps, at most once and, the   *)
(* process being killed or not, never after a later one: the queue of       *)
(* SERIAL_EXECUTOR and the looper together behave like one FIFO queue.      *)
ServiceSpec == Service!Spec

=============================================================================
