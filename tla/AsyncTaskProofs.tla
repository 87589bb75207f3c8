--------------------------- MODULE AsyncTaskProofs ---------------------------
(***************************************************************************)
(* The serial executor and the looper together are the FIFO service of     *)
(* TaskService, for any number of tasks, of progress messages and of       *)
(* results: the steps every task module is built from implement its steps. *)
(***************************************************************************)
EXTENDS AsyncTask, SequenceTheorems, TLAPS

(* What the two task classes publish and return. *)
Values == Nat \cup {"created", "success", "unreachable", "sendError", "nativeError"}

Messages == [task : Nat, result : BOOLEAN, value : Values]

(* A step of the framework, whatever the tasks publish and return. *)
FrameworkNext ==
  \/ Execute \/ Start
  \/ \E t \in Tasks, value \in Values : Publish(t, value) \/ Finish(t, value)
  \/ HandleProgress \/ HandleResult \/ KillTasks

FrameworkType ==
  /\ submitted \in Nat /\ submitted <= MaxTasks /\ active \subseteq Nat
  /\ queue \in Seq(Nat) /\ looper \in Seq(Messages)
  /\ reported \in Seq([task : Nat, value : Values])
  /\ \A t \in Pending : 1 <= t /\ t <= submitted

Results == {k \in DOMAIN looper : looper[k].result}

(* Along the looper, the running task and the queue, tasks only grow: this  *)
(* order is what makes the result at the head the oldest pending task.      *)
(* It is inductive only because at most one task runs.                      *)
InOrder ==
  /\ \A t, u \in active : t = u
  /\ \A j, k \in DOMAIN queue : j < k => queue[j] < queue[k]
  /\ \A t \in active, k \in DOMAIN queue : t < queue[k]
  /\ \A j, k \in Results : j < k => looper[j].task < looper[k].task
  /\ \A j \in Results : \A t \in active \cup Queued : looper[j].task < t

FrameworkInv == FrameworkType /\ InOrder

-----------------------------------------------------------------------------
(* Sequences as the executor and the looper use them. *)

LEMMA AppendIndices ==
  ASSUME NEW S, NEW s \in Seq(S), NEW e \in S, NEW r, r = Append(s, e)
  PROVE  /\ r \in Seq(S)
         /\ DOMAIN s = 1..Len(s) /\ Len(s) \in Nat
         /\ DOMAIN r = 1..(Len(s) + 1)
         /\ \A k \in DOMAIN s : r[k] = s[k]
         /\ r[Len(s) + 1] = e
BY AppendProperties, LenProperties

LEMMA TailIndices ==
  ASSUME NEW S, NEW s \in Seq(S), s # << >>, NEW r, r = Tail(s)
  PROVE  /\ r \in Seq(S) /\ Head(s) \in S
         /\ DOMAIN s = 1..Len(s) /\ Len(s) \in Nat \ {0}
         /\ DOMAIN r = 1..(Len(s) - 1)
         /\ \A k \in DOMAIN r : r[k] = s[k + 1]
         /\ Head(s) = s[1]
BY HeadTailProperties, LenProperties, EmptySeq

-----------------------------------------------------------------------------
(* Every task the framework holds is a number up to `submitted`. *)
LEMMA HeldTasks ==
  ASSUME FrameworkInv
  PROVE  /\ \A k \in DOMAIN queue : queue[k] \in Nat /\ queue[k] \in Queued
         /\ \A k \in DOMAIN looper : looper[k] \in Messages /\ looper[k].task \in Nat
         /\ \A k \in Results : looper[k].task \in Finished
         /\ \A t \in Pending : t \in Nat /\ t <= submitted /\ t \in Tasks
<1>1. \A k \in DOMAIN queue : queue[k] \in Nat /\ queue[k] \in Queued
  BY ElementOfSeq, LenProperties DEF FrameworkInv, FrameworkType, Queued
<1>2. \A k \in DOMAIN looper : looper[k] \in Messages
  BY ElementOfSeq, LenProperties DEF FrameworkInv, FrameworkType
<1>3. \A k \in DOMAIN looper : looper[k].task \in Nat
  BY <1>2 DEF Messages
<1>4. \A k \in Results : looper[k].task \in Finished
  BY DEF Results, Finished
<1>5. \A t \in Pending : t \in Nat
  BY <1>1, <1>3 DEF Pending, Queued, Finished, FrameworkInv, FrameworkType
<1>6. \A t \in Pending : t \in Tasks
  BY <1>5, AsyncTaskAssumption DEF FrameworkInv, FrameworkType, Tasks
<1>7. QED
  BY <1>1, <1>2, <1>3, <1>4, <1>5, <1>6 DEF FrameworkInv, FrameworkType

-----------------------------------------------------------------------------
LEMMA FrameworkInit == InitTasks => FrameworkInv /\ Service!Init
<1> SUFFICES ASSUME InitTasks PROVE FrameworkInv /\ Service!Init
  OBVIOUS
<1>1. /\ << >> \in Seq(Nat) /\ << >> \in Seq(Messages)
      /\ << >> \in Seq([task : Nat, value : Values])
      /\ DOMAIN << >> = {}
  OBVIOUS
<1>2. Queued = {} /\ Finished = {} /\ Pending = {} /\ Results = {}
  BY <1>1 DEF InitTasks, Queued, Finished, Pending, Results
<1>3. FrameworkInv
  BY <1>1, <1>2, AsyncTaskAssumption DEF InitTasks, FrameworkInv, FrameworkType, InOrder
<1>4. [k \in DOMAIN reported |-> reported[k].task] = << >>
  BY <1>1 DEF InitTasks
<1>5. QED
  BY <1>2, <1>3, <1>4 DEF InitTasks, Service!Init, Answers

(* What each step does to the queue, the looper and the pending tasks.      *)
LEMMA ExecuteStep ==
  ASSUME FrameworkInv, Execute
  PROVE  /\ FrameworkInv' /\ Service!Submit
         /\ Queued' = Queued \cup {submitted + 1} /\ Finished' = Finished
<1>1. /\ submitted \in Nat /\ submitted' = submitted + 1 /\ submitted < MaxTasks
      /\ queue' = Append(queue, submitted + 1) /\ queue \in Seq(Nat)
      /\ UNCHANGED <<active, looper, reported, lost>>
  BY DEF FrameworkInv, FrameworkType, Execute, NewTask
<1>2. /\ queue' \in Seq(Nat) /\ DOMAIN queue = 1..Len(queue) /\ Len(queue) \in Nat
      /\ DOMAIN queue' = 1..(Len(queue) + 1)
      /\ \A k \in DOMAIN queue : queue'[k] = queue[k]
      /\ queue'[Len(queue) + 1] = submitted + 1
  BY <1>1, AppendIndices
<1>3. Queued' = Queued \cup {submitted + 1} /\ Finished' = Finished /\ Results' = Results
  BY <1>1, <1>2 DEF Queued, Finished, Results
<1>4. Pending' = Pending \cup {submitted + 1}
  BY <1>1, <1>3 DEF Pending
<1>5. \A t \in Pending : t <= submitted /\ t \in Nat
  BY HeldTasks
<1>6. FrameworkType'
  BY <1>1, <1>2, <1>4, <1>5, AsyncTaskAssumption DEF FrameworkInv, FrameworkType
<1>7. InOrder'
  <2>1. \A t \in active : t < submitted + 1
    BY <1>1, <1>5 DEF Pending
  <2>2. \A k \in DOMAIN queue : queue[k] < submitted + 1
    BY <1>1, <1>5, HeldTasks DEF Pending
  <2>3. \A j \in Results : looper[j].task < submitted + 1
    BY <1>1, <1>5, HeldTasks DEF Pending
  <2>4. \A j, k \in DOMAIN queue' : j < k => queue'[j] < queue'[k]
    BY <1>2, <2>2 DEF FrameworkInv, InOrder
  <2>5. \A t \in active', k \in DOMAIN queue' : t < queue'[k]
    BY <1>1, <1>2, <2>1 DEF FrameworkInv, InOrder
  <2>6. \A j \in Results' : \A t \in active' \cup Queued' : looper'[j].task < t
    BY <1>1, <1>3, <2>3 DEF FrameworkInv, InOrder
  <2>7. QED
    BY <1>1, <1>3, <2>4, <2>5, <2>6 DEF FrameworkInv, InOrder
<1>8. Service!Submit
  BY <1>1, <1>4 DEF Service!Submit, Answers
<1>9. QED
  BY <1>3, <1>6, <1>7, <1>8 DEF FrameworkInv

LEMMA StartStep ==
  ASSUME FrameworkInv, Start
  PROVE  /\ FrameworkInv' /\ Pending' = Pending
         /\ Queued = Queued' \cup active' /\ Finished' = Finished
<1>1. /\ queue \in Seq(Nat) /\ queue # << >> /\ queue' = Tail(queue)
      /\ active = {} /\ active' = {Head(queue)}
      /\ UNCHANGED <<submitted, looper, reported, lost>>
  BY DEF FrameworkInv, FrameworkType, Start
<1>2. /\ queue' \in Seq(Nat) /\ Head(queue) \in Nat
      /\ DOMAIN queue = 1..Len(queue) /\ Len(queue) \in Nat \ {0}
      /\ DOMAIN queue' = 1..(Len(queue) - 1)
      /\ \A k \in DOMAIN queue' : queue'[k] = queue[k + 1]
      /\ Head(queue) = queue[1]
  BY <1>1, TailIndices
<1>3. Queued = Queued' \cup {Head(queue)}
  <2>1. \A k \in DOMAIN queue : k = 1 \/ (k - 1 \in DOMAIN queue' /\ queue[k] = queue'[k - 1])
    BY <1>2
  <2>2. \A k \in DOMAIN queue' : k + 1 \in DOMAIN queue
    BY <1>2
  <2>3. 1 \in DOMAIN queue
    BY <1>2
  <2>4. QED
    BY <1>2, <2>1, <2>2, <2>3 DEF Queued
<1>4. Finished' = Finished /\ Results' = Results
  BY <1>1 DEF Finished, Results
<1>5. Pending' = Pending
  BY <1>1, <1>3, <1>4 DEF Pending
<1>6. FrameworkType'
  BY <1>1, <1>2, <1>5 DEF FrameworkInv, FrameworkType
<1>7. InOrder'
  <2>0. \A j, k \in DOMAIN queue : j < k => queue[j] < queue[k]
    BY DEF FrameworkInv, InOrder
  <2>a. \A k \in DOMAIN queue' : k \in Nat /\ k + 1 \in DOMAIN queue /\ 1 \in DOMAIN queue /\ 1 < k + 1
    BY <1>2
  <2>1. \A j, k \in DOMAIN queue' : j < k => queue'[j] < queue'[k]
    <3>1. \A j, k \in DOMAIN queue' : j < k => j + 1 < k + 1
      BY <2>a
    <3>2. QED
      BY <1>2, <2>0, <2>a, <3>1
  <2>2. \A t \in active', k \in DOMAIN queue' : t < queue'[k]
    <3>1. \A k \in DOMAIN queue' : queue[1] < queue[k + 1]
      BY <2>0, <2>a
    <3>2. QED
      BY <1>1, <1>2, <3>1
  <2>3. \A j \in Results' : \A t \in active' \cup Queued' : looper'[j].task < t
    BY <1>1, <1>3, <1>4 DEF FrameworkInv, InOrder
  <2>4. QED
    BY <1>1, <1>4, <2>1, <2>2, <2>3 DEF FrameworkInv, InOrder
<1>8. QED
  BY <1>1, <1>3, <1>4, <1>5, <1>6, <1>7 DEF FrameworkInv

(* A step that posts no result keeps the order and what is pending. *)
LEMMA PublishStep ==
  ASSUME FrameworkInv, NEW t \in Tasks, NEW value \in Values, Publish(t, value)
  PROVE  /\ FrameworkInv' /\ Pending' = Pending
         /\ Queued' = Queued /\ Finished' = Finished
<1>1. /\ t \in active /\ t \in Nat /\ Progress(t, value) \in Messages
      /\ looper' = Append(looper, Progress(t, value)) /\ looper \in Seq(Messages)
      /\ Progress(t, value).result = FALSE
      /\ UNCHANGED <<submitted, queue, active, reported, lost>>
  BY DEF FrameworkInv, FrameworkType, Publish, Progress, Messages, Tasks
<1>2. /\ looper' \in Seq(Messages) /\ DOMAIN looper = 1..Len(looper) /\ Len(looper) \in Nat
      /\ DOMAIN looper' = 1..(Len(looper) + 1)
      /\ \A k \in DOMAIN looper : looper'[k] = looper[k]
      /\ looper'[Len(looper) + 1] = Progress(t, value)
  BY <1>1, AppendIndices
<1>3. Results' = Results /\ Finished' = Finished
  <2>1. \A k \in DOMAIN looper' : k \in DOMAIN looper \/ ~looper'[k].result
    BY <1>1, <1>2
  <2>2. \A k \in DOMAIN looper : k \in DOMAIN looper' /\ looper'[k] = looper[k]
    BY <1>2
  <2>3. Results' = Results /\ \A k \in Results : looper'[k] = looper[k]
    BY <2>1, <2>2 DEF Results
  <2>4. Finished = {looper[k].task : k \in Results}
        /\ Finished' = {looper'[k].task : k \in Results'}
    BY DEF Finished, Results
  <2>5. QED
    BY <2>3, <2>4
<1>4. Queued' = Queued /\ Pending' = Pending
  BY <1>1, <1>3 DEF Queued, Pending
<1>5. FrameworkType'
  BY <1>1, <1>2, <1>4 DEF FrameworkInv, FrameworkType
<1>6. \A k \in Results : looper'[k] = looper[k]
  BY <1>2 DEF Results
<1>7. InOrder'
  BY <1>1, <1>3, <1>4, <1>6 DEF FrameworkInv, InOrder
<1>8. QED
  BY <1>3, <1>4, <1>5, <1>7 DEF FrameworkInv

LEMMA FinishStep ==
  ASSUME FrameworkInv, NEW t \in Tasks, NEW value \in Values, Finish(t, value)
  PROVE  /\ FrameworkInv' /\ Pending' = Pending
         /\ Queued' = Queued /\ Finished' = Finished \cup {t}
<1>1. /\ t \in active /\ t \in Nat /\ Result(t, value) \in Messages
      /\ looper' = Append(looper, Result(t, value)) /\ looper \in Seq(Messages)
      /\ Result(t, value).result /\ Result(t, value).task = t
      /\ active' = active \ {t}
      /\ UNCHANGED <<submitted, queue, reported, lost>>
  BY DEF FrameworkInv, FrameworkType, Finish, Result, Messages, Tasks
<1>2. /\ looper' \in Seq(Messages) /\ DOMAIN looper = 1..Len(looper) /\ Len(looper) \in Nat
      /\ DOMAIN looper' = 1..(Len(looper) + 1)
      /\ \A k \in DOMAIN looper : looper'[k] = looper[k]
      /\ looper'[Len(looper) + 1] = Result(t, value)
  BY <1>1, AppendIndices
<1> DEFINE last == Len(looper) + 1
<1>3. /\ Results' = Results \cup {last} /\ last \notin Results
      /\ \A k \in Results : looper'[k] = looper[k] /\ k < last /\ k \in Nat
      /\ looper'[last].task = t
  BY <1>1, <1>2 DEF Results
<1>4. Finished = {looper[k].task : k \in Results}
      /\ Finished' = {looper'[k].task : k \in Results'}
  BY DEF Finished, Results
<1>5. Finished' = Finished \cup {t}
  BY <1>3, <1>4
<1>6. Queued' = Queued /\ Pending' = Pending
  BY <1>1, <1>5 DEF Queued, Pending
<1>7. FrameworkType'
  BY <1>1, <1>2, <1>6 DEF FrameworkInv, FrameworkType
<1>8. InOrder'
  <2>1. active' = {} /\ last \in Nat
    <3>1. \A u \in active : u = t
      BY <1>1 DEF FrameworkInv, InOrder
    <3>2. active' = {}
      BY <1>1, <3>1
    <3>3. QED
      BY <1>2, <3>2
  <2>2. \A j, k \in Results' : j < k => looper'[j].task < looper'[k].task
    <3>1. ASSUME NEW j \in Results', NEW k \in Results', j < k
          PROVE  looper'[j].task < looper'[k].task
      <4>1. j \in Results
        BY <1>3, <2>1, <3>1
      <4>2. CASE k = last
        BY <1>1, <1>3, <4>1, <4>2 DEF FrameworkInv, InOrder
      <4>3. CASE k \in Results
        BY <1>3, <3>1, <4>1, <4>3 DEF FrameworkInv, InOrder
      <4>4. QED
        BY <1>3, <4>2, <4>3
    <3>2. QED
      BY <3>1
  <2>3. \A u \in Queued : t < u
    BY <1>1 DEF FrameworkInv, InOrder, Queued
  <2>4. \A j \in Results' : \A u \in active' \cup Queued' : looper'[j].task < u
    BY <1>3, <1>6, <2>1, <2>3 DEF FrameworkInv, InOrder
  <2>5. QED
    BY <1>1, <2>1, <2>2, <2>4 DEF FrameworkInv, InOrder
<1>9. QED
  BY <1>5, <1>6, <1>7, <1>8 DEF FrameworkInv

(* What is left of the looper when its head is handled. *)
LEMMA LooperTail ==
  ASSUME FrameworkInv, looper # << >>, looper' = Tail(looper)
  PROVE  /\ looper' \in Seq(Messages) /\ Message = looper[1] /\ 1 \in DOMAIN looper
         /\ \A k \in Results' : k + 1 \in Results /\ looper'[k] = looper[k + 1]
                                /\ k \in Nat /\ 1 < k + 1
         /\ \A k \in Results : k = 1 \/ (k - 1 \in Results' /\ looper'[k - 1] = looper[k])
         /\ Finished = Finished' \cup (IF Message.result THEN {Message.task} ELSE {})
<1>1. /\ looper' \in Seq(Messages)
      /\ DOMAIN looper = 1..Len(looper) /\ Len(looper) \in Nat \ {0}
      /\ DOMAIN looper' = 1..(Len(looper) - 1)
      /\ \A k \in DOMAIN looper' : looper'[k] = looper[k + 1]
      /\ Message = looper[1]
  BY TailIndices DEF FrameworkInv, FrameworkType, Message
<1>2. \A k \in DOMAIN looper' : k + 1 \in DOMAIN looper /\ k \in Nat /\ 1 < k + 1
  BY <1>1
<1>3. \A k \in DOMAIN looper : k = 1 \/ (k - 1 \in DOMAIN looper' /\ looper'[k - 1] = looper[k])
  <2>1. \A k \in DOMAIN looper : k = 1 \/ (k - 1 \in DOMAIN looper' /\ (k - 1) + 1 = k)
    BY <1>1
  <2>2. QED
    BY <1>1, <2>1
<1>4. 1 \in DOMAIN looper
  BY <1>1
<1>5. \A k \in Results' : k + 1 \in Results /\ looper'[k] = looper[k + 1]
                           /\ k \in Nat /\ 1 < k + 1
  BY <1>1, <1>2 DEF Results
<1>6. \A k \in Results : k = 1 \/ (k - 1 \in Results' /\ looper'[k - 1] = looper[k])
  BY <1>1, <1>3 DEF Results
<1>7. Finished = {looper[k].task : k \in Results} /\ Finished' = {looper'[k].task : k \in Results'}
  BY DEF Finished, Results
<1>8. 1 \in Results <=> Message.result
  BY <1>1, <1>4 DEF Results
<1>9. Finished = Finished' \cup (IF Message.result THEN {Message.task} ELSE {})
  <2>1. ASSUME NEW u \in Finished
        PROVE  u \in Finished' \/ (Message.result /\ u = Message.task)
    <3>1. PICK k \in Results : u = looper[k].task
      BY <1>7
    <3>2. QED
      BY <1>1, <1>6, <1>7, <1>8, <3>1
  <2>2. ASSUME NEW u \in Finished' PROVE u \in Finished
    BY <1>5, <1>7
  <2>3. Message.result => Message.task \in Finished
    BY <1>1, <1>7, <1>8
  <2>4. QED
    BY <2>1, <2>2, <2>3
<1>10. QED
  BY <1>1, <1>4, <1>5, <1>6, <1>9

LEMMA TailInOrder ==
  ASSUME FrameworkInv, looper # << >>, looper' = Tail(looper), UNCHANGED <<queue, active>>
  PROVE  InOrder'
<1>1. \A k \in Results' : k + 1 \in Results /\ looper'[k] = looper[k + 1] /\ k \in Nat
  BY LooperTail
<1>2. \A j, k \in Results' : j < k => j + 1 < k + 1
  BY <1>1
<1>3. \A j, k \in Results' : j < k => looper'[j].task < looper'[k].task
  BY <1>1, <1>2 DEF FrameworkInv, InOrder
<1>4. Queued' = Queued
  BY DEF Queued
<1>5. \A j \in Results' : \A t \in active' \cup Queued' : looper'[j].task < t
  BY <1>1, <1>4 DEF FrameworkInv, InOrder
<1>6. QED
  BY <1>3, <1>5 DEF FrameworkInv, InOrder

LEMMA HandleProgressStep ==
  ASSUME FrameworkInv, HandleProgress
  PROVE  /\ FrameworkInv' /\ Pending' = Pending
         /\ Queued' = Queued /\ Finished' = Finished
<1>1. /\ looper # << >> /\ ~Message.result /\ looper' = Tail(looper)
      /\ UNCHANGED <<submitted, queue, active, reported, lost>>
  BY DEF HandleProgress
<1>2. Finished' = Finished /\ Queued' = Queued
  BY <1>1, LooperTail DEF Queued
<1>3. Pending' = Pending
  BY <1>1, <1>2 DEF Pending
<1>4. FrameworkType'
  BY <1>1, <1>3, LooperTail DEF FrameworkInv, FrameworkType
<1>5. QED
  BY <1>1, <1>2, <1>3, <1>4, TailInOrder DEF FrameworkInv

(* onPostExecute answers the oldest pending task. *)
LEMMA HandleResultStep ==
  ASSUME FrameworkInv, HandleResult
  PROVE  /\ FrameworkInv' /\ Service!Answer
         /\ Queued' = Queued /\ Finished = Finished' \cup {Message.task}
         /\ \A u : IsReported(u)' => IsReported(u) \/ u = Message.task
<1> DEFINE t == Message.task
           entry == [task |-> Message.task, value |-> Message.value]
           S == [task : Nat, value : Values]
<1>1. /\ looper # << >> /\ Message.result /\ looper' = Tail(looper)
      /\ reported' = Append(reported, entry)
      /\ UNCHANGED <<submitted, queue, active, lost>>
  BY DEF HandleResult
<1>2. /\ Message \in Messages /\ Message = looper[1] /\ 1 \in Results
  BY <1>1, LooperTail, HeldTasks DEF Results
<1>3. t \in Nat /\ entry \in S /\ entry.task = t
  BY <1>2 DEF Messages
<1>4. \A k \in Results' : k + 1 \in Results /\ looper'[k] = looper[k + 1] /\ 1 < k + 1
  BY <1>1, LooperTail
<1>5. /\ \A k \in Results' : t < looper'[k].task
      /\ \A u \in active \cup Queued : t < u
  BY <1>2, <1>4 DEF FrameworkInv, InOrder
<1>6. /\ \A u \in Finished' : t < u
      /\ Finished = Finished' \cup {t} /\ Queued' = Queued
  <2>1. Finished' = {looper'[k].task : k \in Results'}
    BY DEF Finished, Results
  <2>2. \A u \in Finished' : t < u
    BY <1>5, <2>1
  <2>3. Finished = Finished' \cup {t}
    BY <1>1, LooperTail
  <2>4. QED
    BY <1>1, <2>2, <2>3 DEF Queued
<1>7. /\ Pending = Pending' \cup {t} /\ \A u \in Pending' : t < u
  BY <1>1, <1>5, <1>6 DEF Pending
<1>8. t \notin Pending' /\ \A u \in Pending : t <= u
  <2>1. \A u \in Pending : u \in Nat
    BY HeldTasks
  <2>2. QED
    BY <1>3, <1>7, <2>1
<1>9. /\ reported \in Seq(S) /\ reported' \in Seq(S)
      /\ DOMAIN reported = 1..Len(reported) /\ Len(reported) \in Nat
      /\ DOMAIN reported' = 1..(Len(reported) + 1)
      /\ \A k \in DOMAIN reported : reported'[k] = reported[k]
      /\ reported'[Len(reported) + 1] = entry
  <2>1. reported \in Seq(S)
    BY DEF FrameworkInv, FrameworkType
  <2>2. QED
    BY <1>1, <1>3, <2>1, AppendIndices
<1> DEFINE tasks == [k \in DOMAIN reported |-> reported[k].task]
<1>10. tasks' = Append(tasks, t)
  <2>1. /\ tasks \in Seq(Nat) /\ Len(tasks) = Len(reported)
        /\ tasks' \in Seq(Nat) /\ Len(tasks') = Len(reported) + 1
    <3>1. ASSUME NEW k \in DOMAIN reported PROVE reported[k].task \in Nat
      <4>1. reported[k] \in S
        BY <1>9, ElementOfSeq
      <4>2. QED
        BY <4>1
    <3>2. ASSUME NEW k \in DOMAIN reported' PROVE reported'[k].task \in Nat
      <4>1. CASE k \in DOMAIN reported
        BY <1>9, <3>1, <4>1
      <4>2. CASE k = Len(reported) + 1
        BY <1>3, <1>9, <4>2
      <4>3. QED
        BY <1>9, <4>1, <4>2
    <3>3. QED
      BY <1>9, <3>1, <3>2
  <2>2. /\ Append(tasks, t) \in Seq(Nat) /\ Len(Append(tasks, t)) = Len(reported) + 1
        /\ \A k \in 1..Len(reported) : Append(tasks, t)[k] = tasks[k]
        /\ Append(tasks, t)[Len(reported) + 1] = t
    BY <1>3, <2>1, AppendProperties
  <2>3. \A k \in 1..Len(tasks') : tasks'[k] = Append(tasks, t)[k]
    <3>1. ASSUME NEW k \in 1..Len(reported) PROVE tasks'[k] = tasks[k]
      <4>1. k \in DOMAIN reported /\ k \in DOMAIN reported'
        BY <1>9
      <4>2. reported'[k] = reported[k]
        BY <1>9, <4>1
      <4>3. tasks[k] = reported[k].task
        BY <4>1
      <4>4. tasks'[k] = reported'[k].task
        BY <4>1
      <4>5. QED
        BY <4>2, <4>3, <4>4
    <3>2. tasks'[Len(reported) + 1] = t
      BY <1>3, <1>9
    <3>3. \A k \in 1..(Len(reported) + 1) : k \in 1..Len(reported) \/ k = Len(reported) + 1
      BY <1>9
    <3>4. QED
      BY <2>1, <2>2, <3>1, <3>2, <3>3
  <2>4. Len(tasks') = Len(Append(tasks, t))
    BY <2>1, <2>2
  <2> HIDE DEF tasks
  <2>5. QED
    BY <2>1, <2>2, <2>3, <2>4, SeqEqual
<1>11. Service!Answer
  <2>1. t \in Pending /\ Pending' = Pending \ {t}
    BY <1>7, <1>8
  <2>2. Answers' = Append(Answers, t)
    BY <1>10 DEF Answers
  <2>3. QED
    BY <1>1, <1>8, <2>1, <2>2 DEF Service!Answer, Service!Oldest
<1>12. FrameworkType'
  BY <1>1, <1>7, <1>9, LooperTail DEF FrameworkInv, FrameworkType
<1>13. \A u : IsReported(u)' => IsReported(u) \/ u = t
  <2>1. \A k \in DOMAIN reported' : k \in DOMAIN reported \/ k = Len(reported) + 1
    BY <1>9
  <2>2. QED
    BY <1>3, <1>9, <2>1 DEF IsReported
<1>14. QED
  BY <1>1, <1>6, <1>11, <1>12, <1>13, TailInOrder DEF FrameworkInv

LEMMA KillStep ==
  ASSUME FrameworkInv, KillTasks
  PROVE  FrameworkInv' /\ Service!Crash /\ Queued' = {} /\ Finished' = {}
<1>1. /\ queue' = << >> /\ active' = {} /\ looper' = << >>
      /\ lost' = lost \cup Pending /\ UNCHANGED <<submitted, reported>>
      /\ << >> \in Seq(Nat) /\ << >> \in Seq(Messages) /\ DOMAIN << >> = {}
  BY DEF KillTasks
<1>2. Queued' = {} /\ Finished' = {} /\ Pending' = {} /\ Results' = {}
  BY <1>1 DEF Queued, Finished, Pending, Results
<1>3. FrameworkInv'
  BY <1>1, <1>2 DEF FrameworkInv, FrameworkType, InOrder
<1>4. QED
  BY <1>1, <1>2, <1>3 DEF Service!Crash, Answers

-----------------------------------------------------------------------------
(* Every step of the framework is a step of the service or changes nothing  *)
(* of it, and keeps the order.                                              *)
LEMMA FrameworkStep ==
  FrameworkInv /\ [FrameworkNext]_taskVars => FrameworkInv' /\ [Service!Next]_(Service!vars)
<1> SUFFICES ASSUME FrameworkInv, [FrameworkNext]_taskVars
             PROVE  FrameworkInv' /\ [Service!Next]_(Service!vars)
  OBVIOUS
<1>1. CASE Execute
  BY <1>1, ExecuteStep DEF Service!Next
<1>2. ASSUME FrameworkInv', Pending' = Pending, UNCHANGED <<submitted, reported, lost>>
      PROVE  FrameworkInv' /\ [Service!Next]_(Service!vars)
  BY <1>2 DEF Service!vars, Answers
<1>3. CASE Start
  BY <1>2, <1>3, StartStep DEF Start
<1>4. CASE \E t \in Tasks, value \in Values : Publish(t, value) \/ Finish(t, value)
  BY <1>2, <1>4, PublishStep, FinishStep DEF Publish, Finish
<1>5. CASE HandleProgress
  BY <1>2, <1>5, HandleProgressStep DEF HandleProgress
<1>6. CASE HandleResult
  BY <1>6, HandleResultStep DEF Service!Next
<1>7. CASE KillTasks
  BY <1>7, KillStep DEF Service!Next
<1>8. CASE UNCHANGED taskVars
  <2>1. Queued' = Queued /\ Finished' = Finished /\ Results' = Results /\ Pending' = Pending
    BY <1>8 DEF taskVars, Queued, Finished, Results, Pending
  <2>2. FrameworkInv'
    BY <1>8, <2>1 DEF taskVars, FrameworkInv, FrameworkType, InOrder
  <2>3. QED
    BY <1>2, <1>8, <2>1, <2>2 DEF taskVars
<1>9. QED
  BY <1>1, <1>3, <1>4, <1>5, <1>6, <1>7, <1>8 DEF FrameworkNext

(* Whatever its tasks do, a program built from the steps of the framework   *)
(* answers the taps like TaskService.                                       *)
THEOREM FrameworkImplementsService ==
  InitTasks /\ [][FrameworkNext]_taskVars => ServiceSpec
<1>1. InitTasks => FrameworkInv /\ Service!Init
  BY FrameworkInit
<1>2. FrameworkInv /\ [FrameworkNext]_taskVars => FrameworkInv' /\ [Service!Next]_(Service!vars)
  BY FrameworkStep
<1>3. QED
  BY <1>1, <1>2, PTL DEF ServiceSpec, Service!Spec

-----------------------------------------------------------------------------
(* What the abstract service guarantees, for any number of tasks.           *)
ServiceInv == Service!TypeOK /\ Service!AnsweredInOrder /\ Service!NoneVanishes

LEMMA ServiceInit == Service!Init => ServiceInv
<1> SUFFICES ASSUME Service!Init PROVE ServiceInv
  OBVIOUS
<1>1. Answers = << >> /\ DOMAIN Answers = {} /\ Answers \in Seq(1..submitted)
  BY DEF Service!Init
<1>2. QED
  BY <1>1
  DEF Service!Init, ServiceInv, Service!TypeOK, Service!AnsweredInOrder,
    Service!NoneVanishes, Service!IsAnswered

LEMMA ServiceSubmits == ServiceInv /\ Service!Submit => ServiceInv'
<1> SUFFICES ASSUME ServiceInv, Service!Submit PROVE ServiceInv'
  OBVIOUS
<1>1. /\ submitted \in Nat /\ submitted' = submitted + 1 /\ submitted' \in Nat
      /\ Pending' = Pending \cup {submitted + 1}
      /\ Answers' = Answers /\ lost' = lost
      /\ Pending \subseteq 1..submitted /\ lost \subseteq 1..submitted
  BY DEF ServiceInv, Service!TypeOK, Service!Submit
<1>2. \A i \in DOMAIN Answers : Answers[i] \in 1..submitted
  BY DEF ServiceInv, Service!TypeOK
<1>3. Service!TypeOK'
  <2>1. 1..submitted \subseteq 1..(submitted + 1)
    BY <1>1
  <2>2. Answers \in Seq(1..(submitted + 1))
    BY <2>1 DEF ServiceInv, Service!TypeOK
  <2>3. QED
    BY <1>1, <2>1, <2>2 DEF Service!TypeOK
<1>4. Service!AnsweredInOrder'
  BY <1>1, <1>2 DEF ServiceInv, Service!AnsweredInOrder
<1>5. Service!NoneVanishes'
  BY <1>1, <1>2 DEF ServiceInv, Service!NoneVanishes, Service!IsAnswered
<1>6. QED
  BY <1>3, <1>4, <1>5 DEF ServiceInv

LEMMA ServiceAnswers == ServiceInv /\ Service!Answer => ServiceInv'
<1> SUFFICES ASSUME ServiceInv, Service!Answer PROVE ServiceInv'
  OBVIOUS
<1>1. PICK t \in Pending : /\ Service!Oldest(t) /\ Pending' = Pending \ {t}
                           /\ Answers' = Append(Answers, t)
                           /\ UNCHANGED <<submitted, lost>>
  BY DEF Service!Answer
<1>2. /\ Answers \in Seq(1..submitted) /\ t \in 1..submitted
      /\ Pending \subseteq 1..submitted /\ submitted \in Nat
  BY DEF ServiceInv, Service!TypeOK
<1>3. /\ Answers' \in Seq(1..submitted) /\ Len(Answers') = Len(Answers) + 1
      /\ \A i \in 1..Len(Answers) : Answers'[i] = Answers[i]
      /\ Answers'[Len(Answers) + 1] = t
  BY <1>1, <1>2, AppendProperties
<1>4. DOMAIN Answers = 1..Len(Answers) /\ DOMAIN Answers' = 1..(Len(Answers) + 1)
      /\ Len(Answers) \in Nat
  BY <1>2, <1>3
<1>5. Service!TypeOK'
  BY <1>1, <1>2, <1>3 DEF ServiceInv, Service!TypeOK
<1>6. Service!AnsweredInOrder'
  <2>1. \A i \in DOMAIN Answers : Answers[i] < t
    BY <1>1 DEF ServiceInv, Service!AnsweredInOrder
  <2>2. \A u \in Pending' : t < u
    BY <1>1, <1>2 DEF Service!Oldest
  <2>3. \A i, j \in DOMAIN Answers' : i < j => Answers'[i] < Answers'[j]
    BY <1>3, <1>4, <2>1 DEF ServiceInv, Service!AnsweredInOrder
  <2>4. ASSUME NEW i \in DOMAIN Answers', NEW u \in Pending'
        PROVE  Answers'[i] < u
    <3>1. CASE i \in DOMAIN Answers
      BY <1>1, <1>3, <1>4, <3>1 DEF ServiceInv, Service!AnsweredInOrder
    <3>2. CASE i = Len(Answers) + 1
      BY <1>3, <2>2, <3>2
    <3>3. QED
      BY <1>4, <3>1, <3>2
  <2>5. QED
    BY <2>3, <2>4 DEF Service!AnsweredInOrder
<1>7. Service!NoneVanishes'
  <2>1. \A u : Service!IsAnswered(u)' <=> Service!IsAnswered(u) \/ u = t
    BY <1>3, <1>4 DEF Service!IsAnswered
  <2>2. QED
    BY <1>1, <2>1 DEF ServiceInv, Service!NoneVanishes
<1>8. QED
  BY <1>5, <1>6, <1>7 DEF ServiceInv

LEMMA ServiceStep == ServiceInv /\ [Service!Next]_(Service!vars) => ServiceInv'
<1> SUFFICES ASSUME ServiceInv, [Service!Next]_(Service!vars) PROVE ServiceInv'
  OBVIOUS
<1>1. CASE Service!Crash
  BY <1>1 DEF Service!Crash, ServiceInv, Service!TypeOK, Service!AnsweredInOrder,
    Service!NoneVanishes, Service!IsAnswered
<1>2. CASE UNCHANGED Service!vars
  BY <1>2 DEF Service!vars, ServiceInv, Service!TypeOK, Service!AnsweredInOrder,
    Service!NoneVanishes, Service!IsAnswered
<1>3. QED
  BY <1>1, <1>2, ServiceSubmits, ServiceAnswers DEF Service!Next

(* A program that answers like TaskService answers the taps in their order, *)
(* each at most once, and loses none but to the death of the process.       *)
THEOREM ServiceCorrect ==
  ServiceSpec => [](Service!AnsweredInOrder /\ Service!NoneVanishes)
<1>1. ServiceInv => Service!AnsweredInOrder /\ Service!NoneVanishes
  BY DEF ServiceInv
<1>2. QED
  BY <1>1, ServiceInit, ServiceStep, PTL DEF ServiceSpec, Service!Spec

=============================================================================
