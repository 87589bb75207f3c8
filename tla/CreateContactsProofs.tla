------------------------ MODULE CreateContactsProofs ------------------------
(***************************************************************************)
(* CreateContacts for every number of taps, of contacts per task and of    *)
(* activity instances: it is the FIFO service of TaskService, the contacts *)
(* are committed in order and none is forgotten.                           *)
(***************************************************************************)
EXTENDS CreateContacts, AsyncTaskProofs

Contacts == Tasks \X (0..NumContacts - 1)

LoopType ==
  /\ loop \in [Tasks -> 0..NumContacts]
  /\ step \in [Tasks -> {"write", "publish"}]
  /\ book \in Seq(Contacts) /\ failed \subseteq Contacts

(* Where the loop of a task is tells which of its contacts were tried, and  *)
(* a task whose result exists has come to the end of its loop.              *)
Tried(t) == {i \in 0..NumContacts - 1 :
               i < loop[t] \/ (i = loop[t] /\ step[t] = "publish")}

LoopInv ==
  /\ \A t \in Tasks, i \in 0..NumContacts - 1 :
       i \in Tried(t) => <<t, i>> \in Committed \cup failed
  /\ \A k \in DOMAIN book : book[k][2] \in Tried(book[k][1])
  /\ \A t \in Tasks : step[t] = "publish" => loop[t] < NumContacts
  /\ \A t \in Finished : loop[t] = NumContacts
  /\ \A t \in Tasks : IsReported(t) => loop[t] = NumContacts

(* The running task is the latest that has written, the queued ones come    *)
(* after every contact: what makes the next commit the last in order.       *)
BookInv ==
  /\ BookInOrder
  /\ \A k \in DOMAIN book : book[k][1] <= submitted
  /\ \A k \in DOMAIN book, t \in active : book[k][1] <= t
  /\ \A k \in DOMAIN book, t \in Queued : book[k][1] < t

CreateInv == FrameworkInv /\ LoopType /\ LoopInv /\ BookInv

LEMMA ProgressValue ==
  ASSUME LoopType, NEW t \in Tasks PROVE loop[t] \div NumContacts \in Nat
<1>1. \A a \in Nat, b \in Nat \ {0} : a \div b \in Nat
  OBVIOUS
<1>2. loop[t] \in Nat /\ NumContacts \in Nat \ {0}
  BY CreateContactsAssumption DEF LoopType
<1>3. QED
  BY <1>1, <1>2

-----------------------------------------------------------------------------
(* Each action is one step of the framework, or leaves it alone. *)
LEMMA NextIsFramework ==
  ASSUME LoopType, [Next]_vars
  PROVE  [FrameworkNext]_taskVars
<1>1. CASE CreateBody
  <2>1. PICK t \in Tasks : Commit(t) \/ CommitFails(t) \/ CommitUnheard(t)
                           \/ PublishProgress(t) \/ Generated(t)
    BY <1>1 DEF CreateBody
  <2>2. CASE PublishProgress(t)
    <3>1. loop[t] \div NumContacts \in Nat
      BY ProgressValue
    <3>2. loop[t] \div NumContacts \in Values
      BY <3>1 DEF Values
    <3>3. QED
      BY <2>2, <3>2 DEF PublishProgress, FrameworkNext
  <2>3. CASE Generated(t)
    <3>1. "created" \in Values
      BY DEF Values
    <3>2. QED
      BY <2>3, <3>1 DEF Generated, FrameworkNext
  <2>4. CASE Commit(t) \/ CommitFails(t) \/ CommitUnheard(t)
    BY <2>4 DEF Commit, CommitFails, CommitUnheard
  <2>5. QED
    BY <2>1, <2>2, <2>3, <2>4
<1>2. CASE ~CreateBody
  BY <1>2 DEF Next, vars, CreateClick, Rotate, Kill, StartCreate, CreateCallbacks,
    DeliverProgress, DeliverCreated, FrameworkNext
<1>3. QED
  BY <1>1, <1>2

LEMMA CreateInit == Init => CreateInv
<1> SUFFICES ASSUME Init PROVE CreateInv
  OBVIOUS
<1>1. FrameworkInv
  BY FrameworkInit DEF Init
<1>2. << >> \in Seq(Contacts) /\ DOMAIN << >> = {}
  OBVIOUS
<1>3. LoopType
  BY <1>2, CreateContactsAssumption DEF Init, InitTasks, InitCreate, LoopType
<1>4. Finished = {} /\ Queued = {} /\ \A t : ~IsReported(t)
  BY <1>2 DEF Init, InitTasks, Finished, Queued, IsReported
<1>5. \A t \in Tasks : Tried(t) = {}
  BY CreateContactsAssumption DEF Init, InitCreate, Tried
<1>6. QED
  BY <1>1, <1>2, <1>3, <1>4, <1>5
  DEF Init, InitTasks, InitCreate, CreateInv, LoopInv, BookInv, BookInOrder

-----------------------------------------------------------------------------
(* Steps that leave the loops and the book alone. *)
LEMMA QuietStep ==
  ASSUME CreateInv, FrameworkInv', UNCHANGED <<loop, step, book, failed>>,
         submitted' = submitted \/ submitted' = submitted + 1,
         \A u \in Queued' : u \in Queued \/ u = submitted + 1,
         \A u \in active' : u \in active \cup Queued,
         \A u \in Finished' : u \in Finished \/ loop[u] = NumContacts,
         \A u \in Tasks : IsReported(u)' => IsReported(u) \/ u \in Finished
  PROVE  CreateInv'
<1>1. LoopType'
  BY DEF CreateInv, LoopType
<1>2. \A t \in Tasks : Tried(t)' = Tried(t)
  BY DEF Tried
<1>3. Committed' = Committed
  BY DEF Committed
<1>4. \A k \in DOMAIN book : book[k] \in Contacts /\ book[k][1] \in Tasks /\ book[k][1] \in Nat
  <2>1. \A k \in DOMAIN book : book[k] \in Contacts
    BY ElementOfSeq, LenProperties DEF CreateInv, LoopType
  <2>2. QED
    BY <2>1, AsyncTaskAssumption DEF Contacts, Tasks
<1>5. LoopInv'
  BY <1>2, <1>3, <1>4 DEF CreateInv, LoopInv
<1>6. submitted \in Nat
  BY DEF CreateInv, FrameworkInv, FrameworkType
<1>7. BookInv'
  <2>1. \A k \in DOMAIN book : book[k][1] < submitted + 1 /\ book[k][1] <= submitted'
    BY <1>4, <1>6 DEF CreateInv, BookInv
  <2>2. \A k \in DOMAIN book, t \in active' : book[k][1] <= t
    <3>1. \A t \in Queued : t \in Nat
      BY HeldTasks DEF CreateInv, Pending
    <3>2. QED
      BY <1>4, <3>1 DEF CreateInv, BookInv
  <2>3. \A k \in DOMAIN book, t \in Queued' : book[k][1] < t
    BY <2>1 DEF CreateInv, BookInv
  <2>4. QED
    BY <2>1, <2>2, <2>3 DEF CreateInv, BookInv, BookInOrder
<1>8. QED
  BY <1>1, <1>5, <1>7 DEF CreateInv

(* One write: the contact of the running task is committed or its failure   *)
(* remembered.                                                              *)
LEMMA WriteStep ==
  ASSUME CreateInv, FrameworkInv', NEW t \in Tasks,
         Commit(t) \/ CommitFails(t) \/ CommitUnheard(t)
  PROVE  CreateInv'
<1> DEFINE c == <<t, loop[t]>>
<1>1. /\ t \in active /\ step[t] = "write" /\ loop[t] < NumContacts
      /\ step' = [step EXCEPT ![t] = "publish"] /\ UNCHANGED <<taskVars, loop>>
      /\ \/ book' = book /\ failed' = failed \cup {c}
         \/ book' = Append(book, c) /\ failed' \in {failed, failed \cup {c}}
  BY DEF Commit, CommitFails, CommitUnheard, Writes
<1>2. /\ loop[t] \in 0..NumContacts - 1 /\ c \in Contacts
      /\ book \in Seq(Contacts) /\ failed \subseteq Contacts
      /\ loop \in [Tasks -> 0..NumContacts]
  BY <1>1, CreateContactsAssumption DEF CreateInv, LoopType, Contacts
<1>3. /\ DOMAIN book = 1..Len(book) /\ Len(book) \in Nat
      /\ \A k \in DOMAIN book : book[k] \in Contacts
  BY <1>2, ElementOfSeq, LenProperties
<1>4. \/ book' = book
      \/ /\ book' \in Seq(Contacts) /\ DOMAIN book' = 1..(Len(book) + 1)
         /\ \A k \in DOMAIN book : book'[k] = book[k]
         /\ book'[Len(book) + 1] = c
  <2>1. CASE book' = Append(book, c)
    <3> HIDE DEF c
    <3>1. QED
      BY <1>2, <2>1, AppendIndices
  <2>2. QED
    BY <1>1, <2>1
<1>5. \A k \in DOMAIN book' : (k \in DOMAIN book /\ book'[k] = book[k])
                              \/ (k = Len(book) + 1 /\ book'[k] = c)
  <2>1. CASE book' = book
    BY <2>1
  <2>2. CASE book' # book
    <3>1. \A k \in 1..(Len(book) + 1) : k \in 1..Len(book) \/ k = Len(book) + 1
      BY <1>3
    <3>2. QED
      BY <1>3, <1>4, <2>2, <3>1
  <2>3. QED
    BY <2>1, <2>2
<1>6. LoopType'
  BY <1>1, <1>2, <1>4 DEF CreateInv, LoopType
<1>7. \A u \in Tasks : Tried(u)' = IF u = t THEN Tried(t) \cup {loop[t]} ELSE Tried(u)
  BY <1>1, <1>2 DEF Tried, CreateInv, LoopType
<1>8. Committed \cup failed \cup {c} = (Committed \cup failed)'
  BY <1>1, <1>3, <1>4, <1>5 DEF Committed
<1>9. UNCHANGED <<Queued, Finished, active, submitted, reported>>
  BY <1>1 DEF taskVars, Queued, Finished
<1>10. LoopInv'
  <2>1. ASSUME NEW u \in Tasks, NEW i \in 0..NumContacts - 1, i \in Tried(u)'
        PROVE  <<u, i>> \in (Committed \cup failed)'
    BY <1>7, <1>8, <2>1 DEF CreateInv, LoopInv
  <2>2. ASSUME NEW k, k \in DOMAIN book' PROVE (book[k][2] \in Tried(book[k][1]))'
    <3> DEFINE d == book'[k]
    <3>0. (book[k][2] \in Tried(book[k][1]))' <=> d[2] \in {i \in 0..NumContacts - 1 :
            i < loop'[d[1]] \/ (i = loop'[d[1]] /\ step'[d[1]] = "publish")}
      BY DEF Tried
    <3>1. CASE k \in DOMAIN book /\ book'[k] = book[k]
      <4>1. book[k][2] \in Tried(book[k][1]) /\ book[k][1] \in Tasks
        BY <1>3, <3>1 DEF CreateInv, LoopInv, Contacts
      <4>2. d = book[k]
        BY <3>1
      <4>3. d[2] \in {i \in 0..NumContacts - 1 :
               i < loop'[d[1]] \/ (i = loop'[d[1]] /\ step'[d[1]] = "publish")}
        BY <1>1, <1>2, <4>1, <4>2 DEF Tried, CreateInv, LoopType
      <4>4. QED
        BY <3>0, <4>3
    <3>2. CASE book'[k] = c
      <4>1. d[1] = t /\ d[2] = loop[t]
        BY <3>2
      <4>2. loop'[t] = loop[t] /\ step'[t] = "publish"
        BY <1>1, <1>2 DEF CreateInv, LoopType
      <4>3. QED
        BY <1>2, <3>0, <4>1, <4>2
    <3>3. QED
      BY <1>5, <2>2, <3>1, <3>2
  <2>3. \A u \in Tasks : step'[u] = "publish" => loop'[u] < NumContacts
    BY <1>1, <1>2 DEF CreateInv, LoopInv, LoopType
  <2>4. /\ \A u \in Finished' : loop'[u] = NumContacts
        /\ \A u \in Tasks : IsReported(u)' => loop'[u] = NumContacts
    BY <1>1, <1>9 DEF CreateInv, LoopInv, IsReported
  <2>5. (\A k \in DOMAIN book : book[k][2] \in Tried(book[k][1]))'
    BY <2>2
  <2>6. (\A u \in Tasks, i \in 0..NumContacts - 1 : i \in Tried(u) => <<u, i>> \in Committed \cup failed)'
    BY <2>1
  <2>7. QED
    BY <2>3, <2>4, <2>5, <2>6 DEF LoopInv
<1>11. BookInv'
  <2>1. t \in Nat /\ t <= submitted /\ submitted \in Nat
    BY <1>1, HeldTasks DEF CreateInv, FrameworkInv, FrameworkType, Pending
  <2>2. \A k \in DOMAIN book : Before(book[k], c)
    <3>1. ASSUME NEW k \in DOMAIN book PROVE Before(book[k], c)
      <4>1. /\ book[k][1] <= t /\ book[k][2] \in Tried(book[k][1])
            /\ book[k][1] \in Nat /\ book[k][1] \in Tasks
        BY <1>1, <1>3, AsyncTaskAssumption
        DEF CreateInv, BookInv, LoopInv, Contacts, Tasks
      <4>2. book[k][1] < t \/ book[k][1] = t
        BY <2>1, <4>1
      <4>3. book[k][1] = t => book[k][2] < loop[t]
        BY <1>1, <4>1 DEF Tried
      <4>4. QED
        BY <4>2, <4>3 DEF Before
    <3>2. QED
      BY <3>1
  <2>3. BookInOrder'
    <3>1. ASSUME NEW j \in DOMAIN book', NEW k \in DOMAIN book', j < k
          PROVE  Before(book'[j], book'[k])
      <4>1. j \in DOMAIN book /\ book'[j] = book[j]
        BY <1>3, <1>4, <1>5, <3>1
      <4>2. CASE k \in DOMAIN book /\ book'[k] = book[k]
        BY <3>1, <4>1, <4>2 DEF CreateInv, BookInv, BookInOrder
      <4>3. CASE book'[k] = c
        BY <2>2, <4>1, <4>3
      <4>4. QED
        BY <1>5, <4>2, <4>3
    <3>2. QED
      BY <3>1 DEF BookInOrder, Before
  <2>4. \A u \in active : u = t
    BY <1>1 DEF CreateInv, FrameworkInv, InOrder
  <2>5. \A u \in Queued : t < u
    BY <1>1 DEF CreateInv, FrameworkInv, InOrder, Queued
  <2>6. \A k \in DOMAIN book' : \/ k \in DOMAIN book /\ book'[k][1] = book[k][1]
                                \/ book'[k][1] = t
    BY <1>5
  <2>7. \A k \in DOMAIN book' : book'[k][1] <= submitted'
    BY <1>9, <2>1, <2>6 DEF CreateInv, BookInv
  <2>8. \A k \in DOMAIN book', u \in active' : book'[k][1] <= u
    BY <1>9, <2>1, <2>4, <2>6 DEF CreateInv, BookInv
  <2>9. \A k \in DOMAIN book', u \in Queued' : book'[k][1] < u
    BY <1>9, <2>5, <2>6 DEF CreateInv, BookInv
  <2>10. QED
    BY <2>3, <2>7, <2>8, <2>9 DEF BookInv
<1>12. QED
  BY <1>6, <1>10, <1>11 DEF CreateInv

(* publishProgress and i++. *)
LEMMA PublishProgressStep ==
  ASSUME CreateInv, FrameworkInv', NEW t \in Tasks, PublishProgress(t)
  PROVE  CreateInv'
<1>1. /\ step[t] = "publish" /\ loop' = [loop EXCEPT ![t] = @ + 1]
      /\ step' = [step EXCEPT ![t] = "write"]
      /\ UNCHANGED <<book, failed, submitted, active, queue, reported>>
  BY DEF PublishProgress, Publish
<1>2. loop \in [Tasks -> 0..NumContacts] /\ loop[t] < NumContacts /\ loop[t] \in Nat
      /\ step \in [Tasks -> {"write", "publish"}] /\ NumContacts \in Nat
  BY <1>1, CreateContactsAssumption DEF CreateInv, LoopType, LoopInv
<1>3. LoopType'
  BY <1>1, <1>2 DEF CreateInv, LoopType
<1>4. \A u \in Tasks : Tried(u)' = Tried(u)
  BY <1>1, <1>2 DEF Tried
<1>5. Finished' = Finished /\ Queued' = Queued
  <2>1. PICK value \in Nat : Publish(t, value)
    <3>1. loop[t] \div NumContacts \in Nat
      BY <1>2
    <3>2. QED
      BY <3>1 DEF PublishProgress
  <2>2. QED
    BY <2>1, PublishStep DEF CreateInv, Values
<1>6. Committed' = Committed
  BY <1>1 DEF Committed
<1>7. \A k \in DOMAIN book : book[k] \in Contacts /\ book[k][1] \in Tasks
  <2>1. \A k \in DOMAIN book : book[k] \in Contacts
    BY ElementOfSeq, LenProperties DEF CreateInv, LoopType
  <2>2. QED
    BY <2>1 DEF Contacts
<1>8. t \notin Finished /\ ~IsReported(t)
  BY <1>2 DEF CreateInv, LoopInv
<1>9. LoopInv'
  <2>1. \A u \in Tasks : step'[u] = "publish" => loop'[u] < NumContacts
    BY <1>1, <1>2 DEF CreateInv, LoopInv
  <2>2. \A u \in Finished : u \in Tasks
    BY HeldTasks DEF CreateInv, Pending
  <2>3. \A u \in Finished' : loop'[u] = NumContacts
    BY <1>1, <1>2, <1>5, <1>8, <2>2 DEF CreateInv, LoopInv
  <2>4. \A u \in Tasks : IsReported(u)' => loop'[u] = NumContacts
    BY <1>1, <1>2, <1>8 DEF CreateInv, LoopInv, IsReported
  <2>5. QED
    BY <1>1, <1>4, <1>6, <1>7, <2>1, <2>3, <2>4 DEF CreateInv, LoopInv
<1>10. BookInv'
  BY <1>1, <1>5 DEF CreateInv, BookInv, BookInOrder
<1>11. QED
  BY <1>3, <1>9, <1>10 DEF CreateInv

LEMMA CreateNext == CreateInv /\ [Next]_vars => CreateInv'
<1> SUFFICES ASSUME CreateInv, [Next]_vars PROVE CreateInv'
  OBVIOUS
<1>1. FrameworkInv'
  BY NextIsFramework, FrameworkStep DEF CreateInv
<1>2. CASE CreateClick
  <2>1. Queued' = Queued \cup {submitted + 1} /\ Finished' = Finished
    BY <1>2, ExecuteStep DEF CreateInv, CreateClick
  <2>2. submitted' = submitted + 1 /\ UNCHANGED <<active, reported, loop, step, book, failed>>
    BY <1>2 DEF CreateClick, Execute, NewTask
  <2>3. QED
    BY <1>1, <2>1, <2>2, QuietStep DEF IsReported
<1>3. CASE StartCreate
  <2>1. Queued = Queued' \cup active' /\ Finished' = Finished
    BY <1>3, StartStep DEF CreateInv, StartCreate
  <2>2. UNCHANGED <<submitted, reported, loop, step, book, failed>>
    BY <1>3 DEF StartCreate, Start, createVars
  <2>3. QED
    BY <1>1, <2>1, <2>2, QuietStep DEF IsReported
<1>4. CASE DeliverProgress
  <2>1. Queued' = Queued /\ Finished' = Finished
    BY <1>4, HandleProgressStep DEF CreateInv, DeliverProgress
  <2>2. UNCHANGED <<submitted, active, reported, loop, step, book, failed>>
    BY <1>4 DEF DeliverProgress, HandleProgress
  <2>3. QED
    BY <1>1, <2>1, <2>2, QuietStep DEF IsReported
<1>5. CASE DeliverCreated
  <2>1. /\ Queued' = Queued /\ Finished = Finished' \cup {Message.task}
        /\ \A u : IsReported(u)' => IsReported(u) \/ u = Message.task
    BY <1>5, HandleResultStep DEF CreateInv, DeliverCreated
  <2>2. UNCHANGED <<submitted, active, loop, step, book, failed>>
    BY <1>5 DEF DeliverCreated, HandleResult
  <2>3. QED
    BY <1>1, <2>1, <2>2, QuietStep
<1>6. CASE Kill
  <2>1. Queued' = {} /\ Finished' = {}
    BY <1>6, KillStep DEF CreateInv, Kill
  <2>2. active' = {} /\ UNCHANGED <<submitted, reported, loop, step, book, failed>>
    BY <1>6 DEF Kill, KillTasks
  <2>3. QED
    BY <1>1, <2>1, <2>2, QuietStep DEF IsReported
<1>7. CASE Rotate \/ UNCHANGED vars
  <2>1. UNCHANGED <<taskVars, loop, step, book, failed>>
    BY <1>7 DEF Rotate, vars, createVars
  <2>2. UNCHANGED <<Queued, Finished, submitted, active, reported>>
    BY <2>1 DEF taskVars, Queued, Finished
  <2>3. QED
    BY <1>1, <2>1, <2>2, QuietStep DEF IsReported
<1>8. CASE CreateBody
  <2>1. PICK t \in Tasks : Commit(t) \/ CommitFails(t) \/ CommitUnheard(t)
                           \/ PublishProgress(t) \/ Generated(t)
    BY <1>8 DEF CreateBody
  <2>2. CASE Generated(t)
    <3>1. Queued' = Queued /\ Finished' = Finished \cup {t}
      BY <2>2, FinishStep DEF CreateInv, Generated, Values
    <3>2. /\ loop[t] = NumContacts /\ active' = active \ {t}
          /\ UNCHANGED <<submitted, reported, loop, step, book, failed>>
      BY <2>2 DEF Generated, Finish, createVars
    <3>3. QED
      BY <1>1, <3>1, <3>2, QuietStep DEF IsReported
  <2>3. QED
    BY <1>1, <2>1, <2>2, WriteStep, PublishProgressStep
<1>9. QED
  BY <1>2, <1>3, <1>4, <1>5, <1>6, <1>7, <1>8 DEF Next, CreateCallbacks

-----------------------------------------------------------------------------
(* The bars. *)

(* A task beyond the last tap has no bar; what is published is a number.    *)
BarType ==
  /\ activity \in Activities
  /\ bars \in [Activities -> [visible : BOOLEAN, progress : Nat]]
  /\ barOf \in [Tasks -> 0..MaxActivities]
  /\ \A t \in Tasks : t > submitted => barOf[t] = 0
  /\ lost \subseteq Tasks /\ \A t : IsReported(t) => t \in Tasks
  /\ \A k \in DOMAIN looper :
       looper[k].task \in Tasks /\ (~looper[k].result => looper[k].value \in Nat)

BarInv == CreateInv /\ BarType /\ BarTellsCreation

LEMMA BarInit == Init => BarInv
<1> SUFFICES ASSUME Init PROVE BarInv
  OBVIOUS
<1>1. CreateInv /\ DOMAIN << >> = {} /\ ~\E t : IsReported(t)
  BY CreateInit DEF Init, InitTasks, IsReported
<1>2. activity \in Activities /\ FreshBar \in [visible : BOOLEAN, progress : Nat]
  BY CreateContactsAssumption DEF Init, InitCreate, Activities, FreshBar
<1>3. BarType
  BY <1>1, <1>2, CreateContactsAssumption DEF Init, InitTasks, InitCreate, BarType
<1>4. BarTellsCreation
  BY CreateContactsAssumption, <1>1
  DEF Init, InitTasks, InitCreate, BarTellsCreation, Activities, FreshBar
<1>5. QED
  BY <1>1, <1>3, <1>4 DEF BarInv

(* No bar is shown or hidden, and no task begins or ceases to be pending. *)
LEMMA BarKept ==
  ASSUME BarTellsCreation, UNCHANGED <<barOf, Pending, reported>>,
         \A a \in Activities : bars'[a].visible = bars[a].visible
  PROVE  BarTellsCreation'
BY DEF BarTellsCreation, IsReported

(* What a message more on the looper, or one less, leaves of the types. *)
LEMMA LooperGrows ==
  ASSUME CreateInv, BarType, NEW t \in Tasks, NEW message \in Messages, message.task = t,
         ~message.result => message.value \in Nat, looper' = Append(looper, message)
  PROVE  \A k \in DOMAIN looper' :
           looper'[k].task \in Tasks /\ (~looper'[k].result => looper'[k].value \in Nat)
<1>1. looper \in Seq(Messages)
  BY DEF CreateInv, FrameworkInv, FrameworkType
<1>2. /\ DOMAIN looper = 1..Len(looper) /\ Len(looper) \in Nat
      /\ DOMAIN looper' = 1..(Len(looper) + 1)
      /\ \A k \in DOMAIN looper : looper'[k] = looper[k]
      /\ looper'[Len(looper) + 1] = message
  BY <1>1, AppendIndices
<1>3. \A k \in DOMAIN looper' : k \in DOMAIN looper \/ k = Len(looper) + 1
  BY <1>2
<1>4. QED
  BY <1>2, <1>3 DEF BarType

LEMMA LooperShrinks ==
  ASSUME CreateInv, BarType, looper # << >>, looper' = Tail(looper)
  PROVE  /\ Message.task \in Tasks /\ (~Message.result => Message.value \in Nat)
         /\ \A k \in DOMAIN looper' :
              looper'[k].task \in Tasks /\ (~looper'[k].result => looper'[k].value \in Nat)
<1>1. looper \in Seq(Messages)
  BY DEF CreateInv, FrameworkInv, FrameworkType
<1>2. /\ DOMAIN looper = 1..Len(looper) /\ Len(looper) \in Nat \ {0}
      /\ DOMAIN looper' = 1..(Len(looper) - 1)
      /\ \A k \in DOMAIN looper' : looper'[k] = looper[k + 1]
      /\ Message = looper[1]
  BY <1>1, TailIndices DEF Message
<1>3. 1 \in DOMAIN looper /\ \A k \in DOMAIN looper' : k + 1 \in DOMAIN looper
  BY <1>2
<1>4. QED
  BY <1>2, <1>3 DEF BarType

(* The menu item: the new task is the only one of its bar's that counts.    *)
LEMMA CreateClickBar == ASSUME BarInv, CreateClick PROVE BarType' /\ BarTellsCreation'
<1>1. /\ submitted \in Nat /\ submitted < MaxTasks /\ submitted' = submitted + 1
      /\ barOf' = [barOf EXCEPT ![submitted + 1] = activity]
      /\ bars' = [bars EXCEPT ![activity].visible = TRUE]
      /\ UNCHANGED <<activity, looper, reported, lost, active>>
  BY DEF CreateClick, Execute, NewTask, BarInv, CreateInv, FrameworkInv, FrameworkType
<1>2. Pending' = Pending \cup {submitted + 1}
  BY ExecuteStep DEF BarInv, CreateInv, CreateClick, Service!Submit
<1>3. submitted + 1 \in Tasks /\ \A t \in Pending : t \in Nat /\ t <= submitted
  BY <1>1, HeldTasks, AsyncTaskAssumption DEF BarInv, CreateInv, Tasks
<1>4. BarType'
  <2>1. /\ activity \in Activities /\ activity \in 0..MaxActivities
        /\ bars \in [Activities -> [visible : BOOLEAN, progress : Nat]]
        /\ barOf \in [Tasks -> 0..MaxActivities]
    BY CreateContactsAssumption DEF BarInv, BarType, Activities
  <2>2. bars' \in [Activities -> [visible : BOOLEAN, progress : Nat]]
    BY <1>1, <2>1
  <2>3. barOf' \in [Tasks -> 0..MaxActivities]
    BY <1>1, <1>3, <2>1
  <2>4. \A t \in Tasks : t > submitted' => t > submitted /\ t # submitted + 1
    BY <1>1, AsyncTaskAssumption DEF Tasks
  <2>5. \A t \in Tasks : t > submitted' => barOf'[t] = 0
    BY <1>1, <2>1, <2>4 DEF BarInv, BarType
  <2>6. QED
    BY <1>1, <2>1, <2>2, <2>3, <2>5 DEF BarInv, BarType, IsReported
<1>5. /\ \A t \in Tasks : t # submitted + 1 => barOf'[t] = barOf[t]
      /\ barOf'[submitted + 1] = activity /\ barOf[submitted + 1] = 0
      /\ bars'[activity].visible /\ activity \in Activities
      /\ \A a \in Activities : a # activity => bars'[a].visible = bars[a].visible
  BY <1>1, <1>3 DEF BarInv, BarType
<1>6. ASSUME NEW a \in Activities
      PROVE  LET given == {t \in Tasks : barOf'[t] = a} IN
             /\ bars'[a].visible => given \cap Pending' # {}
             /\ ~bars'[a].visible =>
                  \A t \in given \cap Pending' : \E u \in given : u < t /\ IsReported(u)
  <2>1. CASE a = activity
    BY <1>2, <1>3, <1>5, <2>1
  <2>2. CASE a # activity
    <3>1. {t \in Tasks : barOf'[t] = a} = {t \in Tasks : barOf[t] = a}
      BY <1>5, <2>2 DEF Activities
    <3>2. submitted + 1 \notin {t \in Tasks : barOf[t] = a}
      BY <1>5 DEF Activities
    <3>3. QED
      BY <1>2, <1>5, <2>2, <3>1, <3>2 DEF BarInv, BarTellsCreation
  <2>3. QED
    BY <2>1, <2>2
<1>7. BarTellsCreation'
  BY <1>1, <1>6 DEF BarTellsCreation, IsReported
<1>8. QED
  BY <1>4, <1>7

(* onPostExecute: what is reported is older than all that is pending.       *)
LEMMA DeliverCreatedBar == ASSUME BarInv, DeliverCreated PROVE BarType' /\ BarTellsCreation'
<1>0. PICK m \in Tasks : m = Message.task
  BY LooperShrinks DEF BarInv, DeliverCreated, HandleResult
<1> DEFINE entry == [task |-> m, value |-> Message.value]
<1>1. /\ HandleResult /\ looper # << >> /\ looper' = Tail(looper) /\ Message.result
      /\ reported' = Append(reported, entry) /\ barOf[m] # 0
      /\ bars' = [bars EXCEPT ![barOf[m]].visible = FALSE]
      /\ UNCHANGED <<activity, barOf, submitted, queue, active, lost>>
  BY <1>0 DEF DeliverCreated, HandleResult, IsCreation
<1>2. /\ Service!Answer /\ Queued' = Queued /\ Finished = Finished' \cup {m}
      /\ \A u : IsReported(u)' => IsReported(u) \/ u = m
  BY <1>0, <1>1, HandleResultStep DEF BarInv, CreateInv
<1>3. m \in Tasks /\ m \in Nat
      /\ \A k \in DOMAIN looper' :
           looper'[k].task \in Tasks /\ (~looper'[k].result => looper'[k].value \in Nat)
  BY <1>1, LooperShrinks, AsyncTaskAssumption DEF BarInv, Tasks
<1>4. Pending' = Pending \ {m} /\ \A u \in Pending' : m < u
  <2>1. PICK x \in Pending : Service!Oldest(x) /\ Pending' = Pending \ {x}
    BY <1>2 DEF Service!Answer
  <2>2. Pending = Pending' \cup {m}
    BY <1>1, <1>2 DEF Pending
  <2>3. x = m
    BY <2>1, <2>2
  <2>4. \A u \in Pending : u \in Nat
    BY HeldTasks DEF BarInv, CreateInv
  <2>5. QED
    BY <1>3, <2>1, <2>3, <2>4 DEF Service!Oldest
<1>5. IsReported(m)' /\ \A u : IsReported(u) => IsReported(u)'
  <2>1. /\ reported \in Seq([task : Nat, value : Values])
        /\ Message \in Messages
    <3>1. 1 \in DOMAIN looper /\ Message = looper[1]
      BY <1>1, LooperTail DEF BarInv, CreateInv
    <3>2. QED
      BY <3>1, HeldTasks DEF BarInv, CreateInv, FrameworkInv, FrameworkType
  <2>2. entry \in [task : Nat, value : Values] /\ entry.task = m
    BY <1>3, <2>1 DEF Messages
  <2> HIDE DEF entry
  <2>3. /\ DOMAIN reported = 1..Len(reported) /\ Len(reported) \in Nat
        /\ DOMAIN reported' = 1..(Len(reported) + 1)
        /\ \A k \in DOMAIN reported : reported'[k] = reported[k]
        /\ reported'[Len(reported) + 1] = entry
    BY <1>1, <2>1, <2>2, AppendIndices
  <2>4. Len(reported) + 1 \in DOMAIN reported' /\ DOMAIN reported \subseteq DOMAIN reported'
    BY <2>3
  <2>5. IsReported(m)'
    <3>1. reported'[Len(reported) + 1].task = m
      BY <2>2, <2>3
    <3>2. QED
      BY <2>4, <3>1 DEF IsReported
  <2>6. ASSUME NEW u, IsReported(u) PROVE IsReported(u)'
    <3>1. PICK k \in DOMAIN reported : reported[k].task = u
      BY <2>6 DEF IsReported
    <3>2. k \in DOMAIN reported' /\ reported'[k].task = u
      BY <2>3, <2>4, <3>1
    <3>3. QED
      BY <3>2 DEF IsReported
  <2>7. QED
    BY <2>5, <2>6
<1> HIDE DEF entry
<1>6. BarType'
  BY <1>1, <1>2, <1>3 DEF BarInv, BarType
<1>7. /\ barOf[m] \in Activities /\ ~bars'[barOf[m]].visible
      /\ \A a \in Activities : a # barOf[m] => bars'[a] = bars[a]
  BY <1>1, <1>3, CreateContactsAssumption DEF BarInv, BarType, Activities
<1>8. ASSUME NEW a \in Activities
      PROVE  LET given == {t \in Tasks : barOf[t] = a} IN
             /\ bars'[a].visible => given \cap Pending' # {}
             /\ ~bars'[a].visible =>
                  \A t \in given \cap Pending' : \E u \in given : u < t /\ IsReported(u)'
  <2>1. CASE a = barOf[m]
    <3>1. ~bars'[a].visible
      BY <1>7, <2>1
    <3>2. \A t \in Pending' : m < t /\ IsReported(m)'
      BY <1>4, <1>5
    <3>3. m \in {t \in Tasks : barOf[t] = a}
      BY <1>3, <2>1
    <3>4. QED
      BY <3>1, <3>2, <3>3
  <2>2. CASE a # barOf[m]
    <3>1. {t \in Tasks : barOf[t] = a} \cap Pending' = {t \in Tasks : barOf[t] = a} \cap Pending
      BY <1>4, <2>2
    <3>2. QED
      BY <1>5, <1>7, <2>2, <3>1 DEF BarInv, BarTellsCreation
  <2>3. QED
    BY <2>1, <2>2
<1>9. BarTellsCreation'
  BY <1>1, <1>8 DEF BarTellsCreation
<1>10. QED
  BY <1>6, <1>9

LEMMA BarNext == BarInv /\ [Next]_vars => BarInv'
<1> SUFFICES ASSUME BarInv, [Next]_vars PROVE BarType' /\ BarTellsCreation'
  BY CreateNext DEF BarInv
<1>1. FrameworkInv /\ CreateInv /\ BarType /\ BarTellsCreation
  BY DEF BarInv, CreateInv
<1>2. CASE CreateClick \/ DeliverCreated
  BY <1>2, CreateClickBar, DeliverCreatedBar
<1>3. CASE StartCreate
  <2>1. Pending' = Pending /\ UNCHANGED <<createVars, submitted, looper, reported, lost>>
    BY <1>1, <1>3, StartStep DEF StartCreate, Start
  <2>2. QED
    BY <1>1, <2>1, BarKept DEF BarType, createVars, IsReported
<1>4. CASE DeliverProgress
  <2>1. /\ Pending' = Pending /\ UNCHANGED <<activity, barOf, submitted, reported, lost>>
        /\ looper # << >> /\ ~Message.result /\ looper' = Tail(looper)
        /\ bars' = [bars EXCEPT ![barOf[Message.task]].progress = Message.value]
    BY <1>1, <1>4, HandleProgressStep DEF DeliverProgress, HandleProgress
  <2>2. /\ Message.value \in Nat
        /\ \A k \in DOMAIN looper' :
             looper'[k].task \in Tasks /\ (~looper'[k].result => looper'[k].value \in Nat)
    BY <1>1, <2>1, LooperShrinks
  <2>3. /\ bars' \in [Activities -> [visible : BOOLEAN, progress : Nat]]
        /\ \A a \in Activities : bars'[a].visible = bars[a].visible
    BY <1>1, <2>1, <2>2 DEF BarType
  <2>4. QED
    BY <1>1, <2>1, <2>2, <2>3, BarKept DEF BarType, IsReported
<1>5. CASE Kill
  <2>1. /\ Pending' = {} /\ looper' = << >> /\ lost' = lost \cup Pending
        /\ activity < MaxActivities /\ activity' = activity + 1
        /\ bars' = [a \in Activities |-> FreshBar]
        /\ UNCHANGED <<barOf, submitted, reported>>
    BY <1>1, <1>5, KillStep DEF Kill, KillTasks, Service!Crash
  <2>2. Pending \subseteq Tasks /\ DOMAIN << >> = {}
    BY <1>1, HeldTasks
  <2>3. BarType'
    BY <1>1, <2>1, <2>2, CreateContactsAssumption DEF BarType, Activities, FreshBar, IsReported
  <2>4. BarTellsCreation'
    BY <2>1 DEF BarTellsCreation, FreshBar
  <2>5. QED
    BY <2>3, <2>4
<1>6. CASE Rotate \/ UNCHANGED vars
  <2>1. /\ UNCHANGED <<taskVars, bars, barOf>>
        /\ activity' = activity \/ (activity < MaxActivities /\ activity' = activity + 1)
    BY <1>6 DEF Rotate, vars, createVars
  <2>2. UNCHANGED <<Pending, submitted, looper, reported, lost>>
    BY <2>1 DEF taskVars, Pending, Queued, Finished
  <2>3. QED
    BY <1>1, <2>1, <2>2, BarKept, CreateContactsAssumption DEF BarType, Activities, IsReported
<1>7. CASE CreateBody
  <2>1. PICK t \in Tasks : Commit(t) \/ CommitFails(t) \/ CommitUnheard(t)
                           \/ PublishProgress(t) \/ Generated(t)
    BY <1>7 DEF CreateBody
  <2>2. UNCHANGED <<activity, bars, barOf>>
    BY <2>1 DEF Commit, CommitFails, CommitUnheard, PublishProgress, Generated, createVars
  <2>3. CASE Commit(t) \/ CommitFails(t) \/ CommitUnheard(t)
    <3>1. UNCHANGED taskVars
      BY <2>3 DEF Commit, CommitFails, CommitUnheard
    <3>2. UNCHANGED <<Pending, submitted, looper, reported, lost>>
      BY <3>1 DEF taskVars, Pending, Queued, Finished
    <3>3. QED
      BY <1>1, <2>2, <3>2, BarKept DEF BarType, IsReported
  <2>4. CASE PublishProgress(t)
    <3>1. PICK value \in Nat : Publish(t, value)
      <4>1. loop[t] \div NumContacts \in Nat
        BY <1>1, ProgressValue DEF CreateInv
      <4>2. QED
        BY <2>4, <4>1 DEF PublishProgress
    <3>2. /\ Pending' = Pending /\ UNCHANGED <<submitted, reported, lost>>
          /\ looper' = Append(looper, Progress(t, value))
      BY <1>1, <3>1, PublishStep DEF Publish, Values
    <3>3. Progress(t, value) \in Messages /\ Progress(t, value).task = t
          /\ Progress(t, value).value = value
      BY AsyncTaskAssumption DEF Progress, Messages, Values, Tasks
    <3>4. \A k \in DOMAIN looper' :
            looper'[k].task \in Tasks /\ (~looper'[k].result => looper'[k].value \in Nat)
      BY <1>1, <3>2, <3>3, LooperGrows
    <3>5. QED
      BY <1>1, <2>2, <3>2, <3>4, BarKept DEF BarType, IsReported
  <2>5. CASE Generated(t)
    <3>1. /\ Pending' = Pending /\ UNCHANGED <<submitted, reported, lost>>
          /\ looper' = Append(looper, Result(t, "created"))
      BY <1>1, <2>5, FinishStep DEF Generated, Finish, Values
    <3>2. /\ Result(t, "created") \in Messages /\ Result(t, "created").task = t
          /\ Result(t, "created").result
      BY AsyncTaskAssumption DEF Result, Messages, Values, Tasks
    <3>3. \A k \in DOMAIN looper' :
            looper'[k].task \in Tasks /\ (~looper'[k].result => looper'[k].value \in Nat)
      BY <1>1, <3>1, <3>2, LooperGrows
    <3>4. QED
      BY <1>1, <2>2, <3>1, <3>3, BarKept DEF BarType, IsReported
  <2>6. QED
    BY <2>1, <2>3, <2>4, <2>5
<1>8. QED
  BY <1>2, <1>3, <1>4, <1>5, <1>6, <1>7 DEF Next, CreateCallbacks

-----------------------------------------------------------------------------
(* The state of creation, of the bars and of the executor keeps its type.   *)
THEOREM TypeCorrect == Spec => []TypeOK
<1>1. BarInv => TypeOK
  <2> SUFFICES ASSUME BarInv PROVE TypeOK
    OBVIOUS
  <2>1. /\ \A k \in DOMAIN looper : looper[k] \in Messages
        /\ \A t \in Pending : t \in Tasks
        /\ \A k \in DOMAIN queue : queue[k] \in Queued
    BY HeldTasks DEF BarInv, CreateInv
  <2>2. queue \in Seq(Tasks)
    <3>1. queue \in [1..Len(queue) -> Tasks] /\ Len(queue) \in Nat
      BY <2>1, LenProperties DEF BarInv, CreateInv, FrameworkInv, FrameworkType, Pending
    <3>2. QED
      BY <3>1
  <2>3. TasksTypeOK
    BY <2>1, <2>2
    DEF BarInv, BarType, CreateInv, FrameworkInv, FrameworkType, TasksTypeOK, IsReported, Pending,
      Messages
  <2>4. QED
    BY <2>3 DEF BarInv, BarType, CreateInv, LoopType, Contacts, TypeOK
<1>2. QED
  BY <1>1, BarInit, BarNext, PTL DEF Spec

(* onPreExecute shows and onPostExecute hides the bar of the instance the   *)
(* task was given, whatever instance is on the screen: a bar is visible     *)
(* only for a pending creation, and hidden beside one only if an older      *)
(* creation on the same bar was reported.                                   *)
THEOREM BarsTell == Spec => []BarTellsCreation
<1>1. BarInv => BarTellsCreation
  BY DEF BarInv
<1>2. QED
  BY <1>1, BarInit, BarNext, PTL DEF Spec

-----------------------------------------------------------------------------
(* Contacts are committed in the order of the taps and of the loops, each   *)
(* at most once: writeContact is never tried again, and the serial executor *)
(* keeps the loops of two creations apart.                                  *)
THEOREM ContactsInOrder == Spec => []BookInOrder
<1>1. CreateInv => BookInOrder
  BY DEF CreateInv, BookInv
<1>2. QED
  BY <1>1, CreateInit, CreateNext, PTL DEF Spec

(* A creation whose onPostExecute ran has come by each of its contacts:     *)
(* what is missing from the contact book was logged as failed.              *)
THEOREM NoContactForgotten == Spec => []ReportedIsWritten
<1>1. CreateInv => ReportedIsWritten
  <2> SUFFICES ASSUME CreateInv PROVE ReportedIsWritten
    OBVIOUS
  <2>1. ASSUME NEW t \in Tasks, IsReported(t), NEW i \in 0..NumContacts - 1
        PROVE  <<t, i>> \in Committed \cup failed
    <3>1. loop[t] = NumContacts
      BY <2>1 DEF CreateInv, LoopInv
    <3>2. i \in Tried(t)
      BY <3>1, CreateContactsAssumption DEF Tried
    <3>3. QED
      BY <3>2 DEF CreateInv, LoopInv
  <2>2. ASSUME NEW k \in DOMAIN book PROVE book[k][2] <= loop[book[k][1]]
    <3>1. book[k] \in Contacts
      BY ElementOfSeq, LenProperties DEF CreateInv, LoopType
    <3>2. book[k][1] \in Tasks /\ loop[book[k][1]] \in Nat /\ book[k][2] \in Nat
      BY <3>1, CreateContactsAssumption DEF Contacts, CreateInv, LoopType
    <3>3. book[k][2] \in Tried(book[k][1])
      BY DEF CreateInv, LoopInv
    <3>4. QED
      BY <3>2, <3>3 DEF Tried
  <2>3. QED
    BY <2>1, <2>2 DEF ReportedIsWritten, ContactsOf, Committed
<1>2. QED
  BY <1>1, CreateInit, CreateNext, PTL DEF Spec

(* Creation answers the taps like TaskService: in their order, each at most *)
(* once, losing none but to the death of the process.                       *)
THEOREM CreationImplementsService == Spec => ServiceSpec
<1>1. Init => Service!Init
  BY FrameworkInit DEF Init
<1>2. CreateInv /\ [Next]_vars => [Service!Next]_(Service!vars)
  <2> SUFFICES ASSUME CreateInv, [Next]_vars PROVE [Service!Next]_(Service!vars)
    OBVIOUS
  <2>1. QED
    BY NextIsFramework, FrameworkStep DEF CreateInv
<1>3. QED
  BY <1>1, <1>2, CreateInit, CreateNext, PTL DEF Spec, ServiceSpec, Service!Spec

=============================================================================
