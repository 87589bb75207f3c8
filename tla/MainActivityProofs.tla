------------------------- MODULE MainActivityProofs -------------------------
(***************************************************************************)
(* The composed application for every number of taps, contacts, instances  *)
(* and deaths of the process: what a posted text contains, and that it is  *)
(* the FIFO service of TaskService.                                        *)
(***************************************************************************)
EXTENDS MainActivity, AsyncTaskProofs

Contacts == Tasks \X (0..NumContacts - 1)

(* The instances' steps of the framework are the framework's own. *)
LEMMA SameFramework ==
  /\ Create!Execute = Execute /\ Post!Execute = Execute
  /\ Create!HandleProgress = HandleProgress
  /\ Create!HandleResult = HandleResult /\ Post!HandleResult = HandleResult
  /\ Create!KillTasks = KillTasks /\ Post!KillTasks = KillTasks
  /\ \A t, value : /\ Create!Publish(t, value) = Publish(t, value)
                   /\ Create!Finish(t, value) = Finish(t, value)
                   /\ Post!Finish(t, value) = Finish(t, value)
  /\ Create!Tasks = Tasks /\ Post!Tasks = Tasks
  /\ Create!NewTask = NewTask /\ Post!NewTask = NewTask
  /\ Create!Message = Message /\ Post!Message = Message
BY DEF Create!Execute, Post!Execute, Execute, Create!NewTask, Post!NewTask, NewTask,
  Create!HandleProgress, HandleProgress, Create!Message, Post!Message, Message,
  Create!HandleResult, Post!HandleResult, HandleResult,
  Create!KillTasks, Post!KillTasks, KillTasks,
  Create!Pending, Post!Pending, Pending, Create!Finished, Post!Finished, Finished,
  Create!Queued, Post!Queued, Queued,
  Create!Publish, Publish, Create!Progress, Progress,
  Create!Finish, Post!Finish, Finish, Create!Result, Post!Result, Result,
  Create!Tasks, Post!Tasks, Tasks

(* A step of doInBackground of a PostTask, as seen from outside. *)
LEMMA PostBodyEffect ==
  ASSUME Post!PostBody
  PROVE  /\ level' = level
         /\ \/ UNCHANGED taskVars
            \/ \E t \in Tasks, value \in Values : level[t] # "none" /\ Finish(t, value)
<1>1. PICK t \in Tasks : Post!Local(t) \/ Post!Remote(t)
  BY SameFramework DEF Post!PostBody
<1> DEFINE Quiet == UNCHANGED <<taskVars, level>>
           Ended(value) == level[t] # "none" /\ level' = level /\ Finish(t, value)
<1>2. ASSUME NEW s, Post!At(t, s) PROVE level[t] # "none"
  BY <1>2 DEF Post!At, Post!IsPost
<1>3. \A result, connection, strings :
        Post!Ends(t, result, connection, strings) => Finish(t, result) /\ level' = level
  BY SameFramework DEF Post!Ends
<1>4. CASE \/ Post!Prepare(t) \/ Post!OpenFile(t) \/ Post!OpenFileFails(t) \/ Post!Flush(t)
           \/ Post!ReadBack(t) \/ Post!Connect(t) \/ Post!NativeConnects(t)
  <2>1. Quiet
    BY <1>4
    DEF Post!taskVars, taskVars, Post!Prepare, Post!OpenFile, Post!OpenFileFails, Post!Flush,
      Post!ReadBack, Post!Connect, Post!NativeConnects
  <2>2. QED
    BY <2>1
<1>5. CASE Post!Sends(t) \/ Post!Respond(t) \/ Post!Resend(t) \/ Post!NativeSends(t)
  <2>1. Quiet
    BY <1>5
    DEF Post!taskVars, taskVars, Post!Sends, Post!Respond, Post!Resend, Post!NativeSends
  <2>2. QED
    BY <2>1
<1>6. CASE \/ Post!ConnectFails(t) \/ Post!ConnectionBreaks(t) \/ Post!Refuse(t)
           \/ Post!ReadResponse(t) \/ Post!NativeFails(t) \/ Post!NativeLeaks(t)
           \/ Post!NativeSucceeds(t)
  <2>1. level[t] # "none"
    <3> HIDE DEF Quiet, Ended
    <3>1. QED
      BY <1>2, <1>6
      DEF Post!ConnectFails, Post!ConnectionBreaks, Post!Refuse, Post!ReadResponse,
        Post!NativeFails, Post!NativeLeaks, Post!NativeSucceeds, Post!AtNative, Post!InCall
  <2>2. CASE Post!ConnectFails(t)
    BY <1>3, <2>1, <2>2 DEF Post!ConnectFails, Values
  <2>3. CASE Post!ConnectionBreaks(t)
    BY <1>3, <2>1, <2>3 DEF Post!ConnectionBreaks, Values
  <2>4. CASE Post!Refuse(t)
    BY <1>3, <2>1, <2>4 DEF Post!Refuse, Values
  <2>5. CASE Post!ReadResponse(t)
    BY <1>3, <2>1, <2>5 DEF Post!ReadResponse, Values
  <2>6. CASE Post!NativeFails(t)
    BY <1>3, <2>1, <2>6 DEF Post!NativeFails, Values
  <2>7. CASE Post!NativeLeaks(t)
    BY SameFramework, <2>1, <2>7 DEF Post!NativeLeaks, Values
  <2>8. CASE Post!NativeSucceeds(t)
    BY <1>3, <2>1, <2>8 DEF Post!NativeSucceeds, Values
  <2>9. QED
    BY <1>6, <2>2, <2>3, <2>4, <2>5, <2>6, <2>7, <2>8
<1>7. QED
  BY <1>1, <1>4, <1>5, <1>6 DEF Post!Local, Post!Remote

-----------------------------------------------------------------------------
(* The invariant.                                                           *)

IsCreation(t) == barOf[t] # 0
IsPost(t) == level[t] # "none"

(* A task is of one class, and of none before its tap. *)
ClassInv ==
  /\ barOf \in [Tasks -> Nat] /\ activity \in Nat
  /\ level \in [Tasks -> Buttons \cup {"none"}]
  /\ \A t \in Tasks : ~(IsCreation(t) /\ IsPost(t))
  /\ \A t \in Tasks : t > submitted => ~IsCreation(t) /\ ~IsPost(t)
  /\ \A t : IsReported(t) => t \in Tasks /\ t <= submitted

LoopType ==
  /\ loop \in [Tasks -> 0..NumContacts] /\ step \in [Tasks -> {"write", "publish"}]
  /\ book \in Seq(Contacts) /\ failed \subseteq Contacts
  /\ \A t \in Tasks : step[t] = "publish" => loop[t] < NumContacts

(* What a loop has come by. *)
Tried(t) == {i \in 0..NumContacts - 1 :
               i < loop[t] \/ (i = loop[t] /\ step[t] = "publish")}

(* As in CreateContacts, of the creations among the tasks. *)
LoopInv ==
  /\ \A t \in Tasks, i \in 0..NumContacts - 1 :
       i \in Tried(t) => <<t, i>> \in First(Len(book)) \cup failed
  /\ \A t \in Finished : IsCreation(t) => loop[t] = NumContacts
  /\ \A t \in Tasks : IsReported(t) /\ IsCreation(t) => loop[t] = NumContacts

ReaderType ==
  /\ reader \in [level : Buttons \cup {"none"}, left : SUBSET Rows]
  /\ content \in [Tasks -> SUBSET Contacts] /\ seen \in [Tasks -> SUBSET Tasks]

(* What a creation wrote, or may have written. *)
Owed(t) == ({t} \X (0..NumContacts - 1)) \ failed

(* The text of the tap being handled, once its loop is through. *)
Whole == content[NewTask] \cup reader.left

(* What the properties say of the texts that were posted holds of the one   *)
(* being read as well, once it is whole.                                    *)
TextsInv ==
  /\ ContentIsSnapshot /\ LaterPostsMore
  /\ \A p \in Tasks : IsPost(p) => \A t \in seen[p] : Owed(t) \subseteq content[p]

ReaderInv ==
  reader # NoTap =>
    /\ submitted < MaxTasks
    /\ \E n \in 0..Len(book) : Whole = First(n)
    /\ \A p \in Tasks : IsPost(p) => content[p] \subseteq Whole
    /\ \A t \in seen[NewTask] : Owed(t) \subseteq Whole

MainInv ==
  FrameworkInv /\ ClassInv /\ LoopType /\ LoopInv /\ ReaderType /\ TextsInv /\ ReaderInv

LEMMA MainInit == Init => MainInv
<1> SUFFICES ASSUME Init PROVE MainInv
  OBVIOUS
<1> USE DEF Init, Create!InitCreate, Post!InitPost, InitActivity
<1>1. FrameworkInv /\ << >> \in Seq(Contacts) /\ Len(<< >>) = 0
  BY FrameworkInit, EmptySeq
<1>2. Finished = {} /\ \A t : ~IsReported(t)
  BY <1>1 DEF InitTasks, Finished, IsReported
<1>3. ClassInv
  BY <1>2, SameFramework DEF ClassInv, IsCreation, IsPost
<1>4. LoopType
  BY <1>1, SameFramework, MainActivityAssumption DEF LoopType
<1>5. LoopInv
  <2>1. \A t \in Tasks : loop[t] = 0 /\ step[t] = "write"
    BY SameFramework
  <2>2. \A t \in Tasks : Tried(t) = {}
    BY <2>1 DEF Tried
  <2>3. QED
    BY <1>2, <2>2 DEF LoopInv
<1>6. ReaderType
  BY <1>1 DEF ReaderType, NoTap
<1>7. TextsInv /\ ReaderInv
  <2>1. \A p \in Tasks : ~IsPost(p) /\ ~Post!IsPost(p)
    BY SameFramework DEF IsPost, Post!IsPost
  <2>2. QED
    BY <2>1 DEF TextsInv, ContentIsSnapshot, LaterPostsMore, ReaderInv
<1>8. QED
  BY <1>1, <1>3, <1>4, <1>5, <1>6, <1>7 DEF MainInv

-----------------------------------------------------------------------------
(* Steps that leave parts of the state alone. *)

(* The loops and the book stay; the classes change for new tasks only, and  *)
(* a creation is finished at the end of its loop only.                      *)
LEMMA LoopsKept ==
  ASSUME MainInv, UNCHANGED <<loop, step, book, failed>>,
         \A u \in Tasks : IsCreation(u)' =>
           IsCreation(u) \/ (u \notin Finished' /\ ~IsReported(u)'),
         \A u \in Finished' : u \in Finished \/ ~IsCreation(u)' \/ loop[u] = NumContacts,
         \A u \in Finished' : u \in Tasks,
         \A u \in Tasks : IsReported(u)' => IsReported(u) \/ u \in Finished
  PROVE  LoopType' /\ LoopInv'
<1>1. LoopType'
  BY DEF MainInv, LoopType
<1>2. (\A u \in Tasks : Tried(u)' = Tried(u)) /\ First(Len(book))' = First(Len(book))
  BY DEF Tried, First
<1>3. \A u \in Tasks, i \in 0..NumContacts - 1 :
        i \in Tried(u)' => <<u, i>> \in First(Len(book))' \cup failed'
  BY <1>2 DEF MainInv, LoopInv
<1>4. \A u \in Finished' : IsCreation(u)' => loop'[u] = NumContacts
  BY DEF MainInv, LoopInv
<1>5. \A u \in Tasks : IsReported(u)' /\ IsCreation(u)' => loop'[u] = NumContacts
  BY DEF MainInv, LoopInv
<1>6. QED
  BY <1>1, <1>3, <1>4, <1>5 DEF LoopInv

LEMMA BookGrows ==
  ASSUME NEW b \in Seq(Contacts), NEW c \in Contacts, NEW b2, b2 = Append(b, c)
  PROVE  /\ b2 \in Seq(Contacts) /\ Len(b2) = Len(b) + 1 /\ Len(b) \in Nat
         /\ \A k \in 1..Len(b) : b2[k] = b[k]
         /\ b2[Len(b) + 1] = c
BY AppendProperties, LenProperties

(* Growing, the book keeps its snapshots. *)
LEMMA SnapshotsKept ==
  ASSUME MainInv, book' = book \/ \E c \in Contacts : book' = Append(book, c)
  PROVE  /\ Len(book) \in Nat /\ Len(book') \in Nat /\ Len(book) <= Len(book')
         /\ \A n \in 0..Len(book) : n \in 0..Len(book') /\ First(n)' = First(n)
         /\ Rows \subseteq Rows'
<1>1. book \in Seq(Contacts) /\ Len(book) \in Nat
  BY LenProperties DEF MainInv, LoopType
<1>2. Len(book') \in Nat /\ Len(book) <= Len(book') /\ \A k \in 1..Len(book) : book'[k] = book[k]
  BY <1>1, BookGrows
<1>3. \A n \in 0..Len(book) : First(n)' = First(n)
  <2> SUFFICES ASSUME NEW n \in 0..Len(book) PROVE First(n)' = First(n)
    OBVIOUS
  <2>1. \A k \in 1..n : book'[k] = book[k]
    BY <1>1, <1>2
  <2>2. QED
    BY <2>1 DEF First
<1>4. Rows \subseteq Rows'
  <2>1. Len(book) \in 0..Len(book) /\ 1..Len(book) \subseteq 1..Len(book')
    BY <1>1, <1>2
  <2>2. QED
    BY <1>2, <2>1 DEF Rows, First
<1>5. QED
  BY <1>1, <1>2, <1>3, <1>4

(* The book may grow beside a reader, whose cursor and texts stay. *)
LEMMA ReaderKept ==
  ASSUME MainInv, UNCHANGED <<reader, content, seen, level>>,
         submitted' = submitted \/ reader = NoTap,
         book' = book \/ \E c \in Contacts : book' = Append(book, c),
         failed \subseteq failed'
  PROVE  ReaderType' /\ TextsInv' /\ ReaderInv'
<1>1. /\ \A n \in 0..Len(book) : n \in 0..Len(book') /\ First(n)' = First(n)
      /\ Rows \subseteq Rows'
  BY SnapshotsKept
<1>2. \A t : Owed(t)' \subseteq Owed(t)
  BY DEF Owed
<1>3. ReaderType'
  BY <1>1 DEF MainInv, ReaderType
<1>4. ContentIsSnapshot'
  <2> SUFFICES ASSUME NEW p \in Tasks, Post!IsPost(p)'
               PROVE  \E n \in 0..Len(book') : content'[p] = First(n)'
    BY DEF ContentIsSnapshot
  <2>1. PICK n \in 0..Len(book) : content[p] = First(n)
    BY DEF MainInv, TextsInv, ContentIsSnapshot, Post!IsPost
  <2>2. QED
    BY <1>1, <2>1
<1>5. LaterPostsMore'
  BY DEF MainInv, TextsInv, LaterPostsMore, Post!IsPost
<1>6. \A p \in Tasks : IsPost(p)' => \A t \in seen'[p] : Owed(t)' \subseteq content'[p]
  BY <1>2 DEF MainInv, TextsInv, IsPost
<1>7. ReaderInv'
  <2> SUFFICES ASSUME reader # NoTap
               PROVE  /\ submitted < MaxTasks /\ submitted' = submitted
                      /\ \E n \in 0..Len(book') : Whole' = First(n)'
                      /\ \A p \in Tasks : IsPost(p)' => content[p] \subseteq Whole'
                      /\ \A t \in seen[NewTask] : Owed(t)' \subseteq Whole'
    BY DEF ReaderInv, NewTask
  <2>1. submitted' = submitted /\ Whole' = Whole
    BY DEF Whole, NewTask
  <2>2. PICK n \in 0..Len(book) : Whole = First(n)
    BY DEF MainInv, ReaderInv
  <2>3. \E m \in 0..Len(book') : Whole' = First(m)'
    BY <1>1, <2>1, <2>2
  <2>4. QED
    BY <1>2, <2>1, <2>3 DEF MainInv, ReaderInv, IsPost
<1>8. QED
  BY <1>3, <1>4, <1>5, <1>6, <1>7 DEF TextsInv

-----------------------------------------------------------------------------
(* The main thread reads a book. *)

(* Nothing but the reader moves. *)
LEMMA OthersKept ==
  ASSUME MainInv, UNCHANGED <<taskVars, createVars, postVars>>
  PROVE  FrameworkInv' /\ ClassInv' /\ LoopType' /\ LoopInv'
<1>1. FrameworkInv'
  BY FrameworkStep DEF MainInv
<1>2. ClassInv'
  BY DEF MainInv, ClassInv, taskVars, createVars, postVars, IsCreation, IsPost, IsReported
<1>3. LoopType' /\ LoopInv'
  BY DEF MainInv, LoopType, LoopInv, taskVars, createVars, First, Tried, Finished, IsReported,
    IsCreation
<1>4. QED
  BY <1>1, <1>2, <1>3

LEMMA NewTaskFresh ==
  ASSUME MainInv, submitted < MaxTasks
  PROVE  /\ NewTask \in Tasks /\ NewTask \in Nat /\ submitted \in Nat
         /\ NewTask = submitted + 1
         /\ ~IsCreation(NewTask) /\ ~IsPost(NewTask) /\ ~IsReported(NewTask)
         /\ \A p \in Tasks : IsPost(p) => p # NewTask /\ p < NewTask
<1>1. submitted \in Nat /\ NewTask = submitted + 1 /\ NewTask \in Tasks /\ NewTask \in Nat
  BY AsyncTaskAssumption DEF MainInv, FrameworkInv, FrameworkType, NewTask, Tasks
<1>2. NewTask > submitted
  BY <1>1
<1>3. ~IsCreation(NewTask) /\ ~IsPost(NewTask) /\ ~IsReported(NewTask)
  BY <1>1, <1>2 DEF MainInv, ClassInv
<1>4. \A p \in Tasks : IsPost(p) => ~(p > submitted)
  BY DEF MainInv, ClassInv
<1>5. \A p \in Tasks : p \in Nat
  BY AsyncTaskAssumption DEF Tasks
<1>6. QED
  BY <1>1, <1>3, <1>4, <1>5

(* Whatever becomes of the text of the tap being handled, the posted ones   *)
(* stay as they are.                                                        *)
LEMMA PostedKept ==
  ASSUME MainInv, UNCHANGED <<book, failed, level>>,
         \A p \in Tasks : IsPost(p) => content'[p] = content[p] /\ seen'[p] = seen[p]
  PROVE  TextsInv'
<1>1. \A p \in Tasks : /\ IsPost(p)' = IsPost(p) /\ Post!IsPost(p)' = IsPost(p)
                       /\ Post!IsPost(p) = IsPost(p)
  BY DEF IsPost, Post!IsPost
<1>2. (\A n : First(n)' = First(n)) /\ (\A t : Owed(t)' = Owed(t))
  BY DEF First, Owed
<1>3. ContentIsSnapshot'
  BY <1>1, <1>2 DEF MainInv, TextsInv, ContentIsSnapshot
<1>4. LaterPostsMore'
  BY <1>1 DEF MainInv, TextsInv, LaterPostsMore
<1>5. (\A p \in Tasks : IsPost(p) => \A t \in seen[p] : Owed(t) \subseteq content[p])'
  BY <1>1, <1>2 DEF MainInv, TextsInv
<1>6. QED
  BY <1>3, <1>4, <1>5 DEF TextsInv

LEMMA OpenCursorStep ==
  ASSUME MainInv, NEW l \in Buttons, OpenCursor(l)
  PROVE  MainInv'
<1>1. FrameworkInv' /\ ClassInv' /\ LoopType' /\ LoopInv'
  BY OthersKept DEF OpenCursor, Opens
<1>2. /\ NewTask \in Tasks /\ submitted < MaxTasks /\ ~IsPost(NewTask)
      /\ reader' = [level |-> l, left |-> Rows]
      /\ content' = [content EXCEPT ![NewTask] = {}]
      /\ seen' = [seen EXCEPT ![NewTask] = {t \in Reported : Create!IsCreation(t)}]
      /\ content \in [Tasks -> SUBSET Contacts] /\ seen \in [Tasks -> SUBSET Tasks]
      /\ UNCHANGED <<book, failed, level, submitted, NewTask>>
      /\ book \in Seq(Contacts) /\ Len(book) \in Nat
  BY NewTaskFresh, LenProperties
  DEF OpenCursor, Opens, MainInv, ReaderType, LoopType, taskVars, createVars, postVars, NewTask
<1>3. {t \in Reported : Create!IsCreation(t)} \subseteq {t \in Tasks : IsReported(t) /\ IsCreation(t)}
  <2>1. ASSUME NEW t \in Reported PROVE IsReported(t)
    BY DEF Reported, IsReported
  <2>2. ASSUME NEW k \in DOMAIN reported PROVE reported[k].task \in Tasks
    BY DEF MainInv, ClassInv, IsReported
  <2>3. QED
    BY <2>1, <2>2 DEF Reported, Create!IsCreation, IsCreation
<1>4. ReaderType'
  <2>1. Rows' = Rows
    BY <1>2 DEF Rows, First
  <2>2. QED
    BY <1>2, <1>3, <2>1 DEF ReaderType
<1>5. /\ \A p \in Tasks : p # NewTask => content'[p] = content[p] /\ seen'[p] = seen[p]
      /\ seen'[NewTask] = {t \in Reported : Create!IsCreation(t)}
      /\ Whole' = Rows
  BY <1>2 DEF Whole
<1>6. TextsInv'
  BY <1>2, <1>5, PostedKept
<1>7. \A t \in seen'[NewTask] : Owed(t) \subseteq Rows
  <2> SUFFICES ASSUME NEW t \in Tasks, IsReported(t), IsCreation(t), NEW i \in 0..NumContacts - 1
               PROVE  <<t, i>> \in Rows \cup failed
    BY <1>3, <1>5 DEF Owed
  <2>1. loop[t] = NumContacts
    BY DEF MainInv, LoopInv
  <2>2. i \in Tried(t)
    BY <2>1, MainActivityAssumption DEF Tried
  <2>3. QED
    BY <2>2 DEF MainInv, LoopInv, Rows
<1>8. \A p \in Tasks : IsPost(p) => content'[p] \subseteq Rows
  <2> SUFFICES ASSUME NEW p \in Tasks, IsPost(p) PROVE content[p] \subseteq Rows
    BY <1>2, <1>5
  <2>1. PICK n \in 0..Len(book) : content[p] = First(n)
    BY DEF MainInv, TextsInv, ContentIsSnapshot, Post!IsPost, IsPost
  <2>2. 1..n \subseteq 1..Len(book)
    BY <1>2
  <2>3. QED
    BY <2>1, <2>2 DEF Rows, First
<1>9. ReaderInv'
  <2>1. Len(book) \in 0..Len(book) /\ Rows = First(Len(book))
    BY <1>2 DEF Rows
  <2>2. (\A n : First(n)' = First(n)) /\ (\A t : Owed(t)' = Owed(t))
        /\ \A p \in Tasks : IsPost(p)' = IsPost(p)
    BY <1>2 DEF First, Owed, IsPost
  <2>3. (\E n \in 0..Len(book) : Whole = First(n))'
    BY <1>2, <1>5, <2>1, <2>2
  <2>4. (\A p \in Tasks : IsPost(p) => content[p] \subseteq Whole)'
    BY <1>5, <1>8, <2>2
  <2>5. (\A t \in seen[NewTask] : Owed(t) \subseteq Whole)'
    BY <1>2, <1>5, <1>7, <2>2
  <2>6. QED
    BY <1>2, <2>3, <2>4, <2>5 DEF ReaderInv
<1>10. QED
  BY <1>1, <1>4, <1>6, <1>9 DEF MainInv

LEMMA ReadRowStep == ASSUME MainInv, ReadRow PROVE MainInv'
<1>1. FrameworkInv' /\ ClassInv' /\ LoopType' /\ LoopInv'
  BY OthersKept DEF ReadRow
<1>2. PICK row \in reader.left :
        /\ reader' = [reader EXCEPT !.left = @ \ {row}]
        /\ content' = [content EXCEPT ![NewTask] = @ \cup {row}]
  BY DEF ReadRow
<1>3. /\ reader \in [level : Buttons \cup {"none"}, left : SUBSET Rows]
      /\ content \in [Tasks -> SUBSET Contacts] /\ seen' = seen
      /\ UNCHANGED <<book, failed, level, submitted, NewTask>>
      /\ book \in Seq(Contacts)
  BY DEF ReadRow, MainInv, ReaderType, LoopType, taskVars, createVars, postVars, NewTask
<1>4. reader # NoTap
  BY <1>2 DEF NoTap
<1>5. submitted < MaxTasks /\ NewTask \in Tasks /\ ~IsPost(NewTask)
  BY <1>4, NewTaskFresh DEF MainInv, ReaderInv
<1>6. Rows \subseteq Contacts /\ Rows' = Rows
  <2>1. \A k \in 1..Len(book) : book[k] \in Contacts
    BY <1>3, ElementOfSeq
  <2>2. QED
    BY <1>3, <2>1 DEF Rows, First
<1>7. /\ \A p \in Tasks : p # NewTask => content'[p] = content[p]
      /\ content'[NewTask] = content[NewTask] \cup {row}
      /\ reader'.left = reader.left \ {row}
  BY <1>2, <1>3, <1>5
<1>8. ReaderType'
  <2>1. content' \in [Tasks -> SUBSET Contacts]
    BY <1>2, <1>3, <1>6
  <2>2. reader' \in [level : Buttons \cup {"none"}, left : SUBSET Rows]
    BY <1>2, <1>3
  <2>3. QED
    BY <1>3, <1>6, <2>1, <2>2 DEF MainInv, ReaderType
<1>9. TextsInv'
  BY <1>3, <1>5, <1>7, PostedKept
<1>10. Whole' = Whole
  BY <1>3, <1>7 DEF Whole
<1>11. ReaderInv'
  <2>1. (\A n : First(n)' = First(n)) /\ (\A t : Owed(t)' = Owed(t))
        /\ \A p \in Tasks : IsPost(p)' = IsPost(p)
    BY <1>3 DEF First, Owed, IsPost
  <2>2. \A p \in Tasks : IsPost(p) => content'[p] = content[p]
    BY <1>5, <1>7
  <2>3. QED
    BY <1>3, <1>4, <1>5, <1>10, <2>1, <2>2 DEF MainInv, ReaderInv
<1>12. QED
  BY <1>1, <1>8, <1>9, <1>11 DEF MainInv

LEMMA ExecutePostStep == ASSUME MainInv, ExecutePost PROVE MainInv'
<1>1. /\ Execute /\ reader' = NoTap /\ reader # NoTap /\ reader.left = {}
      /\ level' = [level EXCEPT ![NewTask] = reader.level]
      /\ UNCHANGED <<createVars, content, seen>>
  BY SameFramework DEF ExecutePost, Post!PostClick, Idle
<1>2. /\ FrameworkInv' /\ Finished' = Finished
      /\ submitted' = submitted + 1 /\ submitted < MaxTasks /\ reported' = reported
  BY <1>1, ExecuteStep DEF MainInv, Execute, NewTask
<1>3. /\ NewTask \in Tasks /\ NewTask = submitted + 1 /\ submitted \in Nat /\ NewTask \in Nat
      /\ ~IsCreation(NewTask) /\ ~IsPost(NewTask)
      /\ \A p \in Tasks : IsPost(p) => p # NewTask /\ p < NewTask
  BY <1>2, NewTaskFresh
<1>4. /\ level \in [Tasks -> Buttons \cup {"none"}] /\ reader.level \in Buttons \cup {"none"}
      /\ UNCHANGED <<barOf, activity, loop, step, book, failed>>
  BY <1>1 DEF MainInv, ClassInv, ReaderType, createVars
<1>5. /\ level' \in [Tasks -> Buttons \cup {"none"}]
      /\ \A p \in Tasks : p # NewTask => level'[p] = level[p]
  BY <1>1, <1>3, <1>4
<1>6. ClassInv'
  <2>1. \A t \in Tasks : t > submitted + 1 => t > submitted /\ t # NewTask
    BY <1>3, AsyncTaskAssumption DEF Tasks
  <2>2. \A t : IsReported(t)' => t \in Tasks /\ t <= submitted'
    <3> SUFFICES ASSUME NEW t, IsReported(t)' PROVE t \in Tasks /\ t <= submitted + 1
      BY <1>2
    <3>1. t \in Tasks /\ t <= submitted
      BY <1>2 DEF MainInv, ClassInv, IsReported
    <3>2. t \in Nat
      BY <3>1, AsyncTaskAssumption DEF Tasks
    <3>3. QED
      BY <1>3, <3>1, <3>2
  <2>3. \A t \in Tasks : ~(IsCreation(t)' /\ IsPost(t)')
    BY <1>3, <1>4, <1>5 DEF MainInv, ClassInv, IsCreation, IsPost
  <2>4. \A t \in Tasks : t > submitted' => ~IsCreation(t)' /\ ~IsPost(t)'
    BY <1>2, <1>4, <1>5, <2>1 DEF MainInv, ClassInv, IsCreation, IsPost
  <2>5. QED
    BY <1>4, <1>5, <2>2, <2>3, <2>4 DEF MainInv, ClassInv
<1>7. LoopType' /\ LoopInv'
  <2>1. \A u \in Finished' : u \in Tasks
    BY <1>2, HeldTasks DEF MainInv, Pending
  <2>2. QED
    BY <1>2, <1>4, <2>1, LoopsKept DEF IsCreation, IsReported
<1>8. ReaderType' /\ ReaderInv'
  BY <1>1, <1>4 DEF MainInv, ReaderType, ReaderInv, NoTap
<1>9. (\A n : First(n)' = First(n)) /\ (\A t : Owed(t)' = Owed(t))
  BY <1>4 DEF First, Owed
<1>10. \A p \in Tasks : IsPost(p)' => IsPost(p) \/ p = NewTask
  BY <1>5 DEF IsPost
<1>11. /\ Whole = content[NewTask]
       /\ \E n \in 0..Len(book) : content[NewTask] = First(n)
       /\ \A p \in Tasks : IsPost(p) => content[p] \subseteq content[NewTask]
       /\ \A t \in seen[NewTask] : Owed(t) \subseteq content[NewTask]
  BY <1>1 DEF MainInv, ReaderInv, Whole
<1>12. ContentIsSnapshot'
  <2> SUFFICES ASSUME NEW p \in Tasks, IsPost(p)'
               PROVE  \E n \in 0..Len(book) : content[p] = First(n)
    BY <1>1, <1>4, <1>9 DEF ContentIsSnapshot, Post!IsPost, IsPost
  <2>1. QED
    BY <1>10, <1>11 DEF MainInv, TextsInv, ContentIsSnapshot, Post!IsPost, IsPost
<1>13. LaterPostsMore'
  <2> SUFFICES ASSUME NEW p \in Tasks, NEW q \in Tasks, p < q, IsPost(p)', IsPost(q)'
               PROVE  content[p] \subseteq content[q]
    BY <1>1 DEF LaterPostsMore, Post!IsPost, IsPost
  <2>1. CASE IsPost(p) /\ IsPost(q)
    BY <2>1 DEF MainInv, TextsInv, LaterPostsMore, Post!IsPost, IsPost
  <2>2. CASE IsPost(p) /\ q = NewTask
    BY <1>11, <2>2
  <2>3. CASE p = NewTask /\ IsPost(q)
    <3>1. q < p /\ q \in Nat /\ p \in Nat
      BY <1>3, <2>3, AsyncTaskAssumption DEF Tasks
    <3>2. QED
      BY <3>1
  <2>4. CASE p = NewTask /\ q = NewTask
    BY <1>3, <2>4
  <2>5. QED
    BY <1>10, <2>1, <2>2, <2>3, <2>4
<1>14. (\A p \in Tasks : IsPost(p) => \A t \in seen[p] : Owed(t) \subseteq content[p])'
  BY <1>1, <1>9, <1>10, <1>11 DEF MainInv, TextsInv
<1>15. QED
  BY <1>2, <1>6, <1>7, <1>8, <1>12, <1>13, <1>14 DEF MainInv, TextsInv

-----------------------------------------------------------------------------
(* The other steps of the main thread and its surroundings. *)

(* Steps that submit nothing and change neither classes nor the reader. *)
LEMMA ClassKept ==
  ASSUME MainInv, UNCHANGED <<submitted, barOf, level>>, activity' \in Nat,
         \A u : IsReported(u)' => IsReported(u) \/ u \in Finished
  PROVE  ClassInv'
<1>1. \A u \in Finished : u \in Tasks /\ u <= submitted
  BY HeldTasks DEF MainInv, Pending
<1>2. QED
  BY <1>1 DEF MainInv, ClassInv, IsCreation, IsPost

LEMMA CreateTapStep == ASSUME MainInv, CreateTap PROVE MainInv'
<1>1. /\ Execute /\ reader = NoTap
      /\ barOf' = [barOf EXCEPT ![NewTask] = activity]
      /\ UNCHANGED <<activity, loop, step, book, failed, level, reader, content, seen>>
  BY SameFramework DEF CreateTap, Create!CreateClick, Idle, postVars, activityVars
<1>2. /\ FrameworkInv' /\ Finished' = Finished
      /\ submitted' = submitted + 1 /\ submitted < MaxTasks /\ reported' = reported
  BY <1>1, ExecuteStep DEF MainInv, Execute, NewTask
<1>3. /\ NewTask \in Tasks /\ NewTask = submitted + 1 /\ submitted \in Nat /\ NewTask \in Nat
      /\ ~IsCreation(NewTask) /\ ~IsPost(NewTask) /\ ~IsReported(NewTask)
  BY <1>2, NewTaskFresh
<1>4. /\ barOf \in [Tasks -> Nat] /\ activity \in Nat
      /\ barOf' \in [Tasks -> Nat]
      /\ \A p \in Tasks : p # NewTask => barOf'[p] = barOf[p]
  BY <1>1, <1>3 DEF MainInv, ClassInv
<1>5. \A u \in Finished : u \in Tasks /\ u \in Nat /\ u <= submitted
  BY HeldTasks DEF MainInv, Pending
<1>6. ClassInv'
  <2>1. \A t \in Tasks : t > submitted + 1 => t > submitted /\ t # NewTask
    BY <1>3, AsyncTaskAssumption DEF Tasks
  <2>2. \A t : IsReported(t)' => t \in Tasks /\ t <= submitted'
    <3> SUFFICES ASSUME NEW t, IsReported(t)' PROVE t \in Tasks /\ t <= submitted + 1
      BY <1>2
    <3>1. t \in Tasks /\ t <= submitted
      BY <1>2 DEF MainInv, ClassInv, IsReported
    <3>2. t \in Nat
      BY <3>1, AsyncTaskAssumption DEF Tasks
    <3>3. QED
      BY <1>3, <3>1, <3>2
  <2>3. \A t \in Tasks : ~(IsCreation(t)' /\ IsPost(t)')
    BY <1>1, <1>3, <1>4 DEF MainInv, ClassInv, IsCreation, IsPost
  <2>4. \A t \in Tasks : t > submitted' => ~IsCreation(t)' /\ ~IsPost(t)'
    BY <1>1, <1>2, <1>4, <2>1 DEF MainInv, ClassInv, IsCreation, IsPost
  <2>5. QED
    BY <1>1, <1>4, <2>2, <2>3, <2>4 DEF MainInv, ClassInv
<1>7. LoopType' /\ LoopInv'
  <2>1. NewTask \notin Finished
    BY <1>3, <1>5
  <2>2. \A u \in Tasks : IsCreation(u)' =>
          IsCreation(u) \/ (u \notin Finished' /\ ~IsReported(u)')
    BY <1>2, <1>3, <1>4, <2>1 DEF IsCreation, IsReported
  <2>3. QED
    BY <1>1, <1>2, <1>5, <2>2, LoopsKept DEF IsReported
<1>8. ReaderType' /\ TextsInv' /\ ReaderInv'
  BY <1>1, ReaderKept
<1>9. QED
  BY <1>2, <1>6, <1>7, <1>8 DEF MainInv

LEMMA KillStepMain == ASSUME MainInv, Kill PROVE MainInv'
<1>1. /\ KillTasks /\ reader' = NoTap /\ activity' = activity + 1
      /\ UNCHANGED <<barOf, loop, step, book, failed, level, content, seen>>
  BY SameFramework DEF Kill, Create!Kill, Post!Kill
<1>2. FrameworkInv' /\ Finished' = {} /\ UNCHANGED <<submitted, reported>>
  BY <1>1, KillStep DEF MainInv, KillTasks
<1>3. ClassInv'
  <2>1. activity' \in Nat
    BY <1>1 DEF MainInv, ClassInv
  <2>2. QED
    BY <1>1, <1>2, <2>1, ClassKept DEF IsReported
<1>4. LoopType' /\ LoopInv'
  BY <1>1, <1>2, LoopsKept DEF IsCreation, IsReported
<1>5. ReaderType' /\ ReaderInv'
  BY <1>1 DEF MainInv, ReaderType, ReaderInv, NoTap
<1>6. TextsInv'
  BY <1>1, PostedKept
<1>7. QED
  BY <1>2, <1>3, <1>4, <1>5, <1>6 DEF MainInv

(* Steps of the framework that leave everything else alone. *)
LEMMA QuietMain ==
  ASSUME MainInv, FrameworkInv', activity' \in Nat,
         UNCHANGED <<submitted, barOf, loop, step, book, failed, level, reader, content, seen>>,
         \A u \in Finished' :
           u \in Finished \/ (u \in Tasks /\ (~IsCreation(u) \/ loop[u] = NumContacts)),
         \A u : IsReported(u)' => IsReported(u) \/ u \in Finished
  PROVE  MainInv'
<1>1. ClassInv'
  BY ClassKept
<1>2. \A u \in Finished' : u \in Tasks
  BY HeldTasks DEF MainInv, Pending
<1>3. LoopType' /\ LoopInv'
  BY <1>2, LoopsKept DEF IsCreation
<1>4. ReaderType' /\ TextsInv' /\ ReaderInv'
  BY ReaderKept
<1>5. QED
  BY <1>1, <1>3, <1>4 DEF MainInv

LEMMA RotateStep == ASSUME MainInv, Rotate PROVE MainInv'
<1>1. UNCHANGED <<taskVars, barOf, loop, step, book, failed, level, reader, content, seen>>
      /\ activity' = activity + 1
  BY DEF Rotate, Create!Rotate, Create!taskVars, taskVars, postVars, activityVars
<1>2. FrameworkInv' /\ activity' \in Nat
  BY <1>1, FrameworkStep DEF MainInv, ClassInv
<1>3. UNCHANGED <<Finished, submitted, reported>>
  BY <1>1 DEF taskVars, Finished
<1>4. QED
  BY <1>1, <1>2, <1>3, QuietMain DEF IsReported

LEMMA CallbacksStep == ASSUME MainInv, Callbacks PROVE MainInv'
<1>1. /\ UNCHANGED <<activity, barOf, loop, step, book, failed, level, reader, content, seen>>
      /\ HandleProgress \/ HandleResult
  BY SameFramework
  DEF Callbacks, Create!CreateCallbacks, Create!DeliverProgress, Create!DeliverCreated,
    Post!Toast, Post!postVars, postVars, createVars, activityVars
<1>2. activity' \in Nat
  BY <1>1 DEF MainInv, ClassInv
<1>3. CASE HandleProgress
  <2>1. FrameworkInv' /\ Finished' = Finished /\ UNCHANGED <<submitted, reported>>
    BY <1>3, HandleProgressStep DEF MainInv, HandleProgress
  <2>2. QED
    BY <1>1, <1>2, <2>1, QuietMain DEF IsReported
<1>4. CASE HandleResult
  <2>1. /\ FrameworkInv' /\ Finished = Finished' \cup {Message.task} /\ submitted' = submitted
        /\ \A u : IsReported(u)' => IsReported(u) \/ u = Message.task
    BY <1>4, HandleResultStep DEF MainInv, HandleResult
  <2>2. QED
    BY <1>1, <1>2, <2>1, QuietMain
<1>5. QED
  BY <1>1, <1>3, <1>4

-----------------------------------------------------------------------------
(* The background thread. *)

(* One contact is tried; the book grows beside a reader, if there is one. *)
LEMMA WriteStepMain ==
  ASSUME MainInv, NEW t \in Tasks,
         Create!Commit(t) \/ Create!CommitFails(t) \/ Create!CommitUnheard(t),
         UNCHANGED <<postVars, activityVars>>
  PROVE  MainInv'
<1> DEFINE c == <<t, loop[t]>>
<1>1. /\ step[t] = "write" /\ loop[t] < NumContacts
      /\ step' = [step EXCEPT ![t] = "publish"]
      /\ UNCHANGED <<taskVars, barOf, activity, loop, level, reader, content, seen>>
      /\ \/ book' = book /\ failed' = failed \cup {c}
         \/ book' = Append(book, c) /\ failed' \in {failed, failed \cup {c}}
  BY DEF Create!Commit, Create!CommitFails, Create!CommitUnheard, Create!Writes,
    Create!taskVars, taskVars, postVars, activityVars
<1>2. /\ loop[t] \in 0..NumContacts - 1 /\ c \in Contacts
      /\ book \in Seq(Contacts) /\ failed \subseteq Contacts
      /\ loop \in [Tasks -> 0..NumContacts] /\ step \in [Tasks -> {"write", "publish"}]
  BY <1>1, MainActivityAssumption DEF MainInv, LoopType, Contacts
<1>3. FrameworkInv' /\ UNCHANGED <<Finished, submitted, reported>>
  BY <1>1, FrameworkStep DEF MainInv, taskVars, Finished
<1>4. ClassInv'
  <2>1. activity' \in Nat
    BY <1>1 DEF MainInv, ClassInv
  <2>2. QED
    BY <1>1, <1>3, <2>1, ClassKept DEF IsReported
<1> HIDE DEF c
<1>5. ReaderType' /\ TextsInv' /\ ReaderInv'
  BY <1>1, <1>2, <1>3, ReaderKept
<1>6. book' \in Seq(Contacts) /\ failed' \subseteq Contacts
  BY <1>1, <1>2, BookGrows
<1>7. LoopType'
  BY <1>1, <1>2, <1>6 DEF MainInv, LoopType
<1>8. \A u \in Tasks : Tried(u)' = IF u = t THEN Tried(t) \cup {loop[t]} ELSE Tried(u)
  BY <1>1, <1>2 DEF Tried, MainInv, LoopType
<1>9. First(Len(book)) \cup failed \cup {c} \subseteq (First(Len(book)) \cup failed)'
  <2>1. CASE book' = book
    BY <1>1, <2>1 DEF First
  <2>2. CASE book' = Append(book, c)
    <3>1. /\ Len(book') = Len(book) + 1 /\ Len(book) \in Nat
          /\ \A k \in 1..Len(book) : book'[k] = book[k]
          /\ book'[Len(book) + 1] = c
      BY <1>2, <2>2, BookGrows
    <3>2. 1..Len(book) \subseteq 1..Len(book') /\ Len(book) + 1 \in 1..Len(book')
      BY <3>1
    <3>3. First(Len(book))' = {book'[k] : k \in 1..Len(book')}
      BY DEF First
    <3>4. First(Len(book)) \cup {c} \subseteq First(Len(book))'
      BY <3>1, <3>2, <3>3 DEF First
    <3>5. QED
      BY <1>1, <3>4
  <2>3. QED
    BY <1>1, <2>1, <2>2
<1>10. LoopInv'
  <2>1. ASSUME NEW u \in Tasks, NEW i \in 0..NumContacts - 1, i \in Tried(u)'
        PROVE  <<u, i>> \in (First(Len(book)) \cup failed)'
    BY <1>8, <1>9, <2>1 DEF MainInv, LoopInv, c
  <2>2. /\ \A u \in Finished' : IsCreation(u)' => loop'[u] = NumContacts
        /\ \A u \in Tasks : IsReported(u)' /\ IsCreation(u)' => loop'[u] = NumContacts
    BY <1>1, <1>3 DEF MainInv, LoopInv, IsReported, IsCreation
  <2>3. (\A u \in Tasks, i \in 0..NumContacts - 1 :
           i \in Tried(u) => <<u, i>> \in First(Len(book)) \cup failed)'
    BY <2>1
  <2>4. QED
    BY <2>2, <2>3 DEF LoopInv
<1>11. QED
  BY <1>3, <1>4, <1>5, <1>7, <1>10 DEF MainInv

LEMMA PublishProgressMain ==
  ASSUME MainInv, NEW t \in Tasks, Create!PublishProgress(t),
         UNCHANGED <<postVars, activityVars>>
  PROVE  MainInv'
<1> DEFINE value == loop[t] \div NumContacts
<1>1. /\ step[t] = "publish" /\ Publish(t, value)
      /\ loop' = [loop EXCEPT ![t] = @ + 1] /\ step' = [step EXCEPT ![t] = "write"]
      /\ UNCHANGED <<activity, barOf, book, failed, level, reader, content, seen>>
  BY SameFramework DEF Create!PublishProgress, postVars, activityVars
<1>2. /\ loop \in [Tasks -> 0..NumContacts] /\ loop[t] < NumContacts /\ loop[t] \in Nat
      /\ step \in [Tasks -> {"write", "publish"}] /\ NumContacts \in Nat \ {0}
  BY <1>1, MainActivityAssumption DEF MainInv, LoopType
<1>3. value \in Values
  BY <1>2 DEF Values
<1> HIDE DEF value
<1>4. FrameworkInv' /\ Finished' = Finished /\ UNCHANGED <<submitted, reported>>
  BY <1>1, <1>3, PublishStep DEF MainInv, Publish
<1>5. ClassInv'
  <2>1. activity' \in Nat
    BY <1>1 DEF MainInv, ClassInv
  <2>2. QED
    BY <1>1, <1>4, <2>1, ClassKept DEF IsReported
<1>6. ReaderType' /\ TextsInv' /\ ReaderInv'
  BY <1>1, <1>4, ReaderKept
<1>7. LoopType'
  BY <1>1, <1>2 DEF MainInv, LoopType
<1>8. (\A u \in Tasks : Tried(u)' = Tried(u)) /\ First(Len(book))' = First(Len(book))
  <2>1. \A u \in Tasks : Tried(u)' = Tried(u)
    BY <1>1, <1>2 DEF Tried
  <2>2. QED
    BY <1>1, <2>1 DEF First
<1>9. \A u \in Finished : u \in Tasks
  BY HeldTasks DEF MainInv, Pending
<1>10. /\ \A u \in Finished : IsCreation(u) => u # t /\ loop[u] = NumContacts
       /\ \A u \in Tasks : IsReported(u) /\ IsCreation(u) => u # t /\ loop[u] = NumContacts
  BY <1>2 DEF MainInv, LoopInv
<1>11. LoopInv'
  <2>1. \A u \in Tasks : u # t => loop'[u] = loop[u]
    BY <1>1, <1>2
  <2>2. /\ \A u \in Finished' : IsCreation(u)' => loop'[u] = NumContacts
        /\ \A u \in Tasks : IsReported(u)' /\ IsCreation(u)' => loop'[u] = NumContacts
    BY <1>1, <1>4, <1>9, <1>10, <2>1 DEF IsReported, IsCreation
  <2>3. \A u \in Tasks, i \in 0..NumContacts - 1 :
          i \in Tried(u)' => <<u, i>> \in (First(Len(book)) \cup failed)'
    BY <1>1, <1>8 DEF MainInv, LoopInv
  <2>4. QED
    BY <2>2, <2>3 DEF LoopInv
<1>12. QED
  BY <1>4, <1>5, <1>6, <1>7, <1>11 DEF MainInv

LEMMA BackgroundStep == ASSUME MainInv, Background PROVE MainInv'
<1> activity \in Nat
  BY DEF MainInv, ClassInv
<1>1. CASE Start /\ UNCHANGED <<createVars, postVars, activityVars>>
  <2>1. FrameworkInv' /\ Finished' = Finished /\ UNCHANGED <<submitted, reported>>
    BY <1>1, StartStep DEF MainInv, Start
  <2>2. QED
    BY <1>1, <2>1, QuietMain DEF IsReported, createVars, postVars, activityVars
<1>2. CASE Create!CreateBody /\ UNCHANGED <<postVars, activityVars>>
  <2>1. PICK t \in Tasks : \/ Create!Commit(t) \/ Create!CommitFails(t) \/ Create!CommitUnheard(t)
                           \/ Create!PublishProgress(t) \/ Create!Generated(t)
    BY <1>2, SameFramework DEF Create!CreateBody
  <2>2. CASE Create!Generated(t)
    <3>1. /\ Finish(t, "created") /\ loop[t] = NumContacts
          /\ UNCHANGED <<activity, barOf, loop, step, book, failed, level, reader, content, seen>>
      BY <1>2, <2>2, SameFramework DEF Create!Generated, Create!createVars, postVars, activityVars
    <3>2. /\ FrameworkInv' /\ Finished' = Finished \cup {t}
          /\ UNCHANGED <<submitted, reported>>
      BY <3>1, FinishStep DEF MainInv, Finish, Values
    <3>3. QED
      BY <3>1, <3>2, QuietMain DEF IsReported
  <2>3. QED
    BY <1>2, <2>1, <2>2, WriteStepMain, PublishProgressMain
<1>3. CASE Post!PostBody /\ UNCHANGED <<createVars, activityVars>>
  <2>1. UNCHANGED <<activity, barOf, loop, step, book, failed, level, reader, content, seen>>
    BY <1>3, PostBodyEffect DEF createVars, activityVars
  <2>2. CASE UNCHANGED taskVars
    <3>1. FrameworkInv' /\ UNCHANGED <<Finished, submitted, reported>>
      BY <2>2, FrameworkStep DEF MainInv, taskVars, Finished
    <3>2. QED
      BY <2>1, <3>1, QuietMain DEF IsReported
  <2>3. CASE \E t \in Tasks, value \in Values : level[t] # "none" /\ Finish(t, value)
    <3>1. PICK t \in Tasks, value \in Values : level[t] # "none" /\ Finish(t, value)
      BY <2>3
    <3>2. /\ FrameworkInv' /\ Finished' = Finished \cup {t}
          /\ UNCHANGED <<submitted, reported>>
      BY <3>1, FinishStep DEF MainInv, Finish
    <3>3. ~IsCreation(t)
      BY <3>1 DEF MainInv, ClassInv, IsPost
    <3>4. QED
      BY <2>1, <3>2, <3>3, QuietMain DEF IsReported
  <2>4. QED
    BY <1>3, <2>2, <2>3, PostBodyEffect
<1>4. QED
  BY <1>1, <1>2, <1>3 DEF Background

LEMMA MainNext == MainInv /\ [Next]_vars => MainInv'
<1> SUFFICES ASSUME MainInv, [Next]_vars PROVE MainInv'
  OBVIOUS
<1>1. CASE Evict \/ UNCHANGED vars
  <2>1. UNCHANGED <<taskVars, activity, barOf, loop, step, book, failed, level, reader, content, seen>>
    BY <1>1 DEF Evict, Post!Evict, Post!taskVars, taskVars, createVars, postVars, activityVars, vars
  <2>2. FrameworkInv' /\ activity' \in Nat
    BY <2>1, FrameworkStep DEF MainInv, ClassInv
  <2>3. UNCHANGED <<Finished, submitted, reported>>
    BY <2>1 DEF taskVars, Finished
  <2>4. QED
    BY <2>1, <2>2, <2>3, QuietMain DEF IsReported
<1>2. CASE ~Evict /\ ~UNCHANGED vars
  BY <1>2, OpenCursorStep, ReadRowStep, ExecutePostStep, CreateTapStep, RotateStep, KillStepMain,
    CallbacksStep, BackgroundStep
  DEF Next, MainThread
<1>3. QED
  BY <1>1, <1>2

-----------------------------------------------------------------------------
(* Every tap reads rows of the contact book only, and no task is of both    *)
(* classes, for any number of contacts and taps.                            *)
THEOREM TypeCorrect == Spec => []TypeOK
<1>1. MainInv => TypeOK
  BY DEF MainInv, ReaderType, ClassInv, TypeOK, Contacts, IsCreation, IsPost, Create!IsCreation,
    Post!IsPost
<1>2. QED
  BY <1>1, MainInit, MainNext, PTL DEF Spec

(* Whatever the background thread commits while a tap reads, and in         *)
(* whatever order the rows come, the text that getContactsAsString returns  *)
(* holds the contacts there were at one moment, all of them and no other:   *)
(* the cursor's rows do not move, and the loop takes each.                  *)
THEOREM TextsAreSnapshots == Spec => []ContentIsSnapshot
<1>1. MainInv => ContentIsSnapshot
  BY DEF MainInv, TextsInv
<1>2. QED
  BY <1>1, MainInit, MainNext, PTL DEF Spec

(* The button handlers of one main thread read one after the other, so a    *)
(* later tap posts every contact that an earlier one does.                  *)
THEOREM TextsGrow == Spec => []LaterPostsMore
<1>1. MainInv => LaterPostsMore
  BY DEF MainInv, TextsInv
<1>2. QED
  BY <1>1, MainInit, MainNext, PTL DEF Spec

(* A tap after the onPostExecute of a creation posts each contact of it     *)
(* that was not logged as failed: the result is posted after the last       *)
(* write, and the cursor and the loop over its rows drop none.              *)
THEOREM ReportedContactsArePosted == Spec => []ReportedIsPosted
<1>1. MainInv => ReportedIsPosted
  BY DEF MainInv, TextsInv, ReportedIsPosted, Post!IsPost, IsPost, Owed, Create!ContactsOf
<1>2. QED
  BY <1>1, MainInit, MainNext, PTL DEF Spec

(* Both task classes on one executor, beside a main thread that may be busy *)
(* reading, still answer the taps as TaskService does: in their order, each *)
(* at most once, losing none but to the death of the process.               *)
THEOREM ApplicationImplementsService == Spec => ServiceSpec
<1>1. Init => Service!Init
  BY FrameworkInit DEF Init
<1>2. MainInv /\ [Next]_vars => [FrameworkNext]_taskVars
  <2> SUFFICES ASSUME MainInv, [Next]_vars PROVE [FrameworkNext]_taskVars
    OBVIOUS
  <2>1. CASE Create!CreateBody
    <3>1. PICK t \in Tasks : \/ Create!Commit(t) \/ Create!CommitFails(t) \/ Create!CommitUnheard(t)
                             \/ Create!PublishProgress(t) \/ Create!Generated(t)
      BY <2>1, SameFramework DEF Create!CreateBody
    <3>2. CASE Create!Commit(t) \/ Create!CommitFails(t) \/ Create!CommitUnheard(t)
      BY <3>2 DEF Create!Commit, Create!CommitFails, Create!CommitUnheard, Create!taskVars, taskVars
    <3>3. CASE Create!PublishProgress(t)
      <4>1. step[t] = "publish" /\ Publish(t, loop[t] \div NumContacts)
        BY <3>3, SameFramework DEF Create!PublishProgress
      <4>2. loop[t] \div NumContacts \in Nat
        BY MainActivityAssumption DEF MainInv, LoopType
      <4>3. QED
        BY <4>1, <4>2 DEF FrameworkNext, Values
    <3>4. CASE Create!Generated(t)
      BY <3>4, SameFramework DEF Create!Generated, FrameworkNext, Values
    <3>5. QED
      BY <3>1, <3>2, <3>3, <3>4
  <2>2. CASE Post!PostBody
    BY <2>2, PostBodyEffect DEF FrameworkNext
  <2>3. CASE CreateTap \/ (\E l \in Buttons : OpenCursor(l)) \/ ReadRow \/ ExecutePost \/ Kill
    BY <2>3, SameFramework
    DEF CreateTap, Create!CreateClick, OpenCursor, Opens, ReadRow, ExecutePost, Post!PostClick, Kill,
      Create!Kill, FrameworkNext
  <2>4. CASE Rotate \/ Evict \/ Callbacks
    BY <2>4, SameFramework
    DEF Rotate, Create!Rotate, Evict, Post!Evict, Create!taskVars, Post!taskVars, taskVars,
      Callbacks, Create!CreateCallbacks, Create!DeliverProgress, Create!DeliverCreated, Post!Toast,
      FrameworkNext
  <2>5. CASE Start \/ UNCHANGED vars
    BY <2>5 DEF FrameworkNext, vars
  <2>6. QED
    BY <2>1, <2>2, <2>3, <2>4, <2>5 DEF Next, MainThread, Background
<1>3. MainInv /\ [Next]_vars => [Service!Next]_(Service!vars)
  BY <1>2, FrameworkStep DEF MainInv
<1>4. QED
  BY <1>1, <1>3, MainInit, MainNext, PTL DEF Spec, ServiceSpec, Service!Spec

=============================================================================
