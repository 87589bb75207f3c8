--------------------------- MODULE CreateContacts ---------------------------
(***************************************************************************)
(* CreateContactsTask (tasks/CreateContactsTask.java) with                 *)
(* ContactsUtil.writeContact (util/ContactsUtil.java): the loop that writes *)
(* contacts on the background thread, the progress bar it drives through   *)
(* the main thread, rotation of the screen, which replaces the activity and *)
(* its bar but not the task, and the death of the process.                 *)
(*                                                                         *)
(* A contact is named by the task that created it and its loop index: the  *)
(* random name and number are left out.                                    *)
(***************************************************************************)
EXTENDS AsyncTask, FiniteSets

CONSTANTS
  NumContacts,   \* NUM_CONTACTS_TO_CREATE
  MaxActivities  \* bound: instances of MainActivity

ASSUME CreateContactsAssumption ==
  NumContacts \in Nat \ {0} /\ MaxActivities \in Nat \ {0}

VARIABLES
  activity,  \* the instance of MainActivity on the screen
  bars,      \* the progress bar of each instance
  barOf,     \* field progressBar of a task: the instance it was given, 0 for none
  loop,      \* local i of generateContacts
  step,      \* where the loop body of a task is
  book,      \* the contacts of the phone, in the order they were committed
  failed     \* history: the writes that ended with a logged exception

createVars == <<activity, bars, barOf, loop, step, book, failed>>
vars == <<taskVars, createVars>>

Activities == 1..MaxActivities

(* android:visibility="gone", android:progress="0" (content_main.xml).      *)
FreshBar == [visible |-> FALSE, progress |-> 0]

IsCreation(t) == barOf[t] # 0

InitCreate ==
  /\ activity = 1
  /\ bars = [a \in Activities |-> FreshBar]
  /\ barOf = [t \in Tasks |-> 0]
  /\ loop = [t \in Tasks |-> 0]
  /\ step = [t \in Tasks |-> "write"]
  /\ book = << >> /\ failed = {}

Init == InitTasks /\ InitCreate

-----------------------------------------------------------------------------
(* Main thread. *)

(* Mutant: onPreExecute does not show the bar. *)
CreateClickHidden ==
  /\ Execute
  /\ barOf' = [barOf EXCEPT ![NewTask] = activity]
  /\ UNCHANGED <<activity, bars, loop, step, book, failed>>

(* The menu item: the task gets the bar of this instance and shows it       *)
(* before it is queued.                                                     *)
CreateClick ==
  /\ Execute
  /\ barOf' = [barOf EXCEPT ![NewTask] = activity]
  /\ bars' = [bars EXCEPT ![activity].visible = TRUE]
  /\ UNCHANGED <<activity, loop, step, book, failed>>

DeliverProgress ==
  /\ HandleProgress
  /\ bars' = [bars EXCEPT ![barOf[Message.task]].progress = Message.value]
  /\ UNCHANGED <<activity, barOf, loop, step, book, failed>>

(* Mutant: onPostExecute hides the bar on the screen, not the task's. *)
DeliverCreatedHere ==
  /\ HandleResult
  /\ IsCreation(Message.task)
  /\ bars' = [bars EXCEPT ![activity].visible = FALSE]
  /\ UNCHANGED <<activity, barOf, loop, step, book, failed>>

DeliverCreated ==
  /\ HandleResult
  /\ IsCreation(Message.task)
  /\ bars' = [bars EXCEPT ![barOf[Message.task]].visible = FALSE]
  /\ UNCHANGED <<activity, barOf, loop, step, book, failed>>

(* Rotation: onCreate runs in a new instance, whose bar is the layout's.    *)
(* The tasks keep the bar of the instance that started them.                *)
Rotate ==
  /\ activity < MaxActivities
  /\ activity' = activity + 1
  /\ UNCHANGED <<taskVars, bars, barOf, loop, step, book, failed>>

(* The process dies and the user opens the application again. *)
Kill ==
  /\ activity < MaxActivities
  /\ KillTasks
  /\ activity' = activity + 1
  /\ bars' = [a \in Activities |-> FreshBar]
  /\ UNCHANGED <<barOf, loop, step, book, failed>>

-----------------------------------------------------------------------------
(* Background thread. *)

Writes(t) == t \in active /\ IsCreation(t) /\ step[t] = "write"

(* Mutant: a RemoteException is answered by a second try. *)
CommitUnheardRetried(t) ==
  /\ Writes(t) /\ loop[t] < NumContacts
  /\ book' = Append(book, <<t, loop[t]>>)
  /\ failed' = failed \cup {<<t, loop[t]>>}
  /\ UNCHANGED <<taskVars, activity, bars, barOf, loop, step>>

(* Mutant: `<=` for `<` in the condition of the loop. *)
CommitPastEnd(t) ==
  /\ Writes(t) /\ loop[t] <= NumContacts
  /\ book' = Append(book, <<t, loop[t]>>)
  /\ step' = [step EXCEPT ![t] = "publish"]
  /\ UNCHANGED <<taskVars, activity, bars, barOf, loop, failed>>

(* applyBatch commits the three inserts of the contact as one. *)
Commit(t) ==
  /\ Writes(t) /\ loop[t] < NumContacts
  /\ book' = Append(book, <<t, loop[t]>>)
  /\ step' = [step EXCEPT ![t] = "publish"]
  /\ UNCHANGED <<taskVars, activity, bars, barOf, loop, failed>>

(* OperationApplicationException, or RemoteException before the provider    *)
(* committed: caught, logged, and the loop goes on.                         *)
CommitFails(t) ==
  /\ Writes(t) /\ loop[t] < NumContacts
  /\ failed' = failed \cup {<<t, loop[t]>>}
  /\ step' = [step EXCEPT ![t] = "publish"]
  /\ UNCHANGED <<taskVars, activity, bars, barOf, loop, book>>

(* RemoteException after the provider committed: its process died before    *)
(* the answer came back.                                                    *)
CommitUnheard(t) ==
  /\ Writes(t) /\ loop[t] < NumContacts
  /\ book' = Append(book, <<t, loop[t]>>)
  /\ failed' = failed \cup {<<t, loop[t]>>}
  /\ step' = [step EXCEPT ![t] = "publish"]
  /\ UNCHANGED <<taskVars, activity, bars, barOf, loop>>

(* publishProgress(i / NUM_CONTACTS_TO_CREATE), an integer division, and    *)
(* i++.                                                                     *)
PublishProgress(t) ==
  /\ step[t] = "publish"
  /\ Publish(t, loop[t] \div NumContacts)
  /\ loop' = [loop EXCEPT ![t] = @ + 1]
  /\ step' = [step EXCEPT ![t] = "write"]
  /\ UNCHANGED <<activity, bars, barOf, book, failed>>

(* Mutant: the loop stops one contact early. *)
GeneratedTooFew(t) ==
  /\ Writes(t) /\ loop[t] >= NumContacts - 1
  /\ Finish(t, "created")
  /\ UNCHANGED createVars

Generated(t) ==
  /\ Writes(t) /\ loop[t] = NumContacts
  /\ Finish(t, "created")
  /\ UNCHANGED createVars

StartCreate == Start /\ UNCHANGED createVars

CreateBody ==
  \E t \in Tasks : Commit(t) \/ CommitFails(t) \/ CommitUnheard(t)
                   \/ PublishProgress(t) \/ Generated(t)

CreateCallbacks == DeliverProgress \/ DeliverCreated

Next == CreateClick \/ Rotate \/ Kill \/ StartCreate \/ CreateBody \/ CreateCallbacks

Spec == Init /\ [][Next]_vars

(* The executor's thread and the main thread keep running; the provider     *)
(* answers every batch, one way or another.                                 *)
FairSpec ==
  /\ Spec
  /\ WF_vars(StartCreate) /\ WF_vars(CreateBody) /\ WF_vars(CreateCallbacks)

-----------------------------------------------------------------------------
(* Properties. *)

TypeOK ==
  /\ TasksTypeOK
  /\ activity \in Activities
  /\ bars \in [Activities -> [visible : BOOLEAN, progress : Nat]]
  /\ barOf \in [Tasks -> 0..MaxActivities]
  /\ loop \in [Tasks -> 0..NumContacts]
  /\ step \in [Tasks -> {"write", "publish"}]
  /\ book \in Seq(Tasks \X (0..NumContacts - 1))
  /\ failed \subseteq Tasks \X (0..NumContacts - 1)

(* A bar is visible only while a creation given to it is pending; beside a  *)
(* pending one it is hidden only if an older creation on it was reported:   *)
(* onPostExecute of any creation hides the bar they share.                  *)
BarTellsCreation ==
  \A a \in Activities :
    LET given == {t \in Tasks : barOf[t] = a} IN
    /\ bars[a].visible => given \cap Pending # {}
    /\ ~bars[a].visible =>
         \A t \in given \cap Pending : \E u \in given : u < t /\ IsReported(u)

(* The contacts are committed in the order of the taps and of the loops,    *)
(* each at most once, even if the provider dies or writes fail: two         *)
(* creations never interleave and no write is tried again.                  *)
Before(c, d) == c[1] < d[1] \/ (c[1] = d[1] /\ c[2] < d[2])
BookInOrder == \A j, k \in DOMAIN book : j < k => Before(book[j], book[k])

Committed == {book[k] : k \in DOMAIN book}
ContactsOf(t) == {t} \X (0..NumContacts - 1)

(* A creation that is reported has written each of its contacts, but for    *)
(* those whose write ended with a logged exception; and whatever the kills, *)
(* no contact is there of which the loop has not come by.                   *)
ReportedIsWritten ==
  /\ \A t \in Tasks : IsReported(t) => ContactsOf(t) \subseteq Committed \cup failed
  /\ \A c \in Committed : c[2] <= loop[c[1]]

(* A visible bar is hidden in the end, whatever instance it belongs to.     *)
BarIsHidden == \A a \in Activities : bars[a].visible ~> ~bars[a].visible

(* What the layout declares of the bar (content_main.xml lines 71-73: not   *)
(* indeterminate, from 0 to 100): when a creation is reported, on the       *)
(* instance that started it, the bar has moved.                             *)
ReportedMeansProgress ==
  activity = 1 /\ (\E t \in Tasks : IsReported(t)) => bars[1].progress > 0

=============================================================================
