---------------------------- MODULE MainActivity ----------------------------
(***************************************************************************)
(* The application: MainActivity.java puts contact creation                *)
(* (CreateContacts) and the five kinds of posting (PostTask) on one serial *)
(* executor (AsyncTask) and one main thread, and reads the contacts with   *)
(* ContactsUtil.getContactsAsString inside the tap, while the background   *)
(* thread may be adding some.                                              *)
(*                                                                         *)
(* The reader's cursor holds the rows there were when it was opened, in an *)
(* order nobody gives (the sortOrder of the query is null), so that of a   *)
(* text only the set of its contacts is known; a second cursor per row     *)
(* fetches the numbers.  Contacts are the ones the application creates:    *)
(* each has one number, none is ever deleted, and the provider answers     *)
(* every query (ContactsReader drops all three).  When the server gets a   *)
(* request nothing here can see: inbox stays as it is (PostTask moves it). *)
(***************************************************************************)
EXTENDS AsyncTask, FiniteSets

CONSTANTS
  NumContacts, MaxActivities, Buttons, Size, MaxFds, MaxKills,
  MaxCreations  \* bound: taps on the button that creates contacts

ASSUME MainActivityAssumption == NumContacts \in Nat \ {0} /\ MaxCreations \in Nat

VARIABLES
  activity, bars, barOf, loop, step, book, failed,
  level, stage, payload, file, socket, leaked, unreleased, requests, inbox, early,
  ioFailed, kills, past,
  reader,   \* the tap being handled: its level, the rows its cursor still has
  content,  \* the text given to a PostTask: its contacts
  seen      \* history: the creations that were reported when the tap came

Create == INSTANCE CreateContacts
Post == INSTANCE PostTask

createVars == <<activity, bars, barOf, loop, step, book, failed>>
postVars == <<level, stage, payload, file, socket, leaked, unreleased, requests, inbox,
              early, ioFailed, kills, past>>
activityVars == <<reader, content, seen>>
vars == <<taskVars, createVars, postVars, activityVars>>

NoTap == [level |-> "none", left |-> {}]

Idle == reader = NoTap

InitActivity ==
  /\ reader = NoTap
  /\ content = [t \in Tasks |-> {}]
  /\ seen = [t \in Tasks |-> {}]

Init == InitTasks /\ Create!InitCreate /\ Post!InitPost /\ InitActivity

-----------------------------------------------------------------------------
(* Main thread. *)

Reported == {reported[k].task : k \in DOMAIN reported}

(* The first n contacts that came into the book, and all of them.           *)
First(n) == {book[k] : k \in 1..n}
Rows == First(Len(book))

(* A query whose cursor has these rows. *)
Opens(l, rows) ==
  /\ Idle /\ submitted < MaxTasks
  /\ reader' = [level |-> l, left |-> rows]
  /\ content' = [content EXCEPT ![NewTask] = {}]
  /\ seen' = [seen EXCEPT ![NewTask] = {t \in Reported : Create!IsCreation(t)}]
  /\ UNCHANGED <<taskVars, createVars, postVars>>

(* Mutant: rows of a running creation are seen before their commit. *)
OpenCursorDirty(l) == Opens(l, Rows \cup {<<t, 0>> : t \in active})

(* Mutant: the cursor is moved to its first row before the loop. *)
OpenCursorSkips(l) ==
  \/ Rows = {} /\ Opens(l, {})
  \/ \E row \in Rows : Opens(l, Rows \ {row})

(* A button: the tap opens the cursor (lines 62-65). *)
OpenCursor(l) == Opens(l, Rows)

(* Mutant: every turn takes the newest row there is by then. *)
ReadRowNewest ==
  /\ \E row \in reader.left : reader' = [reader EXCEPT !.left = @ \ {row}]
  /\ content' = [content EXCEPT ![NewTask] = @ \cup {book[Len(book)]}]
  /\ UNCHANGED <<taskVars, createVars, postVars, seen>>

(* One turn of the loop over the rows, with the cursor of its numbers.      *)
ReadRow ==
  /\ \E row \in reader.left :
       /\ reader' = [reader EXCEPT !.left = @ \ {row}]
       /\ content' = [content EXCEPT ![NewTask] = @ \cup {row}]
  /\ UNCHANGED <<taskVars, createVars, postVars, seen>>

(* Mutant: the loop may be left before the last row. *)
ExecutePostEarly ==
  /\ ~Idle
  /\ Post!PostClick(reader.level)
  /\ reader' = NoTap
  /\ UNCHANGED <<createVars, content, seen>>

(* The text is complete: the task is executed and the tap is handled.       *)
ExecutePost ==
  /\ ~Idle /\ reader.left = {}
  /\ Post!PostClick(reader.level)
  /\ reader' = NoTap
  /\ UNCHANGED <<createVars, content, seen>>

Creations == {t \in Tasks : Create!IsCreation(t)}

CreateTap ==
  /\ Idle /\ Cardinality(Creations) < MaxCreations
  /\ Create!CreateClick
  /\ UNCHANGED <<postVars, activityVars>>

Rotate == Idle /\ Create!Rotate /\ UNCHANGED <<postVars, activityVars>>

(* Messages wait until the tap is handled. *)
Callbacks ==
  /\ Idle
  /\ \/ Create!CreateCallbacks /\ UNCHANGED <<postVars, activityVars>>
     \/ Post!Toast /\ UNCHANGED <<createVars, activityVars>>

(* A tap that was being handled is gone with the process. *)
Kill ==
  /\ Create!Kill /\ Post!Kill
  /\ reader' = NoTap
  /\ UNCHANGED <<content, seen>>

-----------------------------------------------------------------------------
(* Background thread. *)

Background ==
  \/ Start /\ UNCHANGED <<createVars, postVars, activityVars>>
  \/ Create!CreateBody /\ UNCHANGED <<postVars, activityVars>>
  \/ Post!PostBody /\ UNCHANGED <<createVars, activityVars>>

Evict == Post!Evict /\ UNCHANGED <<createVars, activityVars>>

MainThread == ReadRow \/ ExecutePost \/ Callbacks

Next ==
  \/ \E l \in Buttons : OpenCursor(l)
  \/ CreateTap \/ Rotate \/ Kill
  \/ MainThread \/ Background \/ Evict

Spec == Init /\ [][Next]_vars

-----------------------------------------------------------------------------
(* Properties. *)

TypeOK ==
  /\ reader \in [level : Buttons \cup {"none"}, left : SUBSET Rows]
  /\ content \in [Tasks -> SUBSET (Tasks \X (0..NumContacts - 1))]
  /\ \A t \in Tasks : ~(Create!IsCreation(t) /\ Post!IsPost(t))

(* A tap that comes after the bar of a creation was hidden posts every      *)
(* contact of it whose write did not fail: the report of a creation, the    *)
(* cursor and the loop over its rows lose nothing between them.             *)
ReportedIsPosted ==
  \A p \in Tasks : Post!IsPost(p) =>
    \A t \in seen[p] : Create!ContactsOf(t) \ failed \subseteq content[p]

(* However a creation is interleaved with the loop over the rows, and in    *)
(* whatever order they come, the text holds the contact book of one moment: *)
(* all that was written up to then and nothing that was written later.      *)
ContentIsSnapshot ==
  \A p \in Tasks : Post!IsPost(p) => \E n \in 0..Len(book) : content[p] = First(n)

(* The texts of two taps agree with the order of the taps: what an earlier  *)
(* one posts a later one posts as well, even across a death of the process. *)
LaterPostsMore ==
  \A p, q \in Tasks :
    p < q /\ Post!IsPost(p) /\ Post!IsPost(q) => content[p] \subseteq content[q]

=============================================================================
