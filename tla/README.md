# A TLA+ model of hack_taintdroid_app

The application shows, on a phone with TaintDroid, five ways of posting the
contact book to a server. This directory models its behaviour: what runs on
which thread, what the native code does with sockets, files and VM objects, what
happens when a step fails or the process dies, and what "Successfully sent
data" may be taken to mean. Paths below are relative to `src/app/src/main/`;
`J/` stands for `java/de/uni_passau/taintdroid_hack/`.

## The system

| part | code | state | operations |
|---|---|---|---|
| activity | `J/MainActivity.java` | files directory, progress bar | `onCreate`, five button listeners, menu item |
| task execution | `AsyncTask` (Android) | executor queue, running task, main looper | `execute`, `publishProgress`, callbacks |
| contact creation | `J/tasks/CreateContactsTask.java`, `J/util/ContactsUtil.java` (`writeContact`) | loop index, the bar it was given, the contact book | `onPreExecute`, `generateContacts`, `onProgressUpdate`, `onPostExecute` |
| contact reader | `ContactsUtil.getContactsAsString` | two cursors, the text | one loop over rows, one query per row, over a book that anyone may edit |
| posting | `J/tasks/PostTask.java`, `TaskResult`, `SuccessResult`, `ErrorResult` | level, content, result | `doInBackground` (five levels), `javaSendDataTo`, `onPostExecute` |
| content conversion | `TaintdroidHack.encodingTrick`, format of the native request | loop indices; array size | two nested loops; `strlen`, `sprintf` |
| native post | `cpp/TaintdroidHack.cpp` `send_http_post` | socket, pinned strings, two loop counters | socket, connect, write loop, read loop, six returns |
| native file | `write_to_file`, `read_from_file` | `contacts.txt` | truncate and write; read |
| reference lookup | `cpp/IndirectRefTable.cpp`, `.h` | table, segment state (kept by the VM) | `get`, the iterator |
| native untaint | `untaint`, `ScopedJniThreadState.h`, `Thread.cpp`, `Object.cpp` | thread status, taint tag of a char array | status change, lookup, store, status change |
| declared layouts | `cpp/Thread.h`, `InterpState.h`, `Object.h`, `IndirectRefTable.h`, `ReferenceTable.h`, `Taint.h`, `Common.h` | none: offsets, fixed by build flags and ABI | the nine accesses of `untaint` at these offsets |

How they meet. A tap runs on the main thread: it reads the contacts there, then
submits a task. All tasks, of both classes, go through one serial executor; their
results and progress come back through the looper of the main thread. The file
and the contact book outlive the process; the task queue, the sockets and the
pinned strings do not. The native functions run inside the background task and
share its process: a descriptor that `send_http_post` loses is missing
everywhere. `untaint` reads tables and objects of the virtual machine, whose
collector runs beside it; it finds its way through them by the members' offsets in the
application's own declarations, which have to be those of the running machine.

What is hard here: descriptors lost on some returns and not on others; success
decided by an end of stream; a file that keeps the content of an earlier tap;
a reader on one thread while a writer runs on another, and other applications edit
the book between its queries; a provider that commits
and then fails; a progress bar that belongs to an instance that is gone; raw
pointers used while the collector may run; structures declared a second time, for a machine
that was built with other flags; numbers at their edges (array size,
response size, index and kind of a reference, the progress quotient). Every such
place is listed with its line under `hazards` in `PROJECT.json`.

## The modules

`TaskService` is the abstract specification: a tap submits a task, the oldest
pending task is answered, a crash loses what is pending. It has no bound and
says nothing of what tasks do.

`AsyncTask` is the framework as this application uses it: operators for
`execute`, the start of a task by `SERIAL_EXECUTOR`, publishing, finishing,
handling a message, and the death of the process. Its map entries are external but
for `Execute`; the modules of the tasks decide when these steps are taken.
`ServiceSpec` is `TaskService!Spec` under the mapping: pending = queued, running
or with a result in the looper; answered = the sequence of `onPostExecute` calls.

`CreateContacts` EXTENDS `AsyncTask`. `CreateClick` is the menu item with
`onPreExecute`; `Commit`, `CommitFails`, `CommitUnheard` are the three outcomes of
`applyBatch`, the last one being a provider that dies after its commit;
`PublishProgress` is line 74 with its integer division; `Generated` leaves the
loop. `Rotate` makes a new activity with a new bar, `Kill` a new process. A
contact is the pair of its task and its loop index: random names are left out.

`PostTask` EXTENDS `AsyncTask`. The level of a task decides where it goes from
`prepare`: to the file (`OpenFile`, `OpenFileFails`, `Flush`, `ReadBack`), to
`send_http_post` (`NativeConnects`, `NativeSends`, `NativeSucceeds`, `NativeLeaks`, or `NativeFails` before the
connection), or to `javaSendDataTo` (`Connect` to `ReadResponse`). A content is a number of chunks named after its
task, so that foreign, cut and empty contents can be told apart. `SpareFd` is what couples
the levels: sockets and files need a descriptor that was not lost; `unreleased` counts the strings that native functions
pin and never release, two in `write_to_file`, one in `read_from_file`, two on every failing return of `send_http_post`.

The network is kept apart from the tasks. `HandOver` is the moment at which the kernel has the last byte: from then on the
request belongs to `requests`, and `Arrives` moves it to the server's `inbox` at any later time or never - after the
socket was closed or leaked, after the task ended, after its process died, after later requests. The server may answer
before it has the request, or without ever reading it: `Respond` is not guarded by an arrival and notes such a task in
`early`. The kept connection of `HttpURLConnection`, and the request it repeats when that connection turns out broken
(`Resend`, so that one request may arrive twice), are external.

`MainActivity` composes the two with `INSTANCE` over the same variables and
adds the reader: `OpenCursor`, `ReadRow` once per row, `ExecutePost`. While a tap
is handled no callback and no other tap runs; the background thread does. The query's `sortOrder` is null, so
the cursor's rows are a set and `ReadRow` takes any one that is left: a text is known by the set of its contacts.
The provider answers both queries here (`ContactsReader` drops that). When a request arrives nothing in this module can
see, so `inbox` stays as it is.

`NativePost` is `send_http_post` at the granularity of system calls, one action
for each return, called again and again until the process dies (`Restart`), with the peer and the
kernel beside it. `PostTask` uses a coarser picture of the same function (five
actions).

`NativePosting` puts the two together: tasks, queue and the other levels as in `PostTask` (`Java`, for which the lost
descriptors are all that the process has open in native code, and the unreleased strings those of the file), the native
level by the system calls of `NativePost` (`NativeCalls`, `NativeOpens`, `NativeConnects`, `NativeTurns`, `NativeSends`
for the write that takes the last byte, `NativeReturns`, and `PeerTurns` for peer and kernel), one table of descriptors
for both. Its property `PostTaskSpec` is the whole of `PostTask` under the mapping of `leaked` to the descriptors that no
call will close, and of `unreleased` to the strings of the file and two for each call that did not end in success: what
`PostTask` takes for granted of the native call - which ends lose a descriptor, which lose strings, that success
needs an end of stream, when a request was handed over whole - is so shown of its system calls. `Die` is the death of
the process, between any two system calls: queue, call, descriptors and strings are gone (`Kill` of `PostTask` and
`Restart` of `NativePost` in one step), the file and what the kernel was given stay. The peer of `NativePost` may send
without reading, read on after it has answered, answer in parts, and close when it likes; what it reads has no effect on
the call, so when a request arrives is left to `Arrives`.

`ContactsReader` is `getContactsAsString` on a book that other applications edit while it
is read, with its four outcomes of queries: `Query` and `QueryFails` for the rows, `ReadRow` and
`NumbersFail` for the numbers of a row. `MainActivity` has the same loop with the application's own
background thread as the only writer, and follows the text on to the server; here it goes as far
as the text, but contacts are inserted, changed, deleted and joined by anyone.

`EncodingTrick` and `HttpMessage` are the two conversions the program does
itself; `Conversions` puts them side by side, as two of the levels do.

`IndirectRefTable` has `get` and the iterator (`Skip`, `Visited`) over a table that the VM
fills. Adding, removing, pushing and popping are the VM's and not in the repository: they follow the comments of the
header (holes, segments, cookies) and are marked external in the map. `Untaint` EXTENDS it with the
native method, the thread status and a collector that stops the world.
`dvmChangeStatus` leaves the status as it is, as the function in `Thread.cpp`
does.

`StructLayout` says how a compiler lays out a structure (offset, padding, packed, union), `DalvikStructs` gives
the members of each structure that `untaint` goes through, or that one of these embeds, as functions of
a build: the preprocessor flags and the alignment of eight bytes. Where an `#if` has an `#else`, each branch is a member
with a name of its own. `UntaintWalk` takes the accesses of
`untaint` one by one and compares, at each, the offset in the application's build with the one in the
machine's; where they differ, or where the machine has no such member, the walk is astray.

The mutants, marked as such, stand before the operator they are a faulty version
of; no specification uses them. MC modules give constants their values where a
`.cfg` cannot.

## The runs

| run | what it shows | bounds, and why they are enough |
|---|---|---|
| `native_post` | descriptors and strings after every return, wire contents, meaning of `JNI_TRUE`, exhaustion until the process dies, both loops end; the native call is the one that `PostTask` assumes | 2 taps at the native or the `REGULAR` level, 2 calls, 1 descriptor, 1 death of the process, 2 request bytes, 2 response bytes, replies of up to 3 (47,309 states): one failing call takes the last descriptor, a task of either level comes after it, and the process may die in any call, before, between or after; a request is written and read whole or in two, a reply fills the array or does not fit. The file level shares nothing with the native call but the descriptors, which `REGULAR` needs as well; `post_task` has it |
| `create_contacts` | bar, contact book, reports, bar hidden in the end | 3 tasks of 2 contacts, 2 instances: two tasks share a bar and a third is behind, or on a new instance |
| `create_contacts_progress` | (violation) the bar never moves | 2 tasks of 2 contacts |
| `post_task` | meaning of success with early answers and late arrivals, foreign contents, effect of a lost descriptor, strings never released, every tap answered | 2 tasks on every pair of the five levels, 2 chunks, 1 descriptor, 1 death (346,533 states): the first task can lose the descriptor, leave its file, its connection or its request behind, and the second meets it; a content can be cut |
| `post_task_file` | (violation) success with the content of an earlier tap | 2 tasks on the file level: in the shortest trace the first tap writes its contacts, the second's open fails and it sends those of the first |
| `main_activity` | what a posted text contains; refinement of the composition | 3 tasks of which at most 2 create (three without a post say nothing of a text; `create_contacts` has them), 1 contact each, 2 instances, 1 death, one level (the levels differ after the text is complete) (174,320 states): a creation before or between two posts, or two creations and a post, so that the report of the first, the commit of the second and the loop over the rows meet in every order. A row is a contact, whichever creation made it, so one contact per creation gives the reader all the books of up to two rows; `create_contacts` has creations of two |
| `conversions` | loops of `encodingTrick` against the filter; size of the request array | texts of up to 4 characters over 3 symbols and an unlisted one; lengths around every change of the number of digits up to five, and those of up to 25 contacts |
| `indirect_ref_stale` | (violation) a stale reference is resolved | 3 entries, 4 serial numbers |
| `contacts_reader` | names and numbers belong together, nothing untouched is left out, every tap ends | 2 identifiers, 2 names, 2 numbers, 1 number before contacts are joined, 2 taps, 2 edits: an edit of the row read and one of the other, between any two queries; a joined contact has 2 numbers |
| `untaint` | good references resolve, answers are held, the iterator visits what is left, the call writes through its argument | 3 strings on 2 arrays, 3 entries, 2 frames, 1 call, serial numbers left out (`get` does not read them) |
| `untaint_walk` | on which machines the tag is reached; which flags move no member that both builds have | none: all 128 builds |
| `untaint_stopped` | (violation) raw pointers used in a stopped world | as `untaint`, 2 entries |

`CHECK_DEADLOCK FALSE` in every run: with the bounds used up the user may simply
stop tapping, and the conversions end.

The four violations are listed under `findings`: what a comment, a layout or a
message says of the program and what the code does instead. None of them keeps a
positive property from being checked: `SuccessComesFirst` holds at the levels
that go through `javaSendDataTo`, `OwnContent` holds but for the tasks one of
whose own file operations failed, `LiveResolves` holds for good references.

Worth knowing beside them, as properties that hold state it: `FitsIffShort`
says that the array of the native request is large enough exactly for contents of
less than 1000 bytes, which 22 contacts made by `CreateContactsTask` (45 bytes each
with their labels, and one line separator) reach 991 of; `BarTellsCreation` says
that of two creations started on one instance the first to be reported may hide the
bar of both; `StringsAccounted` that every tap at the level of the file, successful or not, costs the process three pinned
strings; `SuccessComesFirst` what is left of "Successfully sent data" on a network that delivers late and a server that
answers early; `ReachesTag` that
the tag is written on machines with taint tracking and the JIT, and on no other, whatever the further flags;
`ResourcesAccounted` and `ExhaustionIsFinal` say what failing
native calls cost; `LostMeansSilence` that from then on nothing is sent at any
level.

Three things a reader of these properties should not take from them. `JNI_TRUE` says that the request
was accepted by the kernel, but for a stalled write, and the connection ended (`SuccessMeansExchanged`); it does not say
that the peer read a byte. A success of `javaSendDataTo` says that the request was handed over whole and an answer came;
that the server has the request follows only for a server that reads it before it answers, which is why
`SuccessComesFirst` excepts the tasks in `early`. And `UntouchedIsComplete` speaks of contacts that were left alone while
the text was built: a contact that is joined into one whose row was already read takes its number with it out
of the text.

## Fairness

Weak fairness only. The executor's thread and the main thread are scheduled
(`StartPost`, `PostBody`, `Toast`, and their counterparts; `Thread` in `NativePosting`). Taps, rotation and
death of the process have none. The network in the end answers, closes or
breaks a connection (`PeerCloses` in `NativePosting`, the remote steps within `PostBody`): the code
sets no timeout of its own, so without this the background thread, and every
later task with it, waits for ever; liveness is claimed under this condition
only. Arrivals have no fairness: no request has to reach the server. The contact provider answers every batch and every query, with null perhaps;
with the main thread scheduled (`Reader` of `ContactsReader`) that is enough for `TapEnds`, since the
first cursor is finite and edits do not make it longer.

## Assumptions about what is not in the repository

- The first cursor's window holds the whole book: a larger one is filled again while the loop runs, and
  would show later rows.
- The provider gives an identifier once; an edit or a batch of inserts is atomic. The permission to read
  contacts is granted, so the query throws no `SecurityException`.
- The machine is 32-bit Bionic: `pthread_mutex_t`, `pthread_cond_t`, pointers and enumerations are one word each. The
  native code does not compile for another width. Machine and library share the ABI, and
  `WITH_EXTRA_GC_CHECKS` is set in neither; the interface structure `JNIEnvExt` is the same in both.
- The server may answer before it has a request, read on after that, or never read. Bytes that the kernel was given
  arrive in any order between requests, late or never, and no request arrives that was not handed over whole.
- The VM adds, removes, pushes and pops references as the comments of `IndirectRefTable.h` say, and the
  collector waits for running threads only.

## The proofs

All theorems hold for every value of the constants that satisfies the named
assumptions (`NativePostAssumption`, `AsyncTaskAssumption`, `CreateContactsAssumption`,
`NativePostingAssumption`, `PostTaskAssumption`, `MainActivityAssumption`, `ContactsReaderAssumption`,
`EncodingTrickAssumption`, `HttpMessageAssumption`,
`IndirectRefTableAssumption`, `UntaintAssumption`), and were checked by
tlapm with its SMT, Zenon and LS4 back ends.

- `NativePostProofs`: `TypeCorrect`, `ResourceAccounting`, `WireCorrect`, `SuccessIsExchange`, `Exhaustion`, of
  `send_http_post` alone. The inductive invariant joins the type, the two
  accounting equations and `LoopInv`, which ties the wire to `sent`, the loop the
  call is in, and what each exit leaves: the accounting alone is not inductive
  because `ConnectFails` needs to know that a socket is held. Then, of the composition with the tasks:
  `CallsAreCalls`, every step of `NativePosting` is one of `send_http_post` or leaves its state alone, so that the
  five results above hold there as well; and `NativeRefinement`, every behaviour of `NativePosting` is one of `PostTask`.
  The refinement needs `PostingInv`: one task runs at a time, in the order of the taps (`SerialInv`), nobody
  touches the stage of a task that waits (`StageInv`), a call under way has a task that waits for it, and where the call
  is is where `PostTask` thinks it is (`CallerInv`), and open and lost descriptors fit the table (`DescriptorsFit`); that
  the strings come out right is the second accounting equation. A death empties the
  native state and the task queue in one step, which is the death of `PostTask` (`DieMaps`). With the refinement the
  theorems about `PostTask` hold of the system calls: `PostingDelivers` (own content, meaning of a success, strings,
  silence once the descriptors are lost) and `PostingAnswers` (every tap is answered in turn and once, or dies with the
  process) cite `PostTaskProofs` through an `INSTANCE` that puts the state of `NativePost` for its `leaked` and
  `unreleased`.
- `AsyncTaskProofs`: `FrameworkImplementsService`. Whatever tasks do, executor and
  looper implement the service. The invariant says that results in the looper, the
  running task and the queue hold increasing task numbers in that order: the
  oldest pending task is then the one at the head of the looper. `ServiceCorrect` is of the abstract service
  itself, in its words: taps are answered in their order and none vanishes; with a refinement it holds of every
  module below.
- `CreateContactsProofs`: `ContactsInOrder`, `NoContactForgotten`,
  `CreationImplementsService`. The invariant `CreateInv` adds to the framework's one
  that a task has tried exactly the contacts its loop has come by, that only the
  running task is ahead of the book's last contact, and that finished tasks
  have come to the end of their loops. The refinement follows because every step of
  the module is a framework step or leaves the framework's variables alone. `BarsTell` and
  `TypeCorrect` follow from `BarInv`, which adds that tasks beyond the last tap have no bar and that
  progress messages carry numbers; it needs the service's order, by which a reported task is older than
  all that are pending.
- `MainActivityProofs`: `TypeCorrect`, `TextsAreSnapshots`, `TextsGrow`, `ReportedContactsArePosted`,
  `ApplicationImplementsService`. The invariant says of the tap being read that its text and the rows its cursor still
  has are together the book of one moment (`ReaderInv`), that this covers every earlier text and what had been reported
  when the cursor was opened, and of the book that it only grows at its end, so that a snapshot survives a commit between
  any two rows (`SnapshotsKept`, `ReaderKept`). `TextsInv` says the same of the texts that were posted. Nothing is said
  of the order of rows: texts are sets. A step of posting is seen only by what it does to the executor.
- `PostTaskProofs`: `TypeCorrect`, `NothingForeignSent`, `SuccessIsSentFirst`, `LostIsSilent`, `StringsCounted`,
  `PostingImplementsService`. `PostInv` adds to the framework's invariant: the stage a
  task is in (`TaskInv`, `RunningInv`), that open sockets and lost descriptors are never more than there
  are (`FdInv`), that a task that waits is at its first stage (`FreshInv`), that a reported success came from the last
  stage (`SuccessInv`), and that the running task is the latest that has sent (`RequestsInv`). `OwnContent` is not
  inductive without what `RunningInv` says of the file, which is the running task's own from its write on: what is read
  back has to be known before it is sent. `SuccessIsSentFirst` rests on two facts of different kinds: what a task
  sends is sent after everything before it and before anything of a later tap (`RequestsInv`), and `requests` and `inbox`
  only ever grow (`NetworkGrows`), so what came first stays first whatever arrives later. `StringsCounted` needs more than the
  equation, since a task pins strings before it has ended: `StringsInv` adds what the running task has pinned at its
  stage (`PinnedSoFar`), and that only tasks that were started in this process and have ended have failed.
- `ContentProofs`, what becomes of the contacts before they are sent: `TypeCorrect`, `PairsCorrect`, `NoneLeftOut` of the
  reader, `ConversionTypeCorrect`, `CopyCorrect`, `ShortContentsFit` of the conversions. The reader's invariant says that
  rows have distinct identifiers and that a contact which was not touched since the tap is in the book exactly as its row
  found it, so that the second query, whenever it is made, gives the numbers of the first moment. For `encodingTrick` the
  invariant adds to the filter what the inner loop has excluded (`SearchInv`); that the copied characters are the listed
  ones in their order is stated by the rank of each (`Kept`), so no recursion over the text is needed. The size of the
  request array is a case split on the number of digits.
- `LayoutProofs`: `TagReached`, `OffsetsKept`. The run goes through the 128 builds
  one by one; the proof says why they come out so, by the flags of a build and the offsets they give. The end of a member is
  defined by recursion over the members before it, and a thread has more than sixty, so the lemmas never unfold
  it: first the recursive function `EndsOf` is shown to exist; then a structure is
  put together piece by piece (`AddSeveral` for a run of members, `FoundBefore` and `Found` for a name in what is there or in
  what is added), each piece carrying its end, its alignment and that its names are distinct from the earlier ones; what
  follows a member moves nothing. The result is the offset of each member that `untaint` uses as an expression in
  the flags. `TagReached` then needs the invariant `WalkInv`: from the access to `segmentState` on, the machine has both
  taint tracking and the JIT, and only a walk on another one is astray. `OffsetsKept` compares a build with the one in which
  a flag is changed: a member that stands in for another has its size and its alignment, so that no member that both
  builds have moves.
- `UntaintProofs`: `TypeCorrect`, `ReferencesResolve`, `AnswersHeld`, `IteratorVisits`, `GivenIsTouched`,
  and `TableResolves`, `TableCounts` for the table alone. The lookup reads one number, so the invariant `TableInv`
  has to say where references may point: segments are separated by edges that rise to the top
  (`EdgesRise`), a good reference lies between the edges of its segment and its slot has its object (`LiveInv`),
  no two share a slot (`OneHolder`), and every used slot below the top has one (`Held`). The number of holes is not
  needed for it: a reference goes to a free slot or to the top in any case. That the count is right, of this
  segment and of every saved one, is `CountInv`, proved on top of `TableInv` by how one slot, or the empty slots
  beneath a deleted top, change the cardinality. That an index survives its encoding
  is `EncodeIndex`, from a lemma on division; `Greatest`, that a finite set of numbers has a greatest one,
  is what deleting the topmost reference needs (both are shown in `LayoutProofs`, which this module extends). The loops of the iterator are recursive functions: `Skips` and
  `Iterates` first show that a function with such an equation exists, since otherwise nothing is known of it, and then what it
  gives, from the end of the table down (`Downwards`, a consequence of `Greatest`).

Only model-checked: liveness (`CallReturns`, `BarIsHidden`, `EveryTapAnswered`, `TapEnds`), since the prover does not
do fairness. Every other property of the passing runs is stated by a theorem of the table in `PROJECT.json`.

## Not modelled

- `ClassObject`, `StaticField`: declared in `Object.h`, and nothing of the program reads one; the class pointers that
  `untaint` passes are members of the objects that are modelled.
- `DexFile.h`, `Method`, `InterfaceEntry`, `InstField`, enumerations of flags: types that the program
  only has pointers to, or does not use. No structure on the way of `untaint` embeds one, so they
  neither move a member nor have an operation.
- `MainActivityFragment`, resources other than the progress bar, manifest, build files: no state.
- `Stopwatch` and logging.
- Errors that cannot occur with the arguments the program uses: `MalformedURLException`
  of `buildUrl`, `UnsupportedEncodingException` of UTF-8, `gethostbyname` of a
  dotted address. The fallback result at the end of `doInBackground` is
  reached by these only.
- Memory exhaustion of the process.

## Plan

Done in the order of importance: `NativePost`; `TaskService`, `AsyncTask`; `CreateContacts`;
`PostTask`; `MainActivity`; `IndirectRefTable`, `Untaint`; the conversions;
the edited book (`ContactsReader`); the layouts (`StructLayout`, `DalvikStructs`, `UntaintWalk`); the native call under
the tasks (`NativePosting`); late arrivals and early answers; rows without an order; the strings of the file's
functions; the proofs of posting, of the reader, of the reference table with its
holes and its iterator, of the bars, of the composed application, of the conversions, of the refinement of `PostTask`
by the system calls; deaths of the process in the native call; the proofs of the layouts.

Every safety property of the passing runs is a theorem.

Left, what would go further: the composed application with the edited book of `ContactsReader` in place of its own loop.
