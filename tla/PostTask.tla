------------------------------ MODULE PostTask ------------------------------
(***************************************************************************)
(* PostTask (tasks/PostTask.java): what doInBackground does at each level, *)
(* javaSendDataTo over HttpURLConnection, the native functions it calls    *)
(* (TaintdroidHack.cpp), the file contacts.txt that the level              *)
(* OBFUSCATED_NATIVE_FILESYSTEM writes and reads back, and the descriptors *)
(* that all of them share with what send_http_post leaks (NativePost).     *)
(*                                                                         *)
(* The content of a task - the contacts read at the tap, with a line       *)
(* separator, so never empty - is Size chunks named after the task.        *)
(***************************************************************************)
EXTENDS AsyncTask, FiniteSets

CONSTANTS
  Buttons,   \* the levels whose buttons are tapped
  Size,      \* chunks of a content that reach the disk one after the other
  MaxFds,    \* descriptors the process may open besides those it always has
  MaxKills   \* bound: deaths of the process

Levels == {"REGULAR", "OBFUSCATED_JAVA", "OBFUSCATED_NATIVE_NETWORK",
           "OBFUSCATED_NATIVE_UNTAINT", "OBFUSCATED_NATIVE_FILESYSTEM"}

ASSUME PostTaskAssumption ==
  /\ Buttons \subseteq Levels
  /\ Size \in Nat \ {0} /\ MaxFds \in Nat \ {0} /\ MaxKills \in Nat

VARIABLES
  level,    \* field securityLevel of a task, "none" for no PostTask
  stage,    \* what doInBackground of a task is about to do
  payload,  \* the byte array it hands to javaSendDataTo
  file,     \* contacts.txt, which outlives the process
  socket,   \* the connection HttpURLConnection keeps for the host
  leaked,   \* descriptors lost by send_http_post in this process
  unreleased, \* strings that native functions pinned for good in this process
  requests, \* the requests handed whole to the kernel, which outlive the process
  inbox,    \* which of them the server has, in the order of their arrival
  early,    \* history: tasks answered before the server had their request
  ioFailed, \* history: tasks with a failed open, read or write of the file
  kills,    \* history: deaths of the process
  past      \* history: the taps before the latest death

netVars == <<requests, inbox, early>>
deathVars == <<kills, past>>
postVars == <<level, stage, payload, file, socket, leaked, unreleased, netVars,
              ioFailed, deathVars>>
vars == <<taskVars, postVars>>

(* A text: the content of a task, or the first len chunks of it; `filtered` *)
(* once encodingTrick has dropped the characters it does not list.          *)
Text(t, len) == [of |-> IF len = 0 THEN 0 ELSE t, len |-> len, filtered |-> FALSE]
Empty == Text(0, 0)
Content(t) == Text(t, Size)
EncodingTrick(text) == [text EXCEPT !.filtered = TRUE]

(* What the request of a task has to carry.                                 *)
Wanted(t) ==
  IF level[t] = "OBFUSCATED_JAVA" THEN EncodingTrick(Content(t)) ELSE Content(t)

IsPost(t) == level[t] # "none"
At(t, s) == t \in active /\ IsPost(t) /\ stage[t] = s
GoTo(t, s) == stage' = [stage EXCEPT ![t] = s]

InitPost ==
  /\ level = [t \in Tasks |-> "none"]
  /\ stage = [t \in Tasks |-> "prepare"]
  /\ payload = [t \in Tasks |-> Empty]
  /\ file = Empty /\ socket = "none" /\ leaked = 0 /\ unreleased = 0
  /\ requests = << >> /\ inbox = << >> /\ early = {}
  /\ ioFailed = {} /\ kills = 0 /\ past = 0

Init == InitTasks /\ InitPost

SpareFd == leaked + (IF socket = "none" THEN 0 ELSE 1) < MaxFds

-----------------------------------------------------------------------------
(* Main thread. *)

(* A button: the contacts are read, then the task is queued.                *)
PostClick(l) ==
  /\ Execute
  /\ level' = [level EXCEPT ![NewTask] = l]
  /\ UNCHANGED <<stage, payload, file, socket, leaked, unreleased, netVars, ioFailed,
                 deathVars>>

(* onPostExecute: a toast, by the application context. *)
Toast == HandleResult /\ IsPost(Message.task) /\ UNCHANGED postVars

(* The process dies and is started again: its descriptors are closed. *)
Kill ==
  /\ kills < MaxKills
  /\ KillTasks
  /\ kills' = kills + 1 /\ past' = submitted
  /\ socket' = "none" /\ leaked' = 0 /\ unreleased' = 0
  /\ UNCHANGED <<level, stage, payload, file, netVars, ioFailed>>

-----------------------------------------------------------------------------
(* doInBackground up to the request. *)

(* REGULAR, OBFUSCATED_JAVA and OBFUSCATED_NATIVE_UNTAINT: the content, or  *)
(* what encodingTrick leaves of it; untaint returns the string it is given. *)
Prepare(t) ==
  /\ At(t, "prepare")
  /\ level[t] \in {"REGULAR", "OBFUSCATED_JAVA", "OBFUSCATED_NATIVE_UNTAINT"}
  /\ payload' = [payload EXCEPT ![t] = Wanted(t)]
  /\ GoTo(t, "connect")
  /\ UNCHANGED <<taskVars, level, file, socket, leaked, unreleased, netVars, ioFailed,
                 deathVars>>

AtFile(t) == At(t, "prepare") /\ level[t] = "OBFUSCATED_NATIVE_FILESYSTEM"

(* write_to_file pins the content and the directory for good and opens the  *)
(* stream, which truncates the file ...                                     *)
OpenFile(t) ==
  /\ AtFile(t) /\ SpareFd
  /\ file' = Empty /\ unreleased' = unreleased + 2
  /\ GoTo(t, "flush")
  /\ UNCHANGED <<taskVars, level, payload, socket, leaked, netVars, ioFailed,
                 deathVars>>

(* ... or it is not, which nobody notices, and the file stays as it is.     *)
OpenFileFails(t) ==
  /\ AtFile(t)
  /\ ioFailed' = ioFailed \cup {t} /\ unreleased' = unreleased + 2
  /\ GoTo(t, "readback")
  /\ UNCHANGED <<taskVars, level, payload, file, socket, leaked, netVars, deathVars>>

(* Mutant: the file is read while the stream still holds the last chunk. *)
FlushLate(t) ==
  /\ At(t, "flush")
  /\ file' = Text(t, Size - 1)
  /\ GoTo(t, "readback")
  /\ UNCHANGED <<taskVars, level, payload, socket, leaked, unreleased, netVars,
                 ioFailed, deathVars>>

(* The stream writes its buffer and is destroyed; a full disk keeps a       *)
(* prefix, silently.                                                        *)
Flush(t) ==
  /\ At(t, "flush")
  /\ \E len \in 0..Size :
       /\ file' = Text(t, len)
       /\ ioFailed' = IF len < Size THEN ioFailed \cup {t} ELSE ioFailed
  /\ GoTo(t, "readback")
  /\ UNCHANGED <<taskVars, level, payload, socket, leaked, unreleased, netVars,
                 deathVars>>

(* read_from_file pins the directory once more; a file that cannot be opened *)
(* or read to its end gives a prefix, down to "".                           *)
ReadBack(t) ==
  /\ At(t, "readback")
  /\ \E len \in 0..file.len :
       /\ len > 0 => SpareFd
       /\ payload' = [payload EXCEPT ![t] = Text(file.of, len)]
       /\ ioFailed' = IF len < file.len THEN ioFailed \cup {t} ELSE ioFailed
  /\ unreleased' = unreleased + 1
  /\ GoTo(t, "connect")
  /\ UNCHANGED <<taskVars, level, file, socket, leaked, netVars, deathVars>>

-----------------------------------------------------------------------------
(* javaSendDataTo. *)

(* The task ends with a result; the connection is left as given, and so     *)
(* many strings are never released.                                         *)
Ends(t, result, connection, strings) ==
  /\ Finish(t, result)
  /\ socket' = connection /\ unreleased' = unreleased + strings
  /\ UNCHANGED <<level, stage, payload, file, leaked, netVars, ioFailed, deathVars>>

(* getOutputStream: ConnectException, or another IOException - no           *)
(* descriptor, a timeout.                                                   *)
ConnectFails(t) ==
  /\ At(t, "connect") /\ socket = "none"
  /\ Ends(t, "unreachable", "none", 0) \/ Ends(t, "sendError", "none", 0)

(* A new connection, or the idle one of an earlier request.                 *)
Connect(t) ==
  /\ At(t, "connect")
  /\ \/ socket = "none" /\ SpareFd /\ socket' = "new"
     \/ socket = "idle" /\ socket' = "recycled"
  /\ GoTo(t, "sending")
  /\ UNCHANGED <<taskVars, level, payload, file, leaked, unreleased, netVars, ioFailed,
                 deathVars>>

(* The last byte of the request is handed to the kernel.                    *)
HandOver(t) ==
  /\ requests' = Append(requests, [task |-> t, body |-> payload[t]])
  /\ UNCHANGED <<inbox, early>>

Sends(t) ==
  /\ At(t, "sending")
  /\ HandOver(t) /\ GoTo(t, "sent")
  /\ UNCHANGED <<taskVars, level, payload, file, socket, leaked, unreleased, ioFailed,
                 deathVars>>

(* What the kernel has may reach the server at any time, after the socket   *)
(* was closed, after its process died, after a later request; or never.     *)
InFlight == DOMAIN requests \ {inbox[k] : k \in DOMAIN inbox}

Arrives ==
  /\ \E r \in InFlight : inbox' = Append(inbox, r)
  /\ UNCHANGED <<taskVars, level, stage, payload, file, socket, leaked, unreleased,
                 requests, early, ioFailed, deathVars>>

Arrived(t, text) ==
  \E k \in DOMAIN inbox : requests[inbox[k]] = [task |-> t, body |-> text]

(* A recycled connection that breaks is replaced, and the request sent      *)
(* again, by HttpURLConnection itself; the first one may have arrived.      *)
Resend(t) ==
  /\ At(t, "sending") \/ At(t, "sent")
  /\ socket = "recycled" /\ socket' = "none"
  /\ GoTo(t, "connect")
  /\ UNCHANGED <<taskVars, level, payload, file, leaked, unreleased, netVars, ioFailed,
                 deathVars>>

(* IOException from getResponseCode, getInputStream or readLine.            *)
ConnectionBreaks(t) ==
  /\ At(t, "sending") \/ At(t, "sent") \/ At(t, "body")
  /\ Ends(t, "sendError", "none", 0)

(* A status below 400, which the server may send before it has the request  *)
(* and without ever reading it ...                                          *)
Respond(t) ==
  /\ At(t, "sent")
  /\ early' = IF Arrived(t, payload[t]) THEN early ELSE early \cup {t}
  /\ GoTo(t, "body")
  /\ UNCHANGED <<taskVars, level, payload, file, socket, leaked, unreleased, requests,
                 inbox,
                 ioFailed, deathVars>>

(* ... or not: getInputStream throws. *)
Refuse(t) ==
  /\ At(t, "sent")
  /\ Ends(t, "sendError", "none", 0) \/ Ends(t, "sendError", "idle", 0)

(* The response is read to its end; the connection may be kept.             *)
ReadResponse(t) ==
  /\ At(t, "body")
  /\ Ends(t, "success", "none", 0) \/ Ends(t, "success", "idle", 0)

(* An idle connection is given up after a while, or when the server closes. *)
Evict ==
  /\ socket = "idle" /\ socket' = "none"
  /\ UNCHANGED <<taskVars, level, stage, payload, file, leaked, unreleased, netVars,
                 ioFailed, deathVars>>

-----------------------------------------------------------------------------
(* OBFUSCATED_NATIVE_NETWORK: send_http_post, as NativePost has it. *)

AtNative(t) == At(t, "prepare") /\ level[t] = "OBFUSCATED_NATIVE_NETWORK"

(* No socket or no connection: the content and the host stay pinned. *)
NativeFails(t) == AtNative(t) /\ Ends(t, "nativeError", socket, 2)

(* Mutant: the test `sockfd < 0` is missing. *)
NativeUnchecked(t) ==
  /\ AtNative(t)
  /\ payload' = [payload EXCEPT ![t] = Content(t)]
  /\ GoTo(t, "native")
  /\ UNCHANGED <<taskVars, level, file, socket, leaked, unreleased, netVars, ioFailed,
                 deathVars>>

NativeConnects(t) ==
  /\ AtNative(t) /\ SpareFd
  /\ payload' = [payload EXCEPT ![t] = Content(t)]
  /\ GoTo(t, "native")
  /\ UNCHANGED <<taskVars, level, file, socket, leaked, unreleased, netVars, ioFailed,
                 deathVars>>

(* write has accepted the last byte.                                        *)
NativeSends(t) ==
  /\ At(t, "native")
  /\ HandOver(t) /\ GoTo(t, "nativeSent")
  /\ UNCHANGED <<taskVars, level, payload, file, socket, leaked, unreleased, ioFailed,
                 deathVars>>

InCall(t) == At(t, "native") \/ At(t, "nativeSent")

(* An error of write or read, or a response that does not fit: the socket   *)
(* stays open and both strings pinned.                                      *)
NativeLeaks(t) ==
  /\ InCall(t)
  /\ Finish(t, "nativeError")
  /\ leaked' = leaked + 1 /\ unreleased' = unreleased + 2
  /\ UNCHANGED <<level, stage, payload, file, socket, netVars, ioFailed, deathVars>>

(* Mutant: the strings are not released on success either. *)
NativeSucceedsPinned(t) == InCall(t) /\ Ends(t, "success", socket, 2)

(* End of stream, whatever was read of the request or answered to it.       *)
NativeSucceeds(t) == InCall(t) /\ Ends(t, "success", socket, 0)

-----------------------------------------------------------------------------
StartPost == Start /\ UNCHANGED postVars

Local(t) ==
  \/ Prepare(t) \/ OpenFile(t) \/ OpenFileFails(t) \/ Flush(t) \/ ReadBack(t)
  \/ ConnectFails(t) \/ Connect(t) \/ Sends(t) \/ ReadResponse(t)
  \/ NativeFails(t) \/ NativeConnects(t) \/ NativeSends(t)
  \/ NativeLeaks(t) \/ NativeSucceeds(t)

Remote(t) == Respond(t) \/ Refuse(t) \/ Resend(t) \/ ConnectionBreaks(t)

PostBody == \E t \in Tasks : Local(t) \/ Remote(t)

PostClicks == \E l \in Buttons : PostClick(l)

Next == PostClicks \/ Toast \/ Kill \/ StartPost \/ PostBody \/ Evict \/ Arrives

Spec == Init /\ [][Next]_vars

(* The threads keep running, and the network in the end answers or breaks   *)
(* every request: no level sets a timeout.  No request has to arrive.       *)
FairSpec == Spec /\ WF_vars(StartPost) /\ WF_vars(PostBody) /\ WF_vars(Toast)

-----------------------------------------------------------------------------
(* Properties. *)

Texts == [of : 0..MaxTasks, len : 0..Size, filtered : BOOLEAN]

Stages == {"prepare", "flush", "readback", "connect", "sending", "sent", "body",
           "native", "nativeSent"}

TypeOK ==
  /\ TasksTypeOK
  /\ level \in [Tasks -> Levels \cup {"none"}]
  /\ stage \in [Tasks -> Stages]
  /\ payload \in [Tasks -> Texts] /\ file \in Texts
  /\ socket \in {"none", "idle", "new", "recycled"}
  /\ leaked \in 0..MaxFds
  /\ unreleased \in Nat
  /\ requests \in Seq([task : Tasks, body : Texts])
  /\ inbox \in Seq(DOMAIN requests)
  /\ early \subseteq Tasks /\ ioFailed \subseteq Tasks
  /\ kills \in 0..MaxKills /\ past \in 0..MaxTasks

Reported(t, result) ==
  \E k \in DOMAIN reported : reported[k] = [task |-> t, value |-> result]
Sent(t, text) == \E r \in DOMAIN requests : requests[r] = [task |-> t, body |-> text]

(* The server has the request of a task, and had it before any of a later.  *)
ComesFirst(t) ==
  \E k \in DOMAIN inbox :
    /\ requests[inbox[k]] = [task |-> t, body |-> payload[t]]
    /\ \A j \in 1..k : requests[inbox[j]].task <= t

(* "Successfully sent data" at a level that goes through javaSendDataTo     *)
(* means that a request with exactly the bytes handed over was sent whole;  *)
(* and, unless the server answered before it had it, that the server has    *)
(* it and got it before any request of a later tap, although requests of    *)
(* earlier taps and earlier processes may still be under way.               *)
SuccessComesFirst ==
  \A t \in Tasks :
    Reported(t, "success") /\ level[t] # "OBFUSCATED_NATIVE_NETWORK"
      => Sent(t, payload[t]) /\ (t \notin early => ComesFirst(t))

(* Whatever is sent is what its task was to send, unless a file operation   *)
(* of that very task failed: no other task, earlier process or half-written *)
(* file shows through contacts.txt.                                         *)
OwnContent ==
  \A r \in DOMAIN requests :
    requests[r].task \in ioFailed \/ requests[r].body = Wanted(requests[r].task)

(* Once send_http_post has lost every descriptor, nothing is sent and no    *)
(* result is a success any more, at any level, until the process dies; what *)
(* was sent before may still arrive.                                        *)
LostMeansSilence ==
  [][leaked = MaxFds /\ kills' = kills =>
       /\ UNCHANGED <<requests, leaked>>
       /\ Len(looper') > Len(looper) => looper'[Len(looper')].value # "success"]_vars

(* The tasks of this process that were started.                             *)
Started == ((past + 1)..submitted) \ Queued

WroteFile(t) == level[t] = "OBFUSCATED_NATIVE_FILESYSTEM"

FailedNatively(t) ==
  \/ Reported(t, "nativeError")
  \/ \E k \in DOMAIN looper : looper[k] = Result(t, "nativeError")

(* Whatever fails on the way and whatever the toasts say, between two tasks *)
(* the process has lost three strings for every tap at the level of the     *)
(* file (lines 96, 97 and 105), two for every native request that failed    *)
(* (lines 77-78 are not reached), and no other.                             *)
StringsAccounted ==
  active = {} =>
    unreleased = 3 * Cardinality({t \in Started : WroteFile(t)})
                 + 2 * Cardinality({t \in Started : FailedNatively(t)})

(* Every tap on a button is answered by a toast, or the process dies.       *)
EveryTapAnswered == \A t \in Tasks : t <= submitted ~> IsReported(t) \/ t \in lost

(* What the toast "Successfully sent data" (PostTask.java:84) says at the   *)
(* level OBFUSCATED_NATIVE_FILESYSTEM: the data of this tap was sent, or at *)
(* least not that of another.                                               *)
SuccessMeansOwnContent ==
  \A r \in DOMAIN requests :
    LET t == requests[r].task IN
    Reported(t, "success") /\ level[t] = "OBFUSCATED_NATIVE_FILESYSTEM"
      => requests[r].body.of \in {0, t}

=============================================================================
