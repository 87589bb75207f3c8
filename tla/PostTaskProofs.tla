--------------------------- MODULE PostTaskProofs ---------------------------
(***************************************************************************)
(* PostTask for every number of taps, chunks, descriptors and deaths, and   *)
(* every choice of buttons: what is sent is what its task was to send, and  *)
(* what a reported success means.                                          *)
(***************************************************************************)
EXTENDS PostTask, AsyncTaskProofs, FiniteSetTheorems

Requests == [task : Tasks, body : Texts]
Request(t) == [task |-> t, body |-> payload[t]]

PostType ==
  /\ level \in [Tasks -> Levels \cup {"none"}]
  /\ stage \in [Tasks -> Stages]
  /\ payload \in [Tasks -> Texts] /\ file \in Texts
  /\ socket \in {"none", "idle", "new", "recycled"}
  /\ leaked \in 0..MaxFds /\ unreleased \in Nat
  /\ requests \in Seq(Requests) /\ inbox \in Seq(DOMAIN requests)
  /\ early \subseteq Tasks /\ ioFailed \subseteq Tasks
  /\ kills \in 0..MaxKills /\ past \in 0..MaxTasks
  /\ lost \subseteq Tasks /\ \A t : IsReported(t) => t \in Tasks
  /\ \A k \in DOMAIN looper : looper[k].task \in Tasks

(* A task's payload is its own from the stage on that follows the file, and *)
(* the response is read only once the request was sent, and is there first  *)
(* of all that are sent later, unless it was answered too early.            *)
OwnPayload(t) == payload[t] = Wanted(t) \/ t \in ioFailed

TaskInv(t) ==
  /\ stage[t] \in {"flush", "readback"} => level[t] = "OBFUSCATED_NATIVE_FILESYSTEM"
  /\ stage[t] \in {"native", "nativeSent"} => level[t] = "OBFUSCATED_NATIVE_NETWORK"
  /\ stage[t] \notin {"prepare", "flush", "readback"} => OwnPayload(t)
  /\ stage[t] \in {"sent", "body"} => Sent(t, payload[t])
  /\ stage[t] = "body" /\ t \notin early => ComesFirst(t)

(* The file is the running task's between its write and its read; its       *)
(* request uses the connection, or a descriptor that was not lost.          *)
RunningInv(t) ==
  /\ stage[t] = "readback" => file = Content(t) \/ t \in ioFailed
  /\ stage[t] \in {"sending", "sent", "body"} => socket \in {"new", "recycled"}
  /\ stage[t] \in {"native", "nativeSent"} => SpareFd

(* The connection has a descriptor that was not lost. *)
FdInv == leaked + (IF socket = "none" THEN 0 ELSE 1) <= MaxFds

(* A task that was not started is at its first stage. *)
FreshInv ==
  \A t \in Tasks :
    /\ t \in Queued \/ t > submitted => stage[t] = "prepare"
    /\ t > submitted => level[t] = "none"

(* A success through javaSendDataTo was posted from the last stage. *)
Posted(t) == \E k \in Results : looper[k].task = t /\ looper[k].value = "success"

SuccessInv ==
  \A t \in Tasks :
    (Reported(t, "success") \/ Posted(t)) /\ level[t] # "OBFUSCATED_NATIVE_NETWORK"
      => stage[t] = "body"

(* The running task is the latest that has sent: what it sends comes after  *)
(* what was sent before it.                                                 *)
RequestsInv ==
  /\ OwnContent
  /\ \A r \in DOMAIN requests :
       /\ requests[r].task <= submitted
       /\ \A t \in active : requests[r].task <= t
       /\ \A t \in Queued : requests[r].task < t

PostInv ==
  /\ FrameworkInv /\ PostType
  /\ \A t \in Tasks : TaskInv(t)
  /\ \A t \in active : RunningInv(t)
  /\ FdInv /\ FreshInv /\ SuccessInv /\ RequestsInv

-----------------------------------------------------------------------------
(* Each action is one step of the framework, or leaves it alone. *)
LEMMA NextIsFramework == [Next]_vars => [FrameworkNext]_taskVars
<1> SUFFICES ASSUME [Next]_vars PROVE [FrameworkNext]_taskVars
  OBVIOUS
<1>1. \A result \in {"success", "unreachable", "sendError", "nativeError"} : result \in Values
  BY DEF Values
<1>2. CASE PostBody
  <2>1. PICK t \in Tasks : Local(t) \/ Remote(t)
    BY <1>2 DEF PostBody
  <2>2. \/ UNCHANGED taskVars
        \/ \E result \in {"success", "unreachable", "sendError", "nativeError"} : Finish(t, result)
    BY <2>1 DEF Local, Remote, Prepare, OpenFile, OpenFileFails, Flush, ReadBack, ConnectFails,
      Connect, Sends, ReadResponse, NativeFails, NativeConnects, NativeSends, NativeLeaks,
      NativeSucceeds, Respond, Refuse, Resend, ConnectionBreaks, Ends
  <2>3. QED
    BY <1>1, <2>2 DEF FrameworkNext
<1>3. CASE ~PostBody
  BY <1>3 DEF Next, vars, PostClicks, PostClick, Toast, Kill, StartPost, Evict, Arrives,
    FrameworkNext
<1>4. QED
  BY <1>2, <1>3

LEMMA PostInit == Init => PostInv
<1> SUFFICES ASSUME Init PROVE PostInv
  OBVIOUS
<1>1. FrameworkInv
  BY FrameworkInit DEF Init
<1>2. DOMAIN << >> = {} /\ \A S : << >> \in Seq(S)
  OBVIOUS
<1>3. Empty \in Texts
  BY AsyncTaskAssumption, PostTaskAssumption DEF Empty, Text, Texts
<1>4. PostType
  BY <1>2, <1>3, AsyncTaskAssumption, PostTaskAssumption
  DEF Init, InitTasks, InitPost, PostType, Stages, IsReported
<1>5. Queued = {} /\ Results = {}
  BY <1>2 DEF Init, InitTasks, Queued, Results
<1>6. \A t \in Tasks : stage[t] = "prepare"
  BY DEF Init, InitPost
<1>7. \A t \in Tasks : TaskInv(t)
  BY <1>6 DEF TaskInv
<1>8. SuccessInv
  BY <1>2, <1>5 DEF Init, InitTasks, SuccessInv, Reported, Posted
<1>9. QED
  BY <1>1, <1>2, <1>4, <1>5, <1>6, <1>7, <1>8, PostTaskAssumption
  DEF Init, InitTasks, InitPost, PostInv, FdInv, FreshInv, RequestsInv, OwnContent

-----------------------------------------------------------------------------
LEMMA RequestEntries ==
  ASSUME PostType
  PROVE  /\ DOMAIN requests = 1..Len(requests) /\ Len(requests) \in Nat
         /\ DOMAIN inbox = 1..Len(inbox) /\ Len(inbox) \in Nat
         /\ \A k \in DOMAIN inbox : inbox[k] \in DOMAIN requests
         /\ \A r \in DOMAIN requests :
              requests[r] \in Requests /\ requests[r].task \in Tasks /\ requests[r].task \in Nat
<1>1. /\ DOMAIN requests = 1..Len(requests) /\ Len(requests) \in Nat
      /\ DOMAIN inbox = 1..Len(inbox) /\ Len(inbox) \in Nat
  BY LenProperties DEF PostType
<1>2. /\ \A r \in DOMAIN requests : requests[r] \in Requests
      /\ \A k \in DOMAIN inbox : inbox[k] \in DOMAIN requests
  BY <1>1, ElementOfSeq DEF PostType
<1>3. \A t \in Tasks : t \in Nat
  BY AsyncTaskAssumption DEF Tasks
<1>4. QED
  BY <1>1, <1>2, <1>3 DEF Requests

(* The kernel gets one more request, or the server one that the kernel has. *)
RequestsGrow ==
  \/ requests' = requests
  \/ \E entry \in Requests : requests' = Append(requests, entry)
InboxGrows ==
  \/ inbox' = inbox
  \/ \E r \in DOMAIN requests : inbox' = Append(inbox, r)

(* What was sent stays sent, and what came first stays first.               *)
LEMMA NetworkGrows ==
  ASSUME PostType, RequestsGrow, InboxGrows
  PROVE  /\ requests' \in Seq(Requests) /\ inbox' \in Seq(DOMAIN requests')
         /\ \A u, text : Sent(u, text) => Sent(u, text)'
         /\ \A u : payload'[u] = payload[u] /\ ComesFirst(u) => ComesFirst(u)'
<1>1. /\ DOMAIN requests = 1..Len(requests) /\ Len(requests) \in Nat
      /\ DOMAIN inbox = 1..Len(inbox) /\ Len(inbox) \in Nat
      /\ \A k \in DOMAIN inbox : inbox[k] \in DOMAIN requests
  BY RequestEntries
<1>2. /\ requests' \in Seq(Requests) /\ DOMAIN requests \subseteq DOMAIN requests'
      /\ \A r \in DOMAIN requests : requests'[r] = requests[r]
  <2>1. ASSUME NEW entry \in Requests, requests' = Append(requests, entry)
        PROVE  /\ requests' \in Seq(Requests) /\ DOMAIN requests \subseteq DOMAIN requests'
               /\ \A r \in DOMAIN requests : requests'[r] = requests[r]
    <3>1. requests \in Seq(Requests)
      BY DEF PostType
    <3>2. /\ DOMAIN requests' = 1..(Len(requests) + 1)
          /\ \A r \in DOMAIN requests : requests'[r] = requests[r]
      BY <2>1, <3>1, AppendIndices
    <3>3. requests' \in Seq(Requests)
      BY <2>1, <3>1, AppendProperties
    <3>4. QED
      BY <1>1, <3>2, <3>3
  <2>2. QED
    BY <2>1 DEF RequestsGrow, PostType
<1>3. /\ inbox' \in Seq(DOMAIN requests) /\ DOMAIN inbox \subseteq DOMAIN inbox'
      /\ \A k \in DOMAIN inbox : inbox'[k] = inbox[k]
  <2>1. ASSUME NEW r \in DOMAIN requests, inbox' = Append(inbox, r)
        PROVE  /\ inbox' \in Seq(DOMAIN requests) /\ DOMAIN inbox \subseteq DOMAIN inbox'
               /\ \A k \in DOMAIN inbox : inbox'[k] = inbox[k]
    <3>1. inbox \in Seq(DOMAIN requests)
      BY DEF PostType
    <3>2. DOMAIN inbox' = 1..(Len(inbox) + 1) /\ \A k \in DOMAIN inbox : inbox'[k] = inbox[k]
      BY <2>1, <3>1, AppendIndices
    <3>3. inbox' \in Seq(DOMAIN requests)
      BY <2>1, <3>1, AppendProperties
    <3>4. QED
      BY <1>1, <3>2, <3>3
  <2>2. QED
    BY <2>1 DEF InboxGrows, PostType
<1>4. inbox' \in Seq(DOMAIN requests')
  <2>1. inbox' \in [1..Len(inbox') -> DOMAIN requests] /\ Len(inbox') \in Nat
    BY <1>3, LenProperties
  <2>2. inbox' \in [1..Len(inbox') -> DOMAIN requests']
    BY <1>2, <2>1
  <2>3. QED
    BY <2>1, <2>2
<1>5. ASSUME NEW u, payload'[u] = payload[u], ComesFirst(u) PROVE ComesFirst(u)'
  <2>1. PICK k \in DOMAIN inbox :
          /\ requests[inbox[k]] = [task |-> u, body |-> payload[u]]
          /\ \A j \in 1..k : requests[inbox[j]].task <= u
    BY <1>5 DEF ComesFirst
  <2>2. \A j \in 1..k : j \in DOMAIN inbox
    BY <1>1
  <2>3. \A j \in 1..k : requests'[inbox'[j]] = requests[inbox[j]]
    BY <1>1, <1>2, <1>3, <2>2
  <2>4. requests'[inbox'[k]] = requests[inbox[k]] /\ k \in DOMAIN inbox'
    BY <1>1, <1>2, <1>3
  <2>5. QED
    BY <1>5, <2>1, <2>3, <2>4 DEF ComesFirst
<1>6. \A u, text : Sent(u, text) => Sent(u, text)'
  BY <1>2 DEF Sent
<1>7. QED
  BY <1>2, <1>4, <1>5, <1>6

(* Steps that leave what tasks have done alone. *)
LEMMA QuietStep ==
  ASSUME PostInv, FrameworkInv', PostType',
         UNCHANGED <<stage, payload, requests, early, ioFailed, file>>, InboxGrows,
         submitted' = submitted \/ submitted' = submitted + 1,
         \A t \in Tasks : level'[t] = level[t] \/ (t = submitted' /\ t > submitted),
         \A t \in Queued' : t \in Queued \/ t = submitted + 1,
         \A t \in active' : t \in active \cup Queued,
         active' = {} \/ (leaked' = leaked /\ (socket' = socket \/ socket = "idle")),
         FdInv',
         \A t : Reported(t, "success")' \/ Posted(t)' => Reported(t, "success") \/ Posted(t)
  PROVE  PostInv'
<1>1. /\ submitted \in Nat /\ leaked \in Nat /\ leaked' \in Nat /\ MaxFds \in Nat
      /\ \A t \in Pending : t \in Nat /\ t <= submitted /\ t \in Tasks
      /\ \A t \in Tasks : t \in Nat
  BY HeldTasks, AsyncTaskAssumption, PostTaskAssumption
  DEF PostInv, FrameworkInv, FrameworkType, PostType, Tasks
<1>2. \A t \in Tasks : t > submitted => stage[t] = "prepare" /\ level[t] = "none"
  BY DEF PostInv, FreshInv
<1>3. \A t \in Tasks : ~(t > submitted) => level'[t] = level[t]
  BY <1>1
<1>4. \A t \in Tasks : level'[t] = level[t] => (Wanted(t)' = Wanted(t))
  BY DEF Wanted
<1>5. ASSUME NEW t \in Tasks PROVE TaskInv(t)'
  <2>1. CASE t > submitted
    BY <1>2, <2>1 DEF TaskInv
  <2>2. CASE ~(t > submitted)
    <3>1. /\ Sent(t, payload[t]) => Sent(t, payload[t])'
          /\ ComesFirst(t) => ComesFirst(t)'
      BY NetworkGrows DEF PostInv, RequestsGrow, Sent
    <3>2. QED
      BY <1>3, <1>4, <2>2, <3>1 DEF PostInv, TaskInv, OwnPayload
  <2>3. QED
    BY <2>1, <2>2
<1>6. ASSUME NEW t \in active' PROVE RunningInv(t)'
  <2>1. CASE t \in active
    <3>1. leaked' = leaked /\ (socket' = socket \/ socket = "idle")
      OBVIOUS
    <3>2. SpareFd => SpareFd'
      BY <1>1, <3>1 DEF SpareFd
    <3>3. QED
      BY <2>1, <3>1, <3>2 DEF PostInv, RunningInv, Content
  <2>2. CASE t \in Queued
    BY <1>1, <2>2 DEF PostInv, FreshInv, RunningInv, Pending
  <2>3. QED
    BY <2>1, <2>2
<1>7. FreshInv'
  <2>1. \A t \in Tasks : t > submitted' => t > submitted /\ t # submitted'
    BY <1>1
  <2>2. QED
    BY <1>1, <2>1 DEF PostInv, FreshInv
<1>8. SuccessInv'
  BY <1>2, <1>3 DEF PostInv, SuccessInv
<1>9. RequestsInv'
  <2>1. \A r \in DOMAIN requests :
          /\ requests[r].task \in Tasks /\ requests[r].task \in Nat
          /\ requests[r].task <= submitted /\ requests[r].task < submitted + 1
          /\ requests[r].task <= submitted'
    BY <1>1, RequestEntries DEF PostInv, RequestsInv
  <2>2. OwnContent'
    BY <1>4, <2>1 DEF PostInv, RequestsInv, OwnContent
  <2>3. \A r \in DOMAIN requests, t \in active' : requests[r].task <= t
    BY <1>1, <2>1 DEF PostInv, RequestsInv, Pending
  <2>4. \A r \in DOMAIN requests, t \in Queued' : requests[r].task < t
    BY <2>1 DEF PostInv, RequestsInv
  <2>5. QED
    BY <2>1, <2>2, <2>3, <2>4 DEF RequestsInv
<1>10. QED
  BY <1>5, <1>6, <1>7, <1>8, <1>9 DEF PostInv

(* The running task hands a request over, or nothing. *)
MaySend(t) ==
  requests' = requests \/ (requests' = Append(requests, Request(t)) /\ OwnPayload(t))

LEMMA RequestsStep ==
  ASSUME PostInv, NEW t \in active, MaySend(t),
         UNCHANGED <<level, submitted, Queued>>, active' \subseteq active,
         ioFailed \subseteq ioFailed'
  PROVE  RequestsInv' /\ RequestsGrow
<1>1. /\ t \in Tasks /\ t \in Nat /\ submitted \in Nat /\ t <= submitted
      /\ \A u \in active : u = t
      /\ \A u \in Queued : t < u
      /\ Request(t) \in Requests /\ Request(t).task = t /\ Request(t).body = payload[t]
  BY HeldTasks, AsyncTaskAssumption
  DEF PostInv, FrameworkInv, FrameworkType, InOrder, Pending, PostType, Queued, Request, Requests
<1>2. /\ DOMAIN requests = 1..Len(requests) /\ Len(requests) \in Nat
      /\ requests \in Seq(Requests)
  BY RequestEntries DEF PostInv, PostType
<1>3. \A r \in DOMAIN requests' :
        \/ r \in DOMAIN requests /\ requests'[r] = requests[r]
        \/ requests'[r] = Request(t) /\ OwnPayload(t)
  <2>1. CASE requests' # requests
    <3>1. /\ OwnPayload(t) /\ DOMAIN requests' = 1..(Len(requests) + 1)
          /\ \A r \in DOMAIN requests : requests'[r] = requests[r]
          /\ requests'[Len(requests) + 1] = Request(t)
      <4>1. requests' = Append(requests, Request(t)) /\ OwnPayload(t)
        BY <2>1 DEF MaySend
      <4>2. QED
        BY <1>1, <1>2, <4>1, AppendIndices
    <3>2. \A r \in 1..(Len(requests) + 1) : r \in 1..Len(requests) \/ r = Len(requests) + 1
      BY <1>2
    <3>3. QED
      BY <1>2, <3>1, <3>2
  <2>2. QED
    BY <2>1
<1>4. \A u : Wanted(u)' = Wanted(u)
  BY DEF Wanted
<1>5. OwnContent'
  <2>1. ASSUME NEW r \in DOMAIN requests'
        PROVE  \/ requests'[r].task \in ioFailed'
               \/ requests'[r].body = Wanted(requests'[r].task)
    BY <1>1, <1>3 DEF PostInv, RequestsInv, OwnContent, OwnPayload
  <2>2. QED
    BY <1>4, <2>1 DEF OwnContent
<1>6. \A r \in DOMAIN requests' :
        requests'[r].task = t \/ (r \in DOMAIN requests /\ requests'[r].task = requests[r].task)
  BY <1>1, <1>3
<1>7. \A r \in DOMAIN requests' :
        /\ requests'[r].task <= submitted'
        /\ \A u \in active' : requests'[r].task <= u
        /\ \A u \in Queued' : requests'[r].task < u
  BY <1>1, <1>6 DEF PostInv, RequestsInv
<1>8. RequestsGrow
  BY <1>1 DEF MaySend, RequestsGrow
<1>9. QED
  BY <1>5, <1>7, <1>8 DEF RequestsInv

(* A step of doInBackground of the running task `t`. *)
LEMMA BodyStep ==
  ASSUME PostInv, FrameworkInv', PostType', NEW t \in active,
         MaySend(t), inbox' = inbox, early \subseteq early',
         UNCHANGED <<level, submitted, Queued, reported>>, active' \subseteq active,
         ioFailed \subseteq ioFailed',
         \A u \in Tasks \ {t} : stage'[u] = stage[u] /\ payload'[u] = payload[u],
         TaskInv(t)', t \in active' => RunningInv(t)', FdInv',
         stage[t] = "body" => stage'[t] = "body",
         \A u : Posted(u)' => Posted(u) \/ (u = t /\ (level[t] = "OBFUSCATED_NATIVE_NETWORK"
                                                      \/ stage'[t] = "body"))
  PROVE  PostInv'
<1>1. /\ t \in Tasks /\ t \in Nat /\ submitted \in Nat /\ t <= submitted
      /\ \A u \in active : u = t
      /\ \A u \in Queued : u \in Nat /\ t < u
  BY HeldTasks DEF PostInv, FrameworkInv, FrameworkType, InOrder, Pending, Queued
<1>2. /\ RequestsInv'
      /\ \A u, text : Sent(u, text) => Sent(u, text)'
      /\ \A u : payload'[u] = payload[u] /\ ComesFirst(u) => ComesFirst(u)'
  BY RequestsStep, NetworkGrows DEF InboxGrows, PostInv
<1>3. \A u \in Tasks : Wanted(u)' = Wanted(u)
  BY DEF Wanted
<1>4. ASSUME NEW u \in Tasks PROVE TaskInv(u)'
  <2>1. CASE u # t
    <3>1. /\ payload'[u] = payload[u] /\ stage'[u] = stage[u]
          /\ Sent(u, payload[u]) => Sent(u, payload[u])'
      BY <1>2, <2>1 DEF Sent
    <3>2. QED
      BY <1>2, <1>3, <3>1 DEF PostInv, TaskInv, OwnPayload
  <2>2. QED
    BY <2>1
<1>5. \A u \in active' : RunningInv(u)'
  BY <1>1
<1>6. FreshInv'
  <2>1. t \notin Queued /\ ~(t > submitted)
    BY <1>1
  <2>2. QED
    BY <2>1 DEF PostInv, FreshInv
<1>7. SuccessInv'
  <2>1. \A u \in Tasks : stage[u] = "body" => stage'[u] = "body"
    OBVIOUS
  <2>2. \A u : Reported(u, "success")' = Reported(u, "success")
    BY DEF Reported
  <2>3. QED
    BY <2>1, <2>2 DEF PostInv, SuccessInv
<1>8. QED
  BY <1>2, <1>4, <1>5, <1>6, <1>7 DEF PostInv

-----------------------------------------------------------------------------
(* What the steps of the framework do to the results on their way. *)
LEMMA PostedByFinish ==
  ASSUME FrameworkInv, NEW t, NEW value, Result(t, value) \in Messages, Finish(t, value)
  PROVE  /\ \A u : Posted(u)' => Posted(u) \/ (u = t /\ value = "success")
         /\ \A k \in DOMAIN looper' : (k \in DOMAIN looper /\ looper'[k] = looper[k])
                                      \/ looper'[k].task = t
         /\ Len(looper') \in DOMAIN looper' /\ looper'[Len(looper')].value = value
<1>1. /\ looper' = Append(looper, Result(t, value)) /\ looper \in Seq(Messages)
      /\ Result(t, value).task = t /\ Result(t, value).value = value
  BY DEF FrameworkInv, FrameworkType, Finish, Result
<1>2. /\ DOMAIN looper = 1..Len(looper) /\ Len(looper) \in Nat
      /\ DOMAIN looper' = 1..(Len(looper) + 1)
      /\ \A k \in DOMAIN looper : looper'[k] = looper[k]
      /\ looper'[Len(looper) + 1] = Result(t, value)
  <2> HIDE DEF Result
  <2>1. QED
    BY <1>1, AppendIndices
<1>3. \A k \in 1..(Len(looper) + 1) : k \in 1..Len(looper) \/ k = Len(looper) + 1
  BY <1>2
<1>4. \A k \in DOMAIN looper' : (k \in DOMAIN looper /\ looper'[k] = looper[k])
                                \/ looper'[k] = Result(t, value)
  BY <1>2, <1>3
<1>5. Len(looper') = Len(looper) + 1
  <2> HIDE DEF Result
  <2>1. QED
    BY <1>1, AppendProperties
<1>6. QED
  BY <1>1, <1>2, <1>4, <1>5 DEF Posted, Results

LEMMA PostedByHandling ==
  ASSUME FrameworkInv, HandleResult
  PROVE  \A u : Reported(u, "success")' \/ Posted(u)' => Reported(u, "success") \/ Posted(u)
<1> DEFINE entry == [task |-> Message.task, value |-> Message.value]
           S == [task : Nat, value : Values]
<1>1. /\ looper # << >> /\ Message.result /\ looper' = Tail(looper)
      /\ reported' = Append(reported, entry) /\ reported \in Seq(S)
  BY DEF HandleResult, FrameworkInv, FrameworkType
<1>2. /\ Message = looper[1] /\ 1 \in DOMAIN looper
      /\ \A k \in Results' : k + 1 \in Results /\ looper'[k] = looper[k + 1]
  BY <1>1, LooperTail
<1>3. 1 \in Results /\ entry \in S
  BY <1>1, <1>2, HeldTasks DEF Results, Messages
<1>4. /\ DOMAIN reported = 1..Len(reported) /\ Len(reported) \in Nat
      /\ DOMAIN reported' = 1..(Len(reported) + 1)
      /\ \A k \in DOMAIN reported : reported'[k] = reported[k]
      /\ reported'[Len(reported) + 1] = entry
  <2> HIDE DEF entry
  <2>1. QED
    BY <1>1, <1>3, AppendIndices
<1>5. \A k \in 1..(Len(reported) + 1) : k \in 1..Len(reported) \/ k = Len(reported) + 1
  BY <1>4
<1>6. \A k \in DOMAIN reported' : (k \in DOMAIN reported /\ reported'[k] = reported[k])
                                  \/ reported'[k] = entry
  BY <1>4, <1>5
<1>7. \A u : Posted(u)' => Posted(u)
  BY <1>2 DEF Posted
<1>8. ASSUME NEW u, Reported(u, "success")' PROVE Reported(u, "success") \/ Posted(u)
  <2>1. PICK k \in DOMAIN reported' : reported'[k] = [task |-> u, value |-> "success"]
    BY <1>8 DEF Reported
  <2>2. CASE reported'[k] = entry
    <3>1. Message.task = u /\ Message.value = "success"
      BY <2>1, <2>2
    <3>2. QED
      BY <1>2, <1>3, <3>1 DEF Posted
  <2>3. QED
    BY <1>6, <2>1, <2>2 DEF Reported
<1>9. QED
  BY <1>7, <1>8

-----------------------------------------------------------------------------
(* A text of a task is one of the texts there are. *)
LEMMA TextTypes ==
  /\ Empty \in Texts
  /\ \A t \in Tasks, len \in 0..Size : Text(t, len) \in Texts
  /\ \A t \in Tasks : Content(t) \in Texts /\ (PostType => Wanted(t) \in Texts)
  /\ \A text \in Texts : \A len \in 0..text.len : Text(text.of, len) \in Texts
<1>1. \A of \in 0..MaxTasks, len \in 0..Size : Text(of, len) \in Texts
  BY AsyncTaskAssumption DEF Text, Texts
<1>2. 0 \in 0..MaxTasks /\ 0 \in 0..Size /\ Size \in 0..Size /\ Tasks \subseteq 0..MaxTasks
      /\ Size \in Nat
  BY AsyncTaskAssumption, PostTaskAssumption DEF Tasks
<1>3. \A t \in Tasks : EncodingTrick(Content(t)) \in Texts /\ Content(t) \in Texts
  <2>1. \A text \in Texts : EncodingTrick(text) \in Texts
    BY DEF EncodingTrick, Texts
  <2>2. \A t \in Tasks : Content(t) \in Texts
    BY <1>1, <1>2 DEF Content
  <2>3. QED
    BY <2>1, <2>2
<1>4. \A text \in Texts : text.of \in 0..MaxTasks /\ text.len \in 0..Size
  BY DEF Texts
<1>5. \A text \in Texts : \A len \in 0..text.len : len \in 0..Size
  BY <1>2, <1>4
<1>6. QED
  BY <1>1, <1>2, <1>3, <1>4, <1>5 DEF Empty, Wanted

(* What a text of its own level is. *)
LEMMA ContentWanted ==
  ASSUME NEW t \in Tasks, level[t] # "OBFUSCATED_JAVA"
  PROVE  Wanted(t) = Content(t)
BY DEF Wanted

-----------------------------------------------------------------------------
(* The steps of the running task, one lemma for those that keep it running  *)
(* and one for its ends.                                                    *)

LEMMA Running ==
  ASSUME PostInv, NEW t \in active
  PROVE  /\ t \in Tasks /\ TaskInv(t) /\ RunningInv(t) /\ \A u \in active : u = t
         /\ t \in Nat \ {0} /\ stage \in [Tasks -> Stages] /\ payload \in [Tasks -> Texts]
         /\ PostType /\ FrameworkInv /\ FdInv
BY HeldTasks, AsyncTaskAssumption DEF PostInv, FrameworkInv, InOrder, Pending, PostType, Tasks

(* A connection that is kept, closed, or opened for another takes no more   *)
(* descriptors than there were.                                             *)
LEMMA FdKept ==
  ASSUME PostType, FdInv, leaked' = leaked, socket # "none" \/ socket' = "none"
  PROVE  FdInv'
BY PostTaskAssumption DEF PostType, FdInv

LEMMA KeepsRunning ==
  ASSUME PostInv, NEW t \in active, UNCHANGED <<taskVars, level, deathVars, inbox>>,
         NEW s \in Stages, stage' = [stage EXCEPT ![t] = s],
         NEW text \in Texts, payload' = payload \/ payload' = [payload EXCEPT ![t] = text],
         stage[t] # "body",
         file' \in Texts, leaked' = leaked, socket' \in {"none", "idle", "new", "recycled"},
         MaySend(t), early \subseteq early', early' \subseteq Tasks, unreleased' \in Nat,
         ioFailed \subseteq ioFailed', ioFailed' \subseteq Tasks,
         TaskInv(t)', RunningInv(t)', FdInv'
  PROVE  PostInv'
<1>1. /\ t \in Tasks /\ stage \in [Tasks -> Stages] /\ payload \in [Tasks -> Texts]
      /\ PostType /\ FrameworkInv
  BY Running
<1>2. UNCHANGED <<Queued, submitted, active, reported, looper, lost>>
  BY DEF taskVars, Queued
<1>3. FrameworkInv'
  BY <1>1, FrameworkStep DEF FrameworkNext
<1>4. PostType'
  <2>1. requests' \in Seq(Requests) /\ inbox' \in Seq(DOMAIN requests')
    BY <1>1, <1>2, RequestsStep, NetworkGrows DEF InboxGrows
  <2>2. \A u : IsReported(u)' = IsReported(u)
    BY <1>2 DEF IsReported
  <2>3. QED
    BY <1>1, <1>2, <2>1, <2>2 DEF PostType, deathVars
<1>5. \A u : Posted(u)' = Posted(u)
  BY <1>2 DEF Posted, Results
<1>6. QED
  BY <1>1, <1>2, <1>3, <1>4, <1>5, BodyStep

LEMMA EndsStep ==
  ASSUME PostInv, NEW t \in active,
         NEW result \in {"success", "unreachable", "sendError", "nativeError"},
         Finish(t, result),
         result = "success" => level[t] = "OBFUSCATED_NATIVE_NETWORK" \/ stage[t] = "body",
         UNCHANGED <<level, stage, payload, file, netVars, ioFailed, deathVars>>,
         unreleased' \in Nat, leaked' \in 0..MaxFds, socket' \in {"none", "idle", "new", "recycled"}, FdInv'
  PROVE  PostInv'
<1>1. /\ t \in Tasks /\ TaskInv(t) /\ \A u \in active : u = t
      /\ t \in Nat /\ PostType /\ FrameworkInv
  BY Running
<1>2. result \in Values /\ Result(t, result) \in Messages
  BY <1>1 DEF Values, Result, Messages
<1>3. /\ active' = active \ {t} /\ UNCHANGED <<submitted, queue, reported, lost>>
      /\ Queued' = Queued /\ FrameworkInv'
  BY <1>1, <1>2, FinishStep DEF Finish
<1>4. PostType'
  <2>1. \A k \in DOMAIN looper' : looper'[k].task \in Tasks
    BY <1>1, <1>2, PostedByFinish DEF PostType
  <2>2. QED
    BY <1>1, <1>3, <2>1 DEF PostType, IsReported, netVars, deathVars
<1>5. \A u : Posted(u)' => Posted(u) \/ (u = t /\ result = "success")
  BY <1>1, <1>2, PostedByFinish
<1>6. TaskInv(t)'
  BY <1>1 DEF TaskInv, OwnPayload, Wanted, Sent, ComesFirst, netVars
<1>7. QED
  BY <1>3, <1>4, <1>5, <1>6, BodyStep DEF MaySend, netVars

(* doInBackground up to the request. *)
LEMMA PrepareSteps ==
  ASSUME PostInv, NEW t \in active,
         Prepare(t) \/ OpenFile(t) \/ OpenFileFails(t) \/ Flush(t) \/ ReadBack(t)
         \/ NativeConnects(t)
  PROVE  PostInv'
<1>1. /\ t \in Tasks /\ FdInv /\ TaskInv(t) /\ RunningInv(t) /\ t \in Nat \ {0}
      /\ stage \in [Tasks -> Stages] /\ payload \in [Tasks -> Texts] /\ PostType
  BY Running
<1>2. /\ file \in Texts /\ ioFailed \subseteq Tasks /\ leaked \in Nat /\ MaxFds \in Nat
      /\ socket \in {"none", "idle", "new", "recycled"} /\ Size \in Nat \ {0}
  BY <1>1, PostTaskAssumption DEF PostType
<1>3. /\ Wanted(t) \in Texts /\ Content(t) \in Texts
      /\ \A len \in 0..Size : Text(t, len) \in Texts
      /\ \A len \in 0..file.len : Text(file.of, len) \in Texts
      /\ Empty \in Texts
  BY <1>1, <1>2, TextTypes
<1>4. /\ {"flush", "readback", "connect", "native"} \subseteq Stages
      /\ UNCHANGED netVars /\ \E n \in {0, 1, 2} : unreleased' = unreleased + n
      /\ unreleased \in Nat /\ early \subseteq Tasks
  BY <1>1 DEF Stages, Prepare, OpenFile, OpenFileFails, Flush, ReadBack, NativeConnects, PostType
<1>5. /\ MaySend(t) /\ inbox' = inbox /\ early \subseteq early' /\ early' \subseteq Tasks
      /\ unreleased' \in Nat
  BY <1>4 DEF MaySend, netVars
<1>6. CASE Prepare(t)
  <2>1. /\ stage[t] = "prepare" /\ stage' = [stage EXCEPT ![t] = "connect"]
        /\ payload' = [payload EXCEPT ![t] = Wanted(t)]
        /\ UNCHANGED <<taskVars, level, deathVars, file, socket, leaked, ioFailed>>
    BY <1>6 DEF Prepare, At, GoTo
  <2>2. stage'[t] = "connect" /\ payload'[t] = Wanted(t)' /\ TaskInv(t)' /\ RunningInv(t)' /\ FdInv'
    BY <1>1, <2>1 DEF FdInv, SpareFd, TaskInv, RunningInv, OwnPayload, Wanted
  <2>3. QED
    BY <1>2, <1>3, <1>4, <1>5, <2>1, <2>2, KeepsRunning
<1>7. CASE OpenFile(t)
  <2>1. /\ stage[t] = "prepare" /\ stage' = [stage EXCEPT ![t] = "flush"] /\ file' = Empty
        /\ level[t] = "OBFUSCATED_NATIVE_FILESYSTEM"
        /\ UNCHANGED <<taskVars, level, payload, deathVars, socket, leaked, ioFailed>>
    BY <1>7 DEF OpenFile, AtFile, At, GoTo
  <2>2. stage'[t] = "flush" /\ TaskInv(t)' /\ RunningInv(t)' /\ FdInv'
    BY <1>1, <2>1 DEF FdInv, SpareFd, TaskInv, RunningInv
  <2>3. QED
    BY <1>2, <1>3, <1>4, <1>5, <2>1, <2>2, KeepsRunning
<1>8. CASE OpenFileFails(t)
  <2>1. /\ stage[t] = "prepare" /\ stage' = [stage EXCEPT ![t] = "readback"]
        /\ ioFailed' = ioFailed \cup {t} /\ level[t] = "OBFUSCATED_NATIVE_FILESYSTEM"
        /\ UNCHANGED <<taskVars, level, payload, deathVars, file, socket, leaked>>
    BY <1>8 DEF OpenFileFails, AtFile, At, GoTo
  <2>2. stage'[t] = "readback" /\ TaskInv(t)' /\ RunningInv(t)' /\ FdInv'
    BY <1>1, <2>1 DEF FdInv, SpareFd, TaskInv, RunningInv
  <2>3. QED
    BY <1>1, <1>2, <1>3, <1>4, <1>5, <2>1, <2>2, KeepsRunning
<1>9. CASE Flush(t)
  <2>1. PICK len \in 0..Size :
          /\ file' = Text(t, len)
          /\ ioFailed' = IF len < Size THEN ioFailed \cup {t} ELSE ioFailed
    BY <1>9 DEF Flush
  <2>2. /\ stage[t] = "flush" /\ stage' = [stage EXCEPT ![t] = "readback"]
        /\ UNCHANGED <<taskVars, level, payload, deathVars, socket, leaked>>
    BY <1>9 DEF Flush, At, GoTo
  <2>3. ioFailed \subseteq ioFailed' /\ ioFailed' \subseteq Tasks
    BY <1>1, <1>2, <2>1
  <2>4. file' = Content(t)' \/ t \in ioFailed'
    <3>1. len = Size \/ len < Size
      BY <1>2
    <3>2. QED
      BY <2>1, <3>1 DEF Content, Text
  <2>5. stage'[t] = "readback" /\ TaskInv(t)' /\ RunningInv(t)' /\ FdInv'
    BY <1>1, <2>2, <2>4 DEF FdInv, SpareFd, TaskInv, RunningInv
  <2>6. QED
    BY <1>2, <1>3, <1>4, <1>5, <2>1, <2>2, <2>3, <2>5, KeepsRunning
<1>10. CASE ReadBack(t)
  <2>1. PICK len \in 0..file.len :
          /\ payload' = [payload EXCEPT ![t] = Text(file.of, len)]
          /\ ioFailed' = IF len < file.len THEN ioFailed \cup {t} ELSE ioFailed
    BY <1>10 DEF ReadBack
  <2>2. /\ stage[t] = "readback" /\ stage' = [stage EXCEPT ![t] = "connect"]
        /\ UNCHANGED <<taskVars, level, deathVars, file, socket, leaked>>
    BY <1>10 DEF ReadBack, At, GoTo
  <2>3. ioFailed \subseteq ioFailed' /\ ioFailed' \subseteq Tasks
    BY <1>1, <1>2, <2>1
  <2>4. Text(file.of, len) = Wanted(t) \/ t \in ioFailed'
    <3>1. CASE file = Content(t)
      <4>1. Wanted(t) = Content(t)
        BY <1>1, <2>2, ContentWanted DEF TaskInv
      <4>2. file.of = t /\ file.len = Size
        BY <1>2, <3>1 DEF Content, Text
      <4>3. len = Size \/ len < file.len
        BY <1>2, <4>2
      <4>4. QED
        BY <2>1, <4>1, <4>2, <4>3 DEF Content
    <3>2. QED
      BY <1>1, <2>2, <2>3, <3>1 DEF RunningInv
  <2>5. stage'[t] = "connect" /\ payload'[t] = Text(file.of, len)
    BY <1>1, <2>1, <2>2
  <2>6. TaskInv(t)' /\ RunningInv(t)' /\ FdInv'
    BY <1>1, <2>2, <2>4, <2>5 DEF FdInv, SpareFd, TaskInv, RunningInv, OwnPayload, Wanted
  <2>7. QED
    BY <1>2, <1>3, <1>4, <1>5, <2>1, <2>2, <2>3, <2>6, KeepsRunning
<1>11. CASE NativeConnects(t)
  <2>1. /\ stage[t] = "prepare" /\ stage' = [stage EXCEPT ![t] = "native"]
        /\ level[t] = "OBFUSCATED_NATIVE_NETWORK" /\ SpareFd
        /\ payload' = [payload EXCEPT ![t] = Content(t)]
        /\ UNCHANGED <<taskVars, level, deathVars, file, socket, leaked, ioFailed>>
    BY <1>11 DEF NativeConnects, AtNative, At, GoTo
  <2>2. SpareFd'
    BY <2>1 DEF SpareFd
  <2>3. Wanted(t) = Content(t)
    BY <1>1, <2>1, ContentWanted
  <2>4. stage'[t] = "native" /\ payload'[t] = Wanted(t)' /\ TaskInv(t)' /\ RunningInv(t)' /\ FdInv'
    BY <1>1, <2>1, <2>2, <2>3 DEF FdInv, SpareFd, TaskInv, RunningInv, OwnPayload, Wanted
  <2>5. QED
    BY <1>2, <1>3, <1>4, <1>5, <2>1, <2>4, KeepsRunning
<1>12. QED
  BY <1>6, <1>7, <1>8, <1>9, <1>10, <1>11

(* The request and its response. *)
LEMMA RequestSteps ==
  ASSUME PostInv, NEW t \in active,
         Connect(t) \/ Sends(t) \/ Respond(t) \/ Resend(t) \/ NativeSends(t)
  PROVE  PostInv'
<1>1. /\ t \in Tasks /\ FdInv /\ TaskInv(t) /\ RunningInv(t)
      /\ stage \in [Tasks -> Stages] /\ payload \in [Tasks -> Texts] /\ PostType
  BY Running
<1>2. /\ file \in Texts /\ ioFailed \subseteq Tasks /\ Empty \in Texts
      /\ socket \in {"none", "idle", "new", "recycled"} /\ early \subseteq Tasks
      /\ unreleased' = unreleased /\ unreleased \in Nat
  BY <1>1, TextTypes DEF PostType, Connect, Sends, Respond, Resend, NativeSends
<1>3. {"connect", "sending", "sent", "body", "nativeSent"} \subseteq Stages
  BY DEF Stages
<1>4. ASSUME HandOver(t), UNCHANGED payload, OwnPayload(t)
      PROVE  Sent(t, payload[t])' /\ MaySend(t) /\ UNCHANGED <<inbox, early>>
  <2>1. /\ requests' = Append(requests, Request(t)) /\ requests \in Seq(Requests)
        /\ Request(t) \in Requests
    BY <1>1, <1>4 DEF HandOver, Request, Requests, PostType
  <2>2. Len(requests) + 1 \in DOMAIN requests' /\ requests'[Len(requests) + 1] = Request(t)
    BY <2>1, AppendIndices
  <2>3. QED
    BY <1>4, <2>1, <2>2 DEF Sent, Request, MaySend, HandOver
<1>5. CASE Connect(t)
  <2>1. /\ stage[t] = "connect" /\ stage' = [stage EXCEPT ![t] = "sending"]
        /\ socket' \in {"new", "recycled"}
        /\ UNCHANGED <<taskVars, level, payload, deathVars, file, leaked, ioFailed,
                       requests, inbox, early>>
    BY <1>5 DEF Connect, At, GoTo, netVars
  <2>2. FdInv'
    <3>1. (SpareFd /\ socket = "none") \/ socket # "none"
      BY <1>5 DEF Connect
    <3>2. CASE SpareFd /\ socket = "none"
      BY <1>1, <2>1, <3>2, PostTaskAssumption DEF SpareFd, FdInv, PostType
    <3>3. QED
      BY <1>1, <2>1, <3>1, <3>2, FdKept
  <2>3. stage'[t] = "sending" /\ TaskInv(t)' /\ RunningInv(t)'
    BY <1>1, <2>1 DEF TaskInv, RunningInv, OwnPayload, Wanted
  <2>4. QED
    BY <1>2, <1>3, <2>1, <2>2, <2>3, KeepsRunning DEF MaySend
<1>6. CASE Sends(t) \/ NativeSends(t)
  <2>1. PICK s \in {"sent", "nativeSent"} :
          /\ stage[t] = (IF s = "sent" THEN "sending" ELSE "native")
          /\ stage' = [stage EXCEPT ![t] = s] /\ HandOver(t)
    BY <1>6 DEF Sends, NativeSends, At, GoTo
  <2>2. UNCHANGED <<taskVars, level, payload, deathVars, file, socket, leaked, ioFailed>>
    BY <1>6 DEF Sends, NativeSends
  <2>3. stage[t] \in {"sending", "native"} /\ stage'[t] = s /\ OwnPayload(t)
    BY <1>1, <2>1 DEF TaskInv
  <2>4. Sent(t, payload[t])' /\ MaySend(t) /\ UNCHANGED <<inbox, early>>
    BY <1>4, <2>1, <2>2, <2>3
  <2>5. TaskInv(t)' /\ RunningInv(t)' /\ FdInv'
    BY <1>1, <2>1, <2>2, <2>3, <2>4 DEF FdInv, SpareFd, TaskInv, RunningInv, OwnPayload, Wanted
  <2>6. QED
    BY <1>2, <1>3, <2>1, <2>2, <2>3, <2>4, <2>5, KeepsRunning
<1>7. CASE Respond(t)
  <2>1. /\ stage[t] = "sent" /\ stage' = [stage EXCEPT ![t] = "body"]
        /\ early' = IF Arrived(t, payload[t]) THEN early ELSE early \cup {t}
        /\ UNCHANGED <<taskVars, level, payload, deathVars, file, socket, leaked, requests,
                       inbox, ioFailed>>
    BY <1>7 DEF Respond, At, GoTo
  <2>2. early \subseteq early' /\ early' \subseteq Tasks
    BY <1>1, <1>2, <2>1
  <2>3. ASSUME t \notin early' PROVE ComesFirst(t)'
    <3>1. Arrived(t, payload[t])
      BY <2>1, <2>3
    <3>2. PICK k \in DOMAIN inbox : requests[inbox[k]] = [task |-> t, body |-> payload[t]]
      BY <3>1 DEF Arrived
    <3>3. \A j \in 1..k : j \in DOMAIN inbox /\ inbox[j] \in DOMAIN requests
      BY <1>1, RequestEntries
    <3>4. \A j \in 1..k : requests[inbox[j]].task <= t
      BY <3>3 DEF PostInv, RequestsInv
    <3>5. QED
      BY <2>1, <3>2, <3>4 DEF ComesFirst
  <2>4. Sent(t, payload[t])' <=> Sent(t, payload[t])
    BY <2>1 DEF Sent
  <2>5. stage'[t] = "body" /\ TaskInv(t)' /\ RunningInv(t)' /\ FdInv'
    BY <1>1, <2>1, <2>3, <2>4 DEF FdInv, SpareFd, TaskInv, RunningInv, OwnPayload, Wanted
  <2>6. QED
    BY <1>2, <1>3, <2>1, <2>2, <2>5, KeepsRunning DEF MaySend
<1>8. CASE Resend(t)
  <2>1. /\ stage[t] \in {"sending", "sent"} /\ stage' = [stage EXCEPT ![t] = "connect"]
        /\ socket' = "none"
        /\ UNCHANGED <<taskVars, level, payload, deathVars, file, leaked, ioFailed,
                       requests, inbox, early>>
    BY <1>8 DEF Resend, At, GoTo, netVars
  <2>2. stage'[t] = "connect" /\ TaskInv(t)' /\ RunningInv(t)' /\ FdInv'
    BY <1>1, <2>1, FdKept DEF SpareFd, TaskInv, RunningInv, OwnPayload, Wanted
  <2>3. QED
    BY <1>2, <1>3, <2>1, <2>2, KeepsRunning DEF MaySend
<1>9. QED
  BY <1>5, <1>6, <1>7, <1>8

(* The ends of doInBackground. *)
LEMMA EndSteps ==
  ASSUME PostInv, NEW t \in active,
         ConnectFails(t) \/ ReadResponse(t) \/ Refuse(t) \/ ConnectionBreaks(t)
         \/ NativeFails(t) \/ NativeLeaks(t) \/ NativeSucceeds(t)
  PROVE  PostInv'
<1>1. /\ TaskInv(t) /\ RunningInv(t) /\ PostType /\ FdInv
  BY Running
<1>2. /\ leaked \in 0..MaxFds /\ socket \in {"none", "idle", "new", "recycled"} /\ MaxFds \in Nat
      /\ unreleased \in Nat
  BY <1>1, PostTaskAssumption DEF PostType
<1>3. CASE ReadResponse(t)
  <2>1. stage[t] = "body" /\ (Ends(t, "success", "none", 0) \/ Ends(t, "success", "idle", 0))
    BY <1>3 DEF ReadResponse, At
  <2>2. QED
    BY <1>1, <1>2, <2>1, EndsStep, FdKept DEF Ends, RunningInv
<1>4. CASE NativeSucceeds(t)
  <2>1. stage[t] \in {"native", "nativeSent"} /\ Ends(t, "success", socket, 0)
    BY <1>4 DEF NativeSucceeds, InCall, At
  <2>2. level[t] = "OBFUSCATED_NATIVE_NETWORK"
    BY <1>1, <2>1 DEF TaskInv
  <2>3. QED
    BY <1>1, <1>2, <2>1, <2>2, EndsStep DEF Ends, FdInv
<1>5. CASE NativeLeaks(t)
  <2>1. /\ stage[t] \in {"native", "nativeSent"} /\ Finish(t, "nativeError")
        /\ leaked' = leaked + 1 /\ unreleased' = unreleased + 2
        /\ UNCHANGED <<level, stage, payload, file, socket, netVars, ioFailed, deathVars>>
    BY <1>5 DEF NativeLeaks, InCall, At
  <2>2. leaked' \in 0..MaxFds /\ FdInv'
    BY <1>1, <1>2, <2>1 DEF RunningInv, SpareFd, FdInv
  <2>3. QED
    BY <1>2, <2>1, <2>2, EndsStep
<1>6. CASE NativeFails(t)
  BY <1>1, <1>2, <1>6, EndsStep DEF NativeFails, Ends, FdInv
<1>7. CASE ConnectFails(t) \/ Refuse(t) \/ ConnectionBreaks(t)
  <2>1. \E result \in {"unreachable", "sendError"}, connection \in {"none", "idle"} :
          Ends(t, result, connection, 0) /\ (connection = "none" \/ stage[t] = "sent")
    BY <1>7 DEF ConnectFails, Refuse, ConnectionBreaks, At
  <2>2. QED
    BY <1>1, <1>2, <2>1, EndsStep, FdKept DEF Ends, RunningInv
<1>8. QED
  BY <1>3, <1>4, <1>5, <1>6, <1>7

LEMMA PostNext == PostInv /\ [Next]_vars => PostInv'
<1> SUFFICES ASSUME PostInv, [Next]_vars PROVE PostInv'
  OBVIOUS
<1>1. FrameworkInv' /\ FrameworkInv
  BY NextIsFramework, FrameworkStep DEF PostInv
<1>2. PostType /\ FdInv /\ submitted \in Nat /\ MaxFds \in Nat
  BY <1>1, PostTaskAssumption DEF PostInv, FrameworkInv, FrameworkType
<1>3. CASE PostClicks
  <2>1. PICK l \in Buttons : PostClick(l)
    BY <1>3 DEF PostClicks
  <2>2. /\ submitted' = submitted + 1 /\ submitted < MaxTasks
        /\ level' = [level EXCEPT ![submitted + 1] = l]
        /\ UNCHANGED <<active, looper, reported, lost, stage, payload, file, socket, leaked,
                       unreleased, requests, inbox, early, ioFailed, kills, past>>
    BY <2>1 DEF PostClick, Execute, NewTask, netVars, deathVars
  <2>3. Queued' = Queued \cup {submitted + 1}
    BY <1>1, <2>1, ExecuteStep DEF PostClick
  <2>4. PostType'
    BY <1>2, <2>2, PostTaskAssumption DEF PostType, IsReported
  <2>5. \A t \in Tasks : level'[t] = level[t] \/ (t = submitted' /\ t > submitted)
    BY <1>2, <2>2 DEF PostType
  <2>6. FdInv' /\ \A t : /\ Reported(t, "success")' = Reported(t, "success")
                         /\ Posted(t)' = Posted(t)
    BY <1>2, <2>2 DEF FdInv, Reported, Posted, Results
  <2>7. QED
    BY <1>1, <2>2, <2>3, <2>4, <2>5, <2>6, QuietStep DEF InboxGrows
<1>4. CASE StartPost
  <2>1. UNCHANGED <<submitted, looper, reported, lost, postVars>>
    BY <1>4 DEF StartPost, Start
  <2>2. Queued = Queued' \cup active'
    BY <1>1, <1>4, StartStep DEF StartPost
  <2>3. PostType' /\ FdInv'
    BY <1>2, <2>1 DEF PostType, FdInv, IsReported, postVars, netVars, deathVars
  <2>4. \A t : Reported(t, "success")' = Reported(t, "success") /\ Posted(t)' = Posted(t)
    BY <2>1 DEF Reported, Posted, Results
  <2>5. QED
    BY <1>1, <2>1, <2>2, <2>3, <2>4, QuietStep DEF postVars, netVars, InboxGrows
<1>5. CASE Toast
  <2>1. UNCHANGED <<submitted, active, lost, postVars>> /\ HandleResult
    BY <1>5 DEF Toast, HandleResult
  <2>2. /\ Queued' = Queued /\ Finished = Finished' \cup {Message.task}
        /\ \A u : IsReported(u)' => IsReported(u) \/ u = Message.task
    BY <1>1, <2>1, HandleResultStep
  <2>3. Message.task \in Tasks
    BY <1>1, <2>2, HeldTasks DEF Pending
  <2>4. PostType' /\ FdInv'
    <3>1. looper # << >> /\ looper' = Tail(looper) /\ looper \in Seq(Messages)
      BY <1>1, <2>1 DEF HandleResult, FrameworkInv, FrameworkType
    <3>2. /\ DOMAIN looper = 1..Len(looper) /\ Len(looper) \in Nat
          /\ DOMAIN looper' = 1..(Len(looper) - 1)
          /\ \A k \in DOMAIN looper' : looper'[k] = looper[k + 1]
      BY <3>1, TailIndices
    <3>3. \A k \in DOMAIN looper' : looper'[k].task \in Tasks
      <4>1. \A k \in DOMAIN looper : looper[k].task \in Tasks
        BY <1>2 DEF PostType
      <4>2. \A k \in DOMAIN looper' : k + 1 \in DOMAIN looper
        BY <3>2
      <4>3. QED
        BY <3>2, <4>1, <4>2
    <3>4. UNCHANGED <<lost, level, stage, payload, file, socket, leaked, unreleased, requests,
                      inbox, early, ioFailed, kills, past>>
      BY <2>1 DEF postVars, netVars, deathVars
    <3>5. \A t : IsReported(t)' => t \in Tasks
      BY <1>2, <2>2, <2>3 DEF PostType
    <3>6. QED
      BY <1>2, <3>3, <3>4, <3>5 DEF PostType, FdInv
  <2>5. \A t : Reported(t, "success")' \/ Posted(t)' => Reported(t, "success") \/ Posted(t)
    BY <1>1, <2>1, PostedByHandling
  <2>6. QED
    BY <1>1, <2>1, <2>2, <2>4, <2>5, QuietStep DEF postVars, netVars, InboxGrows
<1>6. CASE Kill
  <2>1. /\ active' = {} /\ looper' = << >> /\ lost' = lost \cup Pending
        /\ kills < MaxKills /\ kills' = kills + 1 /\ past' = submitted
        /\ socket' = "none" /\ leaked' = 0 /\ unreleased' = 0
        /\ UNCHANGED <<submitted, reported, level, stage, payload, file, requests, inbox, early,
                       ioFailed>>
    BY <1>6 DEF Kill, KillTasks, netVars
  <2>2. Queued' = {} /\ Pending \subseteq Tasks
    BY <1>1, <1>6, KillStep, HeldTasks DEF Kill
  <2>3. PostType' /\ FdInv'
    <3>1. submitted \in 0..MaxTasks
      BY <1>1 DEF FrameworkInv, FrameworkType
    <3>2. QED
      BY <1>2, <2>1, <2>2, <3>1, PostTaskAssumption DEF PostType, FdInv, IsReported
  <2>4. \A t : Reported(t, "success")' = Reported(t, "success") /\ ~Posted(t)'
    BY <2>1 DEF Reported, Posted, Results
  <2>5. QED
    BY <1>1, <2>1, <2>2, <2>3, <2>4, QuietStep DEF InboxGrows
<1>7. CASE Evict \/ Arrives \/ UNCHANGED vars
  <2>1. /\ UNCHANGED <<taskVars, level, stage, payload, file, leaked, unreleased, requests, early,
                       ioFailed, kills, past>>
        /\ socket' = socket \/ (socket = "idle" /\ socket' = "none")
        /\ InboxGrows
    BY <1>7 DEF Evict, Arrives, InFlight, vars, postVars, netVars, deathVars, InboxGrows
  <2>2. UNCHANGED <<Queued, submitted, active, lost>>
    BY <2>1 DEF taskVars, Queued
  <2>3. PostType' /\ FdInv'
    <3>1. inbox' \in Seq(DOMAIN requests')
      BY <1>2, <2>1, NetworkGrows DEF RequestsGrow
    <3>2. QED
      BY <1>2, <2>1, <3>1 DEF PostType, FdInv, IsReported, taskVars
  <2>4. \A t : Reported(t, "success")' = Reported(t, "success") /\ Posted(t)' = Posted(t)
    BY <2>1 DEF Reported, Posted, Results, taskVars
  <2>5. QED
    BY <1>1, <2>1, <2>2, <2>3, <2>4, QuietStep
<1>8. CASE PostBody
  <2>1. PICK t \in Tasks : Local(t) \/ Remote(t)
    BY <1>8 DEF PostBody
  <2>2. t \in active
    BY <2>1 DEF Local, Remote, Prepare, OpenFile, OpenFileFails, AtFile, Flush, ReadBack,
      ConnectFails, Connect, Sends, ReadResponse, NativeFails, NativeConnects, AtNative,
      NativeSends, InCall, NativeLeaks, NativeSucceeds, Respond, Refuse, Resend,
      ConnectionBreaks, At
  <2>3. QED
    BY <2>1, <2>2, PrepareSteps, RequestSteps, EndSteps DEF Local, Remote
<1>9. QED
  BY <1>3, <1>4, <1>5, <1>6, <1>7, <1>8 DEF Next

-----------------------------------------------------------------------------
(* The state of posting and of the executor keeps its type. *)
THEOREM TypeCorrect == Spec => []TypeOK
<1>1. PostInv => TypeOK
  <2> SUFFICES ASSUME PostInv PROVE TypeOK
    OBVIOUS
  <2>1. /\ \A k \in DOMAIN looper : looper[k] \in Messages
        /\ \A t \in Pending : t \in Tasks
        /\ \A k \in DOMAIN queue : queue[k] \in Queued
    BY HeldTasks DEF PostInv
  <2>2. queue \in Seq(Tasks)
    <3>1. queue \in [1..Len(queue) -> Tasks] /\ Len(queue) \in Nat
      BY <2>1, LenProperties DEF PostInv, FrameworkInv, FrameworkType, Pending
    <3>2. QED
      BY <3>1
  <2>3. \A k \in DOMAIN looper : looper[k].task \in Tasks /\ looper[k].result \in BOOLEAN
    BY <2>1 DEF Messages, PostInv, PostType
  <2>4. TasksTypeOK
    BY <2>1, <2>2, <2>3
    DEF PostInv, PostType, FrameworkInv, FrameworkType, TasksTypeOK, IsReported, Pending
  <2>5. QED
    BY <2>4 DEF PostInv, PostType, Requests, TypeOK
<1>2. QED
  BY <1>1, PostInit, PostNext, PTL DEF Spec

(* Whatever is sent is what its task was to send, unless a file operation   *)
(* of that task failed: contacts.txt is written and read by the running     *)
(* task alone.                                                              *)
THEOREM NothingForeignSent == Spec => []OwnContent
<1>1. PostInv => OwnContent
  BY DEF PostInv, RequestsInv
<1>2. QED
  BY <1>1, PostInit, PostNext, PTL DEF Spec

(* A success through javaSendDataTo is reported only of a request that was  *)
(* sent whole; and the server, unless it answered too early, had it before  *)
(* any request of a later tap, whatever is still under way.                 *)
THEOREM SuccessIsSentFirst == Spec => []SuccessComesFirst
<1>1. PostInv => SuccessComesFirst
  <2> SUFFICES ASSUME PostInv, NEW t \in Tasks, Reported(t, "success"),
                      level[t] # "OBFUSCATED_NATIVE_NETWORK"
               PROVE  Sent(t, payload[t]) /\ (t \notin early => ComesFirst(t))
    BY DEF SuccessComesFirst
  <2>1. stage[t] = "body"
    BY DEF PostInv, SuccessInv
  <2>2. QED
    BY <2>1 DEF PostInv, TaskInv
<1>2. QED
  BY <1>1, PostInit, PostNext, PTL DEF Spec

(* With every descriptor lost, what is left to a running task: no request,  *)
(* and no success.                                                          *)
LEMMA SilentBody ==
  ASSUME PostInv, leaked = MaxFds, NEW t \in active, Local(t) \/ Remote(t)
  PROVE  /\ UNCHANGED <<requests, leaked>>
         /\ \/ looper' = looper
            \/ \E value \in {"unreachable", "sendError", "nativeError"} : Finish(t, value)
<1>1. RunningInv(t) /\ FdInv /\ PostType /\ MaxFds \in Nat
  BY Running, PostTaskAssumption
<1>2. ~SpareFd /\ socket = "none"
  BY <1>1 DEF FdInv, SpareFd
<1>3. stage[t] \notin {"sending", "sent", "body", "native", "nativeSent"}
  BY <1>1, <1>2 DEF RunningInv
<1>4. \/ Prepare(t) \/ OpenFileFails(t) \/ Flush(t) \/ ReadBack(t)
      \/ ConnectFails(t) \/ NativeFails(t)
  BY <1>2, <1>3 DEF Local, Remote, OpenFile, Connect, Sends, ReadResponse, NativeConnects,
    NativeSends, NativeLeaks, NativeSucceeds, InCall, Respond, Refuse, Resend, ConnectionBreaks, At
<1>5. QED
  BY <1>4 DEF Prepare, OpenFileFails, Flush, ReadBack, ConnectFails, NativeFails, Ends, taskVars,
    netVars

(* Once send_http_post has lost every descriptor, neither a request nor a   *)
(* success is seen at any level until the process dies.                     *)
THEOREM LostIsSilent == Spec => LostMeansSilence
<1>1. ASSUME PostInv, [Next]_vars, leaked = MaxFds, kills' = kills
      PROVE  /\ UNCHANGED <<requests, leaked>>
             /\ Len(looper') > Len(looper) => looper'[Len(looper')].value # "success"
  <2>1. looper \in Seq(Messages) /\ Len(looper) \in Nat /\ kills \in Nat /\ FrameworkInv
    BY <1>1, LenProperties, PostTaskAssumption
    DEF PostInv, FrameworkInv, FrameworkType, PostType
  <2>2. CASE PostBody
    <3>1. PICK t \in Tasks : Local(t) \/ Remote(t)
      BY <2>2 DEF PostBody
    <3>2. t \in active
      BY <3>1 DEF Local, Remote, Prepare, OpenFile, OpenFileFails, AtFile, Flush, ReadBack,
        ConnectFails, Connect, Sends, ReadResponse, NativeFails, NativeConnects, AtNative,
        NativeSends, InCall, NativeLeaks, NativeSucceeds, Respond, Refuse, Resend,
        ConnectionBreaks, At
    <3>3. CASE looper' = looper
      BY <1>1, <2>1, <3>1, <3>2, <3>3, SilentBody
    <3>4. ASSUME NEW value \in {"unreachable", "sendError", "nativeError"}, Finish(t, value)
          PROVE  looper'[Len(looper')].value # "success"
      <4>1. Result(t, value) \in Messages
        BY <3>1 DEF Result, Messages, Values, Tasks
      <4>2. looper'[Len(looper')].value = value
        BY <2>1, <3>4, <4>1, PostedByFinish
      <4>3. QED
        BY <4>2
    <3>5. QED
      BY <1>1, <3>1, <3>2, <3>3, <3>4, SilentBody
  <2>3. CASE Toast
    <3>1. UNCHANGED <<requests, leaked>> /\ looper # << >> /\ looper' = Tail(looper)
      BY <2>3 DEF Toast, HandleResult, postVars, netVars
    <3>2. Len(looper') = Len(looper) - 1
      BY <2>1, <3>1, HeadTailProperties
    <3>3. QED
      BY <2>1, <3>1, <3>2
  <2>4. CASE PostClicks \/ StartPost \/ Evict \/ Arrives \/ UNCHANGED vars
    <3>1. UNCHANGED <<requests, leaked, looper>>
      BY <2>4 DEF PostClicks, PostClick, Execute, StartPost, Start, Evict, Arrives, vars, postVars,
        netVars, taskVars
    <3>2. QED
      BY <2>1, <3>1
  <2>5. ~Kill
    BY <1>1, <2>1 DEF Kill, deathVars
  <2>6. QED
    BY <1>1, <2>2, <2>3, <2>4, <2>5 DEF Next
<1>2. PostInv /\ [Next]_vars =>
        [leaked = MaxFds /\ kills' = kills =>
           /\ UNCHANGED <<requests, leaked>>
           /\ Len(looper') > Len(looper) => looper'[Len(looper')].value # "success"]_vars
  BY <1>1
<1>3. QED
  BY <1>2, PostInit, PostNext, PTL DEF Spec, LostMeansSilence

-----------------------------------------------------------------------------
(* What the tasks that have ended cost, and what the running one has cost   *)
(* so far, are all the strings that are pinned: the equation alone is not   *)
(* inductive, since a task adds its strings before it has ended.            *)
Ended == Started \ active
Lost == 3 * Cardinality({t \in Ended : WroteFile(t)})
        + 2 * Cardinality({t \in Ended : FailedNatively(t)})
PinnedSoFar(t) ==
  IF ~WroteFile(t) \/ stage[t] = "prepare" THEN 0
  ELSE IF stage[t] \in {"flush", "readback"} THEN 2 ELSE 3

StringsInv ==
  /\ past <= submitted
  /\ \A t \in Queued \cup active : past < t
  /\ \A t : FailedNatively(t) => t \in Nat /\ t <= submitted /\ t \notin Queued \cup active
  /\ active = {} => unreleased = Lost
  /\ \A t \in active : unreleased = Lost + PinnedSoFar(t)

LEMMA StringsInit == Init => StringsInv
<1> SUFFICES ASSUME Init PROVE StringsInv
  OBVIOUS
<1>1. DOMAIN << >> = {}
  OBVIOUS
<1>2. Queued = {} /\ active = {} /\ past = 0 /\ submitted = 0 /\ unreleased = 0
  BY <1>1 DEF Init, InitTasks, InitPost, Queued
<1>3. \A t : ~FailedNatively(t)
  BY <1>1 DEF Init, InitTasks, FailedNatively, Reported
<1>4. Ended = {}
  BY <1>2 DEF Ended, Started
<1>5. {t \in Ended : WroteFile(t)} = {} /\ {t \in Ended : FailedNatively(t)} = {}
  BY <1>4
<1>6. Lost = 0
  BY <1>5, FS_EmptySet DEF Lost
<1>7. QED
  BY <1>2, <1>3, <1>6 DEF StringsInv

(* The tasks that have ended are finitely many; a step that leaves them,    *)
(* their levels and their failures alone leaves what they cost.             *)
LEMMA EndedFinite ==
  ASSUME PostInv
  PROVE  /\ \A t \in Ended : t \in Nat /\ t <= submitted /\ past < t
         /\ IsFiniteSet({t \in Ended : WroteFile(t)})
         /\ IsFiniteSet({t \in Ended : FailedNatively(t)})
         /\ Cardinality({t \in Ended : WroteFile(t)}) \in Nat
         /\ Cardinality({t \in Ended : FailedNatively(t)}) \in Nat
<1>1. past \in Nat /\ submitted \in Nat
  BY AsyncTaskAssumption DEF PostInv, PostType, FrameworkInv, FrameworkType
<1>2. IsFiniteSet((past + 1)..submitted)
  BY <1>1, FS_Interval
<1>3. /\ {t \in Ended : WroteFile(t)} \in SUBSET ((past + 1)..submitted)
      /\ {t \in Ended : FailedNatively(t)} \in SUBSET ((past + 1)..submitted)
  BY DEF Ended, Started
<1>4. /\ IsFiniteSet({t \in Ended : WroteFile(t)})
      /\ IsFiniteSet({t \in Ended : FailedNatively(t)})
  BY <1>2, <1>3, FS_Subset
<1>5. QED
  BY <1>1, <1>4, FS_CardinalityType DEF Ended, Started

LEMMA LostKept ==
  ASSUME Ended' = Ended, \A t \in Ended : WroteFile(t)' = WroteFile(t),
         \A t \in Ended : FailedNatively(t)' = FailedNatively(t)
  PROVE  Lost' = Lost
<1>1. /\ {t \in Ended : WroteFile(t)}' = {t \in Ended : WroteFile(t)}
      /\ {t \in Ended : FailedNatively(t)}' = {t \in Ended : FailedNatively(t)}
  OBVIOUS
<1>2. QED
  BY <1>1 DEF Lost

(* The running task goes on, and pins what its stage adds.                  *)
LEMMA StringsGoOn ==
  ASSUME StringsInv, PostInv, NEW t \in active,
         UNCHANGED <<taskVars, level, past>>, unreleased' \in Nat,
         unreleased' - unreleased = PinnedSoFar(t)' - PinnedSoFar(t)
  PROVE  StringsInv'
<1>1. \A u : FailedNatively(u)' = FailedNatively(u) /\ WroteFile(u)' = WroteFile(u)
  BY DEF taskVars, FailedNatively, Reported, WroteFile
<1>2. UNCHANGED <<Queued, Ended, submitted, active>>
  BY DEF taskVars, Queued, Ended, Started
<1>3. Lost' = Lost
  BY <1>1, <1>2, LostKept
<1>4. Lost \in Nat
  BY EndedFinite DEF Lost
<1>5. unreleased \in Nat /\ \A u \in active : u = t
  BY Running DEF PostType
<1>6. PinnedSoFar(t) \in Nat /\ PinnedSoFar(t)' \in Nat
  BY DEF PinnedSoFar
<1>7. unreleased' = Lost' + PinnedSoFar(t)'
  BY <1>3, <1>4, <1>6 DEF StringsInv
<1>8. QED
  BY <1>1, <1>2, <1>5, <1>7 DEF StringsInv

(* What becomes of a native failure on its way to the toast.                *)
LEMMA FailureFinished ==
  ASSUME PostInv, NEW t \in active, NEW value,
         value \in {"success", "unreachable", "sendError", "nativeError"}, Finish(t, value)
  PROVE  \A u : FailedNatively(u)' <=> FailedNatively(u) \/ (u = t /\ value = "nativeError")
<1>1. t \in Nat /\ looper \in Seq(Messages) /\ Result(t, value) \in Messages
      /\ looper' = Append(looper, Result(t, value)) /\ reported' = reported
  BY Running DEF PostInv, FrameworkInv, FrameworkType, Finish, Result, Messages, Values
<1>2. /\ DOMAIN looper = 1..Len(looper) /\ Len(looper) \in Nat
      /\ DOMAIN looper' = 1..(Len(looper) + 1)
      /\ \A k \in DOMAIN looper : looper'[k] = looper[k]
      /\ looper'[Len(looper) + 1] = Result(t, value)
  <2> HIDE DEF Result
  <2>1. QED
    BY <1>1, AppendIndices
<1>3. \A u : (\E k \in DOMAIN looper' : looper'[k] = Result(u, "nativeError"))
             <=> \/ \E k \in DOMAIN looper : looper[k] = Result(u, "nativeError")
                 \/ Result(t, value) = Result(u, "nativeError")
  <2>1. \A k \in 1..(Len(looper) + 1) : k \in 1..Len(looper) \/ k = Len(looper) + 1
    BY <1>2
  <2>2. Len(looper) + 1 \in DOMAIN looper' /\ DOMAIN looper \subseteq DOMAIN looper'
    BY <1>2
  <2>3. QED
    BY <1>2, <2>1, <2>2
<1>4. \A u : Result(t, value) = Result(u, "nativeError") <=> u = t /\ value = "nativeError"
  BY DEF Result
<1>5. QED
  BY <1>1, <1>3, <1>4 DEF FailedNatively, Reported

LEMMA FailureReported ==
  ASSUME FrameworkInv, HandleResult
  PROVE  \A u : FailedNatively(u)' <=> FailedNatively(u)
<1> DEFINE entry == [task |-> Message.task, value |-> Message.value]
           S == [task : Nat, value : Values]
<1>1. /\ looper # << >> /\ Message.result /\ looper' = Tail(looper) /\ looper \in Seq(Messages)
      /\ reported' = Append(reported, entry) /\ reported \in Seq(S)
  BY DEF HandleResult, FrameworkInv, FrameworkType
<1>2. /\ DOMAIN looper = 1..Len(looper) /\ Len(looper) \in Nat \ {0}
      /\ DOMAIN looper' = 1..(Len(looper) - 1)
      /\ \A k \in DOMAIN looper' : looper'[k] = looper[k + 1]
      /\ Message = looper[1] /\ Message \in Messages
  BY <1>1, TailIndices DEF Message
<1>3. entry \in S
  BY <1>2 DEF Messages
<1>4. /\ DOMAIN reported = 1..Len(reported) /\ Len(reported) \in Nat
      /\ DOMAIN reported' = 1..(Len(reported) + 1)
      /\ \A k \in DOMAIN reported : reported'[k] = reported[k]
      /\ reported'[Len(reported) + 1] = entry
  <2> HIDE DEF entry
  <2>1. QED
    BY <1>1, <1>3, AppendIndices
<1>5. \A u : Reported(u, "nativeError")' <=>
               Reported(u, "nativeError") \/ entry = [task |-> u, value |-> "nativeError"]
  <2>1. \A k \in 1..(Len(reported) + 1) : k \in 1..Len(reported) \/ k = Len(reported) + 1
    BY <1>4
  <2>2. Len(reported) + 1 \in DOMAIN reported' /\ DOMAIN reported \subseteq DOMAIN reported'
    BY <1>4
  <2> HIDE DEF entry
  <2>3. QED
    BY <1>4, <2>1, <2>2 DEF Reported
<1>6. \A u : (\E k \in DOMAIN looper : looper[k] = Result(u, "nativeError"))
             <=> \/ \E k \in DOMAIN looper' : looper'[k] = Result(u, "nativeError")
                 \/ Message = Result(u, "nativeError")
  <2>1. /\ \A k \in DOMAIN looper : k = 1 \/ (k - 1 \in DOMAIN looper' /\ (k - 1) + 1 = k)
        /\ \A k \in DOMAIN looper' : k + 1 \in DOMAIN looper
        /\ 1 \in DOMAIN looper
    BY <1>2
  <2> HIDE DEF Result
  <2>2. QED
    BY <1>2, <2>1
<1>7. \A u : Message = Result(u, "nativeError") <=> entry = [task |-> u, value |-> "nativeError"]
  <2>1. Message = [task |-> Message.task, result |-> TRUE, value |-> Message.value]
    BY <1>1, <1>2 DEF Messages
  <2>2. QED
    BY <2>1 DEF Result
<1>8. QED
  BY <1>5, <1>6, <1>7 DEF FailedNatively

(* The running task ends: what it has cost joins what was lost.             *)
LEMMA StringsAtEnd ==
  ASSUME StringsInv, PostInv, NEW t \in active, NEW value,
         value \in {"success", "unreachable", "sendError", "nativeError"}, Finish(t, value),
         UNCHANGED <<level, past>>,
         WroteFile(t) => stage[t] \notin {"prepare", "flush", "readback"},
         unreleased' = unreleased + (IF value = "nativeError" THEN 2 ELSE 0)
  PROVE  StringsInv'
<1>1. \A u : FailedNatively(u)' <=> FailedNatively(u) \/ (u = t /\ value = "nativeError")
  BY FailureFinished
<1>2. /\ t \in Nat /\ submitted \in Nat /\ past \in Nat /\ past < t /\ t <= submitted
      /\ t \notin Queued /\ \A u \in active : u = t
  BY Running, HeldTasks, AsyncTaskAssumption
  DEF StringsInv, PostInv, PostType, FrameworkInv, FrameworkType, InOrder, Pending, Queued
<1>3. active' = {} /\ submitted' = submitted /\ Queued' = Queued
  BY <1>2 DEF Finish, Queued
<1>4. Ended' = Ended \cup {t} /\ t \notin Ended /\ \A u : WroteFile(u)' = WroteFile(u)
  BY <1>2, <1>3 DEF Ended, Started, WroteFile
<1> DEFINE written == {u \in Ended : WroteFile(u)}
           failed == {u \in Ended : FailedNatively(u)}
<1>5. /\ written' = IF WroteFile(t) THEN written \cup {t} ELSE written
      /\ failed' = IF value = "nativeError" THEN failed \cup {t} ELSE failed
  <2>1. ~FailedNatively(t)
    BY DEF StringsInv
  <2>2. QED
    BY <1>1, <1>4, <2>1
<1>6. /\ Cardinality(written \cup {t}) = Cardinality(written) + 1
      /\ Cardinality(failed \cup {t}) = Cardinality(failed) + 1
      /\ Cardinality(written) \in Nat /\ Cardinality(failed) \in Nat
  BY <1>4, EndedFinite, FS_AddElement
<1>7. Lost' = Lost + (IF WroteFile(t) THEN 3 ELSE 0) + (IF value = "nativeError" THEN 2 ELSE 0)
  <2>1. Lost' = 3 * Cardinality(written') + 2 * Cardinality(failed')
    BY DEF Lost
  <2>2. Lost = 3 * Cardinality(written) + 2 * Cardinality(failed)
    BY DEF Lost
  <2> HIDE DEF written, failed
  <2>3. QED
    BY <1>5, <1>6, <2>1, <2>2
<1>8. unreleased = Lost + (IF WroteFile(t) THEN 3 ELSE 0) /\ Lost \in Nat
  BY EndedFinite DEF StringsInv, PinnedSoFar, Lost
<1>9. unreleased' = Lost'
  BY <1>7, <1>8
<1>10. QED
  BY <1>1, <1>2, <1>3, <1>9 DEF StringsInv

(* What each step of the running task pins is what its stage says, and what *)
(* its failure adds.                                                        *)
LEMMA StringsBody ==
  ASSUME StringsInv, PostInv, PostType', NEW t \in active, Local(t) \/ Remote(t)
  PROVE  StringsInv'
<1>1. /\ TaskInv(t) /\ t \in Tasks /\ stage \in [Tasks -> Stages] /\ unreleased \in Nat
      /\ unreleased' \in Nat
  BY Running DEF PostType
<1>2. CASE Prepare(t) \/ NativeConnects(t) \/ Connect(t) \/ Sends(t) \/ NativeSends(t)
           \/ Respond(t) \/ Resend(t)
  <2>1. /\ UNCHANGED <<taskVars, level, unreleased, past>>
        /\ \E s \in {"connect", "sending", "sent", "body", "native", "nativeSent"} :
             stage' = [stage EXCEPT ![t] = s]
        /\ stage[t] = "prepare" => level[t] # "OBFUSCATED_NATIVE_FILESYSTEM"
        /\ stage[t] \notin {"flush", "readback"}
    BY <1>2 DEF Prepare, NativeConnects, AtNative, Connect, Sends, NativeSends, Respond, Resend,
      At, GoTo, deathVars
  <2>2. PinnedSoFar(t)' = PinnedSoFar(t) /\ PinnedSoFar(t) \in Nat
    BY <1>1, <2>1 DEF PinnedSoFar, WroteFile
  <2>3. unreleased' - unreleased = PinnedSoFar(t)' - PinnedSoFar(t)
    BY <1>1, <2>1, <2>2
  <2>4. QED
    BY <1>1, <2>1, <2>3, StringsGoOn
<1>3. CASE OpenFile(t) \/ OpenFileFails(t) \/ Flush(t) \/ ReadBack(t)
  <2>1. /\ UNCHANGED <<taskVars, level, past>> /\ level[t] = "OBFUSCATED_NATIVE_FILESYSTEM"
        /\ \/ stage[t] = "prepare" /\ stage'[t] \in {"flush", "readback"}
              /\ unreleased' = unreleased + 2
           \/ stage[t] = "flush" /\ stage'[t] = "readback" /\ unreleased' = unreleased
           \/ stage[t] = "readback" /\ stage'[t] = "connect" /\ unreleased' = unreleased + 1
    BY <1>1, <1>3 DEF OpenFile, OpenFileFails, AtFile, Flush, ReadBack, At, GoTo, deathVars, TaskInv
  <2>2. unreleased' - unreleased = PinnedSoFar(t)' - PinnedSoFar(t)
    BY <1>1, <2>1 DEF PinnedSoFar, WroteFile
  <2>3. QED
    BY <1>1, <2>1, <2>2, StringsGoOn
<1>4. CASE ConnectFails(t) \/ ReadResponse(t) \/ Refuse(t) \/ ConnectionBreaks(t)
           \/ NativeFails(t) \/ NativeLeaks(t) \/ NativeSucceeds(t)
  <2>1. \E value \in {"success", "unreachable", "sendError", "nativeError"} :
          /\ Finish(t, value)
          /\ unreleased' = unreleased + (IF value = "nativeError" THEN 2 ELSE 0)
    BY <1>1, <1>4 DEF ConnectFails, ReadResponse, Refuse, ConnectionBreaks, NativeFails, NativeLeaks,
      NativeSucceeds, Ends
  <2>2. UNCHANGED <<level, past>>
    BY <1>4 DEF ConnectFails, ReadResponse, Refuse, ConnectionBreaks, NativeFails, NativeLeaks,
      NativeSucceeds, Ends, deathVars
  <2>3. WroteFile(t) => stage[t] \notin {"prepare", "flush", "readback"}
    BY <1>1, <1>4 DEF ConnectFails, ReadResponse, Refuse, ConnectionBreaks, NativeFails, AtNative,
      NativeLeaks, NativeSucceeds, InCall, At, WroteFile, TaskInv
  <2>4. QED
    BY <2>1, <2>2, <2>3, StringsAtEnd
<1>5. QED
  BY <1>2, <1>3, <1>4 DEF Local, Remote

(* A step of the framework leaves the tasks that have ended as they are,    *)
(* except for the end of one.                                               *)
LEMMA StringsNext == StringsInv /\ PostInv /\ [Next]_vars => StringsInv'
<1> SUFFICES ASSUME StringsInv, PostInv, [Next]_vars PROVE StringsInv'
  OBVIOUS
<1>1. PostInv'
  BY PostNext
<1>2. FrameworkInv /\ submitted \in Nat /\ past \in Nat
  BY AsyncTaskAssumption DEF PostInv, PostType, FrameworkInv, FrameworkType
<1>3. CASE PostBody
  <2>1. PICK t \in Tasks : Local(t) \/ Remote(t)
    BY <1>3 DEF PostBody
  <2>2. t \in active
    BY <2>1 DEF Local, Remote, Prepare, OpenFile, OpenFileFails, AtFile, Flush, ReadBack,
      ConnectFails, Connect, Sends, ReadResponse, NativeFails, NativeConnects, AtNative,
      NativeSends, InCall, NativeLeaks, NativeSucceeds, Respond, Refuse, Resend,
      ConnectionBreaks, At
  <2>3. QED
    BY <1>1, <2>1, <2>2, StringsBody DEF PostInv
<1>4. CASE PostClicks
  <2>1. PICK l \in Buttons : PostClick(l)
    BY <1>4 DEF PostClicks
  <2>2. /\ submitted' = submitted + 1 /\ level' = [level EXCEPT ![submitted + 1] = l]
        /\ UNCHANGED <<active, looper, reported, stage, unreleased, past>>
    BY <2>1 DEF PostClick, Execute, NewTask, deathVars
  <2>3. Queued' = Queued \cup {submitted + 1}
    BY <1>2, <2>1, ExecuteStep DEF PostClick
  <2>4. \A t \in Pending : t <= submitted /\ t \in Nat
    BY <1>2, HeldTasks
  <2>5. Ended' = Ended
    <3>1. ((past + 1)..submitted') = ((past + 1)..submitted) \cup {submitted + 1}
      BY <1>2, <2>2 DEF StringsInv
    <3>2. submitted + 1 \notin (past + 1)..submitted
      BY <1>2
    <3>3. QED
      BY <2>2, <2>3, <3>1, <3>2 DEF Ended, Started
  <2>6. \A t : FailedNatively(t)' = FailedNatively(t)
    BY <2>2 DEF FailedNatively, Reported
  <2>7. \A t : t # submitted + 1 => WroteFile(t)' = WroteFile(t)
    BY <2>2 DEF WroteFile
  <2>8. \A t \in Ended \cup active : t # submitted + 1
    BY <1>2, <2>4, EndedFinite DEF Pending
  <2>9. Lost' = Lost /\ \A t \in active : PinnedSoFar(t)' = PinnedSoFar(t)
    BY <2>2, <2>5, <2>6, <2>7, <2>8, LostKept DEF PinnedSoFar
  <2>10. past < submitted + 1 /\ past <= submitted'
    BY <1>2, <2>2 DEF StringsInv
  <2>11. \A t : FailedNatively(t)' => t \in Nat /\ t <= submitted' /\ t \notin Queued' \cup active'
    BY <1>2, <2>2, <2>3, <2>6 DEF StringsInv
  <2>12. QED
    BY <2>2, <2>3, <2>9, <2>10, <2>11 DEF StringsInv
<1>5. CASE StartPost
  <2>1. /\ UNCHANGED <<submitted, looper, reported, level, stage, unreleased, past>>
        /\ active = {} /\ active' = {Head(queue)}
    BY <1>5 DEF StartPost, Start, postVars, deathVars
  <2>2. Queued = Queued' \cup active'
    BY <1>2, <1>5, StartStep DEF StartPost
  <2>3. Ended' = Ended /\ \A t : WroteFile(t)' = WroteFile(t) /\ FailedNatively(t)' = FailedNatively(t)
    BY <2>1, <2>2 DEF Ended, Started, WroteFile, FailedNatively, Reported
  <2>4. Lost' = Lost /\ Lost \in Nat
    BY <2>3, LostKept, EndedFinite DEF Lost
  <2>5. \A t \in active' : PinnedSoFar(t)' = 0
    BY <1>2, <2>1, <2>2, HeldTasks DEF PostInv, FreshInv, PinnedSoFar, Pending
  <2>6. QED
    BY <2>1, <2>2, <2>3, <2>4, <2>5 DEF StringsInv
<1>6. CASE Toast
  <2>1. UNCHANGED <<submitted, active, level, stage, unreleased, past>> /\ HandleResult
    BY <1>6 DEF Toast, HandleResult, postVars, deathVars
  <2>2. Queued' = Queued
    BY <1>2, <2>1, HandleResultStep
  <2>3. \A t : FailedNatively(t)' <=> FailedNatively(t)
    BY <1>2, <2>1, FailureReported
  <2>4. QED
    <3>1. Ended' = Ended /\ \A t : WroteFile(t)' = WroteFile(t) /\ PinnedSoFar(t)' = PinnedSoFar(t)
      BY <2>1, <2>2 DEF Ended, Started, WroteFile, PinnedSoFar
    <3>2. {t \in Ended : FailedNatively(t)}' = {t \in Ended : FailedNatively(t)}
      BY <2>3, <3>1
    <3>3. {t \in Ended : WroteFile(t)}' = {t \in Ended : WroteFile(t)}
      BY <3>1
    <3>4. Lost' = Lost
      BY <3>2, <3>3 DEF Lost
    <3>5. QED
      BY <2>1, <2>2, <2>3, <3>1, <3>4 DEF StringsInv
<1>7. CASE Kill
  <2>1. /\ active' = {} /\ looper' = << >> /\ past' = submitted /\ unreleased' = 0
        /\ UNCHANGED <<submitted, reported>>
    BY <1>7 DEF Kill, KillTasks
  <2>2. Queued' = {}
    BY <1>2, <1>7, KillStep DEF Kill
  <2>3. Ended' = {}
    BY <1>2, <2>1 DEF Ended, Started
  <2>4. Lost' = 0
    <3>1. {t \in Ended : WroteFile(t)}' = {} /\ {t \in Ended : FailedNatively(t)}' = {}
      BY <2>3
    <3>2. QED
      BY <3>1, FS_EmptySet DEF Lost
  <2>5. \A t : FailedNatively(t)' => FailedNatively(t)
    BY <2>1 DEF FailedNatively, Reported
  <2>6. QED
    BY <1>2, <2>1, <2>2, <2>4, <2>5 DEF StringsInv
<1>8. CASE Evict \/ Arrives \/ UNCHANGED vars
  <2>1. UNCHANGED <<taskVars, level, stage, unreleased, past>>
    BY <1>8 DEF Evict, Arrives, vars, postVars, deathVars
  <2>2. /\ UNCHANGED <<Queued, Ended, submitted, active>>
        /\ \A t : /\ WroteFile(t)' = WroteFile(t) /\ FailedNatively(t)' = FailedNatively(t)
                  /\ PinnedSoFar(t)' = PinnedSoFar(t)
    BY <2>1 DEF taskVars, Queued, Ended, Started, WroteFile, FailedNatively, Reported, PinnedSoFar
  <2>3. Lost' = Lost
    BY <2>2, LostKept
  <2>4. QED
    BY <2>1, <2>2, <2>3 DEF StringsInv
<1>9. QED
  BY <1>3, <1>4, <1>5, <1>6, <1>7, <1>8 DEF Next

(* Whatever fails on the way, the process has lost three strings for every  *)
(* task of the file's level that has ended and two for every native request *)
(* that failed, and no other.                                               *)
THEOREM StringsCounted == Spec => []StringsAccounted
<1>1. StringsInv => StringsAccounted
  <2> SUFFICES ASSUME StringsInv, active = {}
               PROVE  unreleased = 3 * Cardinality({t \in Started : WroteFile(t)})
                                   + 2 * Cardinality({t \in Started : FailedNatively(t)})
    BY DEF StringsAccounted
  <2>1. Ended = Started
    BY DEF Ended
  <2>2. QED
    BY <2>1 DEF StringsInv, Lost
<1>2. Init => PostInv /\ StringsInv
  BY PostInit, StringsInit
<1>3. PostInv /\ StringsInv /\ [Next]_vars => (PostInv /\ StringsInv)'
  BY PostNext, StringsNext
<1>4. QED
  BY <1>1, <1>2, <1>3, PTL DEF Spec

-----------------------------------------------------------------------------
(* Posting answers the taps like TaskService, whatever fails on the way.    *)
THEOREM PostingImplementsService == Spec => ServiceSpec
<1>1. Init => Service!Init
  BY FrameworkInit DEF Init
<1>2. PostInv /\ [Next]_vars => [Service!Next]_(Service!vars)
  BY NextIsFramework, FrameworkStep DEF PostInv
<1>3. QED
  BY <1>1, <1>2, PostInit, PostNext, PTL DEF Spec, ServiceSpec, Service!Spec

=============================================================================
