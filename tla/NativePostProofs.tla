-------------------------- MODULE NativePostProofs --------------------------
(***************************************************************************)
(* What holds of send_http_post for every message length, buffer size,    *)
(* descriptor limit and number of calls: the safety properties of          *)
(* NativePost, from one inductive invariant; and of NativePosting, that the *)
(* calls its tasks make are calls of NativePost and that, seen from Java,   *)
(* they are the native steps of PostTask.                                  *)
(***************************************************************************)
EXTENDS NativePosting, SequenceTheorems, TLAPS

(* What the two loops know while they run: the locals start at 0, the write *)
(* loop is left either with everything written or by a write of 0 bytes,   *)
(* and the read loop goes on only while the buffer has room.                *)
LoopInv ==
  /\ pc \in {"socket", "connect"} => sent = 0 /\ received = 0 /\ ~stalled
  /\ pc = "write" => sent < Total /\ ~stalled /\ received = 0
  /\ pc = "read" => received < ResponseCap /\ (~stalled => sent = Total)

(* The inductive invariant.  TypeOK alone is not inductive: close(sockfd)   *)
(* keeps the count of descriptors natural only because of FdAccounting.     *)
IInv ==
  /\ TypeOK
  /\ FdAccounting
  /\ PinAccounting
  /\ LoopInv
  /\ WireIsPrefix
  /\ SuccessMeansWritten
  /\ SuccessMeansResponseFits

-----------------------------------------------------------------------------
(* A write appends the next bytes of the message: what the kernel accepted  *)
(* stays a prefix of it (`message + sent`, TaintdroidHack.cpp line 39).     *)
LEMMA SliceAppends ==
  ASSUME NEW s \in Nat, NEW b \in Nat
  PROVE  /\ Slice(0, s) \in Seq(Nat)
         /\ Slice(0, s) \o Slice(s, b) = Slice(0, s + b)
<1>1. /\ Slice(0, s) \in Seq(Nat) /\ Len(Slice(0, s)) = s
      /\ Slice(s, b) \in Seq(Nat) /\ Len(Slice(s, b)) = b
      /\ Slice(0, s + b) \in Seq(Nat) /\ Len(Slice(0, s + b)) = s + b
  BY DEF Slice
<1>2. ASSUME NEW i \in 1..(s + b)
      PROVE  (Slice(0, s) \o Slice(s, b))[i] = Slice(0, s + b)[i]
  BY <1>1 DEF Slice
<1>3. /\ Slice(0, s) \o Slice(s, b) \in Seq(Nat)
      /\ Len(Slice(0, s) \o Slice(s, b)) = s + b
  BY <1>1, ConcatProperties
<1>4. QED
  BY <1>1, <1>2, <1>3, SeqEqual

(* The fields of a connection change one at a time. *)
LEMMA WireUpdate ==
  ASSUME NEW c \in Connections, NEW w \in Seq(Nat), NEW d, d = [c EXCEPT !.wire = w]
  PROVE  d \in Connections /\ d.wire = w
BY DEF Connections

LEMMA ReplyUpdate ==
  ASSUME NEW c \in Connections, NEW n \in Nat, NEW d, d = [c EXCEPT !.reply = n]
  PROVE  d \in Connections /\ d.wire = c.wire
BY DEF Connections

LEMMA FlagUpdate ==
  ASSUME NEW c \in Connections, NEW d,
         d = [c EXCEPT !.fin = TRUE] \/ d = [c EXCEPT !.err = TRUE]
  PROVE  d \in Connections /\ d.wire = c.wire
BY DEF Connections

-----------------------------------------------------------------------------
(* Initially nothing is open, pinned or sent. *)
LEMMA InitInv == Init => IInv
<1> SUFFICES ASSUME Init PROVE IInv
  OBVIOUS
<1>1. Fresh \in Connections
  <2>1. << >> \in Seq(Nat)
    OBVIOUS
  <2>2. QED
    BY <2>1 DEF Fresh, Connections
<1>2. TypeOK
  <2>1. ended \in [Exits -> Nat] /\ stalled \in BOOLEAN /\ last \in Exits \cup {"none"}
    BY DEF Init
  <2>2. sent \in 0..Total /\ received \in 0..ResponseCap /\ fds \in 0..MaxFds /\ pinned \in Nat
    BY NativePostAssumption DEF Init
  <2>3. QED
    BY <1>1, <2>1, <2>2 DEF Init, TypeOK
<1>3. Calls = 0 /\ LeakedFds = 0
  BY DEF Init, Calls, LeakedFds, Exits
<1>4. QED
  BY <1>2, <1>3 DEF Init, IInv, FdAccounting, PinAccounting, LoopInv, WireIsPrefix,
    SuccessMeansWritten, SuccessMeansResponseFits, Exits, Calls, HoldsSocket, Connected

(* A process that was started again is as good as new. *)
LEMMA RestartInv == Restart => IInv'
<1> SUFFICES ASSUME Restart PROVE IInv'
  OBVIOUS
<1>1. Fresh \in Connections
  <2>1. << >> \in Seq(Nat)
    OBVIOUS
  <2>2. QED
    BY <2>1 DEF Fresh, Connections
<1>2. /\ pc' = "idle" /\ last' = "none" /\ stalled' = FALSE /\ conn' = Fresh
      /\ sent' = 0 /\ received' = 0 /\ fds' = 0 /\ pinned' = 0
      /\ ended' = [e \in Exits |-> 0]
  BY DEF Restart
<1>3. TypeOK'
  <2>1. ended' \in [Exits -> Nat] /\ stalled' \in BOOLEAN /\ last' \in Exits \cup {"none"}
    BY <1>2
  <2>2. /\ sent' \in 0..Total /\ received' \in 0..ResponseCap
        /\ fds' \in 0..MaxFds /\ pinned' \in Nat
    BY <1>2, NativePostAssumption
  <2>3. QED
    BY <1>1, <1>2, <2>1, <2>2 DEF TypeOK
<1>4. Calls' = 0 /\ LeakedFds' = 0
  BY <1>2 DEF Calls, LeakedFds, Exits
<1>5. QED
  BY <1>2, <1>3, <1>4 DEF IInv, FdAccounting, PinAccounting, LoopInv, WireIsPrefix,
    SuccessMeansWritten, SuccessMeansResponseFits, Exits, HoldsSocket, Connected

(* An early return counts one more exit of its kind and no other. *)
LEMMA ReturnCounts ==
  ASSUME NEW exit \in Exits, ended \in [Exits -> Nat], Return(exit)
  PROVE  /\ ended' \in [Exits -> Nat]
         /\ ended'["success"] = ended["success"] + (IF exit = "success" THEN 1 ELSE 0)
         /\ ended["success"] \in Nat
         /\ Calls \in Nat /\ Calls' = Calls + 1
         /\ LeakedFds \in Nat
         /\ LeakedFds' = LeakedFds + (IF exit \in Leaks THEN 1 ELSE 0)
         /\ pc' = "idle" /\ last' = exit
BY DEF Return, Exits, Calls, LeakedFds, Leaks

(* A failing return that leaves everything else alone keeps the invariant,  *)
(* whether it is taken before the socket exists (line 17) or leaks it.      *)
LEMMA FailingReturnInv ==
  ASSUME IInv, NEW exit \in Failures \ {"noConnect"}, Return(exit),
         pc # "idle", HoldsSocket <=> exit \in Leaks,
         UNCHANGED <<sent, fds, pinned, conn, stalled>>,
         received' \in 0..ResponseCap
  PROVE  IInv'
<1>1. exit \in Exits /\ exit # "success" /\ ended \in [Exits -> Nat]
  BY DEF Failures, IInv, TypeOK
<1>2. TypeOK'
  BY <1>1, ReturnCounts DEF IInv, TypeOK
<1>3. FdAccounting'
  BY <1>1, ReturnCounts DEF IInv, TypeOK, FdAccounting, HoldsSocket
<1>4. PinAccounting'
  BY <1>1, ReturnCounts DEF IInv, TypeOK, PinAccounting
<1>5. LoopInv' /\ WireIsPrefix' /\ SuccessMeansWritten' /\ SuccessMeansResponseFits'
  BY <1>1, ReturnCounts
  DEF LoopInv, WireIsPrefix, SuccessMeansWritten, SuccessMeansResponseFits, Connected
<1>6. QED
  BY <1>2, <1>3, <1>4, <1>5 DEF IInv

(* The other two exits: connect failed and the socket is closed; end of     *)
(* stream, the socket is closed and both strings are released.              *)
LEMMA ClosingReturnInv ==
  ASSUME IInv, ConnectFails \/ ReadEnds
  PROVE  IInv'
<1> DEFINE exit == IF ConnectFails THEN "noConnect" ELSE "success"
<1>1. /\ exit \in Exits /\ exit \notin Leaks /\ Return(exit)
      /\ ended \in [Exits -> Nat] /\ fds' = fds - 1
      /\ UNCHANGED <<sent, received, conn, stalled>>
  BY DEF Exits, Leaks, ConnectFails, ReadEnds, IInv, TypeOK
<1>2. HoldsSocket /\ pc # "idle" /\ fds = LeakedFds + 1
  BY DEF IInv, ConnectFails, ReadEnds, FdAccounting, HoldsSocket
<1> HIDE DEF exit
<1>3. FdAccounting'
  BY <1>1, <1>2, ReturnCounts DEF FdAccounting, HoldsSocket
<1>4. PinAccounting' /\ pinned' \in Nat
  <2>1. CASE ConnectFails
    BY <1>1, <1>2, <2>1, ReturnCounts DEF ConnectFails, IInv, TypeOK, PinAccounting, exit
  <2>2. CASE ~ConnectFails
    <3>1. exit = "success" /\ pinned' = pinned - 2
      BY <2>2 DEF exit, ReadEnds
    <3>2. ended["success"] <= Calls
      BY <1>1 DEF Calls, Exits
    <3>3. QED
      BY <1>1, <1>2, <3>1, <3>2, ReturnCounts DEF IInv, TypeOK, PinAccounting
  <2>3. QED
    BY <2>1, <2>2
<1>5. TypeOK'
  <2>1. LeakedFds \in Nat /\ ended' \in [Exits -> Nat] /\ pc' = "idle" /\ last' = exit
    BY <1>1, ReturnCounts
  <2>2. fds' \in 0..MaxFds
    BY <1>1, <1>2, <2>1, NativePostAssumption DEF IInv, TypeOK
  <2>3. QED
    BY <1>1, <1>4, <2>1, <2>2 DEF IInv, TypeOK
<1>6. LoopInv'
  BY <1>1, ReturnCounts DEF LoopInv
<1>7. WireIsPrefix' /\ SuccessMeansWritten' /\ SuccessMeansResponseFits'
  <2>1. CASE ConnectFails
    BY <1>1, <2>1, ReturnCounts
    DEF exit, WireIsPrefix, SuccessMeansWritten, SuccessMeansResponseFits, Connected
  <2>2. CASE ~ConnectFails
    <3>1. pc = "read"
      BY <2>2 DEF ReadEnds
    <3>2. conn.wire = Slice(0, sent)
          /\ received < ResponseCap /\ (~stalled => sent = Total)
      BY <3>1 DEF IInv, LoopInv, WireIsPrefix, Connected
    <3>3. QED
      BY <1>1, <3>2 DEF WireIsPrefix, SuccessMeansWritten, SuccessMeansResponseFits
  <2>3. QED
    BY <2>1, <2>2
<1>8. QED
  BY <1>3, <1>4, <1>5, <1>6, <1>7 DEF IInv

(* Steps that end no call. *)
LEMMA CallInv == IInv /\ Call => IInv'
<1> SUFFICES ASSUME IInv, Call PROVE IInv'
  OBVIOUS
<1>1. TypeOK' /\ Calls \in Nat /\ Calls' = Calls /\ LeakedFds' = LeakedFds
      /\ ended["success"] \in Nat
  <2>1. ended' = ended /\ Calls' = Calls /\ LeakedFds' = LeakedFds
    BY DEF Call, Calls, LeakedFds
  <2>2. Calls \in Nat /\ ended["success"] \in Nat
    BY DEF IInv, TypeOK, Calls, Exits
  <2>3. pinned' \in Nat /\ sent' \in 0..Total /\ received' \in 0..ResponseCap
    BY NativePostAssumption DEF IInv, TypeOK, Call
  <2>4. TypeOK'
    BY <2>3 DEF IInv, TypeOK, Call
  <2>5. QED
    BY <2>1, <2>2, <2>4
<1>2. FdAccounting' /\ PinAccounting'
  BY <1>1 DEF IInv, TypeOK, Call, FdAccounting, PinAccounting, HoldsSocket
<1>3. LoopInv' /\ WireIsPrefix' /\ SuccessMeansWritten' /\ SuccessMeansResponseFits'
  BY DEF Call, LoopInv, WireIsPrefix, SuccessMeansWritten, SuccessMeansResponseFits, Connected
<1>4. QED
  BY <1>1, <1>2, <1>3 DEF IInv

LEMMA OpenInv == IInv /\ (OpenSocket \/ Connect) => IInv'
<1> SUFFICES ASSUME IInv, OpenSocket \/ Connect PROVE IInv'
  OBVIOUS
<1>1. Fresh \in Connections /\ Fresh.wire = Slice(0, 0)
  <2>1. << >> \in Seq(Nat) /\ Slice(0, 0) = << >>
    BY DEF Slice
  <2>2. QED
    BY <2>1 DEF Fresh, Connections
<1>2. Calls' = Calls /\ LeakedFds' = LeakedFds /\ ended' = ended /\ pinned' = pinned
      /\ sent' = sent /\ received' = received /\ stalled' = stalled /\ last' = last
      /\ pc # "idle" /\ pc' # "idle"
  BY DEF OpenSocket, Connect, Calls, LeakedFds
<1>3. TypeOK' /\ FdAccounting'
  BY <1>1, NativePostAssumption
  DEF IInv, TypeOK, OpenSocket, Connect, FdAccounting, HoldsSocket, LeakedFds, Exits
<1>4. PinAccounting' /\ SuccessMeansWritten' /\ SuccessMeansResponseFits'
  BY <1>2 DEF IInv, PinAccounting, SuccessMeansWritten, SuccessMeansResponseFits
<1>5. sent = 0 /\ received = 0 /\ ~stalled
  BY DEF IInv, LoopInv, OpenSocket, Connect
<1>6. LoopInv' /\ WireIsPrefix'
  BY <1>1, <1>2, <1>5, NativePostAssumption
  DEF LoopInv, WireIsPrefix, Connected, OpenSocket, Connect
<1>7. QED
  BY <1>3, <1>4, <1>6 DEF IInv

LEMMA WriteInv == IInv /\ (Write \/ WriteStalls) => IInv'
<1> SUFFICES ASSUME IInv, Write \/ WriteStalls PROVE IInv'
  OBVIOUS
<1>1. /\ sent \in Nat /\ sent < Total /\ ~stalled /\ received = 0 /\ conn \in Connections
      /\ conn.wire = Slice(0, sent) /\ Total \in Nat
      /\ pc = "write" /\ pc' \in {"write", "read"}
  BY NativePostAssumption
  DEF IInv, TypeOK, LoopInv, WireIsPrefix, Connected, Write, WriteStalls
<1>2. /\ sent' \in 0..Total /\ conn' \in Connections
      /\ conn'.wire = Slice(0, sent')
      /\ pc' = "write" => sent' < Total
      /\ pc' = "read" => (~stalled' => sent' = Total)
  <2>1. CASE Write
    <3>1. PICK bytes \in 1..(Total - sent) :
            /\ sent' = sent + bytes
            /\ conn' = [conn EXCEPT !.wire = @ \o Slice(sent, bytes)]
      BY <2>1 DEF Write
    <3>2. bytes \in Nat /\ sent + bytes \in Nat /\ sent + bytes <= Total
      BY <1>1, <3>1
    <3>3. conn' = [conn EXCEPT !.wire = Slice(0, sent + bytes)]
      BY <1>1, <3>1, <3>2, SliceAppends
    <3>4. Slice(0, sent + bytes) \in Seq(Nat)
      BY <3>2, SliceAppends
    <3>5. conn' \in Connections /\ conn'.wire = Slice(0, sent')
      BY <1>1, <3>3, <3>4, <3>1, WireUpdate
    <3>6. pc' = IF sent' < Total THEN "write" ELSE "read"
      BY <2>1 DEF Write
    <3>7. sent' \in 0..Total /\ (~(sent' < Total) => sent' = Total)
      BY <1>1, <3>1, <3>2
    <3>8. QED
      BY <3>5, <3>6, <3>7
  <2>2. CASE WriteStalls
    BY <1>1, <2>2 DEF WriteStalls
  <2>3. QED
    BY <2>1, <2>2
<1>3. /\ UNCHANGED <<received, fds, pinned, ended, last>>
      /\ Calls' = Calls /\ LeakedFds' = LeakedFds
      /\ stalled' \in BOOLEAN /\ (pc' = "write" => ~stalled')
  <2>1. UNCHANGED <<received, fds, pinned, ended, last>>
    BY DEF Write, WriteStalls
  <2>2. Calls' = Calls /\ LeakedFds' = LeakedFds
    BY <2>1 DEF Calls, LeakedFds
  <2>3. stalled' \in BOOLEAN /\ (pc' = "write" => ~stalled')
    <3>1. CASE Write
      BY <1>1, <3>1 DEF Write, IInv, TypeOK
    <3>2. CASE WriteStalls
      BY <3>2 DEF WriteStalls
    <3>3. QED
      BY <3>1, <3>2
  <2>4. QED
    BY <2>1, <2>2, <2>3
<1>4. TypeOK' /\ FdAccounting' /\ PinAccounting'
  BY <1>1, <1>2, <1>3 DEF IInv, TypeOK, FdAccounting, PinAccounting, HoldsSocket
<1>5. LoopInv' /\ WireIsPrefix' /\ SuccessMeansWritten' /\ SuccessMeansResponseFits'
  BY <1>1, <1>2, <1>3, NativePostAssumption
  DEF LoopInv, WireIsPrefix, SuccessMeansWritten, SuccessMeansResponseFits, Connected
<1>6. QED
  BY <1>4, <1>5 DEF IInv

(* The read loop: either the buffer keeps room, or the call ends with the   *)
(* exit for a response that does not fit.                                   *)
LEMMA ReadInv == IInv /\ Read => IInv'
<1> SUFFICES ASSUME IInv, Read PROVE IInv'
  OBVIOUS
<1>1. PICK bytes \in 1..conn.reply :
        /\ bytes <= ResponseCap - received
        /\ received' = received + bytes
        /\ conn' = [conn EXCEPT !.reply = @ - bytes]
  BY DEF Read
<1>2. /\ received \in Nat /\ conn \in Connections /\ ResponseCap \in Nat
      /\ pc = "read" /\ (~stalled => sent = Total)
      /\ conn.wire = Slice(0, sent)
  BY NativePostAssumption DEF IInv, TypeOK, Read, LoopInv, WireIsPrefix, Connected
<1>3. /\ received' \in 0..ResponseCap /\ conn' \in Connections
      /\ conn'.wire = conn.wire
      /\ UNCHANGED <<sent, fds, pinned, stalled>>
  <2>1. conn.reply \in Nat /\ conn.reply - bytes \in Nat
    BY <1>1, <1>2 DEF Connections
  <2>2. conn' \in Connections /\ conn'.wire = conn.wire
    BY <1>1, <1>2, <2>1, ReplyUpdate
  <2>3. received' \in 0..ResponseCap
    BY <1>1, <1>2, <2>1
  <2>4. QED
    BY <2>2, <2>3 DEF Read
<1>4. CASE received' < ResponseCap
  <2>1. UNCHANGED <<pc, ended, last>> /\ Calls' = Calls /\ LeakedFds' = LeakedFds
    BY <1>4 DEF Read, Calls, LeakedFds
  <2>2. TypeOK' /\ FdAccounting' /\ PinAccounting'
    BY <1>3, <2>1 DEF IInv, TypeOK, FdAccounting, PinAccounting, HoldsSocket
  <2>3. LoopInv' /\ WireIsPrefix' /\ SuccessMeansWritten' /\ SuccessMeansResponseFits'
    BY <1>2, <1>3, <1>4, <2>1
    DEF LoopInv, WireIsPrefix, SuccessMeansWritten, SuccessMeansResponseFits, Connected
  <2>4. QED
    BY <2>2, <2>3 DEF IInv
<1>5. CASE ~(received' < ResponseCap)
  <2>1. Return("tooLong") /\ "tooLong" \in Exits /\ "tooLong" \in Leaks
        /\ ended \in [Exits -> Nat]
    BY <1>5 DEF Read, Exits, Leaks, IInv, TypeOK
  <2>2. TypeOK' /\ FdAccounting' /\ PinAccounting'
    BY <1>2, <1>3, <2>1, ReturnCounts
    DEF IInv, TypeOK, FdAccounting, PinAccounting, HoldsSocket
  <2>3. LoopInv' /\ WireIsPrefix' /\ SuccessMeansWritten' /\ SuccessMeansResponseFits'
    BY <2>1, ReturnCounts
    DEF LoopInv, WireIsPrefix, SuccessMeansWritten, SuccessMeansResponseFits, Connected
  <2>4. QED
    BY <2>2, <2>3 DEF IInv
<1>6. QED
  BY <1>4, <1>5

(* The peer and the kernel change nothing but the connection.               *)
LEMMA NetworkInv == IInv /\ Network => IInv'
<1> SUFFICES ASSUME IInv, Network PROVE IInv'
  OBVIOUS
<1>1. /\ conn \in Connections /\ conn.wire = Slice(0, sent)
      /\ Connected /\ UNCHANGED <<pc, sent, received, fds, pinned, ended, last, stalled>>
  BY DEF Network, PeerAnswers, PeerCloses, ConnectionBreaks, IInv, TypeOK, WireIsPrefix
<1>2. conn' \in Connections /\ conn'.wire = conn.wire
  <2>1. CASE PeerAnswers
    <3>1. PICK k \in 1..(MaxReply - received - conn.reply) :
            conn' = [conn EXCEPT !.reply = @ + k]
      BY <2>1 DEF PeerAnswers
    <3>2. conn.reply + k \in Nat
      BY <1>1, <3>1 DEF Connections
    <3>3. QED
      BY <1>1, <3>1, <3>2, ReplyUpdate
  <2>2. CASE PeerCloses \/ ConnectionBreaks
    BY <1>1, <2>2, FlagUpdate DEF PeerCloses, ConnectionBreaks
  <2>3. QED
    BY <2>1, <2>2 DEF Network
<1>3. Calls' = Calls /\ LeakedFds' = LeakedFds
  BY <1>1 DEF Calls, LeakedFds
<1>4. TypeOK' /\ FdAccounting' /\ PinAccounting' /\ LoopInv'
  BY <1>1, <1>2, <1>3 DEF IInv, TypeOK, FdAccounting, PinAccounting, LoopInv, HoldsSocket
<1>5. WireIsPrefix' /\ SuccessMeansWritten' /\ SuccessMeansResponseFits'
  BY <1>1, <1>2
  DEF Connected, WireIsPrefix, SuccessMeansWritten, SuccessMeansResponseFits
<1>6. QED
  BY <1>4, <1>5 DEF IInv

-----------------------------------------------------------------------------
LEMMA NextInv == IInv /\ [Next]_vars => IInv'
<1> SUFFICES ASSUME IInv, [Next]_vars PROVE IInv'
  OBVIOUS
<1>1. CASE SocketFails \/ WriteFails \/ ReadFails
  <2>1. CASE SocketFails
    BY <2>1, FailingReturnInv
    DEF SocketFails, Failures, Exits, Leaks, HoldsSocket, IInv, TypeOK
  <2>2. CASE WriteFails
    BY <2>2, FailingReturnInv
    DEF WriteFails, Failures, Exits, Leaks, HoldsSocket, IInv, TypeOK
  <2>3. CASE ReadFails
    BY <2>3, FailingReturnInv
    DEF ReadFails, Failures, Exits, Leaks, HoldsSocket, IInv, TypeOK
  <2>4. QED
    BY <1>1, <2>1, <2>2, <2>3
<1>2. CASE UNCHANGED vars
  BY <1>2 DEF vars, IInv, TypeOK, FdAccounting, PinAccounting, LoopInv, WireIsPrefix,
    SuccessMeansWritten, SuccessMeansResponseFits, Calls, LeakedFds, HoldsSocket, Connected
<1>3. QED
  BY <1>1, <1>2, ClosingReturnInv, CallInv, OpenInv, WriteInv, ReadInv, NetworkInv,
    RestartInv
  DEF Next, Function

-----------------------------------------------------------------------------
(* send_http_post keeps its locals, its descriptors and its connection in   *)
(* their types over any number of calls.                                    *)
THEOREM TypeCorrect == Spec => []TypeOK
<1>1. IInv => TypeOK
  BY DEF IInv
<1>2. QED
  BY <1>1, InitInv, NextInv, PTL DEF Spec

(* Every open descriptor and every pinned string is accounted for by the    *)
(* exits taken so far: the leaks of lines 42, 59 and 68, and those of every *)
(* return before lines 77-78, add up exactly and never come back.           *)
THEOREM ResourceAccounting == Spec => []ResourcesAccounted
<1>1. IInv => ResourcesAccounted
  BY DEF IInv, ResourcesAccounted
<1>2. QED
  BY <1>1, InitInv, NextInv, PTL DEF Spec

(* What the kernel accepts of a request is a prefix of it, whatever the     *)
(* sizes of the writes.                                                     *)
THEOREM WireCorrect == Spec => []WireIsPrefix
<1>1. IInv => WireIsPrefix
  BY DEF IInv
<1>2. QED
  BY <1>1, InitInv, NextInv, PTL DEF Spec

(* JNI_TRUE is returned only for a request that was written to its end, or  *)
(* given up by a write of 0 bytes, and for a response that is shorter than  *)
(* its buffer.                                                              *)
THEOREM SuccessIsExchange == Spec => []SuccessMeansExchanged
<1>1. IInv => SuccessMeansExchanged
  BY DEF IInv, SuccessMeansExchanged
<1>2. QED
  BY <1>1, InitInv, NextInv, PTL DEF Spec

(* Once the leaks have used up every descriptor, every later call leaves    *)
(* through the failure of socket(), as long as the process lives.           *)
THEOREM Exhaustion == Spec => ExhaustionIsFinal
<1>1. IInv /\ Exhausted => fds = MaxFds /\ ~HoldsSocket /\ pc \in {"idle", "socket"}
  BY NativePostAssumption
  DEF IInv, TypeOK, FdAccounting, Exhausted, HoldsSocket
<1>2. ASSUME IInv, Exhausted, Next, ~Restart
      PROVE  Exhausted' /\ \A e \in Exits \ {"noSocket"} : ended'[e] = ended[e]
  <2>1. fds = MaxFds /\ pc \in {"idle", "socket"} /\ ended \in [Exits -> Nat]
    BY <1>1, <1>2 DEF IInv, TypeOK
  <2>2. ~OpenSocket
    BY <2>1, NativePostAssumption DEF OpenSocket
  <2>3. Call \/ SocketFails
    BY <1>2, <2>1, <2>2
    DEF Next, Function, Network, Connected, ConnectFails, Connect, Write, WriteStalls,
      WriteFails, Read, ReadFails, ReadEnds, PeerAnswers, PeerCloses, ConnectionBreaks
  <2>4. CASE Call
    BY <1>2, <2>4 DEF Call, Exhausted, LeakedFds
  <2>5. CASE SocketFails
    BY <1>2, <2>1, <2>5 DEF SocketFails, Return, Exhausted, LeakedFds, Exits
  <2>6. QED
    BY <2>3, <2>4, <2>5
<1>3. IInv /\ [Next]_vars =>
        [Exhausted /\ ~Restart =>
           Exhausted' /\ \A e \in Exits \ {"noSocket"} : ended'[e] = ended[e]]_vars
  BY <1>2 DEF vars
<1>4. QED
  BY <1>3, InitInv, NextInv, PTL DEF Spec, ExhaustionIsFinal

-----------------------------------------------------------------------------
(* The call inside its task: NativePosting, where the level                 *)
(* OBFUSCATED_NATIVE_NETWORK makes the calls and the other levels share the *)
(* descriptors.                                                             *)

(* SERIAL_EXECUTOR: one task at a time, in the order of the taps.           *)
SerialInv ==
  /\ submitted \in 0..MaxTasks
  /\ queue \in Seq(Java!Tasks) /\ active \subseteq Java!Tasks
  /\ \A t, u \in active : t = u
  /\ \A t \in active : t <= submitted /\ \A k \in DOMAIN queue : t < queue[k]
  /\ \A k \in DOMAIN queue : queue[k] <= submitted
  /\ \A j, k \in DOMAIN queue : j < k => queue[j] < queue[k]

Waits(t) == t > submitted \/ \E k \in DOMAIN queue : queue[k] = t

Exchanging == {"sending", "sent", "body"}

(* Nobody touches the stage of a task that waits, and a request of          *)
(* HttpURLConnection has a connection.                                      *)
StageInv ==
  /\ stage \in [Java!Tasks -> Java!Stages] /\ DOMAIN level = Java!Tasks
  /\ \A t \in Java!Tasks : Waits(t) => stage[t] = "prepare"
  /\ \A t \in active : stage[t] \in Exchanging => socket \in {"new", "recycled"}

(* How far the call has come is how far PostTask thinks it has.             *)
CallStage ==
  IF ~Connected THEN "prepare"
  ELSE IF sent = Total THEN "nativeSent" ELSE "native"

CallerInv ==
  /\ pc # "idle" => \E t \in active : InNative(t)
  /\ \A t \in active : InNative(t) => stage[t] = CallStage

(* The strings that the failed calls have left pinned. *)
PinsLost == 2 * (Calls - ended["success"])

SocketFds == IF socket = "none" THEN 0 ELSE 1

(* No level opens more than the process may have, and the descriptor of     *)
(* HttpURLConnection is never one of those that send_http_post holds.       *)
DescriptorsFit == fds + SocketFds <= MaxFds

PostingInv == IInv /\ SerialInv /\ StageInv /\ CallerInv /\ DescriptorsFit

-----------------------------------------------------------------------------
(* Every step of the composition is one of send_http_post or leaves it alone. *)
LEMMA StepOfCall == [PostingNext]_postingVars => [Next]_vars
<1> SUFFICES ASSUME [PostingNext]_postingVars PROVE [Next]_vars
  OBVIOUS
<1>1. CASE JavaStep \/ UNCHANGED postingVars
  BY <1>1 DEF JavaStep, postingVars, vars
<1>2. CASE PeerTurns \/ \E t \in Java!Tasks : NativeCalls(t) \/ Thread(t)
  BY <1>2 DEF NativeCalls, Thread, PeerTurns, NativeOpens, NativeConnects, NativeSends,
    NativeTurns, NativeReturns, SystemCall, Next, Function, Network
<1>3. CASE Die
  BY <1>3 DEF Die, Next
<1>4. QED
  BY <1>1, <1>2, <1>3 DEF PostingNext

(* The tasks of the application call send_http_post, and nothing else       *)
(* touches what it keeps: all that is proved of Spec holds of its calls     *)
(* inside the tasks.                                                        *)
THEOREM CallsAreCalls == PostingSpec => Spec
<1>1. PostingInit => Init
  BY DEF PostingInit
<1>2. QED
  BY <1>1, StepOfCall, PTL DEF PostingSpec, Spec

-----------------------------------------------------------------------------
(* The Java steps of a task, by what they do to the invariant.              *)
JavaWork(t) ==
  \/ Java!Prepare(t) \/ Java!OpenFile(t) \/ Java!OpenFileFails(t)
  \/ Java!Flush(t) \/ Java!ReadBack(t)
  \/ Java!ConnectFails(t) \/ Java!Connect(t) \/ Java!Sends(t)
  \/ Java!Resend(t) \/ Java!ConnectionBreaks(t)
  \/ Java!Respond(t) \/ Java!Refuse(t) \/ Java!ReadResponse(t)

Goes(t, s) ==
  /\ UNCHANGED taskVars /\ stage' = [stage EXCEPT ![t] = s]
  /\ socket' # "none" => socket # "none" \/ Java!SpareFd
  /\ s \in Exchanging => socket' \in {"new", "recycled"}

Ended(t) ==
  /\ UNCHANGED <<submitted, queue, stage>> /\ active' = active \ {t}
  /\ socket' # "none" => socket # "none"

LEMMA WorkEffect ==
  ASSUME PostingInv, NEW t \in Java!Tasks, JavaWork(t)
  PROVE  /\ t \in active /\ ~InNative(t) /\ UNCHANGED level
         /\ Ended(t) \/ \E s \in Java!Stages : Goes(t, s)
<1>1. t \in active
  BY DEF JavaWork, Java!Prepare, Java!OpenFile, Java!OpenFileFails, Java!Flush,
    Java!ReadBack, Java!ConnectFails, Java!Connect, Java!Sends, Java!Resend,
    Java!ConnectionBreaks, Java!Respond, Java!Refuse, Java!ReadResponse, Java!AtFile, Java!At
<1>2. ~InNative(t)
  <2>1. CASE Java!Prepare(t) \/ Java!OpenFile(t) \/ Java!OpenFileFails(t)
    BY <2>1 DEF InNative, Java!Prepare, Java!OpenFile, Java!OpenFileFails, Java!AtFile
  <2>2. CASE ~(Java!Prepare(t) \/ Java!OpenFile(t) \/ Java!OpenFileFails(t))
    <3>1. stage[t] \in {"flush", "readback", "connect", "sending", "sent", "body"}
      BY <2>2 DEF JavaWork, Java!Flush,
        Java!ReadBack, Java!ConnectFails, Java!Connect, Java!Sends, Java!Resend,
        Java!ConnectionBreaks, Java!Respond, Java!Refuse, Java!ReadResponse, Java!At
    <3>2. InNative(t) => stage[t] \in {"prepare", "native", "nativeSent"}
      BY <1>1 DEF PostingInv, CallerInv, CallStage
    <3>3. QED
      BY <3>1, <3>2
  <2>3. QED
    BY <2>1, <2>2
<1>3. QED
  <2>1. CASE \/ Java!ConnectFails(t) \/ Java!ConnectionBreaks(t)
             \/ Java!Refuse(t) \/ Java!ReadResponse(t)
    <3>1. UNCHANGED <<submitted, queue, stage, level>> /\ active' = active \ {t}
      BY <2>1 DEF Java!ConnectFails, Java!ConnectionBreaks, Java!Refuse, Java!ReadResponse,
        Java!Ends, Java!Finish
    <3>2. socket' # "none" => stage[t] \in Exchanging
      BY <2>1 DEF Java!ConnectFails, Java!ConnectionBreaks, Java!Refuse, Java!ReadResponse,
        Java!Ends, Java!At, Exchanging
    <3>3. QED
      BY <1>1, <1>2, <3>1, <3>2 DEF Ended, PostingInv, StageInv
  <2>2. CASE Java!Prepare(t) \/ Java!OpenFile(t) \/ Java!OpenFileFails(t)
             \/ Java!Flush(t) \/ Java!ReadBack(t)
    <3>1. PICK s \in {"connect", "flush", "readback"} : stage' = [stage EXCEPT ![t] = s]
      BY <2>2 DEF Java!Prepare, Java!OpenFile, Java!OpenFileFails, Java!Flush,
        Java!ReadBack, Java!GoTo
    <3>2. /\ stage[t] \in {"prepare", "flush", "readback"}
          /\ UNCHANGED taskVars /\ UNCHANGED socket /\ UNCHANGED level
      BY <2>2 DEF Java!Prepare, Java!OpenFile, Java!OpenFileFails, Java!Flush,
        Java!ReadBack, Java!AtFile, Java!At, Java!taskVars, taskVars
    <3>3. Goes(t, s) /\ s \in Java!Stages
      BY <3>1, <3>2 DEF Goes, Exchanging, Java!Stages
    <3>4. QED
      BY <1>1, <1>2, <3>2, <3>3
  <2>3. CASE Java!Connect(t) \/ Java!Resend(t)
    <3>1. PICK s \in {"sending", "connect"} : stage' = [stage EXCEPT ![t] = s]
            /\ (s = "sending" => Java!Connect(t)) /\ (s = "connect" => Java!Resend(t))
      BY <2>3 DEF Java!Connect, Java!Resend, Java!GoTo
    <3>2. /\ stage[t] \in {"connect", "sending", "sent"}
          /\ UNCHANGED taskVars /\ UNCHANGED level
      BY <2>3 DEF Java!Connect, Java!Resend, Java!At, Java!taskVars, taskVars
    <3>3. Goes(t, s) /\ s \in Java!Stages
      BY <2>3, <3>1, <3>2 DEF Goes, Exchanging, Java!Stages, Java!Connect, Java!Resend
    <3>4. QED
      BY <1>1, <1>2, <3>2, <3>3
  <2>4. CASE Java!Sends(t) \/ Java!Respond(t)
    <3>1. PICK s \in {"sent", "body"} : stage' = [stage EXCEPT ![t] = s]
      BY <2>4 DEF Java!Sends, Java!Respond, Java!GoTo
    <3>2. /\ stage[t] \in {"sending", "sent"}
          /\ UNCHANGED taskVars /\ UNCHANGED socket /\ UNCHANGED level
      BY <2>4 DEF Java!Sends, Java!Respond, Java!At, Java!taskVars, taskVars
    <3>3. socket \in {"new", "recycled"}
      BY <1>1, <3>2 DEF PostingInv, StageInv, Exchanging
    <3>4. Goes(t, s) /\ s \in Java!Stages
      BY <3>1, <3>2, <3>3 DEF Goes, Exchanging, Java!Stages
    <3>5. QED
      BY <1>1, <1>2, <3>2, <3>4
  <2>5. QED
    BY <2>1, <2>2, <2>3, <2>4 DEF JavaWork

(* The stage of one task changes. *)
LEMMA StageUpdate ==
  ASSUME StageInv, NEW t \in Java!Tasks, NEW s \in Java!Stages,
         stage' = [stage EXCEPT ![t] = s]
  PROVE  /\ stage' \in [Java!Tasks -> Java!Stages] /\ stage'[t] = s
         /\ \A u \in Java!Tasks \ {t} : stage'[u] = stage[u]
BY DEF StageInv

(* A task that runs has not waited since it was started.                    *)
LEMMA RunningWaitsNot ==
  ASSUME SerialInv, NEW t \in active
  PROVE  ~Waits(t)
<1>1. t \in Java!Tasks /\ submitted \in 0..MaxTasks /\ t <= submitted
  BY DEF SerialInv
<1>2. \A k \in DOMAIN queue : t < queue[k] /\ queue[k] \in Java!Tasks
  BY DEF SerialInv
<1>3. QED
  BY <1>1, <1>2, NativePostingAssumption DEF Waits, Java!Tasks

(* What a Java step of a task does keeps the invariant: no call runs.       *)
LEMMA WorkInv ==
  ASSUME PostingInv, NEW t \in Java!Tasks, JavaWork(t), UNCHANGED vars
  PROVE  PostingInv'
<1>1. /\ t \in active /\ ~InNative(t) /\ UNCHANGED level
      /\ Ended(t) \/ \E s \in Java!Stages : Goes(t, s)
  BY WorkEffect
<1>2. /\ IInv /\ SerialInv /\ StageInv /\ CallerInv /\ DescriptorsFit
      /\ active = {t} /\ pc = "idle" /\ submitted \in Nat
  BY <1>1, NativePostingAssumption DEF PostingInv, SerialInv, CallerInv
<1>3. IInv' /\ pc' = pc /\ fds' = fds /\ CallStage' = "prepare"
  BY <1>2, NextInv DEF vars, CallStage, Connected
<1>4. fds \in 0..MaxFds /\ MaxFds \in Nat
  BY <1>2, NativePostAssumption DEF IInv, TypeOK
<1>5. CASE Ended(t)
  <2>1. UNCHANGED <<submitted, queue, stage, level>> /\ active' = {}
    BY <1>1, <1>2, <1>5 DEF Ended
  <2>2. SerialInv' /\ StageInv' /\ CallerInv'
    BY <1>2, <1>3, <2>1 DEF SerialInv, StageInv, CallerInv, Waits, Java!Tasks
  <2>3. DescriptorsFit'
    BY <1>2, <1>3, <1>4, <1>5 DEF Ended, DescriptorsFit, SocketFds
  <2>4. QED
    BY <1>3, <2>2, <2>3 DEF PostingInv
<1>6. ASSUME NEW s \in Java!Stages, Goes(t, s) PROVE PostingInv'
  <2>1. UNCHANGED <<submitted, queue, active>>
    BY <1>6 DEF Goes, taskVars
  <2>2. SerialInv'
    BY <1>2, <2>1 DEF SerialInv, Java!Tasks
  <2>3. /\ stage' \in [Java!Tasks -> Java!Stages] /\ stage'[t] = s
        /\ \A u \in Java!Tasks \ {t} : stage'[u] = stage[u]
    BY <1>2, <1>6, StageUpdate DEF Goes
  <2>4. StageInv'
    <3>1. ~Waits(t)
      BY <1>2, RunningWaitsNot
    <3>2. \A u : Waits(u)' <=> Waits(u)
      BY <2>1 DEF Waits
    <3>3. \A u \in active' : stage'[u] \in Exchanging => socket' \in {"new", "recycled"}
      BY <1>2, <1>6, <2>1, <2>3 DEF Goes
    <3>4. QED
      BY <1>1, <1>2, <2>3, <3>1, <3>2, <3>3 DEF StageInv, Java!Tasks
  <2>5. CallerInv'
    BY <1>1, <1>2, <1>3, <2>1 DEF CallerInv, InNative
  <2>6. DescriptorsFit'
    BY <1>2, <1>3, <1>4, <1>6 DEF Goes, DescriptorsFit, SocketFds, Java!SpareFd
  <2>7. QED
    BY <1>3, <2>2, <2>4, <2>5, <2>6 DEF PostingInv
<1>7. QED
  BY <1>1, <1>5, <1>6

-----------------------------------------------------------------------------
(* The main thread, the executor and the idle connection.                   *)
LEMMA ClickInv ==
  ASSUME PostingInv, Java!PostClicks, UNCHANGED vars
  PROVE  PostingInv'
<1>1. IInv /\ SerialInv /\ StageInv /\ CallerInv /\ DescriptorsFit
  BY DEF PostingInv
<1>2. PICK l \in Buttons : Java!PostClick(l)
  BY DEF Java!PostClicks
<1>3. /\ submitted \in 0..MaxTasks /\ submitted < MaxTasks
      /\ submitted' = submitted + 1 /\ queue' = Append(queue, submitted + 1)
      /\ level' = [level EXCEPT ![submitted + 1] = l]
      /\ UNCHANGED active /\ UNCHANGED stage /\ UNCHANGED socket
      /\ queue \in Seq(Java!Tasks)
  BY <1>1, <1>2 DEF SerialInv, Java!PostClick, Java!Execute, Java!NewTask
<1>4. IInv' /\ pc' = pc /\ fds' = fds /\ CallStage' = CallStage
  BY <1>1, NextInv DEF vars, CallStage, Connected
<1>5. /\ submitted + 1 \in Java!Tasks /\ submitted' \in 0..MaxTasks
      /\ queue' \in Seq(Java!Tasks)
      /\ DOMAIN queue = 1..Len(queue) /\ DOMAIN queue' = 1..(Len(queue) + 1)
      /\ Len(queue) \in Nat
      /\ \A k \in DOMAIN queue : queue'[k] = queue[k]
      /\ queue'[Len(queue) + 1] = submitted + 1
  BY <1>3, NativePostingAssumption DEF Java!Tasks
<1>6. SerialInv'
  <2>1. \A k \in DOMAIN queue' : k \in DOMAIN queue \/ k = Len(queue) + 1
    BY <1>5
  <2>2. \A t \in active : t \in Java!Tasks /\ t < submitted + 1
    BY <1>1, <1>3, NativePostingAssumption DEF SerialInv, Java!Tasks
  <2>3. \A k \in DOMAIN queue : queue[k] \in Java!Tasks /\ queue[k] < submitted + 1
    BY <1>1, <1>3, <1>5, NativePostingAssumption DEF SerialInv, Java!Tasks
  <2>4. /\ \A t \in active' : t <= submitted' /\ \A k \in DOMAIN queue' : t < queue'[k]
        /\ \A k \in DOMAIN queue' : queue'[k] <= submitted'
    BY <1>1, <1>3, <1>5, <2>1, <2>2, <2>3, NativePostingAssumption DEF SerialInv, Java!Tasks
  <2>5. \A j, k \in DOMAIN queue' : j < k => queue'[j] < queue'[k]
    <3> SUFFICES ASSUME NEW j \in DOMAIN queue', NEW k \in DOMAIN queue', j < k
                 PROVE  queue'[j] < queue'[k]
      OBVIOUS
    <3>1. j \in DOMAIN queue
      BY <1>5
    <3>2. CASE k \in DOMAIN queue
      BY <1>1, <1>5, <3>1, <3>2 DEF SerialInv
    <3>3. CASE k = Len(queue) + 1
      BY <1>5, <2>3, <3>1, <3>3
    <3>4. QED
      BY <2>1, <3>2, <3>3
  <2>6. QED
    BY <1>1, <1>3, <1>5, <2>4, <2>5 DEF SerialInv
<1>7. StageInv'
  <2>1. ASSUME NEW t \in Java!Tasks, Waits(t)' PROVE Waits(t)
    <3>1. CASE t > submitted'
      BY <1>3, <3>1, NativePostingAssumption DEF Waits, Java!Tasks
    <3>2. ASSUME NEW k \in DOMAIN queue', queue'[k] = t PROVE Waits(t)
      <4>1. CASE k \in DOMAIN queue
        BY <1>5, <3>2, <4>1 DEF Waits
      <4>2. CASE k = Len(queue) + 1
        BY <1>3, <1>5, <3>2, <4>2 DEF Waits
      <4>3. QED
        BY <1>5, <3>2, <4>1, <4>2
    <3>3. QED
      BY <2>1, <3>1, <3>2 DEF Waits
  <2>2. QED
    BY <1>1, <1>3, <2>1 DEF StageInv, Java!Tasks, Java!Stages
<1>8. CallerInv'
  <2>1. ASSUME NEW t \in active PROVE InNative(t)' <=> InNative(t)
    <3>1. t \in DOMAIN level /\ t # submitted + 1
      BY <1>1, <1>3, <2>1, NativePostingAssumption DEF SerialInv, StageInv, Java!Tasks
    <3>2. QED
      BY <1>3, <3>1 DEF InNative
  <2>2. QED
    BY <1>1, <1>3, <1>4, <2>1 DEF CallerInv
<1>9. DescriptorsFit'
  BY <1>1, <1>3, <1>4 DEF DescriptorsFit, SocketFds
<1>10. QED
  BY <1>4, <1>6, <1>7, <1>8, <1>9 DEF PostingInv

LEMMA StartInv ==
  ASSUME PostingInv, Java!StartPost, UNCHANGED vars
  PROVE  PostingInv'
<1>1. IInv /\ SerialInv /\ StageInv /\ CallerInv /\ DescriptorsFit
  BY DEF PostingInv
<1>2. /\ active = {} /\ queue # << >> /\ queue \in Seq(Java!Tasks)
      /\ active' = {Head(queue)} /\ queue' = Tail(queue)
      /\ UNCHANGED submitted /\ UNCHANGED stage /\ UNCHANGED socket /\ UNCHANGED level
  BY <1>1 DEF SerialInv, Java!StartPost, Java!Start, Java!postVars
<1>3. pc = "idle" /\ IInv' /\ pc' = pc /\ fds' = fds /\ CallStage' = "prepare"
  BY <1>1, <1>2, NextInv DEF CallerInv, vars, CallStage, Connected
<1>4. /\ DOMAIN queue = 1..Len(queue) /\ Len(queue) \in Nat /\ 1 \in DOMAIN queue
      /\ Head(queue) = queue[1] /\ queue' \in Seq(Java!Tasks)
      /\ DOMAIN queue' = 1..(Len(queue) - 1)
      /\ \A k \in DOMAIN queue' : k + 1 \in DOMAIN queue /\ queue'[k] = queue[k + 1]
  BY <1>2
<1>5. SerialInv'
  BY <1>1, <1>2, <1>4 DEF SerialInv
<1>6. \A t : Waits(t)' => Waits(t)
  BY <1>2, <1>4 DEF Waits
<1>7. stage[queue[1]] = "prepare"
  BY <1>1, <1>2, <1>4 DEF StageInv, Waits
<1>8. StageInv' /\ CallerInv'
  BY <1>1, <1>2, <1>3, <1>4, <1>6, <1>7
  DEF StageInv, CallerInv, Exchanging, Java!Tasks, Java!Stages
<1>9. DescriptorsFit'
  BY <1>1, <1>2, <1>3 DEF DescriptorsFit, SocketFds
<1>10. QED
  BY <1>3, <1>5, <1>8, <1>9 DEF PostingInv

LEMMA IdleInv ==
  ASSUME PostingInv, UNCHANGED vars,
         Java!Toast \/ Java!Evict \/ Java!Arrives \/ UNCHANGED javaVars
  PROVE  PostingInv'
<1>1. IInv /\ SerialInv /\ StageInv /\ CallerInv /\ DescriptorsFit
  BY DEF PostingInv
<1>2. /\ UNCHANGED submitted /\ UNCHANGED queue /\ UNCHANGED active
      /\ UNCHANGED stage /\ UNCHANGED level
      /\ UNCHANGED socket \/ (socket = "idle" /\ socket' = "none")
  <2>1. CASE Java!Toast
    BY <2>1 DEF Java!Toast, Java!HandleResult, Java!postVars
  <2>2. CASE Java!Evict \/ Java!Arrives
    BY <2>2 DEF Java!Evict, Java!Arrives, Java!taskVars
  <2>3. CASE UNCHANGED javaVars
    BY <2>3 DEF javaVars, taskVars
  <2>4. QED
    BY <2>1, <2>2, <2>3
<1>3. IInv' /\ pc' = pc /\ fds' = fds /\ CallStage' = CallStage
  BY <1>1, NextInv DEF vars, CallStage, Connected
<1>4. SerialInv' /\ StageInv' /\ CallerInv'
  BY <1>1, <1>2, <1>3
  DEF SerialInv, StageInv, CallerInv, InNative, Waits, Java!Tasks, Java!Stages
<1>5. DescriptorsFit'
  BY <1>1, <1>2, <1>3, NativePostAssumption DEF DescriptorsFit, SocketFds, IInv, TypeOK
<1>6. QED
  BY <1>3, <1>4, <1>5 DEF PostingInv

-----------------------------------------------------------------------------
(* The system calls.  What a turn of a loop changes, and what an exit.      *)
LEMMA TurnEffect ==
  ASSUME IInv, SystemCall, pc' # "idle"
  PROVE  /\ fds' = fds /\ LeakedFds' = LeakedFds /\ PinsLost' = PinsLost
         /\ ~Completes => CallStage' = CallStage
<1>1. /\ ended' = ended /\ fds' = fds /\ Connected /\ Connected'
      /\ Write \/ UNCHANGED sent
  BY DEF SystemCall, SocketFails, ConnectFails, Write, WriteStalls, WriteFails, Read,
    ReadFails, ReadEnds, Return, Connected
<1>2. Write /\ ~Completes => sent' # Total /\ sent # Total
  <2>1. Write => sent < Total /\ sent \in Nat /\ Total \in Nat
    BY NativePostAssumption DEF Write, IInv, TypeOK, LoopInv
  <2>2. QED
    BY <2>1 DEF Completes
<1>3. QED
  BY <1>1, <1>2 DEF LeakedFds, PinsLost, Calls, CallStage

LEMMA ExitEffect ==
  ASSUME IInv, SystemCall, pc' = "idle"
  PROVE  \/ /\ pc \in {"socket", "connect"} /\ last' # "success"
            /\ LeakedFds' = LeakedFds /\ PinsLost' = PinsLost + 2
         \/ /\ Connected /\ last' # "success"
            /\ LeakedFds' = LeakedFds + 1 /\ PinsLost' = PinsLost + 2
         \/ /\ Connected /\ last' = "success"
            /\ LeakedFds' = LeakedFds /\ PinsLost' = PinsLost
<1>1. ended \in [Exits -> Nat]
  BY DEF IInv, TypeOK
<1>2. CASE SocketFails \/ ConnectFails
  <2>1. PICK exit \in {"noSocket", "noConnect"} : Return(exit)
    BY <1>2 DEF SocketFails, ConnectFails
  <2>2. exit \in Exits /\ exit \notin Leaks /\ exit # "success"
    BY <2>1 DEF Exits, Leaks
  <2>3. LeakedFds' = LeakedFds /\ PinsLost' = PinsLost + 2 /\ last' = exit
    BY <1>1, <2>1, <2>2, ReturnCounts DEF PinsLost
  <2>4. QED
    BY <1>2, <2>2, <2>3 DEF SocketFails, ConnectFails
<1>3. CASE WriteFails \/ Read \/ ReadFails
  <2>1. PICK exit \in Leaks : Return(exit)
    BY <1>3 DEF WriteFails, Read, ReadFails, Leaks
  <2>2. exit \in Exits /\ exit # "success"
    BY <2>1 DEF Exits, Leaks
  <2>3. LeakedFds' = LeakedFds + 1 /\ PinsLost' = PinsLost + 2 /\ last' = exit
    BY <1>1, <2>1, <2>2, ReturnCounts DEF PinsLost
  <2>4. QED
    BY <1>3, <2>2, <2>3 DEF WriteFails, Read, ReadFails, Connected
<1>4. CASE ReadEnds
  <2>1. Return("success") /\ "success" \in Exits /\ "success" \notin Leaks
    BY <1>4 DEF ReadEnds, Exits, Leaks
  <2>2. LeakedFds' = LeakedFds /\ PinsLost' = PinsLost /\ last' = "success"
    BY <1>1, <2>1, ReturnCounts DEF PinsLost
  <2>3. QED
    BY <1>4, <2>2 DEF ReadEnds, Connected
<1>5. QED
  BY <1>2, <1>3, <1>4 DEF SystemCall, Write, WriteStalls

(* What the peer does is seen by the connection alone.                      *)
LEMMA PeerEffect ==
  ASSUME Network
  PROVE  /\ fds' = fds /\ LeakedFds' = LeakedFds /\ PinsLost' = PinsLost
         /\ pc # "idle" /\ CallStage' = CallStage
<1>1. Connected /\ UNCHANGED <<pc, sent, fds, ended>>
  BY DEF Network, PeerAnswers, PeerCloses, ConnectionBreaks
<1>2. QED
  BY <1>1 DEF LeakedFds, PinsLost, Calls, CallStage, Connected

-----------------------------------------------------------------------------
(* A step inside the call that Java does not see ...                        *)
LEMMA UnseenInv ==
  ASSUME PostingInv, IInv', UNCHANGED javaVars, NEW t \in active, InNative(t),
         CallStage' = CallStage, fds' + SocketFds <= MaxFds
  PROVE  PostingInv'
<1>1. SerialInv /\ StageInv /\ CallerInv
  BY DEF PostingInv
<1>2. /\ UNCHANGED submitted /\ UNCHANGED queue /\ UNCHANGED active
      /\ UNCHANGED stage /\ UNCHANGED level /\ UNCHANGED socket
  BY DEF javaVars, taskVars
<1>3. SerialInv' /\ StageInv' /\ DescriptorsFit'
  BY <1>1, <1>2
  DEF SerialInv, StageInv, Waits, Java!Tasks, Java!Stages, DescriptorsFit, SocketFds
<1>4. CallerInv'
  BY <1>1, <1>2 DEF CallerInv, InNative
<1>5. QED
  BY <1>3, <1>4 DEF PostingInv

(* ... one that it sees ...                                                 *)
LEMMA SeenInv ==
  ASSUME PostingInv, IInv', NEW t \in active, InNative(t),
         stage' = [stage EXCEPT ![t] = CallStage'], CallStage' \in {"native", "nativeSent"},
         UNCHANGED taskVars, UNCHANGED level, UNCHANGED socket, fds' = fds
  PROVE  PostingInv'
<1>1. SerialInv /\ StageInv /\ CallerInv /\ DescriptorsFit
  BY DEF PostingInv
<1>2. UNCHANGED submitted /\ UNCHANGED queue /\ UNCHANGED active
  BY DEF taskVars
<1>3. t \in Java!Tasks /\ active = {t} /\ ~Waits(t) /\ CallStage' \in Java!Stages
  BY <1>1, RunningWaitsNot DEF SerialInv, Java!Stages
<1>4. /\ stage' \in [Java!Tasks -> Java!Stages] /\ stage'[t] = CallStage'
      /\ \A u \in Java!Tasks \ {t} : stage'[u] = stage[u]
  BY <1>1, <1>3, StageUpdate
<1>5. SerialInv' /\ DescriptorsFit'
  BY <1>1, <1>2 DEF SerialInv, Java!Tasks, DescriptorsFit, SocketFds
<1>6. StageInv'
  <2>1. \A u : Waits(u)' <=> Waits(u)
    BY <1>2 DEF Waits
  <2>2. \A u \in active' : stage'[u] \notin Exchanging
    BY <1>2, <1>3, <1>4 DEF Exchanging
  <2>3. QED
    BY <1>1, <1>3, <1>4, <2>1, <2>2 DEF StageInv, Java!Tasks, Java!Stages
<1>7. CallerInv'
  BY <1>2, <1>3, <1>4 DEF CallerInv, InNative
<1>8. QED
  BY <1>5, <1>6, <1>7 DEF PostingInv

(* ... and the end of the call and of its task.                             *)
LEMMA ReturnInv ==
  ASSUME PostingInv, NEW t \in Java!Tasks, NativeReturns(t)
  PROVE  PostingInv'
<1>1. IInv /\ SerialInv /\ StageInv /\ CallerInv /\ DescriptorsFit
  BY DEF PostingInv
<1>2. /\ UNCHANGED submitted /\ UNCHANGED queue /\ active' = {} /\ pc' = "idle"
      /\ UNCHANGED stage /\ UNCHANGED level /\ UNCHANGED socket
  BY <1>1 DEF NativeReturns, InNative, SerialInv, Java!Finish
<1>3. IInv' /\ fds' <= fds /\ fds' \in Nat /\ fds \in Nat /\ MaxFds \in Nat
  <2>1. fds' = fds \/ fds' = fds - 1
    BY DEF NativeReturns, SystemCall, SocketFails, ConnectFails, Write, WriteStalls,
      WriteFails, Read, ReadFails, ReadEnds
  <2>2. IInv'
    BY <1>1, NextInv DEF NativeReturns, SystemCall, Next, Function
  <2>3. QED
    BY <1>1, <2>1, <2>2, NativePostAssumption DEF IInv, TypeOK
<1>4. SerialInv' /\ StageInv' /\ CallerInv'
  BY <1>1, <1>2 DEF SerialInv, StageInv, CallerInv, Waits, Java!Tasks, Java!Stages
<1>5. DescriptorsFit'
  <2>1. SocketFds' = SocketFds /\ SocketFds \in Nat
    BY <1>2 DEF SocketFds
  <2>2. fds + SocketFds <= MaxFds
    BY <1>1 DEF DescriptorsFit
  <2>3. fds' + SocketFds <= MaxFds
    <3>1. \A a, b, s, m \in Nat : a <= b /\ b + s <= m => a + s <= m
      OBVIOUS
    <3>2. fds' \in Nat /\ fds \in Nat /\ SocketFds \in Nat /\ MaxFds \in Nat /\ fds' <= fds
      BY <1>3, <2>1
    <3>3. QED
      BY <2>2, <3>1, <3>2
  <2>4. QED
    BY <2>1, <2>3 DEF DescriptorsFit
<1>6. QED
  BY <1>3, <1>4, <1>5 DEF PostingInv

LEMMA NativeInv ==
  ASSUME PostingInv, NEW t \in Java!Tasks,
         NativeCalls(t) \/ Thread(t)
  PROVE  PostingInv'
<1>1. IInv /\ t \in active /\ InNative(t) /\ fds \in Nat /\ fds + SocketFds <= MaxFds
  BY DEF PostingInv, NativeCalls, Thread, NativeOpens, NativeConnects, NativeSends,
    NativeTurns, NativeReturns, InNative, DescriptorsFit, IInv, TypeOK
<1>2. IInv'
  BY <1>1, NextInv, StepOfCall DEF PostingNext
<1>3. CASE NativeCalls(t)
  <2>1. CallStage' = CallStage /\ fds' = fds /\ UNCHANGED javaVars
    BY <1>3 DEF NativeCalls, Call, CallStage, Connected
  <2>2. QED
    BY <1>1, <1>2, <2>1, UnseenInv
<1>4. CASE NativeOpens(t)
  <2>1. CallStage' = CallStage /\ fds' = fds + 1 /\ UNCHANGED javaVars
    BY <1>4 DEF NativeOpens, OpenSocket, CallStage, Connected
  <2>2. fds' + SocketFds <= MaxFds
    BY <1>1, <1>4, <2>1, NativePostAssumption DEF NativeOpens, Java!SpareFd, SocketFds
  <2>3. QED
    BY <1>1, <1>2, <2>1, <2>2, UnseenInv
<1>5. CASE NativeTurns(t)
  <2>1. CallStage' = CallStage /\ fds' = fds /\ UNCHANGED javaVars
    BY <1>1, <1>5, TurnEffect DEF NativeTurns
  <2>2. QED
    BY <1>1, <1>2, <2>1, UnseenInv
<1>6. CASE NativeConnects(t)
  <2>1. CallStage' = "native" /\ fds' = fds
    BY <1>1, <1>6, NativePostAssumption
    DEF NativeConnects, Connect, CallStage, Connected, IInv, LoopInv
  <2>2. QED
    BY <1>1, <1>2, <1>6, <2>1, SeenInv DEF NativeConnects, Java!GoTo
<1>7. CASE NativeSends(t)
  <2>1. CallStage' = "nativeSent" /\ fds' = fds
    BY <1>7 DEF NativeSends, Completes, Write, CallStage, Connected
  <2>2. QED
    BY <1>1, <1>2, <1>7, <2>1, SeenInv DEF NativeSends, Java!GoTo
<1>8. QED
  BY <1>3, <1>4, <1>5, <1>6, <1>7, ReturnInv DEF Thread

LEMMA PeerInv == PostingInv /\ PeerTurns => PostingInv'
<1> SUFFICES ASSUME PostingInv, PeerTurns PROVE PostingInv'
  OBVIOUS
<1>1. /\ IInv /\ Network /\ UNCHANGED javaVars /\ fds + SocketFds <= MaxFds
      /\ fds' = fds /\ pc # "idle" /\ CallStage' = CallStage
  BY PeerEffect DEF PeerTurns, PostingInv, DescriptorsFit
<1>2. PICK t \in active : InNative(t)
  BY <1>1 DEF PostingInv, CallerInv
<1>3. IInv'
  BY <1>1, NetworkInv
<1>4. QED
  BY <1>1, <1>2, <1>3, UnseenInv

LEMMA PostingInitInv == PostingInit => PostingInv
<1> SUFFICES ASSUME PostingInit PROVE PostingInv
  OBVIOUS
<1>1. IInv
  BY InitInv DEF PostingInit
<1>2. /\ submitted = 0 /\ queue = << >> /\ active = {} /\ socket = "none" /\ fds = 0
      /\ pc = "idle" /\ stage = [t \in Java!Tasks |-> "prepare"] /\ DOMAIN level = Java!Tasks
  BY DEF PostingInit, Init, Java!Init, Java!InitTasks, Java!InitPost
<1>3. QED
  BY <1>1, <1>2, NativePostingAssumption, NativePostAssumption
  DEF PostingInv, SerialInv, StageInv, CallerInv, DescriptorsFit, SocketFds, Waits, Java!Stages

(* A death ends the call with its task and closes all that was open. *)
LEMMA DieInv == PostingInv /\ Die => PostingInv'
<1> SUFFICES ASSUME PostingInv, Die PROVE PostingInv'
  OBVIOUS
<1>1. SerialInv /\ StageInv
  BY DEF PostingInv
<1>2. /\ UNCHANGED submitted /\ queue' = << >> /\ active' = {} /\ socket' = "none"
      /\ UNCHANGED stage /\ UNCHANGED level /\ fds' = 0 /\ pc' = "idle"
  BY DEF Die, Restart, Java!Kill, Java!KillTasks
<1>3. IInv'
  BY RestartInv DEF Die
<1>4. SerialInv' /\ CallerInv'
  BY <1>1, <1>2 DEF SerialInv, CallerInv, Java!Tasks
<1>5. StageInv'
  BY <1>1, <1>2 DEF StageInv, Waits, Java!Tasks, Java!Stages
<1>6. DescriptorsFit'
  BY <1>2, NativePostAssumption DEF DescriptorsFit, SocketFds
<1>7. QED
  BY <1>3, <1>4, <1>5, <1>6 DEF PostingInv

LEMMA PostingNextInv == PostingInv /\ [PostingNext]_postingVars => PostingInv'
<1> SUFFICES ASSUME PostingInv, [PostingNext]_postingVars PROVE PostingInv'
  OBVIOUS
<1>1. CASE JavaStep
  BY <1>1, ClickInv, StartInv, IdleInv, WorkInv DEF JavaStep, JavaWork
<1>2. CASE UNCHANGED postingVars
  BY <1>2, IdleInv DEF postingVars
<1>3. QED
  BY <1>1, <1>2, NativeInv, PeerInv, DieInv DEF PostingNext

(* The functions of the file count whole strings. *)
StringsInv == PostingInv /\ fileStrings \in Nat

LEMMA StringsInit == PostingInit => StringsInv
BY PostingInitInv DEF PostingInit, Java!Init, Java!InitPost, StringsInv

LEMMA StringsNext == StringsInv /\ [PostingNext]_postingVars => StringsInv'
<1> SUFFICES ASSUME StringsInv, [PostingNext]_postingVars PROVE StringsInv'
  OBVIOUS
<1>1. CASE JavaStep \/ UNCHANGED postingVars
  <2>1. \/ UNCHANGED fileStrings
        \/ \E n \in {0, 1, 2} : fileStrings' = fileStrings + n
    BY <1>1 DEF postingVars, javaVars, JavaStep, Java!PostClicks, Java!PostClick, Java!Toast,
      Java!StartPost, Java!Evict, Java!Arrives, Java!postVars, Java!Prepare, Java!OpenFile,
      Java!OpenFileFails, Java!Flush, Java!ReadBack, Java!ConnectFails, Java!Connect,
      Java!Sends, Java!Resend, Java!ConnectionBreaks, Java!Respond, Java!Refuse,
      Java!ReadResponse, Java!Ends
  <2>2. QED
    BY <2>1, PostingNextInv DEF StringsInv
<1>2. CASE PeerTurns \/ Die \/ \E t \in Java!Tasks : NativeCalls(t) \/ Thread(t)
  <2>1. UNCHANGED fileStrings \/ fileStrings' = 0
    BY <1>2 DEF PeerTurns, Die, Java!Kill, NativeCalls, Thread, NativeOpens, NativeConnects,
      NativeSends, NativeTurns, NativeReturns, javaVars
  <2>2. QED
    BY <2>1, PostingNextInv DEF StringsInv
<1>3. QED
  BY <1>1, <1>2 DEF PostingNext

-----------------------------------------------------------------------------
(* The refinement.  Every step is one of PostTask, whose `leaked` counts    *)
(* what send_http_post has lost, and whose `unreleased` its strings too;    *)
(* the steps of Java are those of PostTask with a descriptor less to spare  *)
(* while a call holds its own.                                              *)
LEMMA JavaStepMaps ==
  ASSUME StringsInv, JavaStep
  PROVE  Abstract!Next
<1>1. /\ LeakedFds' = LeakedFds /\ LeakedFds \in Nat
      /\ Calls' = Calls /\ ended' = ended /\ Calls \in Nat /\ ended["success"] \in Nat
      /\ PostingInv /\ fileStrings \in Nat
  <2>1. ended \in [Exits -> Nat]
    BY DEF StringsInv, PostingInv, IInv, TypeOK
  <2>2. QED
    BY <2>1 DEF JavaStep, vars, LeakedFds, Calls, Exits, StringsInv
<1>2. Java!SpareFd => Abstract!SpareFd
  <2>1. LeakedFds <= fds /\ fds \in Nat /\ MaxFds \in Nat
    BY <1>1, NativePostAssumption DEF PostingInv, IInv, TypeOK, FdAccounting
  <2>2. QED
    BY <1>1, <2>1 DEF Java!SpareFd, Abstract!SpareFd
<1>3. /\ Java!taskVars' = Java!taskVars => Abstract!taskVars' = Abstract!taskVars
      /\ Java!netVars' = Java!netVars => Abstract!netVars' = Abstract!netVars
      /\ Java!deathVars' = Java!deathVars => Abstract!deathVars' = Abstract!deathVars
      /\ Java!postVars' = Java!postVars => Abstract!postVars' = Abstract!postVars
      /\ LeakedFds' = LeakedFds /\ Calls' = Calls /\ ended' = ended
      /\ \A n \in {0, 1, 2} :
           fileStrings' = fileStrings + n
             => fileStrings' + 2 * (Calls' - ended'["success"])
                  = fileStrings + 2 * (Calls - ended["success"]) + n
  <2>1. \A n \in {0, 1, 2} :
          fileStrings' = fileStrings + n
            => fileStrings' + 2 * (Calls' - ended'["success"])
                 = fileStrings + 2 * (Calls - ended["success"]) + n
    BY <1>1
  <2>2. QED
    BY <1>1, <2>1 DEF Java!taskVars, Java!netVars, Java!deathVars, Java!postVars,
      Abstract!taskVars, Abstract!netVars, Abstract!deathVars, Abstract!postVars
<1>4. CASE Java!PostClicks
  BY <1>3, <1>4 DEF Java!PostClicks, Java!PostClick, Java!Execute, Java!NewTask,
    Abstract!PostClicks, Abstract!PostClick, Abstract!Execute, Abstract!NewTask, Abstract!Next
<1>5. CASE Java!Toast
  BY <1>3, <1>5 DEF Java!Toast, Java!HandleResult, Java!IsPost, Java!Message,
    Abstract!Toast, Abstract!HandleResult, Abstract!IsPost, Abstract!Message, Abstract!Next
<1>6. CASE Java!StartPost
  BY <1>3, <1>6 DEF Java!StartPost, Java!Start,
    Abstract!StartPost, Abstract!Start, Abstract!Next
<1>7. CASE Java!Evict \/ Java!Arrives
  BY <1>3, <1>7 DEF Java!Evict, Java!Arrives, Java!InFlight, Abstract!Evict,
    Abstract!Arrives, Abstract!InFlight, Abstract!Next
<1>8. ASSUME NEW t \in Java!Tasks, JavaWork(t)
      PROVE  Abstract!Local(t) \/ Abstract!Remote(t)
  <2>1. CASE Java!Prepare(t)
    BY <1>3, <2>1 DEF Java!Prepare, Java!At, Java!IsPost, Java!GoTo, Java!Wanted,
      Java!Content, Java!Text, Java!EncodingTrick,
      Abstract!Prepare, Abstract!At, Abstract!IsPost, Abstract!GoTo, Abstract!Wanted,
      Abstract!Content, Abstract!Text, Abstract!EncodingTrick,
      Abstract!Local
  <2>2. CASE Java!OpenFile(t)
    BY <1>2, <1>3, <2>2 DEF Java!OpenFile, Java!AtFile, Java!At, Java!IsPost, Java!GoTo,
      Java!Empty, Java!Text,
      Abstract!OpenFile, Abstract!AtFile, Abstract!At, Abstract!IsPost, Abstract!GoTo,
      Abstract!Empty, Abstract!Text, Abstract!Local
  <2>3. CASE Java!OpenFileFails(t)
    BY <1>3, <2>3 DEF Java!OpenFileFails, Java!AtFile, Java!At, Java!IsPost, Java!GoTo,
      Abstract!OpenFileFails, Abstract!AtFile, Abstract!At, Abstract!IsPost, Abstract!GoTo,
      Abstract!Local
  <2>4. CASE Java!Flush(t)
    BY <1>3, <2>4 DEF Java!Flush, Java!At, Java!IsPost, Java!GoTo, Java!Text,
      Abstract!Flush, Abstract!At, Abstract!IsPost, Abstract!GoTo, Abstract!Text, Abstract!Local
  <2>5. CASE Java!ReadBack(t)
    BY <1>2, <1>3, <2>5 DEF Java!ReadBack, Java!At, Java!IsPost, Java!GoTo, Java!Text,
      Abstract!ReadBack, Abstract!At, Abstract!IsPost, Abstract!GoTo, Abstract!Text,
      Abstract!Local
  <2>6. CASE Java!ConnectFails(t)
    BY <1>3, <2>6 DEF Java!ConnectFails, Java!At, Java!IsPost, Java!Ends, Java!Finish,
      Java!Result, Abstract!ConnectFails, Abstract!At, Abstract!IsPost, Abstract!Ends,
      Abstract!Finish, Abstract!Result, Abstract!Local
  <2>7. CASE Java!Connect(t)
    BY <1>2, <1>3, <2>7 DEF Java!Connect, Java!At, Java!IsPost, Java!GoTo,
      Abstract!Connect, Abstract!At, Abstract!IsPost, Abstract!GoTo,
      Abstract!Local
  <2>8. CASE Java!Sends(t)
    BY <1>3, <2>8 DEF Java!Sends, Java!At, Java!IsPost, Java!GoTo, Java!HandOver,
      Abstract!Sends, Abstract!At, Abstract!IsPost, Abstract!GoTo, Abstract!HandOver,
      Abstract!Local
  <2>9. CASE Java!Resend(t)
    BY <1>3, <2>9 DEF Java!Resend, Java!At, Java!IsPost, Java!GoTo,
      Abstract!Resend, Abstract!At, Abstract!IsPost, Abstract!GoTo,
      Abstract!Remote
  <2>10. CASE Java!ConnectionBreaks(t)
    BY <1>3, <2>10 DEF Java!ConnectionBreaks, Java!At, Java!IsPost, Java!Ends, Java!Finish,
      Java!Result, Abstract!ConnectionBreaks, Abstract!At, Abstract!IsPost, Abstract!Ends,
      Abstract!Finish, Abstract!Result, Abstract!Remote
  <2>11. CASE Java!Respond(t)
    BY <1>3, <2>11 DEF Java!Respond, Java!Arrived, Java!At, Java!IsPost, Java!GoTo,
      Abstract!Respond, Abstract!Arrived, Abstract!At, Abstract!IsPost, Abstract!GoTo,
      Abstract!Remote
  <2>12. CASE Java!Refuse(t) \/ Java!ReadResponse(t)
    BY <1>3, <2>12 DEF Java!Refuse, Java!ReadResponse, Java!At, Java!IsPost, Java!Ends,
      Java!Finish, Java!Result, Abstract!Refuse, Abstract!ReadResponse, Abstract!At,
      Abstract!IsPost, Abstract!Ends, Abstract!Finish, Abstract!Result,
      Abstract!Local, Abstract!Remote
  <2>13. QED
    BY <1>8, <2>1, <2>2, <2>3, <2>4, <2>5, <2>6, <2>7, <2>8, <2>9, <2>10, <2>11, <2>12
    DEF JavaWork
<1>9. QED
  BY <1>4, <1>5, <1>6, <1>7, <1>8
  DEF JavaStep, JavaWork, Abstract!Next, Abstract!PostBody, Java!Tasks, Abstract!Tasks

(* The task that calls is where PostTask has it.                            *)
LEMMA CallerAt ==
  ASSUME PostingInv, NEW t, InNative(t)
  PROVE  /\ ~Connected => Abstract!AtNative(t)
         /\ Connected /\ sent # Total => Abstract!At(t, "native")
         /\ Connected => Abstract!InCall(t)
<1>1. t \in active /\ level[t] = "OBFUSCATED_NATIVE_NETWORK" /\ stage[t] = CallStage
  BY DEF PostingInv, CallerInv, InNative
<1>2. QED
  BY <1>1 DEF CallStage, Abstract!AtNative, Abstract!InCall, Abstract!At, Abstract!IsPost

(* A step that neither Java nor the count of lost descriptors shows.        *)
LEMMA UnseenMaps ==
  ASSUME UNCHANGED javaVars, LeakedFds' = LeakedFds, PinsLost' = PinsLost
  PROVE  UNCHANGED Abstract!vars
BY DEF javaVars, taskVars, netVars, deathVars, PinsLost, Abstract!vars, Abstract!taskVars,
  Abstract!postVars, Abstract!netVars, Abstract!deathVars

LEMMA NativeMaps ==
  ASSUME StringsInv, NEW t \in Java!Tasks, NativeCalls(t) \/ Thread(t)
  PROVE  [Abstract!Next]_Abstract!vars
<1>1. /\ IInv /\ PostingInv /\ InNative(t) /\ LeakedFds \in Nat /\ fds + SocketFds <= MaxFds
      /\ fileStrings \in Nat /\ PinsLost \in Int /\ PinsLost' \in Int
  <2>1. IInv /\ IInv' /\ PostingInv /\ InNative(t) /\ fileStrings \in Nat
    BY PostingNextInv
    DEF PostingNext, StringsInv, PostingInv, NativeCalls, Thread, NativeOpens, NativeConnects,
      NativeSends, NativeTurns, NativeReturns
  <2>2. PinsLost \in Int /\ PinsLost' \in Int /\ LeakedFds \in Nat
    BY <2>1 DEF IInv, TypeOK, PinsLost, Calls, LeakedFds, Exits
  <2>3. QED
    BY <2>1, <2>2 DEF PostingInv, DescriptorsFit
<1>2. CASE NativeCalls(t) \/ NativeOpens(t) \/ NativeTurns(t)
  <2>1. UNCHANGED javaVars
    BY <1>2 DEF NativeCalls, NativeOpens, NativeTurns
  <2>2. LeakedFds' = LeakedFds /\ PinsLost' = PinsLost
    BY <1>1, <1>2, TurnEffect
    DEF NativeCalls, NativeOpens, NativeTurns, Call, OpenSocket, LeakedFds, PinsLost, Calls
  <2>3. QED
    BY <2>1, <2>2, UnseenMaps
<1>3. CASE NativeConnects(t)
  <2>1. pc = "connect" /\ LeakedFds' = LeakedFds /\ Calls' = Calls /\ ended' = ended
    BY <1>3 DEF NativeConnects, Connect, LeakedFds, Calls
  <2>2. Abstract!AtNative(t)
    BY <1>1, <2>1, CallerAt DEF Connected
  <2>3. Abstract!SpareFd
    BY <1>1, <2>1, NativePostAssumption
    DEF Abstract!SpareFd, SocketFds, IInv, TypeOK, FdAccounting, HoldsSocket
  <2>4. Abstract!NativeConnects(t)
    BY <1>3, <2>1, <2>2, <2>3
    DEF NativeConnects, Abstract!NativeConnects, taskVars, netVars, deathVars,
      Abstract!taskVars, Abstract!netVars, Abstract!deathVars, Java!GoTo, Abstract!GoTo,
      Java!Content, Abstract!Content, Java!Text, Abstract!Text
  <2>5. QED
    BY <2>4 DEF Abstract!Next, Abstract!PostBody, Abstract!Local, Java!Tasks, Abstract!Tasks
<1>4. CASE NativeSends(t)
  <2>1. /\ LeakedFds' = LeakedFds /\ Calls' = Calls /\ ended' = ended
        /\ Connected /\ sent < Total
    BY <1>4 DEF NativeSends, Completes, Write, LeakedFds, Calls, Connected
  <2>2. Abstract!At(t, "native")
    BY <1>1, <2>1, NativePostAssumption, CallerAt DEF IInv, TypeOK
  <2>3. Abstract!NativeSends(t)
    BY <1>4, <2>1, <2>2
    DEF NativeSends, Abstract!NativeSends, taskVars, deathVars, Abstract!taskVars,
      Abstract!deathVars, Java!GoTo, Abstract!GoTo, Java!HandOver, Abstract!HandOver
  <2>4. QED
    BY <2>3 DEF Abstract!Next, Abstract!PostBody, Abstract!Local, Java!Tasks, Abstract!Tasks
<1>5. CASE NativeReturns(t)
  <2>1. /\ SystemCall /\ pc' = "idle" /\ UNCHANGED socket /\ UNCHANGED fileStrings
        /\ UNCHANGED <<level, stage, payload, file, socket, Abstract!netVars, ioFailed,
                       Abstract!deathVars>>
    BY <1>5 DEF NativeReturns, netVars, deathVars, Abstract!netVars, Abstract!deathVars
  <2>2. last' # "success" => Abstract!Finish(t, "nativeError")
    BY <1>5 DEF NativeReturns, Java!Finish, Abstract!Finish, Java!Result, Abstract!Result
  <2>3. last' = "success" => Abstract!Finish(t, "success")
    BY <1>5 DEF NativeReturns, Java!Finish, Abstract!Finish, Java!Result, Abstract!Result
  <2>4. ASSUME NEW n \in Nat, PinsLost' = PinsLost + n
        PROVE  fileStrings' + PinsLost' = fileStrings + PinsLost + n
    BY <1>1, <2>1, <2>4
  <2>5. CASE /\ pc \in {"socket", "connect"} /\ last' # "success"
             /\ LeakedFds' = LeakedFds /\ PinsLost' = PinsLost + 2
    <3>1. Abstract!AtNative(t)
      BY <1>1, <2>5, CallerAt DEF Connected
    <3>2. Abstract!NativeFails(t)
      BY <2>1, <2>2, <2>4, <2>5, <3>1 DEF Abstract!NativeFails, Abstract!Ends, PinsLost
    <3>3. QED
      BY <3>2 DEF Abstract!Next, Abstract!PostBody, Abstract!Local, Java!Tasks, Abstract!Tasks
  <2>6. CASE /\ Connected /\ last' # "success"
             /\ LeakedFds' = LeakedFds + 1 /\ PinsLost' = PinsLost + 2
    <3>1. Abstract!InCall(t)
      BY <1>1, <2>6, CallerAt
    <3>2. Abstract!NativeLeaks(t)
      BY <2>1, <2>2, <2>4, <2>6, <3>1 DEF Abstract!NativeLeaks, PinsLost
    <3>3. QED
      BY <3>2 DEF Abstract!Next, Abstract!PostBody, Abstract!Local, Java!Tasks, Abstract!Tasks
  <2>7. CASE /\ Connected /\ last' = "success"
             /\ LeakedFds' = LeakedFds /\ PinsLost' = PinsLost
    <3>1. Abstract!InCall(t)
      BY <1>1, <2>7, CallerAt
    <3>2. fileStrings' + PinsLost' = fileStrings + PinsLost + 0
      BY <1>1, <2>1, <2>7
    <3>3. Abstract!NativeSucceeds(t)
      BY <2>1, <2>3, <2>7, <3>1, <3>2 DEF Abstract!NativeSucceeds, Abstract!Ends, PinsLost
    <3>4. QED
      BY <3>3 DEF Abstract!Next, Abstract!PostBody, Abstract!Local, Java!Tasks, Abstract!Tasks
  <2>8. QED
    BY <1>1, <2>1, <2>5, <2>6, <2>7, ExitEffect
<1>6. QED
  BY <1>2, <1>3, <1>4, <1>5 DEF Thread

(* A death takes the lost descriptors and strings with it. *)
LEMMA DieMaps == Die => Abstract!Next
<1> SUFFICES ASSUME Die PROVE Abstract!Kill
  BY DEF Abstract!Next
<1>1. LeakedFds' = 0 /\ PinsLost' = 0 /\ fileStrings' = 0
  BY DEF Die, Restart, Java!Kill, LeakedFds, PinsLost, Calls, Exits
<1>2. lost' = lost \cup Abstract!Pending
  BY DEF Die, Java!Kill, Java!KillTasks, Java!Pending, Java!Queued, Java!Finished,
    Abstract!Pending, Abstract!Queued, Abstract!Finished
<1>3. QED
  BY <1>1, <1>2 DEF Die, Java!Kill, Java!KillTasks, Java!netVars, PinsLost, Abstract!Kill,
    Abstract!KillTasks, Abstract!netVars

(* What the peer does is not a step of Java. *)
LEMMA PeerMaps == PeerTurns => UNCHANGED Abstract!vars
BY PeerEffect, UnseenMaps DEF PeerTurns

(* Seen from Java, send_http_post is the five native steps of PostTask: a   *)
(* failure before the connection loses two strings, every other failure a   *)
(* descriptor as well, a success nothing, and a request counts as sent when *)
(* write has accepted its last byte.                                        *)
THEOREM NativeRefinement == PostingSpec => PostTaskSpec
<1>1. PostingInit => Abstract!Init
  BY DEF PostingInit, Init, Java!Init, Java!InitTasks, Java!InitPost, Java!Tasks, Java!Empty,
    Java!Text, Abstract!Init, Abstract!InitTasks, Abstract!InitPost, Abstract!Tasks,
    Abstract!Empty, Abstract!Text, LeakedFds, Calls, Exits
<1>2. StringsInv /\ [PostingNext]_postingVars => [Abstract!Next]_Abstract!vars
  <2> SUFFICES ASSUME StringsInv, [PostingNext]_postingVars
               PROVE  [Abstract!Next]_Abstract!vars
    OBVIOUS
  <2>1. CASE UNCHANGED postingVars
    BY <2>1, UnseenMaps DEF postingVars, vars, LeakedFds, PinsLost, Calls
  <2>2. QED
    BY <2>1, JavaStepMaps, NativeMaps, PeerMaps, DieMaps DEF PostingNext
<1>3. QED
  BY <1>1, <1>2, StringsInit, StringsNext, PTL DEF PostingSpec, PostTaskSpec, Abstract!Spec

-----------------------------------------------------------------------------
(* What PostTaskProofs proves of PostTask therefore holds of the tasks that *)
(* call the real send_http_post: P is PostTask with its theorems, and its   *)
(* definitions are those of Abstract one by one.                            *)
P == INSTANCE PostTaskProofs WITH
  leaked <- LeakedFds, unreleased <- fileStrings + 2 * (Calls - ended["success"])

LEMMA SamePosting == Abstract!Spec => P!Spec
<1>1. Abstract!Init => P!Init
  BY DEF
    Abstract!Init, Abstract!InitTasks, Abstract!InitPost, Abstract!Tasks,
    Abstract!Text, Abstract!Empty, P!Init, P!InitTasks, P!InitPost, P!Tasks, P!Text,
    P!Empty
<1>2. [Abstract!Next]_Abstract!vars => [P!Next]_P!vars
  BY DEF
    Abstract!taskVars, Abstract!Tasks, Abstract!Result, Abstract!NewTask,
    Abstract!Execute, Abstract!Start, Abstract!Finish, Abstract!Message,
    Abstract!HandleResult, Abstract!Finished, Abstract!Queued, Abstract!Pending,
    Abstract!KillTasks, Abstract!Levels, Abstract!netVars, Abstract!deathVars,
    Abstract!postVars, Abstract!vars, Abstract!Text, Abstract!Empty, Abstract!Content,
    Abstract!EncodingTrick, Abstract!Wanted, Abstract!IsPost, Abstract!At,
    Abstract!GoTo, Abstract!SpareFd, Abstract!PostClick, Abstract!Toast,
    Abstract!Kill, Abstract!Prepare, Abstract!AtFile, Abstract!OpenFile,
    Abstract!OpenFileFails, Abstract!Flush, Abstract!ReadBack, Abstract!Ends,
    Abstract!ConnectFails, Abstract!Connect, Abstract!HandOver, Abstract!Sends,
    Abstract!InFlight, Abstract!Arrives, Abstract!Arrived, Abstract!Resend,
    Abstract!ConnectionBreaks, Abstract!Respond, Abstract!Refuse,
    Abstract!ReadResponse, Abstract!Evict, Abstract!AtNative, Abstract!NativeFails,
    Abstract!NativeConnects, Abstract!NativeSends, Abstract!InCall,
    Abstract!NativeLeaks, Abstract!NativeSucceeds, Abstract!StartPost, Abstract!Local,
    Abstract!Remote, Abstract!PostBody, Abstract!PostClicks, Abstract!Next,
    P!taskVars, P!Tasks, P!Result, P!NewTask, P!Execute, P!Start, P!Finish, P!Message,
    P!HandleResult, P!Finished, P!Queued, P!Pending, P!KillTasks, P!Levels, P!netVars,
    P!deathVars, P!postVars, P!vars, P!Text, P!Empty, P!Content, P!EncodingTrick,
    P!Wanted, P!IsPost, P!At, P!GoTo, P!SpareFd, P!PostClick, P!Toast, P!Kill,
    P!Prepare, P!AtFile, P!OpenFile, P!OpenFileFails, P!Flush, P!ReadBack, P!Ends,
    P!ConnectFails, P!Connect, P!HandOver, P!Sends, P!InFlight, P!Arrives, P!Arrived,
    P!Resend, P!ConnectionBreaks, P!Respond, P!Refuse, P!ReadResponse, P!Evict,
    P!AtNative, P!NativeFails, P!NativeConnects, P!NativeSends, P!InCall,
    P!NativeLeaks, P!NativeSucceeds, P!StartPost, P!Local, P!Remote, P!PostBody,
    P!PostClicks, P!Next
<1>3. QED
  BY <1>1, <1>2, PTL DEF Abstract!Spec, P!Spec

LEMMA SameService == P!ServiceSpec => Abstract!ServiceSpec
<1>1. P!Service!Init => Abstract!Service!Init
  BY DEF
    Abstract!Service!Init, Abstract!Pending, Abstract!Queued, Abstract!Finished,
    Abstract!Answers, Abstract!IsReported, Abstract!Tasks, P!Service!Init,
    P!Pending, P!Queued, P!Finished, P!Answers, P!IsReported, P!Tasks
<1>2. [P!Service!Next]_P!Service!vars => [Abstract!Service!Next]_Abstract!Service!vars
  BY DEF
    Abstract!Service!Next, Abstract!Service!vars, Abstract!Service!Submit,
    Abstract!Service!Answer, Abstract!Service!Oldest, Abstract!Service!Crash,
    Abstract!Pending, Abstract!Queued, Abstract!Finished, Abstract!Answers,
    Abstract!IsReported, Abstract!Tasks, P!Service!Next, P!Service!vars,
    P!Service!Submit, P!Service!Answer, P!Service!Oldest, P!Service!Crash,
    P!Pending, P!Queued, P!Finished, P!Answers, P!IsReported, P!Tasks
<1>3. QED
  BY <1>1, <1>2, PTL
  DEF P!ServiceSpec, Abstract!ServiceSpec, P!Service!Spec, Abstract!Service!Spec

(* With the system calls of send_http_post in it, and over any number of    *)
(* deaths of the process, posting still sends what each tap asked for, and  *)
(* reports no success of javaSendDataTo of which the request was not sent,  *)
(* or did not come first although the server waited for it; once the leaks  *)
(* have taken every descriptor nothing is sent any more, at any level; and  *)
(* the strings that are never released are those of the file's level and of *)
(* the native requests that failed.                                         *)
THEOREM PostingDelivers ==
  PostingSpec => /\ []Abstract!OwnContent
                 /\ []Abstract!SuccessComesFirst
                 /\ []Abstract!StringsAccounted
                 /\ Abstract!LostMeansSilence
<1>1. Buttons \subseteq P!Levels /\ Size \in Nat \ {0} /\ MaxKills \in Nat
  BY NativePostingAssumption DEF Java!Levels, P!Levels
<1>2. PostingSpec => P!Spec
  BY NativeRefinement, SamePosting, PTL DEF PostTaskSpec
<1>3. /\ P!Spec => []P!OwnContent
      /\ P!Spec => []P!SuccessComesFirst
      /\ P!Spec => []P!StringsAccounted
      /\ P!Spec => P!LostMeansSilence
  BY <1>1, NativePostAssumption, NativePostingAssumption, P!NothingForeignSent,
    P!SuccessIsSentFirst, P!StringsCounted, P!LostIsSilent
<1>4. P!OwnContent => Abstract!OwnContent
  BY DEF
    Abstract!OwnContent, Abstract!Wanted, Abstract!Content, Abstract!EncodingTrick,
    Abstract!Text, P!OwnContent, P!Wanted, P!Content, P!EncodingTrick, P!Text
<1>5. P!SuccessComesFirst => Abstract!SuccessComesFirst
  BY DEF P!SuccessComesFirst, P!Reported, P!Sent, P!ComesFirst, P!Tasks,
    Abstract!SuccessComesFirst, Abstract!Reported, Abstract!Sent, Abstract!ComesFirst,
    Abstract!Tasks
<1>6. P!LostMeansSilence => Abstract!LostMeansSilence
  BY DEF P!LostMeansSilence, P!vars, P!taskVars, P!postVars, P!netVars, P!deathVars,
    Abstract!LostMeansSilence, Abstract!vars, Abstract!taskVars, Abstract!postVars,
    Abstract!netVars, Abstract!deathVars
<1>7. P!StringsAccounted => Abstract!StringsAccounted
  <2>1. P!Started = Abstract!Started
    BY DEF P!Started, P!Queued, Abstract!Started, Abstract!Queued
  <2>2. \A t : P!WroteFile(t) <=> Abstract!WroteFile(t)
    BY DEF P!WroteFile, Abstract!WroteFile
  <2>3. \A t : P!FailedNatively(t) <=> Abstract!FailedNatively(t)
    BY DEF P!FailedNatively, P!Reported, P!Result, Abstract!FailedNatively,
      Abstract!Reported, Abstract!Result
  <2>4. /\ {t \in P!Started : P!WroteFile(t)} = {t \in Abstract!Started : Abstract!WroteFile(t)}
        /\ {t \in P!Started : P!FailedNatively(t)}
             = {t \in Abstract!Started : Abstract!FailedNatively(t)}
    BY <2>1, <2>2, <2>3
  <2>5. \A S : P!Cardinality(S) = Abstract!Cardinality(S)
    BY DEF P!Cardinality, Abstract!Cardinality
  <2>6. QED
    BY <2>4, <2>5 DEF P!StringsAccounted, Abstract!StringsAccounted
<1>8. QED
  BY <1>2, <1>3, <1>4, <1>5, <1>6, <1>7, PTL

(* And it answers the taps like TaskService: however a call of              *)
(* send_http_post ends, its tap is answered in turn, once, or dies with the *)
(* process.                                                                 *)
THEOREM PostingAnswers == PostingSpec => Abstract!ServiceSpec
<1>1. Buttons \subseteq P!Levels /\ Size \in Nat \ {0} /\ MaxKills \in Nat
  BY NativePostingAssumption DEF Java!Levels, P!Levels
<1>2. P!Spec => P!ServiceSpec
  BY <1>1, NativePostAssumption, NativePostingAssumption, P!PostingImplementsService
<1>3. QED
  BY <1>2, NativeRefinement, SamePosting, SameService, PTL DEF PostTaskSpec

=============================================================================
