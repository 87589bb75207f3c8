----------------------------- MODULE NativePost -----------------------------
(***************************************************************************)
(* send_http_post (cpp/TaintdroidHack.cpp), called again and again until   *)
(* the process dies, and then by the next one: the socket it opens, the    *)
(* strings it pins, its write loop and its read loop, and the connection   *)
(* to the peer as the kernel shows it.                                     *)
(*                                                                         *)
(* Every early return of the function is an action of its own, so that     *)
(* what each of them releases - and forgets to release - is visible.  The  *)
(* peer and the kernel are external: they may answer with any number of    *)
(* bytes, close early, stay silent or break the connection.                *)
(*                                                                         *)
(* The host is always the dotted address Constants.HOST_IP, for which      *)
(* gethostbyname needs no lookup and cannot return NULL.                   *)
(***************************************************************************)
EXTENDS Integers, Sequences

CONSTANTS
  Total,       \* strlen(message): the bytes of the request
  ResponseCap, \* sizeof(response) - 1: the bytes of a response that fit
  MaxReply,    \* the longest answer of the peer
  MaxFds,      \* descriptors the process may still open
  MaxCalls     \* bound: calls made in one life of the process

ASSUME NativePostAssumption ==
  /\ Total \in Nat \ {0}
  /\ ResponseCap \in Nat \ {0}
  /\ MaxReply \in Nat
  /\ MaxFds \in Nat \ {0}
  /\ MaxCalls \in Nat

VARIABLES
  pc,         \* the system call the running call is at, "idle" between calls
  sent,       \* local `sent`
  received,   \* local `received`
  fds,        \* open descriptors of the process
  pinned,     \* strings obtained with GetStringUTFChars and not released
  conn,       \* the current connection, as kernel and peer see it
  ended,      \* history: how many calls left through each exit
  last,       \* history: the exit of the latest call
  stalled     \* history: a write of the latest call returned 0

vars == <<pc, sent, received, fds, pinned, conn, ended, last, stalled>>

(* The return statements of the function, in source order. *)
Exits == {"noSocket", "noConnect", "writeError", "readError", "tooLong", "success"}

Failures == Exits \ {"success"}

(* The exits taken with the socket still open. *)
Leaks == {"writeError", "readError", "tooLong"}

Calls == ended["noSocket"] + ended["noConnect"] + ended["writeError"]
         + ended["readError"] + ended["tooLong"] + ended["success"]

(* A connection: the bytes the kernel accepted, each named by its position  *)
(* in the message; the bytes of the answer still to be read; whether the    *)
(* peer has closed its sending end; whether an error is pending.  What the  *)
(* peer reads, and when, the function cannot see.                           *)
Connections == [wire : Seq(Nat), reply : Nat, fin : BOOLEAN, err : BOOLEAN]

Fresh == [wire |-> << >>, reply |-> 0, fin |-> FALSE, err |-> FALSE]

(* The len bytes of the message that start after the first `from` of them.  *)
Slice(from, len) == [i \in 1..len |-> from + i]

Init ==
  /\ pc = "idle" /\ last = "none" /\ stalled = FALSE
  /\ sent = 0 /\ received = 0 /\ fds = 0 /\ pinned = 0
  /\ conn = Fresh
  /\ ended = [e \in Exits |-> 0]

-----------------------------------------------------------------------------
(* The function. *)

(* Both strings are pinned, the request is formatted. *)
Call ==
  /\ pc = "idle" /\ Calls < MaxCalls
  /\ pc' = "socket" /\ sent' = 0 /\ received' = 0 /\ stalled' = FALSE
  /\ pinned' = pinned + 2
  /\ UNCHANGED <<fds, conn, ended, last>>

Return(exit) ==
  /\ pc' = "idle" /\ last' = exit
  /\ ended' = [ended EXCEPT ![exit] = @ + 1]

(* Mutant: the test `sockfd < 0` is missing. *)
SocketUnchecked ==
  /\ pc = "socket"
  /\ pc' = "connect"
  /\ UNCHANGED <<sent, received, fds, pinned, conn, ended, last, stalled>>

SocketFails ==
  /\ pc = "socket"
  /\ Return("noSocket")
  /\ UNCHANGED <<sent, received, fds, pinned, conn, stalled>>

OpenSocket ==
  /\ pc = "socket" /\ fds < MaxFds
  /\ pc' = "connect" /\ fds' = fds + 1
  /\ UNCHANGED <<sent, received, pinned, conn, ended, last, stalled>>

(* Mutant: the connect failure forgets its close. *)
ConnectFailsOpen ==
  /\ pc = "connect"
  /\ Return("noConnect")
  /\ UNCHANGED <<sent, received, fds, pinned, conn, stalled>>

ConnectFails ==
  /\ pc = "connect"
  /\ fds' = fds - 1
  /\ Return("noConnect")
  /\ UNCHANGED <<sent, received, pinned, conn, stalled>>

Connect ==
  /\ pc = "connect"
  /\ pc' = "write" /\ conn' = Fresh
  /\ UNCHANGED <<sent, received, fds, pinned, ended, last, stalled>>

(* Mutant: every turn writes from the start of the message. *)
WriteRestarts ==
  /\ pc = "write" /\ ~conn.err
  /\ \E bytes \in 1..(Total - sent) :
       /\ sent' = sent + bytes
       /\ conn' = [conn EXCEPT !.wire = @ \o Slice(0, bytes)]
  /\ pc' = IF sent' < Total THEN "write" ELSE "read"
  /\ UNCHANGED <<received, fds, pinned, ended, last, stalled>>

(* One turn of the write loop that accepts part of what is left. *)
Write ==
  /\ pc = "write" /\ ~conn.err
  /\ \E bytes \in 1..(Total - sent) :
       /\ sent' = sent + bytes
       /\ conn' = [conn EXCEPT !.wire = @ \o Slice(sent, bytes)]
  /\ pc' = IF sent' < Total THEN "write" ELSE "read"
  /\ UNCHANGED <<received, fds, pinned, ended, last, stalled>>

(* write returns 0: the loop is left with the request unfinished. *)
WriteStalls ==
  /\ pc = "write"
  /\ pc' = "read" /\ stalled' = TRUE
  /\ UNCHANGED <<sent, received, fds, pinned, conn, ended, last>>

WriteFails ==
  /\ pc = "write" /\ conn.err
  /\ Return("writeError")
  /\ UNCHANGED <<sent, received, fds, pinned, conn, stalled>>

(* Mutant: the read is not limited to the rest of the buffer. *)
ReadUnbounded ==
  /\ pc = "read"
  /\ \E bytes \in 1..conn.reply :
       /\ bytes <= ResponseCap
       /\ received' = received + bytes
       /\ conn' = [conn EXCEPT !.reply = @ - bytes]
  /\ IF received' < ResponseCap
     THEN UNCHANGED <<pc, ended, last>>
     ELSE Return("tooLong")
  /\ UNCHANGED <<sent, fds, pinned, stalled>>

(* Mutant: the test `received == total` after the loop is missing. *)
ReadFullAccepted ==
  /\ pc = "read"
  /\ \E bytes \in 1..conn.reply :
       /\ bytes <= ResponseCap - received
       /\ received' = received + bytes
       /\ conn' = [conn EXCEPT !.reply = @ - bytes]
  /\ IF received' < ResponseCap
     THEN UNCHANGED <<pc, fds, pinned, ended, last>>
     ELSE Return("success") /\ fds' = fds - 1 /\ pinned' = pinned - 2
  /\ UNCHANGED <<sent, stalled>>

(* One turn of the read loop.  When the buffer is full the loop ends and    *)
(* the test after it takes the exit for a response that does not fit.       *)
Read ==
  /\ pc = "read"
  /\ \E bytes \in 1..conn.reply :
       /\ bytes <= ResponseCap - received
       /\ received' = received + bytes
       /\ conn' = [conn EXCEPT !.reply = @ - bytes]
  /\ IF received' < ResponseCap
     THEN UNCHANGED <<pc, ended, last>>
     ELSE Return("tooLong")
  /\ UNCHANGED <<sent, fds, pinned, stalled>>

ReadFails ==
  /\ pc = "read" /\ conn.err
  /\ Return("readError")
  /\ UNCHANGED <<sent, received, fds, pinned, conn, stalled>>

(* Mutant: `bytes == 0` does not leave the read loop. *)
ReadEndsSpins ==
  /\ pc = "read" /\ conn.fin /\ conn.reply = 0 /\ ~conn.err
  /\ UNCHANGED vars

(* End of stream: the only path that closes the socket, releases both       *)
(* strings and returns JNI_TRUE.                                            *)
ReadEnds ==
  /\ pc = "read" /\ conn.fin /\ conn.reply = 0 /\ ~conn.err
  /\ fds' = fds - 1 /\ pinned' = pinned - 2
  /\ Return("success")
  /\ UNCHANGED <<sent, received, conn, stalled>>

Function ==
  \/ Call \/ SocketFails \/ OpenSocket \/ ConnectFails \/ Connect
  \/ Write \/ WriteStalls \/ WriteFails
  \/ Read \/ ReadFails \/ ReadEnds

-----------------------------------------------------------------------------
(* The peer and the kernel. *)

Connected == pc \in {"write", "read"}

(* The peer sends some of its answer, before or after it has read the       *)
(* request, all of it or never any ...                                      *)
PeerAnswers ==
  /\ Connected /\ ~conn.fin
  /\ \E k \in 1..(MaxReply - received - conn.reply) :
       conn' = [conn EXCEPT !.reply = @ + k]
  /\ UNCHANGED <<pc, sent, received, fds, pinned, ended, last, stalled>>

(* ... and closes its sending end; it may go on reading.                    *)
PeerCloses ==
  /\ Connected /\ ~conn.fin
  /\ conn' = [conn EXCEPT !.fin = TRUE]
  /\ UNCHANGED <<pc, sent, received, fds, pinned, ended, last, stalled>>

(* A reset arrives, or the kernel gives the connection up. *)
ConnectionBreaks ==
  /\ Connected /\ ~conn.err
  /\ conn' = [conn EXCEPT !.err = TRUE]
  /\ UNCHANGED <<pc, sent, received, fds, pinned, ended, last, stalled>>

Network == PeerAnswers \/ PeerCloses \/ ConnectionBreaks

(* The process dies, in the middle of a call perhaps, and is started again: *)
(* the kernel has closed its descriptors, its strings are gone with it.      *)
Restart ==
  /\ pc' = "idle" /\ last' = "none" /\ stalled' = FALSE
  /\ sent' = 0 /\ received' = 0 /\ fds' = 0 /\ pinned' = 0
  /\ conn' = Fresh
  /\ ended' = [e \in Exits |-> 0]

Next == Function \/ Network \/ Restart

Spec == Init /\ [][Next]_vars

-----------------------------------------------------------------------------
(* Properties. *)

TypeOK ==
  /\ pc \in {"idle", "socket", "connect", "write", "read"}
  /\ sent \in 0..Total
  /\ received \in 0..ResponseCap
  /\ fds \in 0..MaxFds
  /\ pinned \in Nat
  /\ conn \in Connections
  /\ ended \in [Exits -> Nat]
  /\ last \in Exits \cup {"none"}
  /\ stalled \in BOOLEAN

LeakedFds == ended["writeError"] + ended["readError"] + ended["tooLong"]

HoldsSocket == pc \in {"connect", "write", "read"}

(* Over any sequence of calls the open descriptors are exactly the one the  *)
(* running call holds plus one for each past call that failed after it had  *)
(* connected: connect failure and success give theirs back (lines 30 and    *)
(* 75), the returns at lines 42, 59 and 68 never do.                        *)
FdAccounting == fds = LeakedFds + (IF HoldsSocket THEN 1 ELSE 0)

(* Both strings stay pinned after every exit but the last one: lines 77-78  *)
(* are reached by no failing return.                                        *)
PinAccounting ==
  pinned = 2 * (Calls - ended["success"]) + (IF pc = "idle" THEN 0 ELSE 2)

(* Both together: what a sequence of calls has lost can be read off the     *)
(* exits it took, and nothing else is lost or given back twice.             *)
ResourcesAccounted == FdAccounting /\ PinAccounting

(* However the kernel splits the writes, what it accepted is a prefix of the *)
(* message, in order, without gap or repetition (`message + sent`).         *)
WireIsPrefix ==
  Connected \/ (last = "success" /\ pc = "idle") => conn.wire = Slice(0, sent)

(* JNI_TRUE means that the kernel accepted the whole message, unless a      *)
(* write returned 0: nothing the peer does can turn a request that was cut  *)
(* short by an error, or by its own early answer, into a success.           *)
SuccessMeansWritten ==
  last = "success" /\ pc = "idle" /\ ~stalled => conn.wire = Slice(0, Total)

(* A full response buffer is never reported as success: the terminating 0   *)
(* of the memset buffer (line 52) survives in every response that is used.  *)
SuccessMeansResponseFits ==
  last = "success" /\ pc = "idle" => received < ResponseCap

(* Both together: a call that reports success has exchanged a whole request *)
(* for a response that fits.                                                *)
SuccessMeansExchanged == SuccessMeansWritten /\ SuccessMeansResponseFits

(* Once leaks have used up every descriptor no later call can succeed, or   *)
(* even open a socket: the process does not recover until it dies.          *)
Exhausted == LeakedFds = MaxFds
ExhaustionIsFinal ==
  [][Exhausted /\ ~Restart =>
       Exhausted' /\ \A e \in Exits \ {"noSocket"} : ended'[e] = ended[e]]_vars

(* A call returns, provided the peer answers or closes: both loops end.     *)
CallReturns == pc # "idle" ~> pc = "idle"

=============================================================================
