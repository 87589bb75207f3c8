---------------------------- MODULE NativePosting ----------------------------
(***************************************************************************)
(* PostTask with send_http_post at the granularity of its system calls:    *)
(* NativePost as the function that doInBackground calls at the level       *)
(* OBFUSCATED_NATIVE_NETWORK, the other levels as in PostTask, and one      *)
(* table of descriptors for all of them, over several lives of the process. *)
(***************************************************************************)
EXTENDS NativePost

CONSTANTS MaxTasks, Buttons, Size, MaxKills  \* of PostTask

VARIABLES
  submitted, queue, active, looper, reported, lost,          \* of AsyncTask
  level, stage, payload, file, socket, requests, inbox, early, \* of PostTask
  ioFailed, kills, past,
  fileStrings \* the strings that the functions of the file have pinned

taskVars == <<submitted, queue, active, looper, reported, lost>>
netVars == <<requests, inbox, early>>
deathVars == <<kills, past>>
javaVars == <<taskVars, level, stage, payload, file, socket, fileStrings, netVars,
              ioFailed, deathVars>>
postingVars == <<vars, javaVars>>

(* What Java code opens has to find a descriptor among those that are open. *)
Java == INSTANCE PostTask WITH leaked <- fds, unreleased <- fileStrings

ASSUME NativePostingAssumption ==
  /\ MaxTasks \in Nat /\ Size \in Nat \ {0} /\ MaxKills \in Nat
  /\ Buttons \subseteq Java!Levels

PostingInit == Init /\ Java!Init

InNative(t) == t \in active /\ level[t] = "OBFUSCATED_NATIVE_NETWORK"

(* All of PostTask but its own picture of the native call.                  *)
JavaStep ==
  /\ \/ Java!PostClicks \/ Java!Toast \/ Java!StartPost \/ Java!Evict \/ Java!Arrives
     \/ \E t \in Java!Tasks :
          \/ Java!Prepare(t) \/ Java!OpenFile(t) \/ Java!OpenFileFails(t)
          \/ Java!Flush(t) \/ Java!ReadBack(t)
          \/ Java!ConnectFails(t) \/ Java!Connect(t) \/ Java!Sends(t)
          \/ Java!Resend(t) \/ Java!ConnectionBreaks(t)
          \/ Java!Respond(t) \/ Java!Refuse(t) \/ Java!ReadResponse(t)
  /\ UNCHANGED vars

(* The call, and the descriptor it needs beside those of the other levels.  *)
NativeCalls(t) == InNative(t) /\ Call /\ UNCHANGED javaVars

NativeOpens(t) == InNative(t) /\ Java!SpareFd /\ OpenSocket /\ UNCHANGED javaVars

NativeConnects(t) ==
  /\ InNative(t) /\ Connect
  /\ Java!GoTo(t, "native") /\ payload' = [payload EXCEPT ![t] = Java!Content(t)]
  /\ UNCHANGED <<taskVars, level, file, socket, fileStrings, netVars, ioFailed, deathVars>>

(* The other system calls of the function.                                  *)
SystemCall ==
  \/ SocketFails \/ ConnectFails
  \/ Write \/ WriteStalls \/ WriteFails
  \/ Read \/ ReadFails \/ ReadEnds

(* The write that takes the last byte of the request.                       *)
Completes == sent < Total /\ sent' = Total

NativeSends(t) ==
  /\ InNative(t) /\ Write /\ Completes
  /\ Java!HandOver(t) /\ Java!GoTo(t, "nativeSent")
  /\ UNCHANGED <<taskVars, level, payload, file, socket, fileStrings, ioFailed, deathVars>>

NativeTurns(t) ==
  InNative(t) /\ SystemCall /\ ~Completes /\ pc' # "idle" /\ UNCHANGED javaVars

(* The function returns, and the task with it.                              *)
NativeReturns(t) ==
  /\ InNative(t) /\ SystemCall /\ pc' = "idle"
  /\ Java!Finish(t, IF last' = "success" THEN "success" ELSE "nativeError")
  /\ UNCHANGED <<level, stage, payload, file, socket, fileStrings, netVars, ioFailed,
                 deathVars>>

(* The peer and the kernel during the call.                                 *)
PeerTurns == Network /\ UNCHANGED javaVars

(* The process dies: the tasks with their results, the call under way and   *)
(* everything that was open or lost; the file stays.                        *)
Die == Java!Kill /\ Restart

Thread(t) ==
  \/ NativeOpens(t) \/ NativeConnects(t) \/ NativeSends(t)
  \/ NativeTurns(t) \/ NativeReturns(t)

PostingNext ==
  \/ JavaStep \/ Die \/ PeerTurns
  \/ \E t \in Java!Tasks : NativeCalls(t) \/ Thread(t)

PostingSpec == PostingInit /\ [][PostingNext]_postingVars

(* The thread that runs the call keeps running, and the peer in the end     *)
(* answers or closes: the function sets no timeout of its own.  No fairness *)
(* is asked of the taps and the tasks that lead to a call.                  *)
FairPostingSpec ==
  /\ PostingSpec
  /\ WF_postingVars(\E t \in Java!Tasks : Thread(t))
  /\ WF_postingVars(PeerTurns /\ PeerCloses)

-----------------------------------------------------------------------------
(* Properties. *)

Abstract == INSTANCE PostTask WITH
  leaked <- LeakedFds, unreleased <- fileStrings + 2 * (Calls - ended["success"])

(* The five native steps of PostTask are what send_http_post does, however  *)
(* its system calls end and whatever the peer does: which ends lose a       *)
(* descriptor, which two strings, and when a request has been sent whole.   *)
PostTaskSpec == Abstract!Spec

=============================================================================
