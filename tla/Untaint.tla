------------------------------ MODULE Untaint ------------------------------
(***************************************************************************)
(* untaint (cpp/TaintdroidHack.cpp): the native method with the status of  *)
(* its thread (ScopedJniThreadState.h, Thread.cpp), the reference table it  *)
(* looks its argument up in (IndirectRefTable), the char array it reaches  *)
(* (Object.cpp) and a garbage collection that stops the world meanwhile.   *)
(* The call bridge of the VM and the collector are external.               *)
(*                                                                         *)
(* The objects of the table are strings; several strings may share a char  *)
(* array, as substrings do.                                                *)
(***************************************************************************)
EXTENDS IndirectRefTable

CONSTANTS
  Arrays,   \* char arrays
  ArrayOf,  \* the array of a string: its field at offset 8
  MaxCalls  \* bound: calls of untaint

ASSUME UntaintAssumption == ArrayOf \in [Objects -> Arrays] /\ MaxCalls \in Nat

VARIABLES
  pc,       \* where the thread is, "java" outside the native method
  status,   \* Thread::status
  content,  \* the argument content_
  given,    \* history: the string Java passed
  obj,      \* local `obj`
  tag,      \* ArrayObject::taint of each array
  world,    \* "running", "stopping" or "stopped" by the collector
  calls     \* calls made

untaintVars == <<pc, status, content, given, obj, tag, world, calls>>
vars == <<tableVars, untaintVars>>

Tags == {"TAINT_CLEAR", "TAINT_CONTACTS"}

(* The statuses that the method, its bridge and a safe point tell apart.    *)
ThreadStatus == {"THREAD_RUNNING", "THREAD_NATIVE", "THREAD_SUSPENDED"}

Init ==
  /\ InitTable
  /\ pc = "java" /\ status = "THREAD_RUNNING"
  /\ content = 0 /\ given \in Objects /\ obj = Null
  /\ tag \in [Arrays -> Tags]
  /\ world = "running" /\ calls = 0

-----------------------------------------------------------------------------
(* The VM: Java code creates strings and references, other calls come and   *)
(* go; it stops at a safe point for the collector.                          *)

JavaRuns == pc = "java" /\ status = "THREAD_RUNNING" /\ world # "stopped"

OtherReferences == JavaRuns /\ TableNext /\ UNCHANGED untaintVars

(* TaintDroid marks a string that is read from the contacts. *)
TaintAdded(array) ==
  /\ JavaRuns
  /\ tag' = [tag EXCEPT ![array] = "TAINT_CONTACTS"]
  /\ UNCHANGED <<tableVars, pc, status, content, given, obj, world, calls>>

SafePoint ==
  /\ pc = "java" /\ status = "THREAD_RUNNING" /\ world = "stopping"
  /\ status' = "THREAD_SUSPENDED"
  /\ UNCHANGED <<tableVars, pc, content, given, obj, tag, world, calls>>

Resume ==
  /\ status = "THREAD_SUSPENDED" /\ world = "running"
  /\ status' = "THREAD_RUNNING"
  /\ UNCHANGED <<tableVars, pc, content, given, obj, tag, world, calls>>

(* The bridge pushes a segment and the argument, and goes native.           *)
EnterNative(string) ==
  /\ JavaRuns /\ calls < MaxCalls /\ Len(frames) < MaxDepth /\ topIndex < MaxEntries
  /\ frames' = Append(frames, [topIndex |-> topIndex, numHoles |-> numHoles])
  /\ Put(topIndex, string, Len(frames) + 1)
  /\ topIndex' = topIndex + 1
  /\ content' = Encode(topIndex, slots'[topIndex].serial)
  /\ given' = string /\ pc' = "construct" /\ status' = "THREAD_NATIVE"
  /\ calls' = calls + 1
  /\ UNCHANGED <<numHoles, obj, tag, world>>

(* ... and comes back to Java, unless the world is stopping. *)
LeaveNative ==
  /\ pc = "return" /\ world = "running"
  /\ Pop
  /\ pc' = "java" /\ status' = "THREAD_RUNNING" /\ obj' = Null
  /\ UNCHANGED <<content, given, tag, world, calls>>

StopWorld ==
  /\ world = "running" /\ world' = "stopping"
  /\ UNCHANGED <<tableVars, pc, status, content, given, obj, tag, calls>>

(* The collector waits for threads that run, not for those in native code.  *)
WorldStopped ==
  /\ world = "stopping" /\ status # "THREAD_RUNNING"
  /\ world' = "stopped"
  /\ UNCHANGED <<tableVars, pc, status, content, given, obj, tag, calls>>

WorldResumes ==
  /\ world = "stopped" /\ world' = "running"
  /\ UNCHANGED <<tableVars, pc, status, content, given, obj, tag, calls>>

-----------------------------------------------------------------------------
(* The native method. *)

(* dvmChangeStatus: reads the old status, compares, and assigns nothing.    *)
dvmChangeStatus(newStatus) == UNCHANGED status

Construct ==
  /\ pc = "construct" /\ dvmChangeStatus("THREAD_RUNNING")
  /\ pc' = "resolve"
  /\ UNCHANGED <<tableVars, content, given, obj, tag, world, calls>>

Resolve ==
  /\ pc = "resolve"
  /\ obj' = Get(content)
  /\ pc' = "touch"
  /\ UNCHANGED <<tableVars, status, content, given, tag, world, calls>>

(* str->array()->taint.tag = TAINT_CLEAR, through raw pointers. *)
Touch ==
  /\ pc = "touch"
  /\ tag' = [tag EXCEPT ![ArrayOf[obj]] = "TAINT_CLEAR"]
  /\ pc' = "destruct"
  /\ UNCHANGED <<tableVars, status, content, given, obj, world, calls>>

Destruct ==
  /\ pc = "destruct" /\ dvmChangeStatus("THREAD_NATIVE")
  /\ pc' = "return"
  /\ UNCHANGED <<tableVars, content, given, obj, tag, world, calls>>

Method == Construct \/ Resolve \/ Touch \/ Destruct

VM ==
  \/ OtherReferences \/ (\E array \in Arrays : TaintAdded(array)) \/ SafePoint \/ Resume
  \/ (\E string \in Objects : EnterNative(string)) \/ LeaveNative
  \/ StopWorld \/ WorldStopped \/ WorldResumes

Next == Method \/ VM

Spec == Init /\ [][Next]_vars

-----------------------------------------------------------------------------
(* Properties. *)

TypeOK ==
  /\ TableTypeOK
  /\ pc \in {"java", "construct", "resolve", "touch", "destruct", "return"}
  /\ status \in ThreadStatus
  /\ content \in References /\ given \in Objects
  /\ obj \in Objects \cup {Null, Invalid}
  /\ tag \in [Arrays -> Tags]
  /\ world \in {"running", "stopping", "stopped"} /\ calls \in 0..MaxCalls

(* The object whose memory is touched is the string Java passed - never the *)
(* invalid object, which untaint does not test for - and a good reference   *)
(* holds it, so that no collection in between can free it.                  *)
TouchedIsGiven ==
  pc \in {"touch", "destruct"} =>
    obj = given /\ \E entry \in live : entry.obj = obj /\ entry.depth = Len(frames)

(* What Thread.h says of dvmChangeStatus (line 500: "If you're changing to  *)
(* THREAD_RUNNING, this will check for suspension"): raw pointers, which    *)
(* the method uses between the two status changes, are not used while the   *)
(* collector has stopped the world.                                         *)
NotWhileStopped == world = "stopped" => pc \notin {"resolve", "touch", "destruct"}

=============================================================================
