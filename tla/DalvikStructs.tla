--------------------------- MODULE DalvikStructs ---------------------------
(***************************************************************************)
(* The structures of the virtual machine that the native code declares a    *)
(* second time (Thread.h, InterpState.h, Object.h, IndirectRefTable.h ...): *)
(* their members in order, for a build b, which is the flags the compiler   *)
(* is given and the ABI.                                                    *)
(***************************************************************************)
EXTENDS StructLayout

Builds ==
  [taint : BOOLEAN,             \* WITH_TAINT_TRACKING
   jit : BOOLEAN,               \* WITH_JIT
   asmInterp : BOOLEAN,         \* DVM_NO_ASM_INTERP is not defined
   selfVerification : BOOLEAN,  \* WITH_SELF_VERIFICATION
   trackRef : BOOLEAN,          \* WITH_TRACKREF_CHECKS
   jniStackCheck : BOOLEAN,     \* WITH_JNI_STACK_CHECK
   ia32 : BOOLEAN,              \* ARCH_IA32
   eabi : BOOLEAN]              \* eight bytes are aligned to eight, not to four

Eight(b) == [size |-> 8, align |-> IF b.eabi THEN 8 ELSE 4]
Taint == StructType(Words(<<"tag">>))
JValue(b) == UnionType({Scalar(1), Scalar(2), Word, Eight(b)})

-----------------------------------------------------------------------------
(* Interpreter state. *)

Saved(b) ==
  Words(<<"pc", "curFrame", "method", "methodClassDex">>) \o One("retval", JValue(b))
  \o If(b.taint, One("rtaint", Taint)) \o Words(<<"bailPtr">>)

(* Mutant: nothing takes the place of the count of tracked references.      *)
InterpSaveStateShort(b) == Packed(
  Saved(b) \o If(b.trackRef, Words(<<"debugTrackedRefStart">>)) \o Words(<<"prev">>))

InterpSaveState(b) == Packed(
  Saved(b) \o Words(<<IF b.trackRef THEN "debugTrackedRefStart" ELSE "unused", "prev">>))

Control(b) ==
  One("subMode", Scalar(2)) \o Several(<<"breakFlags", "unused">>, Scalar(1))
  \o Words(<<IF b.asmInterp THEN "curHandlerTable" ELSE "unused1">>)

InterpBreak(b) == UnionType({Eight(b), StructType(Control(b))})

(* A run of a trace is a code description or a word, and a word of flags.   *)
JitCodeDesc == StructType(One("numInsts_runEnd_hint", Scalar(2)) \o One("startOffset", Scalar(2)))
JitTraceRun == StructType(One("info", UnionType({JitCodeDesc, Word})) \o Words(<<"isCode">>))
JIT_TRACE_THRESH_FILTER_SIZE == 32
MAX_JIT_RUN_LEN == 64
MAX_SPILL_JIT_IA == 10

-----------------------------------------------------------------------------
(* Objects. *)

Object == Words(<<"clazz", "lock">>)

StringObject == Object \o Words(<<"instanceData">>)

ArrayObject(b) ==
  Object \o Words(<<"length">>) \o If(b.taint, One("taint", Taint))
  \o One("contents", Eight(b))

-----------------------------------------------------------------------------
(* References and the environment of native code. *)

IndirectRefSlot == Words(<<"obj", "serial">>)
IndirectRefTable == Words(<<"segmentState", "table_", "kind_", "alloc_entries_", "max_entries_">>)
ReferenceTable == Words(<<"nextEntry", "table", "allocEntries", "maxEntries">>)

JNIEnvExt ==
  Words(<<"funcTable", "baseFuncTable", "envThreadId", "self", "critical", "prev", "next">>)

-----------------------------------------------------------------------------
(* Threads.  A mutex and a condition variable of Bionic are a word each.    *)

DebugInvokeReq(b) ==
  Several(<<"ready", "invokeNeeded">>, Scalar(1))
  \o Words(<<"obj", "thread", "clazz", "method", "numArgs", "argArray", "options", "err">>)
  \o One("resultTag", Scalar(1)) \o One("resultValue", JValue(b)) \o One("exceptObj", Eight(b))
  \o Words(<<"lock", "cv">>)

AllocProfState(b) ==
  One("enabled", Scalar(1))
  \o Words(<<"allocCount", "allocSize", "failedAllocCount", "failedAllocSize", "freeCount",
             "freeSize", "gcCount", "classInitCount">>)
  \o One("classInitTime", Eight(b))

ThreadHead(b) ==
  One("interpSave", StructType(InterpSaveState(b))) \o Words(<<"threadId">>)
  \o One("interpBreak", InterpBreak(b))
  \o Words(<<"suspendCount", "dbgSuspendCount", "cardTable", "interpStackEnd", "XcurFrame",
             "exception">>)
  \o One("debugIsMethodEntry", Scalar(1)) \o Words(<<"interpStackSize">>)
  \o One("stackOverflowed", Scalar(1))
  \o Words(<<"handle">>)
  \o Words(IF b.asmInterp THEN <<"mainHandlerTable", "altHandlerTable">>
                          ELSE <<"unused0", "unused1">>)
  \o Words(<<"singleStepCount">>)

(* Mutant: the entry point that is for self verification has no stand-in.   *)
JitToInterpEntriesShort(b) ==
  Words(<<"Normal", "NoChain", "Punt", "SingleStep", "TraceSelect">>)
  \o If(b.selfVerification, Words(<<"BackwardBranch">>))

JitToInterpEntries(b) ==
  Words(<<"Normal", "NoChain", "Punt", "SingleStep", "TraceSelect",
          IF b.selfVerification THEN "BackwardBranch" ELSE "unused">>)

ThreadJit(b) ==
  One("jitToInterpEntries", StructType(JitToInterpEntries(b)))
  \o Words(<<"inJitCodeCache", "pJitProfTable", "jitThreshold", "jitResumeNPC", "jitResumeNSP",
             "jitResumeDPC", "jitState", "icRechainCount", "pProfileCountdown", "callsiteClass",
             "methodToCall">>)

ThreadTrace(b) ==
  If(b.selfVerification, Words(<<"shadowSpace">>))
  \o Words(<<"currTraceRun", "totalTraceLen", "currTraceHead", "currRunHead", "currRunLen",
             "lastPC", "traceMethod">>)
  \o One("threshFilter", ArrayType(Word, JIT_TRACE_THRESH_FILTER_SIZE))
  \o One("trace", ArrayType(JitTraceRun, MAX_JIT_RUN_LEN))

ThreadWaiting ==
  Words(<<"status", "systemTid", "interpStackStart", "threadObj", "jniEnv">>)
  \o Several(<<"internalLocalRefTable", "jniMonitorRefTable">>, StructType(ReferenceTable))
  \o Words(<<"classLoaderOverride", "waitMutex", "waitMonitor">>)
  \o One("interrupted", Scalar(1)) \o Words(<<"waitNext", "waitCond">>)
  \o One("throwingOOME", Scalar(1)) \o Words(<<"prev", "next", "threadExitCheckCount">>)

ThreadTail(b) ==
  One("invokeReq", StructType(DebugInvokeReq(b)))
  \o One("cpuClockBaseSet", Scalar(1)) \o One("cpuClockBase", Eight(b))
  \o One("allocProf", StructType(AllocProfState(b)))
  \o If(b.jniStackCheck, Words(<<"stackCrc">>))
  \o Words(<<"callbackMutex", "callback", "callbackArg">>)
  \o If(b.ia32 /\ b.jit, One("spillRegion", ArrayType(Word, MAX_SPILL_JIT_IA)))

Thread(b) ==
  ThreadHead(b) \o If(b.jit, ThreadJit(b))
  \o One("jniLocalRefTable", StructType(IndirectRefTable))
  \o If(b.jit, ThreadTrace(b)) \o ThreadWaiting \o ThreadTail(b)

=============================================================================
