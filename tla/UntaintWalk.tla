---------------------------- MODULE UntaintWalk ----------------------------
(***************************************************************************)
(* untaint (cpp/TaintdroidHack.cpp) reaches the taint tag through the       *)
(* structures of the running virtual machine, at the offsets of its own     *)
(* declarations: the environment, the thread, its reference table, a slot, *)
(* the string, its array.  Declarations and machine are compiled apart, by  *)
(* builds that may differ.                                                  *)
(*                                                                         *)
(* A step that reads or writes at an offset where the machine does not have *)
(* the member of that name ends the walk astray.  The lookup's own checks   *)
(* are the matter of IndirectRefTable, threads and collector of Untaint.    *)
(***************************************************************************)
EXTENDS DalvikStructs

VARIABLES
  vm,     \* the build of the running machine
  access  \* the next access of the method

walkVars == <<vm, access>>

(* The build of the native library. *)
App ==
  [taint |-> TRUE, jit |-> TRUE, asmInterp |-> TRUE, selfVerification |-> FALSE,
   trackRef |-> FALSE, jniStackCheck |-> FALSE, ia32 |-> FALSE, eabi |-> vm.eabi]

InitWalk ==
  /\ vm \in {b \in Builds : b.ia32 = ~b.eabi}
  /\ access = "self"

-----------------------------------------------------------------------------
Go(from, to, right) == access = from /\ access' = (IF right THEN to ELSE "astray") /\ UNCHANGED vm

SamePlace(Members(_), name) ==
  /\ name \in NamesOf(Members(vm))
  /\ OffsetOf(Members(App), name) = OffsetOf(Members(vm), name)

(* the thread that the environment names *)
Self == Go("self", "running", SamePlace(LAMBDA b : JNIEnvExt, "self"))

(* dvmChangeStatus reads the status, which decides nothing: any word of the *)
(* thread will do.                                                          *)
StatusInside == OffsetOf(Thread(App), "status") + Word.size <= StructType(Thread(vm)).size

Running == Go("running", "kind_", StatusInside)
Native == Go("native", "done", StatusInside)

TableMember(b, name) == OffsetOf(Thread(b), "jniLocalRefTable") + OffsetOf(IndirectRefTable, name)

ReadTable(name, to) == Go(name, to, TableMember(App, name) = TableMember(vm, name))

KindOf == ReadTable("kind_", "segmentState")
Segment == ReadTable("segmentState", "table_")
Table == ReadTable("table_", "obj")

Slot == Go("obj", "instanceData", SamePlace(LAMBDA b : IndirectRefSlot, "obj"))

(* StringObject::array: the first field of a string, 8 bytes from its start *)
Array == Go("instanceData", "tag", 8 = OffsetOf(StringObject, "instanceData"))

(* arr->taint.tag = TAINT_CLEAR *)
Tag == Go("tag", "native", SamePlace(ArrayObject, "taint"))

NextWalk == Self \/ Running \/ KindOf \/ Segment \/ Table \/ Slot \/ Array \/ Tag \/ Native

WalkSpec == InitWalk /\ [][NextWalk]_walkVars

-----------------------------------------------------------------------------
(* Properties. *)

(* The store of TAINT_CLEAR hits the tag exactly on machines with TaintDroid *)
(* and the JIT, whatever else they were built with: every other build moves *)
(* the reference table of the thread, and the walk strays before it.        *)
ReachesTag ==
  /\ access = "astray" => ~(vm.taint /\ vm.jit)
  /\ access \in {"tag", "native", "done"} => vm.taint /\ vm.jit

Without(flag) == [vm EXCEPT ![flag] = ~@]

(* Of these members, those that both builds have are at the same place.      *)
Keeps(names, flag) ==
  \A name \in names \cap NamesOf(Thread(Without(flag))) :
    OffsetOf(Thread(vm), name) = OffsetOf(Thread(Without(flag)), name)

(* What the comments promise of the members that stand in for those a build *)
(* leaves out ("Keep struct size constant", InterpState.h line 110; "Keep   *)
(* structure size constant", Thread.h line 325; "Consume space to keep      *)
(* offsets the same", Thread.h line 286): the assembly interpreter and      *)
(* reference checks move nothing of a thread, self verification nothing up  *)
(* to the reference table.                                                  *)
KeptOffsets ==
  /\ \A flag \in {"asmInterp", "trackRef"} :
       /\ Keeps(NamesOf(Thread(vm)), flag)
       /\ StructType(Thread(vm)).size = StructType(Thread(Without(flag))).size
  /\ Keeps(NamesOf(ThreadHead(vm) \o If(vm.jit, ThreadJit(vm))) \cup {"jniLocalRefTable"},
           "selfVerification")

=============================================================================
