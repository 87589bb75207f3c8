-------------------------- MODULE IndirectRefTable --------------------------
(***************************************************************************)
(* The table of JNI local references of one thread: IndirectRefTable::get  *)
(* (cpp/IndirectRefTable.cpp) on tables that the virtual machine builds.    *)
(* The repository declares the table and looks references up in it; adding, *)
(* removing and the segments of native calls belong to the VM and follow   *)
(* the comments of cpp/IndirectRefTable.h (lines 128-168).                  *)
(*                                                                         *)
(* A reference is a number: the kind in its two low bits, then IndexBits of *)
(* index, then a serial number.                                             *)
(***************************************************************************)
EXTENDS Integers, Sequences, FiniteSets

CONSTANTS
  Objects,     \* heap objects
  Null,        \* an unused slot
  Invalid,     \* kInvalidIndirectRefObject
  Cleared,     \* kClearedJniWeakGlobal
  IndexBits,   \* width of an index, 16 in the code
  Serials,     \* serial numbers before they wrap, 2^14 in the code
  MaxEntries,  \* max_entries_ of the table
  MaxDepth     \* bound: nested native calls and local frames

ASSUME IndirectRefTableAssumption ==
  /\ Objects \cap {Null, Invalid, Cleared} = {} /\ Null # Invalid /\ Null # Cleared
  /\ IndexBits \in Nat /\ Serials \in Nat \ {0} /\ MaxDepth \in Nat
  /\ MaxEntries \in 1..(2^IndexBits - 1)

VARIABLES
  slots,     \* table_: object and serial number of each entry
  topIndex,  \* segmentState.parts.topIndex
  numHoles,  \* segmentState.parts.numHoles
  frames,    \* the segment states saved by the calls under way, innermost last
  live       \* history: references handed out and still good, with their objects

tableVars == <<slots, topIndex, numHoles, frames, live>>

kIndirectKindLocal == 1
Indices == 0..MaxEntries - 1

Encode(index, serial) == (serial * 2^IndexBits + index) * 4 + kIndirectKindLocal
References == 0..(Serials * 2^IndexBits * 4 - 1)

indirectRefKind(iref) == iref % 4
IndexOf(iref) == (iref \div 4) % 2^IndexBits
SerialOf(iref) == iref \div (4 * 2^IndexBits)

(* Mutant: the shift by the two bits of the kind is missing. *)
GetUnshifted(iref) ==
  LET index == iref % 2^IndexBits IN
  IF \/ indirectRefKind(iref) # kIndirectKindLocal
     \/ index >= topIndex
     \/ slots[index].obj = Null
  THEN Invalid
  ELSE slots[index].obj

(* Mutant: `>` for `>=`. *)
GetPastTop(iref) ==
  LET index == IndexOf(iref) IN
  IF \/ indirectRefKind(iref) # kIndirectKindLocal
     \/ index > topIndex \/ index \notin Indices
     \/ slots[index].obj = Null
  THEN Invalid
  ELSE slots[index].obj

(* IndirectRefTable::get.  The serial number takes no part in it. *)
Get(iref) ==
  LET index == IndexOf(iref) IN
  IF \/ indirectRefKind(iref) # kIndirectKindLocal
     \/ index >= topIndex
     \/ slots[index].obj = Null
  THEN Invalid
  ELSE slots[index].obj

(* Mutant: `if` for `while`. *)
SkipOnce(objs, i, capacity) ==
  IF i < capacity /\ objs[i] \in {Null, Cleared} THEN i + 1 ELSE i

(* skipNullsAndTombstones *)
Skip(objs, i, capacity) ==
  LET skip[k \in 0..capacity] ==
        IF k < capacity /\ objs[k] \in {Null, Cleared} THEN skip[k + 1] ELSE k
  IN skip[i]

(* The indices iref_iterator stops at, from its construction to its end.    *)
Visited(objs, capacity) ==
  LET from[i \in 0..capacity] ==
        IF i = capacity THEN << >> ELSE <<i>> \o from[Skip(objs, i + 1, capacity)]
  IN from[Skip(objs, 0, capacity)]

InitTable ==
  /\ slots = [i \in Indices |-> [obj |-> Null, serial |-> 0]]
  /\ topIndex = 0 /\ numHoles = 0 /\ frames = << >>
  /\ live = {}

Bottom == IF frames = << >> THEN 0 ELSE frames[Len(frames)].topIndex
HolesBelow == IF frames = << >> THEN 0 ELSE frames[Len(frames)].numHoles

Put(index, obj, depth) ==
  LET serial == (slots[index].serial + 1) % Serials
      ref == Encode(index, serial)
  IN /\ slots' = [slots EXCEPT ![index] = [obj |-> obj, serial |-> serial]]
     /\ live' = live \cup {[ref |-> ref, obj |-> obj, depth |-> depth]}

HolesHere == {i \in Bottom..topIndex - 1 : slots[i].obj = Null}

(* A reference is added: in a hole of this segment, or on top. *)
Add(obj) ==
  /\ IF numHoles > HolesBelow
     THEN /\ \E i \in HolesHere : (\A j \in HolesHere : j <= i) /\ Put(i, obj, Len(frames))
          /\ numHoles' = numHoles - 1
          /\ UNCHANGED topIndex
     ELSE /\ topIndex < MaxEntries
          /\ Put(topIndex, obj, Len(frames))
          /\ topIndex' = topIndex + 1
          /\ UNCHANGED numHoles
  /\ UNCHANGED frames

(* A reference of this segment is deleted: a hole, or the top of the        *)
(* segment with the holes below it.                                         *)
Remove(entry) ==
  LET index == IndexOf(entry.ref)
      (* the slots above the topmost used one, once this one is empty *)
      used == {i \in Bottom..topIndex - 1 : i # index /\ slots[i].obj # Null}
      newTop == IF used = {} THEN Bottom
                ELSE 1 + (CHOOSE i \in used : \A j \in used : j <= i)
  IN /\ entry \in live /\ entry.depth = Len(frames)
     /\ slots' = [slots EXCEPT ![index].obj = Null]
     /\ IF index = topIndex - 1
        THEN topIndex' = newTop /\ numHoles' = numHoles - (topIndex - 1 - newTop)
        ELSE numHoles' = numHoles + 1 /\ UNCHANGED topIndex
     /\ live' = live \ {entry}
     /\ UNCHANGED frames

(* A native method is called or a local frame pushed ... *)
Push ==
  /\ Len(frames) < MaxDepth
  /\ frames' = Append(frames, [topIndex |-> topIndex, numHoles |-> numHoles])
  /\ UNCHANGED <<slots, topIndex, numHoles, live>>

(* Mutant: the number of holes is not restored. *)
PopKeepsHoles ==
  /\ frames # << >>
  /\ LET cookie == frames[Len(frames)]
         dropped == {entry \in live : entry.depth = Len(frames)}
     IN /\ topIndex' = cookie.topIndex
        /\ live' = live \ dropped
  /\ frames' = SubSeq(frames, 1, Len(frames) - 1)
  /\ UNCHANGED <<slots, numHoles>>

(* ... and left: the segment is dropped, its slots keep their objects. *)
Pop ==
  /\ frames # << >>
  /\ LET cookie == frames[Len(frames)]
         dropped == {entry \in live : entry.depth = Len(frames)}
     IN /\ topIndex' = cookie.topIndex /\ numHoles' = cookie.numHoles
        /\ live' = live \ dropped
  /\ frames' = SubSeq(frames, 1, Len(frames) - 1)
  /\ UNCHANGED slots

TableInit == InitTable

TableNext ==
  \/ \E obj \in Objects : Add(obj)
  \/ \E entry \in live : Remove(entry)
  \/ Push \/ Pop

TableSpec == TableInit /\ [][TableNext]_tableVars

-----------------------------------------------------------------------------
(* Properties. *)

Holes(top) == {i \in 0..top - 1 : slots[i].obj = Null}

(* numHoles is the number of unused slots below the top, and each saved     *)
(* count that of the slots below its edge, so that a segment is popped      *)
(* without a scan (IndirectRefTable.h lines 141-157).                       *)
HolesCounted ==
  /\ numHoles = Cardinality(Holes(topIndex))
  /\ \A d \in DOMAIN frames : frames[d].numHoles = Cardinality(Holes(frames[d].topIndex))

TableTypeOK ==
  /\ slots \in [Indices -> [obj : Objects \cup {Null}, serial : 0..Serials - 1]]
  /\ topIndex \in 0..MaxEntries /\ HolesCounted
  /\ Len(frames) \in 0..MaxDepth

(* A reference that is still good is resolved to its object, whatever was   *)
(* added, deleted, pushed and popped since it was handed out.               *)
LiveResolves == \A entry \in live : Get(entry.ref) = entry.obj

(* Whatever number is looked up - stale, never handed out, of another kind, *)
(* NULL - the answer is the invalid object or one that a good reference to  *)
(* the same slot holds, so one the garbage collector keeps.                 *)
AnswersAreHeld ==
  \A iref \in References :
    Get(iref) # Invalid =>
      \E entry \in live : IndexOf(entry.ref) = IndexOf(iref) /\ entry.obj = Get(iref)

(* An iterator over the table as it is, holes and all, or with any of its   *)
(* objects cleared by the collector, visits the objects that are left and   *)
(* nothing else, each once and in the order of their slots.                 *)
VisitsTheRest ==
  \A cleared \in SUBSET {i \in 0..topIndex - 1 : slots[i].obj # Null} :
    LET objs == [i \in Indices |-> IF i \in cleared THEN Cleared ELSE slots[i].obj]
        visited == Visited(objs, topIndex)
    IN /\ {visited[k] : k \in DOMAIN visited} =
            {i \in 0..topIndex - 1 : slots[i].obj # Null} \ cleared
       /\ \A k \in 1..Len(visited) - 1 : visited[k] < visited[k + 1]

(* What IndirectRefTable.h says of get (line 267: "Returns                  *)
(* kInvalidIndirectRefObject if iref is invalid") with serial numbers in    *)
(* the references (lines 75-89): one with an earlier serial number than the *)
(* slot has now is stale and is not resolved.                               *)
IsEarlier(iref) ==
  IndexOf(iref) \in Indices /\ SerialOf(iref) \in 1..slots[IndexOf(iref)].serial - 1
StaleIsInvalid == \A iref \in References : IsEarlier(iref) => Get(iref) = Invalid

=============================================================================
