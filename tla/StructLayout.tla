---------------------------- MODULE StructLayout ----------------------------
(***************************************************************************)
(* How the compilers of the 32-bit Android machines lay a structure out:    *)
(* members in their order, each at the next multiple of its alignment, the *)
(* whole padded to a multiple of the largest.  On 64-bit machines the       *)
(* native library does not compile: indirectRefKind casts a pointer to u4.  *)
(*                                                                         *)
(* A type is its size and alignment, a structure a sequence of members.     *)
(***************************************************************************)
EXTENDS Integers, Sequences, FiniteSetsExt

Scalar(n) == [size |-> n, align |-> n]

(* int, enum, pointer, size_t, pthread_t and u4 alike.                      *)
Word == Scalar(4)

ArrayType(type, n) == [type EXCEPT !.size = n * @]

One(name, type) == <<[name |-> name, type |-> type]>>
Several(names, type) == [k \in DOMAIN names |-> [name |-> names[k], type |-> type]]
Words(names) == Several(names, Word)

(* Members between #if and #endif. *)
If(flag, members) == IF flag THEN members ELSE << >>

AlignUp(n, align) == ((n + align - 1) \div align) * align

(* The end of each member; the end of none is 0. *)
EndsOf(members) ==
  LET end[k \in 0..Len(members)] ==
        IF k = 0 THEN 0
        ELSE AlignUp(end[k - 1], members[k].type.align) + members[k].type.size
  IN end

Start(members, k) == AlignUp(EndsOf(members)[k - 1], members[k].type.align)

NamesOf(members) == {members[k].name : k \in DOMAIN members}

OffsetOf(members, name) ==
  Start(members, CHOOSE k \in DOMAIN members : members[k].name = name)

StructType(members) ==
  LET align == Max({members[k].type.align : k \in DOMAIN members})
  IN [size |-> AlignUp(EndsOf(members)[Len(members)], align), align |-> align]

UnionType(types) ==
  LET align == Max({type.align : type \in types})
  IN [size |-> AlignUp(Max({type.size : type \in types}), align), align |-> align]

(* __attribute__ ((__packed__)) *)
Packed(members) ==
  [k \in DOMAIN members |-> [members[k] EXCEPT !.type.align = 1]]

=============================================================================
