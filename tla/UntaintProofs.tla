---------------------------- MODULE UntaintProofs ----------------------------
(***************************************************************************)
(* The lookup of references and untaint for every heap, size of the table,  *)
(* width of index and serial number, depth of calls and number of calls.   *)
(* What is said of numbers in both is shown in LayoutProofs.                *)
(***************************************************************************)
EXTENDS Untaint, LayoutProofs

W == 2^IndexBits

LEMMA Width == W \in Nat \ {0} /\ MaxEntries \in Nat \ {0} /\ Indices \subseteq 0..W - 1
               /\ Indices \subseteq Nat
BY IndirectRefTableAssumption DEF W, Indices

(* What a reference encodes comes back from it. *)
LEMMA EncodeIndex ==
  ASSUME NEW index \in Indices, NEW serial \in Nat
  PROVE  /\ IndexOf(Encode(index, serial)) = index
         /\ indirectRefKind(Encode(index, serial)) = kIndirectKindLocal
<1>1. W \in Nat \ {0} /\ index \in 0..W - 1 /\ index \in Nat
  BY Width
<1> DEFINE n == serial * W + index
<1>2. n \in Nat
  BY <1>1
<1>3. Encode(index, serial) = n * 4 + 1
  BY DEF Encode, W, kIndirectKindLocal
<1>4. n % W = index
  BY <1>1, Division
<1> HIDE DEF n
<1>5. (n * 4 + 1) % 4 = 1 /\ (n * 4 + 1) \div 4 = n
  BY <1>2
<1>6. QED
  BY <1>3, <1>4, <1>5 DEF IndexOf, indirectRefKind, W, kIndirectKindLocal

-----------------------------------------------------------------------------
(* The invariant of the table.                                              *)

Frame == [topIndex : Nat, numHoles : Int]

(* Segment d reaches from its edge to the one of the segment above it. *)
EdgeOf(fs, top, d) == IF d = 0 THEN 0 ELSE IF d <= Len(fs) THEN fs[d].topIndex ELSE top
Edge(d) == EdgeOf(frames, topIndex, d)

TableType ==
  /\ slots \in [Indices -> [obj : Objects \cup {Null}, serial : 0..Serials - 1]]
  /\ topIndex \in 0..MaxEntries /\ numHoles \in Int
  /\ frames \in Seq(Frame)

EdgesRise == \A c, d \in 0..Len(frames) + 1 : c <= d => Edge(c) <= Edge(d)

LiveInv ==
  \A e \in live :
    /\ indirectRefKind(e.ref) = kIndirectKindLocal /\ IndexOf(e.ref) \in Indices
    /\ e.depth \in 0..Len(frames)
    /\ Edge(e.depth) <= IndexOf(e.ref) /\ IndexOf(e.ref) < Edge(e.depth + 1)
    /\ e.obj \in Objects /\ slots[IndexOf(e.ref)].obj = e.obj

OneHolder == \A e, f \in live : IndexOf(e.ref) = IndexOf(f.ref) => e = f

Held ==
  \A i \in Indices :
    i < topIndex /\ slots[i].obj # Null => \E e \in live : IndexOf(e.ref) = i

TableInv == TableType /\ EdgesRise /\ LiveInv /\ OneHolder /\ Held

LEMMA EdgeNat == ASSUME TableType, NEW d \in Nat PROVE Edge(d) \in Nat
<1>1. CASE d = 0
  BY <1>1 DEF Edge, EdgeOf
<1>2. CASE d # 0 /\ d <= Len(frames)
  <2>1. frames[d] \in Frame
    BY <1>2 DEF TableType
  <2>2. QED
    BY <1>2, <2>1 DEF Edge, EdgeOf, Frame
<1>3. CASE d # 0 /\ ~(d <= Len(frames))
  BY <1>3, Width DEF Edge, EdgeOf, TableType
<1>4. QED
  BY <1>1, <1>2, <1>3

LEMMA EdgeSame ==
  ASSUME NEW fs \in Seq(Frame), NEW top, NEW top2
  PROVE  /\ \A d \in 0..Len(fs) : EdgeOf(fs, top2, d) = EdgeOf(fs, top, d)
         /\ EdgeOf(fs, top2, Len(fs) + 1) = top2
BY LenProperties DEF EdgeOf

LEMMA EdgeAppend ==
  ASSUME NEW fs \in Seq(Frame), NEW f \in Frame, NEW top2
  PROVE  /\ \A d \in 0..Len(fs) + 1 :
              EdgeOf(Append(fs, f), top2, d) = EdgeOf(fs, f.topIndex, d)
         /\ EdgeOf(Append(fs, f), top2, Len(fs) + 2) = top2
<1>1. /\ Len(Append(fs, f)) = Len(fs) + 1 /\ Len(fs) \in Nat
      /\ \A i \in 1..Len(fs) : Append(fs, f)[i] = fs[i]
      /\ Append(fs, f)[Len(fs) + 1] = f
  BY AppendProperties, LenProperties
<1>2. QED
  BY <1>1 DEF EdgeOf

LEMMA EdgeFront ==
  ASSUME NEW fs \in Seq(Frame), fs # << >>, NEW top
  PROVE  LET fs2 == SubSeq(fs, 1, Len(fs) - 1) IN
         /\ fs2 \in Seq(Frame) /\ Len(fs2) = Len(fs) - 1 /\ Len(fs) \in Nat \ {0}
         /\ fs[Len(fs)] \in Frame
         /\ \A d \in 1..Len(fs) - 1 : fs2[d] = fs[d]
         /\ \A d \in 0..Len(fs) :
              EdgeOf(fs2, fs[Len(fs)].topIndex, d) = EdgeOf(fs, top, d)
<1>1. Len(fs) \in Nat \ {0}
  BY EmptySeq, LenProperties
<1> DEFINE fs2 == SubSeq(fs, 1, Len(fs) - 1)
<1>2. /\ fs2 \in Seq(Frame) /\ Len(fs2) = Len(fs) - 1
      /\ \A i \in 1..Len(fs) - 1 : fs2[i] = fs[i]
  <2> DEFINE n == Len(fs) - 1
  <2>0. \A i \in 1..Len(fs) : fs[i] \in Frame
    BY LenProperties
  <2>1. n \in Int /\ (1 <= n \/ n = 0) /\ n - 1 + 1 = n
    <3>1. \A m \in Nat \ {0} : LET k == m - 1 IN
            k \in Int /\ (1 <= k \/ k = 0) /\ k - 1 + 1 = k
      OBVIOUS
    <3>2. QED
      BY <1>1, <3>1
  <2>7. \A i \in 1..n : fs[i] \in Frame
    <3>1. \A i \in 1..n : i \in 1..Len(fs)
      BY <1>1
    <3>2. QED
      BY <2>0, <3>1
  <2> HIDE DEF n
  <2>2. /\ SubSeq(fs, 1, n) \in Seq(Frame)
        /\ Len(SubSeq(fs, 1, n)) = IF 1 <= n THEN n - 1 + 1 ELSE 0
        /\ \A i \in 1..n - 1 + 1 : SubSeq(fs, 1, n)[i] = fs[1 + i - 1]
    BY <2>1, <2>7, SubSeqProperties
  <2>3. Len(SubSeq(fs, 1, n)) = n
    BY <2>1, <2>2
  <2>4. \A i \in 1..n : 1 + i - 1 = i
    BY <2>1
  <2>5. \A i \in 1..n : SubSeq(fs, 1, n)[i] = fs[i]
    BY <2>1, <2>2, <2>4
  <2>6. QED
    BY <2>2, <2>3, <2>5 DEF n
<1>3. fs[Len(fs)] \in Frame
  BY <1>1
<1> HIDE DEF fs2
<1>4. \A d \in 0..Len(fs) : EdgeOf(fs2, fs[Len(fs)].topIndex, d) = EdgeOf(fs, top, d)
  BY <1>1, <1>2 DEF EdgeOf
<1>5. QED
  BY <1>1, <1>2, <1>3, <1>4 DEF fs2

LEMMA TableStart == InitTable => TableInv
<1> SUFFICES ASSUME InitTable PROVE TableInv
  OBVIOUS
<1> USE DEF InitTable
<1>1. TableType
  BY Width, IndirectRefTableAssumption, EmptySeq DEF TableType
<1>2. EdgesRise
  BY DEF EdgesRise, Edge, EdgeOf
<1>3. QED
  BY <1>1, <1>2 DEF TableInv, LiveInv, OneHolder, Held

(* A reference put in a slot that no reference holds.                       *)
LEMMA Placed ==
  ASSUME TableInv, NEW index \in Indices, NEW object \in Objects, NEW depth,
         \A e \in live : IndexOf(e.ref) # index, Put(index, object, depth)
  PROVE  /\ slots' \in [Indices -> [obj : Objects \cup {Null}, serial : 0..Serials - 1]]
         /\ slots'[index].obj = object
         /\ \A i \in Indices : i # index => slots'[i] = slots[i]
         /\ \E new : /\ new = [ref |-> Encode(index, slots'[index].serial),
                               obj |-> object, depth |-> depth]
                     /\ new.obj = object /\ new.depth = depth
                     /\ live' = live \cup {new}
                     /\ IndexOf(new.ref) = index
                     /\ indirectRefKind(new.ref) = kIndirectKindLocal
         /\ OneHolder'
<1> DEFINE serial == (slots[index].serial + 1) % Serials
           new == [ref |-> Encode(index, serial), obj |-> object, depth |-> depth]
<1>1. serial \in 0..Serials - 1 /\ serial \in Nat
  BY IndirectRefTableAssumption DEF TableInv, TableType
<1>2. /\ slots' = [slots EXCEPT ![index] = [obj |-> object, serial |-> serial]]
      /\ live' = live \cup {new}
  BY DEF Put
<1> HIDE DEF serial
<1>3. /\ slots' \in [Indices -> [obj : Objects \cup {Null}, serial : 0..Serials - 1]]
      /\ slots'[index] = [obj |-> object, serial |-> serial]
      /\ \A i \in Indices : i # index => slots'[i] = slots[i]
  BY <1>1, <1>2 DEF TableInv, TableType
<1>4. IndexOf(new.ref) = index /\ indirectRefKind(new.ref) = kIndirectKindLocal
  BY <1>1, EncodeIndex
<1> HIDE DEF new
<1>5. OneHolder'
  BY <1>2, <1>4 DEF OneHolder, TableInv
<1>6. /\ new = [ref |-> Encode(index, slots'[index].serial), obj |-> object, depth |-> depth]
      /\ new.obj = object /\ new.depth = depth
  BY <1>3 DEF new
<1>7. QED
  BY <1>2, <1>3, <1>4, <1>5, <1>6

(* The references of closed segments keep their place when the edges below  *)
(* the top do.                                                              *)
LEMMA Top == ASSUME TableInv
  PROVE  /\ Len(frames) \in Nat /\ Edge(Len(frames) + 1) = topIndex
         /\ Bottom = Edge(Len(frames)) /\ Bottom \in Nat /\ topIndex \in Nat
         /\ \A d \in 0..Len(frames) + 1 : Edge(d) \in Nat /\ Edge(d) <= topIndex
         /\ \A e \in live : IndexOf(e.ref) < topIndex
<1>1. Len(frames) \in Nat /\ topIndex \in Nat
  BY Width, LenProperties DEF TableInv, TableType
<1>2. Edge(Len(frames) + 1) = topIndex
  BY <1>1 DEF Edge, EdgeOf
<1>3. Bottom = Edge(Len(frames))
  <2>1. CASE frames = << >>
    BY <2>1 DEF Edge, EdgeOf, Bottom
  <2>2. CASE frames # << >>
    <3>1. Len(frames) # 0
      BY <2>2, EmptySeq DEF TableInv, TableType
    <3>2. QED
      BY <1>1, <2>2, <3>1 DEF Edge, EdgeOf, Bottom
  <2>3. QED
    BY <2>1, <2>2
<1>4. \A d \in 0..Len(frames) + 1 : Edge(d) \in Nat /\ Edge(d) <= topIndex
  <2>1. \A d \in 0..Len(frames) + 1 : d \in Nat /\ d <= Len(frames) + 1
    BY <1>1
  <2>2. QED
    BY <1>1, <1>2, <2>1, EdgeNat DEF TableInv, EdgesRise
<1>5. \A e \in live : IndexOf(e.ref) < topIndex
  <2> SUFFICES ASSUME NEW e \in live PROVE IndexOf(e.ref) < topIndex
    OBVIOUS
  <2>1. e.depth + 1 \in 0..Len(frames) + 1
    BY <1>1 DEF TableInv, LiveInv
  <2>2. IndexOf(e.ref) < Edge(e.depth + 1) /\ IndexOf(e.ref) \in Nat
    BY Width DEF TableInv, LiveInv
  <2>3. QED
    BY <1>1, <1>4, <2>1, <2>2
<1>6. QED
  BY <1>1, <1>2, <1>3, <1>4, <1>5

LEMMA PushStep == ASSUME TableInv, Push PROVE TableInv'
<1> DEFINE f == [topIndex |-> topIndex, numHoles |-> numHoles]
<1>1. f \in Frame /\ f.topIndex = topIndex /\ frames' = Append(frames, f)
  BY Top DEF Push, Frame, TableInv, TableType
<1> HIDE DEF f
<1>2. /\ Len(frames') = Len(frames) + 1 /\ frames' \in Seq(Frame) /\ Len(frames) \in Nat
      /\ \A d \in 0..Len(frames) + 1 : Edge(d)' = Edge(d)
      /\ \A d : d = Len(frames) + 2 => Edge(d)' = topIndex
  <2>1. frames \in Seq(Frame) /\ topIndex' = topIndex
    BY DEF Push, TableInv, TableType
  <2>2. Len(frames') = Len(frames) + 1 /\ frames' \in Seq(Frame) /\ Len(frames) \in Nat
    BY <1>1, <2>1, AppendProperties, Top
  <2>3. /\ \A d \in 0..Len(frames) + 1 :
              EdgeOf(Append(frames, f), topIndex, d) = EdgeOf(frames, f.topIndex, d)
        /\ EdgeOf(Append(frames, f), topIndex, Len(frames) + 2) = topIndex
    BY <1>1, <2>1, EdgeAppend
  <2>4. QED
    BY <1>1, <2>1, <2>2, <2>3 DEF Edge
<1>3. EdgesRise'
  <2> SUFFICES ASSUME NEW c \in 0..Len(frames) + 2, NEW d \in 0..Len(frames) + 2, c <= d
               PROVE  Edge(c)' <= Edge(d)'
    BY <1>2 DEF EdgesRise
  <2>1. CASE d \in 0..Len(frames) + 1
    <3>1. c \in 0..Len(frames) + 1
      BY <1>2, <2>1
    <3>2. QED
      BY <1>2, <2>1, <3>1 DEF EdgesRise, TableInv
  <2>2. CASE d = Len(frames) + 2
    <3>1. Edge(d)' = topIndex /\ topIndex \in Nat
      BY <1>2, <2>2, Top
    <3>2. CASE c \in 0..Len(frames) + 1
      BY <1>2, <3>1, <3>2, Top
    <3>3. CASE c = Len(frames) + 2
      BY <3>1, <2>2, <3>3
    <3>4. QED
      BY <1>2, <3>2, <3>3
  <2>3. QED
    BY <1>2, <2>1, <2>2
<1>4. LiveInv'
  <2> SUFFICES ASSUME NEW e \in live'
               PROVE  /\ indirectRefKind(e.ref) = kIndirectKindLocal
                      /\ IndexOf(e.ref) \in Indices /\ e.depth \in 0..Len(frames')
                      /\ Edge(e.depth)' <= IndexOf(e.ref)
                      /\ IndexOf(e.ref) < Edge(e.depth + 1)'
                      /\ e.obj \in Objects /\ slots'[IndexOf(e.ref)].obj = e.obj
    BY DEF LiveInv
  <2>1. e \in live /\ slots' = slots
    BY DEF Push
  <2>2. e.depth \in 0..Len(frames)
    BY <2>1 DEF TableInv, LiveInv
  <2>3. e.depth \in 0..Len(frames) + 1 /\ e.depth + 1 \in 0..Len(frames) + 1
    BY <1>2, <2>2
  <2>4. e.depth \in 0..Len(frames')
    BY <1>2, <2>2
  <2>5. QED
    BY <1>2, <2>1, <2>3, <2>4 DEF TableInv, LiveInv
<1>5. QED
  BY <1>2, <1>3, <1>4 DEF TableInv, TableType, OneHolder, Held, Push

LEMMA PopStep == ASSUME TableInv, Pop PROVE TableInv'
<1> DEFINE n == Len(frames)
           dropped == {e \in live : e.depth = n}
<1>1. /\ frames # << >> /\ frames \in Seq(Frame)
      /\ frames' = SubSeq(frames, 1, n - 1) /\ topIndex' = frames[n].topIndex
      /\ numHoles' = frames[n].numHoles /\ live' = live \ dropped /\ slots' = slots
  BY DEF Pop, TableInv, TableType
<1>2. /\ n \in Nat \ {0} /\ frames' \in Seq(Frame) /\ Len(frames') = n - 1
      /\ frames[n] \in Frame
      /\ \A d \in 0..n : Edge(d)' = Edge(d)
  BY <1>1, EdgeFront DEF Edge
<1>3. Edge(n) = topIndex' /\ Edge(n) <= topIndex /\ Edge(n) \in Nat
  <2>1. Edge(n) = topIndex'
    BY <1>1, <1>2 DEF Edge, EdgeOf
  <2>2. n \in 0..n + 1
    BY <1>2
  <2>3. QED
    BY <2>1, <2>2, Top
<1> HIDE DEF n
<1>4. TableType'
  <2>1. topIndex' \in 0..MaxEntries
    <3>1. topIndex \in 0..MaxEntries /\ MaxEntries \in Nat
      BY Width DEF TableInv, TableType
    <3>2. QED
      BY <1>3, <3>1
  <2>2. numHoles' \in Int
    BY <1>1, <1>2 DEF Frame
  <2>3. QED
    BY <1>1, <1>2, <2>1, <2>2 DEF TableInv, TableType
<1>5. EdgesRise'
  <2> SUFFICES ASSUME NEW c \in 0..n, NEW d \in 0..n, c <= d PROVE Edge(c)' <= Edge(d)'
    BY <1>2 DEF EdgesRise
  <2>1. c \in 0..n + 1 /\ d \in 0..n + 1
    BY <1>2
  <2>2. QED
    BY <1>2, <2>1 DEF EdgesRise, TableInv, n
<1>6. \A e \in live' : /\ e \in live /\ e.depth \in 0..n - 1 /\ e.depth \in 0..n
                       /\ e.depth + 1 \in 0..n
  <2> SUFFICES ASSUME NEW e \in live' PROVE e \in live /\ e.depth \in 0..n - 1
    BY <1>2
  <2>1. e \in live /\ e.depth # n
    BY <1>1
  <2>2. e.depth \in 0..n
    BY <2>1 DEF TableInv, LiveInv, n
  <2>3. QED
    BY <1>2, <2>1, <2>2
<1>7. LiveInv'
  BY <1>1, <1>2, <1>6 DEF TableInv, LiveInv
<1>8. OneHolder'
  BY <1>6 DEF TableInv, OneHolder
<1>9. Held'
  <2> SUFFICES ASSUME NEW i \in Indices, i < topIndex', slots[i].obj # Null
               PROVE  \E e \in live' : IndexOf(e.ref) = i
    BY <1>1 DEF Held
  <2>1. i \in Nat /\ i < topIndex
    BY <1>3, Top, Width
  <2>2. PICK e \in live : IndexOf(e.ref) = i
    BY <2>1 DEF TableInv, Held
  <2>3. Edge(e.depth) <= i
    BY <2>2 DEF TableInv, LiveInv
  <2>4. e.depth # n
    BY <1>3, <2>1, <2>3
  <2>5. QED
    BY <1>1, <2>2, <2>4
<1>10. QED
  BY <1>4, <1>5, <1>7, <1>8, <1>9 DEF TableInv

(* A new top of the innermost segment, no lower than its bottom. *)
LEMMA NewTop ==
  ASSUME TableInv, frames' = frames, topIndex' \in Nat, Edge(Len(frames)) <= topIndex'
  PROVE  /\ EdgesRise'
         /\ \A d \in 0..Len(frames) : Edge(d)' = Edge(d)
         /\ \A d : d = Len(frames) + 1 => Edge(d)' = topIndex'
<1>1. frames \in Seq(Frame) /\ Len(frames) \in Nat
  BY Top DEF TableInv, TableType
<1>2. \A d \in 0..Len(frames) : Edge(d)' = Edge(d)
  BY <1>1, EdgeSame DEF Edge
<1>3. \A d : d = Len(frames) + 1 => Edge(d)' = topIndex'
  BY <1>1, EdgeSame DEF Edge
<1>4. \A d \in 0..Len(frames) : Edge(d) <= Edge(Len(frames)) /\ Edge(d) \in Nat
  <2> SUFFICES ASSUME NEW d \in 0..Len(frames)
               PROVE  Edge(d) <= Edge(Len(frames)) /\ Edge(d) \in Nat
    OBVIOUS
  <2>1. /\ d \in 0..Len(frames) + 1 /\ Len(frames) \in 0..Len(frames) + 1
        /\ d <= Len(frames)
    BY <1>1
  <2>2. QED
    BY <2>1, Top DEF TableInv, EdgesRise
<1>5. EdgesRise'
  <2> SUFFICES ASSUME NEW c \in 0..Len(frames) + 1, NEW d \in 0..Len(frames) + 1, c <= d
               PROVE  Edge(c)' <= Edge(d)'
    BY DEF EdgesRise
  <2>1. CASE d \in 0..Len(frames)
    <3>1. c \in 0..Len(frames)
      BY <1>1, <2>1
    <3>2. c \in 0..Len(frames) + 1 /\ d \in 0..Len(frames) + 1
      BY <1>1, <2>1
    <3>3. QED
      BY <1>2, <2>1, <3>1, <3>2 DEF EdgesRise, TableInv
  <2>2. CASE d = Len(frames) + 1 /\ c \in 0..Len(frames)
    <3>1. Len(frames) \in 0..Len(frames)
      BY <1>1
    <3>2. Edge(Len(frames)) \in Nat /\ Edge(c) \in Nat /\ Edge(c) <= Edge(Len(frames))
      BY <1>4, <2>2, <3>1
    <3>3. Edge(c)' = Edge(c) /\ Edge(d)' = topIndex'
      BY <1>2, <1>3, <2>2
    <3>4. QED
      BY <3>2, <3>3
  <2>3. CASE d = Len(frames) + 1 /\ c = Len(frames) + 1
    BY <1>3, <2>3
  <2>4. QED
    BY <1>1, <2>1, <2>2, <2>3
<1>6. QED
  BY <1>2, <1>3, <1>5

(* A reference is added at the top of the stack of segments. *)
LEMMA Added ==
  ASSUME TableInv, NEW index \in Indices, NEW object \in Objects, NEW depth \in Nat,
         Put(index, object, depth), \A e \in live : IndexOf(e.ref) # index,
         frames' \in Seq(Frame), topIndex' \in 0..MaxEntries, numHoles' \in Int,
         depth = Len(frames'), Len(frames) <= depth, EdgesRise',
         \A d \in 0..Len(frames) :
           Edge(d)' \in Nat /\ Edge(d)' <= Edge(d) /\ Edge(d + 1)' \in Nat
           /\ Edge(d + 1) <= Edge(d + 1)',
         Edge(depth)' <= index, index < Edge(depth + 1)',
         \A i \in Indices : i < topIndex' /\ i # index => i < topIndex
  PROVE  TableInv'
<1>1. /\ slots' \in [Indices -> [obj : Objects \cup {Null}, serial : 0..Serials - 1]]
      /\ slots'[index].obj = object
      /\ \A i \in Indices : i # index => slots'[i] = slots[i]
      /\ OneHolder'
  BY Placed
<1>2. PICK new : /\ new = [ref |-> Encode(index, slots'[index].serial),
                            obj |-> object, depth |-> depth]
                 /\ new.obj = object /\ new.depth = depth
                 /\ live' = live \cup {new}
                 /\ IndexOf(new.ref) = index
                 /\ indirectRefKind(new.ref) = kIndirectKindLocal
  BY Placed
<1>3. LiveInv'
  <2> SUFFICES ASSUME NEW e \in live'
               PROVE  /\ indirectRefKind(e.ref) = kIndirectKindLocal
                      /\ IndexOf(e.ref) \in Indices /\ e.depth \in 0..depth
                      /\ Edge(e.depth)' <= IndexOf(e.ref)
                      /\ IndexOf(e.ref) < Edge(e.depth + 1)'
                      /\ e.obj \in Objects /\ slots'[IndexOf(e.ref)].obj = e.obj
    BY DEF LiveInv
  <2>1. CASE e = new
    BY <1>1, <1>2, <2>1
  <2>2. CASE e \in live
    <3>1. /\ e.depth \in 0..Len(frames) /\ IndexOf(e.ref) \in Indices
          /\ Edge(e.depth) <= IndexOf(e.ref) /\ IndexOf(e.ref) < Edge(e.depth + 1)
          /\ indirectRefKind(e.ref) = kIndirectKindLocal
          /\ e.obj \in Objects /\ slots[IndexOf(e.ref)].obj = e.obj
      BY <2>2 DEF TableInv, LiveInv
    <3>2. /\ e.depth \in 0..depth
          /\ e.depth \in 0..Len(frames) + 1 /\ e.depth + 1 \in 0..Len(frames) + 1
      <4>1. Len(frames) \in Nat
        BY Top
      <4>2. QED
        BY <3>1, <4>1
    <3>3. Edge(e.depth) \in Nat /\ Edge(e.depth + 1) \in Nat /\ IndexOf(e.ref) \in Nat
      BY <3>1, <3>2, Top, Width
    <3>4. Edge(e.depth)' <= IndexOf(e.ref)
      BY <3>1, <3>3
    <3>5. IndexOf(e.ref) < Edge(e.depth + 1)'
      BY <3>1, <3>3
    <3>6. slots'[IndexOf(e.ref)].obj = e.obj
      BY <1>1, <2>2, <3>1
    <3>7. QED
      BY <3>1, <3>2, <3>4, <3>5, <3>6
  <2>3. QED
    BY <1>2, <2>1, <2>2
<1>4. Held'
  BY <1>1, <1>2 DEF Held, TableInv
<1>5. TableType'
  BY <1>1 DEF TableType
<1>6. QED
  BY <1>1, <1>3, <1>4, <1>5 DEF TableInv

LEMMA AddStep == ASSUME TableInv, NEW object \in Objects, Add(object) PROVE TableInv'
<1> DEFINE n == Len(frames)
<1>1. /\ n \in Nat /\ frames' = frames /\ frames \in Seq(Frame) /\ numHoles \in Int
      /\ Edge(n) = Bottom /\ Bottom \in Nat /\ topIndex \in Nat /\ Bottom <= topIndex
      /\ topIndex \in 0..MaxEntries /\ Edge(n + 1) = topIndex
  <2>1. n \in 0..n + 1
    BY Top
  <2>2. QED
    BY <2>1, Top DEF Add, TableInv, TableType
<1>2. PICK i : /\ i \in Indices /\ Put(i, object, n) /\ \A e \in live : IndexOf(e.ref) # i
               /\ Bottom <= i /\ i < topIndex' /\ numHoles' \in Int
               /\ \/ topIndex' = topIndex
                  \/ topIndex' = topIndex + 1 /\ i = topIndex /\ topIndex < MaxEntries
  <2>1. CASE numHoles > HolesBelow
    <3>1. PICK i \in HolesHere : Put(i, object, n)
      BY <2>1 DEF Add
    <3>2. /\ i \in Indices /\ Bottom <= i /\ i < topIndex /\ slots[i].obj = Null
      BY <1>1, <3>1, Width DEF HolesHere, Indices
    <3>3. \A e \in live : IndexOf(e.ref) # i
      BY <3>2, IndirectRefTableAssumption DEF TableInv, LiveInv
    <3>4. topIndex' = topIndex /\ numHoles' \in Int
      BY <1>1, <2>1 DEF Add
    <3>5. QED
      BY <3>1, <3>2, <3>3, <3>4
  <2>2. CASE ~(numHoles > HolesBelow)
    <3>1. /\ topIndex < MaxEntries /\ Put(topIndex, object, n)
          /\ topIndex' = topIndex + 1 /\ numHoles' = numHoles
      BY <2>2 DEF Add
    <3>2. topIndex \in Indices /\ topIndex < topIndex'
      BY <1>1, <3>1, Width DEF Indices
    <3>3. \A e \in live : IndexOf(e.ref) < topIndex /\ IndexOf(e.ref) \in Nat
      BY Top, Width DEF TableInv, LiveInv
    <3>4. \A e \in live : IndexOf(e.ref) # topIndex
      BY <1>1, <3>3
    <3>5. QED
      BY <1>1, <3>1, <3>2, <3>4
  <2>3. QED
    BY <2>1, <2>2
<1>3. topIndex' \in 0..MaxEntries /\ topIndex' \in Nat /\ topIndex <= topIndex'
  BY <1>1, <1>2, Width
<1>4. Edge(n) <= topIndex'
  BY <1>1, <1>3
<1>5. /\ EdgesRise'
      /\ \A d \in 0..n : Edge(d)' = Edge(d)
      /\ \A d : d = n + 1 => Edge(d)' = topIndex'
  BY <1>1, <1>3, <1>4, NewTop
<1> HIDE DEF n
<1>6. \A d \in 0..n : Edge(d) \in Nat /\ Edge(d)' = Edge(d) /\ Edge(d)' <= Edge(d)
  <2> SUFFICES ASSUME NEW d \in 0..n PROVE Edge(d) \in Nat /\ Edge(d) <= Edge(d)
    BY <1>5
  <2>1. d \in Nat
    BY <1>1
  <2>2. QED
    BY <2>1, EdgeNat DEF TableInv
<1>7. \A d \in 0..n : Edge(d + 1)' \in Nat /\ Edge(d + 1) <= Edge(d + 1)'
  <2> SUFFICES ASSUME NEW d \in 0..n
               PROVE  Edge(d + 1)' \in Nat /\ Edge(d + 1) <= Edge(d + 1)'
    OBVIOUS
  <2>1. CASE d + 1 \in 0..n
    BY <1>6, <2>1
  <2>2. CASE d + 1 = n + 1
    <3>1. Edge(d + 1) = topIndex /\ Edge(d + 1)' = topIndex'
      BY <1>1, <1>5, <2>2
    <3>2. QED
      BY <1>3, <3>1
  <2>3. QED
    BY <1>1, <2>1, <2>2
<1>8. Edge(n)' <= i /\ i < Edge(n + 1)'
  <2>1. n \in 0..n
    BY <1>1
  <2>2. Edge(n + 1)' = topIndex' /\ Edge(n)' = Bottom
    BY <1>1, <1>5, <2>1 DEF n
  <2>3. QED
    BY <1>2, <2>2
<1>9. \A j \in Indices : j < topIndex' /\ j # i => j < topIndex
  BY <1>1, <1>2, Width
<1>10. QED
  BY <1>1, <1>2, <1>3, <1>5, <1>6, <1>7, <1>8, <1>9, Added DEF n

(* What deleting a reference does: its slot is free, and above the new top  *)
(* no slot of the segment is in use.                                        *)
LEMMA Removed ==
  ASSUME TableInv, NEW entry \in live, Remove(entry)
  PROVE  LET index == IndexOf(entry.ref) IN
         /\ index \in Indices /\ index \in Nat /\ Bottom <= index /\ index < topIndex
         /\ slots' = [slots EXCEPT ![index].obj = Null] /\ slots[index].obj # Null
         /\ live' = live \ {entry} /\ frames' = frames /\ entry.depth = Len(frames)
         /\ topIndex' \in Nat /\ Bottom <= topIndex' /\ topIndex' <= topIndex
         /\ topIndex' \in 0..MaxEntries /\ numHoles' \in Int
         /\ \A j \in Bottom..topIndex - 1 :
              j # index /\ slots[j].obj # Null => j < topIndex'
         /\ index = topIndex - 1 => numHoles' = numHoles - (topIndex - 1 - topIndex')
         /\ index # topIndex - 1 => numHoles' = numHoles + 1 /\ topIndex' = topIndex
<1> DEFINE n == Len(frames)
           index == IndexOf(entry.ref)
           used == {i \in Bottom..topIndex - 1 : i # index /\ slots[i].obj # Null}
           newTop == IF used = {} THEN Bottom
                     ELSE 1 + (CHOOSE i \in used : \A j \in used : j <= i)
<1>1. /\ n \in Nat /\ frames' = frames /\ frames \in Seq(Frame) /\ numHoles \in Int
      /\ Edge(n) = Bottom /\ Bottom \in Nat /\ topIndex \in Nat
      /\ topIndex \in 0..MaxEntries /\ Edge(n + 1) = topIndex
      /\ entry.depth = n /\ slots' = [slots EXCEPT ![index].obj = Null]
      /\ live' = live \ {entry}
      /\ IF index = topIndex - 1
         THEN topIndex' = newTop /\ numHoles' = numHoles - (topIndex - 1 - newTop)
         ELSE numHoles' = numHoles + 1 /\ topIndex' = topIndex
  BY Top DEF Remove, TableInv, TableType
<1>2. index \in Indices /\ index \in Nat /\ Bottom <= index /\ index < topIndex
  BY <1>1, Width DEF TableInv, LiveInv
<1>3. slots[index].obj # Null
  BY IndirectRefTableAssumption DEF TableInv, LiveInv
<1>4. /\ newTop \in Nat /\ Bottom <= newTop /\ newTop <= topIndex
      /\ \A j \in used : j < newTop
  <2>1. CASE used = {}
    BY <1>1, <1>2, <2>1
  <2>2. CASE used # {}
    <3>1. used \subseteq Bottom..topIndex - 1 /\ used \subseteq Int
      BY <1>1
    <3>2. IsFiniteSet(used)
      <4>1. topIndex - 1 \in Int /\ Bottom \in Int
        BY <1>1
      <4> HIDE DEF used
      <4>2. IsFiniteSet(Bottom..topIndex - 1)
        BY <4>1, FS_Interval
      <4>3. QED
        BY <3>1, <4>2, FS_Subset
    <3> HIDE DEF used
    <3>3. \E i \in used : \A j \in used : j <= i
      BY <2>2, <3>1, <3>2, Greatest
    <3> DEFINE max == CHOOSE i \in used : \A j \in used : j <= i
    <3>4. max \in used /\ \A j \in used : j <= max
      BY <3>3
    <3>5. newTop = 1 + max
      BY <2>2
    <3> HIDE DEF max, newTop
    <3>6. max \in Bottom..topIndex - 1 /\ \A j \in used : j \in Int
      BY <3>1, <3>4
    <3>7. QED
      BY <1>1, <3>4, <3>5, <3>6
  <2>3. QED
    BY <2>1, <2>2
<1> HIDE DEF newTop
<1>5. /\ topIndex' \in Nat /\ Bottom <= topIndex' /\ topIndex' <= topIndex
      /\ numHoles' \in Int
  BY <1>1, <1>2, <1>4
<1>6. topIndex' \in 0..MaxEntries
  BY <1>1, <1>5, Width
<1>7. \A j \in used : j < topIndex
  BY <1>1
<1>8. \A j \in used : j < topIndex'
  BY <1>1, <1>4, <1>7
<1>9. QED
  BY <1>1, <1>2, <1>3, <1>5, <1>6, <1>8

LEMMA RemoveStep == ASSUME TableInv, NEW entry \in live, Remove(entry) PROVE TableInv'
<1> DEFINE n == Len(frames)
           index == IndexOf(entry.ref)
           used == {i \in Bottom..topIndex - 1 : i # index /\ slots[i].obj # Null}
<1>1. /\ n \in Nat /\ frames' = frames /\ frames \in Seq(Frame)
      /\ Edge(n) = Bottom /\ Bottom \in Nat /\ topIndex \in Nat
      /\ topIndex \in 0..MaxEntries /\ Edge(n + 1) = topIndex
      /\ entry.depth = n /\ slots' = [slots EXCEPT ![index].obj = Null]
      /\ live' = live \ {entry}
  BY Top, Removed DEF TableInv, TableType
<1>2. index \in Indices /\ index \in Nat /\ Bottom <= index /\ index < topIndex
  BY Removed
<1>3. \A e \in live' : IndexOf(e.ref) # index /\ e \in live
  BY <1>1 DEF TableInv, OneHolder
<1>5. /\ topIndex' \in Nat /\ Bottom <= topIndex' /\ topIndex' <= topIndex
      /\ topIndex' \in 0..MaxEntries /\ numHoles' \in Int
      /\ \A j \in used : j < topIndex'
  BY Removed
<1>6. /\ EdgesRise'
      /\ \A d \in 0..n : Edge(d)' = Edge(d)
      /\ \A d : d = n + 1 => Edge(d)' = topIndex'
  BY <1>1, <1>5, NewTop
<1>7. /\ slots' \in [Indices -> [obj : Objects \cup {Null}, serial : 0..Serials - 1]]
      /\ \A i \in Indices : i # index => slots'[i] = slots[i]
      /\ slots'[index].obj = Null
  BY <1>1, <1>2 DEF TableInv, TableType
<1> HIDE DEF n
<1>8. LiveInv'
  <2> SUFFICES ASSUME NEW e \in live'
               PROVE  /\ indirectRefKind(e.ref) = kIndirectKindLocal
                      /\ IndexOf(e.ref) \in Indices /\ e.depth \in 0..n
                      /\ Edge(e.depth)' <= IndexOf(e.ref)
                      /\ IndexOf(e.ref) < Edge(e.depth + 1)'
                      /\ e.obj \in Objects /\ slots'[IndexOf(e.ref)].obj = e.obj
    BY <1>1 DEF LiveInv, n
  <2>1. /\ e \in live /\ IndexOf(e.ref) # index
        /\ e.depth \in 0..n /\ IndexOf(e.ref) \in Indices /\ IndexOf(e.ref) \in Nat
        /\ Edge(e.depth) <= IndexOf(e.ref) /\ IndexOf(e.ref) < Edge(e.depth + 1)
        /\ indirectRefKind(e.ref) = kIndirectKindLocal
        /\ e.obj \in Objects /\ slots[IndexOf(e.ref)].obj = e.obj
    BY <1>3, Width DEF TableInv, LiveInv, n
  <2>2. Edge(e.depth)' <= IndexOf(e.ref)
    BY <1>6, <2>1
  <2>3. CASE e.depth = n
    <3>1. IndexOf(e.ref) \in used
      <4>1. Bottom <= IndexOf(e.ref) /\ IndexOf(e.ref) < topIndex
        BY <1>1, <2>1, <2>3 DEF n
      <4>2. slots[IndexOf(e.ref)].obj # Null
        BY <2>1, IndirectRefTableAssumption
      <4>3. IndexOf(e.ref) \in Bottom..topIndex - 1
        BY <1>1, <2>1, <4>1
      <4>4. QED
        BY <2>1, <4>2, <4>3
    <3>2. Edge(e.depth + 1)' = topIndex'
      BY <1>6, <2>3
    <3>3. QED
      BY <1>5, <1>7, <2>1, <2>2, <3>1, <3>2
  <2>4. CASE e.depth # n
    <3>1. e.depth + 1 \in 0..n
      BY <1>1, <2>1, <2>4
    <3>2. Edge(e.depth + 1)' = Edge(e.depth + 1)
      BY <1>6, <3>1
    <3>3. QED
      BY <1>7, <2>1, <2>2, <3>2
  <2>5. QED
    BY <2>3, <2>4
<1>9. Held'
  <2> SUFFICES ASSUME NEW i \in Indices, i < topIndex', slots'[i].obj # Null
               PROVE  \E e \in live' : IndexOf(e.ref) = i
    BY DEF Held
  <2>1. i # index /\ i < topIndex /\ slots[i].obj # Null
    BY <1>1, <1>5, <1>7, Width
  <2>2. PICK e \in live : IndexOf(e.ref) = i
    BY <2>1 DEF TableInv, Held
  <2>3. QED
    BY <1>1, <2>1, <2>2
<1>10. TableType' /\ OneHolder'
  BY <1>1, <1>3, <1>5, <1>7 DEF TableInv, TableType, OneHolder
<1>11. QED
  BY <1>6, <1>8, <1>9, <1>10 DEF TableInv

LEMMA TableStep == ASSUME TableInv, [TableNext]_tableVars PROVE TableInv'
<1>1. CASE UNCHANGED tableVars
  BY <1>1 DEF tableVars, TableInv, TableType, EdgesRise, Edge, LiveInv, OneHolder, Held
<1>2. CASE TableNext
  BY <1>2, AddStep, RemoveStep, PushStep, PopStep DEF TableNext
<1>3. QED
  BY <1>1, <1>2

LEMMA Resolves == TableInv => LiveResolves
<1> SUFFICES ASSUME TableInv, NEW entry \in live PROVE Get(entry.ref) = entry.obj
  BY DEF LiveResolves
<1>1. /\ IndexOf(entry.ref) < topIndex /\ IndexOf(entry.ref) \in Nat
      /\ indirectRefKind(entry.ref) = kIndirectKindLocal
      /\ slots[IndexOf(entry.ref)].obj = entry.obj /\ entry.obj # Null
  BY Top, Width, IndirectRefTableAssumption DEF TableInv, LiveInv
<1>2. ~(IndexOf(entry.ref) >= topIndex)
  BY <1>1, Top
<1>3. QED
  BY <1>1, <1>2 DEF Get

LEMMA Answers == TableInv => AnswersAreHeld
<1> SUFFICES ASSUME TableInv, NEW iref \in References, Get(iref) # Invalid
             PROVE  \E e \in live : IndexOf(e.ref) = IndexOf(iref) /\ e.obj = Get(iref)
  BY DEF AnswersAreHeld
<1>1. /\ ~(IndexOf(iref) >= topIndex) /\ slots[IndexOf(iref)].obj # Null
      /\ Get(iref) = slots[IndexOf(iref)].obj
  BY DEF Get
<1>2. IndexOf(iref) \in Nat
  <2>1. iref \in Nat
    BY DEF References
  <2>2. iref \div 4 \in Nat
    BY <2>1
  <2>3. (iref \div 4) % W \in Nat
    BY <2>2, Width
  <2>4. QED
    BY <2>3 DEF IndexOf, W
<1>3. IndexOf(iref) \in Indices /\ IndexOf(iref) < topIndex
  BY <1>1, <1>2, Width, Top DEF Indices, TableInv, TableType
<1>4. PICK e \in live : IndexOf(e.ref) = IndexOf(iref)
  BY <1>1, <1>3 DEF TableInv, Held
<1>5. e.obj = Get(iref)
  BY <1>1, <1>4 DEF TableInv, LiveInv
<1>6. QED
  BY <1>4, <1>5

-----------------------------------------------------------------------------
(* The count of holes.  A change of a slot is above the edges of the closed *)
(* segments, so that their saved counts stay right.                         *)

NullsBelow(s, top) == {i \in 0..top - 1 : s[i].obj = Null}

LEMMA HolesFinite ==
  ASSUME NEW s, NEW top \in Nat
  PROVE  /\ IsFiniteSet(NullsBelow(s, top)) /\ Cardinality(NullsBelow(s, top)) \in Nat
<1>1. IsFiniteSet(0..top - 1)
  BY FS_Interval
<1>2. NullsBelow(s, top) \in SUBSET (0..top - 1)
  BY DEF NullsBelow
<1>3. QED
  BY <1>1, <1>2, FS_Subset, FS_CardinalityType

LEMMA HoleFilled ==
  ASSUME NEW s, NEW s2, NEW top \in Nat, NEW index \in 0..top - 1,
         \A i \in 0..top - 1 : i # index => s2[i] = s[i],
         s[index].obj = Null, s2[index].obj # Null
  PROVE  Cardinality(NullsBelow(s2, top)) = Cardinality(NullsBelow(s, top)) - 1
<1>1. index \in NullsBelow(s, top)
  BY DEF NullsBelow
<1>2. NullsBelow(s2, top) = NullsBelow(s, top) \ {index}
  BY DEF NullsBelow
<1>3. QED
  BY <1>1, <1>2, HolesFinite, FS_RemoveElement

LEMMA HolesKept ==
  ASSUME NEW s, NEW s2, NEW top \in Nat, \A i \in 0..top - 1 : s2[i] = s[i]
  PROVE  NullsBelow(s2, top) = NullsBelow(s, top)
BY DEF NullsBelow

LEMMA TopUsed ==
  ASSUME NEW s, NEW top \in Nat, s[top].obj # Null
  PROVE  NullsBelow(s, top + 1) = NullsBelow(s, top)
<1>1. \A i : i \in 0..top + 1 - 1 <=> i \in 0..top - 1 \/ i = top
  OBVIOUS
<1>2. QED
  BY <1>1 DEF NullsBelow

(* All slots between two tops are unused: they are the difference.          *)
LEMMA TopDropped ==
  ASSUME NEW s, NEW top \in Nat, NEW newTop \in 0..top,
         \A i \in newTop..top - 1 : s[i].obj = Null
  PROVE  Cardinality(NullsBelow(s, newTop)) = Cardinality(NullsBelow(s, top)) - (top - newTop)
<1> DEFINE low == NullsBelow(s, newTop)
           high == newTop..top - 1
<1>1. IsFiniteSet(low) /\ Cardinality(low) \in Nat
  BY HolesFinite
<1>2. IsFiniteSet(high) /\ Cardinality(high) = top - newTop
  BY FS_Interval
<1>3. NullsBelow(s, top) = low \cup high
  <2>1. \A i : i \in 0..top - 1 <=> i \in 0..newTop - 1 \/ i \in newTop..top - 1
    OBVIOUS
  <2>2. QED
    BY <2>1 DEF NullsBelow
<1>4. low \cap high = {}
  BY DEF NullsBelow
<1> HIDE DEF low, high
<1>5. Cardinality(low \cup high) = Cardinality(low) + Cardinality(high) - Cardinality({})
  BY <1>1, <1>2, <1>4, FS_Union
<1>6. QED
  BY <1>1, <1>2, <1>3, <1>5, FS_EmptySet DEF low

CountInv ==
  /\ numHoles = Cardinality(NullsBelow(slots, topIndex))
  /\ \A d \in 1..Len(frames) :
       frames[d].numHoles = Cardinality(NullsBelow(slots, frames[d].topIndex))
  /\ Len(frames) <= MaxDepth

LEMMA CountStart == InitTable => CountInv
<1> SUFFICES ASSUME InitTable PROVE CountInv
  OBVIOUS
<1>1. NullsBelow(slots, 0) = {}
  BY DEF NullsBelow
<1>2. QED
  BY <1>1, FS_EmptySet, IndirectRefTableAssumption DEF InitTable, CountInv

(* No segment is closed above the top.                                      *)
LEMMA ClosedEdges ==
  ASSUME TableInv
  PROVE  \A d \in 1..Len(frames) : /\ frames[d].topIndex \in Nat
                                   /\ frames[d].topIndex <= Bottom
                                   /\ frames[d].topIndex <= topIndex
<1> SUFFICES ASSUME NEW d \in 1..Len(frames)
             PROVE  /\ frames[d].topIndex \in Nat /\ frames[d].topIndex <= Bottom
                    /\ frames[d].topIndex <= topIndex
  OBVIOUS
<1>1. /\ d \in 0..Len(frames) + 1 /\ Len(frames) \in 0..Len(frames) + 1 /\ d <= Len(frames)
      /\ d # 0
  BY Top
<1>2. Edge(d) = frames[d].topIndex
  BY <1>1 DEF Edge, EdgeOf
<1>3. Edge(d) \in Nat /\ Edge(d) <= topIndex
  BY <1>1, Top
<1>4. Edge(d) <= Edge(Len(frames))
  BY <1>1 DEF TableInv, EdgesRise
<1>5. QED
  BY <1>2, <1>3, <1>4, Top

(* A step that changes one slot of the innermost segment, or one on top.    *)
LEMMA SavedCounts ==
  ASSUME TableInv, CountInv, NEW index \in Nat, Bottom <= index,
         \A i \in Indices : i # index => slots'[i] = slots[i]
  PROVE  \A d \in 1..Len(frames) :
           frames[d].numHoles = Cardinality(NullsBelow(slots', frames[d].topIndex))
<1> SUFFICES ASSUME NEW d \in 1..Len(frames)
             PROVE  frames[d].numHoles = Cardinality(NullsBelow(slots', frames[d].topIndex))
  OBVIOUS
<1> DEFINE edge == frames[d].topIndex
<1>1. edge \in Nat /\ edge <= index /\ edge <= topIndex /\ topIndex \in 0..MaxEntries
  BY ClosedEdges, Top DEF TableInv, TableType
<1> HIDE DEF edge
<1>2. \A i \in 0..edge - 1 : i \in Indices /\ i # index
  BY <1>1, Width DEF Indices
<1>3. \A i \in 0..edge - 1 : slots'[i] = slots[i]
  BY <1>2
<1>4. NullsBelow(slots', edge) = NullsBelow(slots, edge)
  BY <1>1, <1>3, HolesKept
<1>5. QED
  BY <1>4 DEF CountInv, edge

LEMMA PutSlots ==
  ASSUME TableInv, NEW index \in Indices, NEW object \in Objects, NEW depth,
         Put(index, object, depth)
  PROVE  /\ slots'[index].obj = object /\ object # Null
         /\ slots'[index].serial \in 0..Serials - 1
         /\ \A i \in Indices : i # index => slots'[i] = slots[i]
<1> DEFINE serial == (slots[index].serial + 1) % Serials
<1>1. serial \in 0..Serials - 1
  BY IndirectRefTableAssumption DEF TableInv, TableType
<1> HIDE DEF serial
<1>2. slots' = [slots EXCEPT ![index] = [obj |-> object, serial |-> serial]]
  BY DEF Put, serial
<1>3. QED
  BY <1>1, <1>2, IndirectRefTableAssumption DEF TableInv, TableType

(* A reference on top of the table makes no hole and fills none.            *)
LEMMA PutOnTop ==
  ASSUME TableInv, CountInv, NEW object \in Objects, NEW depth,
         topIndex < MaxEntries, Put(topIndex, object, depth)
  PROVE  /\ Cardinality(NullsBelow(slots', topIndex + 1)) = numHoles
         /\ Cardinality(NullsBelow(slots', topIndex)) = numHoles
<1>1. topIndex \in Nat /\ topIndex \in Indices
  BY Top, Width DEF Indices
<1>2. /\ slots'[topIndex].obj # Null
      /\ \A i \in Indices : i # topIndex => slots'[i] = slots[i]
  BY <1>1, PutSlots
<1>3. \A i \in 0..topIndex - 1 : i \in Indices /\ i # topIndex
  BY <1>1, Width DEF Indices
<1>4. NullsBelow(slots', topIndex) = NullsBelow(slots, topIndex)
  BY <1>1, <1>2, <1>3, HolesKept
<1>5. NullsBelow(slots', topIndex + 1) = NullsBelow(slots', topIndex)
  BY <1>1, <1>2, TopUsed
<1>6. QED
  BY <1>4, <1>5 DEF CountInv

LEMMA AddCounts ==
  ASSUME TableInv, CountInv, NEW object \in Objects, Add(object)
  PROVE  CountInv'
<1>1. /\ frames' = frames /\ Bottom \in Nat /\ topIndex \in Nat /\ topIndex \in 0..MaxEntries
      /\ Bottom <= topIndex
  <2>1. Len(frames) \in 0..Len(frames) + 1
    BY Top
  <2>2. QED
    BY <2>1, Top DEF Add, TableInv, TableType
<1>2. CASE numHoles > HolesBelow
  <2>1. PICK i \in HolesHere : Put(i, object, Len(frames))
    BY <1>2 DEF Add
  <2>2. /\ i \in Indices /\ i \in Nat /\ Bottom <= i /\ i \in 0..topIndex - 1
        /\ slots[i].obj = Null
    BY <1>1, <2>1, Width DEF HolesHere, Indices
  <2>3. /\ slots'[i].obj # Null
        /\ \A k \in Indices : k # i => slots'[k] = slots[k]
    BY <2>1, <2>2, PutSlots
  <2>4. \A k \in 0..topIndex - 1 : k \in Indices
    BY <1>1, Width DEF Indices
  <2>5. Cardinality(NullsBelow(slots', topIndex)) = Cardinality(NullsBelow(slots, topIndex)) - 1
    BY <1>1, <2>2, <2>3, <2>4, HoleFilled
  <2>6. topIndex' = topIndex /\ numHoles' = numHoles - 1
    BY <1>2 DEF Add
  <2>7. \A d \in 1..Len(frames) :
          frames[d].numHoles = Cardinality(NullsBelow(slots', frames[d].topIndex))
    BY <2>2, <2>3, SavedCounts
  <2>8. QED
    BY <1>1, <2>5, <2>6, <2>7 DEF CountInv
<1>3. CASE ~(numHoles > HolesBelow)
  <2>1. /\ topIndex < MaxEntries /\ Put(topIndex, object, Len(frames))
        /\ topIndex' = topIndex + 1 /\ numHoles' = numHoles
    BY <1>3 DEF Add
  <2>2. topIndex \in Indices
    BY <1>1, <2>1, Width DEF Indices
  <2>3. \A k \in Indices : k # topIndex => slots'[k] = slots[k]
    BY <2>1, <2>2, PutSlots
  <2>4. \A d \in 1..Len(frames) :
          frames[d].numHoles = Cardinality(NullsBelow(slots', frames[d].topIndex))
    BY <1>1, <2>3, SavedCounts
  <2>5. QED
    BY <1>1, <2>1, <2>4, PutOnTop DEF CountInv
<1>4. QED
  BY <1>2, <1>3

LEMMA RemoveCounts ==
  ASSUME TableInv, CountInv, NEW entry \in live, Remove(entry)
  PROVE  CountInv'
<1> DEFINE index == IndexOf(entry.ref)
<1>1. /\ index \in Indices /\ index \in Nat /\ Bottom <= index /\ index < topIndex
      /\ slots' = [slots EXCEPT ![index].obj = Null] /\ slots[index].obj # Null
      /\ frames' = frames /\ Bottom \in Nat /\ topIndex \in Nat
      /\ topIndex \in 0..MaxEntries
      /\ slots \in [Indices -> [obj : Objects \cup {Null}, serial : 0..Serials - 1]]
  BY Removed, Top DEF TableInv, TableType
<1>2. /\ topIndex' \in Nat /\ Bottom <= topIndex' /\ topIndex' <= topIndex
      /\ \A j \in Bottom..topIndex - 1 : j # index /\ slots[j].obj # Null => j < topIndex'
      /\ index = topIndex - 1 => numHoles' = numHoles - (topIndex - 1 - topIndex')
      /\ index # topIndex - 1 => numHoles' = numHoles + 1 /\ topIndex' = topIndex
  BY Removed
<1> HIDE DEF index
<1>3. slots'[index].obj = Null /\ \A i \in Indices : i # index => slots'[i] = slots[i]
  BY <1>1
<1>4. \A i \in 0..topIndex - 1 : i \in Indices
  BY <1>1, Width DEF Indices
<1>5. Cardinality(NullsBelow(slots, topIndex)) = Cardinality(NullsBelow(slots', topIndex)) - 1
  <2>1. index \in 0..topIndex - 1
    BY <1>1
  <2>2. \A i \in 0..topIndex - 1 : i # index => slots[i] = slots'[i]
    BY <1>3, <1>4
  <2>3. topIndex \in Nat /\ slots[index].obj # Null
    BY <1>1
  <2>4. QED
    BY <1>3, <2>1, <2>2, <2>3, HoleFilled
<1>6. Cardinality(NullsBelow(slots', topIndex)) = numHoles + 1
  BY <1>1, <1>5, HolesFinite DEF CountInv
<1>7. numHoles' = Cardinality(NullsBelow(slots', topIndex'))
  <2>1. CASE index = topIndex - 1
    <3>1. ASSUME NEW i \in topIndex'..topIndex - 1 PROVE slots'[i].obj = Null
      <4>1. i \in Bottom..topIndex - 1 /\ ~(i < topIndex') /\ i \in Indices
        BY <1>1, <1>2, Width DEF Indices
      <4>2. QED
        BY <1>2, <1>3, <4>1
    <3>2. topIndex' \in 0..topIndex /\ topIndex \in Nat
      BY <1>1, <1>2
    <3>3. Cardinality(NullsBelow(slots', topIndex'))
            = Cardinality(NullsBelow(slots', topIndex)) - (topIndex - topIndex')
      BY <3>1, <3>2, TopDropped
    <3>4. numHoles \in Int
      BY DEF TableInv, TableType
    <3>5. QED
      BY <1>1, <1>2, <1>6, <2>1, <3>3, <3>4
  <2>2. CASE index # topIndex - 1
    BY <1>2, <1>6, <2>2
  <2>3. QED
    BY <2>1, <2>2
<1>8. \A d \in 1..Len(frames) :
        frames[d].numHoles = Cardinality(NullsBelow(slots', frames[d].topIndex))
  BY <1>1, <1>3, SavedCounts
<1>9. QED
  BY <1>1, <1>7, <1>8 DEF CountInv

(* A segment is opened with the count of the holes below it ...             *)
LEMMA OpenedCounts ==
  ASSUME TableInv, CountInv, Len(frames) < MaxDepth,
         frames' = Append(frames, [topIndex |-> topIndex, numHoles |-> numHoles]),
         numHoles = Cardinality(NullsBelow(slots', topIndex)),
         numHoles' = Cardinality(NullsBelow(slots', topIndex')),
         \A d \in 1..Len(frames) :
           frames[d].numHoles = Cardinality(NullsBelow(slots', frames[d].topIndex))
  PROVE  CountInv'
<1> DEFINE f == [topIndex |-> topIndex, numHoles |-> numHoles]
<1>1. /\ frames \in Seq(Frame) /\ f \in Frame /\ f.topIndex = topIndex
      /\ f.numHoles = numHoles /\ frames' = Append(frames, f)
  BY Top DEF TableInv, TableType, Frame
<1> HIDE DEF f
<1>2. /\ Len(frames') = Len(frames) + 1 /\ Len(frames) \in Nat
      /\ \A d \in 1..Len(frames) : frames'[d] = frames[d]
      /\ frames'[Len(frames) + 1] = f
  BY <1>1, AppendProperties, Top
<1>3. \A d \in 1..Len(frames) + 1 : d \in 1..Len(frames) \/ d = Len(frames) + 1
  BY <1>2
<1>4. \A d \in 1..Len(frames') :
        frames'[d].numHoles = Cardinality(NullsBelow(slots', frames'[d].topIndex))
  BY <1>1, <1>2, <1>3
<1>5. Len(frames') <= MaxDepth
  BY <1>2, IndirectRefTableAssumption
<1>6. QED
  BY <1>4, <1>5 DEF CountInv

LEMMA PushCounts == ASSUME TableInv, CountInv, Push PROVE CountInv'
BY OpenedCounts DEF Push, CountInv

(* ... and closed with it.                                                  *)
LEMMA PopCounts == ASSUME TableInv, CountInv, Pop PROVE CountInv'
<1> DEFINE n == Len(frames)
<1>1. /\ frames # << >> /\ frames \in Seq(Frame)
      /\ frames' = SubSeq(frames, 1, n - 1) /\ topIndex' = frames[n].topIndex
      /\ numHoles' = frames[n].numHoles /\ slots' = slots
  BY DEF Pop, TableInv, TableType
<1>2. /\ n \in Nat \ {0} /\ Len(frames') = n - 1 /\ n <= MaxDepth
      /\ \A d \in 1..n - 1 : frames'[d] = frames[d]
  BY <1>1, EdgeFront DEF CountInv
<1> HIDE DEF n
<1>3. /\ n \in 1..n /\ n - 1 <= MaxDepth /\ \A d \in 1..n - 1 : d \in 1..n
  BY <1>2, IndirectRefTableAssumption
<1>4. \A d \in 1..n :
        frames[d].numHoles = Cardinality(NullsBelow(slots, frames[d].topIndex))
  BY DEF CountInv, n
<1>5. QED
  BY <1>1, <1>2, <1>3, <1>4 DEF CountInv

LEMMA CountStep ==
  ASSUME TableInv, CountInv, [TableNext]_tableVars
  PROVE  CountInv'
<1>1. CASE UNCHANGED tableVars
  BY <1>1 DEF tableVars, CountInv
<1>2. CASE TableNext
  BY <1>2, AddCounts, RemoveCounts, PushCounts, PopCounts DEF TableNext
<1>3. QED
  BY <1>1, <1>2

LEMMA TableTypes ==
  ASSUME TableInv, CountInv
  PROVE  TableTypeOK
<1>1. \A top : Holes(top) = NullsBelow(slots, top)
  BY DEF Holes, NullsBelow
<1>2. DOMAIN frames = 1..Len(frames) /\ Len(frames) \in 0..MaxDepth
  BY LenProperties, IndirectRefTableAssumption DEF TableInv, TableType, CountInv
<1>3. QED
  BY <1>1, <1>2 DEF TableTypeOK, HolesCounted, TableInv, TableType, CountInv

-----------------------------------------------------------------------------
(* The invariant of the native method.                                      *)

NativeInv ==
  /\ given \in Objects /\ tag \in [Arrays -> Tags]
  /\ pc \in {"java", "construct", "resolve", "touch", "destruct", "return"}
  /\ pc # "java" => [ref |-> content, obj |-> given, depth |-> Len(frames)] \in live
  /\ pc \in {"touch", "destruct"} => obj = given

UntaintInv == TableInv /\ NativeInv

LEMMA UntaintStart == Init => UntaintInv
BY TableStart DEF Init, UntaintInv, NativeInv

LEMMA EnterStep ==
  ASSUME UntaintInv, NEW string \in Objects, EnterNative(string)
  PROVE  UntaintInv'
<1> DEFINE f == [topIndex |-> topIndex, numHoles |-> numHoles]
           n == Len(frames)
<1>1. /\ TableInv /\ n \in Nat /\ topIndex \in Nat /\ topIndex \in 0..MaxEntries
      /\ numHoles \in Int /\ frames \in Seq(Frame) /\ topIndex < MaxEntries
      /\ frames' = Append(frames, f) /\ topIndex' = topIndex + 1 /\ numHoles' = numHoles
      /\ Put(topIndex, string, n + 1) /\ Edge(n + 1) = topIndex
  BY Top DEF UntaintInv, TableInv, TableType, EnterNative
<1>2. f \in Frame /\ f.topIndex = topIndex
  BY <1>1 DEF Frame
<1> HIDE DEF f
<1>3. Len(frames') = n + 1 /\ frames' \in Seq(Frame)
  BY <1>1, <1>2, AppendProperties
<1>4. /\ \A d \in 0..n + 1 : Edge(d)' = Edge(d)
      /\ \A d : d = n + 2 => Edge(d)' = topIndex'
  <2>0. frames \in Seq(Frame) /\ f \in Frame
    BY <1>1, <1>2
  <2>1. /\ \A d \in 0..n + 1 : EdgeOf(Append(frames, f), topIndex', d)
                                  = EdgeOf(frames, f.topIndex, d)
        /\ EdgeOf(Append(frames, f), topIndex', n + 2) = topIndex'
    BY <2>0, EdgeAppend, ZenonT(60)
  <2>2. \A d : Edge(d)' = EdgeOf(Append(frames, f), topIndex', d)
    BY <1>1 DEF Edge
  <2>3. \A d : Edge(d) = EdgeOf(frames, f.topIndex, d)
    BY <1>2 DEF Edge
  <2>4. QED
    BY <2>1, <2>2, <2>3
<1>5. \A d \in 0..n + 1 : Edge(d) \in Nat /\ Edge(d) <= topIndex
  BY <1>1, Top
<1> HIDE DEF n
<1>6. topIndex' \in 0..MaxEntries /\ topIndex' \in Nat /\ topIndex < topIndex'
      /\ topIndex \in Indices
  BY <1>1, Width DEF Indices
<1>7. EdgesRise'
  <2> SUFFICES ASSUME NEW c \in 0..n + 2, NEW d \in 0..n + 2, c <= d
               PROVE  Edge(c)' <= Edge(d)'
    BY <1>1, <1>3 DEF EdgesRise
  <2>1. CASE d \in 0..n + 1
    <3>1. c \in 0..n + 1
      BY <1>1, <2>1
    <3>2. QED
      BY <1>1, <1>4, <2>1, <3>1 DEF EdgesRise, TableInv, n
  <2>2. CASE d = n + 2 /\ c \in 0..n + 1
    <3>1. Edge(d)' = topIndex' /\ Edge(c)' = Edge(c) /\ Edge(c) \in Nat /\ Edge(c) <= topIndex
      BY <1>4, <1>5, <2>2
    <3>2. QED
      BY <1>1, <1>6, <3>1
  <2>3. CASE d = n + 2 /\ c = n + 2
    BY <1>4, <1>6, <2>3
  <2>4. QED
    BY <1>1, <2>1, <2>2, <2>3
<1>8. \A e \in live : IndexOf(e.ref) # topIndex
  <2>1. \A e \in live : IndexOf(e.ref) < topIndex /\ IndexOf(e.ref) \in Nat
    BY <1>1, Top, Width DEF TableInv, LiveInv
  <2>2. QED
    BY <1>1, <2>1
<1>9. \A d \in 0..n : /\ Edge(d)' \in Nat /\ Edge(d)' <= Edge(d) /\ Edge(d + 1)' \in Nat
                      /\ Edge(d + 1) <= Edge(d + 1)'
  <2> SUFFICES ASSUME NEW d \in 0..n
               PROVE  /\ Edge(d)' \in Nat /\ Edge(d)' <= Edge(d) /\ Edge(d + 1)' \in Nat
                      /\ Edge(d + 1) <= Edge(d + 1)'
    OBVIOUS
  <2>1. d \in 0..n + 1 /\ d + 1 \in 0..n + 1
    BY <1>1
  <2>2. QED
    BY <1>4, <1>5, <2>1
<1>10. \A depth \in Nat : depth = n + 1 => Edge(depth)' <= topIndex /\ topIndex < Edge(depth + 1)'
  <2> SUFFICES ASSUME NEW depth \in Nat, depth = n + 1
               PROVE  Edge(depth)' <= topIndex /\ topIndex < Edge(depth + 1)'
    OBVIOUS
  <2>1. depth \in 0..n + 1 /\ depth + 1 = n + 2
    BY <1>1
  <2>2. QED
    BY <1>1, <1>4, <1>5, <1>6, <2>1
<1>11. \A j \in Indices : j < topIndex' /\ j # topIndex => j < topIndex
  BY <1>1, Width
<1>12. TableInv'
  <2> DEFINE depth == n + 1
             index == topIndex
  <2>1. depth \in Nat /\ n <= depth
    BY <1>1
  <2> HIDE DEF depth, index
  <2>2. QED
    BY <1>1, <1>3, <1>6, <1>7, <1>8, <1>9, <1>10, <1>11, <2>1, Added DEF n, depth, index
<1>13. NativeInv'
  <2>1. [ref |-> content, obj |-> given, depth |-> Len(frames)]' \in live'
    <3>1. [ref |-> Encode(topIndex, slots'[topIndex].serial), obj |-> string, depth |-> n + 1]
            \in live'
      BY <1>1, <1>6, <1>8, Placed
    <3>2. QED
      BY <1>3, <3>1 DEF EnterNative
  <2>2. QED
    BY <2>1 DEF EnterNative, NativeInv, UntaintInv
<1>14. QED
  BY <1>12, <1>13 DEF UntaintInv

LEMMA LeaveStep == ASSUME UntaintInv, LeaveNative PROVE UntaintInv'
<1>1. TableInv'
  BY PopStep DEF LeaveNative, UntaintInv
<1>2. NativeInv'
  BY DEF LeaveNative, NativeInv, UntaintInv
<1>3. QED
  BY <1>1, <1>2 DEF UntaintInv

LEMMA MethodStep == ASSUME UntaintInv, Method PROVE UntaintInv'
<1>1. UNCHANGED tableVars
  BY DEF Method, Construct, Resolve, Touch, Destruct, tableVars
<1>2. TableInv'
  BY <1>1, TableStep DEF UntaintInv
<1>3. NativeInv'
  <2> USE DEF UntaintInv, NativeInv, tableVars
  <2>1. CASE Construct
    BY <1>1, <2>1 DEF Construct
  <2>2. CASE Resolve
    <3>1. [ref |-> content, obj |-> given, depth |-> Len(frames)] \in live
      BY <2>2 DEF Resolve
    <3>2. Get(content) = given
      BY <3>1, Resolves DEF LiveResolves
    <3>3. QED
      BY <1>1, <2>2, <3>2 DEF Resolve
  <2>3. CASE Touch
    <3>1. ArrayOf[obj] \in Arrays /\ obj = given
      BY <2>3, UntaintAssumption DEF Touch
    <3>2. tag' \in [Arrays -> Tags]
      BY <2>3, <3>1 DEF Touch, Tags
    <3>3. QED
      BY <1>1, <2>3, <3>1, <3>2 DEF Touch
  <2>4. CASE Destruct
    BY <1>1, <2>4 DEF Destruct
  <2>5. QED
    BY <2>1, <2>2, <2>3, <2>4 DEF Method
<1>4. QED
  BY <1>2, <1>3 DEF UntaintInv

LEMMA TaintStep == ASSUME UntaintInv, NEW array \in Arrays, TaintAdded(array) PROVE UntaintInv'
<1>1. TableInv'
  BY TableStep DEF TaintAdded, UntaintInv
<1>2. tag' \in [Arrays -> Tags] /\ pc' = "java" /\ given' = given
  BY DEF TaintAdded, UntaintInv, NativeInv, Tags, JavaRuns
<1>3. NativeInv'
  BY <1>2 DEF NativeInv, UntaintInv
<1>4. QED
  BY <1>1, <1>3 DEF UntaintInv

LEMMA UntaintStep == UntaintInv /\ [Next]_vars => UntaintInv'
<1> SUFFICES ASSUME UntaintInv, [Next]_vars PROVE UntaintInv'
  OBVIOUS
<1>1. CASE Method
  BY <1>1, MethodStep
<1>2. CASE OtherReferences
  <2>1. TableInv'
    BY <1>2, TableStep DEF OtherReferences, UntaintInv
  <2>2. NativeInv'
    BY <1>2 DEF OtherReferences, JavaRuns, untaintVars, UntaintInv, NativeInv
  <2>3. QED
    BY <2>1, <2>2 DEF UntaintInv
<1>3. CASE \E array \in Arrays : TaintAdded(array)
  BY <1>3, TaintStep
<1>4. CASE \E string \in Objects : EnterNative(string)
  BY <1>4, EnterStep
<1>5. CASE LeaveNative
  BY <1>5, LeaveStep
<1>6. CASE SafePoint \/ Resume \/ StopWorld \/ WorldStopped \/ WorldResumes \/ UNCHANGED vars
  <2>1. UNCHANGED <<tableVars, pc, content, given, obj, tag>>
    BY <1>6 DEF SafePoint, Resume, StopWorld, WorldStopped, WorldResumes, vars, untaintVars
  <2>2. TableInv'
    BY <2>1, TableStep DEF UntaintInv
  <2>3. NativeInv'
    BY <2>1 DEF UntaintInv, NativeInv, tableVars
  <2>4. QED
    BY <2>2, <2>3 DEF UntaintInv
<1>7. QED
  BY <1>1, <1>2, <1>3, <1>4, <1>5, <1>6 DEF Next, VM

THEOREM Invariance == Spec => []UntaintInv
<1>1. QED
  BY UntaintStart, UntaintStep, PTL DEF Spec

-----------------------------------------------------------------------------
(* Types.                                                                   *)

(* Every number that Encode makes is one of the references.                 *)
LEMMA EncodeReference ==
  ASSUME NEW index \in Indices, NEW serial \in 0..Serials - 1
  PROVE  Encode(index, serial) \in References
<1>1. /\ W \in Nat \ {0} /\ index \in 0..W - 1 /\ Serials \in Nat \ {0} /\ serial \in Nat
      /\ serial <= Serials - 1
  BY Width, IndirectRefTableAssumption
<1>2. serial * W <= (Serials - 1) * W /\ serial * W \in Nat /\ (Serials - 1) * W \in Nat
  BY <1>1
<1>3. (Serials - 1) * W = Serials * W - W /\ Serials * W \in Nat
  BY <1>1
<1>4. (serial * W + index) * 4 + 1 \in 0..(Serials * W * 4 - 1)
  BY <1>1, <1>2, <1>3
<1>5. QED
  BY <1>4 DEF Encode, References, W, kIndirectKindLocal

Local ==
  /\ status \in ThreadStatus
  /\ content \in References
  /\ obj \in Objects \cup {Null, Invalid}
  /\ world \in {"running", "stopping", "stopped"} /\ calls \in 0..MaxCalls

TypeInv == UntaintInv /\ CountInv /\ Local

USE DEF ThreadStatus

LEMMA TypeStart == Init => TypeInv
<1> SUFFICES ASSUME Init PROVE TypeInv
  OBVIOUS
<1>1. 0 \in References
  <2>1. W \in Nat \ {0} /\ Serials \in Nat \ {0}
    BY Width, IndirectRefTableAssumption
  <2>2. Serials * W >= 1 /\ Serials * W \in Nat
    BY <2>1
  <2>3. QED
    BY <2>2 DEF References, W
<1>2. Local
  BY <1>1, UntaintAssumption DEF Init, Local
<1>3. QED
  BY <1>2, UntaintStart, CountStart DEF Init, TypeInv

LEMMA EnterTypes ==
  ASSUME TypeInv, NEW string \in Objects, EnterNative(string)
  PROVE  CountInv' /\ Local'
<1>1. /\ TableInv /\ CountInv /\ Local /\ topIndex \in Nat /\ topIndex < MaxEntries
      /\ topIndex \in Indices /\ Put(topIndex, string, Len(frames) + 1)
  <2>1. TableInv /\ CountInv /\ Local
    BY DEF TypeInv, UntaintInv
  <2>2. topIndex \in Nat /\ topIndex < MaxEntries
    BY <2>1, Top DEF EnterNative
  <2>3. topIndex \in Indices
    BY <2>2, Width DEF Indices
  <2>4. QED
    BY <2>1, <2>2, <2>3 DEF EnterNative
<1>2. /\ slots'[topIndex].serial \in 0..Serials - 1
      /\ \A i \in Indices : i # topIndex => slots'[i] = slots[i]
  BY <1>1, PutSlots
<1>3. CountInv'
  <2>1. \A d \in 1..Len(frames) :
          frames[d].numHoles = Cardinality(NullsBelow(slots', frames[d].topIndex))
    <3>1. Bottom <= topIndex
      <4>1. Len(frames) \in 0..Len(frames) + 1
        BY <1>1, Top
      <4>2. QED
        BY <1>1, <4>1, Top
    <3>2. QED
      BY <1>1, <1>2, <3>1, SavedCounts
  <2>2. /\ Cardinality(NullsBelow(slots', topIndex + 1)) = numHoles
        /\ Cardinality(NullsBelow(slots', topIndex)) = numHoles
    BY <1>1, PutOnTop
  <2>3. /\ Len(frames) < MaxDepth /\ topIndex' = topIndex + 1 /\ numHoles' = numHoles
        /\ frames' = Append(frames, [topIndex |-> topIndex, numHoles |-> numHoles])
    BY DEF EnterNative
  <2>4. numHoles' = Cardinality(NullsBelow(slots', topIndex'))
    BY <2>2, <2>3
  <2>5. QED
    BY <1>1, <2>1, <2>2, <2>3, <2>4, OpenedCounts
<1>4. content' \in References
  BY <1>1, <1>2, EncodeReference DEF EnterNative
<1>5. calls' \in 0..MaxCalls
  BY <1>1, UntaintAssumption DEF EnterNative, Local
<1>6. QED
  BY <1>1, <1>3, <1>4, <1>5 DEF EnterNative, Local

LEMMA TypeStep == TypeInv /\ [Next]_vars => TypeInv'
<1> SUFFICES ASSUME TypeInv, [Next]_vars PROVE TypeInv'
  OBVIOUS
<1>1. UntaintInv'
  BY UntaintStep DEF TypeInv
<1>2. TableInv /\ CountInv /\ Local
  BY DEF TypeInv, UntaintInv
<1>3. CASE Method \/ (\E array \in Arrays : TaintAdded(array)) \/ SafePoint \/ Resume
           \/ StopWorld \/ WorldStopped \/ WorldResumes \/ UNCHANGED vars
  <2>1. UNCHANGED <<tableVars, content, calls>>
    BY <1>3 DEF Method, Construct, Resolve, Touch, Destruct, TaintAdded, SafePoint, Resume,
                StopWorld, WorldStopped, WorldResumes, vars, untaintVars
  <2>2. CountInv'
    BY <1>2, <2>1, CountStep
  <2>3. /\ status' \in ThreadStatus
        /\ world' \in {"running", "stopping", "stopped"}
    BY <1>2, <1>3 DEF Method, Construct, Resolve, Touch, Destruct, dvmChangeStatus, TaintAdded,
                      SafePoint, Resume, StopWorld, WorldStopped, WorldResumes, vars,
                      untaintVars, Local
  <2>4. obj' \in Objects \cup {Null, Invalid}
    <3>1. CASE Resolve
      <4>1. pc' = "touch"
        BY <3>1 DEF Resolve
      <4>2. obj' = given' /\ given' \in Objects
        BY <1>1, <4>1 DEF UntaintInv, NativeInv
      <4>3. QED
        BY <4>2
    <3>2. CASE ~Resolve
      <4>1. obj' = obj
        BY <1>3, <3>2 DEF Method, Construct, Touch, Destruct, TaintAdded, SafePoint, Resume,
                          StopWorld, WorldStopped, WorldResumes, vars, untaintVars
      <4>2. QED
        BY <1>2, <4>1 DEF Local
    <3>3. QED
      BY <3>1, <3>2
  <2>5. Local'
    BY <1>2, <2>1, <2>3, <2>4 DEF Local
  <2>6. QED
    BY <1>1, <2>2, <2>5 DEF TypeInv
<1>4. CASE OtherReferences
  <2>1. CountInv'
    BY <1>2, <1>4, CountStep DEF OtherReferences
  <2>2. Local'
    BY <1>2, <1>4 DEF OtherReferences, untaintVars, Local
  <2>3. QED
    BY <1>1, <2>1, <2>2 DEF TypeInv
<1>5. CASE \E string \in Objects : EnterNative(string)
  BY <1>1, <1>5, EnterTypes DEF TypeInv
<1>6. CASE LeaveNative
  <2>1. CountInv'
    BY <1>2, <1>6, PopCounts DEF LeaveNative
  <2>2. Local'
    BY <1>2, <1>6 DEF LeaveNative, Local
  <2>3. QED
    BY <1>1, <2>1, <2>2 DEF TypeInv
<1>7. QED
  BY <1>3, <1>4, <1>5, <1>6 DEF Next, VM

(* In the table alone, numHoles is the number of unused slots below the top *)
(* after any adding, deleting, pushing and popping, and each saved count    *)
(* that of its segment's edge: IndirectRefTable.h lines 141-157.            *)
THEOREM TableCounts == TableSpec => []TableTypeOK
<1>1. TableInit => TableInv /\ CountInv
  BY TableStart, CountStart DEF TableInit
<1>2. (TableInv /\ CountInv) /\ [TableNext]_tableVars => (TableInv /\ CountInv)'
  BY TableStep, CountStep
<1>3. TableInv /\ CountInv => TableTypeOK
  BY TableTypes
<1>4. QED
  BY <1>1, <1>2, <1>3, PTL DEF TableSpec

(* The types of untaint's state, the count of holes with the calls among    *)
(* the other uses of the table, and that a lookup gives a string or nothing. *)
THEOREM TypeCorrect == Spec => []TypeOK
<1>1. TypeInv => TypeOK
  <2> SUFFICES ASSUME TypeInv PROVE TypeOK
    OBVIOUS
  <2>1. TableTypeOK
    BY TableTypes DEF TypeInv, UntaintInv
  <2>2. QED
    BY <2>1 DEF TypeOK, TypeInv, UntaintInv, NativeInv, Local
<1>2. QED
  BY <1>1, TypeStart, TypeStep, PTL DEF Spec

-----------------------------------------------------------------------------
(* The iterator.  Its loops are recursive functions, so what is shown of    *)
(* them goes from the end of the table down, one slot at a time: first that *)
(* such a function exists, then what it gives at every slot.                *)

Left(objs, k) == objs[k] \notin {Null, Cleared}

(* j is the first slot from k on that has an object, or the end. *)
IsFirst(objs, cap, k, j) ==
  /\ j \in k..cap /\ (j = cap \/ Left(objs, j))
  /\ \A m \in k..j - 1 : ~Left(objs, m)

(* The first one from k on, by whether slot k has an object. *)
LEMMA FirstStep ==
  ASSUME NEW objs, NEW cap \in Nat, NEW k \in 0..cap - 1, NEW j
  PROVE  /\ ~Left(objs, k) => (IsFirst(objs, cap, k, j) <=> IsFirst(objs, cap, k + 1, j))
         /\ Left(objs, k) => (IsFirst(objs, cap, k, j) <=> j = k)
         /\ IsFirst(objs, cap, cap, j) <=> j = cap
<1>3. IsFirst(objs, cap, cap, j) <=> j = cap
  BY DEF IsFirst
<1>1. CASE ~Left(objs, k)
  <2>1. ASSUME IsFirst(objs, cap, k, j) PROVE IsFirst(objs, cap, k + 1, j)
    <3>1. j # k /\ j \in k..cap
      BY <1>1, <2>1 DEF IsFirst
    <3>2. j \in k + 1..cap /\ \A m \in k + 1..j - 1 : m \in k..j - 1
      BY <3>1
    <3>3. QED
      BY <2>1, <3>2 DEF IsFirst
  <2>2. ASSUME IsFirst(objs, cap, k + 1, j) PROVE IsFirst(objs, cap, k, j)
    <3>1. j \in k + 1..cap
      BY <2>2 DEF IsFirst
    <3>2. j \in k..cap /\ \A m \in k..j - 1 : m = k \/ m \in k + 1..j - 1
      BY <3>1
    <3>3. QED
      BY <1>1, <2>2, <3>2 DEF IsFirst
  <2>3. QED
    BY <1>1, <1>3, <2>1, <2>2
<1>2. CASE Left(objs, k)
  <2>1. ASSUME IsFirst(objs, cap, k, j), j # k PROVE FALSE
    <3>1. k \in k..j - 1
      BY <2>1 DEF IsFirst
    <3>2. QED
      BY <1>2, <2>1, <3>1 DEF IsFirst
  <2>2. IsFirst(objs, cap, k, k)
    BY <1>2 DEF IsFirst
  <2>3. QED
    BY <1>2, <1>3, <2>1, <2>2
<1>4. QED
  BY <1>1, <1>2, <1>3

(* The loop of skipNullsAndTombstones stops at the first such slot. *)
LEMMA Skips ==
  ASSUME NEW objs, NEW cap \in Nat, NEW i \in 0..cap
  PROVE  IsFirst(objs, cap, i, Skip(objs, i, cap))
<1> DEFINE Loop(f) == f = [k \in 0..cap |-> IF k < cap /\ objs[k] \in {Null, Cleared}
                                            THEN f[k + 1] ELSE k]
           First(k) == CHOOSE j : IsFirst(objs, cap, k, j)
           g == [k \in 0..cap |-> First(k)]
<1>1. \A k \in 0..cap : \E j : IsFirst(objs, cap, k, j)
  <2> DEFINE S == {k \in 0..cap : \E j : IsFirst(objs, cap, k, j)}
  <2>1. cap \in S
    BY FirstStep DEF IsFirst
  <2>2. \A k \in 0..cap - 1 : k + 1 \in S => k \in S
    <3> SUFFICES ASSUME NEW k \in 0..cap - 1, NEW j, IsFirst(objs, cap, k + 1, j)
                 PROVE  \E l : IsFirst(objs, cap, k, l)
      OBVIOUS
    <3>1. CASE Left(objs, k)
      <4>1. IsFirst(objs, cap, k, k)
        BY <3>1, FirstStep
      <4>2. QED
        BY <4>1
    <3>2. CASE ~Left(objs, k)
      <4>1. IsFirst(objs, cap, k, j)
        BY <3>2, FirstStep
      <4>2. QED
        BY <4>1
    <3>3. QED
      BY <3>1, <3>2
  <2> HIDE DEF S
  <2>3. S = 0..cap
    <3>1. S \subseteq 0..cap
      BY DEF S
    <3>2. QED
      BY <2>1, <2>2, <3>1, Downwards
  <2>4. QED
    BY <2>3 DEF S
<1>2. \A k \in 0..cap : IsFirst(objs, cap, k, First(k))
  BY <1>1
<1> HIDE DEF First
<1>3. Loop(g)
  <2>1. ASSUME NEW k \in 0..cap
        PROVE  First(k) = IF k < cap /\ objs[k] \in {Null, Cleared} THEN g[k + 1] ELSE k
    <3>1. CASE k < cap /\ objs[k] \in {Null, Cleared}
      <4>1. k \in 0..cap - 1 /\ k + 1 \in 0..cap /\ ~Left(objs, k)
        BY <3>1 DEF Left
      <4>2. \A j, l : IsFirst(objs, cap, k, j) /\ IsFirst(objs, cap, k, l) => j = l
        <5> SUFFICES ASSUME NEW j, NEW l, IsFirst(objs, cap, k, j), IsFirst(objs, cap, k, l)
                     PROVE  j = l
          OBVIOUS
        <5>1. j \in k..cap /\ l \in k..cap
          BY DEF IsFirst
        <5>2. CASE j < l
          <6>1. j \in k..l - 1 /\ j # cap
            BY <5>1, <5>2
          <6>2. QED
            BY <6>1 DEF IsFirst
        <5>3. CASE l < j
          <6>1. l \in k..j - 1 /\ l # cap
            BY <5>1, <5>3
          <6>2. QED
            BY <6>1 DEF IsFirst
        <5>4. QED
          BY <5>1, <5>2, <5>3
      <4>3. IsFirst(objs, cap, k, First(k + 1))
        BY <1>2, <4>1, FirstStep
      <4>4. QED
        BY <1>2, <3>1, <4>1, <4>2, <4>3
    <3>2. CASE ~(k < cap /\ objs[k] \in {Null, Cleared})
      <4>1. First(k) = k
        <5>1. CASE k = cap
          BY <1>2, <5>1 DEF IsFirst
        <5>2. CASE k # cap
          <6>1. k \in 0..cap - 1 /\ Left(objs, k)
            BY <3>2, <5>2 DEF Left
          <6>2. QED
            BY <1>2, <6>1, FirstStep
        <5>3. QED
          BY <5>1, <5>2
      <4>2. QED
        BY <3>2, <4>1
    <3>3. QED
      BY <3>1, <3>2
  <2>2. QED
    BY <2>1
<1>4. PICK f : Loop(f) /\ Skip(objs, i, cap) = f[i]
  <2> DEFINE f == CHOOSE f : Loop(f)
  <2>1. Loop(f)
    BY <1>3
  <2>2. Skip(objs, i, cap) = f[i]
    BY DEF Skip
  <2> HIDE DEF f, Loop
  <2>3. QED
    BY <2>1, <2>2
<1>5. \A k \in 0..cap : f[k] = IF k < cap /\ objs[k] \in {Null, Cleared} THEN f[k + 1] ELSE k
  BY <1>4
<1> DEFINE S == {k \in 0..cap : IsFirst(objs, cap, k, f[k])}
<1>6. cap \in S
  BY <1>5 DEF IsFirst
<1>7. \A k \in 0..cap - 1 : k + 1 \in S => k \in S
  <2> SUFFICES ASSUME NEW k \in 0..cap - 1, k + 1 \in S PROVE IsFirst(objs, cap, k, f[k])
    OBVIOUS
  <2>1. CASE Left(objs, k)
    <3>1. f[k] = k
      BY <1>5, <2>1 DEF Left
    <3>2. QED
      BY <2>1, <3>1, FirstStep
  <2>2. CASE ~Left(objs, k)
    <3>1. f[k] = f[k + 1]
      BY <1>5, <2>2 DEF Left
    <3>2. QED
      BY <2>2, <3>1, FirstStep
  <2>3. QED
    BY <2>1, <2>2
<1> HIDE DEF S
<1>8. S = 0..cap
  <2>1. S \subseteq 0..cap
    BY DEF S
  <2>2. QED
    BY <1>6, <1>7, <2>1, Downwards
<1>9. QED
  BY <1>4, <1>8 DEF S

(* What an iteration from slot i, which it stops at, lists. *)
Lists(objs, cap, i, s) ==
  /\ s \in Seq(Nat)
  /\ {s[n] : n \in DOMAIN s} = {k \in i..cap - 1 : k = i \/ Left(objs, k)}
  /\ \A n \in 1..Len(s) - 1 : s[n] < s[n + 1]

(* The list grows at its front as the iteration is unfolded. *)
LEMMA Precede ==
  ASSUME NEW i \in Nat, NEW s \in Seq(Nat), NEW S \in SUBSET Nat,
         {s[n] : n \in DOMAIN s} = S, \A k \in S : i < k,
         \A n \in 1..Len(s) - 1 : s[n] < s[n + 1]
  PROVE  LET t == <<i>> \o s IN
         /\ t \in Seq(Nat) /\ {t[n] : n \in DOMAIN t} = S \cup {i}
         /\ \A n \in 1..Len(t) - 1 : t[n] < t[n + 1]
<1> DEFINE t == <<i>> \o s
<1>1. Len(s) \in Nat /\ DOMAIN s = 1..Len(s) /\ \A n \in 1..Len(s) : s[n] \in Nat
  BY LenProperties
<1>2. <<i>> \in Seq(Nat) /\ Len(<<i>>) = 1 /\ <<i>>[1] = i
  OBVIOUS
<1>3. /\ t \in Seq(Nat) /\ Len(t) = Len(s) + 1 /\ DOMAIN t = 1..Len(s) + 1
      /\ t[1] = i /\ \A n \in 1..Len(s) : t[n + 1] = s[n]
  BY <1>1, <1>2
<1> HIDE DEF t
<1>4. {t[n] : n \in DOMAIN t} = S \cup {i}
  <2>1. \A n \in DOMAIN t : t[n] \in S \cup {i}
    <3> SUFFICES ASSUME NEW n \in 1..Len(s) + 1, n # 1 PROVE t[n] \in S
      BY <1>3
    <3>1. n - 1 \in 1..Len(s) /\ n - 1 + 1 = n
      BY <1>1
    <3>2. t[n] = s[n - 1]
      BY <1>3, <3>1
    <3>3. QED
      BY <1>1, <3>1, <3>2
  <2>2. \A k \in S : \E n \in DOMAIN t : t[n] = k
    <3> SUFFICES ASSUME NEW n \in 1..Len(s) PROVE \E m \in DOMAIN t : t[m] = s[n]
      BY <1>1
    <3>1. n + 1 \in DOMAIN t /\ t[n + 1] = s[n]
      BY <1>1, <1>3
    <3>2. QED
      BY <3>1
  <2>3. 1 \in DOMAIN t
    BY <1>1, <1>3
  <2>4. QED
    BY <1>3, <2>1, <2>2, <2>3
<1>5. ASSUME NEW n \in 1..Len(t) - 1 PROVE t[n] < t[n + 1]
  <2>1. CASE n = 1
    <3>1. 1 \in 1..Len(s) /\ t[2] = s[1] /\ s[1] \in S
      <4>1. 1 \in 1..Len(s) /\ 1 + 1 = 2
        BY <1>1, <1>3, <2>1
      <4>2. QED
        BY <1>1, <1>3, <4>1
    <3>2. QED
      BY <1>3, <2>1, <3>1
  <2>2. CASE n # 1
    <3>1. n - 1 \in 1..Len(s) - 1 /\ n - 1 \in 1..Len(s) /\ n \in 1..Len(s) /\ n - 1 + 1 = n
      BY <1>1, <1>3, <2>2
    <3>2. t[n] = s[n - 1] /\ t[n + 1] = s[n] /\ s[n - 1] < s[n - 1 + 1]
      BY <1>3, <3>1
    <3>3. QED
      BY <3>1, <3>2
  <2>3. QED
    BY <2>1, <2>2
<1>6. QED
  BY <1>3, <1>4, <1>5 DEF t

(* The iterator from any slot that it stops at, and from the end. *)
LEMMA Iterates ==
  ASSUME NEW objs, NEW cap \in Nat
  PROVE  \E f : /\ Visited(objs, cap) = f[Skip(objs, 0, cap)]
                /\ \A i \in 0..cap : Lists(objs, cap, i, f[i])
<1> DEFINE Value(f, i) == IF i = cap THEN << >> ELSE <<i>> \o f[Skip(objs, i + 1, cap)]
           Loop(f) == f = [i \in 0..cap |->
                             IF i = cap THEN << >> ELSE <<i>> \o f[Skip(objs, i + 1, cap)]]
           Upto(i) == \E f : \A k \in i..cap : f[k] = Value(f, k)
<1>1. \A i \in 0..cap - 1 : Skip(objs, i + 1, cap) \in i + 1..cap
  <2> SUFFICES ASSUME NEW i \in 0..cap - 1 PROVE Skip(objs, i + 1, cap) \in i + 1..cap
    OBVIOUS
  <2>1. i + 1 \in 0..cap
    OBVIOUS
  <2>2. QED
    BY <2>1, Skips DEF IsFirst
<1>2. PICK g : Loop(g)
  <2> DEFINE S == {i \in 0..cap : Upto(i)}
  <2>1. cap \in S
    <3> DEFINE f == [k \in {cap} |-> << >>]
    <3>1. \A k \in cap..cap : f[k] = Value(f, k)
      OBVIOUS
    <3> HIDE DEF f, Value
    <3>2. QED
      BY <3>1
  <2>2. \A i \in 0..cap - 1 : i + 1 \in S => i \in S
    <3> HIDE DEF Upto
    <3> SUFFICES ASSUME NEW i \in 0..cap - 1, Upto(i + 1) PROVE Upto(i)
      OBVIOUS
    <3> USE DEF Upto
    <3>1. PICK f : \A k \in i + 1..cap : f[k] = Value(f, k)
      OBVIOUS
    <3> DEFINE e == [k \in 0..cap |-> IF k = i THEN Value(f, i) ELSE f[k]]
    <3>2. \A k \in i + 1..cap : e[k] = f[k]
      OBVIOUS
    <3>3. e[i] = Value(f, i)
      <4>1. i \in 0..cap
        OBVIOUS
      <4> HIDE DEF Value
      <4>2. QED
        BY <4>1
    <3> HIDE DEF e
    <3>4. ASSUME NEW k \in i..cap PROVE e[k] = Value(e, k)
      <4>1. CASE k = cap
        <5>1. k \in i + 1..cap
          BY <4>1
        <5>2. e[k] = f[k] /\ f[k] = Value(f, k)
          BY <3>1, <3>2, <5>1
        <5>3. QED
          BY <4>1, <5>2
      <4>2. CASE k # cap
        <5>1. k \in 0..cap - 1 /\ k + 1 >= i + 1
          BY <4>2
        <5>2. Skip(objs, k + 1, cap) \in i + 1..cap
          BY <1>1, <5>1
        <5>3. e[Skip(objs, k + 1, cap)] = f[Skip(objs, k + 1, cap)]
          BY <3>2, <5>2
        <5>4. e[k] = Value(f, k)
          <6>1. k = i \/ k \in i + 1..cap
            OBVIOUS
          <6>2. QED
            BY <3>1, <3>2, <3>3, <6>1
        <5>5. QED
          BY <4>2, <5>3, <5>4
      <4>3. QED
        BY <4>1, <4>2
    <3>5. QED
      BY <3>4
  <2> HIDE DEF S
  <2>3. S = 0..cap
    <3>1. S \subseteq 0..cap
      BY DEF S
    <3>2. QED
      BY <2>1, <2>2, <3>1, Downwards
  <2>4. PICK f : \A k \in 0..cap : f[k] = Value(f, k)
    <3>1. 0 \in S
      BY <2>3
    <3>2. QED
      BY <3>1 DEF S
  <2> DEFINE g == [k \in 0..cap |-> f[k]]
  <2>5. Loop(g)
    <3>1. ASSUME NEW k \in 0..cap PROVE f[k] = Value(g, k)
      <4>1. CASE k = cap
        BY <2>4, <4>1
      <4>2. CASE k # cap
        <5>1. k \in 0..cap - 1
          BY <4>2
        <5>2. Skip(objs, k + 1, cap) \in 0..cap
          BY <1>1, <5>1
        <5>3. QED
          BY <2>4, <4>2, <5>2
      <4>3. QED
        BY <4>1, <4>2
    <3>2. QED
      BY <3>1
  <2> HIDE DEF g, Loop
  <2>6. QED
    BY <2>5
<1>3. PICK f : Loop(f) /\ Visited(objs, cap) = f[Skip(objs, 0, cap)]
  <2> DEFINE h == CHOOSE f : Loop(f)
  <2>1. Loop(h)
    BY <1>2
  <2>2. Visited(objs, cap) = h[Skip(objs, 0, cap)]
    BY DEF Visited
  <2> HIDE DEF h, Loop
  <2>3. QED
    BY <2>1, <2>2
<1>4. \A i \in 0..cap : f[i] = Value(f, i)
  <2>1. f = [i \in 0..cap |-> Value(f, i)]
    BY <1>3
  <2> HIDE DEF Value
  <2>2. QED
    BY <2>1
<1> DEFINE S == {i \in 0..cap : \A k \in i..cap : Lists(objs, cap, k, f[k])}
<1>5. cap \in S
  <2>1. f[cap] = << >>
    <3>1. cap \in 0..cap
      OBVIOUS
    <3>2. f[cap] = Value(f, cap)
      BY <1>4, <3>1
    <3>3. QED
      BY <3>2
  <2>2. Lists(objs, cap, cap, << >>)
    BY DEF Lists
  <2>3. QED
    BY <2>1, <2>2
<1>6. \A i \in 0..cap - 1 : i + 1 \in S => i \in S
  <2> SUFFICES ASSUME NEW i \in 0..cap - 1, \A k \in i + 1..cap : Lists(objs, cap, k, f[k])
               PROVE  Lists(objs, cap, i, f[i])
    <3>1. \A i \in 0..cap - 1 : i \in 0..cap /\ \A k \in i..cap : k = i \/ k \in i + 1..cap
      OBVIOUS
    <3>2. QED
      BY <3>1
  <2> DEFINE j == Skip(objs, i + 1, cap)
             R == {k \in j..cap - 1 : k = j \/ Left(objs, k)}
  <2>1. j \in i + 1..cap /\ (j = cap \/ Left(objs, j)) /\ \A m \in i + 1..j - 1 : ~Left(objs, m)
    <3>1. i + 1 \in 0..cap
      OBVIOUS
    <3>2. QED
      BY <3>1, Skips DEF IsFirst
  <2>2. f[i] = <<i>> \o f[j] /\ Lists(objs, cap, j, f[j])
    <3>1. i \in 0..cap /\ i # cap
      OBVIOUS
    <3>2. f[i] = Value(f, i)
      BY <1>4, <3>1
    <3>3. QED
      BY <2>1, <3>1, <3>2
  <2> HIDE DEF j
  <2>3. R \in SUBSET Nat /\ \A k \in R : i < k
    BY <2>1
  <2>4. R \cup {i} = {k \in i..cap - 1 : k = i \/ Left(objs, k)}
    <3>1. \A k \in R : k \in i..cap - 1 /\ Left(objs, k)
      BY <2>1
    <3>2. ASSUME NEW k \in i..cap - 1, k # i, Left(objs, k) PROVE k \in R
      <4>1. k \notin i + 1..j - 1
        BY <2>1, <3>2
      <4>2. k \in j..cap - 1
        BY <2>1, <3>2, <4>1
      <4>3. QED
        BY <3>2, <4>2
    <3>3. i \in i..cap - 1
      OBVIOUS
    <3> HIDE DEF R
    <3>4. QED
      BY <3>1, <3>2, <3>3
  <2>5. /\ f[j] \in Seq(Nat) /\ {f[j][n] : n \in DOMAIN f[j]} = R
        /\ \A n \in 1..Len(f[j]) - 1 : f[j][n] < f[j][n + 1]
    BY <2>2 DEF Lists
  <2>6. i \in Nat
    OBVIOUS
  <2> HIDE DEF R
  <2>7. /\ f[i] \in Seq(Nat) /\ {f[i][n] : n \in DOMAIN f[i]} = R \cup {i}
        /\ \A n \in 1..Len(f[i]) - 1 : f[i][n] < f[i][n + 1]
    <3> DEFINE s == f[j]
               t == <<i>> \o s
    <3>1. /\ s \in Seq(Nat) /\ {s[n] : n \in DOMAIN s} = R
          /\ \A n \in 1..Len(s) - 1 : s[n] < s[n + 1]
      BY <2>5
    <3> HIDE DEF s
    <3>2. /\ t \in Seq(Nat) /\ {t[n] : n \in DOMAIN t} = R \cup {i}
          /\ \A n \in 1..Len(t) - 1 : t[n] < t[n + 1]
      BY <2>3, <2>6, <3>1, Precede, ZenonT(60)
    <3>3. f[i] = t
      BY <2>2 DEF s
    <3>4. QED
      BY <3>2, <3>3
  <2>8. QED
    BY <2>4, <2>7 DEF Lists
<1> HIDE DEF S
<1>7. S = 0..cap
  <2>1. S \subseteq 0..cap
    BY DEF S
  <2>2. QED
    BY <1>5, <1>6, <2>1, Downwards
<1>8. \A i \in 0..cap : Lists(objs, cap, i, f[i])
  <2>1. 0 \in S
    BY <1>7
  <2>2. QED
    BY <2>1 DEF S
<1>9. QED
  BY <1>3, <1>8

(* From its construction to its end it stops at the objects that are left.  *)
LEMMA Visits ==
  ASSUME NEW objs, NEW cap \in Nat
  PROVE  LET visited == Visited(objs, cap) IN
         /\ {visited[n] : n \in DOMAIN visited} = {i \in 0..cap - 1 : Left(objs, i)}
         /\ \A n \in 1..Len(visited) - 1 : visited[n] < visited[n + 1]
<1> DEFINE j == Skip(objs, 0, cap)
<1>1. j \in 0..cap /\ (j = cap \/ Left(objs, j)) /\ \A m \in 0..j - 1 : ~Left(objs, m)
  <2>1. 0 \in 0..cap
    OBVIOUS
  <2>2. QED
    BY <2>1, Skips DEF IsFirst
<1>2. Lists(objs, cap, j, Visited(objs, cap))
  <2>1. PICK f : /\ Visited(objs, cap) = f[Skip(objs, 0, cap)]
                 /\ \A i \in 0..cap : Lists(objs, cap, i, f[i])
    BY Iterates
  <2>2. QED
    BY <1>1, <2>1
<1> HIDE DEF j
<1>3. {k \in j..cap - 1 : k = j \/ Left(objs, k)} = {i \in 0..cap - 1 : Left(objs, i)}
  <2>1. ASSUME NEW k \in j..cap - 1, k = j \/ Left(objs, k)
        PROVE  k \in 0..cap - 1 /\ Left(objs, k)
    BY <1>1, <2>1
  <2>2. ASSUME NEW k \in 0..cap - 1, Left(objs, k) PROVE k \in j..cap - 1
    <3>1. k \notin 0..j - 1
      BY <1>1, <2>2
    <3>2. QED
      BY <1>1, <3>1
  <2>3. QED
    BY <2>1, <2>2
<1>4. QED
  BY <1>2, <1>3 DEF Lists

LEMMA Iteration == ASSUME TableInv PROVE VisitsTheRest
<1> SUFFICES ASSUME NEW cleared \in SUBSET {i \in 0..topIndex - 1 : slots[i].obj # Null}
             PROVE  LET objs == [i \in Indices |-> IF i \in cleared THEN Cleared
                                                   ELSE slots[i].obj]
                        visited == Visited(objs, topIndex)
                    IN /\ {visited[k] : k \in DOMAIN visited} =
                            {i \in 0..topIndex - 1 : slots[i].obj # Null} \ cleared
                       /\ \A k \in 1..Len(visited) - 1 : visited[k] < visited[k + 1]
  BY DEF VisitsTheRest
<1> DEFINE objs == [i \in Indices |-> IF i \in cleared THEN Cleared ELSE slots[i].obj]
<1>1. topIndex \in Nat /\ \A i \in 0..topIndex - 1 : i \in Indices
  BY Width DEF TableInv, TableType, Indices
<1>2. \A i \in 0..topIndex - 1 : Left(objs, i) <=> slots[i].obj # Null /\ i \notin cleared
  <2> SUFFICES ASSUME NEW i \in 0..topIndex - 1
               PROVE  Left(objs, i) <=> slots[i].obj # Null /\ i \notin cleared
    OBVIOUS
  <2>1. /\ i \in Indices /\ slots[i].obj \in Objects \cup {Null}
        /\ objs[i] = IF i \in cleared THEN Cleared ELSE slots[i].obj
    BY <1>1 DEF TableInv, TableType
  <2>2. Cleared \notin Objects /\ Null # Cleared
    BY IndirectRefTableAssumption
  <2> HIDE DEF objs
  <2>3. QED
    BY <2>1, <2>2 DEF Left
<1> HIDE DEF objs
<1>3. {i \in 0..topIndex - 1 : Left(objs, i)}
        = {i \in 0..topIndex - 1 : slots[i].obj # Null} \ cleared
  BY <1>2
<1>4. LET visited == Visited(objs, topIndex) IN
      /\ {visited[n] : n \in DOMAIN visited} = {i \in 0..topIndex - 1 : Left(objs, i)}
      /\ \A n \in 1..Len(visited) - 1 : visited[n] < visited[n + 1]
  BY <1>1, Visits
<1>5. QED
  BY <1>3, <1>4 DEF objs

-----------------------------------------------------------------------------
(* In the table alone and with the calls of untaint, a reference that is    *)
(* still good is resolved to its object: IndirectRefTable::get.             *)
THEOREM TableResolves == TableSpec => []LiveResolves
<1>1. TableInit => TableInv
  BY TableStart DEF TableInit
<1>2. TableInv /\ [TableNext]_tableVars => TableInv'
  BY TableStep
<1>3. QED
  BY <1>1, <1>2, Resolves, PTL DEF TableSpec

THEOREM ReferencesResolve == Spec => []LiveResolves
<1>1. UntaintInv => LiveResolves
  BY Resolves DEF UntaintInv
<1>2. QED
  BY <1>1, Invariance, PTL

(* A lookup of any number answers the invalid object or one that a good     *)
(* reference to the same slot holds: the range check of get.                *)
THEOREM AnswersHeld == Spec => []AnswersAreHeld
<1>1. UntaintInv => AnswersAreHeld
  BY Answers DEF UntaintInv
<1>2. QED
  BY <1>1, Invariance, PTL

(* An iteration over the table, with any of its objects cleared, stops at    *)
(* the slots that have an object left, each once and in their order:        *)
(* skipNullsAndTombstones and the increment of iref_iterator.               *)
THEOREM IteratorVisits == Spec => []VisitsTheRest
<1>1. UntaintInv => VisitsTheRest
  BY Iteration DEF UntaintInv
<1>2. QED
  BY <1>1, Invariance, PTL

(* untaint writes to the string it was given, which a reference holds.      *)
THEOREM GivenIsTouched == Spec => []TouchedIsGiven
<1>1. UntaintInv => TouchedIsGiven
  <2> SUFFICES ASSUME UntaintInv, pc \in {"touch", "destruct"} PROVE TouchedIsGiven
    BY DEF TouchedIsGiven
  <2>1. obj = given /\ [ref |-> content, obj |-> given, depth |-> Len(frames)] \in live
    BY DEF UntaintInv, NativeInv
  <2> DEFINE entry == [ref |-> content, obj |-> given, depth |-> Len(frames)]
  <2>2. entry \in live /\ entry.obj = obj /\ entry.depth = Len(frames)
    BY <2>1
  <2> HIDE DEF entry
  <2>3. QED
    BY <2>1, <2>2 DEF TouchedIsGiven
<1>2. QED
  BY <1>1, Invariance, PTL

=============================================================================
