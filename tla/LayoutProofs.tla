---------------------------- MODULE LayoutProofs ----------------------------
(***************************************************************************)
(* The structures that the native code declares, for every build: where     *)
(* their members are, and that the walk of untaint through them ends at the *)
(* taint tag exactly on machines with TaintDroid and the JIT.               *)
(*                                                                         *)
(* StructLayout defines the ends of members by recursion, a thread has more *)
(* than sixty members.  So the lemmas add one piece to a structure at a    *)
(* time: its end, its names, its alignments; what follows moves nothing.    *)
(***************************************************************************)
EXTENDS UntaintWalk, FiniteSetTheorems, SequenceTheorems, TLAPS

-----------------------------------------------------------------------------
(* Numbers. *)

(* What remains of a sum in which one part is a multiple. *)
LEMMA Division ==
  ASSUME NEW w \in Nat \ {0}, NEW s \in Nat, NEW i \in 0..w - 1
  PROVE  (s * w + i) % w = i
<1> DEFINE n == s * w + i
           q == n \div w
           r == n % w
<1>1. s * w \in Nat /\ n \in Nat
  OBVIOUS
<1>2. q \in Int /\ r \in 0..w - 1 /\ n = w * q + r
  BY <1>1
<1> HIDE DEF q, r
<1>3. w * (q - s) = i - r
  BY <1>2
<1>4. CASE q - s >= 1
  <2>1. w * (q - s) >= w
    BY <1>2, <1>4
  <2>2. QED
    BY <1>2, <1>3, <2>1
<1>5. CASE q - s <= -1
  <2>1. w * (q - s) <= -w
    BY <1>2, <1>5
  <2>2. QED
    BY <1>2, <1>3, <2>1
<1>6. CASE q = s
  BY <1>2, <1>3, <1>6
<1>7. QED
  BY <1>2, <1>4, <1>5, <1>6 DEF r

(* A finite set of numbers has a greatest one: its elements with the fewest *)
(* above them, by the well-founded order on finite sets.                    *)
LEMMA Greatest ==
  ASSUME NEW S, IsFiniteSet(S), S \subseteq Int, S # {}
  PROVE  \E i \in S : \A j \in S : j <= i
<1> DEFINE Above(i) == {j \in S : j > i}
           T == {Above(i) : i \in S}
<1>1. T \subseteq FiniteSubsetsOf(S) /\ T # {}
  <2>1. \A i \in S : Above(i) \in SUBSET S
    OBVIOUS
  <2>2. FiniteSubsetsOf(S) = SUBSET S
    BY FS_FiniteSubsetsOfFinite
  <2> HIDE DEF Above
  <2>3. \A x \in T : x \in SUBSET S
    BY <2>1
  <2>4. PICK i : i \in S
    OBVIOUS
  <2>5. Above(i) \in T
    BY <2>4
  <2> HIDE DEF T
  <2>6. QED
    BY <2>2, <2>3, <2>5
<1>2. IsWellFoundedOn(StrictSubsetOrdering(S), FiniteSubsetsOf(S))
  BY FS_StrictSubsetOrderingWellFounded
<1>3. PICK x \in T : \A y \in T : <<y, x>> \notin StrictSubsetOrdering(S)
  <2> HIDE DEF T
  <2>1. QED
    BY <1>1, <1>2, WFMin
<1>4. PICK i \in S : x = Above(i)
  <2> HIDE DEF Above
  <2>1. QED
    BY <1>3
<1>5. ASSUME NEW k \in S, k > i PROVE FALSE
  <2>0. k \in Int /\ i \in Int /\ \A j \in S : j \in Int
    OBVIOUS
  <2>1. Above(k) \subseteq Above(i) /\ k \in Above(i) /\ k \notin Above(k)
    <3>1. \A j \in S : j > k => j > i
      BY <2>0, <1>5
    <3>2. k > i /\ ~(k > k)
      BY <2>0, <1>5
    <3>3. QED
      BY <3>1, <3>2
  <2>2. Above(k) \subseteq S /\ Above(i) \subseteq S
    OBVIOUS
  <2> HIDE DEF Above
  <2>3. <<Above(k), Above(i)>> \in StrictSubsetOrdering(S)
    BY <2>1, <2>2, Above(k) # Above(i) DEF StrictSubsetOrdering
  <2>4. Above(k) \in T
    OBVIOUS
  <2>5. QED
    BY <1>3, <1>4, <2>3, <2>4
<1>6. QED
  BY <1>5

(* A set of numbers that holds the greatest one of a range, and with each   *)
(* its predecessor, is the range.                                           *)
LEMMA Downwards ==
  ASSUME NEW cap \in Nat, NEW S, S \subseteq 0..cap, cap \in S,
         \A k \in 0..cap - 1 : k + 1 \in S => k \in S
  PROVE  S = 0..cap
<1> DEFINE D == (0..cap) \ S
<1>1. IsFiniteSet(D)
  <2>1. IsFiniteSet(0..cap) /\ D \in SUBSET (0..cap)
    BY FS_Interval
  <2> HIDE DEF D
  <2>2. QED
    BY <2>1, FS_Subset
<1>2. CASE D # {}
  <2>1. PICK i \in D : \A j \in D : j <= i
    <3>1. D \subseteq Int
      OBVIOUS
    <3> HIDE DEF D
    <3>2. QED
      BY <1>1, <1>2, <3>1, Greatest
  <2>2. i \in 0..cap - 1 /\ i + 1 \in 0..cap /\ ~(i + 1 <= i)
    <3>1. i # cap /\ i \in 0..cap
      OBVIOUS
    <3>2. QED
      BY <3>1
  <2>3. i + 1 \in S
    BY <2>1, <2>2
  <2>4. QED
    BY <2>2, <2>3
<1>3. CASE D = {}
  BY <1>3
<1>4. QED
  BY <1>2, <1>3

(* A set of numbers that holds the least one of a range, and with each its  *)
(* successor, is the range.                                                 *)
LEMMA Upwards ==
  ASSUME NEW cap \in Nat, NEW S, S \subseteq 0..cap, 0 \in S,
         \A k \in 0..cap - 1 : k \in S => k + 1 \in S
  PROVE  S = 0..cap
<1> DEFINE T == {k \in 0..cap : cap - k \in S}
<1>1. cap \in T
  OBVIOUS
<1>2. ASSUME NEW k \in 0..cap - 1, k + 1 \in T PROVE k \in T
  <2>1. cap - (k + 1) \in 0..cap - 1 /\ cap - (k + 1) + 1 = cap - k /\ cap - (k + 1) \in S
    BY <1>2
  <2>2. QED
    BY <2>1
<1>3. T = 0..cap
  <2>1. T \subseteq 0..cap
    OBVIOUS
  <2> HIDE DEF T
  <2>2. QED
    BY <1>1, <1>2, <2>1, Downwards
<1>4. \A k \in 0..cap : cap - k \in 0..cap /\ cap - (cap - k) = k
  OBVIOUS
<1>5. \A k \in 0..cap : k \in S
  BY <1>3, <1>4
<1>6. QED
  BY <1>5

-----------------------------------------------------------------------------
(* The layout of structures. *)

(* Types whose size is a multiple of their alignment, as those of C are, and *)
(* structures of such members.                                              *)
Types == {t \in [size : Nat, align : Nat \ {0}] : t.size % t.align = 0}

IsMember(x) == x = [name |-> x.name, type |-> x.type] /\ x.type \in Types

IsLayout(m) ==
  /\ m \in Seq({m[k] : k \in DOMAIN m})
  /\ \A k \in DOMAIN m : IsMember(m[k])

End(m) == EndsOf(m)[Len(m)]

(* AlignUp gives the next multiple. *)
LEMMA Aligned ==
  ASSUME NEW n \in Nat, NEW a \in Nat \ {0}
  PROVE  /\ AlignUp(n, a) \in Nat /\ AlignUp(n, a) >= n
         /\ AlignUp(n, a) % a = 0
         /\ n % a = 0 => AlignUp(n, a) = n
<1> DEFINE q == (n + a - 1) \div a
           r == (n + a - 1) % a
<1>1. q \in Nat /\ n + a - 1 = (a * q) + r /\ r \in 0..a - 1
  OBVIOUS
<1>2. AlignUp(n, a) = q * a
  BY DEF AlignUp
<1> HIDE DEF q, r
<1>3. q * a \in Nat /\ q * a = a * q /\ q * a >= n
  BY <1>1
<1>4. (q * a) % a = 0
  <2>1. q \in Nat /\ 0 \in 0..a - 1
    BY <1>1
  <2>2. (q * a + 0) % a = 0
    BY <2>1, Division
  <2>3. QED
    BY <1>3, <2>2
<1>5. ASSUME n % a = 0 PROVE q * a = n
  <2> DEFINE p == n \div a
  <2>1. p \in Nat /\ n = (a * p) + (n % a)
    OBVIOUS
  <2> HIDE DEF p
  <2>2. n = a * p /\ n + a - 1 = (a * q) + r
    BY <1>1, <1>5, <2>1
  <2>3. CASE q >= p + 1
    <3>1. a * q >= a * p + a
      BY <1>1, <2>1, <2>3
    <3>2. QED
      BY <1>1, <2>1, <2>2, <3>1
  <2>4. CASE q <= p - 1
    <3>1. a * q <= a * p - a
      BY <1>1, <2>1, <2>4
    <3>2. QED
      BY <1>1, <2>1, <2>2, <3>1
  <2>5. QED
    BY <1>1, <1>5, <2>1, <2>3, <2>4
<1>6. QED
  BY <1>2, <1>3, <1>4, <1>5

(* The ends of the members are what the recursion says: such a function     *)
(* exists.                                                                  *)
LEMMA Ends ==
  ASSUME NEW m, IsLayout(m)
  PROVE  /\ EndsOf(m) \in [0..Len(m) -> Nat] /\ EndsOf(m)[0] = 0
         /\ \A k \in 1..Len(m) :
              EndsOf(m)[k] = AlignUp(EndsOf(m)[k - 1], m[k].type.align) + m[k].type.size
<1> DEFINE n == Len(m)
           Value(f, k) == IF k = 0 THEN 0
                          ELSE AlignUp(f[k - 1], m[k].type.align) + m[k].type.size
           Loop(f) == f = [k \in 0..n |-> IF k = 0 THEN 0
                             ELSE AlignUp(f[k - 1], m[k].type.align) + m[k].type.size]
           Upto(i) == \E f : \A k \in 0..i : f[k] = Value(f, k)
<1>1. n \in Nat /\ DOMAIN m = 1..n /\ \A k \in 1..n : m[k].type \in Types
  BY DEF IsLayout, IsMember
<1>2. PICK g : Loop(g)
  <2> DEFINE S == {i \in 0..n : Upto(i)}
  <2>1. 0 \in S
    <3> DEFINE f == [k \in {0} |-> 0]
    <3>1. \A k \in 0..0 : f[k] = Value(f, k)
      OBVIOUS
    <3> HIDE DEF f, Value
    <3>2. QED
      BY <1>1, <3>1
  <2>2. \A i \in 0..n - 1 : i \in S => i + 1 \in S
    <3> HIDE DEF Upto
    <3> SUFFICES ASSUME NEW i \in 0..n - 1, Upto(i) PROVE Upto(i + 1)
      BY <1>1
    <3> USE DEF Upto
    <3>1. PICK f : \A k \in 0..i : f[k] = Value(f, k)
      OBVIOUS
    <3> DEFINE e == [k \in 0..i + 1 |-> IF k = i + 1 THEN Value(f, i + 1) ELSE f[k]]
    <3>2. e[i + 1] = Value(f, i + 1) /\ \A k \in 0..i : e[k] = f[k]
      BY <1>1
    <3> HIDE DEF e
    <3>3. \A k \in 0..i : e[k] = Value(e, k)
      <4> SUFFICES ASSUME NEW k \in 0..i PROVE e[k] = Value(e, k)
        OBVIOUS
      <4>1. k # 0 => k - 1 \in 0..i
        OBVIOUS
      <4>2. QED
        BY <3>1, <3>2, <4>1
    <3>4. e[i + 1] = Value(e, i + 1)
      BY <1>1, <3>2
    <3>5. \A k \in 0..i + 1 : e[k] = Value(e, k)
      BY <3>3, <3>4
    <3> HIDE DEF Value
    <3>6. QED
      BY <3>5
  <2> HIDE DEF S, Upto
  <2>3. S = 0..n
    <3>1. S \subseteq 0..n /\ 0 \in S
      BY <2>1 DEF S
    <3>2. QED
      BY <1>1, <2>2, <3>1, Upwards
  <2>4. Upto(n)
    BY <1>1, <2>3 DEF S
  <2>5. PICK f : \A k \in 0..n : f[k] = Value(f, k)
    BY <2>4 DEF Upto
  <2> DEFINE g == [k \in 0..n |-> f[k]]
  <2>6. Loop(g)
    <3>1. \A k \in 0..n : g[k] = f[k] /\ (k # 0 => k - 1 \in 0..n)
      BY <1>1
    <3>2. \A k \in 0..n : f[k] = Value(g, k)
      <4> SUFFICES ASSUME NEW k \in 0..n PROVE f[k] = Value(g, k)
        OBVIOUS
      <4>1. k # 0 => g[k - 1] = f[k - 1]
        BY <3>1
      <4>2. QED
        BY <2>5, <4>1
    <3>3. QED
      BY <3>2
  <2>7. QED
    BY <2>6
<1>3. EndsOf(m) = CHOOSE f : Loop(f)
  BY DEF EndsOf
<1>4. Loop(EndsOf(m))
  BY <1>2, <1>3
<1>5. EndsOf(m)[0] = 0 /\ \A k \in 1..n : EndsOf(m)[k] = Value(EndsOf(m), k)
  BY <1>1, <1>4
<1>6. {k \in 0..n : EndsOf(m)[k] \in Nat} = 0..n
  <2> DEFINE S == {k \in 0..n : EndsOf(m)[k] \in Nat}
  <2>1. S \subseteq 0..n /\ 0 \in S
    BY <1>1, <1>5
  <2>2. ASSUME NEW k \in 0..n - 1, k \in S PROVE k + 1 \in S
    <3>1. k + 1 \in 1..n /\ k + 1 - 1 = k /\ m[k + 1].type \in Types /\ EndsOf(m)[k] \in Nat
      BY <1>1, <2>2
    <3>2. EndsOf(m)[k + 1] = AlignUp(EndsOf(m)[k], m[k + 1].type.align) + m[k + 1].type.size
      BY <1>5, <3>1
    <3>3. m[k + 1].type.align \in Nat \ {0} /\ m[k + 1].type.size \in Nat
      BY <3>1 DEF Types
    <3>4. AlignUp(EndsOf(m)[k], m[k + 1].type.align) \in Nat
      BY <3>1, <3>3, Aligned
    <3>5. QED
      BY <1>1, <3>1, <3>2, <3>3, <3>4
  <2> HIDE DEF S
  <2>3. QED
    BY <1>1, <2>1, <2>2, Upwards DEF S
<1>7. EndsOf(m) \in [0..n -> Nat]
  BY <1>4, <1>6
<1>8. QED
  BY <1>5, <1>7

(* Structures in a row. *)
LEMMA Joined ==
  ASSUME NEW m, NEW r, IsLayout(m), IsLayout(r)
  PROVE  /\ IsLayout(m \o r) /\ Len(m \o r) = Len(m) + Len(r)
         /\ \A k \in 1..Len(m) : (m \o r)[k] = m[k]
         /\ \A k \in 1..Len(r) : (m \o r)[Len(m) + k] = r[k]
         /\ NamesOf(m \o r) = NamesOf(m) \cup NamesOf(r)
         /\ Len(m) \in Nat /\ Len(r) \in Nat /\ DOMAIN m = 1..Len(m) /\ DOMAIN r = 1..Len(r)
<1> DEFINE S == {m[k] : k \in DOMAIN m} \cup {r[k] : k \in DOMAIN r}
           j == m \o r
<1>1. m \in Seq(S) /\ r \in Seq(S)
  BY DEF IsLayout
<1>2. /\ j \in Seq(S) /\ Len(j) = Len(m) + Len(r)
      /\ \A k \in 1..Len(m) : j[k] = m[k]
      /\ \A k \in 1..Len(r) : j[Len(m) + k] = r[k]
  <2> HIDE DEF S
  <2>1. QED
    BY <1>1, ConcatProperties
<1>3. Len(m) \in Nat /\ Len(r) \in Nat /\ DOMAIN m = 1..Len(m) /\ DOMAIN r = 1..Len(r)
  BY <1>1
<1>4. DOMAIN j = 1..Len(m) + Len(r)
  BY <1>2
<1> HIDE DEF S, j
<1>5. \A k \in DOMAIN j : \/ k \in 1..Len(m) /\ j[k] = m[k]
                          \/ k - Len(m) \in 1..Len(r) /\ j[k] = r[k - Len(m)]
  <2> SUFFICES ASSUME NEW k \in DOMAIN j, k \notin 1..Len(m)
               PROVE  k - Len(m) \in 1..Len(r) /\ j[k] = r[k - Len(m)]
    BY <1>2
  <2>1. k - Len(m) \in 1..Len(r) /\ Len(m) + (k - Len(m)) = k
    BY <1>3, <1>4
  <2>2. QED
    BY <1>2, <2>1
<1>6. IsLayout(j)
  <2>1. \A k \in DOMAIN j : IsMember(j[k])
    BY <1>3, <1>5 DEF IsLayout
  <2>2. j \in Seq({j[k] : k \in DOMAIN j})
    BY <1>2
  <2>3. QED
    BY <2>1, <2>2 DEF IsLayout
<1>7. NamesOf(j) = NamesOf(m) \cup NamesOf(r)
  <2>1. \A k \in 1..Len(m) : k \in DOMAIN j
    BY <1>3, <1>4
  <2>2. \A k \in 1..Len(r) : Len(m) + k \in DOMAIN j
    BY <1>3, <1>4
  <2>3. NamesOf(m) \subseteq NamesOf(j)
    BY <1>2, <1>3, <2>1 DEF NamesOf
  <2>4. NamesOf(r) \subseteq NamesOf(j)
    BY <1>2, <1>3, <2>2 DEF NamesOf
  <2>5. NamesOf(j) \subseteq NamesOf(m) \cup NamesOf(r)
    BY <1>3, <1>5 DEF NamesOf
  <2>6. QED
    BY <2>3, <2>4, <2>5
<1>8. QED
  BY <1>2, <1>3, <1>6, <1>7 DEF j

(* What follows does not move what precedes. *)
LEMMA EndsStay ==
  ASSUME NEW m, NEW r, IsLayout(m), IsLayout(r)
  PROVE  \A k \in 0..Len(m) : EndsOf(m \o r)[k] = EndsOf(m)[k]
<1> DEFINE j == m \o r
           S == {k \in 0..Len(m) : EndsOf(j)[k] = EndsOf(m)[k]}
<1>1. /\ IsLayout(j) /\ Len(j) = Len(m) + Len(r) /\ Len(m) \in Nat /\ Len(r) \in Nat
      /\ \A k \in 1..Len(m) : j[k] = m[k]
  BY Joined
<1> HIDE DEF j
<1>2. 0 \in S /\ \A k \in 1..Len(j) :
        EndsOf(j)[k] = AlignUp(EndsOf(j)[k - 1], j[k].type.align) + j[k].type.size
  BY <1>1, Ends
<1>3. ASSUME NEW k \in 0..Len(m) - 1, k \in S PROVE k + 1 \in S
  <2>1. k + 1 \in 1..Len(m) /\ k + 1 \in 1..Len(j) /\ k + 1 - 1 = k /\ j[k + 1] = m[k + 1]
    BY <1>1
  <2>2. EndsOf(j)[k + 1] = AlignUp(EndsOf(j)[k], j[k + 1].type.align) + j[k + 1].type.size
    BY <1>2, <2>1
  <2>3. EndsOf(m)[k + 1] = AlignUp(EndsOf(m)[k], m[k + 1].type.align) + m[k + 1].type.size
    BY <2>1, Ends
  <2>4. QED
    BY <1>1, <1>3, <2>1, <2>2, <2>3
<1>4. S = 0..Len(m)
  <2>1. S \subseteq 0..Len(m)
    OBVIOUS
  <2> HIDE DEF S
  <2>2. QED
    BY <1>1, <1>2, <1>3, <2>1, Upwards
<1>5. QED
  BY <1>4 DEF j

(* Nothing ends before what precedes it. *)
LEMMA EndsGrow ==
  ASSUME NEW m, NEW r, IsLayout(m), IsLayout(r)
  PROVE  End(m) \in Nat /\ End(m \o r) \in Nat /\ End(m \o r) >= End(m)
<1> DEFINE j == m \o r
           S == {k \in 0..Len(r) : EndsOf(j)[Len(m) + k] >= End(m)}
<1>1. /\ IsLayout(j) /\ Len(j) = Len(m) + Len(r) /\ Len(m) \in Nat /\ Len(r) \in Nat
  BY Joined
<1>2. EndsOf(j)[Len(m)] = End(m)
  BY <1>1, EndsStay DEF End
<1> HIDE DEF j
<1>3. /\ EndsOf(j) \in [0..Len(j) -> Nat] /\ End(m) \in Nat
      /\ \A k \in 1..Len(j) :
           EndsOf(j)[k] = AlignUp(EndsOf(j)[k - 1], j[k].type.align) + j[k].type.size
  BY <1>1, <1>2, Ends
<1>4. 0 \in S
  BY <1>1, <1>2, <1>3
<1>5. ASSUME NEW k \in 0..Len(r) - 1, k \in S PROVE k + 1 \in S
  <2> DEFINE i == Len(m) + k + 1
             t == j[i].type
  <2>1. i \in 1..Len(j) /\ i - 1 = Len(m) + k /\ i - 1 \in 0..Len(j) /\ i = Len(m) + (k + 1)
    BY <1>1
  <2> HIDE DEF i
  <2>2. EndsOf(j)[i] = AlignUp(EndsOf(j)[i - 1], t.align) + t.size
    BY <1>3, <2>1
  <2>3. t \in Types
    BY <1>1, <2>1 DEF IsLayout, IsMember
  <2> HIDE DEF t
  <2>4. t.size \in Nat /\ t.align \in Nat \ {0} /\ EndsOf(j)[i - 1] \in Nat
    BY <1>3, <2>1, <2>3 DEF Types
  <2>5. AlignUp(EndsOf(j)[i - 1], t.align) \in Nat
        /\ AlignUp(EndsOf(j)[i - 1], t.align) >= EndsOf(j)[i - 1]
    BY <2>4, Aligned
  <2>6. EndsOf(j)[i - 1] >= End(m)
    BY <1>5, <2>1
  <2>7. EndsOf(j)[i] >= End(m)
    BY <1>3, <2>2, <2>4, <2>5, <2>6
  <2>8. QED
    BY <1>1, <2>1, <2>7
<1>6. S = 0..Len(r)
  <2>1. S \subseteq 0..Len(r)
    OBVIOUS
  <2> HIDE DEF S
  <2>2. QED
    BY <1>1, <1>4, <1>5, <2>1, Upwards
<1>7. EndsOf(j)[Len(m) + Len(r)] >= End(m) /\ EndsOf(j)[Len(m) + Len(r)] \in Nat
  <2>1. Len(r) \in S
    BY <1>1, <1>6
  <2>2. Len(m) + Len(r) \in 0..Len(j)
    BY <1>1
  <2>3. QED
    BY <1>3, <2>1, <2>2
<1>8. QED
  BY <1>1, <1>3, <1>7 DEF j, End

(* Multiples of an alignment, and what is a multiple beyond one. *)
LEMMA Multiples ==
  ASSUME NEW a \in Nat \ {0}, NEW x \in Nat, NEW y \in Nat, NEW k \in Nat,
         x % a = 0, y % a = 0
  PROVE  x + k * y \in Nat /\ (x + k * y) % a = 0
<1> DEFINE p == x \div a
           q == y \div a
<1>1. p \in Nat /\ q \in Nat /\ x = a * p /\ y = a * q
  OBVIOUS
<1> HIDE DEF p, q
<1>2. k * q \in Nat /\ p + k * q \in Nat /\ k * (a * q) = a * (k * q)
  BY <1>1
<1>3. x + k * y = (p + k * q) * a + 0
  BY <1>1, <1>2
<1>4. 0 \in 0..a - 1
  OBVIOUS
<1>5. ((p + k * q) * a + 0) % a = 0
  BY <1>2, <1>4, Division
<1>6. k * y \in Nat
  BY <1>1, <1>2
<1>7. QED
  BY <1>3, <1>5, <1>6

(* Members of one type in a row: an array of them. *)
LEMMA Row ==
  ASSUME NEW m, IsLayout(m), NEW n \in Nat \ {0}, NEW names, DOMAIN names = 1..n,
         NEW t \in Types
  PROVE  /\ IsLayout(Several(names, t)) /\ Len(Several(names, t)) = n
         /\ IsLayout(m \o Several(names, t))
         /\ \A k \in 1..n : Several(names, t)[k] = [name |-> names[k], type |-> t]
         /\ NamesOf(Several(names, t)) = {names[k] : k \in 1..n}
         /\ End(m) \in Nat /\ AlignUp(End(m), t.align) \in Nat
         /\ \A k \in 1..n : Start(m \o Several(names, t), Len(m) + k)
                             = AlignUp(End(m), t.align) + (k - 1) * t.size
         /\ End(m \o Several(names, t)) = AlignUp(End(m), t.align) + n * t.size
<1> DEFINE s == Several(names, t)
           first == AlignUp(End(m), t.align)
           j == m \o s
           S == {k \in 0..n - 1 : EndsOf(j)[Len(m) + (k + 1)] = first + (k + 1) * t.size}
<1>1. t.size \in Nat /\ t.align \in Nat \ {0} /\ t.size % t.align = 0
  BY DEF Types
<1>2. s = [k \in 1..n |-> [name |-> names[k], type |-> t]]
  BY DEF Several
<1>3. Len(s) = n /\ DOMAIN s = 1..n /\ \A k \in 1..n : s[k] = [name |-> names[k], type |-> t]
  BY <1>2
<1>4. IsLayout(s)
  <2>1. s \in Seq({s[k] : k \in DOMAIN s})
    BY <1>2
  <2> HIDE DEF s
  <2>2. QED
    BY <1>3, <2>1 DEF IsLayout, IsMember
<1>5. NamesOf(s) = {names[k] : k \in 1..n}
  <2> HIDE DEF s
  <2>1. QED
    BY <1>3 DEF NamesOf
<1> HIDE DEF s
<1>6. /\ IsLayout(j) /\ Len(j) = Len(m) + n /\ Len(m) \in Nat
      /\ \A k \in 1..n : j[Len(m) + k].type = t
  <2>1. /\ IsLayout(j) /\ Len(j) = Len(m) + Len(s) /\ Len(m) \in Nat
        /\ \A k \in 1..Len(s) : j[Len(m) + k] = s[k]
    BY <1>4, Joined
  <2>2. \A k \in 1..n : s[k].type = t
    BY <1>3
  <2>3. QED
    BY <1>3, <2>1, <2>2
<1>7. EndsOf(j)[Len(m)] = End(m)
  BY <1>4, <1>6, EndsStay DEF End
<1> HIDE DEF j
<1>8. /\ EndsOf(j) \in [0..Len(j) -> Nat] /\ End(m) \in Nat
      /\ \A k \in 1..Len(j) :
           EndsOf(j)[k] = AlignUp(EndsOf(j)[k - 1], j[k].type.align) + j[k].type.size
  <2>1. IsLayout(j) /\ Len(m) \in 0..Len(j)
    BY <1>6
  <2>2. EndsOf(j) \in [0..Len(j) -> Nat] /\ \A k \in 1..Len(j) :
          EndsOf(j)[k] = AlignUp(EndsOf(j)[k - 1], j[k].type.align) + j[k].type.size
    BY <2>1, Ends
  <2>3. QED
    BY <1>7, <2>1, <2>2
<1>9. \A k \in 1..n :
        EndsOf(j)[Len(m) + k] = AlignUp(EndsOf(j)[Len(m) + (k - 1)], t.align) + t.size
  <2> SUFFICES ASSUME NEW k \in 1..n
               PROVE  EndsOf(j)[Len(m) + k]
                        = AlignUp(EndsOf(j)[Len(m) + (k - 1)], t.align) + t.size
    OBVIOUS
  <2>1. Len(m) + k \in 1..Len(j) /\ Len(m) + k - 1 = Len(m) + (k - 1)
    BY <1>6
  <2>2. j[Len(m) + k].type = t
    BY <1>6
  <2>3. QED
    BY <1>8, <2>1, <2>2
<1>10. first \in Nat /\ first % t.align = 0
  BY <1>1, <1>8, Aligned
<1> HIDE DEF first
<1>11. \A k \in 0..n : /\ first + k * t.size \in Nat
                       /\ AlignUp(first + k * t.size, t.align) = first + k * t.size
  <2> SUFFICES ASSUME NEW k \in 0..n
               PROVE  /\ first + k * t.size \in Nat
                      /\ AlignUp(first + k * t.size, t.align) = first + k * t.size
    OBVIOUS
  <2> DEFINE z == t.size
             a == t.align
  <2>1. /\ z \in Nat /\ a \in Nat \ {0} /\ z % a = 0
        /\ first \in Nat /\ first % a = 0 /\ k \in Nat
    BY <1>1, <1>10
  <2> HIDE DEF z, a
  <2>2. first + k * z \in Nat /\ (first + k * z) % a = 0
    BY <2>1, Multiples
  <2>3. AlignUp(first + k * z, a) = first + k * z
    BY <2>1, <2>2, Aligned
  <2>4. QED
    BY <2>2, <2>3 DEF z, a
<1>12. 0 \in S
  <2>1. 1 \in 1..n /\ Len(m) + (1 - 1) = Len(m)
    BY <1>6
  <2>2. EndsOf(j)[Len(m) + 1] = AlignUp(End(m), t.align) + t.size
    BY <1>7, <1>9, <2>1
  <2>3. QED
    BY <1>1, <1>10, <2>1, <2>2 DEF first
<1>13. ASSUME NEW k \in 0..n - 1 - 1, k \in S PROVE k + 1 \in S
  <2>1. k + 1 + 1 \in 1..n /\ (k + 1 + 1) - 1 = k + 1 /\ k + 1 \in 0..n /\ k + 1 \in 0..n - 1
    OBVIOUS
  <2>2. EndsOf(j)[Len(m) + (k + 1 + 1)] = AlignUp(EndsOf(j)[Len(m) + (k + 1)], t.align) + t.size
    BY <1>9, <2>1
  <2>3. EndsOf(j)[Len(m) + (k + 1)] = first + (k + 1) * t.size
    BY <1>13
  <2>4. EndsOf(j)[Len(m) + (k + 1 + 1)] = first + (k + 1) * t.size + t.size
    BY <1>11, <2>1, <2>2, <2>3
  <2>5. first + (k + 1) * t.size + t.size = first + (k + 1 + 1) * t.size
    <3> DEFINE z == t.size
    <3>1. z \in Nat /\ k \in Nat
      BY <1>1
    <3> HIDE DEF z
    <3>2. (k + 1) * z + z = (k + 1 + 1) * z /\ (k + 1) * z \in Nat
      BY <3>1
    <3>3. QED
      BY <1>10, <3>1, <3>2 DEF z
  <2>6. QED
    BY <2>1, <2>4, <2>5
<1>14. S = 0..n - 1
  <2>1. S \subseteq 0..n - 1 /\ n - 1 \in Nat
    OBVIOUS
  <2> HIDE DEF S
  <2>2. QED
    BY <1>12, <1>13, <2>1, Upwards
<1>15. \A k \in 1..n : EndsOf(j)[Len(m) + k] = first + k * t.size
  <2> SUFFICES ASSUME NEW k \in 1..n PROVE EndsOf(j)[Len(m) + k] = first + k * t.size
    OBVIOUS
  <2>1. k - 1 \in 0..n - 1 /\ (k - 1) + 1 = k
    OBVIOUS
  <2>2. k - 1 \in S
    BY <1>14, <2>1
  <2>3. QED
    BY <2>1, <2>2
<1>16. \A k \in 1..n : Start(j, Len(m) + k) = first + (k - 1) * t.size
  <2> SUFFICES ASSUME NEW k \in 1..n PROVE Start(j, Len(m) + k) = first + (k - 1) * t.size
    OBVIOUS
  <2>1. Start(j, Len(m) + k) = AlignUp(EndsOf(j)[Len(m) + (k - 1)], t.align)
    <3>1. j[Len(m) + k].type = t
      BY <1>6
    <3>2. (Len(m) + k) - 1 = Len(m) + (k - 1)
      BY <1>6
    <3>3. QED
      BY <3>1, <3>2 DEF Start
  <2>2. CASE k = 1
    <3>1. Len(m) + (k - 1) = Len(m) /\ (k - 1) * t.size = 0
      BY <1>1, <1>6, <2>2
    <3>2. QED
      BY <1>7, <1>10, <2>1, <3>1 DEF first
  <2>3. CASE k # 1
    <3>1. k - 1 \in 1..n /\ k - 1 \in 0..n
      BY <2>3
    <3>2. QED
      BY <1>11, <1>15, <2>1, <3>1
  <2>4. QED
    BY <2>2, <2>3
<1>17. End(j) = first + n * t.size
  <2>1. n \in 1..n
    OBVIOUS
  <2>2. QED
    BY <1>6, <1>15, <2>1 DEF End
<1>18. QED
  BY <1>3, <1>4, <1>5, <1>6, <1>8, <1>10, <1>16, <1>17 DEF s, first, j

(* What follows does not move what precedes, whatever it is. *)
LEMMA StartStays ==
  ASSUME NEW m, NEW r, IsLayout(m), IsLayout(r), NEW k \in 1..Len(m)
  PROVE  Start(m \o r, k) = Start(m, k)
<1>1. Len(m) \in Nat /\ (m \o r)[k] = m[k]
  BY Joined
<1>2. k - 1 \in 0..Len(m)
  BY <1>1
<1>3. EndsOf(m \o r)[k - 1] = EndsOf(m)[k - 1]
  BY <1>2, EndsStay
<1>4. QED
  BY <1>1, <1>3 DEF Start

(* A name that is not repeated is found where it was declared ...           *)
LEMMA Found ==
  ASSUME NEW m, IsLayout(m), NEW k \in 1..Len(m),
         \A i \in 1..Len(m) : m[i].name = m[k].name => i = k
  PROVE  OffsetOf(m, m[k].name) = Start(m, k)
<1>1. DOMAIN m = 1..Len(m)
  BY DEF IsLayout
<1>2. (CHOOSE i \in DOMAIN m : m[i].name = m[k].name) = k
  BY <1>1
<1>3. QED
  BY <1>2 DEF OffsetOf

(* ... so what follows does not move it ...                                 *)
LEMMA FoundBefore ==
  ASSUME NEW m, NEW r, IsLayout(m), IsLayout(r), NEW name \in NamesOf(m), name \notin NamesOf(r)
  PROVE  OffsetOf(m \o r, name) = OffsetOf(m, name)
<1> DEFINE j == m \o r
           At(q) == CHOOSE i \in DOMAIN q : q[i].name = name
<1>1. /\ DOMAIN m = 1..Len(m) /\ Len(m) \in Nat /\ Len(j) = Len(m) + Len(r) /\ Len(r) \in Nat
      /\ DOMAIN r = 1..Len(r)
      /\ \A k \in 1..Len(m) : j[k] = m[k] 
      /\ \A k \in 1..Len(r) : j[Len(m) + k] = r[k] 
  BY Joined
<1>2. DOMAIN j = 1..Len(j)
  <2>1. IsLayout(j)
    BY Joined
  <2> HIDE DEF j
  <2>2. QED
    BY <2>1 DEF IsLayout
<1> HIDE DEF j
<1>3. \A i : i \in DOMAIN j /\ j[i].name = name <=> i \in DOMAIN m /\ m[i].name = name
  <2> SUFFICES ASSUME NEW i
               PROVE  i \in DOMAIN j /\ j[i].name = name <=> i \in DOMAIN m /\ m[i].name = name
    OBVIOUS
  <2>1. CASE i \in 1..Len(m)
    BY <1>1, <1>2, <2>1
  <2>2. CASE i \in DOMAIN j /\ i \notin 1..Len(m)
    <3>1. i - Len(m) \in 1..Len(r) /\ Len(m) + (i - Len(m)) = i
      BY <1>1, <1>2, <2>2
    <3>2. j[i] = r[i - Len(m)]
      BY <1>1, <3>1
    <3>3. r[i - Len(m)].name \in NamesOf(r)
      BY <1>1, <3>1 DEF NamesOf
    <3>4. QED
      BY <1>1, <2>2, <3>2, <3>3
  <2>3. QED
    BY <1>1, <1>2, <2>1, <2>2
<1>4. At(j) = At(m)
  BY <1>3
<1>5. At(m) \in 1..Len(m)
  <2>1. \E i \in DOMAIN m : m[i].name = name
    BY DEF NamesOf
  <2>2. QED
    BY <1>1, <2>1
<1>6. Start(j, At(m)) = Start(m, At(m))
  <2> HIDE DEF At
  <2>1. QED
    BY <1>5, StartStays DEF j
<1>7. QED
  BY <1>4, <1>6 DEF j, OffsetOf

(* ... and it is the first of a row that tells where the others are.        *)
LEMMA FoundInRow ==
  ASSUME NEW m, IsLayout(m), NEW n \in Nat \ {0}, NEW names, DOMAIN names = 1..n,
         NEW t \in Types, NEW k \in 1..n, \A i \in 1..n : names[i] = names[k] => i = k,
         names[k] \notin NamesOf(m)
  PROVE  /\ OffsetOf(m \o Several(names, t), names[k])
              = AlignUp(End(m), t.align) + (k - 1) * t.size
         /\ names[k] \in NamesOf(m \o Several(names, t))
         /\ IsLayout(m \o Several(names, t))
<1> DEFINE s == Several(names, t)
           j == m \o s
           first == AlignUp(End(m), t.align)
<1>1. /\ IsLayout(s) /\ Len(s) = n /\ IsLayout(j)
      /\ \A i \in 1..n : s[i] = [name |-> names[i], type |-> t]
      /\ NamesOf(s) = {names[i] : i \in 1..n}
      /\ \A i \in 1..n : Start(j, Len(m) + i) = first + (i - 1) * t.size
  <2> HIDE DEF IsLayout
  <2>1. QED
    BY Row, SMTT(30)
<1> HIDE DEF s, first
<1>2. /\ Len(j) = Len(m) + n /\ Len(m) \in Nat /\ DOMAIN m = 1..Len(m)
      /\ \A i \in 1..Len(m) : j[i] = m[i]
      /\ \A i \in 1..n : j[Len(m) + i] = s[i]
      /\ NamesOf(j) = NamesOf(m) \cup NamesOf(s)
  <2>1. IsLayout(m) /\ IsLayout(s)
    BY <1>1
  <2> HIDE DEF s
  <2>2. /\ Len(j) = Len(m) + Len(s) /\ Len(m) \in Nat /\ DOMAIN m = 1..Len(m)
        /\ \A i \in 1..Len(m) : j[i] = m[i]
        /\ \A i \in 1..Len(s) : j[Len(m) + i] = s[i]
        /\ NamesOf(j) = NamesOf(m) \cup NamesOf(s)
    BY <2>1, Joined
  <2>3. Len(s) = n
    BY <1>1
  <2> HIDE DEF j
  <2>4. QED
    BY <2>2, <2>3
<1> HIDE DEF j
<1>3. Len(m) + k \in 1..Len(j) /\ j[Len(m) + k].name = names[k]
  BY <1>1, <1>2
<1>4. ASSUME NEW i \in 1..Len(j), j[i].name = names[k] PROVE i = Len(m) + k
  <2>1. CASE i \in 1..Len(m)
    <3>1. m[i].name \in NamesOf(m)
      BY <1>2, <2>1 DEF NamesOf
    <3>2. QED
      BY <1>2, <1>4, <2>1, <3>1
  <2>2. CASE i \notin 1..Len(m)
    <3>1. i - Len(m) \in 1..n /\ Len(m) + (i - Len(m)) = i
      BY <1>2, <2>2
    <3>2. j[i].name = names[i - Len(m)]
      BY <1>1, <1>2, <3>1
    <3>3. i - Len(m) = k
      BY <1>4, <3>1, <3>2
    <3>4. QED
      BY <3>1, <3>3
  <2>3. QED
    BY <2>1, <2>2
<1>5. OffsetOf(j, names[k]) = Start(j, Len(m) + k)
  BY <1>1, <1>3, <1>4, Found
<1>6. QED
  BY <1>1, <1>2, <1>5 DEF s, j, first

AlignsOf(m) == {m[k].type.align : k \in DOMAIN m}

(* The structure without members. *)
LEMMA Nothing ==
  /\ IsLayout(<< >>) /\ End(<< >>) = 0 /\ NamesOf(<< >>) = {} /\ AlignsOf(<< >>) = {}
  /\ \A m : IsLayout(m) => << >> \o m = m /\ m \o << >> = m
<1>1. IsLayout(<< >>)
  BY DEF IsLayout
<1>2. End(<< >>) = 0
  BY <1>1, Ends DEF End
<1>3. \A m : IsLayout(m) => << >> \o m = m /\ m \o << >> = m
  BY ConcatEmptySeq DEF IsLayout
<1>4. QED
  BY <1>1, <1>2, <1>3 DEF NamesOf, AlignsOf

(* Pieces of a structure can be put together in any grouping. *)
LEMMA Associative ==
  ASSUME NEW m, NEW r, NEW s, IsLayout(m), IsLayout(r), IsLayout(s)
  PROVE  (m \o r) \o s = m \o (r \o s)
<1> DEFINE S == {m[k] : k \in DOMAIN m} \cup {r[k] : k \in DOMAIN r} \cup {s[k] : k \in DOMAIN s}
<1>1. m \in Seq(S) /\ r \in Seq(S) /\ s \in Seq(S)
  BY DEF IsLayout
<1> HIDE DEF S
<1>2. QED
  BY <1>1, ConcatAssociative

(* What a row adds to a structure. *)
LEMMA AddSeveral ==
  ASSUME NEW m, IsLayout(m), NEW n \in Nat \ {0}, NEW names, DOMAIN names = 1..n, NEW t \in Types
  PROVE  /\ IsLayout(m \o Several(names, t))
         /\ End(m \o Several(names, t)) = AlignUp(End(m), t.align) + n * t.size
         /\ NamesOf(m \o Several(names, t)) = NamesOf(m) \cup {names[k] : k \in 1..n}
         /\ AlignsOf(m \o Several(names, t)) = AlignsOf(m) \cup {t.align}
         /\ Len(m \o Several(names, t)) # 0
<1> DEFINE s == Several(names, t)
           j == m \o s
<1>1. /\ IsLayout(s) /\ Len(s) = n /\ IsLayout(j)
      /\ \A k \in 1..n : s[k] = [name |-> names[k], type |-> t]
      /\ NamesOf(s) = {names[k] : k \in 1..n}
      /\ End(j) = AlignUp(End(m), t.align) + n * t.size
  <2> HIDE DEF IsLayout
  <2>1. QED
    BY Row, SMTT(30)
<1> HIDE DEF s
<1>2. /\ Len(j) = Len(m) + Len(s) /\ Len(m) \in Nat
      /\ \A k \in 1..Len(m) : j[k] = m[k]
      /\ \A k \in 1..Len(s) : j[Len(m) + k] = s[k]
      /\ NamesOf(j) = NamesOf(m) \cup NamesOf(s)
      /\ DOMAIN m = 1..Len(m)
  <2>1. IsLayout(s)
    BY <1>1
  <2>2. QED
    BY <2>1, Joined
<1> HIDE DEF j
<1>3. Len(j) = Len(m) + n /\ \A k \in 1..n : j[Len(m) + k].type = t
  BY <1>1, <1>2
<1>4. DOMAIN j = 1..Len(j)
  BY <1>1 DEF IsLayout
<1>5. AlignsOf(j) = AlignsOf(m) \cup {t.align}
  <2>1. \A k \in 1..Len(m) : k \in DOMAIN j /\ j[k] = m[k]
    BY <1>2, <1>3, <1>4
  <2>2. Len(m) + 1 \in DOMAIN j /\ j[Len(m) + 1].type = t
    BY <1>2, <1>3, <1>4
  <2>3. \A k \in DOMAIN j : k \in 1..Len(m) \/ j[k].type = t
    <3> SUFFICES ASSUME NEW k \in DOMAIN j, k \notin 1..Len(m) PROVE j[k].type = t
      OBVIOUS
    <3>1. k - Len(m) \in 1..n /\ Len(m) + (k - Len(m)) = k
      BY <1>2, <1>3, <1>4
    <3>2. QED
      BY <1>3, <3>1
  <2>4. QED
    BY <1>2, <2>1, <2>2, <2>3, SMTT(30) DEF AlignsOf
<1>6. QED
  BY <1>1, <1>2, <1>3, <1>5 DEF s, j

(* What words add to a structure. *)
LEMMA AddWords ==
  ASSUME NEW m, IsLayout(m), NEW n \in Nat \ {0}, NEW names, DOMAIN names = 1..n
  PROVE  /\ IsLayout(m \o Words(names)) /\ End(m \o Words(names)) = AlignUp(End(m), 4) + n * 4
         /\ NamesOf(m \o Words(names)) = NamesOf(m) \cup {names[k] : k \in 1..n}
         /\ AlignsOf(m \o Words(names)) = AlignsOf(m) \cup {4}
         /\ Len(m \o Words(names)) # 0
<1>1. Word \in Types /\ Word.align = 4 /\ Word.size = 4
  BY DEF Word, Scalar, Types
<1>2. QED
  BY <1>1, AddSeveral DEF Words

(* What one member adds to a structure. *)
LEMMA AddOne ==
  ASSUME NEW m, IsLayout(m), NEW name, NEW t \in Types
  PROVE  /\ IsLayout(m \o One(name, t))
         /\ End(m \o One(name, t)) = AlignUp(End(m), t.align) + t.size
         /\ NamesOf(m \o One(name, t)) = NamesOf(m) \cup {name}
         /\ AlignsOf(m \o One(name, t)) = AlignsOf(m) \cup {t.align}
         /\ Len(m \o One(name, t)) # 0
<1> DEFINE names == <<name>>
           n == 1
<1>1. One(name, t) = Several(names, t)
  BY DEF One, Several
<1>2. /\ n \in Nat \ {0} /\ DOMAIN names = 1..n /\ {names[k] : k \in 1..n} = {name}
      /\ n * t.size = t.size
  BY DEF Types
<1> HIDE DEF names, n
<1>3. /\ IsLayout(m \o Several(names, t))
      /\ End(m \o Several(names, t)) = AlignUp(End(m), t.align) + n * t.size
      /\ NamesOf(m \o Several(names, t)) = NamesOf(m) \cup {names[k] : k \in 1..n}
      /\ AlignsOf(m \o Several(names, t)) = AlignsOf(m) \cup {t.align}
      /\ Len(m \o Several(names, t)) # 0
  BY <1>2, AddSeveral
<1>4. QED
  BY <1>1, <1>2, <1>3

(* The greatest of a set is the only one that is. *)
LEMMA MaxIs ==
  ASSUME NEW S, S \subseteq Int, NEW x \in S, \A y \in S : x >= y
  PROVE  Max(S) = x
<1>1. \A z \in S : (\A y \in S : z >= y) => z = x
  OBVIOUS
<1>2. QED
  BY <1>1 DEF Max

(* The type of a structure. *)
LEMMA Structured ==
  ASSUME NEW m, IsLayout(m), NEW a \in AlignsOf(m), \A x \in AlignsOf(m) : a >= x
  PROVE  /\ StructType(m) = [size |-> AlignUp(End(m), a), align |-> a]
         /\ StructType(m) \in Types /\ StructType(m).size >= End(m)
<1>1. AlignsOf(m) \subseteq Nat \ {0}
  BY DEF AlignsOf, IsLayout, IsMember, Types
<1>2. Max(AlignsOf(m)) = a
  BY <1>1, MaxIs
<1>3. StructType(m) = [size |-> AlignUp(End(m), a), align |-> a]
  BY <1>2 DEF StructType, AlignsOf, End
<1>4. End(m) \in Nat
  BY Nothing, EndsGrow
<1>5. AlignUp(End(m), a) \in Nat /\ AlignUp(End(m), a) >= End(m) /\ AlignUp(End(m), a) % a = 0
  BY <1>1, <1>4, Aligned
<1>6. QED
  BY <1>1, <1>3, <1>5 DEF Types

(* Packed members follow each other without a gap. *)
LEMMA PackedJoin ==
  ASSUME NEW m, NEW r, IsLayout(m), IsLayout(r)
  PROVE  IsLayout(Packed(m)) /\ Packed(m \o r) = Packed(m) \o Packed(r)
<1>1. ASSUME NEW q, IsLayout(q)
      PROVE  /\ IsLayout(Packed(q)) /\ Len(Packed(q)) = Len(q)
             /\ \A k \in 1..Len(q) : Packed(q)[k] = [q[k] EXCEPT !.type.align = 1]
  <2>1. Len(q) \in Nat /\ DOMAIN q = 1..Len(q) /\ \A k \in 1..Len(q) : IsMember(q[k])
    BY <1>1 DEF IsLayout
  <2>2. Packed(q) = [k \in 1..Len(q) |-> [q[k] EXCEPT !.type.align = 1]]
    BY <2>1 DEF Packed
  <2>3. ASSUME NEW k \in 1..Len(q) PROVE IsMember([q[k] EXCEPT !.type.align = 1])
    <3>1. q[k] = [name |-> q[k].name, type |-> q[k].type] /\ q[k].type \in Types
      BY <2>1 DEF IsMember
    <3>2. [q[k].type EXCEPT !.align = 1] \in Types
      BY <3>1 DEF Types
    <3>3. [q[k] EXCEPT !.type.align = 1]
            = [name |-> q[k].name, type |-> [q[k].type EXCEPT !.align = 1]]
      BY <3>1
    <3>4. QED
      BY <3>2, <3>3 DEF IsMember
  <2>4. Packed(q) \in Seq({Packed(q)[k] : k \in DOMAIN Packed(q)})
    BY <2>1, <2>2
  <2>5. DOMAIN Packed(q) = 1..Len(q) /\ Len(Packed(q)) = Len(q)
    BY <2>1, <2>2
  <2>6. \A k \in 1..Len(q) : Packed(q)[k] = [q[k] EXCEPT !.type.align = 1]
    BY <2>2
  <2>7. \A k \in DOMAIN Packed(q) : IsMember(Packed(q)[k])
    BY <2>3, <2>5, <2>6
  <2>8. QED
    BY <2>4, <2>5, <2>6, <2>7 DEF IsLayout
<1> DEFINE j == m \o r
           p == Packed(m) \o Packed(r)
<1>2. /\ IsLayout(j) /\ Len(j) = Len(m) + Len(r) /\ Len(m) \in Nat /\ Len(r) \in Nat
      /\ \A k \in 1..Len(m) : j[k] = m[k]
      /\ \A k \in 1..Len(r) : j[Len(m) + k] = r[k]
  BY Joined
<1>3. /\ IsLayout(Packed(m)) /\ Len(Packed(m)) = Len(m)
      /\ IsLayout(Packed(r)) /\ Len(Packed(r)) = Len(r)
  BY <1>1
<1>4. /\ IsLayout(p) /\ Len(p) = Len(Packed(m)) + Len(Packed(r))
      /\ \A k \in 1..Len(Packed(m)) : p[k] = Packed(m)[k]
      /\ \A k \in 1..Len(Packed(r)) : p[Len(Packed(m)) + k] = Packed(r)[k]
  BY <1>3, Joined
<1> HIDE DEF j, p
<1>5. IsLayout(Packed(j)) /\ Len(Packed(j)) = Len(j)
  BY <1>1, <1>2
<1>6. ASSUME NEW k \in 1..Len(j) PROVE Packed(j)[k] = p[k]
  <2>1. Packed(j)[k] = [j[k] EXCEPT !.type.align = 1]
    BY <1>1, <1>2
  <2>2. CASE k \in 1..Len(m)
    <3>1. p[k] = [m[k] EXCEPT !.type.align = 1]
      BY <1>1, <1>3, <1>4, <2>2
    <3>2. QED
      BY <1>2, <2>1, <2>2, <3>1
  <2>3. CASE k \notin 1..Len(m)
    <3> DEFINE i == k - Len(m)
    <3>1. i \in 1..Len(r) /\ k = Len(m) + i
      BY <1>2, <2>3
    <3> HIDE DEF i
    <3>2. p[k] = Packed(r)[i] /\ j[k] = r[i]
      BY <1>2, <1>3, <1>4, <3>1
    <3>3. Packed(r)[i] = [r[i] EXCEPT !.type.align = 1]
      BY <1>1, <3>1
    <3>4. QED
      BY <2>1, <3>2, <3>3
  <2>4. QED
    BY <2>2, <2>3
<1>7. Len(p) = Len(j)
  BY <1>2, <1>3, <1>4
<1>8. DOMAIN Packed(j) = 1..Len(j) /\ DOMAIN p = 1..Len(j)
  BY <1>4, <1>5, <1>7 DEF IsLayout
<1>9. Packed(j) = p
  <2> DEFINE S == {Packed(j)[k] : k \in DOMAIN Packed(j)} \cup {p[k] : k \in DOMAIN p}
  <2>1. Packed(j) \in Seq(S) /\ p \in Seq(S)
    BY <1>4, <1>5 DEF IsLayout
  <2> HIDE DEF S
  <2>2. QED
    BY <1>5, <1>6, <1>7, <2>1, SeqEqual
<1>10. QED
  BY <1>3, <1>9 DEF j, p

(* What a row adds to a packed structure. *)
LEMMA AddPacked ==
  ASSUME NEW m, IsLayout(m), NEW n \in Nat \ {0}, NEW names, DOMAIN names = 1..n, NEW t \in Types
  PROVE  /\ IsLayout(Packed(m \o Several(names, t)))
         /\ End(Packed(m \o Several(names, t))) = End(Packed(m)) + n * t.size
         /\ AlignsOf(Packed(m)) \subseteq {1}
         /\ AlignsOf(Packed(m \o Several(names, t))) = {1}
<1> DEFINE s == Several(names, t)
           u == [t EXCEPT !.align = 1]
<1>1. u \in Types /\ u.align = 1 /\ u.size = t.size /\ t = [size |-> t.size, align |-> t.align]
  BY DEF Types
<1>2. s = [k \in 1..n |-> [name |-> names[k], type |-> t]]
  BY DEF Several
<1>3. Packed(s) = Several(names, u)
  BY <1>2 DEF Packed, Several
<1>4. IsLayout(s)
  BY Row
<1> HIDE DEF s, u
<1>5. IsLayout(Packed(m)) /\ Packed(m \o s) = Packed(m) \o Packed(s)
  BY <1>4, PackedJoin
<1>6. /\ IsLayout(Packed(m) \o Several(names, u))
      /\ End(Packed(m) \o Several(names, u)) = AlignUp(End(Packed(m)), u.align) + n * u.size
      /\ AlignsOf(Packed(m) \o Several(names, u)) = AlignsOf(Packed(m)) \cup {u.align}
  BY <1>1, <1>5, AddSeveral, SMTT(30)
<1>7. End(Packed(m)) \in Nat
  BY <1>5, Nothing, EndsGrow
<1>8. AlignUp(End(Packed(m)), 1) = End(Packed(m))
  BY <1>7 DEF AlignUp
<1>9. AlignsOf(Packed(m)) \subseteq {1}
  <2>1. \A k \in DOMAIN m : IsMember(m[k])
    BY DEF IsLayout
  <2>2. ASSUME NEW k \in DOMAIN m PROVE [m[k] EXCEPT !.type.align = 1].type.align = 1
    <3>1. m[k] = [name |-> m[k].name, type |-> m[k].type] /\ m[k].type \in Types
      BY <2>1 DEF IsMember
    <3>2. m[k].type = [size |-> m[k].type.size, align |-> m[k].type.align]
      BY <3>1 DEF Types
    <3>3. QED
      BY <3>1, <3>2
  <2>3. QED
    BY <2>2 DEF AlignsOf, Packed
<1>10. QED
  BY <1>1, <1>3, <1>5, <1>6, <1>8, <1>9 DEF s

(* Members between #if and #endif. *)
LEMMA Chosen ==
  ASSUME NEW flag, NEW m, flag => IsLayout(m)
  PROVE  /\ IsLayout(If(flag, m)) /\ If(flag, m) = (IF flag THEN m ELSE << >>)
         /\ NamesOf(If(flag, m)) \subseteq NamesOf(m)
BY Nothing DEF If

(* A structure of words. *)
LEMMA WordsRow ==
  ASSUME NEW names, DOMAIN names = 1..Len(names), Len(names) \in Nat \ {0}
  PROVE  /\ IsLayout(Words(names)) /\ End(Words(names)) = 4 * Len(names)
         /\ AlignsOf(Words(names)) = {4} /\ Len(Words(names)) # 0
         /\ StructType(Words(names)) = [size |-> 4 * Len(names), align |-> 4]
         /\ StructType(Words(names)) \in Types
<1> DEFINE m == Words(names)
           n == Len(names)
<1>1. n \in Nat \ {0} /\ DOMAIN names = 1..n /\ AlignUp(0, 4) = 0 /\ AlignUp(4 * n, 4) = 4 * n
  <2>1. n \in Nat \ {0} /\ DOMAIN names = 1..n
    OBVIOUS
  <2> HIDE DEF n
  <2> DEFINE l == 4 * n
  <2>2. l % 4 = 0 /\ l \in Nat
    BY <2>1
  <2> HIDE DEF l
  <2>3. AlignUp(l, 4) = l
    BY <2>2 DEF AlignUp
  <2>4. AlignUp(0, 4) = 0
    BY DEF AlignUp
  <2>5. QED
    BY <2>1, <2>3, <2>4 DEF l
<1>2. IsLayout(m)
  <2>1. Word \in Types
    BY DEF Word, Scalar, Types
  <2>2. QED
    BY <1>1, <2>1, Nothing, Row DEF Words
<1> HIDE DEF m, n
<1>3. PICK e : /\ IsLayout(e) /\ End(e) = 0 /\ NamesOf(e) = {} /\ AlignsOf(e) = {}
               /\ \A r : IsLayout(r) => e \o r = r
  BY Nothing
<1>4. /\ End(e \o m) = AlignUp(End(e), 4) + n * 4
      /\ AlignsOf(e \o m) = AlignsOf(e) \cup {4}
      /\ Len(e \o m) # 0
  BY <1>1, <1>3, AddWords DEF m
<1>5. End(m) = 4 * n /\ AlignsOf(m) = {4} /\ Len(m) # 0
  <2>1. e \o m = m
    BY <1>2, <1>3
  <2>2. /\ End(m) = AlignUp(0, 4) + n * 4
        /\ AlignsOf(m) = {} \cup {4}
        /\ Len(m) # 0
    BY <1>3, <1>4, <2>1
  <2>3. AlignUp(0, 4) + n * 4 = 4 * n
    BY <1>1
  <2>4. QED
    BY <2>2, <2>3
<1>6. StructType(m) = [size |-> AlignUp(End(m), 4), align |-> 4] /\ StructType(m) \in Types
  BY <1>2, <1>5, Structured
<1>7. QED
  BY <1>1, <1>2, <1>5, <1>6 DEF m, n

(* A structure of one member. *)
LEMMA OneRow ==
  ASSUME NEW name, NEW t \in Types
  PROVE  /\ IsLayout(One(name, t)) /\ End(One(name, t)) = t.size
         /\ NamesOf(One(name, t)) = {name} /\ AlignsOf(One(name, t)) = {t.align}
         /\ Len(One(name, t)) # 0
<1> DEFINE names == <<name>>
           o == One(name, t)
<1>1. PICK e : /\ IsLayout(e) /\ End(e) = 0 /\ NamesOf(e) = {} /\ AlignsOf(e) = {}
               /\ \A r : IsLayout(r) => e \o r = r
  BY Nothing
<1>2. IsLayout(o)
  <2>1. o = Several(names, t)
    BY DEF One, Several
  <2> DEFINE n == 1
  <2>2. DOMAIN names = 1..n /\ n \in Nat \ {0}
    OBVIOUS
  <2>3. IsLayout(e)
    BY <1>1
  <2> HIDE DEF names, o, n
  <2>4. IsLayout(Several(names, t))
    BY <2>2, <2>3, Row, SMTT(30)
  <2>5. QED
    BY <2>1, <2>4
<1>3. AlignUp(0, t.align) = 0 /\ t.size \in Nat
  <2>1. t.align \in Nat \ {0} /\ t.size \in Nat /\ 0 % t.align = 0
    BY DEF Types
  <2>2. QED
    BY <2>1, Aligned
<1>4. /\ End(e \o One(name, t)) = AlignUp(End(e), t.align) + t.size
      /\ NamesOf(e \o One(name, t)) = NamesOf(e) \cup {name}
      /\ AlignsOf(e \o One(name, t)) = AlignsOf(e) \cup {t.align}
      /\ Len(e \o One(name, t)) # 0
  BY <1>1, AddOne
<1>5. e \o One(name, t) = One(name, t)
  BY <1>1, <1>2
<1> HIDE DEF o
<1>6. QED
  BY <1>1, <1>2, <1>3, <1>4, <1>5 DEF o

(* Every structure has a type, which has room for its members. *)
LEMMA SomeStruct ==
  ASSUME NEW m, IsLayout(m), Len(m) # 0
  PROVE  StructType(m) \in Types /\ StructType(m).size >= End(m)
<1>1. DOMAIN m = 1..Len(m) /\ Len(m) \in Nat
  BY DEF IsLayout
<1>2. IsFiniteSet(AlignsOf(m)) /\ AlignsOf(m) # {} /\ AlignsOf(m) \subseteq Int
  <2>1. IsFiniteSet(1..Len(m))
    BY <1>1, FS_Interval
  <2>2. AlignsOf(m) = {m[k].type.align : k \in 1..Len(m)}
    BY <1>1 DEF AlignsOf
  <2>3. IsFiniteSet(AlignsOf(m))
    <3> DEFINE f == [k \in 1..Len(m) |-> m[k].type.align]
    <3>1. f \in Surjection(1..Len(m), AlignsOf(m))
      BY <2>2 DEF Surjection
    <3>2. QED
      BY <2>1, <3>1, FS_Surjection
  <2>4. QED
    BY <1>1, <2>2, <2>3 DEF IsLayout, IsMember, Types
<1>3. PICK a \in AlignsOf(m) : \A x \in AlignsOf(m) : x <= a
  BY <1>2, Greatest
<1>4. \A x \in AlignsOf(m) : a >= x
  BY <1>2, <1>3
<1>5. QED
  BY <1>4, Structured

(* The type of a union, from its longest and its most aligned member. *)
LEMMA UnionOf ==
  ASSUME NEW T, T \subseteq Types, NEW t \in T, NEW u \in T,
         \A x \in T : t.size >= x.size /\ u.align >= x.align
  PROVE  /\ UnionType(T) = [size |-> AlignUp(t.size, u.align), align |-> u.align]
         /\ UnionType(T) \in Types
<1>1. \A x \in T : x.size \in Nat /\ x.align \in Nat \ {0}
  BY DEF Types
<1>2. Max({x.align : x \in T}) = u.align
  <2> DEFINE S == {x.align : x \in T}
             top == u.align
  <2>1. S \subseteq Int /\ top \in S /\ \A y \in S : top >= y
    BY <1>1
  <2> HIDE DEF S, top
  <2>2. Max(S) = top
    BY <2>1, MaxIs
  <2>3. QED
    BY <2>2 DEF S, top
<1>3. Max({x.size : x \in T}) = t.size
  <2> DEFINE S == {x.size : x \in T}
             top == t.size
  <2>1. S \subseteq Int /\ top \in S /\ \A y \in S : top >= y
    BY <1>1
  <2> HIDE DEF S, top
  <2>2. Max(S) = top
    BY <2>1, MaxIs
  <2>3. QED
    BY <2>2 DEF S, top
<1>4. UnionType(T) = [size |-> AlignUp(t.size, u.align), align |-> u.align]
  BY <1>2, <1>3 DEF UnionType
<1>5. AlignUp(t.size, u.align) \in Nat /\ AlignUp(t.size, u.align) % u.align = 0
  BY <1>1, Aligned
<1>6. QED
  BY <1>1, <1>4, <1>5 DEF Types

(* The types of the members. *)
LEMMA Scalars ==
  ASSUME NEW b \in Builds
  PROVE  /\ Word = [size |-> 4, align |-> 4] /\ Word \in Types
         /\ Scalar(1) = [size |-> 1, align |-> 1] /\ Scalar(1) \in Types
         /\ Scalar(2) = [size |-> 2, align |-> 2] /\ Scalar(2) \in Types
         /\ Eight(b) = [size |-> 8, align |-> IF b.eabi THEN 8 ELSE 4] /\ Eight(b) \in Types
         /\ Taint = [size |-> 4, align |-> 4] /\ Taint \in Types
<1>1. Taint = [size |-> 4, align |-> 4] /\ Taint \in Types
  <2> DEFINE names == <<"tag">>
  <2>1. DOMAIN names = 1..Len(names) /\ Len(names) \in Nat \ {0} /\ 4 * Len(names) = 4
    OBVIOUS
  <2>2. Taint = StructType(Words(names))
    BY DEF Taint
  <2> HIDE DEF names
  <2>3. QED
    BY <2>1, <2>2, WordsRow
<1>2. QED
  BY <1>1 DEF Word, Scalar, Eight, Types

(* A value of any type of Java: eight bytes. *)
LEMMA Values ==
  ASSUME NEW b \in Builds
  PROVE  /\ JValue(b) = [size |-> 8, align |-> IF b.eabi THEN 8 ELSE 4]
         /\ JValue(b) \in Types
<1> DEFINE T == {Scalar(1), Scalar(2), Word, Eight(b)}
<1>1. T \subseteq Types /\ Eight(b) \in T
  BY Scalars
<1>2. \A x \in T : Eight(b).size >= x.size /\ Eight(b).align >= x.align
  BY Scalars
<1>3. UnionType(T) = [size |-> AlignUp(Eight(b).size, Eight(b).align), align |-> Eight(b).align]
  <2> HIDE DEF T
  <2>1. QED
    BY <1>1, <1>2, UnionOf
<1>4. AlignUp(8, 8) = 8 /\ AlignUp(8, 4) = 8
  BY DEF AlignUp
<1>5. Eight(b).size = 8 /\ Eight(b).align = (IF b.eabi THEN 8 ELSE 4)
  BY Scalars
<1>6. JValue(b) = [size |-> 8, align |-> IF b.eabi THEN 8 ELSE 4]
  BY <1>3, <1>4, <1>5 DEF JValue
<1>7. QED
  BY <1>6, Scalars DEF Eight

(* The type of an array. *)
LEMMA ArrayOfType ==
  ASSUME NEW t \in Types, NEW n \in Nat
  PROVE  /\ ArrayType(t, n) = [size |-> n * t.size, align |-> t.align]
         /\ ArrayType(t, n) \in Types
<1>1. t = [size |-> t.size, align |-> t.align] /\ t.size \in Nat /\ t.align \in Nat \ {0}
      /\ t.size % t.align = 0
  BY DEF Types
<1>2. ArrayType(t, n) = [size |-> n * t.size, align |-> t.align]
  BY <1>1 DEF ArrayType
<1> DEFINE s == t.size
           a == t.align
           z == 0
           l == n * s
<1>3. z % a = 0 /\ z \in Nat /\ s \in Nat /\ a \in Nat \ {0} /\ s % a = 0
  BY <1>1
<1> HIDE DEF s, a, z
<1>4. z + l \in Nat /\ (z + l) % a = 0
  BY <1>3, Multiples
<1>5. l \in Nat /\ l % a = 0
  <2>1. l \in Nat
    BY <1>3
  <2> HIDE DEF l
  <2>2. z + l = l
    BY <2>1 DEF z
  <2>3. QED
    BY <1>4, <2>1, <2>2
<1>6. QED
  BY <1>1, <1>2, <1>5 DEF Types, s, a

(* AddWords, for a given list of names. *)
LEMMA AddNames ==
  ASSUME NEW m, IsLayout(m), NEW names, DOMAIN names = 1..Len(names), Len(names) \in Nat \ {0}
  PROVE  /\ IsLayout(m \o Words(names))
         /\ End(m \o Words(names)) = AlignUp(End(m), 4) + 4 * Len(names)
         /\ AlignsOf(m \o Words(names)) = AlignsOf(m) \cup {4}
         /\ Len(m \o Words(names)) # 0 /\ End(m) \in Nat
<1> DEFINE n == Len(names)
<1>1. n \in Nat \ {0} /\ DOMAIN names = 1..n /\ n * 4 = 4 * n
  OBVIOUS
<1> HIDE DEF n
<1>2. End(m) \in Nat
  BY Nothing, EndsGrow
<1>3. QED
  BY <1>1, <1>2, AddWords DEF n

(* What packed members add. *)
LEMMA PackNames ==
  ASSUME NEW m, IsLayout(m), NEW names, DOMAIN names = 1..Len(names), Len(names) \in Nat \ {0}
  PROVE  /\ IsLayout(m \o Words(names)) /\ IsLayout(Packed(m \o Words(names)))
         /\ End(Packed(m \o Words(names))) = End(Packed(m)) + 4 * Len(names)
         /\ AlignsOf(Packed(m \o Words(names))) = {1}
<1> DEFINE n == Len(names)
<1>1. n \in Nat \ {0} /\ DOMAIN names = 1..n /\ n * 4 = 4 * n
  OBVIOUS
<1> HIDE DEF n
<1>2. IsLayout(m \o Words(names))
  BY <1>1, AddWords
<1>3. Words(names) = Several(names, Word)
  BY DEF Words
<1>4. Word \in Types /\ Word.size = 4
  BY DEF Word, Scalar, Types
<1>5. /\ IsLayout(Packed(m \o Several(names, Word)))
      /\ End(Packed(m \o Several(names, Word))) = End(Packed(m)) + n * Word.size
      /\ AlignsOf(Packed(m \o Several(names, Word))) = {1}
  BY <1>1, <1>4, AddPacked
<1>6. QED
  BY <1>1, <1>2, <1>3, <1>4, <1>5 DEF n

(* What one member adds to a packed structure. *)
LEMMA PackOne ==
  ASSUME NEW m, IsLayout(m), NEW name, NEW t \in Types
  PROVE  /\ IsLayout(m \o One(name, t)) /\ IsLayout(Packed(m \o One(name, t)))
         /\ End(Packed(m \o One(name, t))) = End(Packed(m)) + t.size
         /\ AlignsOf(Packed(m \o One(name, t))) = {1}
<1> DEFINE names == <<name>>
           n == 1
<1>1. One(name, t) = Several(names, t)
  BY DEF One, Several
<1>2. /\ n \in Nat \ {0} /\ DOMAIN names = 1..n /\ n * t.size = t.size
  BY DEF Types
<1>3. IsLayout(m \o One(name, t))
  BY AddOne
<1> HIDE DEF names, n
<1>4. /\ IsLayout(Packed(m \o Several(names, t)))
      /\ End(Packed(m \o Several(names, t))) = End(Packed(m)) + n * t.size
      /\ AlignsOf(Packed(m \o Several(names, t))) = {1}
  BY <1>2, AddPacked
<1>5. QED
  BY <1>1, <1>2, <1>3, <1>4

(* The state of the interpreter: 36 bytes, 40 with a taint, packed. *)
LEMMA SaveState ==
  ASSUME NEW b \in Builds
  PROVE  /\ StructType(InterpSaveState(b)) = [size |-> IF b.taint THEN 40 ELSE 36, align |-> 1]
         /\ StructType(InterpSaveState(b)) \in Types
<1> DEFINE first == <<"pc", "curFrame", "method", "methodClassDex">>
           bail == <<"bailPtr">>
           last == <<IF b.trackRef THEN "debugTrackedRefStart" ELSE "unused", "prev">>
           m1 == Words(first) \o One("retval", JValue(b))
           m2 == m1 \o If(b.taint, One("rtaint", Taint))
           m3 == m2 \o Words(bail)
           m4 == m3 \o Words(last)
<1>1. /\ DOMAIN first = 1..Len(first) /\ Len(first) \in Nat \ {0} /\ 4 * Len(first) = 16
      /\ DOMAIN bail = 1..Len(bail) /\ Len(bail) \in Nat \ {0} /\ 4 * Len(bail) = 4
      /\ DOMAIN last = 1..Len(last) /\ Len(last) \in Nat \ {0} /\ 4 * Len(last) = 8
  OBVIOUS
<1>2. InterpSaveState(b) = Packed(m4)
  BY DEF InterpSaveState, Saved
<1> HIDE DEF first, bail, last
<1>3. PICK e : /\ IsLayout(e) /\ End(Packed(e)) = 0 /\ \A r : IsLayout(r) => /\ e \o r = r
                                                                            /\ r \o e = r
               /\ e = << >>
  <2>1. Packed(<< >>) = << >>
    BY DEF Packed
  <2>2. QED
    BY <2>1, Nothing
<1>4. IsLayout(Words(first)) /\ End(Packed(Words(first))) = 16
  <2>1. IsLayout(Words(first))
    BY <1>1, WordsRow
  <2>2. End(Packed(e \o Words(first))) = End(Packed(e)) + 4 * Len(first)
    BY <1>1, <1>3, PackNames
  <2>3. e \o Words(first) = Words(first)
    BY <1>3, <2>1
  <2>4. QED
    BY <1>1, <1>3, <2>1, <2>2, <2>3
<1>5. IsLayout(m1) /\ End(Packed(m1)) = 24
  <2>1. JValue(b) \in Types /\ JValue(b).size = 8
    BY Values
  <2>2. IsLayout(m1) /\ End(Packed(m1)) = End(Packed(Words(first))) + JValue(b).size
    BY <1>4, <2>1, PackOne
  <2>3. QED
    BY <1>4, <2>1, <2>2
<1> HIDE DEF m1
<1>6. IsLayout(m2) /\ End(Packed(m2)) = (IF b.taint THEN 28 ELSE 24)
  <2>1. CASE b.taint
    <3>1. Taint \in Types /\ Taint.size = 4
      BY Scalars
    <3>2. m2 = m1 \o One("rtaint", Taint)
      BY <2>1 DEF If
    <3>3. /\ IsLayout(m1 \o One("rtaint", Taint))
          /\ End(Packed(m1 \o One("rtaint", Taint))) = End(Packed(m1)) + Taint.size
      BY <1>5, <3>1, PackOne
    <3>4. IsLayout(m2) /\ End(Packed(m2)) = 28
      <4>1. Taint.size = 4 /\ End(Packed(m1)) = 24
        BY <1>5, <3>1
      <4>2. End(Packed(m1 \o One("rtaint", Taint))) = 28
        BY <3>3, <4>1
      <4> HIDE DEF m2
      <4>3. QED
        BY <3>2, <3>3, <4>2
    <3>5. QED
      BY <2>1, <3>4
  <2>2. CASE ~b.taint
    <3>1. m2 = m1 \o e
      BY <1>3, <2>2 DEF If
    <3>2. QED
      BY <1>3, <1>5, <2>2, <3>1
  <2>3. QED
    BY <2>1, <2>2
<1> HIDE DEF m2
<1>7. IsLayout(m3) /\ End(Packed(m3)) = (IF b.taint THEN 32 ELSE 28)
  <2>1. IsLayout(m3) /\ End(Packed(m3)) = End(Packed(m2)) + 4 * Len(bail)
    BY <1>1, <1>6, PackNames
  <2>2. QED
    BY <1>1, <1>6, <2>1
<1> HIDE DEF m3
<1>8. /\ IsLayout(Packed(m4)) /\ AlignsOf(Packed(m4)) = {1}
      /\ End(Packed(m4)) = (IF b.taint THEN 40 ELSE 36)
  <2>1. /\ IsLayout(Packed(m4)) /\ AlignsOf(Packed(m4)) = {1}
        /\ End(Packed(m4)) = End(Packed(m3)) + 4 * Len(last)
    BY <1>1, <1>7, PackNames
  <2>2. QED
    BY <1>1, <1>7, <2>1
<1> HIDE DEF m4
<1>9. /\ StructType(Packed(m4)) = [size |-> AlignUp(End(Packed(m4)), 1), align |-> 1]
      /\ StructType(Packed(m4)) \in Types
  BY <1>8, Structured
<1>10. AlignUp(40, 1) = 40 /\ AlignUp(36, 1) = 36
  BY DEF AlignUp
<1>11. QED
  BY <1>2, <1>8, <1>9, <1>10

(* The control word of the interpreter: eight bytes. *)
LEMMA Broken ==
  ASSUME NEW b \in Builds
  PROVE  /\ InterpBreak(b) = [size |-> 8, align |-> IF b.eabi THEN 8 ELSE 4]
         /\ InterpBreak(b) \in Types
<1> DEFINE flags == <<"breakFlags", "unused">>
           last == <<IF b.asmInterp THEN "curHandlerTable" ELSE "unused1">>
           byte == Scalar(1)
           m1 == One("subMode", Scalar(2))
           m2 == m1 \o Several(flags, byte)
           m3 == m2 \o Words(last)
           n == 2
           a == 4
<1>1. /\ DOMAIN flags = 1..n /\ n \in Nat \ {0}
      /\ DOMAIN last = 1..Len(last) /\ Len(last) \in Nat \ {0} /\ 4 * Len(last) = 4
  OBVIOUS
<1>2. Control(b) = m3
  BY DEF Control
<1> HIDE DEF flags, last
<1>3. /\ byte \in Types /\ byte.size = 1 /\ byte.align = 1
      /\ Scalar(2) \in Types /\ Scalar(2).size = 2 /\ Scalar(2).align = 2
      /\ n * 1 = 2
  BY Scalars
<1>4. IsLayout(m1) /\ End(m1) = 2 /\ AlignsOf(m1) = {2}
  BY <1>3, OneRow
<1> HIDE DEF m1, n, byte
<1>5. /\ IsLayout(m2) /\ End(m2) = AlignUp(End(m1), byte.align) + n * byte.size
      /\ AlignsOf(m2) = AlignsOf(m1) \cup {byte.align}
  <2>1. n \in Nat \ {0} /\ DOMAIN flags = 1..n /\ byte \in Types /\ IsLayout(m1)
    BY <1>1, <1>3, <1>4
  <2>2. QED
    BY <2>1, AddSeveral
<1>6. AlignUp(2, 1) = 2 /\ AlignUp(4, 4) = 4 /\ AlignUp(8, 4) = 8 /\ AlignUp(8, 8) = 8
  BY DEF AlignUp
<1>7. End(m2) = 4 /\ AlignsOf(m2) = {1, 2}
  BY <1>3, <1>4, <1>5, <1>6
<1> HIDE DEF m2
<1>8. /\ IsLayout(m3) /\ End(m3) = AlignUp(End(m2), 4) + 4 * Len(last)
      /\ AlignsOf(m3) = AlignsOf(m2) \cup {4}
  BY <1>1, <1>5, AddNames
<1>9. End(m3) = 8 /\ AlignsOf(m3) = {1, 2, 4}
  BY <1>1, <1>6, <1>7, <1>8
<1> HIDE DEF m3
<1>10. StructType(Control(b)) = [size |-> 8, align |-> 4] /\ StructType(Control(b)) \in Types
  <2>1. a \in AlignsOf(m3) /\ \A x \in AlignsOf(m3) : a >= x
    BY <1>9
  <2> HIDE DEF a
  <2>2. StructType(m3) = [size |-> AlignUp(End(m3), a), align |-> a] /\ StructType(m3) \in Types
    BY <1>8, <2>1, Structured
  <2>3. QED
    BY <1>2, <1>6, <1>9, <2>2 DEF a
<1> DEFINE T == {Eight(b), StructType(Control(b))}
           t == Eight(b)
<1>11. T \subseteq Types /\ t \in T /\ t.size = 8 /\ t.align = (IF b.eabi THEN 8 ELSE 4)
  BY <1>10, Scalars
<1>12. \A x \in T : t.size >= x.size /\ t.align >= x.align
  BY <1>10, <1>11
<1>13. InterpBreak(b) = UnionType(T)
  BY DEF InterpBreak
<1> HIDE DEF T, t
<1>14. /\ UnionType(T) = [size |-> AlignUp(t.size, t.align), align |-> t.align]
       /\ UnionType(T) \in Types
  BY <1>11, <1>12, UnionOf
<1>15. QED
  BY <1>6, <1>11, <1>13, <1>14

(* A run of a trace: two words. *)
LEMMA TraceRun == JitTraceRun = [size |-> 8, align |-> 4] /\ JitTraceRun \in Types
<1> DEFINE half == Scalar(2)
           c1 == One("numInsts_runEnd_hint", half)
           c2 == c1 \o One("startOffset", half)
           names == <<"isCode">>
           two == 2
           four == 4
<1>1. half \in Types /\ half.size = 2 /\ half.align = 2
  BY DEF Scalar, Types
<1>2. Word \in Types /\ Word = [size |-> 4, align |-> 4]
  BY DEF Word, Scalar, Types
<1>3. JitCodeDesc = StructType(c2)
  BY DEF JitCodeDesc
<1>4. DOMAIN names = 1..Len(names) /\ Len(names) \in Nat \ {0} /\ 4 * Len(names) = 4
  OBVIOUS
<1>5. AlignUp(2, 2) = 2 /\ AlignUp(4, 2) = 4 /\ AlignUp(4, 4) = 4 /\ AlignUp(8, 4) = 8
  BY DEF AlignUp
<1> HIDE DEF half
<1>6. IsLayout(c1) /\ End(c1) = 2 /\ AlignsOf(c1) = {2}
  BY <1>1, OneRow
<1> HIDE DEF c1
<1>7. /\ IsLayout(c2) /\ End(c2) = AlignUp(End(c1), half.align) + half.size
      /\ AlignsOf(c2) = AlignsOf(c1) \cup {half.align}
  BY <1>1, <1>6, AddOne
<1> HIDE DEF c2
<1>8. JitCodeDesc = [size |-> 4, align |-> 2] /\ JitCodeDesc \in Types
  <2>1. End(c2) = 4 /\ two \in AlignsOf(c2) /\ \A x \in AlignsOf(c2) : two >= x
    BY <1>1, <1>5, <1>6, <1>7
  <2> HIDE DEF two
  <2>2. /\ StructType(c2) = [size |-> AlignUp(End(c2), two), align |-> two]
        /\ StructType(c2) \in Types
    BY <1>7, <2>1, Structured
  <2>3. QED
    BY <1>3, <1>5, <2>1, <2>2 DEF two
<1> DEFINE T == {JitCodeDesc, Word}
           info == UnionType(T)
           i1 == One("info", info)
           i2 == i1 \o Words(names)
<1>9. JitTraceRun = StructType(i2)
  BY DEF JitTraceRun
<1>10. info = [size |-> 4, align |-> 4] /\ info \in Types
  <2>1. /\ T \subseteq Types /\ Word \in T
        /\ \A x \in T : Word.size >= x.size /\ Word.align >= x.align
    BY <1>2, <1>8
  <2> HIDE DEF T
  <2>2. UnionType(T) = [size |-> AlignUp(Word.size, Word.align), align |-> Word.align]
    BY <2>1, UnionOf
  <2>3. QED
    BY <1>2, <1>5, <2>2
<1> HIDE DEF info, names
<1>11. IsLayout(i1) /\ End(i1) = 4 /\ AlignsOf(i1) = {4}
  BY <1>10, OneRow
<1> HIDE DEF i1
<1>12. /\ IsLayout(i2) /\ End(i2) = AlignUp(End(i1), 4) + 4 * Len(names)
       /\ AlignsOf(i2) = AlignsOf(i1) \cup {4}
  BY <1>4, <1>11, AddNames
<1> HIDE DEF i2
<1>13. End(i2) = 8 /\ four \in AlignsOf(i2) /\ \A x \in AlignsOf(i2) : four >= x
  BY <1>4, <1>5, <1>11, <1>12
<1> HIDE DEF four
<1>14. /\ StructType(i2) = [size |-> AlignUp(End(i2), four), align |-> four]
       /\ StructType(i2) \in Types
  BY <1>12, <1>13, Structured
<1>15. QED
  BY <1>5, <1>9, <1>13, <1>14 DEF four

(* Where a member is that follows a structure ... *)
LEMMA FoundOne ==
  ASSUME NEW m, IsLayout(m), NEW name, name \notin NamesOf(m), NEW t \in Types
  PROVE  OffsetOf(m \o One(name, t), name) = AlignUp(End(m), t.align)
<1> DEFINE names == <<name>>
           n == 1
           first == AlignUp(End(m), t.align)
<1>1. /\ DOMAIN names = 1..n /\ n \in Nat \ {0} /\ n \in 1..n /\ names[n] = name
      /\ \A i \in 1..n : names[i] = names[n] => i = n
  OBVIOUS
<1>2. One(name, t) = Several(names, t)
  BY DEF One, Several
<1> HIDE DEF names
<1>3. first \in Nat /\ t.size \in Nat
  <2>1. End(m) \in Nat
    BY Nothing, EndsGrow
  <2>2. t.align \in Nat \ {0} /\ t.size \in Nat
    BY DEF Types
  <2>3. QED
    BY <2>1, <2>2, Aligned
<1>4. n - 1 = 0 /\ first + 0 * t.size = first
  BY <1>3
<1> HIDE DEF n
<1>5. names[n] \notin NamesOf(m)
  BY <1>1
<1>6. OffsetOf(m \o Several(names, t), names[n]) = first + (n - 1) * t.size
  BY <1>1, <1>5, FoundInRow
<1> HIDE DEF first
<1>7. QED
  BY <1>1, <1>2, <1>4, <1>6 DEF first

(* ... and where a word is of those that do. *)
LEMMA FoundWord ==
  ASSUME NEW m, IsLayout(m), NEW names, DOMAIN names = 1..Len(names), Len(names) \in Nat \ {0},
         NEW k \in 1..Len(names), \A i \in 1..Len(names) : names[i] = names[k] => i = k,
         names[k] \notin NamesOf(m)
  PROVE  OffsetOf(m \o Words(names), names[k]) = AlignUp(End(m), 4) + (k - 1) * 4
<1> DEFINE n == Len(names)
<1>1. /\ n \in Nat \ {0} /\ DOMAIN names = 1..n /\ k \in 1..n
      /\ \A i \in 1..n : names[i] = names[k] => i = k
  OBVIOUS
<1> HIDE DEF n
<1>2. Word \in Types /\ Word.size = 4 /\ Word.align = 4 /\ Words(names) = Several(names, Word)
  BY DEF Word, Scalar, Types, Words
<1>3. OffsetOf(m \o Several(names, Word), names[k])
        = AlignUp(End(m), Word.align) + (k - 1) * Word.size
  BY <1>1, <1>2, FoundInRow
<1>4. QED
  BY <1>2, <1>3

(* The end of the breaks of the interpreter in a thread. *)
Broke(b) == IF b.eabi THEN IF b.taint THEN 56 ELSE 48 ELSE IF b.taint THEN 52 ELSE 48

SteadyNames ==
  {"interpSave", "threadId", "interpBreak", "suspendCount", "dbgSuspendCount", "cardTable",
   "interpStackEnd", "XcurFrame", "exception", "debugIsMethodEntry", "interpStackSize",
   "stackOverflowed", "handle", "singleStepCount"}

HandlerTables(b) == IF b.asmInterp THEN <<"mainHandlerTable", "altHandlerTable">>
                                   ELSE <<"unused0", "unused1">>

HeadNames(b) == SteadyNames \cup {HandlerTables(b)[1], HandlerTables(b)[2]}

(* The members before those that the assembly interpreter needs. *)
BeforeTables(b) ==
  One("interpSave", StructType(InterpSaveState(b))) \o Words(<<"threadId">>)
  \o One("interpBreak", InterpBreak(b))
  \o Words(<<"suspendCount", "dbgSuspendCount", "cardTable", "interpStackEnd", "XcurFrame",
             "exception">>)
  \o One("debugIsMethodEntry", Scalar(1)) \o Words(<<"interpStackSize">>)
  \o One("stackOverflowed", Scalar(1)) \o Words(<<"handle">>)

(* Two words, whatever they are called. *)
LEMMA TwoTables ==
  ASSUME NEW b \in Builds
  PROVE  /\ DOMAIN HandlerTables(b) = 1..Len(HandlerTables(b)) /\ Len(HandlerTables(b)) = 2
         /\ NamesOf(Words(HandlerTables(b))) = {HandlerTables(b)[1], HandlerTables(b)[2]}
         /\ IsLayout(Words(HandlerTables(b)))
<1> DEFINE t == HandlerTables(b)
<1>1. DOMAIN t = 1..Len(t) /\ Len(t) = 2
  BY DEF HandlerTables
<1> HIDE DEF t
<1>2. NamesOf(Words(t)) = {t[1], t[2]}
  BY <1>1 DEF NamesOf, Words, Several
<1>3. Len(t) \in Nat \ {0}
  BY <1>1
<1>4. IsLayout(Words(t))
  BY <1>1, <1>3, WordsRow
<1>5. QED
  BY <1>1, <1>2, <1>4 DEF t

(* What they take. *)
LEMMA BeforeMembers ==
  ASSUME NEW b \in Builds
  PROVE  /\ IsLayout(BeforeTables(b)) /\ End(BeforeTables(b)) = Broke(b) + 40
         /\ NamesOf(BeforeTables(b)) = SteadyNames \ {"singleStepCount"}
<1> DEFINE n2 == <<"threadId">>
           n4 == <<"suspendCount", "dbgSuspendCount", "cardTable", "interpStackEnd", "XcurFrame",
                   "exception">>
           n6 == <<"interpStackSize">>
           n8 == <<"handle">>
           save == StructType(InterpSaveState(b))
           break == InterpBreak(b)
           byte == Scalar(1)
           e == Broke(b)
           h1 == One("interpSave", save)
           h2 == h1 \o Words(n2)
           h3 == h2 \o One("interpBreak", break)
           h4 == h3 \o Words(n4)
           h5 == h4 \o One("debugIsMethodEntry", byte)
           h6 == h5 \o Words(n6)
           h7 == h6 \o One("stackOverflowed", byte)
           h8 == h7 \o Words(n8)
<1>1. BeforeTables(b) = h8
  BY DEF BeforeTables
<1>2. /\ DOMAIN n2 = 1..Len(n2) /\ Len(n2) \in Nat \ {0} /\ 4 * Len(n2) = 4
      /\ DOMAIN n4 = 1..Len(n4) /\ Len(n4) \in Nat \ {0} /\ 4 * Len(n4) = 24
      /\ DOMAIN n6 = 1..Len(n6) /\ Len(n6) \in Nat \ {0} /\ 4 * Len(n6) = 4
      /\ DOMAIN n8 = 1..Len(n8) /\ Len(n8) \in Nat \ {0} /\ 4 * Len(n8) = 4
  OBVIOUS
<1>3. NamesOf(Words(n2)) = {"threadId"}
  BY DEF NamesOf, Words, Several
<1>4. NamesOf(Words(n4)) = {"suspendCount", "dbgSuspendCount", "cardTable", "interpStackEnd",
                            "XcurFrame", "exception"}
  BY DEF NamesOf, Words, Several
<1>5. NamesOf(Words(n6)) = {"interpStackSize"}
  BY DEF NamesOf, Words, Several
<1>6. NamesOf(Words(n8)) = {"handle"}
  BY DEF NamesOf, Words, Several
<1> HIDE DEF n2, n4, n6, n8
<1>7. /\ save \in Types /\ save.size = (IF b.taint THEN 40 ELSE 36) /\ save.align = 1
      /\ break \in Types /\ break.size = 8 /\ break.align = (IF b.eabi THEN 8 ELSE 4)
      /\ byte \in Types /\ byte.size = 1 /\ byte.align = 1
  BY SaveState, Broken, Scalars
<1> HIDE DEF save, break, byte
<1>8. /\ IsLayout(Words(n2)) /\ IsLayout(Words(n4)) /\ IsLayout(Words(n6)) /\ IsLayout(Words(n8))
  BY <1>2, WordsRow
<1>9. /\ IsLayout(One("interpSave", save)) /\ IsLayout(One("interpBreak", break))
      /\ IsLayout(One("debugIsMethodEntry", byte)) /\ IsLayout(One("stackOverflowed", byte))
      /\ NamesOf(One("interpSave", save)) = {"interpSave"}
      /\ NamesOf(One("interpBreak", break)) = {"interpBreak"}
      /\ NamesOf(One("debugIsMethodEntry", byte)) = {"debugIsMethodEntry"}
      /\ NamesOf(One("stackOverflowed", byte)) = {"stackOverflowed"}
  BY <1>7, OneRow
<1>10. IsLayout(h1) /\ End(h1) = save.size
  BY <1>7, OneRow
<1> HIDE DEF h1
<1>11. IsLayout(h2) /\ End(h2) = AlignUp(End(h1), 4) + 4 * Len(n2)
  BY <1>2, <1>10, AddNames
<1> HIDE DEF h2
<1>12. IsLayout(h3) /\ End(h3) = AlignUp(End(h2), break.align) + break.size
  BY <1>7, <1>11, AddOne
<1> HIDE DEF h3
<1>13. IsLayout(h4) /\ End(h4) = AlignUp(End(h3), 4) + 4 * Len(n4)
  BY <1>2, <1>12, AddNames
<1> HIDE DEF h4
<1>14. IsLayout(h5) /\ End(h5) = AlignUp(End(h4), byte.align) + byte.size
  BY <1>7, <1>13, AddOne
<1> HIDE DEF h5
<1>15. IsLayout(h6) /\ End(h6) = AlignUp(End(h5), 4) + 4 * Len(n6)
  BY <1>2, <1>14, AddNames
<1> HIDE DEF h6
<1>16. IsLayout(h7) /\ End(h7) = AlignUp(End(h6), byte.align) + byte.size
  BY <1>7, <1>15, AddOne
<1> HIDE DEF h7
<1>17. IsLayout(h8) /\ End(h8) = AlignUp(End(h7), 4) + 4 * Len(n8)
  BY <1>2, <1>16, AddNames
<1> HIDE DEF h8
<1>18. End(h2) = (IF b.taint THEN 44 ELSE 40)
  <2>1. AlignUp(40, 4) = 40 /\ AlignUp(36, 4) = 36
    BY DEF AlignUp
  <2>2. QED
    BY <1>2, <1>7, <1>10, <1>11, <2>1
<1>19. /\ AlignUp(End(h2), break.align) = e - 8 /\ e \in {48, 52, 56}
       /\ End(h3) = e
  <2>1. AlignUp(44, 4) = 44 /\ AlignUp(40, 4) = 40 /\ AlignUp(44, 8) = 48 /\ AlignUp(40, 8) = 40
    BY DEF AlignUp
  <2>2. e = (IF b.eabi THEN IF b.taint THEN 56 ELSE 48 ELSE IF b.taint THEN 52 ELSE 48)
    BY DEF Broke
  <2> HIDE DEF e
  <2>3. b.eabi \in BOOLEAN /\ b.taint \in BOOLEAN
    BY DEF Builds
  <2>4. AlignUp(End(h2), break.align) = e - 8 /\ e \in {48, 52, 56}
    BY <1>7, <1>18, <2>1, <2>2, <2>3
  <2>5. QED
    BY <1>7, <1>12, <2>4
<1> HIDE DEF e
<1>20. /\ AlignUp(e, 4) = e /\ AlignUp(e + 24, 1) = e + 24 /\ AlignUp(e + 25, 4) = e + 28
       /\ AlignUp(e + 32, 1) = e + 32 /\ AlignUp(e + 33, 4) = e + 36
  BY <1>19 DEF AlignUp
<1>21. End(h5) = e + 25
  <2>1. End(h4) = e + 24
    BY <1>2, <1>13, <1>19, <1>20
  <2>2. QED
    BY <1>7, <1>14, <1>19, <1>20, <2>1
<1>22. End(h7) = e + 33
  <2>1. End(h6) = e + 32
    BY <1>2, <1>15, <1>19, <1>20, <1>21
  <2>2. QED
    BY <1>7, <1>16, <1>19, <1>20, <2>1
<1>23. End(h8) = e + 40
  BY <1>2, <1>17, <1>19, <1>20, <1>22
<1>24. NamesOf(h2) = {"interpSave", "threadId"}
  BY <1>3, <1>8, <1>9, <1>10, Joined DEF h1, h2
<1>25. NamesOf(h4) = NamesOf(h3) \cup NamesOf(Words(n4))
  BY <1>8, <1>12, Joined DEF h4
<1>26. NamesOf(h5) = NamesOf(h4) \cup {"debugIsMethodEntry"}
  BY <1>9, <1>13, Joined DEF h5
<1>27. NamesOf(h6) = NamesOf(h5) \cup {"interpStackSize"}
  BY <1>5, <1>8, <1>14, Joined DEF h6
<1>28. NamesOf(h7) = NamesOf(h6) \cup {"stackOverflowed"}
  BY <1>9, <1>15, Joined DEF h7
<1>29. NamesOf(h8) = NamesOf(h7) \cup NamesOf(Words(n8))
  BY <1>8, <1>16, Joined DEF h8
<1>30. NamesOf(h3) = {"interpSave", "threadId", "interpBreak"}
  BY <1>9, <1>11, <1>24, Joined DEF h3
<1>31. NamesOf(h8) = SteadyNames \ {"singleStepCount"}
  BY <1>4, <1>6, <1>25, <1>26, <1>27, <1>28, <1>29, <1>30 DEF SteadyNames
<1>32. QED
  BY <1>1, <1>17, <1>23, <1>31 DEF e

(* A thread up to what the JIT needs. *)
LEMMA HeadMembers ==
  ASSUME NEW b \in Builds
  PROVE  /\ IsLayout(ThreadHead(b)) /\ End(ThreadHead(b)) = Broke(b) + 52
         /\ NamesOf(ThreadHead(b)) = HeadNames(b)
<1> DEFINE q == BeforeTables(b)
           t == HandlerTables(b)
           l == <<"singleStepCount">>
           e == Broke(b)
<1>1. ThreadHead(b) = (q \o Words(t)) \o Words(l)
  BY DEF ThreadHead, BeforeTables, HandlerTables
<1>2. DOMAIN l = 1..Len(l) /\ Len(l) \in Nat \ {0} /\ 4 * Len(l) = 4
  OBVIOUS
<1>3. NamesOf(Words(l)) = {"singleStepCount"}
  BY DEF NamesOf, Words, Several
<1>4. /\ DOMAIN t = 1..Len(t) /\ Len(t) \in Nat \ {0} /\ 4 * Len(t) = 8
      /\ NamesOf(Words(t)) = {t[1], t[2]} /\ IsLayout(Words(t))
  <2> HIDE DEF q, l, e
  <2>1. /\ DOMAIN t = 1..Len(t) /\ Len(t) = 2
        /\ NamesOf(Words(t)) = {t[1], t[2]} /\ IsLayout(Words(t))
    BY TwoTables
  <2> HIDE DEF t
  <2>2. QED
    BY <2>1
<1>5. /\ IsLayout(q) /\ End(q) = e + 40 /\ NamesOf(q) = SteadyNames \ {"singleStepCount"}
  BY BeforeMembers
<1>6. e \in {48, 52, 56}
  BY DEF Broke, Builds
<1> HIDE DEF q, t, l, e
<1>7. IsLayout(q \o Words(t)) /\ End(q \o Words(t)) = AlignUp(End(q), 4) + 4 * Len(t)
  BY <1>4, <1>5, AddNames
<1>8. NamesOf(q \o Words(t)) = NamesOf(q) \cup NamesOf(Words(t))
  BY <1>4, <1>5, Joined
<1>9. IsLayout(Words(l))
  BY <1>2, WordsRow
<1> DEFINE r == q \o Words(t)
<1> HIDE DEF r
<1>10. IsLayout(r) /\ NamesOf(r) = NamesOf(q) \cup NamesOf(Words(t))
  BY <1>7, <1>8 DEF r
<1>11. IsLayout(r \o Words(l)) /\ End(r \o Words(l)) = AlignUp(End(r), 4) + 4 * Len(l)
  BY <1>2, <1>10, AddNames
<1>12. NamesOf(r \o Words(l)) = NamesOf(r) \cup NamesOf(Words(l))
  BY <1>9, <1>10, Joined
<1>13. AlignUp(e + 40, 4) = e + 40 /\ AlignUp(e + 48, 4) = e + 48
  BY <1>6 DEF AlignUp
<1>14. End(r) = e + 48
  BY <1>4, <1>5, <1>6, <1>7, <1>13 DEF r
<1>15. End(r \o Words(l)) = e + 52
  BY <1>2, <1>6, <1>11, <1>13, <1>14
<1>16. NamesOf(r \o Words(l)) = HeadNames(b)
  <2>1. "singleStepCount" \in SteadyNames
    BY DEF SteadyNames
  <2>2. QED
    BY <1>3, <1>4, <1>5, <1>10, <1>12, <2>1 DEF HeadNames, t
<1>17. QED
  BY <1>1, <1>11, <1>15, <1>16 DEF r, e

JitNames ==
  {"jitToInterpEntries", "inJitCodeCache", "pJitProfTable", "jitThreshold", "jitResumeNPC",
   "jitResumeNSP", "jitResumeDPC", "jitState", "icRechainCount", "pProfileCountdown",
   "callsiteClass", "methodToCall"}

TraceNames ==
  {"shadowSpace", "currTraceRun", "totalTraceLen", "currTraceHead", "currRunHead", "currRunLen",
   "lastPC", "traceMethod", "threshFilter", "trace"}

WaitingNames ==
  {"systemTid", "interpStackStart", "threadObj", "jniEnv", "internalLocalRefTable",
   "jniMonitorRefTable", "classLoaderOverride", "waitMutex", "waitMonitor", "interrupted",
   "waitNext", "waitCond", "throwingOOME", "prev", "next", "threadExitCheckCount"}

TailNames ==
  {"invokeReq", "cpuClockBaseSet", "cpuClockBase", "allocProf", "stackCrc", "callbackMutex",
   "callback", "callbackArg", "spillRegion"}

(* What the JIT needs of a thread. *)
LEMMA JitMembers ==
  ASSUME NEW b \in Builds, NEW m, IsLayout(m), NEW e \in Nat, End(m) = e, e % 4 = 0
  PROVE  /\ IsLayout(ThreadJit(b)) /\ IsLayout(m \o ThreadJit(b))
         /\ NamesOf(ThreadJit(b)) = JitNames
         /\ End(m \o ThreadJit(b)) = e + 68
         /\ StructType(JitToInterpEntries(b)) = [size |-> 24, align |-> 4]
<1> DEFINE n1 == <<"Normal", "NoChain", "Punt", "SingleStep", "TraceSelect",
                   IF b.selfVerification THEN "BackwardBranch" ELSE "unused">>
           n2 == <<"inJitCodeCache", "pJitProfTable", "jitThreshold", "jitResumeNPC",
                   "jitResumeNSP", "jitResumeDPC", "jitState", "icRechainCount",
                   "pProfileCountdown", "callsiteClass", "methodToCall">>
           entries == StructType(JitToInterpEntries(b))
           one == One("jitToInterpEntries", entries)
<1>1. /\ DOMAIN n1 = 1..Len(n1) /\ Len(n1) \in Nat \ {0} /\ 4 * Len(n1) = 24
      /\ DOMAIN n2 = 1..Len(n2) /\ Len(n2) \in Nat \ {0} /\ 4 * Len(n2) = 44
  OBVIOUS
<1>2. NamesOf(Words(n2)) =
        {"inJitCodeCache", "pJitProfTable", "jitThreshold", "jitResumeNPC", "jitResumeNSP",
         "jitResumeDPC", "jitState", "icRechainCount", "pProfileCountdown", "callsiteClass",
         "methodToCall"}
  BY DEF NamesOf, Words, Several
<1>3. ThreadJit(b) = one \o Words(n2) /\ entries = StructType(Words(n1))
  BY DEF ThreadJit, JitToInterpEntries
<1> HIDE DEF n1, n2, entries
<1>4. entries \in Types /\ entries = [size |-> 24, align |-> 4]
  BY <1>1, <1>3, WordsRow
<1>5. /\ IsLayout(one) /\ NamesOf(one) = {"jitToInterpEntries"} /\ IsLayout(Words(n2))
      /\ IsLayout(m \o one) /\ End(m \o one) = AlignUp(e, 4) + 24
  <2>1. IsLayout(one) /\ NamesOf(one) = {"jitToInterpEntries"}
    BY <1>4, OneRow
  <2>2. IsLayout(Words(n2))
    BY <1>1, WordsRow
  <2>3. IsLayout(m \o one) /\ End(m \o one) = AlignUp(End(m), entries.align) + entries.size
    BY <1>4, AddOne
  <2>4. QED
    BY <1>4, <2>1, <2>2, <2>3
<1> HIDE DEF one
<1>6. AlignUp(e, 4) = e /\ AlignUp(e + 24, 4) = e + 24
  BY DEF AlignUp
<1>7. /\ IsLayout((m \o one) \o Words(n2))
      /\ End((m \o one) \o Words(n2)) = AlignUp(End(m \o one), 4) + 4 * Len(n2)
  BY <1>1, <1>5, AddNames
<1>8. (m \o one) \o Words(n2) = m \o ThreadJit(b)
  BY <1>3, <1>5, Associative, SMTT(30)
<1>9. End(m \o ThreadJit(b)) = e + 68
  BY <1>1, <1>5, <1>6, <1>7, <1>8
<1>10. /\ IsLayout(one \o Words(n2))
       /\ NamesOf(one \o Words(n2)) = NamesOf(one) \cup NamesOf(Words(n2))
  BY <1>5, Joined
<1>11. QED
  BY <1>2, <1>3, <1>4, <1>5, <1>7, <1>8, <1>9, <1>10 DEF JitNames, entries

(* The trace that the JIT selects. *)
LEMMA TraceMembers ==
  ASSUME NEW b \in Builds, NEW m, IsLayout(m), NEW e \in Nat, End(m) = e, e % 4 = 0
  PROVE  /\ IsLayout(ThreadTrace(b)) /\ IsLayout(m \o ThreadTrace(b))
         /\ NamesOf(ThreadTrace(b)) \subseteq TraceNames
         /\ End(m \o ThreadTrace(b)) = (IF b.selfVerification THEN e + 672 ELSE e + 668)
<1> DEFINE n0 == <<"shadowSpace">>
           n1 == <<"currTraceRun", "totalTraceLen", "currTraceHead", "currRunHead", "currRunLen",
                   "lastPC", "traceMethod">>
           filter == ArrayType(Word, JIT_TRACE_THRESH_FILTER_SIZE)
           runs == ArrayType(JitTraceRun, MAX_JIT_RUN_LEN)
           r0 == If(b.selfVerification, Words(n0))
           r1 == Words(n1)
           r2 == One("threshFilter", filter)
           r3 == One("trace", runs)
<1>1. /\ DOMAIN n0 = 1..Len(n0) /\ Len(n0) \in Nat \ {0} /\ 4 * Len(n0) = 4
      /\ DOMAIN n1 = 1..Len(n1) /\ Len(n1) \in Nat \ {0} /\ 4 * Len(n1) = 28
  OBVIOUS
<1>2. NamesOf(Words(n0)) = {"shadowSpace"}
  BY DEF NamesOf, Words, Several
<1>3. NamesOf(Words(n1)) = {"currTraceRun", "totalTraceLen", "currTraceHead", "currRunHead",
                            "currRunLen", "lastPC", "traceMethod"}
  BY DEF NamesOf, Words, Several
<1>4. ThreadTrace(b) = ((r0 \o r1) \o r2) \o r3
  BY DEF ThreadTrace
<1> HIDE DEF n0, n1
<1>5. filter = [size |-> 128, align |-> 4] /\ filter \in Types
  BY Scalars, ArrayOfType DEF JIT_TRACE_THRESH_FILTER_SIZE
<1>6. runs = [size |-> 512, align |-> 4] /\ runs \in Types
  BY TraceRun, ArrayOfType DEF MAX_JIT_RUN_LEN
<1> HIDE DEF filter, runs
<1>7. /\ IsLayout(Words(n0)) /\ IsLayout(r1)
      /\ IsLayout(r2) /\ NamesOf(r2) = {"threshFilter"}
      /\ IsLayout(r3) /\ NamesOf(r3) = {"trace"}
  BY <1>1, <1>5, <1>6, WordsRow, OneRow
<1>8. IsLayout(r0) /\ NamesOf(r0) \subseteq {"shadowSpace"}
  BY <1>2, <1>7, Chosen
<1>9. AlignUp(e, 4) = e /\ AlignUp(e + 4, 4) = e + 4
  BY DEF AlignUp
<1>10. IsLayout(m \o r0) /\ End(m \o r0) = (IF b.selfVerification THEN e + 4 ELSE e)
  <2>1. CASE b.selfVerification
    <3>1. r0 = Words(n0)
      BY <2>1 DEF If
    <3>2. IsLayout(m \o Words(n0)) /\ End(m \o Words(n0)) = AlignUp(End(m), 4) + 4 * Len(n0)
      BY <1>1, AddNames
    <3> HIDE DEF r0
    <3>3. QED
      BY <1>1, <1>9, <2>1, <3>1, <3>2
  <2>2. CASE ~b.selfVerification
    <3>1. r0 = << >>
      BY <2>2 DEF If
    <3>2. m \o << >> = m
      BY Nothing
    <3> HIDE DEF r0
    <3>3. QED
      BY <2>2, <3>1, <3>2
  <2>3. QED
    BY <2>1, <2>2
<1> DEFINE h == IF b.selfVerification THEN e + 4 ELSE e
<1>11. h \in Nat /\ h % 4 = 0 /\ End(m \o r0) = h
  BY <1>10
<1> HIDE DEF r0, h
<1>12. AlignUp(h, 4) = h /\ AlignUp(h + 28, 4) = h + 28 /\ AlignUp(h + 156, 4) = h + 156
  BY <1>11 DEF AlignUp
<1>13. IsLayout((m \o r0) \o r1) /\ End((m \o r0) \o r1) = h + 28
  <2>1. IsLayout((m \o r0) \o r1) /\ End((m \o r0) \o r1) = AlignUp(End(m \o r0), 4) + 4 * Len(n1)
    BY <1>1, <1>10, AddNames
  <2>2. QED
    BY <1>1, <1>11, <1>12, <2>1
<1> DEFINE q1 == (m \o r0) \o r1
<1> HIDE DEF q1, r1
<1>14. IsLayout(q1 \o r2) /\ End(q1 \o r2) = h + 156
  <2>1. IsLayout(q1) /\ End(q1) = h + 28
    BY <1>13 DEF q1
  <2>2. IsLayout(q1 \o r2) /\ End(q1 \o r2) = AlignUp(End(q1), filter.align) + filter.size
    BY <1>5, <2>1, AddOne
  <2>3. QED
    BY <1>5, <1>11, <1>12, <2>1, <2>2
<1> DEFINE q2 == q1 \o r2
<1> HIDE DEF q2, r2
<1>15. IsLayout(q2 \o r3) /\ End(q2 \o r3) = h + 668
  <2>1. IsLayout(q2) /\ End(q2) = h + 156
    BY <1>14 DEF q2
  <2>2. IsLayout(q2 \o r3) /\ End(q2 \o r3) = AlignUp(End(q2), runs.align) + runs.size
    BY <1>6, <2>1, AddOne
  <2>3. QED
    BY <1>6, <1>11, <1>12, <2>1, <2>2
<1> HIDE DEF r3
<1>16. /\ IsLayout(r0 \o r1) /\ NamesOf(r0 \o r1) = NamesOf(r0) \cup NamesOf(r1)
       /\ IsLayout((r0 \o r1) \o r2)
       /\ NamesOf((r0 \o r1) \o r2) = NamesOf(r0 \o r1) \cup NamesOf(r2)
       /\ IsLayout(((r0 \o r1) \o r2) \o r3)
       /\ NamesOf(((r0 \o r1) \o r2) \o r3) = NamesOf((r0 \o r1) \o r2) \cup NamesOf(r3)
  BY <1>7, <1>8, Joined
<1>17. NamesOf(ThreadTrace(b)) \subseteq TraceNames
  BY <1>3, <1>4, <1>7, <1>8, <1>16 DEF r1, TraceNames
<1> DEFINE p1 == r0 \o r1
           p2 == p1 \o r2
<1>18. IsLayout(p1) /\ IsLayout(p2) /\ ThreadTrace(b) = p2 \o r3
  BY <1>4, <1>16
<1>19. IsLayout(r0) /\ IsLayout(r1) /\ IsLayout(r2) /\ IsLayout(r3)
  BY <1>7, <1>8
<1>20. (m \o r0) \o r1 = m \o (r0 \o r1)
  <2>1. IsLayout(r0) /\ IsLayout(r1)
    BY <1>19
  <2>2. QED
    BY <2>1, Associative
<1> HIDE DEF p2
<1>21. (m \o p1) \o r2 = m \o p2
  <2>1. IsLayout(p1) /\ IsLayout(r2)
    BY <1>18, <1>19
  <2> HIDE DEF p1
  <2>2. (m \o p1) \o r2 = m \o (p1 \o r2)
    BY <2>1, Associative
  <2>3. QED
    BY <2>2 DEF p2
<1>22. (m \o p2) \o r3 = m \o (p2 \o r3)
  <2>1. IsLayout(p2) /\ IsLayout(r3)
    BY <1>18, <1>19
  <2>2. QED
    BY <2>1, Associative
<1>23. m \o ThreadTrace(b) = q2 \o r3
  BY <1>18, <1>20, <1>21, <1>22 DEF q1, q2
<1>24. h + 668 = (IF b.selfVerification THEN e + 672 ELSE e + 668)
  BY DEF h
<1>25. QED
  BY <1>4, <1>15, <1>16, <1>17, <1>23, <1>24

(* A piece in the middle does not move its members for what follows it. *)
LEMMA Inside ==
  ASSUME NEW m, NEW r, NEW s, IsLayout(m), IsLayout(r), IsLayout(s),
         NEW name \in NamesOf(r), name \notin NamesOf(s)
  PROVE  /\ IsLayout(r \o s) /\ NamesOf(r \o s) = NamesOf(r) \cup NamesOf(s)
         /\ OffsetOf(m \o (r \o s), name) = OffsetOf(m \o r, name)
         /\ End(m \o (r \o s)) >= End(m \o r)
<1>1. (m \o r) \o s = m \o (r \o s)
  BY Associative, SMTT(30)
<1>2. IsLayout(r \o s) /\ NamesOf(r \o s) = NamesOf(r) \cup NamesOf(s)
  BY Joined
<1>3. IsLayout(m \o r) /\ NamesOf(m \o r) = NamesOf(m) \cup NamesOf(r)
  BY Joined
<1> DEFINE j == m \o r
<1>4. IsLayout(j) /\ name \in NamesOf(j)
  BY <1>3
<1> HIDE DEF j
<1>5. OffsetOf(j \o s, name) = OffsetOf(j, name)
  BY <1>4, FoundBefore
<1>6. End(j \o s) >= End(j)
  BY <1>4, EndsGrow
<1>7. QED
  BY <1>1, <1>2, <1>5, <1>6 DEF j

(* The status of a thread, and what follows until its debugger state. *)
LEMMA WaitingMembers ==
  ASSUME NEW m, IsLayout(m), NEW e \in Nat, End(m) = e, e % 4 = 0, "status" \notin NamesOf(m)
  PROVE  /\ IsLayout(ThreadWaiting) /\ NamesOf(ThreadWaiting) = WaitingNames \cup {"status"}
         /\ OffsetOf(m \o ThreadWaiting, "status") = e
         /\ IsLayout(m \o ThreadWaiting) /\ End(m \o ThreadWaiting) >= e + 20
<1> DEFINE n1 == <<"status", "systemTid", "interpStackStart", "threadObj", "jniEnv">>
           n2 == <<"internalLocalRefTable", "jniMonitorRefTable">>
           n3 == <<"classLoaderOverride", "waitMutex", "waitMonitor">>
           n5 == <<"waitNext", "waitCond">>
           n7 == <<"prev", "next", "threadExitCheckCount">>
           table == StructType(ReferenceTable)
           byte == Scalar(1)
           w1 == Words(n1)
           s2 == Several(n2, table)
           s3 == Words(n3)
           s4 == One("interrupted", byte)
           s5 == Words(n5)
           s6 == One("throwingOOME", byte)
           s7 == Words(n7)
           w2 == w1 \o s2
           w3 == w2 \o s3
           w4 == w3 \o s4
           w5 == w4 \o s5
           w6 == w5 \o s6
           w7 == w6 \o s7
           two == 2
           first == 1
<1>1. ThreadWaiting = w7
  BY DEF ThreadWaiting
<1>2. /\ DOMAIN n1 = 1..Len(n1) /\ Len(n1) \in Nat \ {0} /\ 4 * Len(n1) = 20
      /\ DOMAIN n2 = 1..two /\ two \in Nat \ {0}
      /\ DOMAIN n3 = 1..Len(n3) /\ Len(n3) \in Nat \ {0}
      /\ DOMAIN n5 = 1..Len(n5) /\ Len(n5) \in Nat \ {0}
      /\ DOMAIN n7 = 1..Len(n7) /\ Len(n7) \in Nat \ {0}
  OBVIOUS
<1>3. /\ first \in 1..Len(n1) /\ n1[first] = "status" /\ (first - 1) * 4 = 0
      /\ \A i \in 1..Len(n1) : n1[i] = n1[first] => i = first
  OBVIOUS
<1>4. NamesOf(w1) = {"status", "systemTid", "interpStackStart", "threadObj", "jniEnv"}
  BY DEF NamesOf, Words, Several
<1>5. NamesOf(s2) = {"internalLocalRefTable", "jniMonitorRefTable"}
  BY DEF NamesOf, Several
<1>6. NamesOf(s3) = {"classLoaderOverride", "waitMutex", "waitMonitor"}
  BY DEF NamesOf, Words, Several
<1>7. NamesOf(s5) = {"waitNext", "waitCond"}
  BY DEF NamesOf, Words, Several
<1>8. NamesOf(s7) = {"prev", "next", "threadExitCheckCount"}
  BY DEF NamesOf, Words, Several
<1>9. table \in Types
  <2> DEFINE names == <<"nextEntry", "table", "allocEntries", "maxEntries">>
  <2>1. DOMAIN names = 1..Len(names) /\ Len(names) \in Nat \ {0}
    OBVIOUS
  <2>2. table = StructType(Words(names))
    BY DEF ReferenceTable
  <2> HIDE DEF names, table
  <2>3. QED
    BY <2>1, <2>2, WordsRow
<1>10. byte \in Types
  BY DEF Scalar, Types
<1> HIDE DEF n1, n2, n3, n5, n7, table, byte, first, two
<1>11. IsLayout(w1)
  BY <1>2, WordsRow
<1>12. IsLayout(s3) /\ IsLayout(s5) /\ IsLayout(s7)
  BY <1>2, WordsRow
<1>13. IsLayout(s2)
  BY <1>2, <1>9, Row
<1>14. IsLayout(s4) /\ NamesOf(s4) = {"interrupted"}
  BY <1>10, OneRow
<1>15. IsLayout(s6) /\ NamesOf(s6) = {"throwingOOME"}
  BY <1>10, OneRow
<1>16. OffsetOf(m \o w1, "status") = e /\ End(m \o w1) = e + 20
  <2>1. AlignUp(e, 4) = e
    BY DEF AlignUp
  <2>2. n1[first] \notin NamesOf(m)
    BY <1>3
  <2>3. OffsetOf(m \o Words(n1), n1[first]) = AlignUp(End(m), 4) + (first - 1) * 4
    BY <1>2, <1>3, <2>2, FoundWord
  <2>4. End(m \o Words(n1)) = AlignUp(End(m), 4) + 4 * Len(n1)
    BY <1>2, AddNames
  <2>5. QED
    BY <1>2, <1>3, <2>1, <2>3, <2>4
<1> DEFINE Holds(w) == /\ IsLayout(w) /\ "status" \in NamesOf(w)
                       /\ OffsetOf(m \o w, "status") = e /\ End(m \o w) >= e + 20
<1>17. Holds(w1)
  BY <1>4, <1>11, <1>16
<1> HIDE DEF w1, s2, s3, s4, s5, s6, s7
<1>18. ASSUME NEW w, Holds(w), NEW s, IsLayout(s), "status" \notin NamesOf(s)
       PROVE  Holds(w \o s) /\ NamesOf(w \o s) = NamesOf(w) \cup NamesOf(s)
  <2>1. /\ IsLayout(w \o s) /\ NamesOf(w \o s) = NamesOf(w) \cup NamesOf(s)
        /\ OffsetOf(m \o (w \o s), "status") = OffsetOf(m \o w, "status")
        /\ End(m \o (w \o s)) >= End(m \o w)
    BY <1>18, Inside
  <2>2. End(m \o w) \in Nat /\ End(m \o (w \o s)) \in Nat
    BY <1>18, <2>1, EndsGrow
  <2>3. QED
    BY <1>18, <2>1, <2>2
<1> HIDE DEF Holds
<1>19. Holds(w2) /\ NamesOf(w2) = NamesOf(w1) \cup NamesOf(s2)
  BY <1>5, <1>13, <1>17, <1>18
<1> HIDE DEF w2
<1>20. Holds(w3) /\ NamesOf(w3) = NamesOf(w2) \cup NamesOf(s3)
  BY <1>6, <1>12, <1>18, <1>19
<1> HIDE DEF w3
<1>21. Holds(w4) /\ NamesOf(w4) = NamesOf(w3) \cup NamesOf(s4)
  BY <1>14, <1>18, <1>20
<1> HIDE DEF w4
<1>22. Holds(w5) /\ NamesOf(w5) = NamesOf(w4) \cup NamesOf(s5)
  BY <1>7, <1>12, <1>18, <1>21
<1> HIDE DEF w5
<1>23. Holds(w6) /\ NamesOf(w6) = NamesOf(w5) \cup NamesOf(s6)
  BY <1>15, <1>18, <1>22
<1> HIDE DEF w6
<1>24. Holds(w7) /\ NamesOf(w7) = NamesOf(w6) \cup NamesOf(s7)
  BY <1>8, <1>12, <1>18, <1>23
<1> HIDE DEF w7
<1>25. NamesOf(w7) = WaitingNames \cup {"status"}
  BY <1>4, <1>5, <1>6, <1>7, <1>8, <1>14, <1>15, <1>19, <1>20, <1>21, <1>22, <1>23, <1>24
  DEF WaitingNames
<1>26. IsLayout(m \o w7)
  BY <1>24, Joined DEF Holds
<1>27. QED
  BY <1>1, <1>24, <1>25, <1>26 DEF Holds

(* The debugger state and the allocation profile are types. *)
LEMMA TailTypes ==
  ASSUME NEW b \in Builds
  PROVE  StructType(DebugInvokeReq(b)) \in Types /\ StructType(AllocProfState(b)) \in Types
<1> DEFINE d1 == <<"ready", "invokeNeeded">>
           d2 == <<"obj", "thread", "clazz", "method", "numArgs", "argArray", "options", "err">>
           d3 == <<"lock", "cv">>
           a1 == <<"allocCount", "allocSize", "failedAllocCount", "failedAllocSize", "freeCount",
                   "freeSize", "gcCount", "classInitCount">>
           byte == Scalar(1)
           value == JValue(b)
           long == Eight(b)
           two == 2
           p1 == Several(d1, byte) \o Words(d2)
           p2 == p1 \o One("resultTag", byte)
           p3 == p2 \o One("resultValue", value)
           p4 == p3 \o One("exceptObj", long)
           p5 == p4 \o Words(d3)
           q1 == One("enabled", byte) \o Words(a1)
           q2 == q1 \o One("classInitTime", long)
<1>1. DebugInvokeReq(b) = p5
  BY DEF DebugInvokeReq
<1>2. AllocProfState(b) = q2
  BY DEF AllocProfState
<1>3. /\ DOMAIN d1 = 1..two /\ two \in Nat \ {0}
      /\ DOMAIN d2 = 1..Len(d2) /\ Len(d2) \in Nat \ {0}
      /\ DOMAIN d3 = 1..Len(d3) /\ Len(d3) \in Nat \ {0}
      /\ DOMAIN a1 = 1..Len(a1) /\ Len(a1) \in Nat \ {0}
  OBVIOUS
<1>4. byte \in Types /\ value \in Types /\ long \in Types
  BY Scalars, Values
<1> HIDE DEF d1, d2, d3, a1, byte, value, long, two
<1>5. IsLayout(Several(d1, byte))
  BY <1>3, <1>4, Nothing, Row
<1>6. IsLayout(p1)
  BY <1>3, <1>5, AddNames
<1> HIDE DEF p1
<1>7. IsLayout(p2)
  BY <1>4, <1>6, AddOne
<1> HIDE DEF p2
<1>8. IsLayout(p3)
  BY <1>4, <1>7, AddOne
<1> HIDE DEF p3
<1>9. IsLayout(p4)
  BY <1>4, <1>8, AddOne
<1> HIDE DEF p4
<1>10. IsLayout(p5) /\ Len(p5) # 0
  BY <1>3, <1>9, AddNames
<1> HIDE DEF p5
<1>11. IsLayout(One("enabled", byte))
  BY <1>4, OneRow
<1>12. IsLayout(q1)
  BY <1>3, <1>11, AddNames
<1> HIDE DEF q1
<1>13. IsLayout(q2) /\ Len(q2) # 0
  BY <1>4, <1>12, AddOne
<1> HIDE DEF q2
<1>14. StructType(p5) \in Types /\ StructType(q2) \in Types
  BY <1>10, <1>13, SomeStruct
<1>15. QED
  BY <1>1, <1>2, <1>14

(* The rest of a thread. *)
LEMMA TailMembers ==
  ASSUME NEW b \in Builds
  PROVE  IsLayout(ThreadTail(b)) /\ NamesOf(ThreadTail(b)) \subseteq TailNames
<1> DEFINE n5 == <<"stackCrc">>
           n6 == <<"callbackMutex", "callback", "callbackArg">>
           req == StructType(DebugInvokeReq(b))
           prof == StructType(AllocProfState(b))
           region == ArrayType(Word, MAX_SPILL_JIT_IA)
           byte == Scalar(1)
           long == Eight(b)
           s1 == One("invokeReq", req)
           s2 == One("cpuClockBaseSet", byte)
           s3 == One("cpuClockBase", long)
           s4 == One("allocProf", prof)
           s5 == If(b.jniStackCheck, Words(n5))
           s6 == Words(n6)
           o7 == One("spillRegion", region)
           s7 == If(b.ia32 /\ b.jit, o7)
           t2 == s1 \o s2
           t3 == t2 \o s3
           t4 == t3 \o s4
           t5 == t4 \o s5
           t6 == t5 \o s6
           t7 == t6 \o s7
<1>1. ThreadTail(b) = t7
  BY DEF ThreadTail
<1>2. /\ DOMAIN n5 = 1..Len(n5) /\ Len(n5) \in Nat \ {0}
      /\ DOMAIN n6 = 1..Len(n6) /\ Len(n6) \in Nat \ {0}
  OBVIOUS
<1>3. NamesOf(Words(n5)) = {"stackCrc"}
  BY DEF NamesOf, Words, Several
<1>4. NamesOf(s6) = {"callbackMutex", "callback", "callbackArg"}
  BY DEF NamesOf, Words, Several
<1>5. req \in Types /\ prof \in Types /\ byte \in Types /\ long \in Types
  BY TailTypes, Scalars
<1>6. region \in Types
  BY Scalars, ArrayOfType DEF MAX_SPILL_JIT_IA
<1> HIDE DEF n5, n6, req, prof, region, byte, long
<1>7. /\ IsLayout(s1) /\ NamesOf(s1) = {"invokeReq"}
      /\ IsLayout(s2) /\ NamesOf(s2) = {"cpuClockBaseSet"}
      /\ IsLayout(s3) /\ NamesOf(s3) = {"cpuClockBase"}
      /\ IsLayout(s4) /\ NamesOf(s4) = {"allocProf"}
  BY <1>5, OneRow
<1>8. IsLayout(o7) /\ NamesOf(o7) = {"spillRegion"}
  BY <1>6, OneRow
<1>9. IsLayout(Words(n5)) /\ IsLayout(s6)
  BY <1>2, WordsRow
<1> HIDE DEF s1, s2, s3, s4, s6, o7
<1>10. IsLayout(s5) /\ NamesOf(s5) \subseteq {"stackCrc"}
  BY <1>3, <1>9, Chosen
<1>11. IsLayout(s7) /\ NamesOf(s7) \subseteq {"spillRegion"}
  BY <1>8, Chosen
<1> HIDE DEF s5, s7
<1>12. IsLayout(t2) /\ NamesOf(t2) = NamesOf(s1) \cup NamesOf(s2)
  BY <1>7, Joined
<1> HIDE DEF t2
<1>13. IsLayout(t3) /\ NamesOf(t3) = NamesOf(t2) \cup NamesOf(s3)
  BY <1>7, <1>12, Joined
<1> HIDE DEF t3
<1>14. IsLayout(t4) /\ NamesOf(t4) = NamesOf(t3) \cup NamesOf(s4)
  BY <1>7, <1>13, Joined
<1> HIDE DEF t4
<1>15. IsLayout(t5) /\ NamesOf(t5) = NamesOf(t4) \cup NamesOf(s5)
  BY <1>10, <1>14, Joined
<1> HIDE DEF t5
<1>16. IsLayout(t6) /\ NamesOf(t6) = NamesOf(t5) \cup NamesOf(s6)
  BY <1>9, <1>15, Joined
<1> HIDE DEF t6
<1>17. IsLayout(t7) /\ NamesOf(t7) = NamesOf(t6) \cup NamesOf(s7)
  BY <1>11, <1>16, Joined
<1> HIDE DEF t7
<1>18. NamesOf(t7) \subseteq TailNames
  BY <1>4, <1>7, <1>10, <1>11, <1>12, <1>13, <1>14, <1>15, <1>16, <1>17 DEF TailNames
<1>19. QED
  BY <1>1, <1>17, <1>18

(* A thread up to its reference table, and where that is. *)
UptoTable(b) ==
  ThreadHead(b) \o If(b.jit, ThreadJit(b))
  \o One("jniLocalRefTable", StructType(IndirectRefTable))

TablePlace(b) == Broke(b) + (IF b.jit THEN 120 ELSE 52)

TableNames(b) == HeadNames(b) \cup JitNames \cup {"jniLocalRefTable"}

(* The reference table comes after the head, and after the JIT if there is one. *)
LEMMA TableMembers ==
  ASSUME NEW b \in Builds
  PROVE  /\ IsLayout(UptoTable(b)) /\ End(UptoTable(b)) = TablePlace(b) + 20
         /\ NamesOf(UptoTable(b)) \subseteq TableNames(b)
         /\ "jniLocalRefTable" \in NamesOf(UptoTable(b))
         /\ OffsetOf(UptoTable(b), "jniLocalRefTable") = TablePlace(b)
         /\ TablePlace(b) \in Nat /\ TablePlace(b) % 4 = 0
         /\ IsLayout(ThreadHead(b)) /\ IsLayout(If(b.jit, ThreadJit(b)))
         /\ IsLayout(ThreadHead(b) \o If(b.jit, ThreadJit(b)))
         /\ IsLayout(One("jniLocalRefTable", StructType(IndirectRefTable)))
<1> DEFINE names == <<"segmentState", "table_", "kind_", "alloc_entries_", "max_entries_">>
           table == StructType(IndirectRefTable)
           h == ThreadHead(b)
           j == If(b.jit, ThreadJit(b))
           q == h \o j
           o == One("jniLocalRefTable", table)
           e == Broke(b) + 52
           p == TablePlace(b)
<1>1. table = [size |-> 20, align |-> 4] /\ table \in Types
  <2>1. DOMAIN names = 1..Len(names) /\ Len(names) \in Nat \ {0} /\ 4 * Len(names) = 20
    OBVIOUS
  <2>2. table = StructType(Words(names))
    BY DEF IndirectRefTable
  <2> HIDE DEF names, table
  <2>3. QED
    BY <2>1, <2>2, WordsRow
<1>2. /\ e \in Nat /\ e % 4 = 0 /\ p = (IF b.jit THEN e + 68 ELSE e)
      /\ p \in Nat /\ p % 4 = 0
  <2>1. Broke(b) \in {48, 52, 56}
    BY DEF Broke, Builds
  <2> DEFINE x == Broke(b)
  <2>2. p = x + (IF b.jit THEN 120 ELSE 52)
    BY DEF TablePlace
  <2> HIDE DEF x
  <2>3. x \in {48, 52, 56}
    BY <2>1 DEF x
  <2>4. e = x + 52
    BY DEF x
  <2> HIDE DEF e, p
  <2>5. CASE b.jit
    BY <2>2, <2>3, <2>4, <2>5
  <2>6. CASE ~b.jit
    BY <2>2, <2>3, <2>4, <2>6
  <2>7. QED
    BY <2>5, <2>6
<1>3. IsLayout(h) /\ End(h) = e /\ NamesOf(h) = HeadNames(b)
  BY HeadMembers
<1>4. UptoTable(b) = q \o o
  BY DEF UptoTable
<1> HIDE DEF table, h, e, p
<1>5. /\ IsLayout(ThreadJit(b)) /\ IsLayout(h \o ThreadJit(b))
      /\ NamesOf(ThreadJit(b)) = JitNames
      /\ End(h \o ThreadJit(b)) = e + 68
  BY <1>2, <1>3, JitMembers
<1>6. IsLayout(j) /\ NamesOf(j) \subseteq JitNames
  BY <1>5, Chosen
<1>7. IsLayout(q) /\ NamesOf(q) = HeadNames(b) \cup NamesOf(j)
  BY <1>3, <1>6, Joined
<1>8. End(q) = p
  <2>1. CASE b.jit
    BY <1>2, <1>5, <2>1 DEF If
  <2>2. CASE ~b.jit
    <3>1. q = h
      BY <1>3, <2>2, Nothing DEF If
    <3>2. p = e
      BY <1>2, <2>2
    <3> HIDE DEF q
    <3>3. QED
      BY <1>3, <3>1, <3>2
  <2>3. QED
    BY <2>1, <2>2
<1>9. "jniLocalRefTable" \notin HeadNames(b) /\ "jniLocalRefTable" \notin JitNames
  BY DEF HeadNames, SteadyNames, HandlerTables, JitNames
<1> HIDE DEF j, q
<1>10. IsLayout(o) /\ NamesOf(o) = {"jniLocalRefTable"}
  BY <1>1, OneRow
<1>11. AlignUp(p, 4) = p
  BY <1>2 DEF AlignUp
<1>12. "jniLocalRefTable" \notin NamesOf(q)
  BY <1>6, <1>7, <1>9
<1>13. OffsetOf(q \o o, "jniLocalRefTable") = AlignUp(End(q), table.align)
  BY <1>1, <1>7, <1>12, FoundOne
<1>14. IsLayout(q \o o) /\ NamesOf(q \o o) = NamesOf(q) \cup NamesOf(o)
  BY <1>7, <1>10, Joined
<1>15. End(q \o o) = AlignUp(End(q), table.align) + table.size
  BY <1>1, <1>7, AddOne
<1>16. End(q \o o) = p + 20 /\ OffsetOf(q \o o, "jniLocalRefTable") = p
  BY <1>1, <1>2, <1>8, <1>11, <1>13, <1>15
<1>17. NamesOf(q \o o) \subseteq TableNames(b) /\ "jniLocalRefTable" \in NamesOf(q \o o)
  BY <1>6, <1>7, <1>9, <1>10, <1>14 DEF TableNames
<1>18. QED
  BY <1>2, <1>3, <1>4, <1>6, <1>7, <1>10, <1>14, <1>16, <1>17 DEF p, q, h, j, o, table

(* The members of a thread after its head. *)
RestNames ==
  JitNames \cup {"jniLocalRefTable"} \cup TraceNames \cup WaitingNames \cup TailNames \cup {"status"}

(* A thread, what its table is preceded by, and its status. *)
LEMMA ThreadMembers ==
  ASSUME NEW b \in Builds
  PROVE  /\ \A name \in NamesOf(UptoTable(b)) :
              OffsetOf(Thread(b), name) = OffsetOf(UptoTable(b), name)
         /\ OffsetOf(Thread(b), "status") =
              IF b.jit THEN IF b.selfVerification THEN TablePlace(b) + 692 ELSE TablePlace(b) + 688
              ELSE TablePlace(b) + 20
         /\ StructType(Thread(b)).size >= OffsetOf(Thread(b), "status") + 20
         /\ StructType(Thread(b)).size \in Nat
         /\ IsLayout(If(b.jit, ThreadTrace(b))) /\ IsLayout(ThreadWaiting)
         /\ IsLayout(ThreadTail(b)) /\ Len(Thread(b)) # 0
         /\ NamesOf(Thread(b)) \subseteq HeadNames(b) \cup RestNames
<1> DEFINE u == UptoTable(b)
           t == If(b.jit, ThreadTrace(b))
           w == ThreadWaiting
           a == ThreadTail(b)
           p == TablePlace(b)
           d == p + 20
           s == IF b.jit THEN IF b.selfVerification THEN p + 692 ELSE p + 688 ELSE d
           q1 == u \o t
           q2 == q1 \o w
           q3 == q2 \o a
           others == TraceNames \cup WaitingNames \cup TailNames \cup {"status"}
<1>1. Thread(b) = q3
  BY DEF Thread, UptoTable
<1>2. /\ IsLayout(u) /\ End(u) = d /\ NamesOf(u) \subseteq TableNames(b)
      /\ d \in Nat /\ d % 4 = 0 /\ p \in Nat /\ p % 4 = 0
  BY TableMembers
<1>3. TableNames(b) \cap others = {}
  <2>1. HeadNames(b) \cap others = {}
    BY DEF HeadNames, SteadyNames, HandlerTables, TraceNames, WaitingNames, TailNames
  <2>2. JitNames \cap others = {}
    BY DEF JitNames, TraceNames, WaitingNames, TailNames
  <2>3. "jniLocalRefTable" \notin others
    BY DEF TraceNames, WaitingNames, TailNames
  <2>4. QED
    BY <2>1, <2>2, <2>3 DEF TableNames
<1>4. "status" \notin TraceNames /\ "status" \notin TailNames
  BY DEF TraceNames, TailNames
<1> HIDE DEF u, d
<1>5. /\ IsLayout(ThreadTrace(b)) /\ NamesOf(ThreadTrace(b)) \subseteq TraceNames
      /\ End(u \o ThreadTrace(b)) = (IF b.selfVerification THEN d + 672 ELSE d + 668)
  BY <1>2, TraceMembers
<1>6. IsLayout(t) /\ NamesOf(t) \subseteq TraceNames
  BY <1>5, Chosen
<1>7. IsLayout(q1) /\ NamesOf(q1) = NamesOf(u) \cup NamesOf(t)
  BY <1>2, <1>6, Joined
<1>8. End(q1) = s
  <2>1. CASE b.jit
    <3>1. q1 = u \o ThreadTrace(b)
      BY <2>1 DEF If
    <3>2. s = (IF b.selfVerification THEN p + 692 ELSE p + 688)
      BY <2>1
    <3> HIDE DEF q1, s, p
    <3>3. d = p + 20
      BY DEF d, p
    <3>4. QED
      BY <1>2, <1>5, <3>1, <3>2, <3>3
  <2>2. CASE ~b.jit
    <3>1. q1 = u
      BY <1>2, <2>2, Nothing DEF If
    <3>2. s = d
      BY <2>2
    <3> HIDE DEF q1, s
    <3>3. QED
      BY <1>2, <3>1, <3>2
  <2>3. QED
    BY <2>1, <2>2
<1>9. s \in Nat /\ s % 4 = 0
  <2>1. d = p + 20
    BY DEF d
  <2> HIDE DEF p
  <2>2. QED
    BY <1>2, <2>1
<1> HIDE DEF t, q1, s
<1>10. "status" \notin NamesOf(q1)
  BY <1>2, <1>3, <1>4, <1>6, <1>7
<1>11. /\ IsLayout(w) /\ NamesOf(w) = WaitingNames \cup {"status"}
       /\ OffsetOf(q1 \o w, "status") = s
       /\ IsLayout(q1 \o w) /\ End(q1 \o w) >= s + 20
  BY <1>7, <1>8, <1>9, <1>10, WaitingMembers
<1> HIDE DEF w
<1>12. IsLayout(q2) /\ NamesOf(q2) = NamesOf(q1) \cup NamesOf(w)
  BY <1>7, <1>11, Joined
<1>13. OffsetOf(q2, "status") = s /\ End(q2) >= s + 20
  BY <1>11
<1>14. IsLayout(a) /\ NamesOf(a) \subseteq TailNames
  BY TailMembers
<1> HIDE DEF q2, a
<1>15. /\ IsLayout(q3) /\ Len(q3) = Len(q2) + Len(a) /\ Len(q2) \in Nat /\ Len(a) \in Nat
       /\ DOMAIN q2 = 1..Len(q2)
  BY <1>12, <1>14, Joined
<1>16. OffsetOf(q3, "status") = s
  <2>1. "status" \in NamesOf(q2) /\ "status" \notin NamesOf(a)
    BY <1>4, <1>11, <1>12, <1>14
  <2>2. QED
    BY <1>12, <1>13, <1>14, <2>1, FoundBefore
<1>17. StructType(q3).size >= s + 20 /\ StructType(q3).size \in Nat /\ Len(q3) # 0
  <2>1. End(q3) >= End(q2) /\ End(q3) \in Nat /\ End(q2) \in Nat
    BY <1>12, <1>14, EndsGrow
  <2>2. Len(q3) # 0
    <3>1. "status" \in NamesOf(q2)
      BY <1>11, <1>12
    <3>2. DOMAIN q2 # {}
      BY <3>1 DEF NamesOf
    <3>3. Len(q2) # 0
      BY <1>15, <3>2
    <3> HIDE DEF q3
    <3>4. QED
      BY <1>15, <3>3
  <2> HIDE DEF q3
  <2>3. StructType(q3).size >= End(q3) /\ StructType(q3) \in Types
    BY <1>15, <2>2, SomeStruct
  <2>4. StructType(q3).size \in Nat
    BY <2>3 DEF Types
  <2>5. QED
    BY <1>9, <1>13, <2>1, <2>2, <2>3, <2>4
<1>18. ASSUME NEW name \in NamesOf(u) PROVE OffsetOf(q3, name) = OffsetOf(u, name)
  <2>1. /\ name \notin NamesOf(t) /\ name \notin NamesOf(w) /\ name \notin NamesOf(a)
    BY <1>2, <1>3, <1>6, <1>11, <1>14
  <2>2. name \in NamesOf(q1) /\ name \in NamesOf(q2)
    BY <1>7, <1>12
  <2>3. OffsetOf(q1, name) = OffsetOf(u, name)
    BY <1>2, <1>6, <2>1, FoundBefore DEF q1
  <2>4. OffsetOf(q2, name) = OffsetOf(q1, name)
    BY <1>7, <1>11, <2>1, <2>2, FoundBefore DEF q2
  <2>5. OffsetOf(q3, name) = OffsetOf(q2, name)
    BY <1>12, <1>14, <2>1, <2>2, FoundBefore
  <2>6. QED
    BY <2>3, <2>4, <2>5
<1> HIDE DEF q3
<1>19. NamesOf(q3) \subseteq HeadNames(b) \cup RestNames
  <2>1. NamesOf(q3) = NamesOf(q2) \cup NamesOf(a)
    BY <1>12, <1>14, Joined DEF q3
  <2>2. QED
    BY <1>2, <1>6, <1>7, <1>11, <1>12, <1>14, <2>1 DEF TableNames, RestNames
<1>20. s = (IF b.jit THEN IF b.selfVerification THEN TablePlace(b) + 692 ELSE TablePlace(b) + 688
            ELSE TablePlace(b) + 20)
  BY DEF s, d
<1>21. \A name \in NamesOf(UptoTable(b)) : OffsetOf(q3, name) = OffsetOf(UptoTable(b), name)
  BY <1>18 DEF u
<1>22. QED
  BY <1>1, <1>6, <1>11, <1>14, <1>16, <1>17, <1>20, <1>21, <1>19 DEF t, w, a

(* The header of an object. *)
LEMMA ObjectHeader ==
  /\ IsLayout(Object) /\ End(Object) = 8 /\ NamesOf(Object) = {"clazz", "lock"}
  /\ StructType(Object).size = 8 /\ Len(Object) # 0
<1> DEFINE names == <<"clazz", "lock">>
<1>1. DOMAIN names = 1..Len(names) /\ Len(names) \in Nat \ {0} /\ 4 * Len(names) = 8
  OBVIOUS
<1>2. NamesOf(Object) = {"clazz", "lock"}
  BY DEF NamesOf, Words, Several, Object
<1>3. Object = Words(names)
  BY DEF Object
<1> HIDE DEF names
<1>4. QED
  BY <1>1, <1>2, <1>3, WordsRow

(* The first field of a string. *)
LEMMA StringField == OffsetOf(StringObject, "instanceData") = 8
<1> DEFINE names == <<"instanceData">>
           k == 1
<1>1. /\ DOMAIN names = 1..Len(names) /\ Len(names) \in Nat \ {0}
      /\ k \in 1..Len(names) /\ names[k] = "instanceData" /\ (k - 1) * 4 = 0
      /\ \A i \in 1..Len(names) : names[i] = names[k] => i = k
  OBVIOUS
<1>2. StringObject = Object \o Words(names)
  BY DEF StringObject
<1> HIDE DEF names, k
<1>3. names[k] \notin NamesOf(Object)
  BY <1>1, ObjectHeader
<1>4. OffsetOf(Object \o Words(names), names[k]) = AlignUp(End(Object), 4) + (k - 1) * 4
  BY <1>1, <1>3, ObjectHeader, FoundWord
<1>5. AlignUp(8, 4) = 8
  BY DEF AlignUp
<1>6. QED
  BY <1>1, <1>2, <1>4, <1>5, ObjectHeader

(* The tag of an array. *)
LEMMA ArrayMembers ==
  ASSUME NEW b \in Builds, b.taint
  PROVE  "taint" \in NamesOf(ArrayObject(b))
<1> DEFINE names == <<"length">>
           long == Eight(b)
           o == One("taint", Taint)
           q1 == Object \o Words(names)
           q2 == q1 \o o
           c == One("contents", long)
<1>1. DOMAIN names = 1..Len(names) /\ Len(names) \in Nat \ {0}
  OBVIOUS
<1>2. ArrayObject(b) = q2 \o c
  BY DEF ArrayObject, If
<1>3. IsLayout(o) /\ NamesOf(o) = {"taint"}
  BY Scalars, OneRow
<1>4. IsLayout(c)
  BY Scalars, OneRow
<1> HIDE DEF names, long
<1>5. IsLayout(q1)
  BY <1>1, ObjectHeader, AddNames
<1> HIDE DEF q1, o, c
<1>6. IsLayout(q2) /\ NamesOf(q2) = NamesOf(q1) \cup NamesOf(o)
  BY <1>3, <1>5, Joined
<1> HIDE DEF q2
<1>7. NamesOf(q2 \o c) = NamesOf(q2) \cup NamesOf(c)
  BY <1>4, <1>6, Joined
<1>8. QED
  BY <1>2, <1>3, <1>6, <1>7

-----------------------------------------------------------------------------
(* The walk. *)

(* From the kind of the table on, the walk is on a machine as the library   *)
(* was built for; a walk that has strayed is not.                           *)
WalkInv ==
  /\ vm \in Builds
  /\ access \in {"segmentState", "table_", "obj", "instanceData", "tag", "native", "done"} =>
       vm.taint /\ vm.jit
  /\ access = "astray" => ~(vm.taint /\ vm.jit)

(* The build of the library. *)
LEMMA Library ==
  ASSUME vm \in Builds
  PROVE  /\ App \in Builds /\ App.taint = TRUE /\ App.jit = TRUE /\ App.eabi = vm.eabi
         /\ App.selfVerification = FALSE
         /\ vm.taint \in BOOLEAN /\ vm.jit \in BOOLEAN /\ vm.eabi \in BOOLEAN
BY DEF App, Builds

(* Where the library takes the reference table to be. *)
LEMMA LibraryTable ==
  ASSUME vm \in Builds
  PROVE  TablePlace(App) = IF vm.eabi THEN 176 ELSE 172
<1>1. Broke(App) = IF vm.eabi THEN 56 ELSE 52
  BY Library DEF Broke
<1>2. TablePlace(App) = Broke(App) + 120
  BY Library DEF TablePlace
<1>3. QED
  BY <1>1, <1>2, Library

(* The reference table has its place exactly on such machines. *)
LEMMA SameTable ==
  ASSUME vm \in Builds, NEW name, OffsetOf(IndirectRefTable, name) \in Nat
  PROVE  (TableMember(App, name) = TableMember(vm, name)) <=> vm.taint /\ vm.jit
<1>1. /\ OffsetOf(Thread(App), "jniLocalRefTable") = TablePlace(App)
      /\ OffsetOf(Thread(vm), "jniLocalRefTable") = TablePlace(vm)
      /\ TablePlace(App) \in Nat /\ TablePlace(vm) \in Nat
  BY Library, TableMembers, ThreadMembers
<1>2. TablePlace(App) = IF vm.eabi THEN 176 ELSE 172
  BY LibraryTable
<1>3. TablePlace(vm) = IF vm.eabi
                         THEN IF vm.taint THEN IF vm.jit THEN 176 ELSE 108
                              ELSE IF vm.jit THEN 168 ELSE 100
                         ELSE IF vm.taint THEN IF vm.jit THEN 172 ELSE 104
                              ELSE IF vm.jit THEN 168 ELSE 100
  BY Library DEF TablePlace, Broke
<1>4. (TablePlace(App) = TablePlace(vm)) <=> vm.taint /\ vm.jit
  BY <1>2, <1>3, Library
<1>5. QED
  BY <1>1, <1>4 DEF TableMember

(* The kind of a table has a place. *)
LEMMA KindPlace == OffsetOf(IndirectRefTable, "kind_") \in Nat
<1> DEFINE names == <<"segmentState", "table_", "kind_", "alloc_entries_", "max_entries_">>
           k == 3
<1>1. /\ DOMAIN names = 1..Len(names) /\ Len(names) \in Nat \ {0}
      /\ k \in 1..Len(names) /\ names[k] = "kind_" /\ (k - 1) * 4 = 8
      /\ \A i \in 1..Len(names) : names[i] = names[k] => i = k
  OBVIOUS
<1>2. IndirectRefTable = Words(names)
  BY DEF IndirectRefTable
<1> HIDE DEF names, k
<1>3. PICK e : /\ IsLayout(e) /\ End(e) = 0 /\ NamesOf(e) = {}
               /\ \A r : IsLayout(r) => e \o r = r
  BY Nothing
<1>4. OffsetOf(e \o Words(names), names[k]) = AlignUp(End(e), 4) + (k - 1) * 4
  BY <1>1, <1>3, FoundWord
<1>5. e \o Words(names) = Words(names)
  BY <1>1, <1>3, WordsRow
<1>6. AlignUp(0, 4) = 0
  BY DEF AlignUp
<1>7. QED
  BY <1>1, <1>2, <1>3, <1>4, <1>5, <1>6

(* The status of the thread is read inside of the thread there. *)
LEMMA StatusIsInside == ASSUME vm \in Builds, vm.taint, vm.jit PROVE StatusInside
<1>1. OffsetOf(Thread(App), "status") = TablePlace(App) + 688
  BY Library, ThreadMembers
<1>2. /\ OffsetOf(Thread(vm), "status") =
           (IF vm.selfVerification THEN TablePlace(vm) + 692 ELSE TablePlace(vm) + 688)
      /\ StructType(Thread(vm)).size >= OffsetOf(Thread(vm), "status") + 20
  BY ThreadMembers
<1>3. TablePlace(App) = TablePlace(vm) /\ TablePlace(vm) \in {176, 172}
  <2>1. TablePlace(vm) = IF vm.eabi THEN 176 ELSE 172
    BY Library DEF TablePlace, Broke
  <2>2. QED
    BY <2>1, LibraryTable, Library
<1>4. Word.size = 4
  BY DEF Word, Scalar
<1>5. QED
  <2> DEFINE size == StructType(Thread(vm)).size
             p == TablePlace(vm)
  <2>1. size >= p + 708 \/ size >= p + 712
    BY <1>2, <1>3
  <2>2. size \in Nat
    BY ThreadMembers
  <2> HIDE DEF size, p
  <2>3. p \in {176, 172}
    BY <1>3 DEF p
  <2>4. p + 688 + 4 <= size
    BY <2>1, <2>2, <2>3
  <2>5. QED
    BY <1>1, <1>3, <1>4, <2>4 DEF StatusInside, size, p

LEMMA WalkStart == InitWalk => WalkInv
BY DEF InitWalk, WalkInv

LEMMA WalkStep == WalkInv /\ [NextWalk]_walkVars => WalkInv'
<1> SUFFICES ASSUME WalkInv, [NextWalk]_walkVars PROVE WalkInv'
  OBVIOUS
<1> DEFINE Alike == vm.taint /\ vm.jit
<1>1. vm \in Builds /\ vm.taint \in BOOLEAN /\ vm.jit \in BOOLEAN
  BY Library DEF WalkInv
<1>2. CASE Self
  <2>1. "self" \in NamesOf(JNIEnvExt)
    BY DEF NamesOf, JNIEnvExt, Words, Several
  <2>2. SamePlace(LAMBDA b : JNIEnvExt, "self")
    BY <2>1 DEF SamePlace
  <2>3. vm' = vm /\ access' = "running"
    BY <1>2, <2>2 DEF Self, Go
  <2>4. QED
    BY <1>1, <2>3 DEF WalkInv
<1>3. CASE Running
  <2>1. vm' = vm /\ access' \in {"kind_", "astray"} /\ (Alike => access' = "kind_")
    BY <1>1, <1>3, StatusIsInside DEF Running, Go
  <2>2. QED
    BY <1>1, <2>1 DEF WalkInv
<1>4. CASE KindOf
  <2>1. (TableMember(App, "kind_") = TableMember(vm, "kind_")) <=> Alike
    BY <1>1, SameTable, KindPlace
  <2>2. /\ vm' = vm
        /\ Alike => access' = "segmentState"
        /\ ~Alike => access' = "astray"
    BY <1>4, <2>1 DEF KindOf, ReadTable, Go
  <2>3. QED
    BY <1>1, <2>2 DEF WalkInv
<1>5. ASSUME Alike PROVE OffsetOf(Thread(App), "jniLocalRefTable")
                           = OffsetOf(Thread(vm), "jniLocalRefTable")
  <2>1. /\ OffsetOf(Thread(App), "jniLocalRefTable") = TablePlace(App)
        /\ OffsetOf(Thread(vm), "jniLocalRefTable") = TablePlace(vm)
    BY <1>1, Library, TableMembers, ThreadMembers
  <2>2. TablePlace(App) = TablePlace(vm)
    BY <1>1, <1>5, Library DEF TablePlace, Broke
  <2>3. QED
    BY <2>1, <2>2
<1>6. ASSUME access \in {"segmentState", "table_", "obj", "instanceData", "tag", "native"},
             vm' = vm, access' \in {"table_", "obj", "instanceData", "tag", "native", "done"}
      PROVE  WalkInv'
  BY <1>1, <1>6 DEF WalkInv
<1>7. CASE Segment
  <2>1. Alike /\ access = "segmentState"
    BY <1>7 DEF Segment, ReadTable, Go, WalkInv
  <2>2. TableMember(App, "segmentState") = TableMember(vm, "segmentState")
    BY <1>5, <2>1 DEF TableMember
  <2>3. vm' = vm /\ access' = "table_"
    BY <1>7, <2>2 DEF Segment, ReadTable, Go
  <2>4. QED
    BY <1>6, <2>1, <2>3
<1>8. CASE Table
  <2>1. Alike /\ access = "table_"
    BY <1>8 DEF Table, ReadTable, Go, WalkInv
  <2>2. TableMember(App, "table_") = TableMember(vm, "table_")
    BY <1>5, <2>1 DEF TableMember
  <2>3. vm' = vm /\ access' = "obj"
    BY <1>8, <2>2 DEF Table, ReadTable, Go
  <2>4. QED
    BY <1>6, <2>1, <2>3
<1>9. CASE Slot
  <2>1. "obj" \in NamesOf(IndirectRefSlot)
    BY DEF NamesOf, IndirectRefSlot, Words, Several
  <2>2. SamePlace(LAMBDA b : IndirectRefSlot, "obj")
    BY <2>1 DEF SamePlace
  <2>3. access = "obj" /\ vm' = vm /\ access' = "instanceData"
    BY <1>9, <2>2 DEF Slot, Go
  <2>4. QED
    BY <1>6, <2>3
<1>10. CASE Array
  <2>1. access = "instanceData" /\ vm' = vm /\ access' = "tag"
    BY <1>10, StringField DEF Array, Go
  <2>2. QED
    BY <1>6, <2>1
<1>11. CASE Tag
  <2>1. Alike /\ access = "tag"
    BY <1>11 DEF Tag, Go, WalkInv
  <2>2. ArrayObject(App) = ArrayObject(vm)
    BY <1>1, <2>1, Library DEF ArrayObject, Eight
  <2>3. "taint" \in NamesOf(ArrayObject(vm))
    BY <1>1, <2>1, ArrayMembers
  <2>4. SamePlace(ArrayObject, "taint")
    BY <2>2, <2>3 DEF SamePlace
  <2>5. vm' = vm /\ access' = "native"
    BY <1>11, <2>4 DEF Tag, Go
  <2>6. QED
    BY <1>6, <2>1, <2>5
<1>12. CASE Native
  <2>1. Alike /\ access = "native"
    BY <1>12 DEF Native, Go, WalkInv
  <2>2. vm' = vm /\ access' = "done"
    BY <1>1, <1>12, <2>1, StatusIsInside DEF Native, Go
  <2>3. QED
    BY <1>6, <2>1, <2>2
<1>13. CASE UNCHANGED walkVars
  BY <1>13 DEF walkVars, WalkInv
<1>14. QED
  BY <1>2, <1>3, <1>4, <1>7, <1>8, <1>9, <1>10, <1>11, <1>12, <1>13 DEF NextWalk

(* WalkInv is an invariant. *)
LEMMA Walks == WalkSpec => []WalkInv
BY WalkStart, WalkStep, PTL DEF WalkSpec

(* untaint's store of TAINT_CLEAR is reached only on machines with          *)
(* TaintDroid and the JIT, whatever else they were built with, and on those *)
(* no access on the way to it (Thread.h, IndirectRefTable.h, Object.h) goes *)
(* astray.                                                                  *)
THEOREM TagReached == WalkSpec => []ReachesTag
<1>1. WalkInv => ReachesTag
  BY DEF WalkInv, ReachesTag
<1>2. QED
  BY <1>1, Walks, PTL

-----------------------------------------------------------------------------
(* KeptOffsets: threads whose members differ only in what stands in.        *)

HandlerNames == {"mainHandlerTable", "altHandlerTable", "unused0", "unused1"}

(* Structures that have members of the same types, one by one, and of the   *)
(* same names, handler tables and their stand-ins apart.                    *)
Twins(m, r) ==
  /\ IsLayout(m) /\ IsLayout(r) /\ Len(m) = Len(r)
  /\ \A k \in 1..Len(m) :
       /\ m[k].type = r[k].type
       /\ m[k].name = r[k].name \/ {m[k].name, r[k].name} \subseteq HandlerNames

LEMMA TwinsJoin ==
  ASSUME NEW m, NEW r, Twins(m, r), NEW x, NEW y, Twins(x, y)
  PROVE  Twins(m \o x, r \o y)
<1>1. IsLayout(m) /\ IsLayout(r) /\ IsLayout(x) /\ IsLayout(y) /\ Len(m) = Len(r) /\ Len(x) = Len(y)
  BY DEF Twins
<1> DEFINE p == m \o x
           q == r \o y
<1>2. /\ IsLayout(p) /\ Len(p) = Len(m) + Len(x) /\ Len(m) \in Nat /\ Len(x) \in Nat
      /\ \A k \in 1..Len(m) : p[k] = m[k]
      /\ \A k \in 1..Len(x) : p[Len(m) + k] = x[k]
  BY <1>1, Joined
<1>3. /\ IsLayout(q) /\ Len(q) = Len(m) + Len(x)
      /\ \A k \in 1..Len(m) : q[k] = r[k]
      /\ \A k \in 1..Len(x) : q[Len(m) + k] = y[k]
  BY <1>1, Joined
<1> HIDE DEF p, q
<1>4. ASSUME NEW k \in 1..Len(p)
      PROVE  /\ p[k].type = q[k].type
             /\ p[k].name = q[k].name \/ {p[k].name, q[k].name} \subseteq HandlerNames
  <2>1. CASE k \in 1..Len(m)
    BY <1>2, <1>3, <2>1 DEF Twins
  <2>2. CASE k \notin 1..Len(m)
    <3>1. k - Len(m) \in 1..Len(x) /\ Len(m) + (k - Len(m)) = k
      BY <1>2, <2>2
    <3>2. p[k] = x[k - Len(m)] /\ q[k] = y[k - Len(m)]
      BY <1>2, <1>3, <3>1
    <3>3. QED
      BY <3>1, <3>2 DEF Twins
  <2>3. QED
    BY <2>1, <2>2
<1>5. QED
  BY <1>2, <1>3, <1>4 DEF Twins, p, q

(* They have the same layout.                                               *)
LEMMA TwinsEnd ==
  ASSUME NEW m, NEW r, Twins(m, r)
  PROVE  \A k \in 0..Len(m) : EndsOf(m)[k] = EndsOf(r)[k]
<1> DEFINE n == Len(m)
           S == {k \in 0..n : EndsOf(m)[k] = EndsOf(r)[k]}
<1>1. IsLayout(m) /\ IsLayout(r) /\ Len(r) = n /\ n \in Nat
  BY Nothing, EndsGrow DEF Twins, IsLayout
<1>2. /\ EndsOf(m)[0] = 0 /\ EndsOf(r)[0] = 0
      /\ \A k \in 1..n : EndsOf(m)[k] = AlignUp(EndsOf(m)[k - 1], m[k].type.align) + m[k].type.size
      /\ \A k \in 1..n : EndsOf(r)[k] = AlignUp(EndsOf(r)[k - 1], r[k].type.align) + r[k].type.size
  BY <1>1, Ends
<1>3. \A k \in 1..n : m[k].type = r[k].type
  BY DEF Twins
<1> HIDE DEF n
<1>4. S \subseteq 0..n /\ 0 \in S
  BY <1>1, <1>2
<1>5. ASSUME NEW k \in 0..n - 1, k \in S PROVE k + 1 \in S
  <2>1. k + 1 \in 1..n /\ k + 1 - 1 = k /\ k + 1 \in 0..n
    BY <1>1
  <2>2. EndsOf(m)[k] = EndsOf(r)[k]
    BY <1>5
  <2>3. EndsOf(m)[k + 1] = EndsOf(r)[k + 1]
    BY <1>2, <1>3, <2>1, <2>2
  <2>4. QED
    BY <2>1, <2>3
<1> HIDE DEF S
<1>6. S = 0..n
  BY <1>1, <1>4, <1>5, Upwards
<1>7. QED
  BY <1>6 DEF S, n

LEMMA TwinsLaid ==
  ASSUME NEW m, NEW r, Twins(m, r)
  PROVE  /\ StructType(m).size = StructType(r).size
         /\ \A name \in NamesOf(m) \ HandlerNames : OffsetOf(m, name) = OffsetOf(r, name)
<1>1. /\ IsLayout(m) /\ IsLayout(r) /\ Len(r) = Len(m) /\ Len(m) \in Nat
      /\ DOMAIN m = 1..Len(m) /\ DOMAIN r = 1..Len(m)
  BY DEF Twins, IsLayout
<1>2. \A k \in 0..Len(m) : EndsOf(m)[k] = EndsOf(r)[k]
  BY TwinsEnd
<1>3. \A k \in 1..Len(m) : m[k].type = r[k].type
  BY DEF Twins
<1>4. {m[k].type.align : k \in DOMAIN m} = {r[k].type.align : k \in DOMAIN r}
  BY <1>1, <1>3
<1>5. StructType(m).size = StructType(r).size
  <2>1. EndsOf(m)[Len(m)] = EndsOf(r)[Len(r)]
    BY <1>1, <1>2
  <2>2. QED
    BY <1>4, <2>1 DEF StructType
<1>6. ASSUME NEW name \in NamesOf(m) \ HandlerNames PROVE OffsetOf(m, name) = OffsetOf(r, name)
  <2> DEFINE At(p) == CHOOSE k \in DOMAIN p : p[k].name = name
  <2>1. \A k \in DOMAIN m : m[k].name = name <=> r[k].name = name
    BY <1>1, <1>6 DEF Twins
  <2>2. At(m) = At(r)
    BY <1>1, <2>1
  <2>3. \A k \in DOMAIN m : Start(m, k) = Start(r, k)
    <3>1. \A k \in DOMAIN m : k - 1 \in 0..Len(m)
      BY <1>1
    <3>2. QED
      BY <1>1, <1>2, <1>3, <3>1 DEF Start
  <2>4. At(m) \in DOMAIN m
    BY DEF NamesOf
  <2>5. OffsetOf(m, name) = Start(m, At(m)) /\ OffsetOf(r, name) = Start(r, At(r))
    BY DEF OffsetOf
  <2> HIDE DEF At
  <2>6. QED
    BY <2>2, <2>3, <2>4, <2>5
<1>7. QED
  BY <1>5, <1>6

(* Threads of builds that differ at most in the three flags.                *)
LEMMA SameThread ==
  ASSUME NEW b \in Builds, NEW c \in Builds, b.taint = c.taint, b.jit = c.jit, b.eabi = c.eabi
  PROVE  /\ Twins(ThreadHead(b), ThreadHead(c))
         /\ b.asmInterp = c.asmInterp => ThreadHead(b) = ThreadHead(c)
         /\ If(b.jit, ThreadJit(b)) = If(c.jit, ThreadJit(c))
         /\ b.selfVerification = c.selfVerification =>
              If(b.jit, ThreadTrace(b)) = If(c.jit, ThreadTrace(c))
         /\ b.jniStackCheck = c.jniStackCheck /\ b.ia32 = c.ia32 => ThreadTail(b) = ThreadTail(c)
<1> DEFINE l == <<"singleStepCount">>
           s == HandlerTables(b)
           t == HandlerTables(c)
<1>1. Eight(b) = Eight(c)
  BY DEF Eight
<1>2. JValue(b) = JValue(c)
  BY <1>1 DEF JValue
<1>3. StructType(InterpSaveState(b)) = StructType(InterpSaveState(c))
  BY SaveState
<1>4. InterpBreak(b) = InterpBreak(c)
  BY Broken
<1>5. BeforeTables(b) = BeforeTables(c)
  BY <1>3, <1>4 DEF BeforeTables
<1>6. /\ ThreadHead(b) = (BeforeTables(b) \o Words(s)) \o Words(l)
      /\ ThreadHead(c) = (BeforeTables(b) \o Words(t)) \o Words(l)
  <2>1. ThreadHead(b) = (BeforeTables(b) \o Words(s)) \o Words(l)
    BY DEF ThreadHead, BeforeTables, HandlerTables
  <2>2. ThreadHead(c) = (BeforeTables(c) \o Words(t)) \o Words(l)
    BY DEF ThreadHead, BeforeTables, HandlerTables
  <2>3. QED
    BY <1>5, <2>1, <2>2
<1>7. Twins(Words(s), Words(t))
  <2>1. /\ IsLayout(Words(s)) /\ IsLayout(Words(t))
        /\ DOMAIN s = 1..2 /\ DOMAIN t = 1..2 /\ Len(s) = 2 /\ Len(t) = 2
    BY TwoTables
  <2>2. {s[1], s[2], t[1], t[2]} \subseteq HandlerNames
    BY DEF HandlerTables, HandlerNames
  <2> HIDE DEF s, t
  <2>3. /\ Words(s) = [k \in 1..2 |-> [name |-> s[k], type |-> Word]]
        /\ Words(t) = [k \in 1..2 |-> [name |-> t[k], type |-> Word]]
    BY <2>1 DEF Words, Several
  <2>4. Len(Words(s)) = 2 /\ Len(Words(t)) = 2
    BY <2>3
  <2>5. \A k \in 1..2 : {s[k], t[k]} \subseteq HandlerNames
    BY <2>2
  <2>6. QED
    BY <2>1, <2>3, <2>4, <2>5 DEF Twins
<1>8. \A m : IsLayout(m) => Twins(m, m)
  BY DEF Twins
<1>9. IsLayout(BeforeTables(b)) /\ IsLayout(Words(l))
  <2>1. DOMAIN l = 1..Len(l) /\ Len(l) \in Nat \ {0}
    OBVIOUS
  <2> HIDE DEF l
  <2>2. QED
    BY <2>1, BeforeMembers, WordsRow
<1>10. b.asmInterp = c.asmInterp => ThreadHead(b) = ThreadHead(c)
  <2>1. b.asmInterp = c.asmInterp => s = t
    BY DEF HandlerTables
  <2> HIDE DEF s, t, l
  <2>2. QED
    BY <1>6, <2>1
<1> HIDE DEF s, t, l
<1>11. Twins(ThreadHead(b), ThreadHead(c))
  <2>1. Twins(BeforeTables(b) \o Words(s), BeforeTables(b) \o Words(t))
    BY <1>7, <1>8, <1>9, TwinsJoin
  <2>2. QED
    BY <1>6, <1>8, <1>9, <2>1, TwinsJoin
<1>12. If(b.jit, ThreadJit(b)) = If(c.jit, ThreadJit(c))
  <2>1. StructType(JitToInterpEntries(b)) = StructType(JitToInterpEntries(c))
    <3>1. PICK e : IsLayout(e) /\ End(e) = 0
      BY Nothing
    <3>2. 0 \in Nat /\ 0 % 4 = 0
      OBVIOUS
    <3>3. \A d \in Builds : StructType(JitToInterpEntries(d)) = [size |-> 24, align |-> 4]
      BY <3>1, <3>2, JitMembers
    <3>4. QED
      BY <3>3
  <2>2. QED
    BY <2>1 DEF If, ThreadJit
<1>13. b.selfVerification = c.selfVerification =>
         If(b.jit, ThreadTrace(b)) = If(c.jit, ThreadTrace(c))
  BY DEF If, ThreadTrace
<1>14. DebugInvokeReq(b) = DebugInvokeReq(c) /\ AllocProfState(b) = AllocProfState(c)
  BY <1>1, <1>2 DEF DebugInvokeReq, AllocProfState
<1>15. b.jniStackCheck = c.jniStackCheck /\ b.ia32 = c.ia32 => ThreadTail(b) = ThreadTail(c)
  BY <1>1, <1>14 DEF ThreadTail
<1>16. QED
  BY <1>10, <1>11, <1>12, <1>13, <1>15

(* Builds that differ in the assembly interpreter have twin threads.        *)
LEMMA TwinThreads ==
  ASSUME NEW b \in Builds, NEW c \in Builds, b.taint = c.taint, b.jit = c.jit, b.eabi = c.eabi,
         b.selfVerification = c.selfVerification, b.jniStackCheck = c.jniStackCheck,
         b.ia32 = c.ia32
  PROVE  Twins(Thread(b), Thread(c))
<1> DEFINE h == ThreadHead(b)
           g == ThreadHead(c)
           j == If(b.jit, ThreadJit(b))
           o == One("jniLocalRefTable", StructType(IndirectRefTable))
           t == If(b.jit, ThreadTrace(b))
           w == ThreadWaiting
           a == ThreadTail(b)
<1>1. /\ Thread(b) = ((((h \o j) \o o) \o t) \o w) \o a
      /\ Thread(c) = ((((g \o j) \o o) \o t) \o w) \o a
  <2>1. /\ j = If(c.jit, ThreadJit(c)) /\ t = If(c.jit, ThreadTrace(c)) /\ a = ThreadTail(c)
    BY SameThread
  <2>2. Thread(b) = ((((h \o j) \o o) \o t) \o w) \o a
    BY DEF Thread
  <2>3. Thread(c) = ((((g \o If(c.jit, ThreadJit(c))) \o o) \o If(c.jit, ThreadTrace(c))) \o w)
                    \o ThreadTail(c)
    BY DEF Thread
  <2> HIDE DEF h, g, j, o, t, w, a
  <2>4. QED
    BY <2>1, <2>2, <2>3
<1>2. Twins(h, g)
  BY SameThread
<1>3. IsLayout(j) /\ IsLayout(o) /\ IsLayout(t) /\ IsLayout(w) /\ IsLayout(a)
  BY TableMembers, ThreadMembers
<1> HIDE DEF h, g, j, o, t, w, a
<1>4. Twins(j, j) /\ Twins(o, o) /\ Twins(t, t) /\ Twins(w, w) /\ Twins(a, a)
  BY <1>3 DEF Twins
<1>5. Twins(h \o j, g \o j)
  BY <1>2, <1>4, TwinsJoin
<1>6. Twins((h \o j) \o o, (g \o j) \o o)
  BY <1>4, <1>5, TwinsJoin
<1>7. Twins(((h \o j) \o o) \o t, ((g \o j) \o o) \o t)
  BY <1>4, <1>6, TwinsJoin
<1>8. Twins((((h \o j) \o o) \o t) \o w, (((g \o j) \o o) \o t) \o w)
  BY <1>4, <1>7, TwinsJoin
<1>9. QED
  BY <1>1, <1>4, <1>8, TwinsJoin

(* The members that stand in for those a build leaves out (Thread.h,        *)
(* InterpState.h) take the same room: the assembly interpreter and the      *)
(* checks of references move no member of a thread that both builds have,   *)
(* self verification none up to the reference table.                        *)
THEOREM OffsetsKept == WalkSpec => []KeptOffsets
<1>1. ASSUME vm \in Builds, NEW flag \in {"asmInterp", "trackRef", "selfVerification"}
      PROVE  LET c == Without(flag)
             IN  /\ c \in Builds /\ c.taint = vm.taint /\ c.jit = vm.jit /\ c.eabi = vm.eabi
                 /\ c.jniStackCheck = vm.jniStackCheck /\ c.ia32 = vm.ia32
                 /\ flag # "asmInterp" => c.asmInterp = vm.asmInterp
                 /\ flag # "selfVerification" => c.selfVerification = vm.selfVerification
                 /\ flag = "asmInterp" => c.asmInterp = ~vm.asmInterp
  BY <1>1 DEF Without, Builds
<1>2. ASSUME vm \in Builds PROVE Keeps(NamesOf(Thread(vm)), "asmInterp")
  <2> DEFINE c == Without("asmInterp")
  <2>1. /\ c \in Builds /\ c.taint = vm.taint /\ c.jit = vm.jit /\ c.eabi = vm.eabi
        /\ c.jniStackCheck = vm.jniStackCheck /\ c.ia32 = vm.ia32
        /\ c.selfVerification = vm.selfVerification /\ c.asmInterp = ~vm.asmInterp
    BY <1>1, <1>2
  <2> HIDE DEF c
  <2>2. Twins(Thread(vm), Thread(c))
    BY <1>2, <2>1, TwinThreads
  <2>3. ASSUME NEW name \in NamesOf(Thread(vm)), name \in NamesOf(Thread(c))
        PROVE  name \notin HandlerNames
    <3>1. name \in HeadNames(vm) \cup RestNames /\ name \in HeadNames(c) \cup RestNames
      BY <1>2, <2>1, <2>3, ThreadMembers
    <3>2. RestNames \cap HandlerNames = {} /\ SteadyNames \cap HandlerNames = {}
      BY DEF RestNames, JitNames, TraceNames, WaitingNames, TailNames, SteadyNames, HandlerNames
    <3>3. /\ HeadNames(vm) = SteadyNames \cup {HandlerTables(vm)[1], HandlerTables(vm)[2]}
          /\ HeadNames(c) = SteadyNames \cup {HandlerTables(c)[1], HandlerTables(c)[2]}
      BY DEF HeadNames
    <3>4. {HandlerTables(vm)[1], HandlerTables(vm)[2]} \cap {HandlerTables(c)[1], HandlerTables(c)[2]} = {}
      BY <2>1 DEF HandlerTables
    <3>5. QED
      BY <3>1, <3>2, <3>3, <3>4
  <2>4. QED
    BY <2>2, <2>3, TwinsLaid DEF Keeps, c
<1>3. ASSUME vm \in Builds PROVE Thread(Without("trackRef")) = Thread(vm)
  <2> DEFINE c == Without("trackRef")
  <2>1. /\ c \in Builds /\ c.taint = vm.taint /\ c.jit = vm.jit /\ c.eabi = vm.eabi
        /\ c.jniStackCheck = vm.jniStackCheck /\ c.ia32 = vm.ia32
        /\ c.selfVerification = vm.selfVerification /\ c.asmInterp = vm.asmInterp
    BY <1>1, <1>3
  <2> HIDE DEF c
  <2>2. /\ ThreadHead(c) = ThreadHead(vm) /\ If(c.jit, ThreadJit(c)) = If(vm.jit, ThreadJit(vm))
        /\ If(c.jit, ThreadTrace(c)) = If(vm.jit, ThreadTrace(vm))
        /\ ThreadTail(c) = ThreadTail(vm)
    BY <1>3, <2>1, SameThread
  <2>3. QED
    BY <2>2 DEF Thread, c
<1>4. ASSUME vm \in Builds
      PROVE  StructType(Thread(vm)).size = StructType(Thread(Without("asmInterp"))).size
  BY <1>1, <1>4, TwinThreads, TwinsLaid
<1>5. ASSUME vm \in Builds
      PROVE  Keeps(NamesOf(ThreadHead(vm) \o If(vm.jit, ThreadJit(vm))) \cup {"jniLocalRefTable"},
                   "selfVerification")
  <2> DEFINE c == Without("selfVerification")
             q == ThreadHead(vm) \o If(vm.jit, ThreadJit(vm))
             o == One("jniLocalRefTable", StructType(IndirectRefTable))
  <2>1. /\ c \in Builds /\ c.taint = vm.taint /\ c.jit = vm.jit /\ c.eabi = vm.eabi
        /\ c.asmInterp = vm.asmInterp
    BY <1>1, <1>5
  <2> HIDE DEF c
  <2>2. UptoTable(c) = UptoTable(vm)
    <3>1. ThreadHead(c) = ThreadHead(vm) /\ If(c.jit, ThreadJit(c)) = If(vm.jit, ThreadJit(vm))
      BY <1>5, <2>1, SameThread
    <3>2. QED
      BY <3>1 DEF UptoTable
  <2>3. NamesOf(q) \cup {"jniLocalRefTable"} \subseteq NamesOf(UptoTable(vm))
    <3>1. IsLayout(q) /\ IsLayout(o) /\ "jniLocalRefTable" \in NamesOf(UptoTable(vm))
      BY <1>5, TableMembers
    <3>2. UptoTable(vm) = q \o o
      BY DEF UptoTable
    <3> HIDE DEF q, o
    <3>3. QED
      BY <3>1, <3>2, Joined
  <2> HIDE DEF q
  <2>4. ASSUME NEW name \in NamesOf(q) \cup {"jniLocalRefTable"}
        PROVE  OffsetOf(Thread(vm), name) = OffsetOf(Thread(c), name)
    <3>1. /\ OffsetOf(Thread(vm), name) = OffsetOf(UptoTable(vm), name)
          /\ OffsetOf(Thread(c), name) = OffsetOf(UptoTable(c), name)
      BY <1>5, <2>1, <2>2, <2>3, ThreadMembers
    <3>2. QED
      BY <2>2, <3>1
  <2>5. Keeps(NamesOf(q) \cup {"jniLocalRefTable"}, "selfVerification")
    BY <2>4 DEF Keeps, c
  <2>6. QED
    BY <2>5 DEF q
<1>6. WalkInv => KeptOffsets
  <2> SUFFICES ASSUME WalkInv PROVE KeptOffsets
    OBVIOUS
  <2>1. vm \in Builds
    BY DEF WalkInv
  <2>2. /\ Keeps(NamesOf(Thread(vm)), "trackRef")
        /\ StructType(Thread(vm)).size = StructType(Thread(Without("trackRef"))).size
    BY <1>3, <2>1 DEF Keeps
  <2>3. QED
    BY <1>2, <1>4, <1>5, <2>1, <2>2 DEF KeptOffsets
<1>7. QED
  BY <1>6, Walks, PTL

=============================================================================
