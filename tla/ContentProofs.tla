---------------------------- MODULE ContentProofs ----------------------------
(***************************************************************************)
(* The content of a request, from the contact book to what is sent.         *)
(*                                                                         *)
(* ContactsReader for every set of identifiers, names and numbers and every *)
(* number of taps and edits: what getContactsAsString returns of a book     *)
(* that others edit while it is read.  Then the two conversions for every   *)
(* text, every list of symbols and every length: encodingTrick copies       *)
(* exactly the listed characters, and the request fits its array exactly    *)
(* for short contents.                                                      *)
(***************************************************************************)
EXTENDS ContactsReader, Conversions, FiniteSetTheorems, SequenceTheorems, TLAPS

-----------------------------------------------------------------------------
(* The reader. *)

Rows == [id : Ids, name : Names, hasPhoneNumber : BOOLEAN]
LineSeqs == Seq([name : Names, number : Numbers])

ReaderType == TypeOK /\ text \in Seq(LineSeqs)

RowsDistinct == \A p, k \in DOMAIN cursor : cursor[p].id = cursor[k].id => p = k

(* What a contact holds now is part of what it has had since the tap. *)
HadInv == \A id \in DOMAIN book \cap DOMAIN had : Range(book[id].numbers) \subseteq had[id]

(* A contact that nobody edited still is as its row says, and when the loop *)
(* has come by that row its lines are the contact's.                        *)
Told(id) ==
  \E k \in DOMAIN cursor :
    /\ cursor[k] = Row(id)
    /\ k <= position => text[k] = Lines(book[id].name, book[id].numbers)

KeptInv == taps > 0 => \A id \in DOMAIN book \ (touched \cup missed) : Told(id)

ReaderInv ==
  /\ ReaderType /\ RowsDistinct /\ HadInv /\ PairsBelongTogether /\ KeptInv
  /\ ~running => position = Len(cursor)

-----------------------------------------------------------------------------
(* A query answers each contact in one row. *)
LEMMA OrdersCover ==
  ASSUME NEW S, IsFiniteSet(S), NEW order \in SetToSeqs(S)
  PROVE  /\ order \in Seq(S) /\ DOMAIN order = 1..Len(order) /\ Len(order) \in Nat
         /\ \A p, k \in DOMAIN order : order[p] = order[k] => p = k
         /\ \A x \in S : \E k \in DOMAIN order : order[k] = x
<1> DEFINE n == Cardinality(S)
<1>1. n \in Nat
  BY FS_CardinalityType
<1>2. order \in [1..n -> S] /\ \A p, k \in 1..n : p # k => order[p] # order[k]
  BY DEF SetToSeqs
<1>3. order \in Seq(S) /\ Len(order) = n /\ DOMAIN order = 1..n
  BY <1>1, <1>2
<1>4. order \in Injection(1..n, S)
  BY <1>2 DEF Injection, IsInjective
<1>5. Cardinality(1..n) = n
  BY <1>1, FS_Interval
<1>6. order \in Surjection(1..n, S)
  BY <1>4, <1>5, FS_Injection
<1>7. \A x \in S : \E k \in 1..n : order[k] = x
  BY <1>6 DEF Surjection
<1>8. QED
  BY <1>1, <1>2, <1>3, <1>7

LEMMA FunctionIsSeq ==
  ASSUME NEW S, NEW n \in Nat, NEW f \in [1..n -> S]
  PROVE  f \in Seq(S) /\ Len(f) = n
OBVIOUS

LEMMA AddOne ==
  ASSUME NEW S, NEW s \in Seq(S), NEW x \in S
  PROVE  /\ Append(s, x) \in Seq(S) /\ Len(Append(s, x)) = Len(s) + 1
         /\ DOMAIN s = 1..Len(s) /\ DOMAIN Append(s, x) = 1..(Len(s) + 1)
         /\ \A k \in DOMAIN s : Append(s, x)[k] = s[k]
         /\ Append(s, x)[Len(s) + 1] = x
OBVIOUS

LEMMA ContactsAreJoined == Contacts \subseteq Joined
<1>1. UNION {[1..n -> Numbers] : n \in 0..MaxNumbers} \subseteq Seq(Numbers)
  BY ContactsReaderAssumption, SeqDef
<1>2. QED
  BY <1>1 DEF Contacts, Joined

LEMMA LinesOfContact ==
  ASSUME NEW name \in Names, NEW numbers \in Seq(Numbers)
  PROVE  /\ Lines(name, numbers) \in LineSeqs
         /\ \A line \in Range(Lines(name, numbers)) :
              line.name = name /\ line.number \in Range(numbers)
<1>1. DOMAIN numbers = 1..Len(numbers) /\ Len(numbers) \in Nat
      /\ \A k \in DOMAIN numbers : numbers[k] \in Numbers
  BY ElementOfSeq, LenProperties
<1>2. Lines(name, numbers) \in [1..Len(numbers) -> [name : Names, number : Numbers]]
  BY <1>1 DEF Lines
<1>3. Lines(name, numbers) \in LineSeqs
  BY <1>1, <1>2, FunctionIsSeq DEF LineSeqs
<1>4. QED
  BY <1>1, <1>3 DEF Lines, Range

-----------------------------------------------------------------------------
LEMMA ReaderInit == Init => ReaderInv
<1> SUFFICES ASSUME Init PROVE ReaderInv
  OBVIOUS
<1>1. DOMAIN << >> = {} /\ Len(<< >>) = 0 /\ \A S : << >> \in Seq(S)
  OBVIOUS
<1>2. TypeOK
  <2>1. book \in [DOMAIN book -> Joined] /\ DOMAIN book = used /\ used \subseteq Ids
    BY ContactsAreJoined DEF Init
  <2>2. DOMAIN had = {cursor[k].id : k \in DOMAIN cursor}
    BY <1>1 DEF Init
  <2>3. edits \in 0..MaxEdits /\ taps \in 0..MaxTaps /\ position \in 0..Len(cursor)
        /\ Len(text) = position /\ cursor \in Seq(Rows)
    BY <1>1, ContactsReaderAssumption DEF Init
  <2>4. QED
    BY <2>1, <2>2, <2>3 DEF Init, TypeOK, Rows
<1>3. QED
  BY <1>1, <1>2
  DEF Init, ReaderInv, ReaderType, RowsDistinct, HadInv, PairsBelongTogether, KeptInv

(* Whatever the provider does to `ids` is noted in the histories. *)
LEMMA EditStep ==
  ASSUME ReaderInv, NEW ids \in SUBSET Ids, NEW new, Edit(ids, new),
         used' \subseteq Ids, DOMAIN new \subseteq used', new \in [DOMAIN new -> Joined],
         \A id \in DOMAIN new \ ids : id \in DOMAIN book /\ new[id] = book[id]
  PROVE  ReaderInv'
<1>1. /\ edits < MaxEdits /\ edits' = edits + 1 /\ book' = new
      /\ touched' = touched \cup ids
      /\ DOMAIN had' = DOMAIN had
      /\ \A id \in DOMAIN had : had[id] \subseteq had'[id]
      /\ \A id \in DOMAIN had \cap DOMAIN new : Range(new[id].numbers) \subseteq had'[id]
      /\ UNCHANGED <<taps, cursor, position, text, running, missed>>
  BY DEF Edit, readerVars
<1>2. ReaderType'
  BY <1>1, ContactsReaderAssumption DEF ReaderInv, ReaderType, TypeOK
<1>3. RowsDistinct'
  BY <1>1 DEF ReaderInv, RowsDistinct
<1>4. HadInv'
  BY <1>1 DEF HadInv
<1>5. DOMAIN text \subseteq DOMAIN cursor /\ \A k \in DOMAIN cursor : cursor[k].id \in DOMAIN had
  BY DEF ReaderInv, ReaderType, TypeOK
<1>6. PairsBelongTogether'
  BY <1>1, <1>5 DEF ReaderInv, PairsBelongTogether
<1>7. KeptInv'
  <2>1. ASSUME taps > 0, NEW id \in DOMAIN new \ (touched' \cup missed) PROVE Told(id)'
    <3>1. id \in DOMAIN book \ (touched \cup missed) /\ book'[id] = book[id]
      BY <1>1, <2>1
    <3>2. Told(id)
      BY <2>1, <3>1 DEF ReaderInv, KeptInv
    <3>3. QED
      BY <1>1, <3>1, <3>2 DEF Told, Row
  <2>2. QED
    BY <1>1, <2>1 DEF KeptInv
<1>8. QED
  BY <1>1, <1>2, <1>3, <1>4, <1>6, <1>7 DEF ReaderInv

LEMMA ProviderStep == ReaderInv /\ Provider => ReaderInv'
<1> SUFFICES ASSUME ReaderInv, Provider PROVE ReaderInv'
  OBVIOUS
<1>1. used \subseteq Ids /\ DOMAIN book \subseteq used /\ book \in [DOMAIN book -> Joined]
  BY DEF ReaderInv, ReaderType, TypeOK
<1>2. ASSUME NEW id \in Ids, NEW contact \in Contacts, Insert(id, contact) PROVE ReaderInv'
  <2> DEFINE new == [q \in DOMAIN book \cup {id} |-> IF q = id THEN contact ELSE book[q]]
  <2>1. used' = used \cup {id} /\ Edit({id}, new)
    BY <1>2 DEF Insert
  <2>2. DOMAIN new \subseteq used' /\ new \in [DOMAIN new -> Joined]
    BY <1>1, <2>1, ContactsAreJoined
  <2>3. \A q \in DOMAIN new \ {id} : q \in DOMAIN book /\ new[q] = book[q]
    OBVIOUS
  <2> HIDE DEF new
  <2>4. QED
    BY <1>1, <2>1, <2>2, <2>3, EditStep
<1>3. ASSUME NEW id \in Ids, NEW contact \in Contacts, Change(id, contact) PROVE ReaderInv'
  <2> DEFINE new == [book EXCEPT ![id] = contact]
  <2>1. used' = used /\ Edit({id}, new)
    BY <1>3 DEF Change
  <2>2. DOMAIN new \subseteq used' /\ new \in [DOMAIN new -> Joined]
    BY <1>1, <2>1, ContactsAreJoined
  <2>3. \A q \in DOMAIN new \ {id} : q \in DOMAIN book /\ new[q] = book[q]
    BY <1>1
  <2> HIDE DEF new
  <2>4. QED
    BY <1>1, <2>1, <2>2, <2>3, EditStep
<1>4. ASSUME NEW id \in Ids, Delete(id) PROVE ReaderInv'
  <2> DEFINE new == Restrict(book, DOMAIN book \ {id})
  <2>1. used' = used /\ Edit({id}, new)
    BY <1>4 DEF Delete
  <2>2. DOMAIN new \subseteq used' /\ new \in [DOMAIN new -> Joined]
    BY <1>1, <2>1 DEF Restrict
  <2>3. \A q \in DOMAIN new \ {id} : q \in DOMAIN book /\ new[q] = book[q]
    BY DEF Restrict
  <2> HIDE DEF new
  <2>4. QED
    BY <1>1, <2>1, <2>2, <2>3, EditStep
<1>5. ASSUME NEW into \in Ids, NEW from \in Ids, Join(into, from) PROVE ReaderInv'
  <2> DEFINE both == [book[into] EXCEPT !.numbers = @ \o book[from].numbers]
             new == [id \in DOMAIN book \ {from} |-> IF id = into THEN both ELSE book[id]]
  <2>1. used' = used /\ Edit({into, from}, new) /\ into \in DOMAIN book /\ from \in DOMAIN book
    BY <1>5 DEF Join
  <2>2. book[into] \in Joined /\ book[from] \in Joined
    BY <1>1, <2>1
  <2>3. book[into].numbers \o book[from].numbers \in Seq(Numbers)
    BY <2>2, ConcatProperties DEF Joined
  <2>4. both \in Joined
    BY <2>2, <2>3 DEF Joined
  <2> HIDE DEF both
  <2>5. DOMAIN new \subseteq used' /\ new \in [DOMAIN new -> Joined]
    BY <1>1, <2>1, <2>4
  <2>6. \A q \in DOMAIN new \ {into, from} : q \in DOMAIN book /\ new[q] = book[q]
    OBVIOUS
  <2> HIDE DEF new
  <2>7. QED
    BY <1>1, <2>1, <2>5, <2>6, EditStep
<1>6. QED
  BY <1>2, <1>3, <1>4, <1>5 DEF Provider

LEMMA QueryStep == ReaderInv /\ Query => ReaderInv'
<1> SUFFICES ASSUME ReaderInv, Query PROVE ReaderInv'
  OBVIOUS
<1>1. PICK order \in SetToSeqs(DOMAIN book) : cursor' = [k \in DOMAIN order |-> Row(order[k])]
  BY DEF Query
<1>2. /\ taps < MaxTaps /\ taps' = taps + 1 /\ position' = 0 /\ text' = << >> /\ running' = TRUE
      /\ touched' = {} /\ missed' = {}
      /\ had' = [id \in DOMAIN book |-> Range(book[id].numbers)]
      /\ UNCHANGED <<book, used, edits>>
  BY DEF Query, providerVars
<1>3. used \subseteq Ids /\ DOMAIN book \subseteq used /\ book \in [DOMAIN book -> Joined]
  BY DEF ReaderInv, ReaderType, TypeOK
<1>4. IsFiniteSet(DOMAIN book)
  BY <1>3, ContactsReaderAssumption, FS_Subset
<1>5. /\ order \in Seq(DOMAIN book) /\ DOMAIN order = 1..Len(order) /\ Len(order) \in Nat
      /\ \A p, k \in DOMAIN order : order[p] = order[k] => p = k
      /\ \A id \in DOMAIN book : \E k \in DOMAIN order : order[k] = id
      /\ \A k \in DOMAIN order : order[k] \in DOMAIN book
  BY <1>4, OrdersCover
<1>6. \A id \in DOMAIN book : Row(id) \in Rows /\ Row(id).id = id
  BY <1>3 DEF Row, Rows, Joined
<1>7. /\ DOMAIN cursor' = DOMAIN order
      /\ \A k \in DOMAIN order : cursor'[k] = Row(order[k]) /\ cursor'[k].id = order[k]
  BY <1>1, <1>5, <1>6
<1>8. cursor' \in Seq(Rows) /\ Len(cursor') = Len(order)
  <2>1. cursor' \in [1..Len(order) -> Rows]
    BY <1>1, <1>5, <1>6
  <2>2. QED
    BY <1>5, <2>1, FunctionIsSeq
<1>9. DOMAIN << >> = {} /\ Len(<< >>) = 0 /\ \A S : << >> \in Seq(S)
  OBVIOUS
<1>10. ReaderType'
  <2>1. DOMAIN had' = {cursor'[k].id : k \in DOMAIN cursor'}
    <3>1. \A k \in DOMAIN cursor' : cursor'[k].id \in DOMAIN book
      BY <1>5, <1>7
    <3>2. \A id \in DOMAIN book : \E k \in DOMAIN cursor' : cursor'[k].id = id
      BY <1>5, <1>7
    <3>3. DOMAIN had' = DOMAIN book
      BY <1>2
    <3>4. QED
      BY <3>1, <3>2, <3>3
  <2>2. QED
    BY <1>2, <1>8, <1>9, <2>1, ContactsReaderAssumption
    DEF ReaderInv, ReaderType, TypeOK, Rows
<1>11. RowsDistinct'
  BY <1>5, <1>7 DEF RowsDistinct
<1>12. HadInv'
  BY <1>2 DEF HadInv
<1>13. PairsBelongTogether'
  BY <1>2, <1>9 DEF PairsBelongTogether
<1>14. KeptInv'
  <2>1. ASSUME NEW id \in DOMAIN book PROVE Told(id)'
    <3>1. PICK k \in DOMAIN order : order[k] = id
      BY <1>5
    <3>2. k \in DOMAIN cursor' /\ cursor'[k] = Row(id)' /\ ~(k <= position')
      BY <1>2, <1>5, <1>7, <3>1 DEF Row
    <3>3. QED
      BY <3>2 DEF Told
  <2>2. QED
    BY <1>2, <2>1 DEF KeptInv
<1>15. QED
  BY <1>2, <1>10, <1>11, <1>12, <1>13, <1>14 DEF ReaderInv

LEMMA QueryFailsStep == ReaderInv /\ QueryFails => ReaderInv'
<1> SUFFICES ASSUME ReaderInv, QueryFails PROVE ReaderInv'
  OBVIOUS
<1>1. DOMAIN << >> = {} /\ Len(<< >>) = 0 /\ \A S : << >> \in Seq(S)
  OBVIOUS
<1>2. ReaderType'
  <2>1. DOMAIN had' = {cursor'[k].id : k \in DOMAIN cursor'}
    BY <1>1 DEF QueryFails
  <2>2. /\ taps' \in 0..MaxTaps /\ position' \in 0..Len(cursor') /\ Len(text') = position'
        /\ cursor' \in Seq(Rows) /\ text' \in Seq(LineSeqs) /\ missed' \subseteq Ids
    BY <1>1, ContactsReaderAssumption DEF QueryFails, ReaderInv, ReaderType, TypeOK
  <2>3. QED
    BY <2>1, <2>2 DEF QueryFails, providerVars, ReaderInv, ReaderType, TypeOK, Rows
<1>3. QED
  BY <1>1, <1>2
  DEF QueryFails, providerVars, ReaderInv, RowsDistinct, HadInv, PairsBelongTogether, KeptInv

(* One round of the loop: `lines` are appended for the row at the cursor.   *)
LEMMA RowStep ==
  ASSUME ReaderInv, NEW lines \in LineSeqs, AppendLines(lines),
         \A line \in Range(lines) :
           line.name = Current.name /\ line.number \in had[Current.id],
         missed' \subseteq Ids, missed \subseteq missed',
         Current.id \in DOMAIN book \ (touched \cup missed') /\ Current = Row(Current.id)
           => lines = Lines(book[Current.id].name, book[Current.id].numbers)
  PROVE  ReaderInv'
<1>1. /\ running /\ position < Len(cursor)
      /\ position' = position + 1 /\ text' = Append(text, lines)
      /\ UNCHANGED <<book, used, edits, taps, cursor, running, touched, had>>
  BY DEF AppendLines, providerVars
<1>2. /\ text \in Seq(LineSeqs) /\ Len(text) = position /\ position \in Nat
      /\ cursor \in Seq(Rows) /\ DOMAIN cursor = 1..Len(cursor) /\ Len(cursor) \in Nat
  BY LenProperties DEF ReaderInv, ReaderType, TypeOK, Rows
<1>3. /\ text' \in Seq(LineSeqs) /\ Len(text') = position + 1
      /\ DOMAIN text = 1..position /\ DOMAIN text' = 1..(position + 1)
      /\ \A k \in DOMAIN text : text'[k] = text[k]
      /\ text'[position + 1] = lines
  BY <1>1, <1>2, AddOne
<1>4. \A k \in 1..(position + 1) : k \in 1..position \/ k = position + 1
  BY <1>2
<1>5. ReaderType'
  BY <1>1, <1>2, <1>3 DEF ReaderInv, ReaderType, TypeOK
<1>6. RowsDistinct' /\ HadInv'
  BY <1>1 DEF ReaderInv, RowsDistinct, HadInv
<1>7. PairsBelongTogether'
  BY <1>1, <1>3, <1>4 DEF ReaderInv, PairsBelongTogether, Current
<1>8. KeptInv'
  <2>1. ASSUME taps > 0, NEW id \in DOMAIN book \ (touched \cup missed') PROVE Told(id)'
    <3>1. PICK k \in DOMAIN cursor :
             /\ cursor[k] = Row(id)
             /\ k <= position => text[k] = Lines(book[id].name, book[id].numbers)
      BY <2>1 DEF ReaderInv, KeptInv, Told
    <3>2. cursor'[k] = Row(id)' /\ k \in DOMAIN cursor'
      BY <1>1, <3>1 DEF Row
    <3>3. CASE k = position + 1
      <4>1. Current = Row(id) /\ Current.id = id
        BY <3>1, <3>3 DEF Current, Row
      <4>2. text'[k] = Lines(book[id].name, book[id].numbers)
        BY <1>3, <2>1, <3>3, <4>1
      <4>3. QED
        BY <1>1, <3>2, <4>2 DEF Told, Lines
    <3>4. CASE k # position + 1
      <4>1. k <= position' => k \in DOMAIN text /\ k <= position
        BY <1>1, <1>2, <1>3, <3>4
      <4>2. QED
        BY <1>1, <1>3, <3>1, <3>2, <4>1 DEF Told, Lines
    <3>5. QED
      BY <3>3, <3>4
  <2>2. QED
    BY <1>1, <2>1 DEF KeptInv
<1>9. QED
  BY <1>1, <1>5, <1>6, <1>7, <1>8 DEF ReaderInv

LEMMA CurrentRow ==
  ASSUME ReaderInv, position < Len(cursor)
  PROVE  Current \in Rows /\ Current.id \in DOMAIN had
<1>1. /\ cursor \in Seq(Rows) /\ position \in Nat
      /\ Len(cursor) \in Nat /\ DOMAIN cursor = 1..Len(cursor)
  BY LenProperties DEF ReaderInv, ReaderType, TypeOK, Rows
<1>2. position + 1 \in DOMAIN cursor /\ cursor[position + 1] \in Rows
  BY <1>1, ElementOfSeq
<1>3. QED
  BY <1>2 DEF ReaderInv, ReaderType, TypeOK, Current

LEMMA NumbersOfContact ==
  ASSUME ReaderInv, NEW id \in DOMAIN had
  PROVE  NumbersNow(id) \in Seq(Numbers) /\ Range(NumbersNow(id)) \subseteq had[id]
<1>1. CASE id \in DOMAIN book
  BY <1>1 DEF ReaderInv, ReaderType, TypeOK, HadInv, Joined, NumbersNow
<1>2. CASE id \notin DOMAIN book
  BY <1>2 DEF NumbersNow, Range
<1>3. QED
  BY <1>1, <1>2

LEMMA ReadRowStep == ReaderInv /\ ReadRow => ReaderInv'
<1> SUFFICES ASSUME ReaderInv, ReadRow PROVE ReaderInv'
  OBVIOUS
<1> DEFINE numbers == IF Current.hasPhoneNumber THEN NumbersNow(Current.id) ELSE << >>
           lines == Lines(Current.name, numbers)
<1>1. Lines(Current.name, << >>) = << >>
  BY DEF Lines
<1>2. AppendLines(lines) /\ missed' = missed /\ position < Len(cursor)
  BY <1>1 DEF ReadRow, AppendLines
<1>3. Current \in Rows /\ Current.id \in DOMAIN had
  BY <1>2, CurrentRow
<1>4. numbers \in Seq(Numbers) /\ Range(numbers) \subseteq had[Current.id]
  <2>1. << >> \in Seq(Numbers) /\ Range(<< >>) = {}
    BY DEF Range
  <2>2. QED
    BY <1>3, <2>1, NumbersOfContact
<1>5. /\ lines \in LineSeqs
      /\ \A line \in Range(lines) : line.name = Current.name /\ line.number \in had[Current.id]
  <2> HIDE DEF numbers
  <2>1. QED
    BY <1>3, <1>4, LinesOfContact DEF Rows
<1>6. ASSUME Current.id \in DOMAIN book, Current = Row(Current.id)
      PROVE  lines = Lines(book[Current.id].name, book[Current.id].numbers)
  <2>1. Current.name = book[Current.id].name /\ NumbersNow(Current.id) = book[Current.id].numbers
        /\ Current.hasPhoneNumber = (book[Current.id].numbers # << >>)
    BY <1>6 DEF Row, NumbersNow
  <2>2. numbers = book[Current.id].numbers
    BY <2>1
  <2>3. QED
    BY <2>1, <2>2
<1>7. missed' \subseteq Ids
  BY <1>2 DEF ReaderInv, ReaderType, TypeOK
<1> HIDE DEF lines
<1>8. QED
  BY <1>2, <1>5, <1>6, <1>7, RowStep

LEMMA NumbersFailStep == ReaderInv /\ NumbersFail => ReaderInv'
<1> SUFFICES ASSUME ReaderInv, NumbersFail PROVE ReaderInv'
  OBVIOUS
<1>1. AppendLines(<< >>) /\ position < Len(cursor) /\ missed' = missed \cup {Current.id}
  BY DEF NumbersFail
<1>2. Current \in Rows
  BY <1>1, CurrentRow
<1>3. missed' \subseteq Ids
  BY <1>1, <1>2 DEF ReaderInv, ReaderType, TypeOK, Rows
<1>4. << >> \in LineSeqs /\ Range(<< >>) = {}
  BY DEF LineSeqs, Range
<1>5. QED
  BY <1>1, <1>3, <1>4, RowStep

LEMMA ReaderNext == ReaderInv /\ [Next]_vars => ReaderInv'
<1> SUFFICES ASSUME ReaderInv, [Next]_vars PROVE ReaderInv'
  OBVIOUS
<1>1. CASE Return \/ UNCHANGED vars
  <2>1. /\ UNCHANGED <<book, used, edits, taps, cursor, position, text, missed, touched, had>>
        /\ running' \in BOOLEAN /\ (~running' => position = Len(cursor))
    BY <1>1 DEF Return, vars, providerVars, readerVars, ReaderInv, ReaderType, TypeOK
  <2>2. ReaderType' /\ RowsDistinct' /\ HadInv' /\ PairsBelongTogether'
    BY <2>1 DEF ReaderInv, ReaderType, TypeOK, RowsDistinct, HadInv, PairsBelongTogether
  <2>3. \A id : Told(id)' <=> Told(id)
    BY <2>1 DEF Told, Row, Lines
  <2>4. KeptInv'
    BY <2>1, <2>3 DEF ReaderInv, KeptInv
  <2>5. QED
    BY <2>1, <2>2, <2>4 DEF ReaderInv
<1>2. QED
  BY <1>1, ProviderStep, QueryStep, QueryFailsStep, ReadRowStep, NumbersFailStep
  DEF Next, Reader

-----------------------------------------------------------------------------
(* The variables of the provider and of the method keep their types. *)
THEOREM TypeCorrect == Spec => []TypeOK
<1>1. ReaderInv => TypeOK
  BY DEF ReaderInv, ReaderType
<1>2. QED
  BY <1>1, ReaderInit, ReaderNext, PTL DEF Spec

(* However many edits come between the two queries of a row, a name is      *)
(* never paired with a number that its contact has not had since the tap.   *)
THEOREM PairsCorrect == Spec => []PairsBelongTogether
<1>1. ReaderInv => PairsBelongTogether
  BY DEF ReaderInv
<1>2. QED
  BY <1>1, ReaderInit, ReaderNext, PTL DEF Spec

(* Edits of some contacts never cost the text the numbers of another: of    *)
(* every contact left alone all stands in the text, once.                   *)
THEOREM NoneLeftOut == Spec => []UntouchedIsComplete
<1>1. ReaderInv => UntouchedIsComplete
  <2> SUFFICES ASSUME ReaderInv, taps > 0, ~running,
                      NEW id \in DOMAIN book \ (touched \cup missed)
               PROVE  /\ \E k \in DOMAIN text : /\ cursor[k].id = id
                                                /\ text[k] = Lines(book[id].name, book[id].numbers)
                      /\ \A k, p \in DOMAIN text :
                           cursor[k].id = id /\ cursor[p].id = id => k = p
    BY DEF UntouchedIsComplete
  <2>1. DOMAIN text = 1..position /\ DOMAIN cursor = 1..position /\ position \in Nat
    BY LenProperties DEF ReaderInv, ReaderType, TypeOK
  <2>2. PICK k \in DOMAIN cursor :
           /\ cursor[k] = Row(id)
           /\ k <= position => text[k] = Lines(book[id].name, book[id].numbers)
    BY DEF ReaderInv, KeptInv, Told
  <2>3. cursor[k].id = id /\ k <= position
    BY <2>1, <2>2 DEF Row
  <2>4. QED
    BY <2>1, <2>2, <2>3 DEF ReaderInv, RowsDistinct
<1>2. QED
  BY <1>1, ReaderInit, ReaderNext, PTL DEF Spec

-----------------------------------------------------------------------------
(* encodingTrick. *)

(* No symbol before the j-th is the character that is looked for: only      *)
(* after all of them may it be dropped.                                     *)
SearchInv == i < Len(in) => \A k \in 1..j : in[i + 1] # symbols[k]

TrickInv == TrickTypeOK /\ CopyIsFiltered /\ SearchInv

(* The positions kept among the first n + 1 are those among the first n,    *)
(* and the last one if its character is listed.                             *)
LEMMA KeptGrows ==
  ASSUME NEW n \in Nat
  PROVE  /\ IsFiniteSet(Kept(n)) /\ Cardinality(Kept(n)) \in Nat
         /\ IsListed(in[n + 1]) =>
              /\ Kept(n + 1) = Kept(n) \cup {n + 1}
              /\ Cardinality(Kept(n + 1)) = Cardinality(Kept(n)) + 1
         /\ ~IsListed(in[n + 1]) => Kept(n + 1) = Kept(n)
<1>1. IsFiniteSet(Kept(n)) /\ Cardinality(Kept(n)) \in Nat
  <2>1. IsFiniteSet(1..n)
    BY FS_Interval
  <2>2. Kept(n) \subseteq 1..n
    BY DEF Kept
  <2>3. QED
    BY <2>1, <2>2, FS_Subset, FS_CardinalityType
<1>2. 1..(n + 1) = (1..n) \cup {n + 1}
  OBVIOUS
<1>3. ASSUME IsListed(in[n + 1]) PROVE Kept(n + 1) = Kept(n) \cup {n + 1}
  BY <1>2, <1>3 DEF Kept
<1>4. n + 1 \notin Kept(n)
  BY DEF Kept
<1>5. ASSUME ~IsListed(in[n + 1]) PROVE Kept(n + 1) = Kept(n)
  BY <1>2, <1>5 DEF Kept
<1>6. ASSUME IsListed(in[n + 1])
      PROVE  Cardinality(Kept(n + 1)) = Cardinality(Kept(n)) + 1
  BY <1>1, <1>3, <1>4, <1>6, FS_AddElement
<1>7. QED
  BY <1>1, <1>3, <1>5, <1>6

(* A kept position is the p-th of the copy, for a p within what is copied.  *)
LEMMA KeptRank ==
  ASSUME NEW n \in Nat, NEW p \in Kept(n)
  PROVE  Cardinality(Kept(p)) \in 1..Cardinality(Kept(n))
<1>1. p \in 1..n /\ p \in Nat /\ IsListed(in[p])
  BY DEF Kept
<1>2. Kept(p) \subseteq Kept(n) /\ p \in Kept(p)
  BY <1>1 DEF Kept
<1>3. IsFiniteSet(Kept(p)) /\ IsFiniteSet(Kept(n))
      /\ Cardinality(Kept(p)) \in Nat /\ Cardinality(Kept(n)) \in Nat
  BY <1>1, KeptGrows
<1>4. Cardinality(Kept(p)) <= Cardinality(Kept(n))
  BY <1>2, <1>3, FS_Subset
<1>5. Cardinality(Kept(p)) # 0
  BY <1>2, <1>3, FS_EmptySet
<1>6. QED
  BY <1>3, <1>4, <1>5

LEMMA TrickInit ==
  ASSUME NEW t \in Seq(Chars), InitTrick(t)
  PROVE  TrickInv
<1>1. in = t /\ i = 0 /\ j = 0 /\ out = << >> /\ Len(symbols) \in Nat /\ Len(in) \in Nat
  BY EncodingTrickAssumption DEF InitTrick
<1>2. Kept(0) = {} /\ Cardinality({}) = 0
  BY FS_EmptySet DEF Kept
<1>3. TrickTypeOK
  <2>1. in \in Seq(Chars) /\ << >> \in Seq(Chars)
    BY <1>1
  <2>2. QED
    BY <1>1, <2>1 DEF TrickTypeOK
<1>4. CopyIsFiltered
  BY <1>1, <1>2 DEF CopyIsFiltered
<1>5. SearchInv
  BY <1>1 DEF SearchInv
<1>6. QED
  BY <1>3, <1>4, <1>5 DEF TrickInv

LEMMA TrickStep ==
  ASSUME TrickInv, NextTrick
  PROVE  TrickInv'
<1>1. /\ in \in Seq(Chars) /\ out \in Seq(Chars) /\ in' = in
      /\ i \in Nat /\ j \in Nat /\ i < Len(in) /\ Len(in) \in Nat
      /\ symbols \in Seq(Chars) /\ Len(symbols) \in Nat /\ j <= Len(symbols)
  BY EncodingTrickAssumption
  DEF TrickInv, TrickTypeOK, NextTrick, Match, Differ, NotListed, Comparing
<1>2. \A n : Kept(n)' = Kept(n)
  BY <1>1 DEF Kept
<1>3. CopyIsFiltered /\ SearchInv
  BY DEF TrickInv
<1>4. CASE Differ
  <2>1. /\ j < Len(symbols) /\ in[i + 1] # symbols[j + 1] /\ j' = j + 1
        /\ i' = i /\ out' = out
    BY <1>4 DEF Differ, Comparing
  <2>2. SearchInv'
    BY <1>1, <1>3, <2>1 DEF SearchInv
  <2>3. TrickTypeOK' /\ CopyIsFiltered'
    BY <1>1, <1>2, <1>3, <2>1 DEF TrickTypeOK, CopyIsFiltered
  <2>4. QED
    BY <2>2, <2>3 DEF TrickInv
<1>5. CASE NotListed
  <2>1. j = Len(symbols) /\ i' = i + 1 /\ j' = 0 /\ out' = out
    BY <1>5 DEF NotListed
  <2>2. ~IsListed(in[i + 1])
    BY <1>1, <1>3, <2>1 DEF IsListed, SearchInv
  <2>3. Kept(i + 1) = Kept(i)
    BY <1>1, <2>2, KeptGrows
  <2>4. TrickTypeOK' /\ CopyIsFiltered' /\ SearchInv'
    BY <1>1, <1>2, <1>3, <2>1, <2>3 DEF TrickTypeOK, CopyIsFiltered, SearchInv
  <2>5. QED
    BY <2>4 DEF TrickInv
<1>6. CASE Match
  <2>1. /\ j < Len(symbols) /\ in[i + 1] = symbols[j + 1]
        /\ i' = i + 1 /\ j' = 0 /\ out' = Append(out, symbols[j + 1])
    BY <1>6 DEF Match, Comparing
  <2>2. symbols[j + 1] \in Chars /\ IsListed(in[i + 1])
    BY <1>1, <2>1 DEF IsListed
  <2>3. /\ Cardinality(Kept(i)) \in Nat /\ Kept(i + 1) = Kept(i) \cup {i + 1}
        /\ Cardinality(Kept(i + 1)) = Cardinality(Kept(i)) + 1
    BY <1>1, <2>2, KeptGrows
  <2>4. /\ out' \in Seq(Chars) /\ Len(out') = Len(out) + 1
        /\ \A n \in 1..Len(out) : out'[n] = out[n]
        /\ out'[Len(out) + 1] = in[i + 1]
    BY <1>1, <2>1, <2>2, AppendProperties
  <2>5. CopyIsFiltered'
    <3>1. Len(out) = Cardinality(Kept(i))
      BY <1>3 DEF CopyIsFiltered
    <3>2. ASSUME NEW p \in Kept(i + 1) PROVE out'[Cardinality(Kept(p))] = in[p]
      <4>1. CASE p = i + 1
        BY <2>3, <2>4, <3>1, <4>1
      <4>2. CASE p \in Kept(i)
        <5>1. Cardinality(Kept(p)) \in 1..Len(out)
          BY <1>1, <3>1, <4>2, KeptRank
        <5>2. out[Cardinality(Kept(p))] = in[p]
          BY <1>3, <4>2 DEF CopyIsFiltered
        <5>3. QED
          BY <2>4, <5>1, <5>2
      <4>3. QED
        BY <2>3, <3>2, <4>1, <4>2
    <3>3. Len(out') = Cardinality(Kept(i + 1))
      BY <2>3, <2>4, <3>1
    <3>4. QED
      BY <1>1, <1>2, <2>1, <3>2, <3>3 DEF CopyIsFiltered
  <2>6. TrickTypeOK' /\ SearchInv'
    BY <1>1, <2>1, <2>4 DEF TrickTypeOK, SearchInv
  <2>7. QED
    BY <2>5, <2>6 DEF TrickInv
<1>7. QED
  BY <1>4, <1>5, <1>6 DEF NextTrick

-----------------------------------------------------------------------------
(* The arithmetic of the request array. *)

LEMMA DigitsExist ==
  ASSUME NEW n \in Nat
  PROVE  \E d \in 1..10 : (d = 1 \/ n >= Powers[d - 1]) /\ (d = 10 \/ n < Powers[d])
<1> DEFINE Fits(d) == (d = 1 \/ n >= Powers[d - 1]) /\ (d = 10 \/ n < Powers[d])
<1>1. CASE n < 10
  <2>1. Fits(1)
    BY <1>1 DEF Powers
  <2>2. QED
    BY <2>1
<1>2. CASE n >= 10 /\ n < 100
  <2>1. Fits(2)
    BY <1>2 DEF Powers
  <2>2. QED
    BY <2>1
<1>3. CASE n >= 100 /\ n < 1000
  <2>1. Fits(3)
    BY <1>3 DEF Powers
  <2>2. QED
    BY <2>1
<1>4. CASE n >= 1000 /\ n < 10000
  <2>1. Fits(4)
    BY <1>4 DEF Powers
  <2>2. QED
    BY <2>1
<1>5. CASE n >= 10000 /\ n < 100000
  <2>1. Fits(5)
    BY <1>5 DEF Powers
  <2>2. QED
    BY <2>1
<1>6. CASE n >= 100000 /\ n < 1000000
  <2>1. Fits(6)
    BY <1>6 DEF Powers
  <2>2. QED
    BY <2>1
<1>7. CASE n >= 1000000 /\ n < 10000000
  <2>1. Fits(7)
    BY <1>7 DEF Powers
  <2>2. QED
    BY <2>1
<1>8. CASE n >= 10000000 /\ n < 100000000
  <2>1. Fits(8)
    BY <1>8 DEF Powers
  <2>2. QED
    BY <2>1
<1>9. CASE n >= 100000000 /\ n < 1000000000
  <2>1. Fits(9)
    BY <1>9 DEF Powers
  <2>2. QED
    BY <2>1
<1>10. CASE n >= 1000000000
  <2>1. Fits(10)
    BY <1>10 DEF Powers
  <2>2. QED
    BY <2>1
<1>11. QED
  BY <1>1, <1>2, <1>3, <1>4, <1>5, <1>6, <1>7, <1>8, <1>9, <1>10

(* Three digits tell the lengths below 1000, and only those. *)
LEMMA ThreeDigits ==
  ASSUME NEW n \in Nat
  PROVE  Digits(n) \in 1..10 /\ (Digits(n) <= 3 <=> n < 1000)
<1> DEFINE d == Digits(n)
<1>1. d \in 1..10 /\ (d = 1 \/ n >= Powers[d - 1]) /\ (d = 10 \/ n < Powers[d])
  BY DigitsExist DEF Digits
<1> HIDE DEF d
<1>2. ASSUME d = 1 PROVE n < 1000
  BY <1>1, <1>2 DEF Powers
<1>3. ASSUME d = 2 PROVE n < 1000
  BY <1>1, <1>3 DEF Powers
<1>4. ASSUME d = 3 PROVE n < 1000
  BY <1>1, <1>4 DEF Powers
<1>5. ASSUME d \in 4..10 PROVE n >= 1000
  <2>1. n >= Powers[d - 1] /\ d - 1 \in 3..9
    BY <1>1, <1>5
  <2>2. \A k \in 3..9 : Powers[k] >= 1000
    BY DEF Powers
  <2>3. Powers[d - 1] \in Nat
    BY <2>1 DEF Powers
  <2>4. QED
    BY <2>1, <2>2, <2>3
<1>6. d \in 1..10 /\ (d <= 3 <=> n < 1000)
  BY <1>1, <1>2, <1>3, <1>4, <1>5
<1>7. QED
  BY <1>6 DEF d

-----------------------------------------------------------------------------
(* The request text. *)

MessageInv ==
  /\ MessageTypeOK
  /\ at # "allocate" => array = length + FormatLength
  /\ at = "send" =>
       written = FormatLength - ConversionLength + Digits(length) + length + 1

LEMMA MessageInit ==
  ASSUME NEW len \in Nat, InitMessage(len)
  PROVE  MessageInv
BY DEF InitMessage, MessageInv, MessageTypeOK

LEMMA MessageStep ==
  ASSUME MessageInv, NextMessage
  PROVE  MessageInv'
<1>1. CASE Allocate
  BY <1>1 DEF Allocate, MessageInv, MessageTypeOK, FormatLength
<1>2. CASE Format
  <2>1. Digits(length) \in 1..10
    BY ThreeDigits DEF MessageInv, MessageTypeOK
  <2>2. QED
    BY <1>2, <2>1 DEF Format, MessageInv, MessageTypeOK, FormatLength, ConversionLength
<1>3. QED
  BY <1>1, <1>2 DEF NextMessage

LEMMA MessageFits == MessageInv => FitsIffShort
<1> SUFFICES ASSUME MessageInv, at = "send" PROVE written <= array <=> length < 1000
  BY DEF FitsIffShort
<1>1. length \in Nat
  BY DEF MessageInv, MessageTypeOK
<1>2. Digits(length) \in 1..10 /\ (Digits(length) <= 3 <=> length < 1000)
  BY <1>1, ThreeDigits
<1>3. QED
  BY <1>1, <1>2 DEF MessageInv, FormatLength, ConversionLength

-----------------------------------------------------------------------------
ConversionsInv ==
  /\ level \in {"OBFUSCATED_JAVA", "OBFUSCATED_NATIVE_NETWORK"}
  /\ TrickInv /\ MessageInv

LEMMA ConversionsInit == InitConversion => ConversionsInv
<1> SUFFICES ASSUME InitConversion PROVE ConversionsInv
  OBVIOUS
<1>1. CASE /\ level = "OBFUSCATED_JAVA" /\ InitMessage(0)
           /\ \E t \in Texts : InitTrick(t)
  <2>1. PICK t \in Texts : InitTrick(t)
    BY <1>1
  <2>2. t \in Seq(Chars)
    BY EncodingTrickAssumption DEF Texts
  <2>3. QED
    BY <1>1, <2>1, <2>2, TrickInit, MessageInit DEF ConversionsInv
<1>2. CASE /\ level = "OBFUSCATED_NATIVE_NETWORK" /\ InitTrick(<< >>)
           /\ \E len \in Lengths : InitMessage(len)
  <2>1. << >> \in Seq(Chars)
    OBVIOUS
  <2>2. QED
    BY <1>2, <2>1, TrickInit, MessageInit, HttpMessageAssumption DEF ConversionsInv
<1>3. QED
  BY <1>1, <1>2 DEF InitConversion

LEMMA ConversionsNext == ConversionsInv /\ [NextConversion]_conversionVars => ConversionsInv'
<1> SUFFICES ASSUME ConversionsInv, [NextConversion]_conversionVars PROVE ConversionsInv'
  OBVIOUS
<1>1. ASSUME UNCHANGED trickVars PROVE TrickInv'
  BY <1>1 DEF ConversionsInv, TrickInv, trickVars, TrickTypeOK, CopyIsFiltered, SearchInv, Kept
<1>2. ASSUME UNCHANGED messageVars PROVE MessageInv'
  BY <1>2 DEF ConversionsInv, MessageInv, messageVars, MessageTypeOK
<1>3. CASE NextTrick /\ UNCHANGED <<level, messageVars>>
  BY <1>2, <1>3, TrickStep DEF ConversionsInv
<1>4. CASE NextMessage /\ UNCHANGED <<level, trickVars>>
  BY <1>1, <1>4, MessageStep DEF ConversionsInv
<1>5. CASE UNCHANGED conversionVars
  BY <1>1, <1>2, <1>5 DEF ConversionsInv, conversionVars
<1>6. QED
  BY <1>3, <1>4, <1>5 DEF NextConversion

(* The loops of encodingTrick never index past the text or the list, and    *)
(* the lengths of the request stay natural.                                 *)
THEOREM ConversionTypeCorrect == ConversionSpec => []ConversionTypeOK
<1>1. ConversionsInv => ConversionTypeOK
  BY DEF ConversionsInv, TrickInv, MessageInv, ConversionTypeOK
<1>2. QED
  BY <1>1, ConversionsInit, ConversionsNext, PTL DEF ConversionSpec

(* Whatever the text and the list, encodingTrick copies the listed          *)
(* characters, each once and in the order of the text, and no other.        *)
THEOREM CopyCorrect == ConversionSpec => []CopyIsFiltered
<1>1. ConversionsInv => CopyIsFiltered
  BY DEF ConversionsInv, TrickInv
<1>2. QED
  BY <1>1, ConversionsInit, ConversionsNext, PTL DEF ConversionSpec

(* sprintf stays within the array `message` of send_http_post exactly for   *)
(* contents of less than 1000 bytes, whatever their length.                 *)
THEOREM ShortContentsFit == ConversionSpec => []FitsIffShort
<1>1. ConversionsInv => FitsIffShort
  BY MessageFits DEF ConversionsInv
<1>2. QED
  BY <1>1, ConversionsInit, ConversionsNext, PTL DEF ConversionSpec

=============================================================================
