--------------------------- MODULE ContactsReader ---------------------------
(***************************************************************************)
(* ContactsUtil.getContactsAsString on a contact book that other           *)
(* applications, and the application's own background thread, edit while    *)
(* it is read.  The cursor of the contacts is a snapshot (the book fits its *)
(* window); the numbers of a row are queried when the loop comes to it.     *)
(*                                                                         *)
(* The provider is external: identifiers are never reused, an edit or a    *)
(* batch of inserts is atomic, and the aggregator may join two contacts.    *)
(***************************************************************************)
EXTENDS Naturals, FiniteSets, Sequences, SequencesExt

CONSTANTS
  Ids, Names, Numbers,
  MaxNumbers,  \* bound: numbers of a contact before contacts are joined
  MaxTaps,     \* bound: taps
  MaxEdits     \* bound: edits of the book

ASSUME ContactsReaderAssumption ==
  IsFiniteSet(Ids) /\ MaxNumbers \in Nat /\ MaxTaps \in Nat /\ MaxEdits \in Nat

VARIABLES
  book,      \* the contacts there are: names and numbers
  used,      \* identifiers that were given
  edits,     \* edits made
  taps,      \* taps made
  cursor,    \* the rows of `query`
  position,  \* rows read
  text,      \* the StringBuilder: the lines of each row read
  running,   \* the method runs
  touched,   \* history: contacts edited since the tap
  missed,    \* history: contacts whose second query returned null
  had        \* history: the numbers that each row's contact has had since the tap

providerVars == <<book, used, edits>>
readerVars == <<taps, cursor, position, text, running, missed>>
vars == <<providerVars, readerVars, touched, had>>

Contacts == [name : Names, numbers : UNION {[1..n -> Numbers] : n \in 0..MaxNumbers}]
Joined == [name : Names, numbers : Seq(Numbers)]

Init ==
  /\ used \in SUBSET Ids /\ book \in [used -> Contacts]
  /\ edits = 0 /\ taps = 0
  /\ cursor = << >> /\ position = 0 /\ text = << >> /\ running = FALSE
  /\ touched = {} /\ missed = {} /\ had = << >>

-----------------------------------------------------------------------------
(* The provider. *)

(* The contacts `ids` are edited, and the book is `new`. *)
Edit(ids, new) ==
  /\ edits < MaxEdits /\ edits' = edits + 1
  /\ book' = new
  /\ touched' = touched \cup ids
  /\ had' = [id \in DOMAIN had |->
               had[id] \cup (IF id \in DOMAIN new THEN Range(new[id].numbers) ELSE {})]
  /\ UNCHANGED readerVars

Insert(id, contact) ==
  /\ id \notin used /\ used' = used \cup {id}
  /\ Edit({id}, [i \in DOMAIN book \cup {id} |-> IF i = id THEN contact ELSE book[i]])

Change(id, contact) ==
  /\ id \in DOMAIN book
  /\ Edit({id}, [book EXCEPT ![id] = contact])
  /\ UNCHANGED used

Delete(id) ==
  /\ id \in DOMAIN book
  /\ Edit({id}, Restrict(book, DOMAIN book \ {id}))
  /\ UNCHANGED used

Join(into, from) ==
  /\ into \in DOMAIN book /\ from \in DOMAIN book \ {into}
  /\ Edit({into, from},
          [id \in DOMAIN book \ {from} |->
             IF id = into THEN [book[into] EXCEPT !.numbers = @ \o book[from].numbers]
             ELSE book[id]])
  /\ UNCHANGED used

Provider ==
  \/ \E id \in Ids, contact \in Contacts : Insert(id, contact) \/ Change(id, contact)
  \/ \E id \in Ids : Delete(id)
  \/ \E into, from \in Ids : Join(into, from)

-----------------------------------------------------------------------------
(* getContactsAsString. *)

Row(id) == [id |-> id, name |-> book[id].name, hasPhoneNumber |-> book[id].numbers # << >>]

(* Mutant: the StringBuilder outlives the call. *)
QueryKeepsText ==
  /\ ~running /\ taps < MaxTaps
  /\ \E order \in SetToSeqs(DOMAIN book) : cursor' = [k \in DOMAIN order |-> Row(order[k])]
  /\ taps' = taps + 1 /\ position' = 0 /\ running' = TRUE
  /\ touched' = {} /\ missed' = {}
  /\ had' = [id \in DOMAIN book |-> Range(book[id].numbers)]
  /\ UNCHANGED <<providerVars, text>>

(* The first query: the rows come in any order, there is no sort order.     *)
Query ==
  /\ ~running /\ taps < MaxTaps
  /\ \E order \in SetToSeqs(DOMAIN book) : cursor' = [k \in DOMAIN order |-> Row(order[k])]
  /\ taps' = taps + 1 /\ position' = 0 /\ text' = << >> /\ running' = TRUE
  /\ touched' = {} /\ missed' = {}
  /\ had' = [id \in DOMAIN book |-> Range(book[id].numbers)]
  /\ UNCHANGED providerVars

(* query == null: the text is empty. *)
QueryFails ==
  /\ ~running /\ taps < MaxTaps
  /\ cursor' = << >> /\ taps' = taps + 1 /\ position' = 0 /\ text' = << >>
  /\ running' = FALSE
  /\ touched' = {} /\ missed' = DOMAIN book /\ had' = << >>
  /\ UNCHANGED providerVars

Current == cursor[position + 1]
NumbersNow(id) == IF id \in DOMAIN book THEN book[id].numbers ELSE << >>
Lines(name, numbers) == [k \in DOMAIN numbers |-> [name |-> name, number |-> numbers[k]]]

AppendLines(lines) ==
  /\ running /\ position < Len(cursor)
  /\ position' = position + 1 /\ text' = Append(text, lines)
  /\ UNCHANGED <<providerVars, taps, cursor, running, touched, had>>

(* Mutant: the second query lacks its selection. *)
ReadRowUnselected ==
  /\ \E id \in DOMAIN book : AppendLines(Lines(Current.name, NumbersNow(id)))
  /\ UNCHANGED missed

(* Mutant: `if` for `while`. *)
ReadRowOneNumber ==
  /\ AppendLines(IF Current.hasPhoneNumber
                 THEN Lines(Current.name, Restrict(NumbersNow(Current.id),
                                                   DOMAIN NumbersNow(Current.id) \cap {1}))
                 ELSE << >>)
  /\ UNCHANGED missed

(* Mutant: the cursor is moved only after a row that has numbers. *)
ReadRowStays ==
  /\ position < Len(cursor) /\ Current.hasPhoneNumber
  /\ AppendLines(Lines(Current.name, NumbersNow(Current.id)))
  /\ UNCHANGED missed

ReadRow ==
  /\ AppendLines(IF Current.hasPhoneNumber THEN Lines(Current.name, NumbersNow(Current.id))
                 ELSE << >>)
  /\ UNCHANGED missed

(* pquery == null *)
NumbersFail ==
  /\ position < Len(cursor) /\ Current.hasPhoneNumber
  /\ AppendLines(<< >>)
  /\ missed' = missed \cup {Current.id}

Return ==
  /\ running /\ position = Len(cursor)
  /\ running' = FALSE
  /\ UNCHANGED <<providerVars, taps, cursor, position, text, missed, touched, had>>

Reader == ReadRow \/ NumbersFail \/ Return

Next == Provider \/ Query \/ QueryFails \/ Reader

Spec == Init /\ [][Next]_vars /\ WF_vars(Reader)

-----------------------------------------------------------------------------
(* Properties. *)

TypeOK ==
  /\ used \subseteq Ids /\ DOMAIN book \subseteq used /\ book \in [DOMAIN book -> Joined]
  /\ edits \in 0..MaxEdits /\ taps \in 0..MaxTaps
  /\ cursor \in Seq([id : Ids, name : Names, hasPhoneNumber : BOOLEAN])
  /\ position \in 0..Len(cursor) /\ Len(text) = position /\ running \in BOOLEAN
  /\ touched \subseteq Ids /\ missed \subseteq Ids
  /\ DOMAIN had = {cursor[k].id : k \in DOMAIN cursor}

(* Whatever is edited between the two queries, a name that a contact had at *)
(* the tap is paired with a number which that same contact has had since.   *)
PairsBelongTogether ==
  \A k \in DOMAIN text : \A line \in Range(text[k]) :
    line.name = cursor[k].name /\ line.number \in had[cursor[k].id]

(* Edits of one contact cost no other: when the method returns, each contact *)
(* of the book that was not edited meanwhile and whose numbers could be     *)
(* queried stands in the text with its name and all its numbers, once.      *)
UntouchedIsComplete ==
  taps > 0 /\ ~running =>
    \A id \in DOMAIN book \ (touched \cup missed) :
      /\ \E k \in DOMAIN text : cursor[k].id = id /\ text[k] = Lines(book[id].name, book[id].numbers)
      /\ \A k, j \in DOMAIN text : cursor[k].id = id /\ cursor[j].id = id => k = j

(* The main thread comes back from every tap, however the book is edited.   *)
TapEnds == running ~> ~running

=============================================================================
