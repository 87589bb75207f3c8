--------------------------- MODULE EncodingTrick ---------------------------
(***************************************************************************)
(* TaintdroidHack.encodingTrick (impl/TaintdroidHack.java): two nested     *)
(* loops that copy the characters of a text by way of a list of symbols.   *)
(* A null text takes the way of an empty one.                               *)
(***************************************************************************)
EXTENDS Integers, Sequences, FiniteSets

CONSTANTS
  Chars,    \* characters of a text
  symbols,  \* the list, in its order
  MaxText   \* bound: characters of a text

ASSUME EncodingTrickAssumption == symbols \in Seq(Chars) /\ MaxText \in Nat

VARIABLES
  in,   \* the argument
  i,    \* index of the outer loop
  j,    \* index of the inner loop
  out   \* the StringBuilder

trickVars == <<in, i, j, out>>

InitTrick(text) == in = text /\ i = 0 /\ j = 0 /\ out = << >>

Comparing == i < Len(in) /\ j < Len(symbols)

(* The character is found: the symbol is appended and the loop left.        *)
Match ==
  /\ Comparing /\ in[i + 1] = symbols[j + 1]
  /\ out' = Append(out, symbols[j + 1])
  /\ i' = i + 1 /\ j' = 0
  /\ UNCHANGED in

(* Mutant: `<=` for `<` in the condition of the inner loop. *)
DifferPastEnd ==
  /\ i < Len(in)
  /\ j < Len(symbols) => in[i + 1] # symbols[j + 1]
  /\ j' = j + 1
  /\ UNCHANGED <<in, i, out>>

(* Another symbol: the inner loop goes on.                                  *)
Differ ==
  /\ Comparing /\ in[i + 1] # symbols[j + 1]
  /\ j' = j + 1
  /\ UNCHANGED <<in, i, out>>

(* Mutant: the inner loop ends one symbol early. *)
NotListedEarly ==
  /\ i < Len(in) /\ j >= Len(symbols) - 1
  /\ i' = i + 1 /\ j' = 0
  /\ UNCHANGED <<in, out>>

(* No symbol is equal: the character is dropped. *)
NotListed ==
  /\ i < Len(in) /\ j = Len(symbols)
  /\ i' = i + 1 /\ j' = 0
  /\ UNCHANGED <<in, out>>

NextTrick == Match \/ Differ \/ NotListed

-----------------------------------------------------------------------------
TrickTypeOK ==
  /\ in \in Seq(Chars) /\ out \in Seq(Chars)
  /\ i \in 0..Len(in) /\ j \in 0..Len(symbols)

(* The positions, among the first n, of the characters that are listed.     *)
IsListed(c) == \E k \in DOMAIN symbols : symbols[k] = c
Kept(n) == {p \in 1..n : IsListed(in[p])}

(* At every turn of the loops the copy is the text so far without the       *)
(* characters that are not in the list: none is doubled, moved or lost, the *)
(* last symbol (the line separator) included.                               *)
CopyIsFiltered ==
  /\ Len(out) = Cardinality(Kept(i))
  /\ \A p \in Kept(i) : out[Cardinality(Kept(p))] = in[p]

=============================================================================
