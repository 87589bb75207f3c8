--------------------------- MODULE MCConversions ---------------------------
(* Texts over three listed characters and one that is not. *)
EXTENDS Conversions

CONSTANTS letter, quote, newline, other

SymbolList == <<letter, quote, newline>>

(* The lengths of up to 25 contacts as CreateContactsTask makes them, 45    *)
(* bytes each with their labels, and the edges of the numbers of digits.    *)
MixedLengths ==
  {45 * k + 1 : k \in 0..25} \cup (0..12) \cup (97..102) \cup (997..1002) \cup (9998..10002)

=============================================================================
