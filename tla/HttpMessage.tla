---------------------------- MODULE HttpMessage ----------------------------
(***************************************************************************)
(* The request text of send_http_post (cpp/TaintdroidHack.cpp lines 4-11): *)
(* the array sized for the content and what sprintf writes into it.  A      *)
(* content is its length in bytes, strlen(content).                         *)
(***************************************************************************)
EXTENDS Integers

CONSTANT Lengths  \* lengths of the contents that are posted

ASSUME HttpMessageAssumption == Lengths \subseteq Nat

VARIABLES
  at,       \* what runs next
  length,   \* strlen(content)
  array,    \* sizeof(message)
  written   \* the bytes sprintf stores, the final 0 among them

messageVars == <<at, length, array, written>>

(* strlen(message_fmt); its two conversions, "%d" and "%s", are four of     *)
(* these characters, and none of the request.                               *)
FormatLength == 90
ConversionLength == 4

(* The digits "%d" prints of n, up to the width of an int.                  *)
Powers == <<10, 100, 1000, 10000, 100000, 1000000, 10000000, 100000000, 1000000000>>
Digits(n) ==
  CHOOSE d \in 1..10 : (d = 1 \/ n >= Powers[d - 1]) /\ (d = 10 \/ n < Powers[d])

InitMessage(len) == at = "allocate" /\ length = len /\ array = 0 /\ written = 0

(* Mutant: room for a content of any length that an int can tell. *)
AllocateDigits ==
  /\ at = "allocate"
  /\ array' = length + FormatLength - ConversionLength + Digits(length) + 1
  /\ at' = "format"
  /\ UNCHANGED <<length, written>>

Allocate ==
  /\ at = "allocate"
  /\ array' = length + FormatLength
  /\ at' = "format"
  /\ UNCHANGED <<length, written>>

Format ==
  /\ at = "format"
  /\ written' = FormatLength - ConversionLength + Digits(length) + length + 1
  /\ at' = "send"
  /\ UNCHANGED <<length, array>>

NextMessage == Allocate \/ Format

-----------------------------------------------------------------------------
MessageTypeOK ==
  /\ at \in {"allocate", "format", "send"}
  /\ length \in Nat /\ array \in Nat /\ written \in Nat

(* The request and its final 0 fit the array exactly when the content is    *)
(* shorter than 1000 bytes: the room of the conversions in the format       *)
(* (lines 7-10) is used up by three digits and the 0.                       *)
FitsIffShort == at = "send" => (written <= array <=> length < 1000)

=============================================================================
