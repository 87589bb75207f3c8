---------------------------- MODULE Conversions ----------------------------
(***************************************************************************)
(* What doInBackground of PostTask makes of a content before it is sent, at *)
(* the two levels that convert it themselves: encodingTrick at              *)
(* OBFUSCATED_JAVA, the request text of send_http_post at                   *)
(* OBFUSCATED_NATIVE_NETWORK.                                               *)
(***************************************************************************)
EXTENDS EncodingTrick, HttpMessage

VARIABLE level

conversionVars == <<level, trickVars, messageVars>>

Texts == UNION {[1..n -> Chars] : n \in 0..MaxText}

InitConversion ==
  \/ /\ level = "OBFUSCATED_JAVA"
     /\ InitMessage(0)
     /\ \E text \in Texts : InitTrick(text)
  \/ /\ level = "OBFUSCATED_NATIVE_NETWORK"
     /\ InitTrick(<< >>)
     /\ \E len \in Lengths : InitMessage(len)

NextConversion ==
  \/ level = "OBFUSCATED_JAVA" /\ NextTrick /\ UNCHANGED <<level, messageVars>>
  \/ level = "OBFUSCATED_NATIVE_NETWORK" /\ NextMessage /\ UNCHANGED <<level, trickVars>>

ConversionSpec == InitConversion /\ [][NextConversion]_conversionVars

ConversionTypeOK ==
  /\ level \in {"OBFUSCATED_JAVA", "OBFUSCATED_NATIVE_NETWORK"}
  /\ TrickTypeOK /\ MessageTypeOK

=============================================================================
