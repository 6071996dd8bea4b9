--------------------------- MODULE MCPayloadPath ---------------------------
(***************************************************************************)
(* Every string of up to MaxLength bytes: six are enough for two names on  *)
(* both sides of "..", of "." and of repeated slashes.                     *)
(***************************************************************************)
EXTENDS PayloadPath

MaxLength == 6
MCInputs == BoundedSeq(Byte, MaxLength)

=============================================================================
