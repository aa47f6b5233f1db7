--------------------------- MODULE MCAckDelivery ---------------------------
(***************************************************************************)
(* The instance of AckDelivery that TLC checks.                            *)
(***************************************************************************)
EXTENDS AckDelivery

SecondEntry == {2}
ThirdEntry == {3}
=============================================================================
