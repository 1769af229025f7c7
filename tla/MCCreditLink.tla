---------------------------- MODULE MCCreditLink ----------------------------
(***************************************************************************)
(* Instances of CreditLink for TLC.                                        *)
(***************************************************************************)
EXTENDS CreditLink

PrivateConfigs == {"private"} \X BOOLEAN
AllConfigs == Policies \X BOOLEAN
Unset == -1
=============================================================================
