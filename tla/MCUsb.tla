------------------------------- MODULE MCUsb -------------------------------
(***************************************************************************)
(* UsbFirewall on small instances.  A key is named for its signature; a    *)
(* key of another name has none.                                           *)
(***************************************************************************)
EXTENDS UsbFirewall, TLC

MCSignature == [k \in Keys |-> IF k \in SignatureKinds THEN k ELSE "none"]
=============================================================================
