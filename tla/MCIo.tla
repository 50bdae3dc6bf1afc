-------------------------------- MODULE MCIo --------------------------------
(***************************************************************************)
(* KeysasIo on small instances: three keys of one product, an unsigned one *)
(* "u" with two files, a signed one "s" with one, and one without a        *)
(* partition table, "v", with one; the two names that wait in sas_out are  *)
(* written the same on a key.                                              *)
(***************************************************************************)
EXTENDS KeysasIo, TLC

MCHolds == [k \in Keys |-> CASE k = "u" -> {"f", "g"} [] k = "s" -> {"h"}
                             [] k = "v" -> {"i"}]
MCNameOf == [f \in Files |-> f]
MCOutNameOf == [n \in OutNames |-> "f"]
MCProduct == [k \in Keys |-> "stick"]
=============================================================================
