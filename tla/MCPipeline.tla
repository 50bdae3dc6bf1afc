----------------------------- MODULE MCPipeline -----------------------------
(***************************************************************************)
(* KeysasPipeline on small instances.  The contents: "good" is accepted by *)
(* every check and each of the others is refused by one; "stub" is the     *)
(* beginning of a file still being copied, whose type is not recognised    *)
(* yet, and it turns into "good" or "big".                                 *)
(***************************************************************************)
EXTENDS KeysasPipeline, TLC

MCTooBig == Contents \cap {"big"}
MCInfected == Contents \cap {"infected"}
MCYaraHit == Contents \cap {"yara"}
MCForbidden == Contents \cap {"stub"}
MCSuspicious == Contents \cap {"macro"}
MCListed == Contents \cap {"listed"}
MCRewrites == {<<"stub", "good">>, <<"stub", "big">>} \cap (Contents \X Contents)
MCNoRewrites == {}
=============================================================================
