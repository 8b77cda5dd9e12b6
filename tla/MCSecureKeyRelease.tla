-------------------------- MODULE MCSecureKeyRelease --------------------------
(***************************************************************************)
(* SecureKeyRelease for TLC: every batch of up to one entry, and every     *)
(* pair and triple of an entry that opens, one that fails on its own and   *)
(* the two that take the whole batch with them.                            *)
(***************************************************************************)
EXTENDS SecureKeyRelease

Mixed == {"intact", "foreign", "binary", "malformed"}

MCBatches ==
  {<< >>} \cup {<<e>> : e \in Entry} \cup (Mixed \X Mixed) \cup
  {<<"intact", "foreign", e>> : e \in Entry}
=============================================================================
