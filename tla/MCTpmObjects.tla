---------------------------- MODULE MCTpmObjects ----------------------------
(***************************************************************************)
(* TpmObjects for TLC: two orders of the tests, so that the EK is removed  *)
(* once before and once after the tests that want it.                      *)
(***************************************************************************)
EXTENDS TpmObjects

MCOrders ==
  {<<"tpmversion", "ekpub", "certifyek", "unseal", "pcrquote", "aikcert", "pcrvalues",
     "tcglog", "generateek", "ekcert", "aikpub">>,
   <<"generateek", "certifyek", "ekpub", "aikpub", "unseal", "ekcert", "pcrvalues",
     "tpmversion", "aikcert", "tcglog", "pcrquote">>}

MCBankSets == {{"sha1"}, {"sha256", "sha384"}}
=============================================================================
