-------------------------- MODULE MCCryptoBackends --------------------------
(***************************************************************************)
(* CryptoBackends for TLC: two roots, chains of every length up to four    *)
(* with what may be wrong in each place, for one library or for both, an   *)
(* intermediate certificate and a foreign root in the stores of Windows,   *)
(* keys of every form, ciphertexts around the size of a tag and of a block *)
(***************************************************************************)
EXTENDS CryptoBackends

Cert(name, issuer) ==
  [name |-> name, issuer |-> issuer, valid |-> Builds, decodes |-> TRUE, subject |-> "other"]

MCTrustedRoots == {Cert("CCME", "CCME"), Cert("CPS", "CPS")}

Inter1 == Cert("inter1", "inter2")
Inter2 == Cert("inter2", "CPS")
Inter3 == Cert("inter3", "CCME")
Foreign == Cert("foreign", "foreign")
Leaf(issuer, subject) == [Cert("leaf", issuer) EXCEPT !.subject = subject]
Good == Leaf("inter1", "matches")

MCChains ==
  {<< >>,
   <<Good, Inter1, Inter2>>, <<Good, Inter2, Inter1>>,
   <<Good, Inter1, Inter2, Cert("CPS", "CPS")>>,
   <<Good, Inter1>>, <<Good>>,
   <<Leaf("CCME", "matches")>>,
   <<Leaf("foreign", "matches"), Foreign>>,
   <<[Good EXCEPT !.decodes = FALSE], Inter1, Inter2>>,
   <<Good, [Inter1 EXCEPT !.decodes = FALSE], Inter2>>,
   <<Leaf("inter3", "matches")>>}
  \cup {<<[Good EXCEPT !.valid = builds], Inter1, Inter2>> : builds \in SUBSET Builds}
  \cup {<<Good, Inter1, [Inter2 EXCEPT !.valid = builds]>> : builds \in SUBSET Builds}
  \cup {<<Leaf("inter2", subject), Inter2>> : subject \in {"quoted", "cut", "other", "none"}}

MCSystemStores == {Inter3, Foreign}

MCSecretSizes == 1..5

Encrypted(size, k) == [size |-> size, key |-> k, intact |-> TRUE]

\* A token as the service makes it
Service(size) ==
  [encryptedEcdhPrivate |-> Encrypted(KeySize + TagLength, "transport"),
   encryptedSecret |-> Encrypted(size, "derived"), private |-> "good", public |-> "good"]

MCTokens ==
  {Service(size) : size \in 0..7}
  \cup {[Service(5) EXCEPT !.private = p] : p \in PrivateForm}
  \cup {[Service(5) EXCEPT !.public = p] : p \in PublicForm}
  \cup {[Service(5) EXCEPT !.private = "other_curve", !.public = "other_curve"]}
  \cup {[Service(5) EXCEPT ![field].key = "other"] :
          field \in {"encryptedEcdhPrivate", "encryptedSecret"}}
  \cup {[Service(5) EXCEPT ![field].intact = FALSE] :
          field \in {"encryptedEcdhPrivate", "encryptedSecret"}}
  \cup {[Service(5) EXCEPT !.encryptedEcdhPrivate.size = size] : size \in {0, TagLength}}
=============================================================================
