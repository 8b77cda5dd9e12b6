------------------------------ MODULE MCAttest ------------------------------
(* Instances of Attest for TLC *)
EXTENDS Attest, TLC

\* Extends per boot: one of each PCR
OneExtend == [i \in Pcr |-> 1]

\* Enough extends of the PCRs that are not attested to exhaust the retries
NoisyExtends == [i \in Pcr |-> IF i \in AttestationPcrList THEN 1
                               ELSE MaxAttestationRetries + 1]

Symmetry == Permutations(Procs)
=============================================================================
