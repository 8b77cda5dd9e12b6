------------------------- MODULE MCProtectedSecret -------------------------
(* Instances of ProtectedSecret for TLC *)
EXTENDS ProtectedSecret, TLC

Good == [real |-> TRUE, claims |-> "complete", signature |-> "valid", padding |-> "none",
         wrapped |-> "rsaes", key |-> 1, forVm |-> TRUE]

\* Legacy input; every combination of claims and signature, with nothing else
\* wrong; every padding, key and VM of a good token
SomeInputs ==
  {[Good EXCEPT !.real = FALSE, !.claims = claims] : claims \in {"complete", "unreadable"}}
  \cup
  {[Good EXCEPT !.claims = claims, !.signature = signature] :
     claims \in {"complete", "corrupt", "undecodable", "mistyped", "incomplete",
                 "unencrypted", "unreadable"},
     signature \in {"none", "valid", "mismatch", "untrusted", "no_x5c", "undecodable"}}
  \cup
  {[Good EXCEPT !.padding = padding, !.wrapped = wrapped, !.key = wrappedFor,
                !.forVm = forVm] :
     padding \in {"none", "unknown", "mistyped"} \cup Scheme,
     wrapped \in Scheme, wrappedFor \in Seed, forVm \in BOOLEAN}

Symmetry == Permutations(Managers)
=============================================================================
