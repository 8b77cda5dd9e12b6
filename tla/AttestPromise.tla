--------------------------- MODULE AttestPromise ---------------------------
(***************************************************************************)
(* What the attestation client promises its callers, with the TPM, the     *)
(* retry loop and the gathering of evidence left out.  The machine moves   *)
(* from state to state and never back.  Attest() gives out a token for the *)
(* state the machine is in at that moment; what is encrypted to a token    *)
(* can be opened by Decrypt() while the machine is still in that state,    *)
(* and never again once it left it.                                        *)
(***************************************************************************)
EXTENDS Naturals

CONSTANTS Procs, None

VARIABLES
  machine,  \* its boot and the measurements taken since
  tokens,   \* machine states for which a token was issued
  output    \* what each process got from its last call

vars == <<machine, tokens, output>>

Init == /\ machine.seed = 1
        /\ tokens = {}
        /\ output = [p \in Procs |-> None]

\* Measurements only ever accumulate
Grown(before, after) ==
  /\ DOMAIN before = DOMAIN after
  /\ before # after
  /\ \A i \in DOMAIN before : before[i] <= after[i]

Measure == /\ machine'.seed = machine.seed
           /\ Grown(machine.policy, machine'.policy)
           /\ UNCHANGED <<tokens, output>>

Reboot == /\ machine'.seed = machine.seed + 1
          /\ output' = [p \in Procs |-> None]
          /\ UNCHANGED tokens

Deliver(p, what) == output' = [output EXCEPT ![p] = what]

\* Attest() succeeds
Issue(p) == /\ Deliver(p, [kind |-> "jwt", key |-> machine])
            /\ tokens' = tokens \cup {machine}
            /\ UNCHANGED machine

\* Decrypt() succeeds
Open(p) == /\ machine \in tokens
           /\ Deliver(p, [kind |-> "data", key |-> machine])
           /\ UNCHANGED <<machine, tokens>>

\* A new call starts, or a call fails
Clear(p) == Deliver(p, None) /\ UNCHANGED <<machine, tokens>>

Next == \/ Measure \/ Reboot
        \/ \E p \in Procs : Issue(p) \/ Open(p) \/ Clear(p)

Spec == Init /\ [][Next]_vars
=============================================================================
