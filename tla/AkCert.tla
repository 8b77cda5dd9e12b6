------------------------------- MODULE AkCert -------------------------------
(***************************************************************************)
(* The attestation key certificate: TpmCertOperations.cpp, called at the   *)
(* start of Attest(), Tss2Wrapper::WriteAikCert and the NV helpers of      *)
(* Tss2Util it uses, and the ImdsClient calls that renew the certificate.  *)
(*                                                                         *)
(* The certificate lives in one NV index of the TPM that every process of  *)
(* the VM shares.  NvRead and NvWrite move it in chunks of                 *)
(* __TPM2_MAX_NV_BUFFER_SIZE bytes, and replacing it takes an undefine, a  *)
(* define and the writes.  Every TPM command and every IMDS request is one *)
(* step.  A certificate is its serial number; a chunk is the serial of the *)
(* certificate it is part of, or Blank.                                    *)
(***************************************************************************)
EXTENDS Naturals, Sequences

CONSTANTS
  Procs,             \* processes of the VM that call Attest()
  Chunks,            \* NV buffers one certificate takes
  RenewalThreshold,  \* -AK_CERT_RENEWAL_THRESHOLD: 90 days in the code
  FirstNotAfter,     \* day the first certificate expires
  Validity,          \* days a renewed certificate is valid
  MaxDay,            \* bound: days that pass
  MaxSerial          \* bound: certificates issued

ASSUME ConstantsAssumption ==
  /\ Chunks \in Nat \ {0}
  /\ RenewalThreshold \in Nat
  /\ FirstNotAfter \in Nat
  /\ Validity \in Nat
  /\ MaxDay \in Nat
  /\ MaxSerial \in Nat \ {0}

VARIABLES
  today,      \* the clock
  notAfter,   \* of every certificate issued so far, by serial
  temporary,  \* serials issued by the "TRUSTED VM RSA" issuer
  nv,         \* the NV index AIK_CERT_INDEX
  call,       \* per process, its call of Attest() up to the evidence
  excuse      \* history: a replacement was interrupted, or two overlapped

vars == <<today, notAfter, temporary, nv, call, excuse>>

-----------------------------------------------------------------------------
(* Values *)

Blank == 0
Serial == 1..MaxSerial
Data == [1..Chunks -> Serial \cup {Blank}]
Cert(serial) == [k \in 1..Chunks |-> serial]

\* The NV index: an index that was never written since its definition cannot
\* be read, one that was written in part can
Nv == [defined : BOOLEAN, written : BOOLEAN, data : Data]
Undefined == [defined |-> FALSE, written |-> FALSE, data |-> Cert(Blank)]
Defined == [defined |-> TRUE, written |-> FALSE, data |-> Cert(Blank)]

\* PEM_read_bio_X509 succeeds: all chunks are of one certificate
IsCert(data) == \E serial \in Serial : data = Cert(serial)

Whole == nv.written /\ IsCert(nv.data)

Pc == {"idle", "check", "ak_pub", "vm_id", "renew_read", "sync", "async",
       "undefine", "define", "write", "evidence"}

\* The part of RenewAndReplaceAkCert during which NV holds no certificate
WindowPc == {"define", "write"}

Result == {"none", "proceeds", "ERROR_TPM_OPERATION_FAILURE",
           "ERROR_TPM_INTERNAL_FAILURE", "ERROR_AK_CERT_PROVISIONING_FAILED"}

\* fault, disturbed and renewed are history: a TPM command failed by itself;
\* NV held no certificate at the start, or another process changed it; the
\* certificate this call wrote, if it did
Call == [pc : Pc, read : Seq(Serial \cup {Blank}), new : Serial \cup {Blank},
         wrote : 0..(Chunks - 1), result : Result, cert : Seq(Serial \cup {Blank}),
         fault : BOOLEAN, disturbed : BOOLEAN, renewed : Serial \cup {Blank}]

Idle == [pc |-> "idle", read |-> <<>>, new |-> Blank,
         wrote |-> 0, result |-> "none", cert |-> <<>>,
         fault |-> FALSE, disturbed |-> FALSE, renewed |-> Blank]

Init == /\ today = 0
        /\ notAfter = <<FirstNotAfter>>
        /\ temporary \in {{}, {1}}
        /\ nv = [defined |-> TRUE, written |-> TRUE, data |-> Cert(1)]
        /\ call = [p \in Procs |-> Idle]
        /\ excuse = FALSE

-----------------------------------------------------------------------------
(* Helpers *)

OtherInWindow(p) == \E q \in Procs \ {p} : call[q].pc \in WindowPc

Goto(p, c) == /\ call' = [call EXCEPT ![p] = c]
              /\ UNCHANGED <<today, notAfter, temporary, nv, excuse>>

\* The same, with a TPM command that changes NV under the other calls
ChangeNv(p, to, c) ==
  /\ nv' = to
  /\ call' = [q \in Procs |->
                IF q = p THEN c
                ELSE IF call[q].pc = "idle" THEN call[q]
                ELSE [call[q] EXCEPT !.disturbed = TRUE]]
  /\ UNCHANGED <<today, notAfter, temporary>>

Returned(c, code) == [Idle EXCEPT !.result = code, !.fault = c.fault,
                        !.disturbed = c.disturbed, !.renewed = c.renewed]

\* Attest() goes on, whatever became of the renewal: GetTpmInfo reads the
\* certificate again
Evidence(c) == [c EXCEPT !.pc = "evidence", !.read = <<>>, !.new = Blank, !.wrote = 0]

\* The callers of NvRead, when a TPM command of it fails.  ReadAkCertFromTpm
\* fails the check and with it Attest(), but a renewal only gives up.
ReadFailed(c) == IF c.pc = "renew_read" THEN Evidence(c)
                 ELSE Returned(c, "ERROR_TPM_OPERATION_FAILURE")

\* ASN1_TIME_diff counts whole days, and a certificate is renewed when
\* diff_days >= AK_CERT_RENEWAL_THRESHOLD
Due(serial) == today + RenewalThreshold >= notAfter[serial]

\* Mutant of AfterParse: a certificate that cannot be parsed is renewed
RenewWhatCannotBeParsed(c, data) ==
  [c EXCEPT !.read = <<>>, !.pc = IF IsCert(data) THEN "ak_pub" ELSE "vm_id",
            !.new = IF IsCert(data) THEN data[1] ELSE Blank]

\* IsAkCertRenewalRequired once it has read the certificate.  A certificate
\* that cannot be parsed is an error that Attest() ignores.
AfterParse(c, data) ==
  IF IsCert(data) THEN [c EXCEPT !.pc = "ak_pub", !.read = <<>>, !.new = data[1]]
  ELSE Evidence(c)

\* IsAkCertProvisioned's result: the issuer's name prevails over an error while
\* reading the AIK
Provisioned(c, code) ==
  IF c.new \in temporary THEN "ERROR_AK_CERT_PROVISIONING_FAILED" ELSE code

\* What follows a complete NvRead
AfterRead(c, data) ==
  CASE c.pc = "check" -> AfterParse(c, data)
    [] c.pc = "renew_read" -> [c EXCEPT !.pc = "sync", !.read = data]
    [] c.pc = "evidence" -> [Returned(c, "proceeds") EXCEPT !.cert = data]

-----------------------------------------------------------------------------
(* IsAkCertRenewalRequired *)

Start(p) == /\ call[p].pc = "idle"
            /\ Goto(p, [Idle EXCEPT !.pc = "check",
                                    !.disturbed = ~Whole \/ OtherInWindow(p)])

\* Mutant of NvRead: the offset is not advanced
NvReadSameOffset(p) ==
  LET c == call[p]
      data == <<nv.data[1]>>
  IN
  /\ c.pc \in {"check", "renew_read", "evidence"}
  /\ IF ~nv.written THEN Goto(p, ReadFailed(c))
     ELSE IF Len(data) < Chunks THEN Goto(p, [c EXCEPT !.read = data])
     ELSE Goto(p, AfterRead(c, data))

\* NvRead, one NV_Read at a time, for the check, the renewal and the evidence
NvRead(p) ==
  LET c == call[p]
      data == Append(c.read, nv.data[Len(c.read) + 1])
  IN
  /\ c.pc \in {"check", "renew_read", "evidence"}
  /\ IF ~nv.written THEN Goto(p, ReadFailed(c))
     ELSE IF Len(data) < Chunks THEN Goto(p, [c EXCEPT !.read = data])
     ELSE Goto(p, AfterRead(c, data))

\* IsAkCertProvisioned, which also reads the AIK, and the expiry check
CheckProvisioned(p) ==
  LET c == call[p]
      code == Provisioned(c, "none")
  IN
  /\ c.pc = "ak_pub"
  /\ IF code # "none" THEN Goto(p, Returned(c, code))
     ELSE Goto(p, IF Due(c.new) THEN [c EXCEPT !.pc = "vm_id", !.new = Blank] ELSE Evidence(c))

-----------------------------------------------------------------------------
(* RenewAndReplaceAkCert *)

\* Mutant of GetVmId: a renewal that cannot start fails Attest()
GetVmIdOrFail(p) ==
  /\ call[p].pc = "vm_id"
  /\ \E next \in {[call[p] EXCEPT !.pc = "renew_read"],
                  Returned(call[p], "ERROR_TPM_OPERATION_FAILURE")} : Goto(p, next)

GetVmId(p) ==
  /\ call[p].pc = "vm_id"
  /\ \E next \in {[call[p] EXCEPT !.pc = "renew_read"], Evidence(call[p])} : Goto(p, next)

\* IMDS, external: the certificate sent is renewed if it is one
Renewed(p) ==
  /\ IsCert(call[p].read)
  /\ Len(notAfter) < MaxSerial
  /\ notAfter' = Append(notAfter, today + Validity)
  /\ call' = [call EXCEPT ![p].pc = "undefine", ![p].read = <<>>,
                          ![p].new = Len(notAfter) + 1]
  /\ UNCHANGED <<today, temporary, nv, excuse>>

\* RenewAkCert through the synchronous API: the answer holds a certificate, or
\* none (the renewal is given up), or is empty (the asynchronous API is tried)
RenewSync(p) ==
  /\ call[p].pc = "sync"
  /\ \/ Renewed(p)
     \/ Goto(p, Evidence(call[p]))
     \/ Goto(p, [call[p] EXCEPT !.pc = "async"])

\* RenewAkCert through the asynchronous API, a minute's sleep and QueryAkCert
RenewAsync(p) ==
  /\ call[p].pc = "async"
  /\ Renewed(p) \/ Goto(p, Evidence(call[p]))

\* WriteAikCert: NV_UndefineSpace, NV_DefineSpace, NV_Write chunk by chunk; the
\* exception of a failing command ends the renewal
NvUndefineSpace(p) ==
  LET c == call[p] IN
  /\ c.pc = "undefine"
  /\ IF nv.defined
     THEN /\ ChangeNv(p, Undefined,
                      [c EXCEPT !.pc = "define", !.disturbed = OtherInWindow(p)])
          /\ excuse' = (excuse \/ OtherInWindow(p))
     ELSE Goto(p, Evidence(c))

NvDefineSpace(p) ==
  LET c == call[p] IN
  /\ c.pc = "define"
  /\ IF nv.defined THEN Goto(p, Evidence(c))
     ELSE /\ ChangeNv(p, Defined, [c EXCEPT !.pc = "write"])
          /\ UNCHANGED excuse

\* Mutants of NvWrite: the last chunk is forgotten, or one too many written
NvWriteLong(p) ==
  LET c == call[p]
      to == [nv EXCEPT !.written = TRUE, !.data[c.wrote + 1] = c.new]
  IN
  /\ c.pc = "write"
  /\ IF ~nv.defined THEN Goto(p, Evidence(c))
     ELSE /\ ChangeNv(p, to, IF c.wrote < Chunks THEN [c EXCEPT !.wrote = @ + 1]
                             ELSE [Evidence(c) EXCEPT !.renewed = c.new])
          /\ UNCHANGED excuse

NvWriteShort(p) ==
  LET c == call[p]
      to == [nv EXCEPT !.written = TRUE, !.data[c.wrote + 1] = c.new]
  IN
  /\ c.pc = "write"
  /\ IF ~nv.defined THEN Goto(p, Evidence(c))
     ELSE /\ ChangeNv(p, to, IF c.wrote + 2 < Chunks THEN [c EXCEPT !.wrote = @ + 1]
                             ELSE [Evidence(c) EXCEPT !.renewed = c.new])
          /\ UNCHANGED excuse

NvWrite(p) ==
  LET c == call[p]
      to == [nv EXCEPT !.written = TRUE, !.data[c.wrote + 1] = c.new]
  IN
  /\ c.pc = "write"
  /\ IF ~nv.defined THEN Goto(p, Evidence(c))
     ELSE /\ ChangeNv(p, to, IF c.wrote + 1 < Chunks THEN [c EXCEPT !.wrote = @ + 1]
                             ELSE [Evidence(c) EXCEPT !.renewed = c.new])
          /\ UNCHANGED excuse

-----------------------------------------------------------------------------
(* What can go wrong, and the world outside *)

\* A TPM command fails by itself (Tss2Exception)
TpmError(p) ==
  LET c == [call[p] EXCEPT !.fault = TRUE] IN
  /\ c.pc \in {"check", "ak_pub", "renew_read", "undefine", "define", "write", "evidence"}
  /\ call' = [call EXCEPT ![p] =
                CASE c.pc \in {"check", "renew_read", "evidence"} -> ReadFailed(c)
                  [] c.pc = "ak_pub" -> Returned(c, Provisioned(c, "ERROR_TPM_OPERATION_FAILURE"))
                  [] c.pc \in {"undefine"} \cup WindowPc -> Evidence(c)]
  /\ excuse' = (excuse \/ c.pc \in WindowPc)
  /\ UNCHANGED <<today, notAfter, temporary, nv>>

\* Any other exception on the way to a TPM command.  Without a TPM error code
\* the check counts as passed, and no renewal as required.
InternalError(p) ==
  LET c == [call[p] EXCEPT !.fault = TRUE] IN
  /\ c.pc \in {"check", "ak_pub", "evidence"}
  /\ Goto(p, CASE c.pc = "check" -> Evidence(c)
               [] c.pc = "ak_pub" -> LET code == Provisioned(c, "none")
                                     IN  IF code = "none" THEN Evidence(c) ELSE Returned(c, code)
               [] c.pc = "evidence" -> Returned(c, "ERROR_TPM_INTERNAL_FAILURE"))

\* The process dies
Crash(p) ==
  /\ call[p].pc # "idle"
  /\ call' = [call EXCEPT ![p] = Idle]
  /\ excuse' = (excuse \/ call[p].pc \in WindowPc)
  /\ UNCHANGED <<today, notAfter, temporary, nv>>

\* The host provisions the certificate that was still missing
Provision ==
  /\ temporary # {}
  /\ Len(notAfter) < MaxSerial
  /\ temporary' = {}
  /\ notAfter' = Append(notAfter, today + Validity)
  /\ nv' = [nv EXCEPT !.data = Cert(Len(notAfter) + 1)]
  /\ call' = [p \in Procs |-> IF call[p].pc = "idle" THEN call[p]
                              ELSE [call[p] EXCEPT !.disturbed = TRUE]]
  /\ UNCHANGED <<today, excuse>>

DayPasses == /\ today < MaxDay
             /\ today' = today + 1
             /\ UNCHANGED <<notAfter, temporary, nv, call, excuse>>

Step(p) == \/ NvRead(p) \/ CheckProvisioned(p) \/ GetVmId(p) \/ RenewSync(p) \/ RenewAsync(p)
           \/ NvUndefineSpace(p) \/ NvDefineSpace(p) \/ NvWrite(p)

Next == \/ \E p \in Procs : Start(p) \/ Step(p) \/ TpmError(p) \/ InternalError(p) \/ Crash(p)
        \/ Provision \/ DayPasses

Spec == Init /\ [][Next]_vars

\* TPM commands and IMDS requests end, so a call that runs goes on.  No error
\* has to come to its help, a process need not start a call, the host need not
\* provision.
FairSpec == Spec /\ \A p \in Procs : WF_vars(Step(p))

-----------------------------------------------------------------------------
(* What makes the component correct *)

\* The variables are well typed
TypeOK ==
  /\ today \in 0..MaxDay
  /\ notAfter \in Seq(Nat) /\ Len(notAfter) \in Serial
  /\ temporary \subseteq Serial
  /\ nv \in Nv
  /\ call \in [Procs -> Call]
  /\ \A p \in Procs : Len(call[p].read) <= Chunks
  /\ excuse \in BOOLEAN

\* WriteAikCert takes the certificate away before it writes the new one.  When
\* no process is between the two, the certificate is there, complete, unless a
\* replacement was interrupted half way or two processes replaced it at once.
CertLossNeedsCause ==
  (\A p \in Procs : call[p].pc \notin WindowPc) => Whole \/ excuse

\* A call during which no TPM command failed by itself and no other process
\* touched the certificate gets one, complete, for its evidence: the one it
\* renewed, if WriteAikCert went through.  So whatever IMDS does, answering or
\* not, a renewal never makes Attest() fail or send a torn certificate.
CallGetsItsCert ==
  \A p \in Procs :
    LET c == call[p] IN
    c.pc = "idle" /\ c.result # "none" /\ ~c.fault /\ ~c.disturbed =>
      \/ c.result = "ERROR_AK_CERT_PROVISIONING_FAILED"
      \/ /\ c.result = "proceeds"
         /\ IsCert(c.cert)
         /\ c.renewed # Blank => c.cert = Cert(c.renewed)

\* NV holds no certificate, and nobody is replacing it or read it before
Damaged ==
  /\ ~Whole
  /\ \A p \in Procs : \/ call[p].pc \in {"idle", "evidence"}
                      \/ /\ call[p].pc = "check"
                         /\ \A k \in DOMAIN call[p].read : call[p].read[k] = nv.data[k]

\* The library never repairs a certificate it lost or tore: the check ends in a
\* TPM error, or in a parse error that counts as "no renewal needed".  Once no
\* renewal is under way the damage stays, whatever calls are made later.
DamageStays == [][Damaged => Damaged']_vars

\* Every call of Attest() gets past its certificate
CallReturns == \A p \in Procs : call[p].pc # "idle" ~> call[p].pc = "idle"
=============================================================================
