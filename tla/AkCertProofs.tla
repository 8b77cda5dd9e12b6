---------------------------- MODULE AkCertProofs ----------------------------
(***************************************************************************)
(* Proofs about AkCert, for every set of processes, every number of NV     *)
(* chunks and every expiry date, threshold and bound.                      *)
(***************************************************************************)
EXTENDS AkCert, TLAPS

(***************************************************************************)
(* The inductive invariant.  It says what NV holds while one process       *)
(* replaces the certificate (Half), what a call that nobody disturbed      *)
(* knows of NV (Undisturbed), and that nothing is replaced as long as the  *)
(* host has not provisioned the certificate (Unprovisioned).               *)
(***************************************************************************)
ReadPc == {"check", "renew_read", "evidence"}

\* The locals of a call at its control points
Locals(c) ==
  /\ c.pc \in ReadPc => Len(c.read) < Chunks
  /\ c.pc \notin ReadPc \cup {"sync", "async"} => c.read = <<>>
  /\ c.pc # "write" => c.wrote = 0
  /\ c.pc \in {"ak_pub", "undefine", "define", "write"} => c.new # Blank
  /\ c.pc \notin {"idle", "evidence"} => c.renewed = Blank

CallOK(c) == c \in Call /\ Len(c.read) <= Chunks /\ Locals(c)

\* NV, with content n, as a replacement leaves it half way
Half(c, n) ==
  /\ c.pc = "define" => ~n.defined
  /\ c.pc = "write" => n.defined /\ \A k \in 1..c.wrote : n.data[k] = c.new

\* What was read so far, and what this call has written, is what NV holds
Current(c, n) ==
  /\ n.written /\ IsCert(n.data)
  /\ \A k \in DOMAIN c.read : c.read[k] = n.data[k]
  /\ c.renewed # Blank => n.data = Cert(c.renewed)

Undisturbed(c, n) ==
  c.pc # "idle" /\ ~c.disturbed =>
    /\ Half(c, n)
    /\ c.pc \notin WindowPc /\ ~c.fault => Current(c, n)

\* CallGetsItsCert, of one call
GetsItsCert(c) ==
  c.pc = "idle" /\ c.result # "none" /\ ~c.fault /\ ~c.disturbed =>
    \/ c.result = "ERROR_AK_CERT_PROVISIONING_FAILED"
    \/ /\ c.result = "proceeds"
       /\ IsCert(c.cert)
       /\ c.renewed # Blank => c.cert = Cert(c.renewed)

\* A call that meets a certificate of the temporary issuer stops there
StopsAtTemporary(c) ==
  temporary # {} =>
    /\ c.pc \in {"idle", "check", "ak_pub", "evidence"}
    /\ c.pc = "check" => \A k \in DOMAIN c.read : c.read[k] = 1
    /\ c.pc = "ak_pub" => c.new = 1

CallInv(c) == CallOK(c) /\ Undisturbed(c, nv) /\ GetsItsCert(c) /\ StopsAtTemporary(c)

Alone(p) == call[p].pc # "idle" /\ ~call[p].disturbed => ~OtherInWindow(p)

Unprovisioned == temporary # {} => temporary = {1} /\ nv.written /\ nv.data = Cert(1)

\* Without an excuse there is one replacement at a time, and it is complete
\* when it ends
OneAtATime ==
  ~excuse =>
    /\ \A p, q \in Procs : call[p].pc \in WindowPc /\ call[q].pc \in WindowPc => p = q
    /\ \A p \in Procs : Half(call[p], nv)
    /\ (\A p \in Procs : call[p].pc \notin WindowPc) => Whole

Inv ==
  /\ TypeOK
  /\ nv.written => nv.defined
  /\ Unprovisioned
  /\ OneAtATime
  /\ \A p \in Procs : CallInv(call[p]) /\ Alone(p)

-----------------------------------------------------------------------------
(* Values *)

USE ConstantsAssumption

\* What NV holds when every chunk is the same is NV data.
LEMMA CertType ==
  ASSUME NEW serial \in Serial \cup {Blank}
  PROVE  Cert(serial) \in Data
BY DEF Cert, Data

\* The defaults of a call's locals are well typed.
LEMMA DefaultTypes == /\ <<>> \in Seq(Serial \cup {Blank})
                      /\ Len(<<>>) = 0 /\ DOMAIN <<>> = {}
                      /\ Blank \in Serial \cup {Blank}
                      /\ 0 \in 0..(Chunks - 1)
OBVIOUS

\* A call that is over and has no result to show for it satisfies everything
\* that is required of a call.
LEMMA IdleInv == CallInv(Idle)
<1>1. Idle \in Call
  BY DefaultTypes DEF Idle, Call, Pc, Result
<1>2. CallOK(Idle)
  BY <1>1, DefaultTypes DEF CallOK, Locals, Idle, ReadPc
<1> QED
  BY <1>2 DEF CallInv, Undisturbed, GetsItsCert, StopsAtTemporary, Idle

\* What a call that returned without a certificate keeps.
LEMMA ReturnedInv ==
  ASSUME NEW c, CallOK(c), NEW code \in Result,
         c.fault \/ c.disturbed \/ code = "ERROR_AK_CERT_PROVISIONING_FAILED"
  PROVE  /\ CallInv(Returned(c, code))
         /\ Returned(c, code).pc = "idle"
<1> DEFINE d == Returned(c, code)
<1>1. d \in Call
  BY DefaultTypes DEF Returned, Idle, Call, CallOK, Pc
<1>2. /\ d.pc = "idle" /\ d.read = <<>> /\ d.wrote = 0 /\ d.result = code
      /\ d.fault = c.fault /\ d.disturbed = c.disturbed
  BY DEF Returned, Idle
<1>3. CallOK(d)
  BY <1>1, <1>2, DefaultTypes DEF CallOK, Locals, ReadPc
<1> QED
  BY <1>2, <1>3 DEF CallInv, Undisturbed, GetsItsCert, StopsAtTemporary

\* Attest() goes on to its evidence: what the call knows of NV, it keeps.
LEMMA EvidenceInv ==
  ASSUME NEW c, CallOK(c), ~c.disturbed /\ ~c.fault => Current(c, nv)
  PROVE  /\ CallInv(Evidence(c))
         /\ Evidence(c).pc = "evidence"
         /\ Evidence(c).disturbed = c.disturbed
<1> DEFINE d == Evidence(c)
<1>1. /\ d \in Call
      /\ d.pc = "evidence" /\ d.read = <<>> /\ d.wrote = 0
      /\ d.fault = c.fault /\ d.disturbed = c.disturbed /\ d.renewed = c.renewed
  BY DefaultTypes DEF Evidence, Call, CallOK, Pc
<1>2. CallOK(d)
  BY <1>1, DefaultTypes DEF CallOK, Locals, ReadPc
<1>3. Undisturbed(d, nv)
  BY <1>1, DefaultTypes DEF Undisturbed, Half, Current, WindowPc
<1> QED
  BY <1>1, <1>2, <1>3 DEF CallInv, GetsItsCert, StopsAtTemporary

\* A reading that is as long as a certificate and agrees with NV is what NV
\* holds.
LEMMA FullReading ==
  ASSUME NEW s \in Seq(Serial \cup {Blank}), Len(s) = Chunks, NEW data \in Data,
         \A k \in DOMAIN s : s[k] = data[k]
  PROVE  s = data
BY DEF Data

-----------------------------------------------------------------------------
(* Steps that leave NV alone *)

\* One process moves on, NV stays: enough that the new state of its call is as
\* it should be, and that a replacement given up half way is excused.
LEMMA MoveInv ==
  ASSUME Inv, NEW p \in Procs, NEW c,
         call' = [call EXCEPT ![p] = c], UNCHANGED <<temporary, nv>>,
         today' \in 0..MaxDay, notAfter' \in Seq(Nat), Len(notAfter') \in Serial,
         excuse' \in BOOLEAN, excuse => excuse',
         call[p].pc \in WindowPc => excuse', c.pc \notin WindowPc,
         CallInv(c), c.pc # "idle" /\ ~c.disturbed => ~OtherInWindow(p)
  PROVE  Inv'
<1>1. call \in [Procs -> Call] /\ c \in Call
  BY DEF Inv, TypeOK, CallInv, CallOK
<1>2. \A q \in Procs : call'[q] = IF q = p THEN c ELSE call[q]
  BY <1>1
<1>3. TypeOK'
  BY <1>1, <1>2 DEF Inv, TypeOK, CallInv, CallOK
<1>4. Whole' = Whole /\ nv' = nv /\ temporary' = temporary
  BY DEF Whole
<1>5. \A q \in Procs : CallInv(call[q])'
  <2> TAKE q \in Procs
  <2>1. CallInv(IF q = p THEN c ELSE call[q])
    BY DEF Inv
  <2>2. CallInv(call'[q])
    BY <1>2, <2>1
  <2> QED
    BY <2>2, <1>4 DEF CallInv, CallOK, Locals, Undisturbed, Half, Current, GetsItsCert, StopsAtTemporary
<1>6. \A q \in Procs : Alone(q)'
  <2> TAKE q \in Procs
  <2>1. CASE q = p
    BY <2>1, <1>2 DEF Alone, OtherInWindow
  <2>2. CASE q # p
    BY <2>2, <1>2 DEF Inv, Alone, OtherInWindow
  <2> QED
    BY <2>1, <2>2
<1>7. OneAtATime'
  <2> SUFFICES ASSUME ~excuse' PROVE /\ (\A r, q \in Procs : call[r].pc \in WindowPc /\ call[q].pc \in WindowPc => r = q)'
                                     /\ (\A q \in Procs : Half(call[q], nv))'
                                     /\ ((\A q \in Procs : call[q].pc \notin WindowPc) => Whole)'
    BY DEF OneAtATime
  <2>1. ~excuse /\ call[p].pc \notin WindowPc
    OBVIOUS
  <2>2. Half(c, nv)
    BY DEF Half, WindowPc
  <2>3. \A q \in Procs : Half(call'[q], nv)
    BY <1>2, <2>1, <2>2 DEF Inv, OneAtATime
  <2>4. (\A q \in Procs : Half(call[q], nv))'
    BY <2>3, <1>4 DEF Half
  <2> QED
    BY <1>2, <1>4, <2>1, <2>4 DEF Inv, OneAtATime
<1> QED
  BY <1>3, <1>4, <1>5, <1>6, <1>7 DEF Inv, Unprovisioned

\* The same for a step that changes nothing but the call, which need not be a
\* call in the middle of a replacement.
LEMMA GotoInv ==
  ASSUME Inv, NEW p \in Procs, NEW c, Goto(p, c),
         call[p].pc \in WindowPc => excuse, c.pc \notin WindowPc,
         CallInv(c), c.pc # "idle" => c.disturbed = call[p].disturbed /\ call[p].pc # "idle"
  PROVE  Inv'
BY MoveInv DEF Goto, Inv, TypeOK, Alone

\* What the invariant says of one call.
LEMMA CallOf ==
  ASSUME Inv, NEW p \in Procs
  PROVE  /\ CallInv(call[p]) /\ CallOK(call[p]) /\ call[p] \in Call
         /\ call[p].pc \in WindowPc /\ ~excuse => Half(call[p], nv)
         /\ call[p].pc \notin WindowPc \cup {"idle"} /\ ~call[p].disturbed /\ ~call[p].fault
              => Current(call[p], nv)
         /\ nv \in Nv /\ nv.data \in Data
BY DEF Inv, TypeOK, CallInv, CallOK, Undisturbed, OneAtATime, Nv

\* NV_Read cannot fail by the absence of data under a call that nobody
\* disturbed, so a reading that fails is excused.
LEMMA ReadFailedInv ==
  ASSUME NEW c, CallOK(c), c.pc \in ReadPc, c.fault \/ c.disturbed
  PROVE  /\ CallInv(ReadFailed(c))
         /\ ReadFailed(c).pc \in {"evidence", "idle"}
         /\ ReadFailed(c).pc # "idle" => ReadFailed(c).disturbed = c.disturbed
<1>1. CASE c.pc = "renew_read"
  BY <1>1, EvidenceInv DEF ReadFailed
<1>2. CASE c.pc # "renew_read"
  BY <1>2, ReturnedInv DEF ReadFailed, Result
<1> QED
  BY <1>1, <1>2

\* What a complete NvRead leads to.
LEMMA AfterReadInv ==
  ASSUME Inv, NEW p \in Procs, NEW data, call[p].pc \in ReadPc,
         data \in Seq(Serial \cup {Blank}), Len(data) = Chunks,
         ~call[p].disturbed /\ ~call[p].fault => data = nv.data,
         temporary # {} /\ call[p].pc = "check" => data = Cert(1)
  PROVE  LET d == AfterRead(call[p], data)
         IN  CallInv(d) /\ d.pc \notin WindowPc
             /\ (d.pc # "idle" => d.disturbed = call[p].disturbed)
<1> DEFINE c == call[p]
           d == AfterRead(c, data)
<1>0. /\ CallOK(c) /\ c \in Call /\ CallInv(c)
      /\ ~c.disturbed /\ ~c.fault => Current(c, nv)
  BY CallOf DEF ReadPc, WindowPc
<1>1. CASE c.pc = "check"
  <2>1. CASE IsCert(data)
    <3>1. PICK serial \in Serial : data = Cert(serial)
      BY <2>1 DEF IsCert
    <3>2. data[1] = serial /\ serial \in Serial /\ serial # Blank
      BY <3>1 DEF Cert, Serial, Blank
    <3>3. d = [c EXCEPT !.pc = "ak_pub", !.read = <<>>, !.new = serial]
      BY <1>1, <2>1, <3>2 DEF AfterRead, AfterParse
    <3>4. /\ d \in Call /\ d.pc = "ak_pub" /\ d.read = <<>> /\ d.new = serial
          /\ d.wrote = c.wrote /\ d.renewed = c.renewed
          /\ d.fault = c.fault /\ d.disturbed = c.disturbed
      BY <1>0, <3>2, <3>3, DefaultTypes DEF Call, Pc
    <3>5. c.wrote = 0 /\ c.renewed = Blank
      BY <1>0, <1>1 DEF CallOK, Locals
    <3>6. CallOK(d)
      BY <3>2, <3>4, <3>5, DefaultTypes DEF CallOK, Locals, ReadPc
    <3>7. Undisturbed(d, nv)
      BY <1>0, <3>4, <3>5, DefaultTypes DEF Undisturbed, Current, Half
    <3>8. StopsAtTemporary(d)
      BY <1>1, <3>2, <3>4 DEF StopsAtTemporary, Cert
    <3> QED
      BY <3>4, <3>6, <3>7, <3>8 DEF CallInv, GetsItsCert, WindowPc
  <2>2. CASE ~IsCert(data)
    BY <1>0, <1>1, <2>2, EvidenceInv DEF AfterRead, AfterParse, WindowPc
  <2> QED
    BY <2>1, <2>2
<1>2. CASE c.pc = "renew_read"
  <2>1. d = [c EXCEPT !.pc = "sync", !.read = data]
    BY <1>2 DEF AfterRead
  <2>2. /\ d \in Call /\ d.pc = "sync" /\ d.read = data
        /\ d.wrote = c.wrote /\ d.renewed = c.renewed
        /\ d.fault = c.fault /\ d.disturbed = c.disturbed
    BY <1>0, <2>1 DEF Call, Pc
  <2>3. CallOK(d)
    BY <1>0, <1>2, <2>2 DEF CallOK, Locals, ReadPc
  <2>4. Undisturbed(d, nv)
    BY <1>0, <2>2 DEF Undisturbed, Current, Half
  <2>5. StopsAtTemporary(d)
    BY <1>0, <1>2 DEF CallInv, StopsAtTemporary
  <2> QED
    BY <2>2, <2>3, <2>4, <2>5 DEF CallInv, GetsItsCert, WindowPc
<1>3. CASE c.pc = "evidence"
  <2>1. d = [Returned(c, "proceeds") EXCEPT !.cert = data]
    BY <1>3 DEF AfterRead
  <2>2. /\ d \in Call /\ d.pc = "idle" /\ d.read = <<>> /\ d.cert = data /\ d.result = "proceeds"
        /\ d.wrote = 0 /\ d.renewed = c.renewed
        /\ d.fault = c.fault /\ d.disturbed = c.disturbed
    BY <1>0, <2>1, DefaultTypes, ZenonT(40) DEF Returned, Idle, Call, Pc, Result
  <2>3. CallOK(d)
    BY <2>2, DefaultTypes DEF CallOK, Locals, ReadPc
  <2>4. GetsItsCert(d)
    BY <1>0, <2>2 DEF GetsItsCert, Current
  <2> QED
    BY <2>2, <2>3, <2>4 DEF CallInv, Undisturbed, StopsAtTemporary, WindowPc
<1> QED
  BY <1>1, <1>2, <1>3 DEF ReadPc

\* One NV_Read, of the check, the renewal or the evidence.
LEMMA NvReadInv ==
  ASSUME Inv, NEW p \in Procs, NvRead(p)
  PROVE  Inv'
<1> DEFINE c == call[p]
           data == Append(c.read, nv.data[Len(c.read) + 1])
<1>0. /\ CallOK(c) /\ c \in Call /\ CallInv(c) /\ c.pc \in ReadPc /\ nv \in Nv /\ nv.data \in Data
      /\ ~c.disturbed /\ ~c.fault => Current(c, nv)
      /\ c.pc \notin WindowPc \cup {"idle"}
  BY CallOf DEF NvRead, ReadPc, WindowPc
<1>1. /\ c.read \in Seq(Serial \cup {Blank}) /\ Len(c.read) < Chunks
  BY <1>0 DEF CallOK, Call, Locals
<1>2. Len(c.read) + 1 \in 1..Chunks /\ nv.data[Len(c.read) + 1] \in Serial \cup {Blank}
  BY <1>0, <1>1 DEF Data
<1>3. /\ data \in Seq(Serial \cup {Blank}) /\ Len(data) = Len(c.read) + 1
      /\ \A k \in DOMAIN data :
           \/ k \in DOMAIN c.read /\ data[k] = c.read[k]
           \/ k = Len(c.read) + 1 /\ data[k] = nv.data[k]
  BY <1>1, <1>2
<1>4. ~c.disturbed /\ ~c.fault => \A k \in DOMAIN data : data[k] = nv.data[k]
  BY <1>0, <1>3 DEF Current
<1>5. temporary # {} /\ c.pc = "check" => \A k \in DOMAIN data : data[k] = 1
  <2> SUFFICES ASSUME temporary # {}, c.pc = "check", NEW k \in DOMAIN data PROVE data[k] = 1
    OBVIOUS
  <2>1. nv.data = Cert(1) /\ \A j \in DOMAIN c.read : c.read[j] = 1
    BY <1>0 DEF Inv, Unprovisioned, CallInv, StopsAtTemporary
  <2> QED
    BY <1>2, <1>3, <2>1 DEF Cert
<1> HIDE DEF data
<1>6. CASE ~nv.written
  <2>1. c.fault \/ c.disturbed
    BY <1>0, <1>6 DEF Current, Whole
  <2>2. Goto(p, ReadFailed(c))
    BY <1>6 DEF NvRead
  <2>3. /\ CallInv(ReadFailed(c)) /\ ReadFailed(c).pc \in {"evidence", "idle"}
        /\ ReadFailed(c).pc # "idle" => ReadFailed(c).disturbed = c.disturbed
    BY <1>0, <2>1, ReadFailedInv
  <2> QED
    BY <1>0, <2>2, <2>3, GotoInv DEF WindowPc
<1>7. CASE nv.written /\ Len(data) < Chunks
  <2> DEFINE d == [c EXCEPT !.read = data]
  <2>1. Goto(p, d)
    BY <1>7 DEF NvRead, data
  <2>2. /\ d \in Call /\ d.pc = c.pc /\ d.read = data /\ d.wrote = c.wrote
        /\ d.renewed = c.renewed /\ d.fault = c.fault /\ d.disturbed = c.disturbed
    BY <1>0, <1>3 DEF Call
  <2>3. CallOK(d)
    BY <1>0, <1>7, <2>2 DEF CallOK, Locals, ReadPc
  <2>4. Undisturbed(d, nv)
    BY <1>0, <1>4, <2>2 DEF Undisturbed, Current, Half, WindowPc, ReadPc
  <2>5. StopsAtTemporary(d)
    BY <1>0, <1>5, <2>2 DEF CallInv, StopsAtTemporary, ReadPc
  <2>6. CallInv(d)
    BY <1>0, <2>2, <2>3, <2>4, <2>5 DEF CallInv, GetsItsCert
  <2> QED
    BY <1>0, <2>1, <2>2, <2>6, GotoInv
<1>8. CASE nv.written /\ ~(Len(data) < Chunks)
  <2>1. Len(data) = Chunks
    BY <1>1, <1>3, <1>8
  <2>2. ~c.disturbed /\ ~c.fault => data = nv.data
    BY <1>0, <1>3, <1>4, <2>1, FullReading
  <2>3. temporary # {} /\ c.pc = "check" => data = Cert(1)
    BY <1>3, <1>5, <2>1 DEF Cert
  <2>4. Goto(p, AfterRead(c, data))
    BY <1>8 DEF NvRead, data
  <2> DEFINE d == AfterRead(c, data)
  <2>5. CallInv(d) /\ d.pc \notin WindowPc /\ (d.pc # "idle" => d.disturbed = c.disturbed)
    BY <1>0, <1>3, <2>1, <2>2, <2>3, AfterReadInv
  <2> HIDE DEF d
  <2> QED
    BY <1>0, <2>4, <2>5, GotoInv DEF d
<1> QED
  BY <1>6, <1>7, <1>8

\* Attest() is called.
LEMMA StartInv ==
  ASSUME Inv, NEW p \in Procs, Start(p)
  PROVE  Inv'
<1> DEFINE c == [Idle EXCEPT !.pc = "check", !.disturbed = ~Whole \/ OtherInWindow(p)]
<1>1. call[p].pc = "idle" /\ call' = [call EXCEPT ![p] = c]
      /\ UNCHANGED <<today, notAfter, temporary, nv, excuse>>
  BY DEF Start, Goto
<1>2. /\ c \in Call /\ c.pc = "check" /\ c.read = <<>> /\ c.wrote = 0 /\ c.renewed = Blank
      /\ c.disturbed = (~Whole \/ OtherInWindow(p))
  BY DefaultTypes DEF Idle, Call, Pc, Result
<1> HIDE DEF c
<1>3. CallOK(c)
  BY <1>2, DefaultTypes DEF CallOK, Locals, ReadPc
<1>4. Undisturbed(c, nv)
  BY <1>2, DefaultTypes DEF Undisturbed, Half, Current, Whole
<1>5. CallInv(c)
  BY <1>2, <1>3, <1>4, DefaultTypes DEF CallInv, GetsItsCert, StopsAtTemporary
<1> QED
  BY <1>1, <1>2, <1>5, MoveInv DEF WindowPc, Inv, TypeOK

\* IsAkCertProvisioned, on the result of which the call stops, goes on or
\* renews the certificate.
LEMMA CheckProvisionedInv ==
  ASSUME Inv, NEW p \in Procs, CheckProvisioned(p)
  PROVE  Inv'
<1> DEFINE c == call[p]
<1>0. /\ CallOK(c) /\ c \in Call /\ CallInv(c) /\ c.pc = "ak_pub"
      /\ ~c.disturbed /\ ~c.fault => Current(c, nv)
      /\ c.pc \notin WindowPc \cup {"idle"}
  BY CallOf DEF CheckProvisioned, WindowPc
<1>1. CASE c.new \in temporary
  <2>1. Goto(p, Returned(c, "ERROR_AK_CERT_PROVISIONING_FAILED"))
    BY <1>1 DEF CheckProvisioned, Provisioned
  <2> QED
    BY <1>0, <2>1, ReturnedInv, GotoInv DEF Result, WindowPc
<1>2. CASE c.new \notin temporary
  <2>1. temporary = {}
    BY <1>0, <1>2 DEF CallInv, StopsAtTemporary, Inv, Unprovisioned
  <2> DEFINE d == [c EXCEPT !.pc = "vm_id", !.new = Blank]
  <2>2. Goto(p, d) \/ Goto(p, Evidence(c))
    BY <1>2 DEF CheckProvisioned, Provisioned
  <2>3. CASE Goto(p, Evidence(c))
    BY <1>0, <2>3, EvidenceInv, GotoInv DEF WindowPc
  <2>4. CASE Goto(p, d)
    <3>1. /\ d \in Call /\ d.pc = "vm_id" /\ d.read = c.read /\ d.wrote = c.wrote
          /\ d.renewed = c.renewed /\ d.fault = c.fault /\ d.disturbed = c.disturbed
      BY <1>0, DefaultTypes DEF Call, Pc
    <3>2. CallOK(d)
      BY <1>0, <3>1 DEF CallOK, Locals, ReadPc
    <3>3. Undisturbed(d, nv)
      BY <1>0, <3>1 DEF Undisturbed, Half, Current
    <3>4. CallInv(d)
      BY <2>1, <3>1, <3>2, <3>3 DEF CallInv, GetsItsCert, StopsAtTemporary
    <3> QED
      BY <1>0, <2>4, <3>1, <3>4, GotoInv DEF WindowPc
  <2> QED
    BY <2>2, <2>3, <2>4
<1> QED
  BY <1>1, <1>2

\* The requests of a renewal, up to the answer that holds the certificate.
LEMMA RenewInv ==
  ASSUME Inv, NEW p \in Procs, GetVmId(p) \/ RenewSync(p) \/ RenewAsync(p)
  PROVE  Inv'
<1> DEFINE c == call[p]
<1>0. /\ CallOK(c) /\ c \in Call /\ CallInv(c) /\ c.pc \in {"vm_id", "sync", "async"}
      /\ ~c.disturbed /\ ~c.fault => Current(c, nv)
      /\ c.pc \notin WindowPc \cup {"idle"}
      /\ temporary = {}
  BY CallOf DEF GetVmId, RenewSync, RenewAsync, WindowPc, CallInv, StopsAtTemporary
<1>1. CASE Goto(p, Evidence(c))
  BY <1>0, <1>1, EvidenceInv, GotoInv DEF WindowPc
<1>2. CASE c.pc = "vm_id" /\ Goto(p, [c EXCEPT !.pc = "renew_read"])
  <2> DEFINE d == [c EXCEPT !.pc = "renew_read"]
  <2>1. /\ d \in Call /\ d.pc = "renew_read" /\ d.read = c.read /\ d.wrote = c.wrote
        /\ d.renewed = c.renewed /\ d.fault = c.fault /\ d.disturbed = c.disturbed
    BY <1>0 DEF Call, Pc
  <2>2. CallOK(d)
    BY <1>0, <1>2, <2>1, DefaultTypes DEF CallOK, Locals, ReadPc
  <2>3. Undisturbed(d, nv)
    BY <1>0, <2>1 DEF Undisturbed, Half, Current
  <2>4. CallInv(d)
    BY <1>0, <2>1, <2>2, <2>3 DEF CallInv, GetsItsCert, StopsAtTemporary
  <2> QED
    BY <1>0, <1>2, <2>1, <2>4, GotoInv DEF WindowPc
<1>3. CASE c.pc = "sync" /\ Goto(p, [c EXCEPT !.pc = "async"])
  <2> DEFINE d == [c EXCEPT !.pc = "async"]
  <2>1. /\ d \in Call /\ d.pc = "async" /\ d.read = c.read /\ d.wrote = c.wrote
        /\ d.renewed = c.renewed /\ d.fault = c.fault /\ d.disturbed = c.disturbed
    BY <1>0 DEF Call, Pc
  <2>2. CallOK(d)
    BY <1>0, <1>3, <2>1 DEF CallOK, Locals, ReadPc
  <2>3. Undisturbed(d, nv)
    BY <1>0, <2>1 DEF Undisturbed, Half, Current
  <2>4. CallInv(d)
    BY <1>0, <2>1, <2>2, <2>3 DEF CallInv, GetsItsCert, StopsAtTemporary
  <2> QED
    BY <1>0, <1>3, <2>1, <2>4, GotoInv DEF WindowPc
<1>4. CASE c.pc \in {"sync", "async"} /\ Renewed(p)
  <2> DEFINE n == Len(notAfter) + 1
             d == [c EXCEPT !.pc = "undefine", !.read = <<>>, !.new = n]
  <2>1. /\ notAfter \in Seq(Nat) /\ Len(notAfter) \in Nat /\ Len(notAfter) < MaxSerial
        /\ today \in Nat /\ today \in 0..MaxDay /\ excuse \in BOOLEAN
    BY <1>4 DEF Renewed, Inv, TypeOK
  <2>2. n \in Serial /\ n # Blank
    BY <2>1 DEF Serial, Blank
  <2>3. notAfter' \in Seq(Nat) /\ Len(notAfter') = n
    BY <1>4, <2>1 DEF Renewed
  <2>4. call' = [call EXCEPT ![p] = d] /\ UNCHANGED <<today, temporary, nv, excuse>>
    BY <1>4 DEF Renewed, Inv, TypeOK, Call
  <2> HIDE DEF n
  <2>5. /\ d \in Call /\ d.pc = "undefine" /\ d.read = <<>> /\ d.wrote = c.wrote /\ d.new = n
        /\ d.renewed = c.renewed /\ d.fault = c.fault /\ d.disturbed = c.disturbed
    BY <1>0, <2>2, DefaultTypes DEF Call, Pc
  <2>6. CallOK(d)
    BY <1>0, <2>2, <2>5, DefaultTypes DEF CallOK, Locals, ReadPc
  <2>7. Undisturbed(d, nv)
    BY <1>0, <2>5, DefaultTypes DEF Undisturbed, Half, Current
  <2>8. CallInv(d)
    BY <1>0, <2>5, <2>6, <2>7 DEF CallInv, GetsItsCert, StopsAtTemporary
  <2>9. ~d.disturbed => ~OtherInWindow(p)
    BY <1>0, <2>5 DEF Inv, Alone
  <2> HIDE DEF d
  <2> QED
    BY <1>0, <2>1, <2>2, <2>3, <2>4, <2>5, <2>8, <2>9, MoveInv DEF WindowPc
<1> QED
  BY <1>1, <1>2, <1>3, <1>4 DEF GetVmId, RenewSync, RenewAsync

-----------------------------------------------------------------------------
(* Steps that change NV *)

\* A replacement changes NV: the other calls count as disturbed, so that only
\* the replacing call has to fit what NV holds now.
LEMMA ChangeNvInv ==
  ASSUME Inv, NEW p \in Procs, NEW to, NEW c, ChangeNv(p, to, c),
         call[p].pc \in {"undefine", "define", "write"}, c.pc # "idle",
         to \in Nv, to.written => to.defined, excuse' \in BOOLEAN,
         CallOK(c), Undisturbed(c, to), ~c.disturbed => ~OtherInWindow(p),
         ~excuse' => /\ ~OtherInWindow(p) /\ Half(c, to)
                     /\ c.pc \notin WindowPc => to.written /\ IsCert(to.data)
  PROVE  Inv'
<1> DEFINE D(q) == [call[q] EXCEPT !.disturbed = TRUE]
<1>1. /\ nv' = to /\ today' = today /\ notAfter' = notAfter /\ temporary' = temporary
      /\ call' = [q \in Procs |-> IF q = p THEN c
                                  ELSE IF call[q].pc = "idle" THEN call[q] ELSE D(q)]
      /\ temporary = {}
  BY CallOf DEF ChangeNv, CallInv, StopsAtTemporary
<1>2. c \in Call /\ Len(c.read) <= Chunks
  BY DEF CallOK
<1>3. \A q \in Procs : /\ CallOK(call[q]) /\ CallOK(D(q)) /\ D(q) \in Call
                       /\ D(q).pc = call[q].pc /\ D(q).disturbed /\ D(q).read = call[q].read
  <2> TAKE q \in Procs
  <2>1. call[q] \in Call /\ CallOK(call[q])
    BY CallOf
  <2>2. /\ D(q) \in Call /\ D(q).pc = call[q].pc /\ D(q).read = call[q].read
        /\ D(q).wrote = call[q].wrote /\ D(q).new = call[q].new
        /\ D(q).renewed = call[q].renewed /\ D(q).disturbed
    BY <2>1 DEF Call
  <2> QED
    BY <2>1, <2>2 DEF CallOK, Locals
<1> HIDE DEF D
<1>4. \A q \in Procs : \/ q = p /\ call'[q] = c
                       \/ q # p /\ call[q].pc = "idle" /\ call'[q] = call[q]
                       \/ q # p /\ call[q].pc # "idle" /\ call'[q] = D(q)
  BY <1>1
<1>5. \A q \in Procs : q # p => call'[q].pc = call[q].pc
  BY <1>3, <1>4
<1>6. TypeOK'
  <2>1. \A q \in Procs : call'[q] \in Call /\ Len(call'[q].read) <= Chunks
    BY <1>2, <1>3, <1>4 DEF CallOK
  <2> QED
    BY <1>1, <2>1 DEF Inv, TypeOK
<1>7. ASSUME NEW q \in Procs PROVE CallInv(call[q])'
  <2>1. CallOK(call'[q])
    BY <1>3, <1>4
  <2>2. Undisturbed(call'[q], to)
    BY <1>3, <1>4 DEF Undisturbed
  <2>3. GetsItsCert(call'[q])
    <3>1. GetsItsCert(call[q])
      BY CallOf DEF CallInv
    <3> QED
      BY <1>3, <1>4, <3>1 DEF GetsItsCert
  <2>4. StopsAtTemporary(call[q])'
    BY <1>1 DEF StopsAtTemporary
  <2>5. CallOK(call[q])' /\ GetsItsCert(call[q])'
    BY <2>1, <2>3 DEF CallOK, Locals, GetsItsCert
  <2>6. Undisturbed(call[q], nv)'
    BY <1>1, <2>2 DEF Undisturbed, Half, Current
  <2> QED
    BY <2>4, <2>5, <2>6 DEF CallInv
<1>8. ASSUME NEW q \in Procs PROVE Alone(q)'
  BY <1>3, <1>4, <1>5 DEF Alone, OtherInWindow
<1>9. OneAtATime'
  <2> SUFFICES ASSUME ~excuse'
               PROVE  /\ \A r, q \in Procs : call'[r].pc \in WindowPc /\ call'[q].pc \in WindowPc => r = q
                      /\ \A q \in Procs : Half(call'[q], to)
                      /\ (\A q \in Procs : call'[q].pc \notin WindowPc) => Whole'
    BY <1>1 DEF OneAtATime, Half
  <2>1. \A q \in Procs : q # p => call'[q].pc \notin WindowPc
    BY <1>5 DEF OtherInWindow
  <2>2. \A q \in Procs : Half(call'[q], to)
    BY <1>4, <2>1 DEF Half, WindowPc
  <2>3. c.pc \notin WindowPc => Whole'
    BY <1>1 DEF Whole
  <2> QED
    BY <1>4, <2>1, <2>2, <2>3
<1> QED
  BY <1>1, <1>6, <1>7, <1>8, <1>9 DEF Inv, Unprovisioned

\* WriteAikCert: the old certificate goes, the index is defined again, the new
\* certificate is written chunk by chunk.
LEMMA WriteInv ==
  ASSUME Inv, NEW p \in Procs, NvUndefineSpace(p) \/ NvDefineSpace(p) \/ NvWrite(p)
  PROVE  Inv'
<1> DEFINE c == call[p]
<1>0. /\ CallOK(c) /\ c \in Call /\ CallInv(c) /\ c.pc \in {"undefine", "define", "write"}
      /\ c.pc \in WindowPc /\ ~excuse => Half(c, nv)
      /\ c.pc \in WindowPc /\ ~c.disturbed => Half(c, nv)
      /\ c.pc = "undefine" /\ ~c.disturbed /\ ~c.fault => Current(c, nv)
      /\ nv \in Nv /\ nv.data \in Data /\ c.pc # "idle"
      /\ excuse \in BOOLEAN /\ (nv.written => nv.defined)
      /\ ~c.disturbed => ~OtherInWindow(p)
      /\ c.new \in Serial /\ c.renewed = Blank /\ c.read = <<>>
  BY CallOf DEF NvUndefineSpace, NvDefineSpace, NvWrite, WindowPc, Inv, TypeOK, Alone,
                CallInv, Undisturbed, CallOK, Locals, Call, ReadPc
<1>1. CASE NvUndefineSpace(p)
  <2>0. c.pc = "undefine" /\ c.pc \notin WindowPc
    BY <1>1 DEF NvUndefineSpace, WindowPc
  <2>1. CASE ~nv.defined
    <3>1. Goto(p, Evidence(c))
      BY <1>1, <2>1 DEF NvUndefineSpace
    <3> QED
      BY <1>0, <2>0, <3>1, EvidenceInv, GotoInv DEF WindowPc
  <2>2. CASE nv.defined
    <3> DEFINE d == [c EXCEPT !.pc = "define", !.disturbed = OtherInWindow(p)]
    <3>1. ChangeNv(p, Undefined, d) /\ excuse' = (excuse \/ OtherInWindow(p))
      BY <1>1, <2>2 DEF NvUndefineSpace
    <3>2. /\ d \in Call /\ d.pc = "define" /\ d.read = c.read /\ d.wrote = c.wrote /\ d.new = c.new
          /\ d.renewed = c.renewed /\ d.disturbed = OtherInWindow(p)
      BY <1>0 DEF Call, Pc, OtherInWindow
    <3>3. CallOK(d)
      BY <1>0, <2>0, <3>2 DEF CallOK, Locals, ReadPc
    <3>4. Undefined \in Nv /\ ~Undefined.written /\ ~Undefined.defined
      BY CertType DEF Undefined, Nv, Blank
    <3>5. Half(d, Undefined) /\ Undisturbed(d, Undefined)
      BY <3>2, <3>4 DEF Half, Undisturbed, WindowPc
    <3>6. excuse' \in BOOLEAN /\ (~excuse' => ~OtherInWindow(p)) /\ d.pc \in WindowPc
      BY <1>0, <3>1, <3>2 DEF OtherInWindow, WindowPc
    <3> HIDE DEF d
    <3> QED
      BY <1>0, <2>0, <3>1, <3>2, <3>3, <3>4, <3>5, <3>6, ChangeNvInv
  <2> QED
    BY <2>1, <2>2
<1>2. CASE NvDefineSpace(p)
  <2>0. c.pc = "define" /\ c.pc \in WindowPc
    BY <1>2 DEF NvDefineSpace, WindowPc
  <2>1. CASE nv.defined
    <3>1. Goto(p, Evidence(c)) /\ excuse /\ c.disturbed
      BY <1>0, <1>2, <2>0, <2>1 DEF NvDefineSpace, Half
    <3> QED
      BY <1>0, <3>1, EvidenceInv, GotoInv DEF WindowPc
  <2>2. CASE ~nv.defined
    <3> DEFINE d == [c EXCEPT !.pc = "write"]
    <3>1. ChangeNv(p, Defined, d) /\ excuse' = excuse
      BY <1>2, <2>2 DEF NvDefineSpace
    <3>2. /\ d \in Call /\ d.pc = "write" /\ d.read = c.read /\ d.wrote = c.wrote /\ d.new = c.new
          /\ d.renewed = c.renewed /\ d.disturbed = c.disturbed /\ c.wrote = 0
      BY <1>0, <2>0 DEF Call, Pc, CallOK, Locals
    <3>3. CallOK(d)
      BY <1>0, <2>0, <3>2 DEF CallOK, Locals, ReadPc
    <3>4. Defined \in Nv /\ ~Defined.written /\ Defined.defined
      BY CertType DEF Defined, Nv, Blank
    <3>5. Half(d, Defined) /\ Undisturbed(d, Defined)
      BY <3>2, <3>4 DEF Half, Undisturbed, WindowPc
    <3>6. ~excuse => ~OtherInWindow(p)
      BY <2>0 DEF Inv, OneAtATime, OtherInWindow
    <3>7. d.pc \in WindowPc /\ d.pc # "idle"
      BY <3>2 DEF WindowPc
    <3> HIDE DEF d
    <3> QED
      BY <1>0, <2>0, <3>1, <3>2, <3>3, <3>4, <3>5, <3>6, <3>7, ChangeNvInv
  <2> QED
    BY <2>1, <2>2
<1>3. CASE NvWrite(p)
  <2>0. c.pc = "write" /\ c.pc \in WindowPc
    BY <1>3 DEF NvWrite, WindowPc
  <2>1. CASE ~nv.defined
    <3>1. Goto(p, Evidence(c)) /\ excuse /\ c.disturbed
      BY <1>0, <1>3, <2>0, <2>1 DEF NvWrite, Half
    <3> QED
      BY <1>0, <3>1, EvidenceInv, GotoInv DEF WindowPc
  <2>2. CASE nv.defined
    <3> DEFINE to == [nv EXCEPT !.written = TRUE, !.data[c.wrote + 1] = c.new]
               more == [c EXCEPT !.wrote = @ + 1]
               last == [Evidence(c) EXCEPT !.renewed = c.new]
    <3>0. c.wrote \in Nat /\ c.wrote + 1 \in 1..Chunks
      BY <1>0 DEF Call
    <3>1. /\ ChangeNv(p, to, IF c.wrote + 1 < Chunks THEN more ELSE last)
          /\ excuse' = excuse
      BY <1>3, <2>2 DEF NvWrite
    <3>2. /\ to \in Nv /\ to.written /\ to.defined
          /\ \A k \in 1..Chunks : to.data[k] = IF k = c.wrote + 1 THEN c.new ELSE nv.data[k]
      <4>1. to.data = [nv.data EXCEPT ![c.wrote + 1] = c.new] /\ to.written /\ to.defined
        BY <1>0, <2>2 DEF Nv
      <4>2. [nv.data EXCEPT ![c.wrote + 1] = c.new] \in Data
        BY <1>0 DEF Data
      <4>3. to \in Nv
        BY <1>0, <4>2 DEF Nv
      <4> QED
        BY <1>0, <4>1, <4>3 DEF Data
    <3>3. ~c.disturbed \/ ~excuse => \A k \in 1..(c.wrote + 1) : to.data[k] = c.new
      BY <1>0, <2>0, <3>0, <3>2 DEF Half, Call
    <3>4. ~excuse => ~OtherInWindow(p)
      BY <2>0 DEF Inv, OneAtATime, OtherInWindow
    <3> HIDE DEF to
    <3>5. CASE c.wrote + 1 < Chunks
      <4>1. /\ more \in Call /\ more.pc = "write" /\ more.read = c.read /\ more.wrote = c.wrote + 1
            /\ more.new = c.new /\ more.renewed = c.renewed /\ more.disturbed = c.disturbed
        <5>1. c \in Call /\ c.pc = "write"
          BY <1>0, <2>0
        <5>2. c.wrote + 1 \in 0..(Chunks - 1)
          BY <3>0, <3>5
        <5> QED
          BY <5>1, <5>2 DEF Call
      <4>2. CallOK(more)
        BY <1>0, <2>0, <4>1 DEF CallOK, Locals, ReadPc
      <4>3. /\ ~excuse => Half(more, to)
            /\ Undisturbed(more, to)
        BY <3>2, <3>3, <4>1 DEF Half, Undisturbed, WindowPc
      <4>4. more.pc \in WindowPc /\ more.pc # "idle" /\ ChangeNv(p, to, more)
        BY <3>1, <3>5, <4>1 DEF WindowPc
      <4> HIDE DEF more
      <4> QED
        BY <1>0, <2>0, <3>1, <3>2, <3>4, <4>1, <4>2, <4>3, <4>4, ChangeNvInv
    <3>6. CASE ~(c.wrote + 1 < Chunks)
      <4>1. /\ last \in Call /\ last.pc = "evidence" /\ last.read = <<>> /\ last.wrote = 0
            /\ last.renewed = c.new /\ last.disturbed = c.disturbed
        BY <1>0, DefaultTypes DEF Evidence, Call, Pc
      <4>2. CallOK(last)
        BY <4>1, DefaultTypes DEF CallOK, Locals, ReadPc
      <4>3. ~c.disturbed \/ ~excuse => to.data = Cert(c.new)
        <5>1. c.wrote + 1 = Chunks /\ to.data \in Data
          BY <3>0, <3>2, <3>6 DEF Nv
        <5> QED
          BY <3>3, <5>1 DEF Data, Cert
      <4>4. ~c.disturbed \/ ~excuse => IsCert(to.data)
        BY <1>0, <4>3 DEF IsCert
      <4>5. Half(last, to) /\ Undisturbed(last, to)
        BY <3>2, <4>1, <4>3, <4>4, DefaultTypes DEF Half, Undisturbed, Current
      <4>6. last.pc # "idle" /\ ChangeNv(p, to, last)
        BY <3>1, <3>6, <4>1
      <4> HIDE DEF last
      <4> QED
        BY <1>0, <2>0, <3>1, <3>2, <3>4, <4>1, <4>2, <4>4, <4>5, <4>6, ChangeNvInv
    <3> QED
      BY <3>5, <3>6
  <2> QED
    BY <2>1, <2>2
<1> QED
  BY <1>1, <1>2, <1>3

\* The host provisions the certificate: whoever is running counts as disturbed,
\* and nobody is replacing anything.
LEMMA ProvisionInv ==
  ASSUME Inv, Provision
  PROVE  Inv'
<1> DEFINE n == Len(notAfter) + 1
           D(q) == [call[q] EXCEPT !.disturbed = TRUE]
<1>1. /\ temporary # {} /\ temporary' = {} /\ notAfter' = Append(notAfter, today + Validity)
      /\ nv' = [nv EXCEPT !.data = Cert(n)] /\ today' = today /\ excuse' = excuse
      /\ call' = [q \in Procs |-> IF call[q].pc = "idle" THEN call[q] ELSE D(q)]
  BY DEF Provision
<1>2. /\ notAfter \in Seq(Nat) /\ Len(notAfter) \in Nat /\ n \in Serial
      /\ today \in 0..MaxDay /\ today \in Nat /\ excuse \in BOOLEAN /\ nv \in Nv
  BY DEF Provision, Inv, TypeOK, Serial
<1>3. notAfter' \in Seq(Nat) /\ Len(notAfter') = n
  BY <1>1, <1>2
<1> HIDE DEF n
<1>4. /\ nv' \in Nv /\ nv'.written /\ nv'.defined /\ nv'.data = Cert(n) /\ IsCert(nv'.data)
  <2>1. nv.written /\ nv.defined
    BY <1>1 DEF Inv, Unprovisioned
  <2>2. Cert(n) \in Data
    BY <1>2, CertType
  <2> QED
    BY <1>1, <1>2, <2>1, <2>2 DEF Nv, IsCert
<1>5. \A q \in Procs : /\ CallOK(call[q]) /\ CallOK(D(q)) /\ D(q) \in Call
                       /\ D(q).pc = call[q].pc /\ D(q).disturbed
                       /\ call[q].pc \notin WindowPc
                       /\ GetsItsCert(call[q])
  <2> TAKE q \in Procs
  <2>1. call[q] \in Call /\ CallOK(call[q]) /\ CallInv(call[q])
    BY CallOf
  <2>2. /\ D(q) \in Call /\ D(q).pc = call[q].pc /\ D(q).read = call[q].read
        /\ D(q).wrote = call[q].wrote /\ D(q).new = call[q].new
        /\ D(q).renewed = call[q].renewed /\ D(q).disturbed
    BY <2>1 DEF Call
  <2>3. call[q].pc \notin WindowPc
    BY <1>1, <2>1 DEF CallInv, StopsAtTemporary, WindowPc
  <2> QED
    BY <2>1, <2>2, <2>3 DEF CallOK, Locals, CallInv
<1> HIDE DEF D
<1>6. \A q \in Procs : \/ call[q].pc = "idle" /\ call'[q] = call[q]
                       \/ call[q].pc # "idle" /\ call'[q] = D(q)
  BY <1>1
<1>7. TypeOK'
  <2>1. \A q \in Procs : call'[q] \in Call /\ Len(call'[q].read) <= Chunks
    BY <1>5, <1>6 DEF CallOK
  <2> QED
    BY <1>1, <1>2, <1>3, <1>4, <2>1 DEF TypeOK
<1>8. ASSUME NEW q \in Procs PROVE CallInv(call[q])' /\ Alone(q)' /\ call'[q].pc \notin WindowPc
  <2>1. CallOK(call'[q]) /\ GetsItsCert(call'[q])
    BY <1>5, <1>6 DEF GetsItsCert
  <2>2. call'[q].pc = "idle" \/ call'[q].disturbed
    BY <1>5, <1>6
  <2>3. CallOK(call[q])' /\ GetsItsCert(call[q])'
    BY <2>1 DEF CallOK, Locals, GetsItsCert
  <2>4. Undisturbed(call[q], nv)' /\ Alone(q)' /\ StopsAtTemporary(call[q])'
    BY <1>1, <2>2 DEF Undisturbed, Alone, StopsAtTemporary
  <2> QED
    BY <1>5, <1>6, <2>3, <2>4 DEF CallInv
<1>9. OneAtATime'
  BY <1>4, <1>8 DEF OneAtATime, Half, Whole, WindowPc
<1> QED
  BY <1>1, <1>4, <1>7, <1>8, <1>9 DEF Inv, Unprovisioned

-----------------------------------------------------------------------------
(* Errors *)

\* A TPM command fails by itself, another exception is thrown, the process dies.
LEMMA ErrorInv ==
  ASSUME Inv, NEW p \in Procs, TpmError(p) \/ InternalError(p) \/ Crash(p)
  PROVE  Inv'
<1> DEFINE c == [call[p] EXCEPT !.fault = TRUE]
<1>0. /\ call[p] \in Call /\ CallOK(call[p]) /\ call[p].pc # "idle"
      /\ call \in [Procs -> Call] /\ excuse \in BOOLEAN
      /\ today \in 0..MaxDay /\ notAfter \in Seq(Nat) /\ Len(notAfter) \in Serial
      /\ ~call[p].disturbed => ~OtherInWindow(p)
  BY CallOf DEF Inv, TypeOK, Alone, TpmError, InternalError, Crash, WindowPc
<1>1. /\ c \in Call /\ c.pc = call[p].pc /\ c.read = call[p].read /\ c.wrote = call[p].wrote
      /\ c.new = call[p].new /\ c.renewed = call[p].renewed
      /\ c.disturbed = call[p].disturbed /\ c.fault
  BY <1>0 DEF Call
<1>2. CallOK(c)
  BY <1>0, <1>1 DEF CallOK, Locals
<1> HIDE DEF c
<1> DEFINE Fine(d) == /\ CallInv(d) /\ d.pc \in {"idle", "evidence"}
                      /\ d.pc # "idle" => d.disturbed = call[p].disturbed
<1>3. Fine(Evidence(c)) /\ \A code \in Result : Fine(Returned(c, code))
  BY <1>1, <1>2, EvidenceInv, ReturnedInv
<1>4. c.pc \in ReadPc => Fine(ReadFailed(c))
  BY <1>1, <1>2, ReadFailedInv
<1>5. Fine(Idle)
  BY IdleInv DEF Idle
<1>6. ASSUME NEW d, Fine(d), call' = [call EXCEPT ![p] = d],
             UNCHANGED <<today, notAfter, temporary, nv>>,
             excuse' = (excuse \/ call[p].pc \in WindowPc)
      PROVE  Inv'
  BY <1>0, <1>6, MoveInv DEF WindowPc
<1> HIDE DEF Fine
<1>7. CASE TpmError(p)
  <2>1. PICK d : /\ d = CASE c.pc \in {"check", "renew_read", "evidence"} -> ReadFailed(c)
                          [] c.pc = "ak_pub" -> Returned(c, Provisioned(c, "ERROR_TPM_OPERATION_FAILURE"))
                          [] c.pc \in {"undefine"} \cup WindowPc -> Evidence(c)
                 /\ call' = [call EXCEPT ![p] = d]
                 /\ c.pc \in {"check", "ak_pub", "renew_read", "undefine", "define", "write", "evidence"}
                 /\ excuse' = (excuse \/ c.pc \in WindowPc)
                 /\ UNCHANGED <<today, notAfter, temporary, nv>>
    BY <1>7 DEF TpmError, c
  <2>2. Provisioned(c, "ERROR_TPM_OPERATION_FAILURE") \in Result
    BY DEF Provisioned, Result
  <2>3. Fine(d)
    BY <1>3, <1>4, <2>1, <2>2 DEF ReadPc, WindowPc
  <2> QED
    BY <1>1, <1>6, <2>1, <2>3
<1>8. CASE InternalError(p)
  <2>1. PICK d : /\ d \in {Evidence(c), Returned(c, Provisioned(c, "none")),
                           Returned(c, "ERROR_TPM_INTERNAL_FAILURE")}
                 /\ Goto(p, d) /\ c.pc \in {"check", "ak_pub", "evidence"}
    BY <1>8 DEF InternalError, c
  <2>2. Provisioned(c, "none") \in Result /\ "ERROR_TPM_INTERNAL_FAILURE" \in Result
    BY DEF Provisioned, Result
  <2>3. Fine(d)
    BY <1>3, <2>1, <2>2
  <2> QED
    BY <1>0, <1>1, <1>6, <2>1, <2>3 DEF Goto, WindowPc
<1>9. CASE Crash(p)
  BY <1>5, <1>6, <1>9 DEF Crash
<1> QED
  BY <1>7, <1>8, <1>9

-----------------------------------------------------------------------------
(* The invariant, and what follows from it *)

\* What AkCert's checks rest on holds in every reachable state: what NV holds
\* at every point of a replacement, what an undisturbed call knows of it, and
\* that nothing is replaced before the certificate was provisioned.
THEOREM Invariant == Spec => []Inv
<1>1. Init => Inv
  <2> SUFFICES ASSUME Init PROVE Inv
    OBVIOUS
  <2>1. 1 \in Serial
    BY DEF Serial
  <2>2. /\ nv.data = Cert(1) /\ nv.written /\ nv.defined /\ nv \in Nv /\ Whole
    BY <2>1, CertType DEF Init, Nv, Whole, IsCert
  <2>3. \A p \in Procs : call[p] = Idle
    BY DEF Init
  <2>4. \A p \in Procs : CallInv(call[p]) /\ call[p].pc = "idle"
    <3>1. Idle.pc = "idle"
      BY DEF Idle
    <3> QED
      BY <2>3, <3>1, IdleInv
  <2>5. TypeOK
    <3>1. Idle \in Call /\ Len(Idle.read) <= Chunks
      BY IdleInv DEF CallInv, CallOK
    <3>2. notAfter \in Seq(Nat) /\ Len(notAfter) = 1
      BY DEF Init
    <3>3. today \in 0..MaxDay /\ temporary \subseteq Serial /\ excuse \in BOOLEAN
      <4>1. 0 \in 0..MaxDay /\ 1 \in Serial
        BY ConstantsAssumption DEF Serial
      <4>2. today = 0 /\ (temporary = {} \/ temporary = {1}) /\ excuse = FALSE
        BY DEF Init
      <4> QED
        BY <4>1, <4>2
    <3>4. call \in [Procs -> Call] /\ \A p \in Procs : Len(call[p].read) <= Chunks
      BY <2>3, <3>1 DEF Init
    <3> QED
      BY <2>1, <2>2, <3>2, <3>3, <3>4 DEF TypeOK
  <2>6. OneAtATime
    BY <2>2, <2>4 DEF OneAtATime, Half, WindowPc
  <2> QED
    BY <2>2, <2>4, <2>5, <2>6 DEF Inv, Init, Unprovisioned, Alone
<1>2. Inv /\ [Next]_vars => Inv'
  <2> SUFFICES ASSUME Inv, [Next]_vars PROVE Inv'
    OBVIOUS
  <2>1. CASE \E p \in Procs : Start(p) \/ Step(p)
    BY <2>1, StartInv, NvReadInv, CheckProvisionedInv, RenewInv, WriteInv DEF Step
  <2>2. CASE \E p \in Procs : TpmError(p) \/ InternalError(p) \/ Crash(p)
    BY <2>2, ErrorInv
  <2>3. CASE Provision
    BY <2>3, ProvisionInv
  <2>4. CASE DayPasses
    <3>1. today' \in 0..MaxDay /\ UNCHANGED <<notAfter, temporary, nv, call, excuse>>
      BY <2>4 DEF DayPasses, Inv, TypeOK
    <3> QED
      BY <3>1 DEF Inv, TypeOK, Unprovisioned, OneAtATime, Half, Whole, Alone, OtherInWindow,
                  CallInv, CallOK, Locals, Undisturbed, Current, GetsItsCert, StopsAtTemporary
  <2>5. CASE UNCHANGED vars
    BY <2>5 DEF vars, Inv, TypeOK, Unprovisioned, OneAtATime, Half, Whole, Alone, OtherInWindow,
                CallInv, CallOK, Locals, Undisturbed, Current, GetsItsCert, StopsAtTemporary
  <2> QED
    BY <2>1, <2>2, <2>3, <2>4, <2>5 DEF Next
<1> QED
  BY <1>1, <1>2, PTL DEF Spec

\* The variables of AkCert are well typed.
THEOREM TypeCorrect == Spec => []TypeOK
<1>1. Inv => TypeOK
  BY DEF Inv
<1> QED
  BY <1>1, Invariant, PTL

\* WriteAikCert loses the certificate only when a replacement was interrupted
\* half way or two of them overlapped.
THEOREM CertLossHasCause == Spec => []CertLossNeedsCause
<1>1. Inv => CertLossNeedsCause
  BY DEF Inv, OneAtATime, CertLossNeedsCause
<1> QED
  BY <1>1, Invariant, PTL

\* Whatever IMDS does, a renewal never makes an undisturbed Attest() fail or
\* send a certificate other than a complete one, its own if it renewed it.
THEOREM RenewalIsHarmless == Spec => []CallGetsItsCert
<1>1. Inv => CallGetsItsCert
  BY DEF Inv, CallInv, GetsItsCert, CallGetsItsCert
<1> QED
  BY <1>1, Invariant, PTL

\* A call as DamageStays knows it: before the certificate is read, or past it
Harmless(c, data) == \/ c.pc \in {"idle", "evidence"}
                     \/ c.pc = "check" /\ \A k \in DOMAIN c.read : c.read[k] = data[k]

\* A step of one call that leaves NV alone keeps damage.
LEMMA GotoKeepsDamage ==
  ASSUME Inv, Damaged, NEW p \in Procs, NEW c, call' = [call EXCEPT ![p] = c], nv' = nv,
         Harmless(c, nv.data)
  PROVE  Damaged'
<1>1. \A q \in Procs : call'[q] = IF q = p THEN c ELSE call[q]
  BY DEF Inv, TypeOK
<1> QED
  BY <1>1 DEF Damaged, Harmless, Whole

\* Reading a damaged certificate ends the check.
LEMMA NvReadKeepsDamage ==
  ASSUME Inv, Damaged, NEW p \in Procs, NvRead(p)
  PROVE  Damaged'
<1> DEFINE c == call[p]
           data == Append(c.read, nv.data[Len(c.read) + 1])
<1>0. /\ CallOK(c) /\ c \in Call /\ nv.data \in Data
      /\ c.pc \in {"check", "evidence"} /\ Harmless(c, nv.data)
  BY CallOf DEF NvRead, Damaged, Harmless
<1>1. c.read \in Seq(Serial \cup {Blank}) /\ Len(c.read) < Chunks
  BY <1>0 DEF CallOK, Call, Locals, ReadPc
<1>2. Len(c.read) + 1 \in 1..Chunks /\ nv.data[Len(c.read) + 1] \in Serial \cup {Blank}
  BY <1>0, <1>1 DEF Data
<1>3. /\ data \in Seq(Serial \cup {Blank}) /\ Len(data) = Len(c.read) + 1
      /\ c.pc = "check" => \A k \in DOMAIN data : data[k] = nv.data[k]
  <2>1. \A k \in DOMAIN data : \/ k \in DOMAIN c.read /\ data[k] = c.read[k]
                               \/ k = Len(c.read) + 1 /\ data[k] = nv.data[k]
    BY <1>1, <1>2
  <2> QED
    BY <1>0, <1>1, <1>2, <2>1 DEF Harmless
<1> HIDE DEF data
<1> DEFINE d == IF ~nv.written THEN ReadFailed(c)
                ELSE IF Len(data) < Chunks THEN [c EXCEPT !.read = data]
                ELSE AfterRead(c, data)
<1>4. Goto(p, d)
  BY DEF NvRead, data
<1>5. Harmless(d, nv.data)
  <2>1. CASE ~nv.written
    BY <1>0, <2>1 DEF ReadFailed, Returned, Idle, Harmless
  <2>2. CASE nv.written /\ Len(data) < Chunks
    <3>1. d.pc = c.pc /\ d.read = data
      BY <1>0, <2>2 DEF Call
    <3> QED
      BY <1>0, <1>3, <3>1 DEF Harmless
  <2>3. CASE nv.written /\ ~(Len(data) < Chunks)
    <3>1. d = AfterRead(c, data)
      BY <2>3
    <3>2. CASE c.pc = "evidence"
      BY <3>1, <3>2, ZenonT(40) DEF AfterRead, Returned, Idle, Harmless
    <3>3. CASE c.pc = "check"
      <4>1. Len(data) = Chunks
        BY <1>1, <1>3, <2>3
      <4>2. data = nv.data
        BY <1>0, <1>3, <3>3, <4>1, FullReading
      <4>3. ~IsCert(data)
        BY <2>3, <4>2 DEF Damaged, Whole
      <4>4. d.pc = "evidence"
        BY <1>0, <3>1, <3>3, <4>3 DEF AfterRead, AfterParse, Evidence, Call
      <4> QED
        BY <4>4 DEF Harmless
    <3> QED
      BY <1>0, <3>2, <3>3
  <2> QED
    BY <2>1, <2>2, <2>3
<1> HIDE DEF d
<1> QED
  BY <1>4, <1>5, GotoKeepsDamage DEF Goto

\* The library never repairs a certificate it lost or tore.
THEOREM DamageIsForGood == Spec => DamageStays
<1>1. Inv /\ [Next]_vars => [Damaged => Damaged']_vars
  <2> SUFFICES ASSUME Inv, [Next]_vars, Damaged PROVE Damaged'
    OBVIOUS
  <2>0. \A p \in Procs : call[p] \in Call /\ call[p].pc \in {"idle", "evidence", "check"}
    BY CallOf DEF Damaged
  <2>1. ASSUME NEW p \in Procs, Start(p) PROVE Damaged'
    <3> DEFINE c == [Idle EXCEPT !.pc = "check", !.disturbed = ~Whole \/ OtherInWindow(p)]
    <3>1. call' = [call EXCEPT ![p] = c] /\ nv' = nv
      BY <2>1 DEF Start, Goto
    <3>2. c.pc = "check" /\ c.read = <<>>
      BY DEF Idle
    <3> QED
      BY <3>1, <3>2, DefaultTypes, GotoKeepsDamage DEF Harmless
  <2>2. ASSUME NEW p \in Procs, Step(p) PROVE Damaged'
    <3>1. NvRead(p)
      BY <2>0, <2>2 DEF Step, CheckProvisioned, GetVmId, RenewSync, RenewAsync,
                        NvUndefineSpace, NvDefineSpace, NvWrite
    <3> QED
      BY <3>1, NvReadKeepsDamage
  <2>3. ASSUME NEW p \in Procs, TpmError(p) \/ InternalError(p) \/ Crash(p) PROVE Damaged'
    <3> DEFINE c == [call[p] EXCEPT !.fault = TRUE]
    <3>1. c.pc = call[p].pc /\ c.pc \in {"idle", "evidence", "check"} /\ c \in Call
      BY <2>0 DEF Call
    <3>2. /\ \A code : Returned(c, code).pc = "idle"
          /\ Evidence(c).pc = "evidence" /\ Idle.pc = "idle"
      BY <3>1 DEF Returned, Evidence, Idle, Call
    <3>3. c.pc # "renew_read" => ReadFailed(c).pc = "idle"
      BY <3>2 DEF ReadFailed
    <3> HIDE DEF c
    <3>4. CASE TpmError(p)
      <4>1. PICK d : /\ d = CASE c.pc \in {"check", "renew_read", "evidence"} -> ReadFailed(c)
                              [] c.pc = "ak_pub" -> Returned(c, Provisioned(c, "ERROR_TPM_OPERATION_FAILURE"))
                              [] c.pc \in {"undefine"} \cup WindowPc -> Evidence(c)
                     /\ call' = [call EXCEPT ![p] = d] /\ nv' = nv
                     /\ c.pc \in {"check", "ak_pub", "renew_read", "undefine", "define", "write", "evidence"}
        BY <3>4 DEF TpmError, c
      <4>2. c.pc \in {"evidence", "check"}
        BY <3>1, <4>1
      <4>3. d = ReadFailed(c)
        BY <4>1, <4>2 DEF WindowPc
      <4>4. d.pc = "idle"
        BY <3>3, <4>2, <4>3
      <4> QED
        BY <4>1, <4>4, GotoKeepsDamage DEF Harmless
    <3>5. CASE InternalError(p)
      <4>1. PICK d : /\ d \in {Evidence(c), Returned(c, "ERROR_TPM_INTERNAL_FAILURE")}
                     /\ call' = [call EXCEPT ![p] = d] /\ nv' = nv
        BY <3>1, <3>5 DEF InternalError, Goto, c
      <4> QED
        BY <3>2, <4>1, GotoKeepsDamage DEF Harmless
    <3>6. CASE Crash(p)
      BY <3>2, <3>6, GotoKeepsDamage DEF Crash, Harmless
    <3> QED
      BY <2>3, <3>4, <3>5, <3>6
  <2>4. ~Provision
    BY DEF Provision, Damaged, Whole, Inv, Unprovisioned, TypeOK, IsCert, Serial
  <2>5. CASE DayPasses \/ UNCHANGED vars
    BY <2>5 DEF DayPasses, vars, Damaged, Whole
  <2> QED
    BY <2>1, <2>2, <2>3, <2>4, <2>5 DEF Next
<1> QED
  BY <1>1, Invariant, PTL DEF Spec, DamageStays
=============================================================================
