------------------------ MODULE CryptoBackendsProofs ------------------------
(***************************************************************************)
(* Proofs about CryptoBackends, for both builds, for every set of roots,   *)
(* chains and tokens and for every size of a secret, a key, a block and a  *)
(* tag: the verdicts of ParseToken, decrypt_secret and IsValidHclReport,   *)
(* and that what EncryptWithPadding makes can be unwrapped.                *)
(*                                                                         *)
(* The argument is a program logic.  Good(c, s, a) says that the sequence  *)
(* s of instructions, run by the call c from the abstract state a, meets   *)
(* at every step what the step asks of the abstract state (Fits), and      *)
(* ends, if it ends normally, in one that says all there is to say         *)
(* (Complete).  Runs(c, s, a, b) says that s takes a to b, whatever        *)
(* follows it.  Two views share these rules: in the view "verdict" the     *)
(* abstract state is what the call has found out so far, its knowledge, in *)
(* the view "holdings", of which CryptoBackendsHoldings makes use, it is   *)
(* what the call holds and what the objects that it has constructed will   *)
(* release.                                                                *)
(*                                                                         *)
(* VerdictInv relates the knowledge to the state: a call that runs knows   *)
(* enough for the rest of its code, one that was refused had a reason.     *)
(***************************************************************************)
EXTENDS CryptoBackends, WellFoundedInduction, SequenceTheorems, FiniteSetTheorems, TLAPS

-----------------------------------------------------------------------------
(* What a call knows *)

Data == {"encryptedEcdhPrivate", "encryptedSecret"}
KeyOf(data) == IF data = "encryptedSecret" THEN "derived" ELSE "transport"

TokenConditions ==
  {"is_pkcs8", "is_ecc", "point_known", "cng_takes_private", "ossl_takes_private",
   "is_spki", "cng_takes_public", "ossl_takes_public", "same_curve"}
ReportConditions == {"type_known", "hash_known", "hash_matches"}
ChainConditions == {"has_x5c", "chain_verifies", "signature_verifies"}
Fields == {"private", "public"}
Conditions == TokenConditions \cup ReportConditions \cup ChainConditions \cup Fields
Keys == {"none", "transport", "derived"}

\* key: the AES key; data: what was measured last; opened: what was decrypted,
\* or encrypted, with its key; nonempty: what had more than its tag; holds: the
\* other tests that were passed, and the keys that were written; decoded: the certificates of x5c that were
\* loaded; added, built: those in the store and in the chain, 0 for the roots
Knowledge ==
  [key : Keys, data : Data \cup {"none"}, opened : SUBSET Data, nonempty : SUBSET Data,
   holds : SUBSET Conditions, decoded : SUBSET Nat, added : SUBSET Nat, built : SUBSET Nat]

Nothing ==
  [key |-> "none", data |-> "none", opened |-> {}, nonempty |-> {}, holds |-> {},
   decoded |-> {}, added |-> {0}, built |-> {}]

ChainCalls == {"verify", "generate"}
Direction(c) == IF c.name = "protect" THEN "encrypt" ELSE "decrypt"
Intermediates(c) == {0} \cup 2..c.last

\* The context of a call: what is asked about it, its name, the build, the
\* length of x5c
Context(view) ==
  [view |-> view, name |-> call.name, backend |-> backend,
   last |-> IF call.name \in ChainCalls THEN Len(call.x5c) ELSE 0]

\* The conditions on the keys of a token, and the form of a key that is written
PrivateConditions(c) ==
  IF c.backend = "windows" THEN {"is_pkcs8", "is_ecc", "point_known", "cng_takes_private"}
  ELSE {"ossl_takes_private"}
PublicConditions(c) ==
  IF c.backend = "windows" THEN {"is_spki", "cng_takes_public"} ELSE {"ossl_takes_public"}
DeriveConditions(c) == IF c.backend = "windows" THEN {} ELSE {"same_curve"}
Needed(c) == (PrivateConditions(c) \cup PublicConditions(c)) \cup DeriveConditions(c)
Form(build, field) == IF build # "windows" /\ field = "private" THEN "sec1" ELSE "good"

Calm == {"request", "new", "allocate", "malloc", "own", "release", "copy", "chained"}
Neutral == Calm \cup {"constructed", "end"}

\* a is enough to judge the outcome of the test
CanTest(c, condition, a) ==
  \/ condition = "not_empty" /\ c.name = "unwrap" /\ a.data \in Data
  \/ condition \in Needed(c) /\ c.name = "unwrap"
  \/ condition = "same_curve" /\ c.name = "protect"
  \/ condition \in ReportConditions /\ c.name = "report"
  \/ condition \in ChainConditions \ {"chain_verifies"} /\ c.name \in ChainCalls
  \/ /\ condition = "chain_verifies" /\ c.name \in ChainCalls
     /\ (IF c.backend = "windows" THEN a.built ELSE a.added) = Intermediates(c)

\* a is enough to judge the outcome of x
Judges(c, x, a) ==
  \/ x.op \in Neutral
  \/ x.op = "assign" /\ x.key \in Keys
  \/ /\ x.op = "measure" /\ c.name \in {"unwrap", "protect"}
     /\ x.data \in Data /\ x.direction = Direction(c)
  \/ /\ x.op = "last" /\ c.name \in {"unwrap", "protect"}
     /\ x.data \in Data /\ x.direction = Direction(c)
     /\ a.data = x.data /\ a.key = KeyOf(x.data)
  \/ /\ x.op = "load" /\ c.name \in ChainCalls
     /\ x.index \in 1..c.last \/ (x.index = 1 /\ "has_x5c" \in a.holds)
  \/ x.op = "add" /\ c.name \in ChainCalls /\ x.index \in 2..c.last
  \/ x.op = "build_chain" /\ c.name \in ChainCalls
  \/ /\ x.op = "write" /\ c.name = "protect"
     /\ x.field \in Fields /\ x.form = Form(c.backend, x.field)
  \/ x.op = "test" /\ CanTest(c, x.condition, a)

\* What is known once x has worked
Discover(x, a) ==
  CASE x.op = "assign" -> [a EXCEPT !.key = x.key]
    [] x.op = "measure" -> [a EXCEPT !.data = x.data]
    [] x.op = "last" -> [a EXCEPT !.opened = @ \cup {x.data}]
    [] x.op = "write" -> [a EXCEPT !.holds = @ \cup {x.field}]
    [] x.op = "load" -> [a EXCEPT !.decoded = @ \cup {x.index}]
    [] x.op = "add" -> [a EXCEPT !.added = @ \cup {x.index}]
    [] x.op = "build_chain" -> [a EXCEPT !.built = @ \cup a.added]
    [] x.op = "test" /\ x.condition = "not_empty" -> [a EXCEPT !.nonempty = @ \cup {a.data}]
    [] x.op = "test" /\ x.condition # "not_empty" -> [a EXCEPT !.holds = @ \cup {x.condition}]
    [] OTHER -> a

\* What a call that ends normally knows
KnowsAll(c, a) ==
  /\ c.name = "unwrap" => Data \subseteq a.opened \cap a.nonempty /\ Needed(c) \subseteq a.holds
  /\ c.name = "protect" => Data \subseteq a.opened /\ Fields \subseteq a.holds
  /\ c.name = "report" => ReportConditions \subseteq a.holds
  /\ c.name = "verify" => ChainConditions \subseteq a.holds
  /\ c.name = "generate" => ChainConditions \ {"has_x5c"} \subseteq a.holds
  /\ c.name \in ChainCalls => 1..c.last \subseteq a.decoded

-----------------------------------------------------------------------------
(* What a call holds *)

\* A resource is a pair, of its owner and a name.  Four are counted one by one.
Shared == hSharedSecret("ecdhPrivate")
Specials == {hAesKey, Shared, rootContext, mdCtx}
Owners ==
  {"aesWrapper", "ecdhPrivate", "ecdhPublic", "ImportPkcs8PrivateKey", "ImportSubjectPublicKeyInfo",
   "ExportPkcs8PrivateKey", "ExportSubjectPublicKeyInfo", "hkdf", "Expand", "BcryptSha", "x509",
   "intermediate", "VerifySignature", "rootCA", "intermediateCA", "leafCert", "convertToBcryptKey",
   "generateKey"}
Places == Owners \cup {"key", "secret", "roots", "contexts"}

\* Of an owner: what is live, what its members point to, what objects that have
\* been constructed will release.  n: how many of hAesKey, of the shared secret,
\* of rootContext and of mdCtx are live; member: a member points to it; open: how
\* many objects will release it; hkdf: a BcryptHKDF was constructed; twice: the
\* secret was released when it was not live.  Numbers, 1 for yes.
V(live_, members_, open_) == [live |-> live_, members |-> members_, open |-> open_]
Kv(n, member, open_) == [n |-> n, member |-> member, open |-> open_]
Sv(n, member, open_, hkdf, twice_) ==
  [n |-> n, member |-> member, open |-> open_, hkdf |-> hkdf, twice |-> twice_]
Count(n) == [n |-> n]

Put(a, p, v) == [a EXCEPT ![p] = v]

Holdings(a) ==
  /\ a = [p \in Places |-> a[p]]
  /\ \A o \in Owners : a[o] = V(a[o].live, a[o].members, a[o].open)
  /\ \E n \in 0..2, m \in 0..1, p \in 0..1 : a["key"] = Kv(n, m, p)
  /\ \E n \in 0..1, m \in 0..1, p \in 0..2, h \in 0..1, t \in 0..1 : a["secret"] = Sv(n, m, p, h, t)
  /\ \E n \in 0..Cardinality(TrustedRoots) + 1 : a["roots"] = Count(n)
  /\ \E n \in Nat : a["contexts"] = Count(n)

Free ==
  [p \in Places |->
     IF p \in Owners THEN V({}, {}, {})
     ELSE IF p = "key" THEN Kv(0, 0, 0)
     ELSE IF p = "secret" THEN Sv(0, 0, 0, 0, 0) ELSE Count(0)]

\* What the code never releases, and what it does not release on an error
OnWindows(c) == c.backend = "windows"
Secrets == {"unwrap", "protect"}
Never(c, o) ==
  IF ~OnWindows(c) THEN {}
  ELSE CASE o = "x509" /\ c.name \in ChainCalls -> {"pLeafCertContext", "chainContext"}
         [] o = "intermediate" /\ c.name \in ChainCalls -> 2..c.last
         [] o \in {"ImportPkcs8PrivateKey", "ImportSubjectPublicKeyInfo"} /\ c.name = "unwrap" -> {"pekb"}
         [] o = "ExportPkcs8PrivateKey" /\ c.name = "protect" ->
              {"privateKeyBlob", "pbCurveParameters", "PublicKey", "CryptBitBlob", "privateKeyInfo",
               "derPrivateBytes"}
         [] o = "ExportSubjectPublicKeyInfo" /\ c.name = "protect" ->
              {"publicKeyBlob", "CryptBitBlob", "pbCurveParameters", "PublicKey", "Parameters",
               "pszObjId", "derPublicBytes"}
         [] OTHER -> {}
OnError(c, o) ==
  CASE o = "aesWrapper" -> {"hAesHandle"}
    [] o = "ImportPkcs8PrivateKey" -> {"privateKeyInfo", "eccPrivateInfo"}
    [] o = "ImportSubjectPublicKeyInfo" -> {"PublicKeyInfo"}
    [] o = "Expand" -> {"hHash"}
    [] o = "VerifySignature" -> {"hKey"}
    [] o = "generateKey" -> {"ctx"}
    [] o = "x509" -> {"hStore", "store", "intermediate_certs", "leafPrivateKey"}
    [] o = "intermediate" /\ c.name \in ChainCalls -> 2..c.last
    [] OTHER -> {}

\* Whatever is thrown here, every object that has been constructed releases what
\* it holds, the shared secret alone is released twice, and only if there is a
\* BcryptHKDF, and what is left may be left
SafeOwner(c, o, v) ==
  /\ v.live \ (v.open \cap v.members) \subseteq Never(c, o) \cup OnError(c, o)
  /\ v.open \cap v.members \subseteq v.live
SafeKey(c, v) ==
  /\ v.open = 1 => v.n >= v.member
  /\ v.open = 1 /\ v.member = 0 => v.n = 0
  /\ v.open = 0 => v.n <= 1
  /\ v.n # 0 => OnWindows(c) /\ c.name \in Secrets
SafeSecret(c, v) ==
  /\ v.n = 1 => v.member = 1 /\ v.open >= 1
  /\ v.hkdf = 0 => v.twice = 0 /\ v.open <= 1 /\ (v.member = 1 /\ v.open = 1 => v.n = 1)
  /\ v.hkdf = 1 => /\ OnWindows(c) /\ v.member = 1
                   /\ \/ v.open = 2 /\ v.n = 1 /\ v.twice = 0
                      \/ v.open = 1 /\ v.n = 0 /\ v.twice = 0
                      \/ v.open = 0 /\ v.n = 0 /\ v.twice = 1
SafeRoots(c, v) == v.n # 0 => OnWindows(c) /\ c.name \in ChainCalls
SafeContexts(c, v) == v.n # 0 => ~OnWindows(c) /\ c.name \in Secrets \cup {"report"}

Safe(c, a) ==
  /\ \A o \in Owners : SafeOwner(c, o, a[o])
  /\ SafeKey(c, a["key"]) /\ SafeSecret(c, a["secret"])
  /\ SafeRoots(c, a["roots"]) /\ SafeContexts(c, a["contexts"])
  /\ a["secret"].hkdf = 1 <=> "hAlg" \in a["hkdf"].members

Throwing == {"request", "new", "allocate", "measure", "chained", "last", "load", "test"}
Plain(r) == r \notin Specials /\ \E o \in Owners : r = <<o, r[2]>>
Slice(D, o) == {r[2] : r \in {q \in D \ Specials : q[1] = o}}

\* A resource is live once; a destructor releases nothing twice
Fresh(x, a) ==
  \/ Plain(x.what) /\ x.what[2] \notin a[x.what[1]].live
  \/ x.op = "new" /\ x.what = hAesKey /\ a["key"].n <= 1
  \/ x.op = "new" /\ x.what = Shared /\ a["secret"].n = 0
  \/ x.op = "allocate" /\ x.what = rootContext /\ a["roots"].n <= Cardinality(TrustedRoots)
  \/ x.op = "allocate" /\ x.what = mdCtx
Openable(D, a) ==
  /\ \A r \in D \ {hAesKey, Shared} : Plain(r)
  /\ \A o \in Owners : Slice(D, o) \cap a[o].open = {}
  /\ hAesKey \in D => a["key"].open = 0
  /\ Shared \in D => a["secret"].open <= 1
Closable(c, D, a) ==
  /\ \A o \in Owners : Slice(D, o) \cap a[o].members \subseteq a[o].live
  /\ hAesKey \in D => a["key"].n >= a["key"].member
  /\ Shared \in D /\ a["secret"].member = 1 /\ a["secret"].n = 0 => OnWindows(c)

Keeps(c, x, a) ==
  /\ Holdings(a)
  /\ x.op \in Throwing => Safe(c, a)
  /\ x.op \in {"new", "allocate", "malloc"} => Fresh(x, a)
  /\ x.op \in {"own", "release"} => Plain(x.what)
  /\ x.op = "constructed" => Openable(x.destructor, a)
  /\ x.op = "end" => Closable(c, x.destructor, a)

\* What is held once x has worked
Taken(x, a) ==
  LET r == x.what IN
  CASE r = hAesKey -> Put(a, "key", Kv(a["key"].n + 1, 1, a["key"].open))
    [] r = Shared -> Put(a, "secret", Sv(1, 1, a["secret"].open, a["secret"].hkdf, a["secret"].twice))
    [] r = rootContext -> Put(a, "roots", Count(a["roots"].n + 1))
    [] r = mdCtx -> Put(a, "contexts", Count(a["contexts"].n + 1))
    [] OTHER -> Put(a, r[1], V(a[r[1]].live \cup {r[2]},
                               IF x.op = "new" THEN a[r[1]].members \cup {r[2]} ELSE a[r[1]].members,
                               a[r[1]].open))
Opened(a, D) ==
  [p \in Places |->
     IF p \in Owners THEN V(a[p].live, a[p].members, a[p].open \cup Slice(D, p))
     ELSE IF p = "key" /\ hAesKey \in D THEN Kv(a[p].n, a[p].member, a[p].open + 1)
     ELSE IF p = "secret" /\ Shared \in D
          THEN Sv(a[p].n, a[p].member, a[p].open + 1, IF hAlg \in D THEN 1 ELSE a[p].hkdf, a[p].twice)
     ELSE a[p]]
Destroyed(a, D) ==
  [p \in Places |->
     IF p \in Owners
     THEN V(a[p].live \ (Slice(D, p) \cap a[p].members), a[p].members, a[p].open \ Slice(D, p))
     ELSE IF p = "key" /\ hAesKey \in D THEN Kv(a[p].n - a[p].member, a[p].member, a[p].open - 1)
     ELSE IF p = "secret" /\ Shared \in D
          THEN Sv(IF a[p].member = 1 THEN 0 ELSE a[p].n, a[p].member, a[p].open - 1, a[p].hkdf,
                  IF a[p].member = 1 /\ a[p].n = 0 THEN 1 ELSE a[p].twice)
     ELSE a[p]]

Track(x, a) ==
  CASE x.op \in {"new", "allocate", "malloc"} -> Taken(x, a)
    [] x.op = "own" -> Put(a, x.what[1], V(a[x.what[1]].live, a[x.what[1]].members \cup {x.what[2]},
                                           a[x.what[1]].open))
    [] x.op = "release" -> Put(a, x.what[1], V(a[x.what[1]].live \ {x.what[2]}, a[x.what[1]].members,
                                               a[x.what[1]].open))
    [] x.op = "constructed" -> Opened(a, x.destructor)
    [] x.op = "end" -> Destroyed(a, x.destructor)
    [] OTHER -> a

\* What a call that ends normally holds
Settled(c, a) ==
  /\ Holdings(a) /\ Safe(c, a)
  /\ \A o \in Owners : a[o].live = Never(c, o)
  /\ a["key"].n = IF OnWindows(c) /\ c.name \in Secrets THEN 1 ELSE 0
  /\ a["secret"].n = 0
  /\ a["roots"].n = IF OnWindows(c) /\ c.name = "verify" THEN Cardinality(TrustedRoots)
                    ELSE IF OnWindows(c) /\ c.name = "generate" THEN 1 ELSE 0
  /\ a["contexts"].n = IF ~OnWindows(c) /\ c.name \in Secrets \cup {"report"} THEN 1 ELSE 0

-----------------------------------------------------------------------------
(* Sequences of instructions *)

\* The two views
Fits(c, x, a) == IF c.view = "verdict" THEN Judges(c, x, a) ELSE Keeps(c, x, a)
Learn(c, x, a) == IF c.view = "verdict" THEN Discover(x, a) ELSE Track(x, a)
Complete(c, a) == IF c.view = "verdict" THEN KnowsAll(c, a) ELSE Settled(c, a)

IsSeq(s) == \E S : s \in Seq(S)

\* Only what is being run has the end of a scope in it
NoEnds(s) == \A i \in DOMAIN s : s[i].op # "end"

\* Concatenation, under a name the provers keep
Cat(s, u) == s \o u

\* What follows the first instruction, x, of a sequence that goes on with s
EndOf(x) == [op |-> "end", destructor |-> x.destructor]
Following(x, s) == IF x.op = "constructed" THEN Cat(x.scope, Cat(<<EndOf(x)>>, s)) ELSE s

\* The pair <<s, a>> is final or leads to one of R
Follows(c, R, s, a) ==
  /\ IsSeq(s)
  /\ s = << >> => Complete(c, a)
  /\ s # << >> => /\ Fits(c, s[1], a)
                  /\ s[1].op = "constructed" => IsSeq(s[1].scope) /\ NoEnds(s[1].scope)
                  /\ <<Following(s[1], Tail(s)), Learn(c, s[1], a)>> \in R

Closed(c, R) == \A s, a : <<s, a>> \in R => Follows(c, R, s, a)

Good(c, s, a) == \E R : Closed(c, R) /\ <<s, a>> \in R

Runs(c, s, a, b) == IsSeq(s) /\ NoEnds(s) /\ \A k : Good(c, k, b) => Good(c, Cat(s, k), a)

-----------------------------------------------------------------------------
(* Sequences over some set *)

\* Two sequences over some sets are sequences over one
LEMMA CommonSet ==
  ASSUME NEW s, NEW u, IsSeq(s), IsSeq(u) PROVE \E S : s \in Seq(S) /\ u \in Seq(S)
<1>1. PICK S : s \in Seq(S)
  BY DEF IsSeq
<1>2. PICK T : u \in Seq(T)
  BY DEF IsSeq
<1>3. S \subseteq S \cup T /\ T \subseteq S \cup T
  OBVIOUS
<1>4. s \in Seq(S \cup T) /\ u \in Seq(S \cup T)
  BY <1>1, <1>2, <1>3, SeqMonotonic
<1> QED
  BY <1>4

\* Concatenations are sequences
LEMMA CatIsSeq == ASSUME NEW s, NEW u, IsSeq(s), IsSeq(u) PROVE IsSeq(Cat(s, u))
<1>1. PICK S : s \in Seq(S) /\ u \in Seq(S)
  BY CommonSet
<1>2. s \o u \in Seq(S)
  BY <1>1
<1> QED
  BY <1>2 DEF IsSeq, Cat

\* Concatenation is associative
LEMMA CatAssociative ==
  ASSUME NEW s, NEW u, NEW w, IsSeq(s), IsSeq(u), IsSeq(w)
  PROVE  Cat(Cat(s, u), w) = Cat(s, Cat(u, w))
<1>1. PICK S : s \in Seq(S) /\ u \in Seq(S)
  BY CommonSet
<1>2. PICK T : w \in Seq(T)
  BY DEF IsSeq
<1>3. S \subseteq S \cup T /\ T \subseteq S \cup T
  OBVIOUS
<1>4. s \in Seq(S \cup T) /\ u \in Seq(S \cup T) /\ w \in Seq(S \cup T)
  BY <1>1, <1>2, <1>3, SeqMonotonic
<1>5. (s \o u) \o w = s \o (u \o w)
  BY <1>4, ConcatAssociative
<1> QED
  BY <1>5 DEF Cat

\* Nothing before or behind a sequence
LEMMA CatEmpty ==
  ASSUME NEW s, IsSeq(s) PROVE Cat(<< >>, s) = s /\ Cat(s, << >>) = s /\ IsSeq(<< >>)
<1>1. PICK S : s \in Seq(S)
  BY DEF IsSeq
<1>2. << >> \o s = s /\ s \o << >> = s /\ << >> \in Seq(S)
  BY <1>1, ConcatEmptySeq
<1> QED
  BY <1>2 DEF Cat, IsSeq

\* The first element and the tail of a concatenation
LEMMA TailOfCat ==
  ASSUME NEW s, NEW u, IsSeq(s), IsSeq(u), s # << >>
  PROVE  /\ Cat(s, u) # << >> /\ Cat(s, u)[1] = s[1]
         /\ IsSeq(Tail(s)) /\ Tail(Cat(s, u)) = Cat(Tail(s), u)
<1>1. PICK S : s \in Seq(S) /\ u \in Seq(S)
  BY CommonSet
<1> DEFINE r == s \o u
           p == Tail(s) \o u
<1>2. /\ Len(s) \in Nat \ {0} /\ Len(u) \in Nat /\ Tail(s) \in Seq(S) /\ Len(Tail(s)) = Len(s) - 1
      /\ \A i \in 1..(Len(s) - 1) : Tail(s)[i] = s[i + 1]
  BY <1>1
<1>3. /\ r \in Seq(S) /\ Len(r) = Len(s) + Len(u)
      /\ \A i \in 1..Len(s) + Len(u) : r[i] = IF i <= Len(s) THEN s[i] ELSE u[i - Len(s)]
  BY <1>1, ConcatProperties
<1>4. /\ p \in Seq(S) /\ Len(p) = Len(Tail(s)) + Len(u)
      /\ \A i \in 1..Len(Tail(s)) + Len(u) :
           p[i] = IF i <= Len(Tail(s)) THEN Tail(s)[i] ELSE u[i - Len(Tail(s))]
  BY <1>1, <1>2, ConcatProperties
<1> HIDE DEF r, p
<1>5. r # << >>
  BY <1>2, <1>3
<1>6. /\ Tail(r) \in Seq(S) /\ Len(Tail(r)) = Len(r) - 1
      /\ \A i \in 1..(Len(r) - 1) : Tail(r)[i] = r[i + 1]
  BY <1>3, <1>5
<1>7. ASSUME NEW i \in 1..Len(Tail(r)) PROVE Tail(r)[i] = p[i]
  <2>1. /\ i \in Int /\ i >= 1 /\ i <= Len(s) + Len(u) - 1
        /\ Tail(r)[i] = r[i + 1] /\ i + 1 \in 1..Len(s) + Len(u)
    BY <1>2, <1>3, <1>6
  <2>2. i \in 1..Len(Tail(s)) + Len(u)
    BY <1>2, <2>1
  <2>3. r[i + 1] = IF i + 1 <= Len(s) THEN s[i + 1] ELSE u[i + 1 - Len(s)]
    BY <1>3, <2>1
  <2>4. p[i] = IF i <= Len(s) - 1 THEN Tail(s)[i] ELSE u[i - (Len(s) - 1)]
    BY <1>2, <1>4, <2>2
  <2>5. CASE i + 1 <= Len(s)
    BY <1>2, <2>1, <2>3, <2>4, <2>5
  <2>6. CASE ~(i + 1 <= Len(s))
    <3>1. i + 1 - Len(s) = i - (Len(s) - 1) /\ ~(i <= Len(s) - 1)
      BY <1>2, <2>1, <2>6
    <3> QED
      BY <2>1, <2>3, <2>4, <2>6, <3>1
  <2> QED
    BY <2>5, <2>6
<1>8. Len(Tail(r)) = Len(p)
  BY <1>2, <1>3, <1>4, <1>6
<1>9. Tail(r) = p
  BY <1>4, <1>6, <1>7, <1>8, SeqEqual
<1>10. r[1] = s[1]
  BY <1>2, <1>3
<1> QED
  BY <1>2, <1>5, <1>9, <1>10 DEF r, p, Cat, IsSeq

\* One element in front
LEMMA CatOne ==
  ASSUME NEW x, NEW k, IsSeq(k)
  PROVE  /\ IsSeq(<<x>>) /\ IsSeq(Cat(<<x>>, k)) /\ Cat(<<x>>, k) # << >>
         /\ Cat(<<x>>, k)[1] = x /\ Tail(Cat(<<x>>, k)) = k
<1>1. <<x>> \in Seq({x}) /\ <<x>> # << >> /\ <<x>>[1] = x /\ Tail(<<x>>) = << >>
  OBVIOUS
<1>2. IsSeq(<<x>>)
  BY <1>1 DEF IsSeq
<1> DEFINE y == <<x>>
<1>3. IsSeq(y) /\ y # << >> /\ y[1] = x /\ Tail(y) = << >>
  BY <1>1, <1>2
<1> HIDE DEF y
<1>4. Cat(y, k) # << >> /\ Cat(y, k)[1] = x /\ Tail(Cat(y, k)) = Cat(<< >>, k)
  BY <1>3, TailOfCat
<1>5. Tail(Cat(y, k)) = k
  BY <1>4, CatEmpty
<1>6. IsSeq(Cat(y, k))
  BY <1>3, CatIsSeq
<1> QED
  BY <1>2, <1>4, <1>5, <1>6 DEF y

-----------------------------------------------------------------------------
(* Rules *)

\* More pairs to lead to
LEMMA FollowsMonotone ==
  ASSUME NEW c, NEW R, NEW Q, R \subseteq Q, NEW s, NEW a, Follows(c, R, s, a)
  PROVE  Follows(c, Q, s, a)
BY DEF Follows

\* What is left of a good sequence is good
LEMMA GoodParts ==
  ASSUME NEW c, NEW s, NEW a, Good(c, s, a)
  PROVE  /\ IsSeq(s)
         /\ s = << >> => Complete(c, a)
         /\ s # << >> => /\ Fits(c, s[1], a)
                         /\ s[1].op = "constructed" => IsSeq(s[1].scope) /\ NoEnds(s[1].scope)
                         /\ Good(c, Following(s[1], Tail(s)), Learn(c, s[1], a))
<1>1. PICK R : Closed(c, R) /\ <<s, a>> \in R
  BY DEF Good
<1>2. Follows(c, R, s, a)
  BY <1>1 DEF Closed
<1>3. ASSUME s # << >> PROVE Good(c, Following(s[1], Tail(s)), Learn(c, s[1], a))
  BY <1>1, <1>2, <1>3 DEF Follows, Good
<1> QED
  BY <1>2, <1>3 DEF Follows

\* One more pair, that follows from those of a closed set
LEMMA Extend ==
  ASSUME NEW c, NEW R, Closed(c, R), NEW s, NEW a, Follows(c, R, s, a)
  PROVE  Good(c, s, a)
<1> DEFINE Q == R \cup {<<s, a>>}
<1>1. R \subseteq Q /\ <<s, a>> \in Q
  OBVIOUS
<1>2. ASSUME NEW u, NEW b, <<u, b>> \in Q PROVE Follows(c, Q, u, b)
  <2>1. <<u, b>> \in R \/ (u = s /\ b = a)
    BY <1>2
  <2> HIDE DEF Q
  <2>2. Follows(c, R, u, b)
    BY <2>1 DEF Closed
  <2> QED
    BY <1>1, <2>2, FollowsMonotone
<1> HIDE DEF Q
<1>3. Closed(c, Q)
  BY <1>2 DEF Closed
<1> QED
  BY <1>1, <1>3 DEF Good

\* One instruction before a good sequence
LEMMA Before ==
  ASSUME NEW c, NEW x, NEW s, NEW a, IsSeq(s), Fits(c, x, a),
         x.op = "constructed" => IsSeq(x.scope) /\ NoEnds(x.scope),
         Good(c, Following(x, s), Learn(c, x, a))
  PROVE  Good(c, Cat(<<x>>, s), a)
<1>1. PICK R : Closed(c, R) /\ <<Following(x, s), Learn(c, x, a)>> \in R
  BY DEF Good
<1> DEFINE u == Cat(<<x>>, s)
<1>2. IsSeq(u) /\ u # << >> /\ u[1] = x /\ Tail(u) = s
  BY CatOne
<1> HIDE DEF u
<1>3. Follows(c, R, u, a)
  BY <1>1, <1>2 DEF Follows
<1>4. Good(c, u, a)
  BY <1>1, <1>3, Extend
<1> QED
  BY <1>4 DEF u

\* One element
LEMMA Single == ASSUME NEW x PROVE IsSeq(<<x>>) /\ (x.op # "end" => NoEnds(<<x>>)) /\ IsSeq(<< >>) /\ NoEnds(<< >>)
<1>1. <<x>> \in Seq({x}) /\ << >> \in Seq({x}) /\ DOMAIN << >> = {}
  OBVIOUS
<1>2. \A i \in DOMAIN <<x>> : <<x>>[i] = x
  OBVIOUS
<1> QED
  BY <1>1, <1>2 DEF IsSeq, NoEnds

\* Neither part has the end of a scope, neither has the whole
LEMMA NoEndsCat ==
  ASSUME NEW s, NEW u, IsSeq(s), IsSeq(u), NoEnds(s), NoEnds(u) PROVE NoEnds(Cat(s, u))
<1>1. PICK S : s \in Seq(S) /\ u \in Seq(S)
  BY CommonSet
<1>2. /\ s \o u \in Seq(S) /\ Len(s \o u) = Len(s) + Len(u) /\ Len(s) \in Nat /\ Len(u) \in Nat
      /\ DOMAIN s = 1..Len(s) /\ DOMAIN u = 1..Len(u)
      /\ \A i \in 1..Len(s) + Len(u) : (s \o u)[i] = IF i <= Len(s) THEN s[i] ELSE u[i - Len(s)]
  BY <1>1, ConcatProperties
<1> DEFINE r == s \o u
<1>3. DOMAIN r = 1..Len(s) + Len(u)
  BY <1>2
<1>4. ASSUME NEW i \in DOMAIN r PROVE r[i].op # "end"
  <2>1. i \in Int /\ 1 <= i /\ i <= Len(s) + Len(u)
    BY <1>2, <1>3
  <2>2. CASE i <= Len(s)
    <3>1. i \in DOMAIN s /\ r[i] = s[i]
      BY <1>2, <2>1, <2>2
    <3> QED
      BY <3>1 DEF NoEnds
  <2>3. CASE ~(i <= Len(s))
    <3>1. i - Len(s) \in DOMAIN u /\ r[i] = u[i - Len(s)]
      BY <1>2, <2>1, <2>3
    <3> QED
      BY <3>1 DEF NoEnds
  <2> QED
    BY <2>2, <2>3
<1> QED
  BY <1>4 DEF NoEnds, Cat

\* One instruction
LEMMA One ==
  ASSUME NEW c, NEW x, NEW a, x.op \notin {"constructed", "end"}, Fits(c, x, a)
  PROVE  Runs(c, <<x>>, a, Learn(c, x, a))
<1>1. ASSUME NEW k, Good(c, k, Learn(c, x, a)) PROVE Good(c, Cat(<<x>>, k), a)
  <2>1. IsSeq(k) /\ Following(x, k) = k
    BY <1>1, GoodParts DEF Following
  <2> QED
    BY <1>1, <2>1, Before
<1> QED
  BY <1>1, Single DEF Runs

\* Nothing
LEMMA Empty == ASSUME NEW c, NEW a PROVE Runs(c, << >>, a, a)
<1>1. ASSUME NEW k, Good(c, k, a) PROVE Cat(<< >>, k) = k
  BY <1>1, GoodParts, CatEmpty
<1> QED
  BY <1>1, Single DEF Runs

\* One sequence after the other
LEMMA Then ==
  ASSUME NEW c, NEW s, NEW u, NEW a, NEW m, NEW b, Runs(c, s, a, m), Runs(c, u, m, b)
  PROVE  Runs(c, Cat(s, u), a, b)
<1>1. IsSeq(s) /\ IsSeq(u) /\ NoEnds(s) /\ NoEnds(u)
  BY DEF Runs
<1>2. ASSUME NEW k, Good(c, k, b) PROVE Good(c, Cat(Cat(s, u), k), a)
  <2>1. IsSeq(k)
    BY <1>2, GoodParts
  <2>2. Good(c, Cat(s, Cat(u, k)), a)
    BY <1>2 DEF Runs
  <2> QED
    BY <1>1, <2>1, <2>2, CatAssociative
<1>3. IsSeq(Cat(s, u)) /\ NoEnds(Cat(s, u))
  BY <1>1, CatIsSeq, NoEndsCat
<1> QED
  BY <1>2, <1>3 DEF Runs

\* An object and its scope
Constructed(destructor, scope) == [op |-> "constructed", destructor |-> destructor, scope |-> scope]

\* The constructor has worked: the scope is run, then the end of it
LEMMA Scope ==
  ASSUME NEW c, NEW scope, NEW destructor, NEW a, NEW b,
         Fits(c, Constructed(destructor, scope), a),
         Runs(c, scope, Learn(c, Constructed(destructor, scope), a), b),
         Fits(c, EndOf(Constructed(destructor, scope)), b)
  PROVE  Runs(c, <<Constructed(destructor, scope)>>, a,
              Learn(c, EndOf(Constructed(destructor, scope)), b))
<1> DEFINE x == Constructed(destructor, scope)
           e == EndOf(x)
<1>1. x.op = "constructed" /\ x.scope = scope
  BY DEF Constructed
<1>2. e.op = "end"
  BY DEF EndOf
<1>3. Fits(c, x, a) /\ Runs(c, scope, Learn(c, x, a), b) /\ Fits(c, e, b)
  OBVIOUS
<1> HIDE DEF x
<1>4. ASSUME NEW k, Good(c, k, Learn(c, e, b)) PROVE Good(c, Cat(<<x>>, k), a)
  <2>1. IsSeq(k)
    BY <1>4, GoodParts
  <2>2. Good(c, Cat(<<e>>, k), b)
    <3> HIDE DEF e
    <3>1. Following(e, k) = k
      BY <1>2 DEF Following
    <3> QED
      BY <1>2, <1>3, <1>4, <2>1, <3>1, Before
  <2>3. Good(c, Cat(scope, Cat(<<e>>, k)), Learn(c, x, a))
    BY <1>3, <2>2 DEF Runs
  <2>4. Following(x, k) = Cat(scope, Cat(<<e>>, k))
    BY <1>1 DEF Following
  <2>5. IsSeq(x.scope) /\ NoEnds(x.scope)
    BY <1>1, <1>3 DEF Runs
  <2> HIDE DEF e
  <2>6. Good(c, Following(x, k), Learn(c, x, a))
    BY <2>3, <2>4
  <2> QED
    BY <1>3, <2>1, <2>5, <2>6, Before
<1>5. IsSeq(<<x>>) /\ NoEnds(<<x>>)
  BY <1>1, Single
<1>6. Runs(c, <<x>>, a, Learn(c, e, b))
  BY <1>4, <1>5 DEF Runs
<1> QED
  BY <1>6 DEF x

\* Nothing is left to do
LEMMA CompleteIsGood == ASSUME NEW c, NEW a, Complete(c, a) PROVE Good(c, << >>, a)
<1> DEFINE R == {}
<1>1. Closed(c, R)
  BY DEF Closed
<1>2. IsSeq(<< >>)
  BY Single
<1>3. Follows(c, R, << >>, a)
  BY <1>2 DEF Follows
<1> HIDE DEF R
<1> QED
  BY <1>1, <1>3, Extend

\* And what runs up to there is good
LEMMA RunsToEnd ==
  ASSUME NEW c, NEW s, NEW a, NEW b, Runs(c, s, a, b), Good(c, << >>, b)
  PROVE  Good(c, s, a) /\ NoEnds(s)
<1>1. Good(c, Cat(s, << >>), a) /\ IsSeq(s) /\ NoEnds(s)
  BY DEF Runs
<1> QED
  BY <1>1, CatEmpty

\* A sequence that adds nothing to a
Idles(c, s, a) ==
  /\ IsSeq(s)
  /\ \A i \in DOMAIN s :
       s[i].op \notin {"constructed", "end"} /\ Fits(c, s[i], a) /\ Learn(c, s[i], a) = a

\* It leaves a as it is
LEMMA IdleRuns == ASSUME NEW c, NEW s, NEW a, Idles(c, s, a) PROVE Runs(c, s, a, a)
<1>1. PICK S : s \in Seq(S)
  BY DEF Idles, IsSeq
<1> DEFINE Q == {x \in S : x.op \notin {"constructed", "end"} /\ Fits(c, x, a) /\ Learn(c, x, a) = a}
<1>2. s \in Seq(Q)
  <2>1. Len(s) \in Nat /\ s \in [1..Len(s) -> S] /\ DOMAIN s = 1..Len(s)
    BY <1>1
  <2>2. s \in [1..Len(s) -> Q]
    BY <2>1 DEF Idles
  <2> HIDE DEF Q
  <2> QED
    BY <2>1, <2>2
<1>3. \A x \in Q : x.op \notin {"constructed", "end"} /\ Fits(c, x, a) /\ Learn(c, x, a) = a
  OBVIOUS
<1> HIDE DEF Q
<1>4. ASSUME NEW k, Good(c, k, a) PROVE Good(c, Cat(s, k), a)
  <2>1. PICK R : Closed(c, R) /\ <<k, a>> \in R
    BY <1>4 DEF Good
  <2>2. IsSeq(k)
    BY <1>4, GoodParts
  <2> DEFINE P == R \cup {<<Cat(u, k), a>> : u \in Seq(Q)}
  <2>3. R \subseteq P /\ \A u \in Seq(Q) : <<Cat(u, k), a>> \in P
    OBVIOUS
  <2>4. ASSUME NEW w, NEW b, <<w, b>> \in P PROVE Follows(c, P, w, b)
    <3>1. CASE <<w, b>> \in R
      <4> HIDE DEF P
      <4>1. Follows(c, R, w, b)
        BY <2>1, <3>1 DEF Closed
      <4> QED
        BY <2>3, <4>1, FollowsMonotone
    <3>2. CASE <<w, b>> \notin R
      <4>1. PICK u \in Seq(Q) : w = Cat(u, k) /\ b = a
        BY <2>4, <3>2
      <4> HIDE DEF P
      <4>2. u # << >>
        <5>1. SUFFICES ASSUME u = << >> PROVE FALSE
          OBVIOUS
        <5>2. w = k
          BY <2>2, <4>1, <5>1, CatEmpty
        <5> QED
          BY <2>1, <3>2, <4>1, <5>2
      <4>3. IsSeq(u) /\ u[1] \in Q /\ Tail(u) \in Seq(Q)
        BY <4>2 DEF IsSeq
      <4>4. w # << >> /\ w[1] = u[1] /\ Tail(w) = Cat(Tail(u), k) /\ IsSeq(w)
        BY <2>2, <4>1, <4>2, <4>3, TailOfCat, CatIsSeq
      <4>5. /\ w[1].op # "constructed" /\ Fits(c, w[1], b) /\ Learn(c, w[1], b) = a
            /\ <<Tail(w), a>> \in P
        BY <1>3, <2>3, <4>1, <4>3, <4>4
      <4>6. Following(w[1], Tail(w)) = Tail(w)
        BY <4>5 DEF Following
      <4> QED
        BY <4>1, <4>4, <4>5, <4>6 DEF Follows
    <3> QED
      BY <3>1, <3>2
  <2> HIDE DEF P
  <2>5. Closed(c, P)
    BY <2>4 DEF Closed
  <2> QED
    BY <1>2, <2>3, <2>5 DEF Good
<1> QED
  BY <1>4 DEF Runs, Idles, NoEnds

\* A concatenation is the sequence with the elements of both
LEMMA CatIs ==
  ASSUME NEW s, NEW u, NEW w, IsSeq(s), IsSeq(u), IsSeq(w), Len(w) = Len(s) + Len(u),
         \A i \in 1..Len(s) : w[i] = s[i], \A i \in 1..Len(u) : w[Len(s) + i] = u[i]
  PROVE  Cat(s, u) = w
<1>1. PICK S : s \in Seq(S) /\ u \in Seq(S)
  BY CommonSet
<1>2. PICK T : w \in Seq(T)
  BY DEF IsSeq
<1>3. S \subseteq S \cup T /\ T \subseteq S \cup T
  OBVIOUS
<1>4. s \in Seq(S \cup T) /\ u \in Seq(S \cup T) /\ w \in Seq(S \cup T)
  BY <1>1, <1>2, <1>3, SeqMonotonic
<1> DEFINE r == s \o u
<1>5. /\ r \in Seq(S \cup T) /\ Len(r) = Len(s) + Len(u) /\ Len(s) \in Nat /\ Len(u) \in Nat
      /\ \A i \in 1..Len(s) + Len(u) : r[i] = IF i <= Len(s) THEN s[i] ELSE u[i - Len(s)]
  BY <1>4, ConcatProperties
<1> HIDE DEF r
<1>6. ASSUME NEW i \in 1..Len(r) PROVE r[i] = w[i]
  <2>1. CASE i <= Len(s)
    BY <1>5, <2>1
  <2>2. CASE ~(i <= Len(s))
    <3>1. i - Len(s) \in 1..Len(u) /\ i = Len(s) + (i - Len(s))
      BY <1>5, <2>2
    <3>2. w[Len(s) + (i - Len(s))] = u[i - Len(s)]
      BY <3>1
    <3> QED
      BY <1>5, <2>2, <3>1, <3>2
  <2> QED
    BY <2>1, <2>2
<1>7. r = w
  BY <1>4, <1>5, <1>6, SeqEqual
<1> QED
  BY <1>7 DEF r, Cat

\* Literal sequences
LEMMA Tuples ==
  /\ \A p, q : Cat(<<p>>, <<q>>) = <<p, q>>
  /\ \A p, q, x : Cat(<<p, q>>, <<x>>) = <<p, q, x>>
  /\ \A p, q, x, y : Cat(<<p, q, x>>, <<y>>) = <<p, q, x, y>>
  /\ \A p, q, x, y, z : Cat(<<p, q, x, y>>, <<z>>) = <<p, q, x, y, z>>
<1>1. ASSUME NEW p, NEW q PROVE Cat(<<p>>, <<q>>) = <<p, q>>
  <2> DEFINE s == <<p>>
             u == <<q>>
             w == <<p, q>>
  <2>1. s \in Seq({p, q}) /\ u \in Seq({p, q}) /\ w \in Seq({p, q})
    OBVIOUS
  <2>2. Len(s) = 1 /\ Len(u) = 1 /\ Len(w) = 2 /\ w[1] = s[1] /\ w[2] = u[1]
    OBVIOUS
  <2> HIDE DEF s, u, w
  <2>3. IsSeq(s) /\ IsSeq(u) /\ IsSeq(w)
    BY <2>1 DEF IsSeq
  <2>4. /\ Len(w) = Len(s) + Len(u)
        /\ \A i \in 1..Len(s) : w[i] = s[i]
        /\ \A i \in 1..Len(u) : w[Len(s) + i] = u[i]
    BY <2>2
  <2>5. Cat(s, u) = w
    BY <2>3, <2>4, CatIs
  <2> QED
    BY <2>5 DEF s, u, w
<1>2. ASSUME NEW p, NEW q, NEW x PROVE Cat(<<p, q>>, <<x>>) = <<p, q, x>>
  <2> DEFINE s == <<p, q>>
             u == <<x>>
             w == <<p, q, x>>
  <2>1. s \in Seq({p, q, x}) /\ u \in Seq({p, q, x}) /\ w \in Seq({p, q, x})
    OBVIOUS
  <2>2. Len(s) = 2 /\ Len(u) = 1 /\ Len(w) = 3 /\ w[1] = s[1] /\ w[2] = s[2] /\ w[3] = u[1]
    OBVIOUS
  <2> HIDE DEF s, u, w
  <2>3. IsSeq(s) /\ IsSeq(u) /\ IsSeq(w)
    BY <2>1 DEF IsSeq
  <2>4. /\ Len(w) = Len(s) + Len(u)
        /\ \A i \in 1..Len(s) : w[i] = s[i]
        /\ \A i \in 1..Len(u) : w[Len(s) + i] = u[i]
    BY <2>2
  <2>5. Cat(s, u) = w
    BY <2>3, <2>4, CatIs
  <2> QED
    BY <2>5 DEF s, u, w
<1>3. ASSUME NEW p, NEW q, NEW x, NEW y PROVE Cat(<<p, q, x>>, <<y>>) = <<p, q, x, y>>
  <2> DEFINE s == <<p, q, x>>
             u == <<y>>
             w == <<p, q, x, y>>
  <2>1. s \in Seq({p, q, x, y}) /\ u \in Seq({p, q, x, y}) /\ w \in Seq({p, q, x, y})
    OBVIOUS
  <2>2. /\ Len(s) = 3 /\ Len(u) = 1 /\ Len(w) = 4
        /\ w[1] = s[1] /\ w[2] = s[2] /\ w[3] = s[3] /\ w[4] = u[1]
    OBVIOUS
  <2> HIDE DEF s, u, w
  <2>3. IsSeq(s) /\ IsSeq(u) /\ IsSeq(w)
    BY <2>1 DEF IsSeq
  <2>4. /\ Len(w) = Len(s) + Len(u)
        /\ \A i \in 1..Len(s) : w[i] = s[i]
        /\ \A i \in 1..Len(u) : w[Len(s) + i] = u[i]
    BY <2>2
  <2>5. Cat(s, u) = w
    BY <2>3, <2>4, CatIs
  <2> QED
    BY <2>5 DEF s, u, w
<1>4. ASSUME NEW p, NEW q, NEW x, NEW y, NEW z PROVE Cat(<<p, q, x, y>>, <<z>>) = <<p, q, x, y, z>>
  <2> DEFINE s == <<p, q, x, y>>
             u == <<z>>
             w == <<p, q, x, y, z>>
  <2>1. s \in Seq({p, q, x, y, z}) /\ u \in Seq({p, q, x, y, z}) /\ w \in Seq({p, q, x, y, z})
    OBVIOUS
  <2>2. /\ Len(s) = 4 /\ Len(u) = 1 /\ Len(w) = 5
        /\ w[1] = s[1] /\ w[2] = s[2] /\ w[3] = s[3] /\ w[4] = s[4] /\ w[5] = u[1]
    OBVIOUS
  <2> HIDE DEF s, u, w
  <2>3. IsSeq(s) /\ IsSeq(u) /\ IsSeq(w)
    BY <2>1 DEF IsSeq
  <2>4. /\ Len(w) = Len(s) + Len(u)
        /\ \A i \in 1..Len(s) : w[i] = s[i]
        /\ \A i \in 1..Len(u) : w[Len(s) + i] = u[i]
    BY <2>2
  <2>5. Cat(s, u) = w
    BY <2>3, <2>4, CatIs
  <2> QED
    BY <2>5 DEF s, u, w
<1> QED
  BY <1>1, <1>2, <1>3, <1>4, Zenon

\* Two, three, four and five instructions
LEMMA Few ==
  ASSUME NEW c, NEW x1, NEW x2, NEW a0, NEW a1, NEW a2,
         Runs(c, <<x1>>, a0, a1), Runs(c, <<x2>>, a1, a2)
  PROVE  /\ Runs(c, <<x1, x2>>, a0, a2)
         /\ \A x3, a3 : Runs(c, <<x3>>, a2, a3) =>
              /\ Runs(c, <<x1, x2, x3>>, a0, a3)
              /\ \A x4, a4 : Runs(c, <<x4>>, a3, a4) =>
                   /\ Runs(c, <<x1, x2, x3, x4>>, a0, a4)
                   /\ \A x5, a5 : Runs(c, <<x5>>, a4, a5) => Runs(c, <<x1, x2, x3, x4, x5>>, a0, a5)
<1>1. Runs(c, <<x1, x2>>, a0, a2)
  <2>1. Runs(c, Cat(<<x1>>, <<x2>>), a0, a2)
    BY Then
  <2> QED
    BY <2>1, Tuples, Zenon
<1>2. ASSUME NEW x3, NEW a3, Runs(c, <<x3>>, a2, a3) PROVE Runs(c, <<x1, x2, x3>>, a0, a3)
  <2> DEFINE u == <<x1, x2>>
  <2>1. Runs(c, u, a0, a2)
    BY <1>1
  <2> HIDE DEF u
  <2>2. Runs(c, Cat(u, <<x3>>), a0, a3)
    BY <1>2, <2>1, Then
  <2> QED
    BY <2>2, Tuples, Zenon DEF u
<1>3. ASSUME NEW x3, NEW a3, NEW x4, NEW a4, Runs(c, <<x3>>, a2, a3), Runs(c, <<x4>>, a3, a4)
      PROVE  Runs(c, <<x1, x2, x3, x4>>, a0, a4)
  <2> DEFINE u == <<x1, x2, x3>>
  <2>1. Runs(c, u, a0, a3)
    BY <1>2, <1>3
  <2> HIDE DEF u
  <2>2. Runs(c, Cat(u, <<x4>>), a0, a4)
    BY <1>3, <2>1, Then
  <2>3. Cat(u, <<x4>>) = <<x1, x2, x3, x4>>
    <3>1. \A p, q, x, y : Cat(<<p, q, x>>, <<y>>) = <<p, q, x, y>>
      BY Tuples
    <3> QED
      BY <3>1, Zenon DEF u
  <2> QED
    BY <2>2, <2>3, Zenon
<1>4. ASSUME NEW x3, NEW a3, NEW x4, NEW a4, NEW x5, NEW a5,
             Runs(c, <<x3>>, a2, a3), Runs(c, <<x4>>, a3, a4), Runs(c, <<x5>>, a4, a5)
      PROVE  Runs(c, <<x1, x2, x3, x4, x5>>, a0, a5)
  <2> DEFINE u == <<x1, x2, x3, x4>>
  <2>1. Runs(c, u, a0, a4)
    BY <1>3, <1>4
  <2> HIDE DEF u
  <2>2. Runs(c, Cat(u, <<x5>>), a0, a5)
    BY <1>4, <2>1, Then
  <2>3. Cat(u, <<x5>>) = <<x1, x2, x3, x4, x5>>
    <3>1. \A p, q, x, y, z : Cat(<<p, q, x, y>>, <<z>>) = <<p, q, x, y, z>>
      BY Tuples
    <3> QED
      BY <3>1, Zenon DEF u
  <2> QED
    BY <2>2, <2>3
<1> QED
  BY <1>1, <1>2, <1>3, <1>4, Zenon

-----------------------------------------------------------------------------
(* The verdict: what the functions of each backend find out *)

\* What unwrap and protect, and what verify and generate, may know
U(k, d, o, n, h) ==
  [key |-> k, data |-> d, opened |-> o, nonempty |-> n, holds |-> h,
   decoded |-> {}, added |-> {0}, built |-> {}]
X(h, e, s, b) ==
  [key |-> "none", data |-> "none", opened |-> {}, nonempty |-> {}, holds |-> h,
   decoded |-> e, added |-> s, built |-> b]

\* What changes nothing that is known
QuietSeq(s) == IsSeq(s) /\ \A i \in DOMAIN s : s[i].op \in Calm

\* It leaves what is known as it is
LEMMA QuietRuns ==
  ASSUME NEW c, c.view = "verdict", NEW s, QuietSeq(s), NEW a PROVE Runs(c, s, a, a)
<1>1. ASSUME NEW x, x.op \in Calm
      PROVE  x.op \notin {"constructed", "end"} /\ Fits(c, x, a) /\ Learn(c, x, a) = a
  BY <1>1 DEF Fits, Judges, Learn, Discover, Calm, Neutral
<1>2. Idles(c, s, a)
  BY <1>1 DEF Idles, QuietSeq
<1> QED
  BY <1>2, IdleRuns

\* The instructions of that kind
LEMMA CalmInstructions ==
  /\ Request.op \in Calm /\ ChainedCalls.op \in Calm /\ CopyKey.op \in Calm
  /\ \A r : /\ New(r).op \in Calm /\ Allocate(r).op \in Calm /\ Malloc(r).op \in Calm
           /\ Own(r).op \in Calm /\ Release(r).op \in Calm
BY DEF Request, ChainedCalls, CopyKey, New, Allocate, Malloc, Own, Release, Calm

\* Literal sequences of them
LEMMA QuietTuples ==
  ASSUME NEW x1, x1.op \in Calm
  PROVE  /\ QuietSeq(<< >>) /\ QuietSeq(<<x1>>)
         /\ \A x2 : x2.op \in Calm => QuietSeq(<<x1, x2>>)
         /\ \A x2, x3 : x2.op \in Calm /\ x3.op \in Calm => QuietSeq(<<x1, x2, x3>>)
<1>1. ASSUME NEW S, NEW s \in Seq(S), \A x \in S : x.op \in Calm PROVE QuietSeq(s)
  <2>1. \A i \in DOMAIN s : s[i] \in S
    OBVIOUS
  <2> QED
    BY <1>1, <2>1 DEF QuietSeq, IsSeq
<1>2. QuietSeq(<< >>) /\ QuietSeq(<<x1>>)
  <2> DEFINE S == {x1}
  <2>1. << >> \in Seq(S) /\ <<x1>> \in Seq(S) /\ \A x \in S : x.op \in Calm
    OBVIOUS
  <2> HIDE DEF S
  <2> QED
    BY <1>1, <2>1
<1>3. ASSUME NEW x2, x2.op \in Calm PROVE QuietSeq(<<x1, x2>>)
  <2> DEFINE S == {x1, x2}
  <2>1. <<x1, x2>> \in Seq(S) /\ \A x \in S : x.op \in Calm
    BY <1>3
  <2> HIDE DEF S
  <2> QED
    BY <1>1, <2>1
<1>4. ASSUME NEW x2, NEW x3, x2.op \in Calm, x3.op \in Calm PROVE QuietSeq(<<x1, x2, x3>>)
  <2> DEFINE S == {x1, x2, x3}
  <2>1. <<x1, x2, x3>> \in Seq(S) /\ \A x \in S : x.op \in Calm
    BY <1>4
  <2> HIDE DEF S
  <2> QED
    BY <1>1, <2>1
<1> QED
  BY <1>2, <1>3, <1>4, Zenon

\* Only the last instruction adds to what is known
LEMMA QuietThen ==
  ASSUME NEW c, c.view = "verdict", NEW s, IsSeq(s), NEW n \in Nat, Len(s) = n + 1,
         \A i \in 1..n : s[i].op \in Calm, NEW a, NEW b, Runs(c, <<s[n + 1]>>, a, b)
  PROVE  Runs(c, s, a, b)
<1> DEFINE u == SubSeq(s, 1, n)
           v == <<s[n + 1]>>
<1>1. PICK S : s \in Seq(S)
  BY DEF IsSeq
<1>2. \A i \in 1..n : s[i] \in S
  BY <1>1
<1>3. /\ u \in Seq(S) /\ Len(u) = IF 1 <= n THEN n - 1 + 1 ELSE 0
      /\ \A i \in 1..n - 1 + 1 : u[i] = s[1 + i - 1]
  BY <1>2, SubSeqProperties
<1>4. Len(v) = 1 /\ v[1] = s[n + 1] /\ IsSeq(v)
  BY Single
<1> HIDE DEF u, v
<1>5. Len(u) = n /\ \A i \in 1..n : u[i] = s[i]
  BY <1>3
<1>6. QuietSeq(u)
  <2>1. DOMAIN u = 1..n
    BY <1>3, <1>5
  <2> QED
    BY <1>3, <1>5, <2>1 DEF QuietSeq, IsSeq
<1>7. Cat(u, v) = s
  <2>1. IsSeq(u)
    BY <1>3 DEF IsSeq
  <2>2. \A i \in 1..Len(v) : s[Len(u) + i] = v[i]
    BY <1>4, <1>5
  <2> QED
    BY <1>4, <1>5, <2>1, <2>2, CatIs
<1>8. Runs(c, u, a, a) /\ Runs(c, v, a, b)
  BY <1>6, QuietRuns DEF v
<1> QED
  BY <1>7, <1>8, Then

\* An object
LEMMA ConstructedRuns ==
  ASSUME NEW c, c.view = "verdict", NEW constructor, NEW destructor, NEW scope, NEW a, NEW b,
         Runs(c, constructor, a, a), Runs(c, scope, a, b)
  PROVE  Runs(c, Object(constructor, destructor, scope), a, b)
<1> DEFINE x == Constructed(destructor, scope)
           e == EndOf(x)
<1>1. x.op = "constructed" /\ e.op = "end"
  BY DEF Constructed, EndOf
<1>2. Object(constructor, destructor, scope) = Cat(constructor, <<x>>)
  BY Zenon DEF Object, Cat, Constructed
<1>3. Runs(c, <<x>>, a, b)
  <2>1. /\ Fits(c, x, a) /\ Learn(c, x, a) = a
        /\ Fits(c, e, b) /\ Learn(c, e, b) = b
    <3> HIDE DEF x, e
    <3> QED
      BY <1>1 DEF Fits, Judges, Learn, Discover, Neutral
  <2>2. Runs(c, scope, Learn(c, x, a), b)
    <3> HIDE DEF x
    <3> QED
      BY <2>1
  <2>3. Runs(c, <<x>>, a, Learn(c, e, b))
    BY <2>1, <2>2, Scope
  <2> HIDE DEF x, e
  <2> QED
    BY <2>1, <2>3
<1> HIDE DEF x
<1> QED
  BY <1>2, <1>3, Then

\* An object whose constructor changes nothing that is known
LEMMA ObjectRuns ==
  ASSUME NEW c, c.view = "verdict", NEW constructor, NEW destructor, NEW scope, NEW a, NEW b,
         QuietSeq(constructor), Runs(c, scope, a, b)
  PROVE  Runs(c, Object(constructor, destructor, scope), a, b)
BY QuietRuns, ConstructedRuns

\* What each instruction of decrypt_secret and EncryptWithPadding adds
LEMMA SecretInstructions ==
  ASSUME NEW c, c.view = "verdict", c.name \in {"unwrap", "protect"},
         NEW k, NEW d, NEW o, NEW n, NEW h
  PROVE  /\ \A m \in Keys : Runs(c, <<Assign(m)>>, U(k, d, o, n, h), U(m, d, o, n, h))
         /\ \A m \in Data :
              Runs(c, <<Measure(m, Direction(c))>>, U(k, d, o, n, h), U(k, m, o, n, h))
         /\ d \in Data /\ k = KeyOf(d) =>
              Runs(c, <<LastCall(d, Direction(c))>>, U(k, d, o, n, h), U(k, d, o \cup {d}, n, h))
         /\ d \in Data /\ c.name = "unwrap" =>
              Runs(c, <<Test("not_empty")>>, U(k, d, o, n, h), U(k, d, o, n \cup {d}, h))
         /\ \A condition \in Needed(c) : c.name = "unwrap" \/ condition = "same_curve" =>
              Runs(c, <<Test(condition)>>, U(k, d, o, n, h), U(k, d, o, n, h \cup {condition}))
         /\ \A f \in Fields : c.name = "protect" =>
              Runs(c, <<Write(f, Form(c.backend, f))>>, U(k, d, o, n, h), U(k, d, o, n, h \cup {f}))
<1> DEFINE a == U(k, d, o, n, h)
<1>1. ASSUME NEW m \in Keys PROVE Runs(c, <<Assign(m)>>, a, U(m, d, o, n, h))
  <2>1. Assign(m).op = "assign" /\ Assign(m).key = m
    BY DEF Assign
  <2>2. Fits(c, Assign(m), a)
    BY <2>1 DEF Fits, Judges
  <2>3. Learn(c, Assign(m), a) = [a EXCEPT !.key = m]
    BY <2>1 DEF Learn, Discover
  <2>4. [a EXCEPT !.key = m] = U(m, d, o, n, h)
    BY DEF U
  <2>5. Runs(c, <<Assign(m)>>, a, Learn(c, Assign(m), a))
    BY <2>1, <2>2, One
  <2> QED
    BY <2>3, <2>4, <2>5
<1>2. ASSUME NEW m \in Data PROVE Runs(c, <<Measure(m, Direction(c))>>, a, U(k, m, o, n, h))
  <2> DEFINE x == Measure(m, Direction(c))
  <2>1. x.op = "measure" /\ x.data = m /\ x.direction = Direction(c)
    BY DEF Measure
  <2> HIDE DEF x
  <2>2. Fits(c, x, a)
    BY <2>1 DEF Fits, Judges
  <2>3. Learn(c, x, a) = [a EXCEPT !.data = m]
    BY <2>1 DEF Learn, Discover
  <2>4. [a EXCEPT !.data = m] = U(k, m, o, n, h)
    BY DEF U
  <2>5. Runs(c, <<x>>, a, Learn(c, x, a))
    BY <2>1, <2>2, One
  <2> QED
    BY <2>3, <2>4, <2>5 DEF x
<1>3. ASSUME d \in Data, k = KeyOf(d)
      PROVE  Runs(c, <<LastCall(d, Direction(c))>>, a, U(k, d, o \cup {d}, n, h))
  <2> DEFINE x == LastCall(d, Direction(c))
  <2>1. x.op = "last" /\ x.data = d /\ x.direction = Direction(c)
    BY DEF LastCall
  <2>2. a.data = d /\ a.key = k /\ a.opened = o
    BY DEF U
  <2> HIDE DEF x
  <2>3. Fits(c, x, a)
    BY <1>3, <2>1, <2>2 DEF Fits, Judges
  <2>4. Learn(c, x, a) = [a EXCEPT !.opened = @ \cup {d}]
    BY <2>1 DEF Learn, Discover
  <2>5. [a EXCEPT !.opened = @ \cup {d}] = U(k, d, o \cup {d}, n, h)
    BY DEF U
  <2>6. Runs(c, <<x>>, a, Learn(c, x, a))
    BY <2>1, <2>3, One
  <2> QED
    BY <2>4, <2>5, <2>6 DEF x
<1>4. ASSUME d \in Data, c.name = "unwrap"
      PROVE  Runs(c, <<Test("not_empty")>>, a, U(k, d, o, n \cup {d}, h))
  <2> DEFINE x == Test("not_empty")
  <2>1. x.op = "test" /\ x.condition = "not_empty"
    BY DEF Test
  <2>2. a.data = d
    BY DEF U
  <2> HIDE DEF x
  <2>3. Fits(c, x, a)
    BY <1>4, <2>1, <2>2 DEF Fits, Judges, CanTest
  <2>4. Learn(c, x, a) = [a EXCEPT !.nonempty = @ \cup {d}]
    BY <2>1, <2>2 DEF Learn, Discover
  <2>5. [a EXCEPT !.nonempty = @ \cup {d}] = U(k, d, o, n \cup {d}, h)
    BY DEF U
  <2>6. Runs(c, <<x>>, a, Learn(c, x, a))
    BY <2>1, <2>3, One
  <2> QED
    BY <2>4, <2>5, <2>6 DEF x
<1>5. ASSUME NEW condition \in Needed(c), c.name = "unwrap" \/ condition = "same_curve"
      PROVE  Runs(c, <<Test(condition)>>, a, U(k, d, o, n, h \cup {condition}))
  <2> DEFINE x == Test(condition)
  <2>1. x.op = "test" /\ x.condition = condition /\ condition # "not_empty"
    BY DEF Test, Needed, PrivateConditions, PublicConditions, DeriveConditions
  <2> HIDE DEF x
  <2>2. Fits(c, x, a)
    BY <1>5, <2>1 DEF Fits, Judges, CanTest
  <2>3. Learn(c, x, a) = [a EXCEPT !.holds = @ \cup {condition}]
    BY <2>1 DEF Learn, Discover
  <2>4. [a EXCEPT !.holds = @ \cup {condition}] = U(k, d, o, n, h \cup {condition})
    BY DEF U
  <2>5. Runs(c, <<x>>, a, Learn(c, x, a))
    BY <2>1, <2>2, One
  <2> QED
    BY <2>3, <2>4, <2>5 DEF x
<1>6. ASSUME NEW f \in Fields, c.name = "protect"
      PROVE  Runs(c, <<Write(f, Form(c.backend, f))>>, a, U(k, d, o, n, h \cup {f}))
  <2> DEFINE x == Write(f, Form(c.backend, f))
  <2>1. x.op = "write" /\ x.field = f /\ x.form = Form(c.backend, f)
    BY DEF Write
  <2> HIDE DEF x
  <2>2. Fits(c, x, a)
    BY <1>6, <2>1 DEF Fits, Judges
  <2>3. Learn(c, x, a) = [a EXCEPT !.holds = @ \cup {f}]
    BY <2>1 DEF Learn, Discover
  <2>4. [a EXCEPT !.holds = @ \cup {f}] = U(k, d, o, n, h \cup {f})
    BY DEF U
  <2>5. Runs(c, <<x>>, a, Learn(c, x, a))
    BY <2>1, <2>2, One
  <2> QED
    BY <2>3, <2>4, <2>5 DEF x
<1> HIDE DEF a
<1>7. a = U(k, d, o, n, h)
  BY DEF a
<1> QED
  BY <1>1, <1>2, <1>3, <1>4, <1>5, <1>6, <1>7

\* What changes nothing that is known, in both builds
LEMMA QuietFunctions ==
  ASSUME NEW c, c.view = "verdict", NEW a
  PROVE  /\ Runs(c, <<Request>>, a, a)
         /\ Runs(c, SetChainingInfo, a, a)
         /\ \A o : Runs(c, GenerateKeyPair(o), a, a)
         /\ Runs(c, DeriveKey, a, a)
<1>1. QuietSeq(<<Request>>) /\ QuietSeq(<< >>)
  BY CalmInstructions, QuietTuples
<1>2. QuietSeq(SetChainingInfo)
  BY <1>1, Zenon DEF SetChainingInfo, GcmChainingInfo
<1>3. ASSUME NEW o PROVE QuietSeq(GenerateKeyPair(o))
  <2>1. QuietSeq(<<New(hEccKeyHandle(o)), Request>>)
    BY CalmInstructions, QuietTuples
  <2> QED
    BY <1>1, <2>1, Zenon DEF GenerateKeyPair, Bcrypt_GenerateKeyPair, Ossl_GenerateKeyPair
<1>4. Runs(c, DeriveKey, a, a)
  <2>1. QuietSeq(<<Allocate(hHash), Request, Release(hHash)>>)
    BY CalmInstructions, QuietTuples
  <2>2. Runs(c, Bcrypt_Extract, a, a) /\ Runs(c, Bcrypt_Expand, a, a) /\ Runs(c, <<Request>>, a, a)
    BY <1>1, <2>1, QuietRuns DEF Bcrypt_Extract, Bcrypt_Expand
  <2>3. Runs(c, Cat(Bcrypt_Extract, Bcrypt_Expand), a, a)
    BY <2>2, Then
  <2>4. DeriveKey = Cat(Bcrypt_Extract, Bcrypt_Expand) \/ DeriveKey = <<Request>>
    BY Zenon DEF DeriveKey, Cat
  <2> QED
    BY <2>2, <2>3, <2>4
<1> QED
  BY <1>1, <1>2, <1>3, <1>4, QuietRuns

\* The objects, in both builds
LEMMA ObjectsRun ==
  ASSUME NEW c, c.view = "verdict", NEW scope, NEW a, NEW b, Runs(c, scope, a, b)
  PROVE  /\ Runs(c, AesWrapper(scope), a, b)
         /\ \A o : Runs(c, ECDiffieHellman(o, scope), a, b)
         /\ Runs(c, HKDF(scope), a, b)
<1>1. QuietSeq(<<Request>>)
  BY CalmInstructions, QuietTuples
<1>2. Runs(c, AesWrapper(scope), a, b)
  <2>1. QuietSeq(<<New(hAesHandle), Request>>) /\ QuietSeq(<<New(cipherCtx)>>)
    BY CalmInstructions, QuietTuples
  <2>2. Runs(c, GcmWrapper(scope), a, b) /\ Runs(c, OsslGcmWrapper(scope), a, b)
    BY <2>1, ObjectRuns DEF GcmWrapper, OsslGcmWrapper
  <2> QED
    BY <2>2, Zenon DEF AesWrapper
<1>3. ASSUME NEW o PROVE Runs(c, ECDiffieHellman(o, scope), a, b)
  <2>1. QuietSeq(<<New(hEcHandle(o))>>)
    BY CalmInstructions, QuietTuples
  <2>2. Runs(c, BcryptECDiffieHellman(o, scope), a, b) /\ Runs(c, OsslECDiffieHellman(o, scope), a, b)
    BY <1>1, <2>1, ObjectRuns DEF BcryptECDiffieHellman, OsslECDiffieHellman
  <2> QED
    BY <2>2, Zenon DEF ECDiffieHellman
<1>4. Runs(c, HKDF(scope), a, b)
  <2>1. QuietSeq(<<New(hAlg)>>)
    BY CalmInstructions, QuietTuples
  <2>2. Runs(c, BcryptHKDF(scope), a, b)
    BY <2>1, ObjectRuns DEF BcryptHKDF
  <2> DEFINE k == OsslSha \o <<Request, New(pctx)>>
  <2>3. QuietSeq(k)
    <3>1. Request.op \in Calm /\ Allocate(mdCtx).op \in Calm /\ New(pctx).op \in Calm
      BY CalmInstructions
    <3>2. k = <<Allocate(mdCtx), Request>> \o <<Request, New(pctx)>>
      BY Zenon DEF OsslSha
    <3> DEFINE x == Allocate(mdCtx)
               y == New(pctx)
               z == Request
               S == {x, y, z}
    <3> HIDE DEF x, y, z
    <3>3. k = <<x, z>> \o <<z, y>>
      BY <3>2 DEF x, y, z
    <3> HIDE DEF k
    <3>4. <<x, z>> \in Seq(S) /\ <<z, y>> \in Seq(S)
      OBVIOUS
    <3>5. k \in Seq(S)
      BY <3>3, <3>4, ConcatProperties
    <3>6. \A i \in DOMAIN k : k[i] \in S
      BY <3>5
    <3>7. \A w \in S : w.op \in Calm
      BY <3>1 DEF x, y, z
    <3> HIDE DEF S
    <3> QED
      BY <3>5, <3>6, <3>7 DEF QuietSeq, IsSeq
  <2> HIDE DEF k
  <2>4. Runs(c, Object(k, {pctx}, scope), a, b)
    BY <2>3, ObjectRuns
  <2>5. OsslHKDF(scope) = Object(k, {pctx}, scope)
    BY Zenon DEF OsslHKDF, k
  <2> QED
    BY <2>2, <2>4, <2>5, Zenon DEF HKDF
<1> QED
  BY <1>2, <1>3, <1>4

\* The key
LEMMA SetKeyRuns ==
  ASSUME NEW c, c.view = "verdict", c.name \in {"unwrap", "protect"}, NEW m \in Keys,
         NEW k, NEW d, NEW o, NEW n, NEW h
  PROVE  Runs(c, SetKey(m), U(k, d, o, n, h), U(m, d, o, n, h))
<1> DEFINE a == U(k, d, o, n, h)
           b == U(m, d, o, n, h)
<1>1. Runs(c, <<Assign(m)>>, a, b)
  BY SecretInstructions
<1> HIDE DEF a, b
<1>2. Runs(c, <<New(hAesKey)>>, a, a)
  <2>1. QuietSeq(<<New(hAesKey)>>)
    BY CalmInstructions, QuietTuples
  <2> QED
    BY <2>1, QuietRuns
<1>3. Runs(c, <<New(hAesKey), Assign(m)>>, a, b)
  BY <1>1, <1>2, Few
<1>4. Runs(c, SetKey(m), a, b)
  BY <1>1, <1>3, Zenon DEF SetKey, GcmWrapper_SetKey, OsslGcmWrapper_SetKey
<1> QED
  BY <1>4 DEF a, b

\* A ciphertext, in one go or block by block
LEMMA CryptRuns ==
  ASSUME NEW c, c.view = "verdict", c.name \in {"unwrap", "protect"}, NEW m \in Data,
         NEW d, NEW o, NEW n, NEW h
  PROVE  /\ c.name = "unwrap" =>
              Runs(c, Decrypt(m), U(KeyOf(m), d, o, n, h), U(KeyOf(m), m, o \cup {m}, n, h))
         /\ c.name = "protect" =>
              Runs(c, Encrypt(m), U(KeyOf(m), d, o, n, h), U(KeyOf(m), m, o \cup {m}, n, h))
<1> DEFINE k == KeyOf(m)
<1>0. k = KeyOf(m)
  OBVIOUS
<1> HIDE DEF k
<1> DEFINE a == U(k, d, o, n, h)
           b == U(k, m, o, n, h)
           e == U(k, m, o \cup {m}, n, h)
           x == Measure(m, Direction(c))
           y == LastCall(m, Direction(c))
<1>1. Runs(c, <<x>>, a, b)
  BY SecretInstructions
<1>2. Runs(c, <<y>>, b, e)
  BY <1>0, SecretInstructions
<1> HIDE DEF a, b, e, x, y
<1>3. Runs(c, <<Request>>, b, b) /\ Runs(c, <<ChainedCalls>>, b, b)
  <2>1. QuietSeq(<<Request>>) /\ QuietSeq(<<ChainedCalls>>)
    BY CalmInstructions, QuietTuples
  <2> QED
    BY <2>1, QuietRuns
<1>4. Runs(c, <<x, Request, ChainedCalls, y>>, a, e) /\ Runs(c, <<x, Request, y>>, a, e)
  BY <1>1, <1>2, <1>3, Few
<1>5. ASSUME c.name = "unwrap" PROVE Runs(c, Decrypt(m), a, e)
  <2>1. x = Measure(m, "decrypt") /\ y = LastCall(m, "decrypt")
    BY <1>5 DEF x, y, Direction
  <2>2. Decrypt(m) = <<x, Request, ChainedCalls, y>> \/ Decrypt(m) = <<x, Request, y>>
    BY <2>1, Zenon DEF Decrypt, GcmWrapper_Decrypt, OsslGcmWrapper_Decrypt
  <2> QED
    BY <1>4, <2>2
<1>6. ASSUME c.name = "protect" PROVE Runs(c, Encrypt(m), a, e)
  <2>1. x = Measure(m, "encrypt") /\ y = LastCall(m, "encrypt")
    BY <1>6 DEF x, y, Direction
  <2>2. Encrypt(m) = <<x, Request, ChainedCalls, y>> \/ Encrypt(m) = <<x, Request, y>>
    BY <2>1, Zenon DEF Encrypt, GcmWrapper_Encrypt, OsslGcmWrapper_Encrypt
  <2> QED
    BY <1>4, <2>2
<1> QED
  BY <1>0, <1>5, <1>6 DEF a, e

\* The ECDH keys of a token, as Windows reads them
LEMMA BcryptImportRuns ==
  ASSUME NEW c, c.view = "verdict", c.name = "unwrap", c.backend = "windows",
         NEW k, NEW d, NEW o, NEW n, NEW h, NEW p
  PROVE  /\ Runs(c, Bcrypt_ImportPkcs8PrivateKey(p), U(k, d, o, n, h),
                 U(k, d, o, n, h \cup PrivateConditions(c)))
         /\ Runs(c, Bcrypt_ImportSubjectPublicKeyInfo(p), U(k, d, o, n, h),
                 U(k, d, o, n, h \cup PublicConditions(c)))
<1> DEFINE a(s) == U(k, d, o, n, s)
<1>1. ASSUME NEW s, NEW condition \in Needed(c)
      PROVE  Runs(c, <<Test(condition)>>, a(s), a(s \cup {condition}))
  BY SecretInstructions
<1> HIDE DEF a
<1>2. ASSUME NEW x, x.op \in Calm, NEW b PROVE Runs(c, <<x>>, b, b)
  <2>1. QuietSeq(<<x>>)
    BY <1>2, QuietTuples
  <2> QED
    BY <2>1, QuietRuns
<1>3. /\ "is_pkcs8" \in Needed(c) /\ "is_ecc" \in Needed(c) /\ "point_known" \in Needed(c)
      /\ "cng_takes_private" \in Needed(c) /\ "is_spki" \in Needed(c) /\ "cng_takes_public" \in Needed(c)
  BY DEF Needed, PrivateConditions, PublicConditions
<1>4. Runs(c, Bcrypt_ImportPkcs8PrivateKey(p), a(h), a(h \cup PrivateConditions(c)))
  <2> DEFINE h1 == h \cup {"is_pkcs8"}
             h2 == h1 \cup {"is_ecc"}
             h3 == h2 \cup {"point_known"}
             h4 == h3 \cup {"cng_takes_private"}
             x1 == Test("is_pkcs8")
             x2 == Test("is_ecc")
             x3 == Test("point_known")
             x4 == Test("cng_takes_private")
             b(name) == Buffer("ImportPkcs8PrivateKey", name)
             y1 == Allocate(b("privateKeyInfo"))
             y2 == Allocate(b("eccPrivateInfo"))
             y3 == Allocate(b("pekb"))
             y4 == CopyKey
             y5 == Release(b("privateKeyInfo"))
             y6 == Release(b("eccPrivateInfo"))
             y7 == New(hEccKeyHandle(p))
  <2>1. /\ Runs(c, <<x1>>, a(h), a(h1)) /\ Runs(c, <<x2>>, a(h1), a(h2)) /\ Runs(c, <<x3>>, a(h2), a(h3))
        /\ Runs(c, <<x4>>, a(h3), a(h4))
    BY <1>1, <1>3
  <2>2. /\ Runs(c, <<y1>>, a(h1), a(h1)) /\ Runs(c, <<y2>>, a(h2), a(h2)) /\ Runs(c, <<y3>>, a(h3), a(h3))
        /\ Runs(c, <<y4>>, a(h3), a(h3)) /\ Runs(c, <<y5>>, a(h3), a(h3)) /\ Runs(c, <<y6>>, a(h3), a(h3))
        /\ Runs(c, <<y7>>, a(h4), a(h4))
    BY <1>2, CalmInstructions
  <2>3. Bcrypt_ImportPkcs8PrivateKey(p) = <<x1, y1, x2, y2, x3, y3, y4, y5, y6, x4, y7>>
    BY Zenon DEF Bcrypt_ImportPkcs8PrivateKey
  <2>4. h4 = h \cup PrivateConditions(c)
    BY DEF PrivateConditions
  <2> HIDE DEF h1, h2, h3, h4, x1, x2, x3, x4, y1, y2, y3, y4, y5, y6, y7
  <2> DEFINE u == <<x1, y1, x2, y2, x3>>
             v == <<y3, y4, y5, y6, x4>>
             z == <<y7>>
             q == <<x1, y1, x2, y2, x3, y3, y4, y5, y6, x4>>
             w == <<x1, y1, x2, y2, x3, y3, y4, y5, y6, x4, y7>>
  <2>5. Runs(c, u, a(h), a(h3)) /\ Runs(c, v, a(h3), a(h4)) /\ Runs(c, z, a(h4), a(h4))
    BY <2>1, <2>2, Few
  <2>6. Cat(u, v) = q /\ Cat(q, z) = w
    <3>1. /\ u \in Seq({x1, y1, x2, y2, x3}) /\ v \in Seq({y3, y4, y5, y6, x4}) /\ z \in Seq({y7})
          /\ q \in Seq({x1, y1, x2, y2, x3, y3, y4, y5, y6, x4})
          /\ w \in Seq({x1, y1, x2, y2, x3, y3, y4, y5, y6, x4, y7})
      OBVIOUS
    <3>2. /\ Len(u) = 5 /\ Len(v) = 5 /\ Len(q) = 10
          /\ q[1] = u[1] /\ q[2] = u[2] /\ q[3] = u[3] /\ q[4] = u[4] /\ q[5] = u[5]
          /\ q[6] = v[1] /\ q[7] = v[2] /\ q[8] = v[3] /\ q[9] = v[4] /\ q[10] = v[5]
      OBVIOUS
    <3>3. /\ Len(z) = 1 /\ Len(w) = 11
          /\ w[1] = q[1] /\ w[2] = q[2] /\ w[3] = q[3] /\ w[4] = q[4] /\ w[5] = q[5]
          /\ w[6] = q[6] /\ w[7] = q[7] /\ w[8] = q[8] /\ w[9] = q[9] /\ w[10] = q[10]
          /\ w[11] = z[1]
      OBVIOUS
    <3> HIDE DEF u, v, z, q, w
    <3>4. IsSeq(u) /\ IsSeq(v) /\ IsSeq(z) /\ IsSeq(q) /\ IsSeq(w)
      BY <3>1 DEF IsSeq
    <3>5. /\ Len(q) = Len(u) + Len(v)
          /\ \A i \in 1..Len(u) : q[i] = u[i]
          /\ \A i \in 1..Len(v) : q[Len(u) + i] = v[i]
      BY <3>2
    <3>6. /\ Len(w) = Len(q) + Len(z)
          /\ \A i \in 1..Len(q) : w[i] = q[i]
          /\ \A i \in 1..Len(z) : w[Len(q) + i] = z[i]
      BY <3>2, <3>3
    <3> QED
      BY <3>4, <3>5, <3>6, CatIs
  <2> HIDE DEF u, v, z, q, w
  <2>7. Runs(c, q, a(h), a(h4))
    BY <2>5, <2>6, Then
  <2>8. Runs(c, w, a(h), a(h4))
    BY <2>5, <2>6, <2>7, Then
  <2> QED
    BY <2>3, <2>4, <2>8 DEF w
<1>5. Runs(c, Bcrypt_ImportSubjectPublicKeyInfo(p), a(h), a(h \cup PublicConditions(c)))
  <2> DEFINE h1 == h \cup {"is_spki"}
             h2 == h1 \cup {"cng_takes_public"}
             x1 == Test("is_spki")
             x2 == Test("cng_takes_public")
             b(name) == Buffer("ImportSubjectPublicKeyInfo", name)
             y1 == Allocate(b("PublicKeyInfo"))
             y2 == Allocate(b("pekb"))
             y3 == Release(b("PublicKeyInfo"))
             y4 == New(hEccKeyHandle(p))
  <2>1. Runs(c, <<x1>>, a(h), a(h1)) /\ Runs(c, <<x2>>, a(h1), a(h2))
    BY <1>1, <1>3
  <2>2. /\ Runs(c, <<y1>>, a(h1), a(h1)) /\ Runs(c, <<y2>>, a(h1), a(h1))
        /\ Runs(c, <<y3>>, a(h1), a(h1)) /\ Runs(c, <<y4>>, a(h2), a(h2))
    BY <1>2, CalmInstructions
  <2>3. Bcrypt_ImportSubjectPublicKeyInfo(p) = <<x1, y1, y2, y3, x2, y4>>
    BY Zenon DEF Bcrypt_ImportSubjectPublicKeyInfo
  <2>4. h2 = h \cup PublicConditions(c)
    BY DEF PublicConditions
  <2> HIDE DEF h1, h2, x1, x2, y1, y2, y3, y4
  <2> DEFINE u == <<x1, y1, y2, y3, x2>>
             v == <<y4>>
             w == <<x1, y1, y2, y3, x2, y4>>
  <2>5. Runs(c, u, a(h), a(h2)) /\ Runs(c, v, a(h2), a(h2))
    BY <2>1, <2>2, Few
  <2>6. Cat(u, v) = w
    <3>1. /\ u \in Seq({x1, y1, y2, y3, x2}) /\ v \in Seq({y4})
          /\ w \in Seq({x1, y1, y2, y3, x2, y4})
      OBVIOUS
    <3>2. /\ Len(u) = 5 /\ Len(v) = 1 /\ Len(w) = 6
          /\ w[1] = u[1] /\ w[2] = u[2] /\ w[3] = u[3] /\ w[4] = u[4] /\ w[5] = u[5]
          /\ w[6] = v[1]
      OBVIOUS
    <3> HIDE DEF u, v, w
    <3>3. IsSeq(u) /\ IsSeq(v) /\ IsSeq(w)
      BY <3>1 DEF IsSeq
    <3>4. /\ Len(w) = Len(u) + Len(v)
          /\ \A i \in 1..Len(u) : w[i] = u[i]
          /\ \A i \in 1..Len(v) : w[Len(u) + i] = v[i]
      BY <3>2
    <3> QED
      BY <3>3, <3>4, CatIs
  <2> HIDE DEF u, v, w
  <2>7. Runs(c, w, a(h), a(h2))
    BY <2>5, <2>6, Then
  <2> QED
    BY <2>3, <2>4, <2>7 DEF w
<1> QED
  BY <1>4, <1>5 DEF a

\* The ECDH keys of a token, and the secret they agree on
LEMMA ImportRuns ==
  ASSUME NEW c, c.view = "verdict", c.backend = backend, NEW k, NEW d, NEW o, NEW n, NEW h
  PROVE  /\ c.name = "unwrap" => \A p :
              /\ Runs(c, ImportPkcs8PrivateKey(p), U(k, d, o, n, h),
                      U(k, d, o, n, h \cup PrivateConditions(c)))
              /\ Runs(c, ImportSubjectPublicKeyInfo(p), U(k, d, o, n, h),
                      U(k, d, o, n, h \cup PublicConditions(c)))
         /\ c.name \in {"unwrap", "protect"} =>
              Runs(c, DeriveSecret, U(k, d, o, n, h), U(k, d, o, n, h \cup DeriveConditions(c)))
<1> DEFINE a == U(k, d, o, n, h)
<1>1. ASSUME NEW p, c.name = "unwrap"
      PROVE  /\ Runs(c, ImportPkcs8PrivateKey(p), a, U(k, d, o, n, h \cup PrivateConditions(c)))
             /\ Runs(c, ImportSubjectPublicKeyInfo(p), a, U(k, d, o, n, h \cup PublicConditions(c)))
  <2>1. CASE Windows
    <3>1. c.backend = "windows"
      BY <2>1 DEF Windows
    <3>2. /\ ImportPkcs8PrivateKey(p) = Bcrypt_ImportPkcs8PrivateKey(p)
          /\ ImportSubjectPublicKeyInfo(p) = Bcrypt_ImportSubjectPublicKeyInfo(p)
      BY <2>1, Zenon DEF ImportPkcs8PrivateKey, ImportSubjectPublicKeyInfo
    <3> QED
      BY <1>1, <3>1, <3>2, BcryptImportRuns
  <2>2. CASE ~Windows
    <3>1. PrivateConditions(c) = {"ossl_takes_private"} /\ PublicConditions(c) = {"ossl_takes_public"}
      BY <2>2 DEF Windows, PrivateConditions, PublicConditions
    <3>2. "ossl_takes_private" \in Needed(c) /\ "ossl_takes_public" \in Needed(c)
      BY <3>1 DEF Needed
    <3>3. /\ ImportPkcs8PrivateKey(p) = <<Test("ossl_takes_private")>>
          /\ ImportSubjectPublicKeyInfo(p) = <<Test("ossl_takes_public")>>
      BY <2>2, Zenon DEF ImportPkcs8PrivateKey, ImportSubjectPublicKeyInfo,
           Ossl_ImportPkcs8PrivateKey, Ossl_ImportSubjectPublicKeyInfo
    <3>4. \A condition \in Needed(c) :
            Runs(c, <<Test(condition)>>, U(k, d, o, n, h), U(k, d, o, n, h \cup {condition}))
      BY <1>1, SecretInstructions
    <3> QED
      BY <3>1, <3>2, <3>3, <3>4
  <2> QED
    BY <2>1, <2>2
<1>2. ASSUME c.name \in {"unwrap", "protect"}
      PROVE  Runs(c, DeriveSecret, a, U(k, d, o, n, h \cup DeriveConditions(c)))
  <2>1. QuietSeq(<<Request>>) /\ QuietSeq(<<New(hSharedSecret("ecdhPrivate"))>>)
    BY CalmInstructions, QuietTuples
  <2>2. \A b : Runs(c, <<Request>>, b, b) /\ Runs(c, <<New(hSharedSecret("ecdhPrivate"))>>, b, b)
    BY <2>1, QuietRuns
  <2>3. CASE Windows
    <3>1. DeriveConditions(c) = {} /\ h \cup {} = h
      BY <2>3 DEF Windows, DeriveConditions
    <3>2. DeriveSecret = <<New(hSharedSecret("ecdhPrivate"))>>
      BY <2>3, Zenon DEF DeriveSecret, Bcrypt_DeriveSecret
    <3> QED
      BY <2>2, <3>1, <3>2
  <2>4. CASE ~Windows
    <3>1. DeriveConditions(c) = {"same_curve"}
      BY <2>4 DEF Windows, DeriveConditions
    <3>2. "same_curve" \in Needed(c)
      BY <3>1 DEF Needed
    <3>3. DeriveSecret = <<Request, Test("same_curve")>>
      BY <2>4, Zenon DEF DeriveSecret, Ossl_DeriveSecret
    <3>4. Runs(c, <<Test("same_curve")>>, a, U(k, d, o, n, h \cup {"same_curve"}))
      BY <1>2, <3>2, SecretInstructions
    <3> HIDE DEF a
    <3> QED
      BY <2>2, <3>1, <3>3, <3>4, Few
  <2> QED
    BY <2>3, <2>4
<1> QED
  BY <1>1, <1>2

\* The ECDH keys that are handed out, in the form that the build reads
LEMMA ExportRuns ==
  ASSUME NEW c, c.view = "verdict", c.name = "protect", c.backend = backend,
         NEW k, NEW d, NEW o, NEW n, NEW h
  PROVE  /\ Runs(c, ExportPkcs8PrivateKey, U(k, d, o, n, h), U(k, d, o, n, h \cup {"private"}))
         /\ Runs(c, ExportSubjectPublicKeyInfo, U(k, d, o, n, h), U(k, d, o, n, h \cup {"public"}))
<1> DEFINE a == U(k, d, o, n, h)
           e == U(k, d, o, n, h \cup {"private"})
           f == U(k, d, o, n, h \cup {"public"})
<1>1. /\ Runs(c, <<Write("private", Form(backend, "private"))>>, a, e)
      /\ Runs(c, <<Write("public", Form(backend, "public"))>>, a, f)
  BY SecretInstructions DEF Fields
<1>2. Form(backend, "private") = (IF Windows THEN "good" ELSE "sec1") /\ Form(backend, "public") = "good"
  BY DEF Form, Windows
<1> HIDE DEF a, e, f
<1>3. Runs(c, <<Request>>, a, a)
  BY QuietFunctions
<1>4. Request.op \in Calm /\ \A r : Allocate(r).op \in Calm /\ Malloc(r).op \in Calm
  BY CalmInstructions
<1>5. CASE ~Windows
  <2>1. /\ ExportPkcs8PrivateKey = <<Request, Write("private", "sec1")>>
        /\ ExportSubjectPublicKeyInfo = <<Request, Write("public", "good")>>
    BY <1>5, Zenon DEF ExportPkcs8PrivateKey, ExportSubjectPublicKeyInfo,
         Ossl_ExportPkcs8PrivateKey, Ossl_ExportSubjectPublicKeyInfo
  <2>2. Runs(c, <<Write("private", "sec1")>>, a, e) /\ Runs(c, <<Write("public", "good")>>, a, f)
    BY <1>1, <1>2, <1>5
  <2>3. /\ Runs(c, <<Request, Write("private", "sec1")>>, a, e)
        /\ Runs(c, <<Request, Write("public", "good")>>, a, f)
    BY <1>3, <2>2, Few
  <2> QED
    BY <2>1, <2>3 DEF a, e, f
<1>6. CASE Windows
  <2>1. Runs(c, <<Write("private", "good")>>, a, e) /\ Runs(c, <<Write("public", "good")>>, a, f)
    BY <1>1, <1>2, <1>6
  <2>2. Runs(c, ExportPkcs8PrivateKey, a, e)
    <3> DEFINE b(name) == Buffer("ExportPkcs8PrivateKey", name)
               r == Request
               x1 == Malloc(b("privateKeyBlob"))
               x2 == Malloc(b("pbCurveParameters"))
               x3 == Malloc(b("PublicKey"))
               x4 == Malloc(b("CryptBitBlob"))
               x5 == Allocate(b("privateKeyInfo"))
               x6 == Allocate(b("derPrivateBytes"))
               z == Write("private", "good")
    <3>1. ExportPkcs8PrivateKey = <<r, x1, r, x2, r, x3, x4, r, x5, r, x6, z>>
      BY <1>6, Zenon DEF ExportPkcs8PrivateKey, Bcrypt_ExportPkcs8PrivateKey
    <3>2. /\ r.op \in Calm /\ x1.op \in Calm /\ x2.op \in Calm /\ x3.op \in Calm
          /\ x4.op \in Calm /\ x5.op \in Calm /\ x6.op \in Calm
      BY <1>4
    <3>3. Runs(c, <<z>>, a, e)
      BY <2>1
    <3> HIDE DEF r, x1, x2, x3, x4, x5, x6, z
    <3> DEFINE w == <<r, x1, r, x2, r, x3, x4, r, x5, r, x6, z>>
    <3>4. w \in Seq({r, x1, x2, x3, x4, x5, x6, z})
      OBVIOUS
    <3>5. /\ Len(w) = 12 /\ w[1] = r /\ w[2] = x1 /\ w[3] = r /\ w[4] = x2 /\ w[5] = r /\ w[6] = x3
          /\ w[7] = x4 /\ w[8] = r /\ w[9] = x5 /\ w[10] = r /\ w[11] = x6 /\ w[12] = z
      OBVIOUS
    <3> HIDE DEF w
    <3>6. \A i \in 1..11 : w[i].op \in Calm
      BY <3>2, <3>5
    <3>7. IsSeq(w) /\ 11 \in Nat /\ Len(w) = 11 + 1 /\ w[11 + 1] = z
      BY <3>4, <3>5 DEF IsSeq
    <3>8. Runs(c, <<w[11 + 1]>>, a, e)
      BY <3>3, <3>7
    <3>9. Runs(c, w, a, e)
      BY <3>6, <3>7, <3>8, QuietThen
    <3> QED
      BY <3>1, <3>9 DEF w
  <2>3. Runs(c, ExportSubjectPublicKeyInfo, a, f)
    <3> DEFINE b(name) == Buffer("ExportSubjectPublicKeyInfo", name)
               r == Request
               x1 == Allocate(b("publicKeyBlob"))
               x2 == Malloc(b("CryptBitBlob"))
               x3 == Allocate(b("pbCurveParameters"))
               x4 == Allocate(b("PublicKey"))
               x5 == Allocate(b("Parameters"))
               x6 == Allocate(b("pszObjId"))
               x7 == Allocate(b("derPublicBytes"))
               z == Write("public", "good")
    <3>1. ExportSubjectPublicKeyInfo = <<r, x1, r, x2, r, x3, r, x4, x5, x6, r, x7, z>>
      BY <1>6, Zenon DEF ExportSubjectPublicKeyInfo, Bcrypt_ExportSubjectPublicKeyInfo
    <3>2. /\ r.op \in Calm /\ x1.op \in Calm /\ x2.op \in Calm /\ x3.op \in Calm
          /\ x4.op \in Calm /\ x5.op \in Calm /\ x6.op \in Calm /\ x7.op \in Calm
      BY <1>4
    <3>3. Runs(c, <<z>>, a, f)
      BY <2>1
    <3> HIDE DEF r, x1, x2, x3, x4, x5, x6, x7, z
    <3> DEFINE w == <<r, x1, r, x2, r, x3, r, x4, x5, x6, r, x7, z>>
    <3>4. w \in Seq({r, x1, x2, x3, x4, x5, x6, x7, z})
      OBVIOUS
    <3>5. /\ Len(w) = 13 /\ w[1] = r /\ w[2] = x1 /\ w[3] = r /\ w[4] = x2 /\ w[5] = r /\ w[6] = x3
          /\ w[7] = r /\ w[8] = x4 /\ w[9] = x5 /\ w[10] = x6 /\ w[11] = r /\ w[12] = x7 /\ w[13] = z
      OBVIOUS
    <3> HIDE DEF w
    <3>6. \A i \in 1..12 : w[i].op \in Calm
      BY <3>2, <3>5
    <3>7. IsSeq(w) /\ 12 \in Nat /\ Len(w) = 12 + 1 /\ w[12 + 1] = z
      BY <3>4, <3>5 DEF IsSeq
    <3>8. Runs(c, <<w[12 + 1]>>, a, f)
      BY <3>3, <3>7
    <3>9. Runs(c, w, a, f)
      BY <3>6, <3>7, <3>8, QuietThen
    <3> QED
      BY <3>1, <3>9 DEF w
  <2> QED
    BY <2>2, <2>3 DEF a, e, f
<1> QED
  BY <1>5, <1>6

\* decrypt_secret finds out all there is to know of its token
LEMMA DecryptSecretGood ==
  ASSUME NEW c, c.view = "verdict", c.name = "unwrap", c.backend = backend
  PROVE  Good(c, decrypt_secret, Nothing)
<1> DEFINE d1 == "encryptedEcdhPrivate"
           d2 == "encryptedSecret"
           o1 == {} \cup {d1}
           o2 == o1 \cup {d2}
           h1 == {} \cup PrivateConditions(c)
           h2 == h1 \cup PublicConditions(c)
           h3 == h2 \cup DeriveConditions(c)
           a0 == U("none", "none", {}, {}, {})
           a1 == U("transport", "none", {}, {}, {})
           a2 == U("transport", d1, o1, {}, {})
           a3 == U("transport", d1, o1, o1, {})
           a4 == U("transport", d1, o1, o1, h1)
           a5 == U("transport", d1, o1, o1, h2)
           a9 == U("transport", d1, o1, o1, h3)
           a6 == U("derived", d1, o1, o1, h3)
           a7 == U("derived", d2, o2, o1, h3)
           a8 == U("derived", d2, o2, o2, h3)
<1>1. d1 \in Data /\ d2 \in Data /\ KeyOf(d1) = "transport" /\ KeyOf(d2) = "derived"
      /\ "transport" \in Keys /\ "derived" \in Keys
  BY DEF Data, KeyOf, Keys
<1>2. Runs(c, SetKey("transport"), a0, a1) /\ Runs(c, SetKey("derived"), a9, a6)
  BY <1>1, SetKeyRuns
<1>3. Runs(c, Decrypt(d1), a1, a2) /\ Runs(c, Decrypt(d2), a6, a7)
  <2> HIDE DEF d1, d2, o1, o2, h3
  <2>1. Runs(c, Decrypt(d1), U(KeyOf(d1), "none", {}, {}, {}), U(KeyOf(d1), d1, {} \cup {d1}, {}, {}))
    BY <1>1, CryptRuns
  <2>2. Runs(c, Decrypt(d2), U(KeyOf(d2), d1, o1, o1, h3), U(KeyOf(d2), d2, o1 \cup {d2}, o1, h3))
    BY <1>1, CryptRuns
  <2> QED
    BY <1>1, <2>1, <2>2 DEF o1, o2
<1>4. Runs(c, <<Test("not_empty")>>, a2, a3) /\ Runs(c, <<Test("not_empty")>>, a7, a8)
  <2> HIDE DEF d1, d2, o2, h3
  <2>1. Runs(c, <<Test("not_empty")>>, U("transport", d1, o1, {}, {}), U("transport", d1, o1, {} \cup {d1}, {}))
    BY <1>1, SecretInstructions
  <2>2. Runs(c, <<Test("not_empty")>>, U("derived", d2, o2, o1, h3), U("derived", d2, o2, o1 \cup {d2}, h3))
    BY <1>1, SecretInstructions
  <2> QED
    BY <2>1, <2>2 DEF o1, o2
<1>5. /\ Runs(c, ImportPkcs8PrivateKey("ecdhPrivate"), a3, a4)
      /\ Runs(c, ImportSubjectPublicKeyInfo("ecdhPublic"), a4, a5)
      /\ Runs(c, DeriveSecret, a5, a9)
  <2> HIDE DEF o1, h1, h2
  <2> QED
    BY ImportRuns DEF h1, h2
<1>6. a0 = Nothing
  BY DEF U, Nothing
<1>7. Complete(c, a8)
  <2>1. Needed(c) \subseteq h3
    BY DEF Needed
  <2>2. a8.opened = o2 /\ a8.nonempty = o2 /\ a8.holds = h3
    BY DEF U
  <2> QED
    BY <2>1, <2>2 DEF Complete, KnowsAll, Data, ChainCalls
<1> HIDE DEF d1, d2, o1, o2, h1, h2, h3, a0, a1, a2, a3, a4, a5, a6, a7, a8, a9
<1>8. \A a : /\ Runs(c, <<Request>>, a, a) /\ Runs(c, SetChainingInfo, a, a)
             /\ Runs(c, DeriveKey, a, a)
  BY QuietFunctions
<1> DEFINE t1 == Cat(Cat(Cat(Cat(DeriveKey, SetKey("derived")), SetChainingInfo), Decrypt(d2)),
                     <<Test("not_empty")>>)
           t2 == Cat(Cat(Cat(ImportPkcs8PrivateKey("ecdhPrivate"), ImportSubjectPublicKeyInfo("ecdhPublic")),
                         DeriveSecret), HKDF(t1))
           t3 == ECDiffieHellman("ecdhPrivate", ECDiffieHellman("ecdhPublic", t2))
           t4 == Cat(Cat(Cat(Cat(SetKey("transport"), SetChainingInfo), Decrypt(d1)),
                         <<Test("not_empty")>>), t3)
<1>9. Runs(c, t1, a9, a8)
  <2>1. Runs(c, Cat(DeriveKey, SetKey("derived")), a9, a6)
    BY <1>2, <1>8, Then
  <2>2. Runs(c, Cat(Cat(DeriveKey, SetKey("derived")), SetChainingInfo), a9, a6)
    BY <1>8, <2>1, Then
  <2>3. Runs(c, Cat(Cat(Cat(DeriveKey, SetKey("derived")), SetChainingInfo), Decrypt(d2)), a9, a7)
    BY <1>3, <2>2, Then
  <2> QED
    BY <1>4, <2>3, Then
<1> HIDE DEF t1
<1>10. Runs(c, t2, a3, a8)
  <2>1. Runs(c, HKDF(t1), a9, a8)
    BY <1>9, ObjectsRun
  <2>2. Runs(c, Cat(ImportPkcs8PrivateKey("ecdhPrivate"), ImportSubjectPublicKeyInfo("ecdhPublic")), a3, a5)
    BY <1>5, Then
  <2>3. Runs(c, Cat(Cat(ImportPkcs8PrivateKey("ecdhPrivate"), ImportSubjectPublicKeyInfo("ecdhPublic")),
                    DeriveSecret), a3, a9)
    BY <1>5, <2>2, Then
  <2> QED
    BY <2>1, <2>3, Then
<1> HIDE DEF t2
<1>11. Runs(c, t3, a3, a8)
  BY <1>10, ObjectsRun
<1> HIDE DEF t3
<1>12. Runs(c, t4, a0, a8)
  <2>1. Runs(c, Cat(SetKey("transport"), SetChainingInfo), a0, a1)
    BY <1>2, <1>8, Then
  <2>2. Runs(c, Cat(Cat(SetKey("transport"), SetChainingInfo), Decrypt(d1)), a0, a2)
    BY <1>3, <2>1, Then
  <2>3. Runs(c, Cat(Cat(Cat(SetKey("transport"), SetChainingInfo), Decrypt(d1)), <<Test("not_empty")>>), a0, a3)
    BY <1>4, <2>2, Then
  <2> QED
    BY <1>11, <2>3, Then
<1> HIDE DEF t4
<1>13. Runs(c, Cat(<<Request>>, AesWrapper(t4)), a0, a8)
  <2>1. Runs(c, AesWrapper(t4), a0, a8)
    BY <1>12, ObjectsRun
  <2> QED
    BY <1>8, <2>1, Then
<1>14. decrypt_secret = Cat(<<Request>>, AesWrapper(t4))
  BY Zenon DEF decrypt_secret, Cat, t1, t2, t3, t4, d1, d2
<1>15. Good(c, << >>, a8)
  BY <1>7, CompleteIsGood
<1> QED
  BY <1>6, <1>13, <1>14, <1>15, RunsToEnd

\* EncryptWithPadding makes both ciphertexts, each with its key
LEMMA EncryptWithPaddingGood ==
  ASSUME NEW c, c.view = "verdict", c.name = "protect", c.backend = backend
  PROVE  Good(c, EncryptWithPadding, Nothing)
<1> DEFINE d1 == "encryptedEcdhPrivate"
           d2 == "encryptedSecret"
           o1 == {} \cup {d2}
           o2 == o1 \cup {d1}
           h1 == {} \cup {"public"}
           h2 == h1 \cup {"private"}
           h3 == h2 \cup DeriveConditions(c)
           b0 == U("none", "none", {}, {}, {})
           b1 == U("none", "none", {}, {}, h1)
           b2 == U("none", "none", {}, {}, h2)
           a0 == U("none", "none", {}, {}, h3)
           a1 == U("derived", "none", {}, {}, h3)
           a2 == U("derived", d2, o1, {}, h3)
           a3 == U("transport", d2, o1, {}, h3)
           a4 == U("transport", d1, o2, {}, h3)
<1>1. d1 \in Data /\ d2 \in Data /\ KeyOf(d1) = "transport" /\ KeyOf(d2) = "derived"
      /\ "transport" \in Keys /\ "derived" \in Keys
  BY DEF Data, KeyOf, Keys
<1>2. Runs(c, SetKey("derived"), a0, a1) /\ Runs(c, SetKey("transport"), a2, a3)
  BY <1>1, SetKeyRuns
<1>3. Runs(c, Encrypt(d2), a1, a2) /\ Runs(c, Encrypt(d1), a3, a4)
  <2> HIDE DEF d1, d2, o1, o2, h3
  <2>1. Runs(c, Encrypt(d2), U(KeyOf(d2), "none", {}, {}, h3), U(KeyOf(d2), d2, {} \cup {d2}, {}, h3))
    BY <1>1, CryptRuns
  <2>2. Runs(c, Encrypt(d1), U(KeyOf(d1), d2, o1, {}, h3), U(KeyOf(d1), d1, o1 \cup {d1}, {}, h3))
    BY <1>1, CryptRuns
  <2> QED
    BY <1>1, <2>1, <2>2 DEF o1, o2
<1>4. b0 = Nothing
  BY DEF U, Nothing
<1>5. Complete(c, a4)
  <2>1. Fields \subseteq h3
    BY DEF Fields
  <2>2. a4.opened = o2 /\ a4.holds = h3
    BY DEF U
  <2> QED
    BY <2>1, <2>2 DEF Complete, KnowsAll, Data, ChainCalls
<1>14. /\ Runs(c, ExportSubjectPublicKeyInfo, b0, b1) /\ Runs(c, ExportPkcs8PrivateKey, b1, b2)
       /\ Runs(c, DeriveSecret, b2, a0)
  <2> HIDE DEF h1, h2
  <2>1. Runs(c, ExportSubjectPublicKeyInfo, b0, b1) /\ Runs(c, ExportPkcs8PrivateKey, b1, b2)
    BY ExportRuns DEF h1, h2
  <2>2. Runs(c, DeriveSecret, b2, a0)
    BY ImportRuns
  <2> QED
    BY <2>1, <2>2
<1> HIDE DEF d1, d2, o1, o2, h1, h2, h3, b0, b1, b2, a0, a1, a2, a3, a4
<1>6. \A a : /\ Runs(c, <<Request>>, a, a) /\ Runs(c, SetChainingInfo, a, a)
             /\ Runs(c, DeriveKey, a, a)
             /\ Runs(c, GenerateKeyPair("ecdhPrivate"), a, a) /\ Runs(c, GenerateKeyPair("ecdhPublic"), a, a)
  BY QuietFunctions
<1> DEFINE t0 == Cat(Cat(SetKey("derived"), SetChainingInfo), Encrypt(d2))
           t1 == Cat(Cat(Cat(Cat(t0, SetKey("transport")), SetChainingInfo), Encrypt(d1)), <<Request>>)
           t2 == Cat(DeriveKey, AesWrapper(t1))
           t3 == Cat(Cat(Cat(Cat(Cat(GenerateKeyPair("ecdhPrivate"), GenerateKeyPair("ecdhPublic")),
                             ExportSubjectPublicKeyInfo), ExportPkcs8PrivateKey), DeriveSecret), HKDF(t2))
<1>7. Runs(c, t0, a0, a2)
  <2>1. Runs(c, Cat(SetKey("derived"), SetChainingInfo), a0, a1)
    BY <1>2, <1>6, Then
  <2> QED
    BY <1>3, <2>1, Then
<1> HIDE DEF t0
<1>8. Runs(c, t1, a0, a4)
  <2>1. Runs(c, Cat(t0, SetKey("transport")), a0, a3)
    BY <1>2, <1>7, Then
  <2>2. Runs(c, Cat(Cat(t0, SetKey("transport")), SetChainingInfo), a0, a3)
    BY <1>6, <2>1, Then
  <2>3. Runs(c, Cat(Cat(Cat(t0, SetKey("transport")), SetChainingInfo), Encrypt(d1)), a0, a4)
    BY <1>3, <2>2, Then
  <2> QED
    BY <1>6, <2>3, Then
<1> HIDE DEF t1
<1>9. Runs(c, t2, a0, a4)
  <2>1. Runs(c, AesWrapper(t1), a0, a4)
    BY <1>8, ObjectsRun
  <2> QED
    BY <1>6, <2>1, Then
<1> HIDE DEF t2
<1>10. Runs(c, t3, b0, a4)
  <2>1. Runs(c, HKDF(t2), a0, a4)
    BY <1>9, ObjectsRun
  <2>2. Runs(c, Cat(GenerateKeyPair("ecdhPrivate"), GenerateKeyPair("ecdhPublic")), b0, b0)
    BY <1>6, Then
  <2>3. Runs(c, Cat(Cat(GenerateKeyPair("ecdhPrivate"), GenerateKeyPair("ecdhPublic")),
                    ExportSubjectPublicKeyInfo), b0, b1)
    BY <1>14, <2>2, Then
  <2>4. Runs(c, Cat(Cat(Cat(GenerateKeyPair("ecdhPrivate"), GenerateKeyPair("ecdhPublic")),
                    ExportSubjectPublicKeyInfo), ExportPkcs8PrivateKey), b0, b2)
    BY <1>14, <2>3, Then
  <2>5. Runs(c, Cat(Cat(Cat(Cat(GenerateKeyPair("ecdhPrivate"), GenerateKeyPair("ecdhPublic")),
                    ExportSubjectPublicKeyInfo), ExportPkcs8PrivateKey), DeriveSecret), b0, a0)
    BY <1>14, <2>4, Then
  <2> QED
    BY <2>1, <2>5, Then
<1> HIDE DEF t3
<1>11. Runs(c, ECDiffieHellman("ecdhPrivate", ECDiffieHellman("ecdhPublic", t3)), b0, a4)
  BY <1>10, ObjectsRun
<1>12. EncryptWithPadding = ECDiffieHellman("ecdhPrivate", ECDiffieHellman("ecdhPublic", t3))
  BY Zenon DEF EncryptWithPadding, Cat, t0, t1, t2, t3, d1, d2
<1>13. Good(c, << >>, a4)
  BY <1>5, CompleteIsGood
<1> QED
  BY <1>4, <1>11, <1>12, <1>13, RunsToEnd

\* Of a nonempty set of positions one is the first
LEMMA FirstPosition ==
  ASSUME NEW P \in SUBSET Nat, P # {} PROVE \E i \in P : \A j \in P : i <= j
<1> DEFINE R == OpToRel(<, Nat)
<1>1. IsWellFoundedOn(R, Nat)
  BY NatLessThanWellFounded DEF IsWellFoundedOn, OpToRel
<1>2. \A x, y \in Nat : x < y => <<x, y>> \in R
  BY DEF OpToRel
<1> HIDE DEF R
<1>3. PICK i \in P : \A j \in P : ~(<<j, i>> \in R)
  BY <1>1, WFMin DEF IsWellFoundedOn
<1>4. ASSUME NEW j \in P PROVE i <= j
  <2>1. i \in Nat /\ j \in Nat /\ ~(j < i)
    BY <1>2, <1>3
  <2> QED
    BY <2>1
<1> QED
  BY <1>4

\* What FlattenSeq concatenates, step by step: its recursion has a solution
FlatStep(f, ss, i) == IF i = 1 THEN ss[i] ELSE f[i - 1] \o ss[i]

\* By a smallest length at which it had none
LEMMA Flattening ==
  ASSUME NEW ss, NEW n \in Nat PROVE \E f : f = [i \in 1..n |-> FlatStep(f, ss, i)]
<1> DEFINE P == {m \in Nat : ~\E f : f = [i \in 1..m |-> FlatStep(f, ss, i)]}
<1>1. SUFFICES ASSUME P # {} PROVE FALSE
  BY <1>1
<1>2. PICK m \in P : \A j \in P : m <= j
  <2>1. P \in SUBSET Nat
    OBVIOUS
  <2> HIDE DEF P
  <2> QED
    BY <1>1, <2>1, FirstPosition
<1>3. m \in Nat /\ ~\E f : f = [i \in 1..m |-> FlatStep(f, ss, i)]
  OBVIOUS
<1>4. m # 0
  <2>1. SUFFICES ASSUME m = 0 PROVE FALSE
    OBVIOUS
  <2> DEFINE f == [i \in 1..0 |-> 0]
  <2>2. f = [i \in 1..0 |-> FlatStep(f, ss, i)]
    OBVIOUS
  <2> QED
    BY <1>3, <2>1, <2>2
<1>5. m - 1 \in Nat /\ m - 1 \notin P
  <2>1. ~(m <= m - 1) /\ m - 1 \in Nat
    BY <1>3, <1>4
  <2> HIDE DEF P
  <2> QED
    BY <1>2, <2>1
<1>6. PICK g : g = [i \in 1..(m - 1) |-> FlatStep(g, ss, i)]
  BY <1>5
<1> HIDE DEF P
<1> DEFINE f == [i \in 1..m |-> IF i < m THEN g[i] ELSE FlatStep(g, ss, m)]
<1>7. ASSUME NEW i \in 1..m PROVE f[i] = FlatStep(f, ss, i)
  <2>1. i \in Nat /\ m \in Nat /\ 1 <= i /\ i <= m
    BY <1>3
  <2>2. ASSUME i # 1 PROVE i - 1 \in 1..m /\ i - 1 < m /\ f[i - 1] = g[i - 1]
    BY <2>1, <2>2
  <2>3. FlatStep(f, ss, i) = FlatStep(g, ss, i)
    <3> HIDE DEF f
    <3> QED
      BY <2>2 DEF FlatStep
  <2>4. CASE i < m
    <3>1. i \in 1..(m - 1)
      BY <2>1, <2>4
    <3>2. g[i] = FlatStep(g, ss, i)
      BY <1>6, <3>1
    <3>3. f[i] = g[i]
      BY <2>4
    <3> QED
      BY <2>3, <3>2, <3>3
  <2>5. CASE ~(i < m)
    <3>1. i = m
      BY <2>1, <2>5
    <3>2. f[m] = FlatStep(g, ss, m)
      BY <2>1, <3>1
    <3> QED
      BY <2>3, <3>1, <3>2
  <2> QED
    BY <2>4, <2>5
<1>8. f = [i \in 1..m |-> f[i]]
  OBVIOUS
<1> HIDE DEF f
<1>9. f = [i \in 1..m |-> FlatStep(f, ss, i)]
  BY <1>7, <1>8
<1> QED
  BY <1>3, <1>9

\* FlattenSeq runs its sequences one after the other
LEMMA FlatRuns ==
  ASSUME NEW c, NEW n \in Nat, NEW ss, IsSeq(ss), Len(ss) = n, NEW A,
         \A i \in 1..n : Runs(c, ss[i], A[i - 1], A[i])
  PROVE  Runs(c, FlattenSeq(ss), A[0], A[n])
<1>1. CASE n = 0
  <2>1. FlattenSeq(ss) = << >>
    <3>1. PICK S : ss \in Seq(S)
      BY DEF IsSeq
    <3>2. ss = << >>
      BY <1>1, <3>1
    <3> QED
      BY <1>1, <3>2 DEF FlattenSeq
  <2> QED
    BY <1>1, <2>1, Empty
<1>2. CASE n # 0
  <2> DEFINE flat == CHOOSE f : f = [i \in 1..Len(ss) |-> IF i = 1 THEN ss[i] ELSE f[i - 1] \o ss[i]]
  <2>1. flat = [i \in 1..n |-> FlatStep(flat, ss, i)]
    <3>1. \E f : f = [i \in 1..n |-> FlatStep(f, ss, i)]
      BY Flattening
    <3>2. \E f : f = [i \in 1..Len(ss) |-> IF i = 1 THEN ss[i] ELSE f[i - 1] \o ss[i]]
      BY <3>1 DEF FlatStep
    <3>3. flat = [i \in 1..Len(ss) |-> IF i = 1 THEN ss[i] ELSE flat[i - 1] \o ss[i]]
      BY <3>2
    <3> HIDE DEF flat
    <3> QED
      BY <3>3 DEF FlatStep
  <2>2. FlattenSeq(ss) = flat[n]
    BY <1>2, Zenon DEF FlattenSeq
  <2> HIDE DEF flat
  <2>3. \A i \in 1..n : flat[i] = FlatStep(flat, ss, i)
    BY <2>1
  <2>4. flat[1] = ss[1] /\ \A i \in 2..n : flat[i] = Cat(flat[i - 1], ss[i])
    <3>1. 1 \in 1..n /\ \A i \in 2..n : i \in 1..n /\ i # 1
      BY <1>2
    <3>2. FlatStep(flat, ss, 1) = ss[1] /\ \A i \in 2..n : FlatStep(flat, ss, i) = Cat(flat[i - 1], ss[i])
      BY <3>1, Zenon DEF FlatStep, Cat
    <3> QED
      BY <2>3, <3>1, <3>2
  <2> DEFINE P == {i \in 1..n : ~Runs(c, flat[i], A[0], A[i])}
  <2>5. P = {}
    <3>1. SUFFICES ASSUME P # {} PROVE FALSE
      OBVIOUS
    <3>2. PICK m \in P : \A j \in P : m <= j
      <4>1. P \in SUBSET Nat
        OBVIOUS
      <4> HIDE DEF P
      <4> QED
        BY <3>1, <4>1, FirstPosition
    <3>3. m \in 1..n /\ ~Runs(c, flat[m], A[0], A[m])
      OBVIOUS
    <3>4. Runs(c, ss[m], A[m - 1], A[m])
      BY <3>3
    <3>5. m # 1
      BY <2>4, <3>3, <3>4
    <3>6. m - 1 \in 1..n /\ m \in 2..n
      BY <3>3, <3>5
    <3>7. m - 1 \notin P
      <4>1. ~(m <= m - 1)
        BY <3>3
      <4> HIDE DEF P
      <4> QED
        BY <3>2, <4>1
    <3>8. Runs(c, flat[m - 1], A[0], A[m - 1])
      BY <3>6, <3>7
    <3>9. Runs(c, Cat(flat[m - 1], ss[m]), A[0], A[m])
      BY <3>4, <3>8, Then
    <3> QED
      BY <2>4, <3>3, <3>6, <3>9
  <2>6. n \in 1..n
    BY <1>2
  <2> QED
    BY <2>2, <2>5, <2>6
<1> QED
  BY <1>1, <1>2

-----------------------------------------------------------------------------
(* The verdict on a chain and on a report *)

\* What each instruction of ParseToken and ValidateSignature adds
LEMMA ChainInstructions ==
  ASSUME NEW c, c.view = "verdict", c.name \in ChainCalls, NEW h, NEW e, NEW s, NEW b
  PROVE  /\ \A i : i \in 1..c.last \/ (i = 1 /\ "has_x5c" \in h) =>
              Runs(c, <<LoadCertificate(i)>>, X(h, e, s, b), X(h, e \cup {i}, s, b))
         /\ \A i \in 2..c.last :
              Runs(c, <<AddToStore(i)>>, X(h, e, s, b), X(h, e, s \cup {i}, b))
         /\ Runs(c, <<BuildChain>>, X(h, e, s, b), X(h, e, s, b \cup s))
         /\ \A condition \in ChainConditions :
              condition # "chain_verifies"
              \/ (IF c.backend = "windows" THEN b ELSE s) = Intermediates(c) =>
                Runs(c, <<Test(condition)>>, X(h, e, s, b), X(h \cup {condition}, e, s, b))
<1> DEFINE a == X(h, e, s, b)
<1>0. a.holds = h /\ a.added = s /\ a.built = b
  BY DEF X
<1>1. ASSUME NEW i, i \in 1..c.last \/ (i = 1 /\ "has_x5c" \in h)
      PROVE  Runs(c, <<LoadCertificate(i)>>, a, X(h, e \cup {i}, s, b))
  <2> DEFINE x == LoadCertificate(i)
  <2>1. x.op = "load" /\ x.index = i
    BY DEF LoadCertificate
  <2>2. [a EXCEPT !.decoded = @ \cup {i}] = X(h, e \cup {i}, s, b)
    BY DEF X
  <2> HIDE DEF x, a
  <2>3. Fits(c, x, a)
    BY <1>0, <1>1, <2>1 DEF Fits, Judges
  <2>4. Learn(c, x, a) = [a EXCEPT !.decoded = @ \cup {i}]
    BY <2>1 DEF Learn, Discover
  <2>5. Runs(c, <<x>>, a, Learn(c, x, a))
    BY <2>1, <2>3, One
  <2> QED
    BY <2>2, <2>4, <2>5 DEF x
<1>2. ASSUME NEW i \in 2..c.last PROVE Runs(c, <<AddToStore(i)>>, a, X(h, e, s \cup {i}, b))
  <2> DEFINE x == AddToStore(i)
  <2>1. x.op = "add" /\ x.index = i
    BY DEF AddToStore
  <2>2. [a EXCEPT !.added = @ \cup {i}] = X(h, e, s \cup {i}, b)
    BY DEF X
  <2> HIDE DEF x, a
  <2>3. Fits(c, x, a)
    BY <2>1 DEF Fits, Judges
  <2>4. Learn(c, x, a) = [a EXCEPT !.added = @ \cup {i}]
    BY <2>1 DEF Learn, Discover
  <2>5. Runs(c, <<x>>, a, Learn(c, x, a))
    BY <2>1, <2>3, One
  <2> QED
    BY <2>2, <2>4, <2>5 DEF x
<1>3. Runs(c, <<BuildChain>>, a, X(h, e, s, b \cup s))
  <2> DEFINE x == BuildChain
  <2>1. x.op = "build_chain"
    BY DEF BuildChain
  <2>2. [a EXCEPT !.built = @ \cup s] = X(h, e, s, b \cup s)
    BY DEF X
  <2> HIDE DEF x, a
  <2>3. Fits(c, x, a)
    BY <2>1 DEF Fits, Judges
  <2>4. Learn(c, x, a) = [a EXCEPT !.built = @ \cup s]
    BY <1>0, <2>1 DEF Learn, Discover
  <2>5. Runs(c, <<x>>, a, Learn(c, x, a))
    BY <2>1, <2>3, One
  <2> QED
    BY <2>2, <2>4, <2>5 DEF x
<1>4. ASSUME NEW condition \in ChainConditions,
             condition # "chain_verifies" \/ (IF c.backend = "windows" THEN b ELSE s) = Intermediates(c)
      PROVE  Runs(c, <<Test(condition)>>, a, X(h \cup {condition}, e, s, b))
  <2> DEFINE x == Test(condition)
  <2>1. x.op = "test" /\ x.condition = condition /\ condition # "not_empty"
    BY DEF Test, ChainConditions
  <2>2. [a EXCEPT !.holds = @ \cup {condition}] = X(h \cup {condition}, e, s, b)
    BY DEF X
  <2> HIDE DEF x, a
  <2>3. CanTest(c, condition, a)
    <3>1. CASE condition # "chain_verifies"
      BY <3>1 DEF CanTest
    <3>2. CASE condition = "chain_verifies"
      BY <1>0, <1>4, <3>2 DEF CanTest
    <3> QED
      BY <3>1, <3>2
  <2>4. Fits(c, x, a)
    BY <2>1, <2>3 DEF Fits, Judges
  <2>5. Learn(c, x, a) = [a EXCEPT !.holds = @ \cup {condition}]
    BY <2>1 DEF Learn, Discover
  <2>6. Runs(c, <<x>>, a, Learn(c, x, a))
    BY <2>1, <2>4, One
  <2> QED
    BY <2>2, <2>5, <2>6 DEF x
<1> HIDE DEF a
<1>5. a = X(h, e, s, b)
  BY DEF a
<1> QED
  BY <1>1, <1>2, <1>3, <1>4, <1>5

\* Single instructions that change nothing that is known
LEMMA CalmRuns ==
  ASSUME NEW c, c.view = "verdict", NEW x, x.op \in Calm, NEW a PROVE Runs(c, <<x>>, a, a)
<1>1. QuietSeq(<<x>>)
  BY QuietTuples
<1> QED
  BY <1>1, QuietRuns

\* The certificates of x5c and the verdict on them, in both builds
LEMMA ChainFunctions ==
  ASSUME NEW c, c.view = "verdict", c.name \in ChainCalls, c.backend = backend,
         NEW h, NEW e, NEW s, NEW b
  PROVE  /\ \A i \in 2..c.last : c.last \in Nat =>
              Runs(c, LoadIntermediateCertificate(i), X(h, e, s, b), X(h, e \cup {i}, s \cup {i}, b))
         /\ 1 \in 1..c.last \/ "has_x5c" \in h =>
              Runs(c, LoadLeafCertificate, X(h, e, s, b),
                   X(h, e \cup {1}, s, IF Windows THEN b \cup s ELSE b))
         /\ (IF Windows THEN b ELSE s) = Intermediates(c) =>
              Runs(c, VerifyCertChain, X(h, e, s, b), X(h \cup {"chain_verifies"}, e, s, b))
         /\ Runs(c, VerifySignature, X(h, e, s, b), X(h \cup {"signature_verifies"}, e, s, b))
<1>1. ASSUME NEW i \in 2..c.last, c.last \in Nat
      PROVE  Runs(c, LoadIntermediateCertificate(i), X(h, e, s, b), X(h, e \cup {i}, s \cup {i}, b))
  <2> DEFINE a0 == X(h, e, s, b)
             a1 == X(h, e \cup {i}, s, b)
             a2 == X(h, e \cup {i}, s \cup {i}, b)
             x == LoadCertificate(i)
             y == AddToStore(i)
             u == Allocate(intermediate(i))
             w == Own(intermediate(i))
             r == Request
  <2>0. i \in 1..c.last
    BY <1>1
  <2>1. Runs(c, <<x>>, a0, a1)
    BY <2>0, ChainInstructions
  <2>2. Runs(c, <<y>>, a1, a2)
    BY ChainInstructions
  <2>3. u.op \in Calm /\ w.op \in Calm /\ r.op \in Calm
    BY CalmInstructions
  <2>4. LoadIntermediateCertificate(i) \in {<<x, u, r, y>>, <<x, u, r, w, y>>}
    BY Zenon DEF LoadIntermediateCertificate, Wincrypt_LoadIntermediateCertificate,
                 Ossl_LoadIntermediateCertificate
  <2> HIDE DEF a0, a1, a2, x, y, u, w, r
  <2>5. Runs(c, <<u>>, a1, a1) /\ Runs(c, <<w>>, a1, a1) /\ Runs(c, <<r>>, a1, a1)
    BY <2>3, CalmRuns
  <2>6. Runs(c, <<x, u, r, y>>, a0, a2) /\ Runs(c, <<x, u, r, w, y>>, a0, a2)
    BY <2>1, <2>2, <2>5, Few
  <2> QED
    BY <2>4, <2>6 DEF a0, a2
<1>2. ASSUME 1 \in 1..c.last \/ "has_x5c" \in h
      PROVE  Runs(c, LoadLeafCertificate, X(h, e, s, b),
                  X(h, e \cup {1}, s, IF Windows THEN b \cup s ELSE b))
  <2> DEFINE a0 == X(h, e, s, b)
             a1 == X(h, e \cup {1}, s, b)
             a2 == X(h, e \cup {1}, s, b \cup s)
             x == LoadCertificate(1)
             y == BuildChain
             u == Allocate(leafContext)
             w == Allocate(chainContext)
             r == New(leaf_cert)
  <2>1. Runs(c, <<x>>, a0, a1)
    BY <1>2, ChainInstructions
  <2>2. Runs(c, <<y>>, a1, a2)
    BY ChainInstructions
  <2>3. u.op \in Calm /\ w.op \in Calm /\ r.op \in Calm
    BY CalmInstructions
  <2>4. LoadLeafCertificate = IF Windows THEN <<x, u, w, y>> ELSE <<x, r>>
    BY Zenon DEF LoadLeafCertificate, Wincrypt_LoadLeafCertificate, Ossl_LoadLeafCertificate
  <2> HIDE DEF a0, a1, a2, x, y, u, w, r
  <2>5. Runs(c, <<u>>, a1, a1) /\ Runs(c, <<w>>, a1, a1) /\ Runs(c, <<r>>, a1, a1)
    BY <2>3, CalmRuns
  <2>6. Runs(c, <<x, u, w, y>>, a0, a2) /\ Runs(c, <<x, r>>, a0, a1)
    BY <2>1, <2>2, <2>5, Few
  <2>7. X(h, e \cup {1}, s, IF Windows THEN b \cup s ELSE b) = IF Windows THEN a2 ELSE a1
    BY DEF a1, a2
  <2>8. CASE Windows
    BY <2>4, <2>6, <2>7, <2>8 DEF a0
  <2>9. CASE ~Windows
    BY <2>4, <2>6, <2>7, <2>9 DEF a0
  <2> QED
    BY <2>8, <2>9
<1>3. ASSUME (IF Windows THEN b ELSE s) = Intermediates(c)
      PROVE  Runs(c, VerifyCertChain, X(h, e, s, b), X(h \cup {"chain_verifies"}, e, s, b))
  <2> DEFINE a0 == X(h, e, s, b)
             a1 == X(h \cup {"chain_verifies"}, e, s, b)
             x == Test("chain_verifies")
             r == Request
  <2>0. (IF c.backend = "windows" THEN b ELSE s) = Intermediates(c) /\ "chain_verifies" \in ChainConditions
    BY <1>3 DEF Windows, ChainConditions
  <2>1. Runs(c, <<x>>, a0, a1)
    BY <2>0, ChainInstructions
  <2>2. r.op \in Calm
    BY CalmInstructions
  <2>3. VerifyCertChain = <<r, x>>
    BY Zenon DEF VerifyCertChain
  <2> HIDE DEF a0, a1, x, r
  <2>4. Runs(c, <<r>>, a0, a0)
    BY <2>2, CalmRuns
  <2>5. Runs(c, <<r, x>>, a0, a1)
    BY <2>1, <2>4, Few
  <2> QED
    BY <2>3, <2>5 DEF a0, a1
<1>4. Runs(c, VerifySignature, X(h, e, s, b), X(h \cup {"signature_verifies"}, e, s, b))
  <2> DEFINE a0 == X(h, e, s, b)
             a1 == X(h \cup {"signature_verifies"}, e, s, b)
             x == Test("signature_verifies")
             r == Request
             u == Allocate(hKey)
             w == Release(hKey)
             t == <<r, x>>
             p == Object(<<New(hHashAlg)>>, {hHashAlg}, t)
  <2>0. "signature_verifies" \in ChainConditions
    BY DEF ChainConditions
  <2>1. Runs(c, <<x>>, a0, a1)
    BY <2>0, ChainInstructions
  <2>2. r.op \in Calm /\ u.op \in Calm /\ w.op \in Calm /\ QuietSeq(<<New(hHashAlg)>>)
    BY CalmInstructions, QuietTuples
  <2>3. VerifySignature = IF Windows THEN Cat(Cat(<<u>>, p), <<w>>) ELSE t
    BY Zenon DEF VerifySignature, Wincrypt_VerifySignature, Ossl_VerifySignature, Cat
  <2> HIDE DEF a0, a1, x, r, u, w
  <2>4. Runs(c, <<r>>, a0, a0) /\ Runs(c, <<u>>, a0, a0) /\ Runs(c, <<w>>, a1, a1)
    BY <2>2, CalmRuns
  <2>5. Runs(c, t, a0, a1)
    BY <2>1, <2>4, Few
  <2> HIDE DEF t
  <2>6. Runs(c, p, a0, a1)
    BY <2>2, <2>5, ObjectRuns
  <2> HIDE DEF p
  <2>7. Runs(c, Cat(<<u>>, p), a0, a1)
    BY <2>4, <2>6, Then
  <2>8. Runs(c, Cat(Cat(<<u>>, p), <<w>>), a0, a1)
    BY <2>4, <2>7, Then
  <2>9. Runs(c, VerifySignature, a0, a1)
    BY <2>3, <2>5, <2>8
  <2> QED
    BY <2>9 DEF a0, a1
<1> QED
  BY <1>1, <1>2, <1>3, <1>4

\* The object that holds the certificates, for any number of roots
LEMMA X509Runs ==
  ASSUME NEW c, c.view = "verdict", NEW n \in Nat, NEW scope, NEW a, NEW b, Runs(c, scope, a, b)
  PROVE  Runs(c, X509(n, scope), a, b)
<1>1. Runs(c, WincryptX509(n, scope), a, b)
  <2> DEFINE w == <<Allocate(rootContext), Request>>
             ss == [i \in 1..n |-> w]
             A == [i \in 0..n |-> a]
             x == New(hStore)
             k == Cat(<<x>>, FlattenSeq(ss))
             D == {leafPrivateKey, hStore}
  <2>1. WincryptX509(n, scope) = Object(k, D, scope)
    BY Zenon DEF WincryptX509, Cat
  <2>2. x.op \in Calm /\ QuietSeq(w)
    BY CalmInstructions, QuietTuples
  <2> HIDE DEF x, w, D
  <2>3. Runs(c, <<x>>, a, a) /\ Runs(c, w, a, a)
    BY <2>2, CalmRuns, QuietRuns
  <2>4. IsSeq(ss) /\ Len(ss) = n
    <3>1. ss \in Seq({w}) /\ Len(ss) = n
      OBVIOUS
    <3> HIDE DEF ss
    <3> QED
      BY <3>1 DEF IsSeq
  <2>5. ASSUME NEW i \in 1..n PROVE ss[i] = w /\ A[i - 1] = a /\ A[i] = a
    OBVIOUS
  <2>6. A[0] = a /\ A[n] = a
    OBVIOUS
  <2> HIDE DEF ss, A
  <2>7. \A i \in 1..n : Runs(c, ss[i], A[i - 1], A[i])
    BY <2>3, <2>5
  <2>8. Runs(c, FlattenSeq(ss), A[0], A[n])
    BY <2>4, <2>7, FlatRuns
  <2>9. Runs(c, k, a, a)
    BY <2>3, <2>6, <2>8, Then
  <2> HIDE DEF k
  <2>10. Runs(c, Object(k, D, scope), a, b)
    BY <2>9, ConstructedRuns
  <2> QED
    BY <2>1, <2>10
<1>2. Runs(c, OsslX509(n, scope), a, b)
  <2> DEFINE k == <<New(intermediate_certs), New(store), Request>>
             D == {store, intermediate_certs, leaf_cert} \cup {intermediate(i) : i \in Positions}
  <2>1. QuietSeq(k)
    BY CalmInstructions, QuietTuples
  <2>2. OsslX509(n, scope) = Object(k, D, scope)
    BY Zenon DEF OsslX509
  <2> HIDE DEF k, D
  <2> QED
    BY <2>1, <2>2, ObjectRuns
<1> QED
  BY <1>1, <1>2, Zenon DEF X509

\* The certificates behind the leaf, one after the other
LEMMA IntermediatesRun ==
  ASSUME NEW c, c.view = "verdict", c.name \in ChainCalls, c.backend = backend, c.last \in Nat, NEW h
  PROVE  LET n == IF c.last = 0 THEN 0 ELSE c.last - 1
         IN  /\ Runs(c, FlattenSeq([i \in 1..c.last - 1 |-> LoadIntermediateCertificate(i + 1)]),
                     X(h, {}, {0}, {}), X(h, 2..(n + 1), Intermediates(c), {}))
<1> DEFINE n == IF c.last = 0 THEN 0 ELSE c.last - 1
           ss == [i \in 1..c.last - 1 |-> LoadIntermediateCertificate(i + 1)]
           A == [i \in 0..n |-> X(h, 2..(i + 1), {0} \cup 2..(i + 1), {})]
<1>1. n \in Nat /\ 1..c.last - 1 = 1..n /\ \A i \in 1..n : i + 1 \in 2..c.last
  OBVIOUS
<1>2. Intermediates(c) = {0} \cup 2..(n + 1)
  BY DEF Intermediates
<1> HIDE DEF n
<1>3. IsSeq(ss) /\ Len(ss) = n
  <2> DEFINE S == {LoadIntermediateCertificate(i + 1) : i \in 1..n}
  <2>1. ss \in [1..n -> S]
    BY <1>1
  <2> HIDE DEF S, ss
  <2>2. ss \in Seq(S) /\ Len(ss) = n
    BY <1>1, <2>1
  <2> QED
    BY <2>2 DEF IsSeq
<1>4. ASSUME NEW i \in 1..n PROVE Runs(c, ss[i], A[i - 1], A[i])
  <2>1. /\ i \in Nat /\ i + 1 \in 2..c.last
        /\ i - 1 \in 0..n /\ i \in 0..n
    BY <1>1
  <2>2. 2..((i - 1) + 1) \cup {i + 1} = 2..(i + 1)
    BY <2>1
  <2>3. ({0} \cup 2..((i - 1) + 1)) \cup {i + 1} = {0} \cup 2..(i + 1)
    BY <2>2
  <2> DEFINE e == 2..((i - 1) + 1)
             s == {0} \cup 2..((i - 1) + 1)
             j == i + 1
             f == 2..(i + 1)
             t == {0} \cup 2..(i + 1)
  <2>4. A[i - 1] = X(h, e, s, {}) /\ A[i] = X(h, f, t, {})
    BY <2>1
  <2>5. ss[i] = LoadIntermediateCertificate(j)
    BY <1>1
  <2>6. e \cup {j} = f /\ s \cup {j} = t /\ j \in 2..c.last
    BY <2>1, <2>2, <2>3
  <2> HIDE DEF e, s, j, f, t, A, ss
  <2>7. Runs(c, LoadIntermediateCertificate(j), X(h, e, s, {}), X(h, e \cup {j}, s \cup {j}, {}))
    BY <2>6, ChainFunctions
  <2> QED
    BY <2>4, <2>5, <2>6, <2>7
<1>5. A[0] = X(h, {}, {0}, {}) /\ A[n] = X(h, 2..(n + 1), Intermediates(c), {})
  <2>1. 0 \in 0..n /\ n \in 0..n /\ 2..(0 + 1) = {} /\ {0} \cup 2..(0 + 1) = {0}
    BY <1>1
  <2>2. A[0] = X(h, 2..(0 + 1), {0} \cup 2..(0 + 1), {}) /\ A[n] = X(h, 2..(n + 1), {0} \cup 2..(n + 1), {})
    BY <2>1
  <2> QED
    BY <1>2, <2>1, <2>2
<1> HIDE DEF A, ss
<1>6. Runs(c, FlattenSeq(ss), A[0], A[n])
  BY <1>1, <1>3, <1>4, FlatRuns
<1> QED
  BY <1>5, <1>6 DEF ss, n

\* ParseToken judges the whole of x5c
LEMMA ParseTokenGood ==
  ASSUME NEW c, c.view = "verdict", c.name = "verify", c.backend = backend,
         NEW x5c, Len(x5c) = c.last, c.last \in Nat
  PROVE  Good(c, ParseToken(x5c), Nothing)
<1> DEFINE n == IF c.last = 0 THEN 0 ELSE c.last - 1
           e == 2..(n + 1)
           f == e \cup {1}
           s == Intermediates(c)
           b == IF Windows THEN {} \cup s ELSE {}
           h1 == {} \cup {"has_x5c"}
           h2 == h1 \cup {"chain_verifies"}
           h3 == h2 \cup {"signature_verifies"}
           a0 == X({}, {}, {0}, {})
           a1 == X(h1, {}, {0}, {})
           a2 == X(h1, e, s, {})
           a3 == X(h1, f, s, b)
           a4 == X(h2, f, s, b)
           a5 == X(h3, f, s, b)
           ss == [i \in 1..Len(x5c) - 1 |-> LoadIntermediateCertificate(i + 1)]
           z == Test("has_x5c")
           t == Cat(Cat(Cat(Cat(<<z>>, FlattenSeq(ss)), LoadLeafCertificate), VerifyCertChain),
                    VerifySignature)
<1>1. c.name \in ChainCalls
  BY DEF ChainCalls
<1>2. Runs(c, <<z>>, a0, a1)
  <2>1. "has_x5c" \in ChainConditions /\ "has_x5c" # "chain_verifies"
    BY DEF ChainConditions
  <2> QED
    BY <1>1, <2>1, ChainInstructions
<1>3. Runs(c, FlattenSeq(ss), a1, a2)
  <2> HIDE DEF h1
  <2> QED
    BY <1>1, IntermediatesRun
<1>4. Runs(c, LoadLeafCertificate, a2, a3)
  <2>1. "has_x5c" \in h1
    OBVIOUS
  <2> HIDE DEF h1, e, s
  <2> QED
    BY <1>1, <2>1, ChainFunctions
<1>5. Runs(c, VerifyCertChain, a3, a4)
  <2>1. (IF Windows THEN b ELSE s) = Intermediates(c)
    OBVIOUS
  <2> HIDE DEF h1, f, s, b
  <2> QED
    BY <1>1, <2>1, ChainFunctions
<1>6. Runs(c, VerifySignature, a4, a5)
  <2> HIDE DEF h2, f, s, b
  <2> QED
    BY <1>1, ChainFunctions
<1>7. a0 = Nothing
  BY DEF X, Nothing
<1>8. Complete(c, a5)
  <2>1. 1..c.last \subseteq f
    OBVIOUS
  <2>2. ChainConditions \subseteq h3
    BY DEF ChainConditions
  <2> HIDE DEF f, h3, s, b
  <2> QED
    BY <2>1, <2>2 DEF Complete, KnowsAll, X
<1>9. ParseToken(x5c) = X509(Cardinality(TrustedRoots), t)
  BY Zenon DEF ParseToken, Cat
<1> HIDE DEF a0, a1, a2, a3, a4, a5, ss, z
<1>10. Runs(c, t, a0, a5)
  <2>1. Runs(c, Cat(<<z>>, FlattenSeq(ss)), a0, a2)
    BY <1>2, <1>3, Then
  <2>2. Runs(c, Cat(Cat(<<z>>, FlattenSeq(ss)), LoadLeafCertificate), a0, a3)
    BY <1>4, <2>1, Then
  <2>3. Runs(c, Cat(Cat(Cat(<<z>>, FlattenSeq(ss)), LoadLeafCertificate), VerifyCertChain), a0, a4)
    BY <1>5, <2>2, Then
  <2> QED
    BY <1>6, <2>3, Then
<1> HIDE DEF t
<1>11. Cardinality(TrustedRoots) \in Nat
  BY ConstantsAssumption, FS_CardinalityType
<1>12. Runs(c, X509(Cardinality(TrustedRoots), t), a0, a5)
  BY <1>10, <1>11, X509Runs
<1>13. Good(c, << >>, a5)
  BY <1>8, CompleteIsGood
<1> QED
  BY <1>7, <1>9, <1>12, <1>13, RunsToEnd

\* The certificates of the tests, and their keys, tell nothing about x5c
LEMMA GenerateRuns ==
  ASSUME NEW c, c.view = "verdict", NEW a
  PROVE  /\ \A o : Runs(c, createRootCACert(o), a, a) /\ Runs(c, createSignedCert(o), a, a)
         /\ Runs(c, convertToBcryptKey, a, a)
         /\ Runs(c, generateKey, a, a) /\ Runs(c, <<generateCSR>>, a, a) /\ Runs(c, signCertificate, a, a)
         /\ Runs(c, <<SetLeafKey>>, a, a) /\ Runs(c, SignData, a, a)
         /\ \A o, scope, b : Runs(c, scope, a, b) => Runs(c, GeneratedCert(o, scope), a, b)
<1>1. ASSUME NEW x, x.op \in Calm PROVE Runs(c, <<x>>, a, a) /\ QuietSeq(<<x>>)
  BY <1>1, CalmRuns, QuietTuples
<1>2. Runs(c, <<Request>>, a, a)
  BY <1>1, CalmInstructions
<1>3. ASSUME NEW o PROVE Runs(c, createRootCACert(o), a, a) /\ Runs(c, createSignedCert(o), a, a)
  <2> DEFINE u == createKeyPair(o)
             y == New(pbEncoded(o))
             z == New(cert(o))
             D == {pbEncoded(o)}
             p == Object(<<y>>, D, <<z>>)
             q == Object(<<y>>, D, <<Request>>)
  <2>1. QuietSeq(u)
    BY CalmInstructions, QuietTuples DEF createKeyPair
  <2>2. y.op \in Calm /\ z.op \in Calm
    BY CalmInstructions
  <2>3. /\ createRootCACert(o) = Cat(Cat(u, <<Request>>), p)
        /\ createSignedCert(o) = Cat(Cat(Cat(u, <<Request>>), q), <<z>>)
    BY Zenon DEF createRootCACert, createSignedCert, Cat
  <2> HIDE DEF u, y, z, D
  <2>4. Runs(c, u, a, a) /\ Runs(c, <<z>>, a, a) /\ QuietSeq(<<y>>)
    BY <1>1, <2>1, <2>2, QuietRuns
  <2>5. Runs(c, p, a, a) /\ Runs(c, q, a, a)
    BY <1>2, <2>4, ObjectRuns
  <2> HIDE DEF p, q
  <2>6. Runs(c, Cat(u, <<Request>>), a, a)
    BY <1>2, <2>4, Then
  <2>7. Runs(c, Cat(Cat(u, <<Request>>), p), a, a) /\ Runs(c, Cat(Cat(u, <<Request>>), q), a, a)
    BY <2>5, <2>6, Then
  <2>8. Runs(c, Cat(Cat(Cat(u, <<Request>>), q), <<z>>), a, a)
    BY <2>4, <2>7, Then
  <2> QED
    BY <2>3, <2>7, <2>8
<1>4. Runs(c, convertToBcryptKey, a, a)
  <2> DEFINE y == New(hRsaAlg)
             z == Allocate(leafPrivateKey)
             D == {hRsaAlg}
             p == Object(<<y>>, D, <<z>>)
  <2>1. y.op \in Calm /\ z.op \in Calm
    BY CalmInstructions
  <2>2. convertToBcryptKey = Cat(<<Request>>, p)
    BY Zenon DEF convertToBcryptKey, Cat
  <2> HIDE DEF y, z, D
  <2>3. Runs(c, <<z>>, a, a) /\ QuietSeq(<<y>>)
    BY <1>1, <2>1
  <2>4. Runs(c, p, a, a)
    BY <2>3, ObjectRuns
  <2> HIDE DEF p
  <2> QED
    BY <1>2, <2>2, <2>4, Then
<1>5. Runs(c, generateKey, a, a)
  <2> DEFINE y == Allocate(pkeyCtx)
             z == Release(pkeyCtx)
             r == Request
  <2>1. y.op \in Calm /\ z.op \in Calm /\ r.op \in Calm
    BY CalmInstructions
  <2>2. generateKey = <<y, r, z, r>>
    BY Zenon DEF generateKey
  <2> HIDE DEF y, z, r
  <2>3. Runs(c, <<y>>, a, a) /\ Runs(c, <<z>>, a, a) /\ Runs(c, <<r>>, a, a)
    BY <1>1, <2>1
  <2>4. Runs(c, <<y, r, z, r>>, a, a)
    BY <2>3, Few
  <2> QED
    BY <2>2, <2>4
<1>6. Runs(c, <<generateCSR>>, a, a) /\ Runs(c, <<SetLeafKey>>, a, a)
  BY <1>1, CalmInstructions DEF generateCSR, SetLeafKey
<1>7. Runs(c, signCertificate, a, a)
  <2>1. QuietSeq(signCertificate)
    BY CalmInstructions, QuietTuples DEF signCertificate, addExtensions
  <2> QED
    BY <2>1, QuietRuns
<1>8. Runs(c, SignData, a, a)
  <2> DEFINE y == New(hHashAlg)
             D == {hHashAlg}
             p == Object(<<y>>, D, <<Request>>)
  <2>1. y.op \in Calm
    BY CalmInstructions
  <2>2. SignData \in {Cat(p, <<Request>>), <<Request>>}
    BY Zenon DEF SignData, Wincrypt_SignData, Ossl_SignData, Cat
  <2> HIDE DEF y, D
  <2>3. QuietSeq(<<y>>)
    BY <1>1, <2>1
  <2>4. Runs(c, p, a, a)
    BY <1>2, <2>3, ObjectRuns
  <2> HIDE DEF p
  <2>5. Runs(c, Cat(p, <<Request>>), a, a)
    BY <1>2, <2>4, Then
  <2> QED
    BY <1>2, <2>2, <2>5
<1>9. ASSUME NEW o, NEW scope, NEW b, Runs(c, scope, a, b) PROVE Runs(c, GeneratedCert(o, scope), a, b)
  <2> DEFINE D == {cert(o), key(o), hProv(o), container(o)}
  <2>1. GeneratedCert(o, scope) = Object(<< >>, D, scope)
    BY Zenon DEF GeneratedCert
  <2> HIDE DEF D
  <2>2. QuietSeq(<< >>)
    BY CalmInstructions, QuietTuples
  <2> QED
    BY <1>9, <2>1, <2>2, ObjectRuns
<1> QED
  BY <1>3, <1>4, <1>5, <1>6, <1>7, <1>8, <1>9

\* So does the test that signs with the generated chain
LEMMA ValidateSignatureGood ==
  ASSUME NEW c, c.view = "verdict", c.name = "generate", c.backend = backend, c.last = 2
  PROVE  Good(c, ValidateSignature, Nothing)
<1> DEFINE e == {} \cup {2}
           f == e \cup {1}
           s == {0} \cup {2}
           b == IF Windows THEN {} \cup s ELSE {}
           h2 == {} \cup {"chain_verifies"}
           h3 == h2 \cup {"signature_verifies"}
           a0 == X({}, {}, {0}, {})
           a2 == X({}, e, s, {})
           a3 == X({}, f, s, b)
           a4 == X(h2, f, s, b)
           a5 == X(h3, f, s, b)
<1>1. c.name \in ChainCalls
  BY DEF ChainCalls
<1>3. Runs(c, LoadIntermediateCertificate(2), a0, a2)
  <2> DEFINE j == 2
             n == {}
             r == {0}
  <2>1. j \in 2..c.last /\ c.last \in Nat
    OBVIOUS
  <2> HIDE DEF j, n, r
  <2>2. Runs(c, LoadIntermediateCertificate(j), X(n, n, r, n), X(n, n \cup {j}, r \cup {j}, n))
    BY <1>1, <2>1, ChainFunctions
  <2> QED
    BY <2>2 DEF j, n, r
<1>4. Runs(c, LoadLeafCertificate, a2, a3)
  <2>1. 1 \in 1..c.last
    OBVIOUS
  <2> HIDE DEF e, s
  <2> QED
    BY <1>1, <2>1, ChainFunctions
<1>5. Runs(c, VerifyCertChain, a3, a4)
  <2>1. (IF Windows THEN b ELSE s) = Intermediates(c)
    <3>1. 2..c.last = {2}
      OBVIOUS
    <3> QED
      BY <3>1 DEF Intermediates
  <2> HIDE DEF f, s, b
  <2> QED
    BY <1>1, <2>1, ChainFunctions
<1>6. Runs(c, VerifySignature, a4, a5)
  <2> HIDE DEF h2, f, s, b
  <2> QED
    BY <1>1, ChainFunctions
<1>7. a0 = Nothing
  BY DEF X, Nothing
<1>8. Complete(c, a5)
  <2>1. 1..c.last \subseteq f
    OBVIOUS
  <2>2. ChainConditions \ {"has_x5c"} \subseteq h3
    BY DEF ChainConditions
  <2> HIDE DEF f, h3, s, b
  <2> QED
    BY <2>1, <2>2 DEF Complete, KnowsAll, X
<1> HIDE DEF a0, a2, a3, a4, a5
<1>9. /\ \A a, o : Runs(c, createRootCACert(o), a, a) /\ Runs(c, createSignedCert(o), a, a)
      /\ \A a : /\ Runs(c, convertToBcryptKey, a, a)
                /\ Runs(c, generateKey, a, a) /\ Runs(c, <<generateCSR>>, a, a)
                /\ Runs(c, signCertificate, a, a)
                /\ Runs(c, <<SetLeafKey>>, a, a) /\ Runs(c, SignData, a, a)
      /\ \A a, o, scope, m : Runs(c, scope, a, m) => Runs(c, GeneratedCert(o, scope), a, m)
  BY GenerateRuns
<1> DEFINE v == Cat(Cat(VerifyCertChain, SignData), VerifySignature)
           l == Cat(LoadIntermediateCertificate(2), LoadLeafCertificate)
<1>10. Runs(c, v, a3, a5)
  <2>1. Runs(c, Cat(VerifyCertChain, SignData), a3, a4)
    BY <1>5, <1>9, Then
  <2> QED
    BY <1>6, <2>1, Then
<1>11. Runs(c, l, a0, a3)
  BY <1>3, <1>4, Then
<1>12. ValidateSignature = generateCertChain(v)
  BY Zenon DEF ValidateSignature, Cat
<1>13. l = LoadIntermediateCertificate(2) \o LoadLeafCertificate
  BY Zenon DEF Cat
<1> HIDE DEF v, l
<1>14. Runs(c, Wincrypt_generateCertChain(v), a0, a5)
  <2> DEFINE t == X509(1, Cat(Cat(l, <<SetLeafKey>>), v))
             u1 == Cat(Cat(createSignedCert("leafCert"), convertToBcryptKey), t)
             u2 == Cat(createSignedCert("intermediateCA"), GeneratedCert("leafCert", u1))
             u3 == Cat(createRootCACert("rootCA"), GeneratedCert("intermediateCA", u2))
  <2>1. Wincrypt_generateCertChain(v) = GeneratedCert("rootCA", u3)
    BY <1>13, Zenon DEF Wincrypt_generateCertChain, Cat
  <2>2. Runs(c, t, a0, a5)
    <3>1. Runs(c, Cat(l, <<SetLeafKey>>), a0, a3)
      BY <1>9, <1>11, Then
    <3>2. Runs(c, Cat(Cat(l, <<SetLeafKey>>), v), a0, a5)
      BY <1>10, <3>1, Then
    <3> QED
      BY <3>2, X509Runs
  <2> HIDE DEF t
  <2>3. Runs(c, u1, a0, a5)
    <3>1. Runs(c, Cat(createSignedCert("leafCert"), convertToBcryptKey), a0, a0)
      BY <1>9, Then
    <3> QED
      BY <2>2, <3>1, Then
  <2> HIDE DEF u1
  <2>4. Runs(c, u2, a0, a5)
    BY <1>9, <2>3, Then
  <2> HIDE DEF u2
  <2>5. Runs(c, u3, a0, a5)
    BY <1>9, <2>4, Then
  <2> HIDE DEF u3
  <2> QED
    BY <1>9, <2>1, <2>5
<1>15. Runs(c, Ossl_generateCertChain(v), a0, a5)
  <2> DEFINE t == X509(1, Cat(l, v))
             g1 == Cat(Cat(generateKey, <<generateCSR>>), signCertificate)
             g2 == Cat(Cat(Cat(g1, generateKey), <<generateCSR>>), signCertificate)
             g3 == Cat(Cat(Cat(g2, generateKey), <<generateCSR>>), signCertificate)
  <2>1. Ossl_generateCertChain(v) = Cat(g3, t)
    BY <1>13, Zenon DEF Ossl_generateCertChain, Cat
  <2>2. Runs(c, t, a0, a5)
    <3>1. Runs(c, Cat(l, v), a0, a5)
      BY <1>10, <1>11, Then
    <3> QED
      BY <3>1, X509Runs
  <2> HIDE DEF t
  <2>3. ASSUME NEW g, Runs(c, g, a0, a0)
        PROVE  Runs(c, Cat(Cat(Cat(g, generateKey), <<generateCSR>>), signCertificate), a0, a0)
    <3>1. Runs(c, Cat(g, generateKey), a0, a0)
      BY <1>9, <2>3, Then
    <3>2. Runs(c, Cat(Cat(g, generateKey), <<generateCSR>>), a0, a0)
      BY <1>9, <3>1, Then
    <3> QED
      BY <1>9, <3>2, Then
  <2>4. Runs(c, g1, a0, a0)
    <3>1. Runs(c, Cat(generateKey, <<generateCSR>>), a0, a0)
      BY <1>9, Then
    <3> QED
      BY <1>9, <3>1, Then
  <2> HIDE DEF g1
  <2>5. Runs(c, g2, a0, a0)
    BY <2>3, <2>4
  <2> HIDE DEF g2
  <2>6. Runs(c, g3, a0, a0)
    BY <2>3, <2>5
  <2> HIDE DEF g3
  <2> QED
    BY <2>1, <2>2, <2>6, Then
<1>16. Runs(c, ValidateSignature, a0, a5)
  BY <1>12, <1>14, <1>15, Zenon DEF generateCertChain
<1>17. Good(c, << >>, a5)
  BY <1>8, CompleteIsGood
<1> QED
  BY <1>7, <1>16, <1>17, RunsToEnd

\* IsValidHclReport judges the type, the hash and what is hashed
LEMMA IsValidHclReportGood ==
  ASSUME NEW c, c.view = "verdict", c.name = "report" PROVE Good(c, IsValidHclReport, Nothing)
<1> DEFINE h1 == {} \cup {"type_known"}
           h2 == h1 \cup {"hash_known"}
           h3 == h2 \cup {"hash_matches"}
           a(h) == X(h, {}, {0}, {})
           x == Test("type_known")
           y == Test("hash_known")
           z == Test("hash_matches")
           sha == IF Windows THEN BcryptSha ELSE OsslSha
<1>1. ASSUME NEW h, NEW condition \in ReportConditions
      PROVE  Runs(c, <<Test(condition)>>, a(h), a(h \cup {condition}))
  <2> DEFINE w == Test(condition)
  <2>1. w.op = "test" /\ w.condition = condition /\ condition # "not_empty"
    BY DEF Test, ReportConditions
  <2>2. [a(h) EXCEPT !.holds = @ \cup {condition}] = a(h \cup {condition})
    BY DEF X
  <2> HIDE DEF w, a
  <2>3. Fits(c, w, a(h))
    BY <2>1 DEF Fits, Judges, CanTest
  <2>4. Learn(c, w, a(h)) = [a(h) EXCEPT !.holds = @ \cup {condition}]
    BY <2>1 DEF Learn, Discover
  <2>5. Runs(c, <<w>>, a(h), Learn(c, w, a(h)))
    BY <2>1, <2>3, One
  <2> QED
    BY <2>2, <2>4, <2>5 DEF w
<1>2. a({}) = Nothing
  BY DEF X, Nothing
<1>3. Complete(c, a(h3))
  BY DEF Complete, KnowsAll, X, ReportConditions, ChainCalls
<1> HIDE DEF a
<1>4. Runs(c, <<x>>, a({}), a(h1)) /\ Runs(c, <<y>>, a(h1), a(h2)) /\ Runs(c, <<z>>, a(h2), a(h3))
  BY <1>1 DEF ReportConditions
<1>5. Runs(c, sha, a(h2), a(h2))
  <2>1. QuietSeq(<<New(shaAlg)>>) /\ QuietSeq(<<Allocate(mdCtx), Request>>) /\ QuietSeq(<<Request>>)
    BY CalmInstructions, QuietTuples
  <2> HIDE DEF h2
  <2>2. Runs(c, <<Request>>, a(h2), a(h2)) /\ Runs(c, OsslSha, a(h2), a(h2))
    BY <2>1, QuietRuns DEF OsslSha
  <2>3. Runs(c, BcryptSha, a(h2), a(h2))
    BY <2>1, <2>2, ObjectRuns DEF BcryptSha
  <2> QED
    BY <2>2, <2>3
<1>6. IsValidHclReport = Cat(Cat(<<x, y>>, sha), <<z>>)
  BY Zenon DEF IsValidHclReport, Cat
<1> HIDE DEF h1, h2, h3, x, y, z, sha
<1> DEFINE t == <<x, y>>
<1>7. Runs(c, t, a({}), a(h2))
  BY <1>4, Few
<1> HIDE DEF t
<1>8. Runs(c, Cat(t, sha), a({}), a(h2))
  BY <1>5, <1>7, Then
<1>9. Runs(c, Cat(Cat(t, sha), <<z>>), a({}), a(h3))
  BY <1>4, <1>8, Then
<1>10. Good(c, << >>, a(h3))
  BY <1>3, CompleteIsGood
<1> QED
  BY <1>2, <1>6, <1>9, <1>10, RunsToEnd DEF t

-----------------------------------------------------------------------------
(* What is known holds in the state *)

\* The certificates that the indices in S stand for, 0 for the roots
Certificates(S) ==
  (IF 0 \in S THEN x509.roots ELSE {}) \cup {call.x5c[i] : i \in S \ {0}}

\* The verdicts, as AcceptsExactlyTrusted states them
PathTrusted ==
  LET path == Path(call.x5c[1], Findable)
  IN  /\ \A n \in DOMAIN path : backend \in path[n].valid
      /\ Top(path) \in x509.roots
      /\ call.x5c[1].subject \in Subjects(backend)
Trusted ==
  /\ call.x5c # << >> /\ \A c \in ToSet(call.x5c) : c.decodes
  /\ PathTrusted
  /\ call.signature
ReportValid ==
  call.report.type # "other" /\ call.report.hash # "other" /\ call.report.matches

\* What a call may refuse without a fault
Refused ==
  /\ call.name = "unwrap" => ~Intact(backend, call.token)
  /\ call.name \in ChainCalls => ~Trusted
  /\ call.name = "report" => ~ReportValid

\* The data that was measured, without its tag
Measured(data) == IF call.name = "protect" THEN PlainSize(data) ELSE call.token[data].size - TagLength

TokenMeans(a) ==
  /\ a.key = aesKey
  /\ a.data \in Data => gcm.length = Measured(a.data)
  /\ \A d \in a.opened : call.token[d].intact /\ call.token[d].key = KeyOf(d)
  /\ call.name = "protect" => \A d \in a.opened : call.token[d].size > TagLength
  /\ call.name = "unwrap" => /\ \A d \in a.nonempty : call.token[d].size > TagLength
                             /\ \A q \in a.holds \cap TokenConditions : Holds(q)
  /\ call.name = "protect" => \A f \in a.holds \cap Fields : call.token[f] = Form(backend, f)

ChainMeans(a) ==
  /\ \A i \in a.decoded : call.x5c[i].decodes
  /\ x509.store = Certificates(a.added)
  /\ 0 \in a.added
  /\ x509.chainContext = Certificates(a.built) \cup (IF 0 \in a.built THEN SystemStores ELSE {})
  /\ "has_x5c" \in a.holds => call.x5c # << >>
  /\ "chain_verifies" \in a.holds /\ call.x5c # << >> => PathTrusted
  /\ "signature_verifies" \in a.holds => call.signature

\* The state is as a says
Means(a) ==
  /\ call.name \in {"unwrap", "protect"} => TokenMeans(a)
  /\ call.name \in ChainCalls => ChainMeans(a)
  /\ call.name = "report" => \A q \in a.holds \cap ReportConditions : Holds(q)

\* The cursor of AES-GCM stays within the data, and moves by whole blocks
Cursor ==
  /\ gcm \in [done : Nat, offset : Nat, length : Nat]
  /\ gcm.offset = gcm.done * BlockLength
  /\ gcm.offset <= gcm.length
  /\ gcm.done <= numBlocks(gcm.length)

CallTyped ==
  /\ call.name \in {"none", "verify", "generate", "unwrap", "protect", "report"}
  /\ call.name = "unwrap" => call.token \in Token
  /\ call.name = "protect" => call \in [name : {"protect"}, size : Nat \ {0}, token : Token]
  /\ call.name \in ChainCalls =>
       /\ IsSeq(call.x5c) /\ call.signature \in BOOLEAN
       /\ x509 = [roots |-> x509.roots, store |-> x509.store, chainContext |-> x509.chainContext]
       /\ \A root \in x509.roots : root.issuer = root.name
  /\ call.name = "generate" => call.x5c # << >>

Running == \E a \in Knowledge : Good(Context("verdict"), code, a) /\ Means(a)
Unwinding == (code = << >> \/ code[1].op = "end") /\ (fault \/ Refused)

VerdictInv ==
  /\ raised \in BOOLEAN /\ fault \in BOOLEAN /\ (fault => raised)
  /\ made \subseteq Token /\ \A token \in made : Intact(backend, token)
  /\ CallTyped /\ Cursor
  /\ IsSeq(code)
  /\ call.name = "none" => code = << >>
  /\ call.name # "none" => IF raised THEN Unwinding ELSE Running

-----------------------------------------------------------------------------
(* Steps *)

\* What is known stays well typed
LEMMA DiscoverIsKnowledge ==
  ASSUME NEW c, NEW x, NEW a \in Knowledge, Judges(c, x, a), c.last \in Nat
  PROVE  Discover(x, a) \in Knowledge
<1>1. CASE x.op \in Neutral
  BY <1>1 DEF Discover, Neutral, Calm
<1>2. CASE x.op = "assign"
  BY <1>2 DEF Discover, Judges, Neutral, Calm, Knowledge
<1>3. CASE x.op = "measure"
  <2>1. x.data \in Data
    BY <1>3 DEF Judges, Neutral, Calm
  <2> QED
    BY <1>3, <2>1 DEF Discover, Knowledge
<1>4. CASE x.op = "last"
  <2>1. x.data \in Data
    BY <1>4 DEF Judges, Neutral, Calm
  <2> QED
    BY <1>4, <2>1 DEF Discover, Knowledge
<1>5. CASE x.op = "load"
  <2>1. x.index \in Nat
    BY <1>5 DEF Judges, Neutral, Calm
  <2> QED
    BY <1>5, <2>1 DEF Discover, Knowledge
<1>6. CASE x.op = "add"
  <2>1. x.index \in Nat
    BY <1>6 DEF Judges, Neutral, Calm
  <2> QED
    BY <1>6, <2>1 DEF Discover, Knowledge
<1>7. CASE x.op = "build_chain"
  BY <1>7 DEF Discover, Knowledge
<1>8. CASE x.op = "test"
  <2>1. CanTest(c, x.condition, a)
    BY <1>8 DEF Judges, Neutral, Calm
  <2>2. CASE x.condition = "not_empty"
    <3>1. a.data \in Data
      BY <2>1, <2>2 DEF CanTest, ReportConditions, ChainConditions, Needed,
           PrivateConditions, PublicConditions, DeriveConditions
    <3> QED
      BY <1>8, <2>2, <3>1 DEF Discover, Knowledge
  <2>3. CASE x.condition # "not_empty"
    <3>1. x.condition \in Conditions
      BY <2>1, <2>3 DEF CanTest, Conditions, ChainConditions, TokenConditions, Needed,
           PrivateConditions, PublicConditions, DeriveConditions
    <3> QED
      BY <1>8, <2>3, <3>1 DEF Discover, Knowledge
  <2> QED
    BY <2>2, <2>3
<1>9. CASE x.op = "write"
  <2>1. x.field \in Conditions
    BY <1>9 DEF Judges, Neutral, Calm, Conditions
  <2> QED
    BY <1>9, <2>1 DEF Discover, Knowledge
<1> QED
  BY <1>1, <1>2, <1>3, <1>4, <1>5, <1>6, <1>7, <1>8, <1>9 DEF Judges

\* An exception goes on to the end of a scope, or out of the call
LEMMA UnwindToEnd ==
  ASSUME NEW s, IsSeq(s)
  PROVE  IsSeq(Unwind(s)) /\ (Unwind(s) = << >> \/ Unwind(s)[1].op = "end")
<1> DEFINE ends == {i \in DOMAIN s : s[i].op = "end"}
<1>1. PICK S : s \in Seq(S)
  BY DEF IsSeq
<1>2. Len(s) \in Nat /\ DOMAIN s = 1..Len(s) /\ \A i \in 1..Len(s) : s[i] \in S
  BY <1>1
<1>3. CASE ends = {}
  <2>1. Unwind(s) = << >>
    BY <1>3 DEF Unwind
  <2> QED
    BY <2>1, Single
<1>4. CASE ends # {}
  <2> DEFINE m == CHOOSE i \in ends : \A j \in ends : i <= j
             u == SubSeq(s, m, Len(s))
  <2>1. \E i \in ends : \A j \in ends : i <= j
    <3>1. ends \in SUBSET Nat
      BY <1>2
    <3> HIDE DEF ends
    <3> QED
      BY <1>4, <3>1, FirstPosition
  <2>2. m \in ends
    BY <2>1
  <2>3. Unwind(s) = u
    BY <1>4, Zenon DEF Unwind
  <2> HIDE DEF m
  <2>4. m \in 1..Len(s) /\ s[m].op = "end"
    BY <1>2, <2>2
  <2>5. /\ u \in Seq(S) /\ Len(u) = Len(s) - m + 1
        /\ u[1] = s[m]
    <3>1. m \in Int /\ Len(s) \in Int /\ \A i \in m..Len(s) : s[i] \in S
      BY <1>2, <2>4
    <3>2. /\ u \in Seq(S)
          /\ Len(u) = IF m <= Len(s) THEN Len(s) - m + 1 ELSE 0
          /\ \A i \in 1..Len(s) - m + 1 : u[i] = s[m + i - 1]
      BY <3>1, SubSeqProperties
    <3> HIDE DEF u
    <3>3. 1 \in 1..Len(s) - m + 1 /\ m + 1 - 1 = m
      BY <1>2, <2>4
    <3> QED
      BY <1>2, <2>4, <3>2, <3>3
  <2> HIDE DEF u
  <2> QED
    BY <2>3, <2>4, <2>5 DEF IsSeq
<1> QED
  BY <1>3, <1>4

\* Where an instruction is about to be run
LEMMA Ready ==
  ASSUME VerdictInv, NEW op, At(op), op # "end"
  PROVE  /\ call.name # "none" /\ raised = FALSE /\ fault = FALSE
         /\ code # << >> /\ Head(code) = code[1] /\ code[1].op = op /\ IsSeq(Tail(code))
         /\ \E a \in Knowledge :
              /\ Means(a) /\ Judges(Context("verdict"), code[1], a)
              /\ code[1].op = "constructed" => IsSeq(code[1].scope)
              /\ Good(Context("verdict"), Following(code[1], Tail(code)), Discover(code[1], a))
              /\ Discover(code[1], a) \in Knowledge
<1>1. code # << >> /\ Head(code).op = op /\ IsSeq(code)
  BY DEF At, VerdictInv
<1>2. Head(code) = code[1] /\ IsSeq(Tail(code))
  <2>1. PICK S : code \in Seq(S)
    BY <1>1 DEF IsSeq
  <2>2. Tail(code) \in Seq(S)
    BY <1>1, <2>1
  <2> QED
    BY <1>1, <2>1, <2>2 DEF IsSeq
<1>3. call.name # "none"
  BY <1>1 DEF VerdictInv
<1>4. raised = FALSE
  BY <1>1, <1>2, <1>3 DEF VerdictInv, Unwinding
<1>5. fault = FALSE
  BY <1>4 DEF VerdictInv
<1>6. PICK a \in Knowledge : Good(Context("verdict"), code, a) /\ Means(a)
  BY <1>3, <1>4 DEF VerdictInv, Running
<1> DEFINE c == Context("verdict")
<1>7. c.view = "verdict" /\ c.last \in Nat
  <2>1. c.view = "verdict" /\ c.last = IF call.name \in ChainCalls THEN Len(call.x5c) ELSE 0
    BY DEF Context
  <2>2. ASSUME call.name \in ChainCalls PROVE Len(call.x5c) \in Nat
    <3>1. PICK S : call.x5c \in Seq(S)
      BY <2>2 DEF VerdictInv, CallTyped, IsSeq
    <3> QED
      BY <3>1
  <2> QED
    BY <2>1, <2>2
<1> HIDE DEF c
<1>8. /\ Judges(c, code[1], a)
      /\ code[1].op = "constructed" => IsSeq(code[1].scope)
      /\ Good(c, Following(code[1], Tail(code)), Discover(code[1], a))
  <2>1. /\ Fits(c, code[1], a)
        /\ code[1].op = "constructed" => IsSeq(code[1].scope)
        /\ Good(c, Following(code[1], Tail(code)), Learn(c, code[1], a))
    BY <1>1, <1>6, GoodParts DEF c
  <2> QED
    BY <1>7, <2>1 DEF Fits, Learn
<1>9. Discover(code[1], a) \in Knowledge
  BY <1>7, <1>8, DiscoverIsKnowledge
<1> QED
  BY <1>1, <1>2, <1>3, <1>4, <1>5, <1>6, <1>8, <1>9 DEF c

\* The blocks of some data
LEMMA Blocks ==
  ASSUME NEW length \in Nat
  PROVE  /\ numBlocks(length) \in Nat
         /\ \A i \in Nat : MoreChained(i, length) =>
              (i + 1) * BlockLength <= length /\ i + 1 <= numBlocks(length)
<1> DEFINE B == BlockLength
           q == numBlocks(length)
           t == length + B - 1
<1>1. B \in Nat /\ B >= 1
  BY ConstantsAssumption
<1> HIDE DEF B
<1>2. t \in Nat /\ q = t \div B
  BY <1>1 DEF numBlocks, B
<1> HIDE DEF t, q
<1>3. q \in Nat /\ q * B <= t
  BY <1>1, <1>2
<1>4. ASSUME NEW i \in Nat, i < q - 1 PROVE (i + 1) * B <= length /\ i + 1 <= q
  <2>1. i + 2 <= q
    BY <1>3, <1>4
  <2>2. PICK d \in Nat : q = (i + 2) + d
    <3>1. q - (i + 2) \in Nat /\ q = (i + 2) + (q - (i + 2))
      BY <1>3, <2>1
    <3> QED
      BY <3>1
  <2>3. q * B = (i + 1) * B + B + d * B
    BY <1>1, <2>2
  <2>4. d * B \in Nat /\ (i + 1) * B \in Nat
    BY <1>1
  <2>5. t = length + B - 1
    BY DEF t
  <2> QED
    BY <1>1, <1>3, <2>1, <2>3, <2>4, <2>5
<1> QED
  BY <1>3, <1>4 DEF B, q, MoreChained

\* A step that throws
LEMMA ThrowKeeps ==
  ASSUME VerdictInv, call.name # "none", IsSeq(Tail(code)), Throw,
         fault' = TRUE \/ (fault' = fault /\ Refused),
         UNCHANGED <<backend, call, x509, gcm, made>>
  PROVE  VerdictInv'
<1>1. code' = Unwind(Tail(code)) /\ raised' = TRUE
  BY DEF Throw
<1>2. IsSeq(code') /\ (code' = << >> \/ code'[1].op = "end")
  BY <1>1, UnwindToEnd
<1>3. Refused => Refused'
  BY DEF Refused, Trusted, PathTrusted, Findable, ReportValid, Windows
<1>4. CallTyped' /\ Cursor'
  BY DEF VerdictInv, CallTyped, Cursor
<1>5. Unwinding'
  BY <1>2, <1>3 DEF Unwinding
<1>6. fault' \in BOOLEAN
  BY DEF VerdictInv
<1> QED
  BY <1>1, <1>2, <1>4, <1>5, <1>6 DEF VerdictInv

\* The context of a call stays
LEMMA SameContext ==
  ASSUME backend' = backend, call'.name = call.name, call.name \in ChainCalls => call'.x5c = call.x5c
  PROVE  Context("verdict")' = Context("verdict")
BY DEF Context

\* A step to what is known then
LEMMA WorkKeeps ==
  ASSUME VerdictInv, call.name # "none", raised = FALSE, raised' = FALSE, fault' = fault, made' = made,
         CallTyped', Cursor', call'.name = call.name, Context("verdict")' = Context("verdict"),
         NEW b \in Knowledge, Good(Context("verdict"), code', b), Means(b)'
  PROVE  VerdictInv'
<1>1. IsSeq(code')
  BY GoodParts
<1>2. Running'
  BY DEF Running
<1>3. backend' = backend
  BY DEF Context
<1> QED
  BY <1>1, <1>2, <1>3 DEF VerdictInv

\* The tests of a token and of a report are about the call
LEMMA SameHolds ==
  ASSUME UNCHANGED call PROVE \A q \in TokenConditions \cup ReportConditions : Holds(q) => Holds(q)'
<1>1. ASSUME NEW q \in TokenConditions, Holds(q) PROVE Holds(q)'
  BY <1>1 DEF Holds, TokenConditions
<1>2. ASSUME NEW q \in ReportConditions, Holds(q) PROVE Holds(q)'
  BY <1>2 DEF Holds, ReportConditions
<1> QED
  BY <1>1, <1>2

\* What holds of the call, the certificates, the key and the measure, stays
LEMMA SameMeans ==
  ASSUME NEW a, Means(a), UNCHANGED <<backend, call, x509, aesKey>>, gcm'.length = gcm.length
  PROVE  Means(a)'
<1>1. \A q \in TokenConditions \cup ReportConditions : Holds(q) => Holds(q)'
  BY SameHolds
<1>2. call.name \in {"unwrap", "protect"} => TokenMeans(a)'
  BY <1>1 DEF Means, TokenMeans, Measured, PlainSize
<1>3. call.name \in ChainCalls => ChainMeans(a)'
  BY DEF Means, ChainMeans, Certificates, PathTrusted, Findable, Windows
<1> QED
  BY <1>1, <1>2, <1>3 DEF Means

\* A step that changes nothing at all of it
LEMMA SameState ==
  ASSUME VerdictInv, UNCHANGED <<backend, call, code, raised, x509, aesKey, gcm, made, fault>>
  PROVE  VerdictInv'
<1>1. CallTyped' /\ Cursor'
  BY DEF VerdictInv, CallTyped, Cursor
<1>2. Context("verdict")' = Context("verdict")
  BY SameContext
<1>3. ASSUME NEW a, Means(a) PROVE Means(a)'
  BY <1>3, SameMeans
<1>4. Running => Running'
  BY <1>2, <1>3 DEF Running
<1>5. Refused => Refused'
  BY DEF Refused, Trusted, PathTrusted, Findable, ReportValid, Windows
<1>6. Unwinding => Unwinding'
  BY <1>5 DEF Unwinding
<1> QED
  BY <1>1, <1>4, <1>6 DEF VerdictInv

\* A step that changes nothing that is known
LEMMA QuietStep ==
  ASSUME VerdictInv, NEW op \in Neutral \ {"end"}, At(op), code' = Following(code[1], Tail(code)),
         UNCHANGED <<backend, call, raised, fault, x509, aesKey, made>>,
         gcm'.length = gcm.length, Cursor'
  PROVE  VerdictInv'
<1>1. /\ call.name # "none" /\ raised = FALSE /\ code[1].op = op
      /\ \E a \in Knowledge :
              /\ Means(a)
              /\ Good(Context("verdict"), Following(code[1], Tail(code)), Discover(code[1], a))
  BY Ready
<1>2. PICK a \in Knowledge :
              /\ Means(a)
              /\ Good(Context("verdict"), Following(code[1], Tail(code)), Discover(code[1], a))
  BY <1>1
<1>3. Discover(code[1], a) = a
  BY <1>1 DEF Discover, Neutral, Calm
<1>4. Means(a)'
  BY <1>2, SameMeans
<1>5. Context("verdict")' = Context("verdict")
  BY SameContext
<1>6. CallTyped'
  BY DEF VerdictInv, CallTyped
<1>7. Good(Context("verdict"), code', a)
  BY <1>2, <1>3
<1> QED
  BY <1>1, <1>4, <1>5, <1>6, <1>7, WorkKeeps

\* Going on to the next instruction
LEMMA Proceeds ==
  ASSUME VerdictInv, NEW op, op \notin {"end", "constructed"}, At(op), Proceed(<< >>)
  PROVE  code' = Tail(code) /\ code' = Following(code[1], Tail(code)) /\ raised' = raised
<1>1. IsSeq(Tail(code)) /\ code[1].op = op
  BY Ready
<1>2. code' = Cat(<< >>, Tail(code)) /\ raised' = raised
  BY Zenon DEF Proceed, Cat
<1>3. code' = Tail(code)
  BY <1>1, <1>2, CatEmpty
<1> QED
  BY <1>1, <1>2, <1>3 DEF Following

\* What changes nothing that is known: requests, resources and objects
LEMMA ResourceStep ==
  ASSUME VerdictInv,
         \/ DoRequest \/ DoNew \/ NewFails \/ DoOwn \/ DoRelease \/ DoConstructed \/ DoEnd \/ Terminate
         \/ DoCopy
  PROVE  VerdictInv'
<1>0. \A op \in Neutral \ {"end"} : At(op) => call.name # "none" /\ IsSeq(Tail(code))
  BY Ready
<1>1. ASSUME NEW op \in Calm, At(op), Works,
             UNCHANGED <<backend, call, x509, aesKey, gcm, made>>
      PROVE  VerdictInv'
  <2>1. op \in Neutral \ {"end"} /\ op \notin {"end", "constructed"}
    BY DEF Neutral, Calm
  <2>2. code' = Following(code[1], Tail(code)) /\ raised' = raised /\ fault' = fault
    BY <1>1, <2>1, Proceeds DEF Works
  <2>3. Cursor'
    BY <1>1 DEF VerdictInv, Cursor
  <2> QED
    BY <1>1, <2>1, <2>2, <2>3, QuietStep
<1>2. ASSUME NEW op \in Calm, At(op), Faults,
             UNCHANGED <<backend, call, x509, aesKey, gcm, made>>
      PROVE  VerdictInv'
  <2>1. op \in Neutral \ {"end"}
    BY DEF Neutral, Calm
  <2>2. call.name # "none" /\ IsSeq(Tail(code))
    BY <1>0, <1>2, <2>1
  <2> QED
    BY <1>2, <2>2, ThrowKeeps DEF Faults
<1>3. /\ "request" \in Calm /\ "new" \in Calm /\ "allocate" \in Calm /\ "malloc" \in Calm
      /\ "own" \in Calm /\ "release" \in Calm /\ "copy" \in Calm
  BY DEF Calm
<1>4. CASE DoRequest
  BY <1>1, <1>2, <1>3, <1>4 DEF DoRequest
<1>5. CASE DoNew
  BY <1>1, <1>3, <1>5 DEF DoNew
<1>6. CASE NewFails
  BY <1>2, <1>3, <1>6 DEF NewFails
<1>7. CASE DoOwn
  BY <1>1, <1>3, <1>7 DEF DoOwn
<1>8. CASE DoRelease
  BY <1>1, <1>3, <1>8 DEF DoRelease
<1>9. CASE DoConstructed
  <2>1. /\ At("constructed") /\ UNCHANGED <<backend, call, x509, aesKey, gcm, made, fault>>
        /\ Proceed(Head(code).scope \o <<[op |-> "end", destructor |-> Head(code).destructor]>>)
    BY <1>9 DEF DoConstructed
  <2>2. /\ Head(code) = code[1] /\ code[1].op = "constructed" /\ IsSeq(Tail(code))
        /\ IsSeq(code[1].scope)
    BY <2>1, Ready
  <2> DEFINE x == code[1]
             t == Tail(code)
  <2>3. code' = Cat(Cat(x.scope, <<EndOf(x)>>), t) /\ raised' = raised
    BY <2>1, <2>2, Zenon DEF Proceed, Cat, EndOf
  <2>4. Cat(Cat(x.scope, <<EndOf(x)>>), t) = Cat(x.scope, Cat(<<EndOf(x)>>, t))
    <3>1. IsSeq(<<EndOf(x)>>)
      BY Single
    <3> QED
      BY <2>2, <3>1, CatAssociative
  <2>5. code' = Following(code[1], Tail(code))
    BY <2>2, <2>3, <2>4 DEF Following
  <2>6. "constructed" \in Neutral \ {"end"}
    BY DEF Neutral
  <2>7. Cursor'
    BY <2>1 DEF VerdictInv, Cursor
  <2> QED
    BY <2>1, <2>3, <2>5, <2>6, <2>7, QuietStep
<1>10. CASE DoEnd
  <2>1. /\ At("end") /\ UNCHANGED <<backend, call, x509, aesKey, gcm, made, fault, raised>>
        /\ code' = IF raised THEN Unwind(Tail(code)) ELSE Tail(code)
    BY <1>10 DEF DoEnd
  <2>2. /\ code # << >> /\ IsSeq(code) /\ call.name # "none" /\ Head(code).op = "end"
    BY <2>1 DEF At, VerdictInv
  <2>3. IsSeq(Tail(code)) /\ Head(code) = code[1]
    <3>1. PICK S : code \in Seq(S)
      BY <2>2 DEF IsSeq
    <3>2. Tail(code) \in Seq(S)
      BY <2>2, <3>1
    <3> QED
      BY <2>2, <3>1, <3>2 DEF IsSeq
  <2>4. CASE raised = TRUE
    <3>1. Throw
      BY <2>1, <2>4 DEF Throw
    <3>2. fault' = TRUE \/ (fault' = fault /\ Refused)
      BY <2>1, <2>2, <2>4 DEF VerdictInv, Unwinding
    <3> QED
      BY <2>1, <2>2, <2>3, <3>1, <3>2, ThrowKeeps
  <2>5. CASE raised = FALSE
    <3>1. PICK a \in Knowledge : Good(Context("verdict"), code, a) /\ Means(a)
      BY <2>2, <2>5 DEF VerdictInv, Running
    <3>2. Good(Context("verdict"), Tail(code), a)
      <4> DEFINE c == Context("verdict")
      <4>1. c.view = "verdict"
        BY DEF Context
      <4> HIDE DEF c
      <4>2. Good(c, Following(code[1], Tail(code)), Learn(c, code[1], a))
        BY <2>2, <3>1, GoodParts DEF c
      <4>3. Following(code[1], Tail(code)) = Tail(code) /\ Learn(c, code[1], a) = a
        BY <2>2, <2>3, <4>1 DEF Following, Learn, Discover
      <4> QED
        BY <4>2, <4>3 DEF c
    <3>3. Means(a)'
      BY <2>1, <3>1, SameMeans
    <3>4. Context("verdict")' = Context("verdict")
      BY <2>1, SameContext
    <3>5. CallTyped' /\ Cursor'
      BY <2>1 DEF VerdictInv, CallTyped, Cursor
    <3>6. Good(Context("verdict"), code', a)
      BY <2>1, <2>5, <3>2
    <3> QED
      BY <2>1, <2>2, <2>5, <3>3, <3>4, <3>5, <3>6, WorkKeeps
  <2> QED
    BY <2>4, <2>5 DEF VerdictInv
<1>11. CASE Terminate
  BY <1>11, SameState DEF Terminate
<1>12. CASE DoCopy
  BY <1>1, <1>3, <1>12 DEF DoCopy
<1> QED
  BY <1>4, <1>5, <1>6, <1>7, <1>8, <1>9, <1>10, <1>11, <1>12

\* AES-GCM: the key, the measure and the blocks
LEMMA CursorStep ==
  ASSUME VerdictInv, DoAssign \/ DoMeasure \/ DoChained
  PROVE  VerdictInv'
<1>1. CASE DoAssign
  <2>1. At("assign") /\ Works /\ aesKey' = Head(code).key /\ UNCHANGED <<backend, call, x509, gcm, made>>
    BY <1>1 DEF DoAssign
  <2>2. /\ call.name # "none" /\ raised = FALSE /\ Head(code) = code[1] /\ code[1].op = "assign"
        /\ \E a \in Knowledge :
             /\ Means(a)
             /\ Good(Context("verdict"), Following(code[1], Tail(code)), Discover(code[1], a))
             /\ Discover(code[1], a) \in Knowledge
    BY <2>1, Ready
  <2>3. PICK a \in Knowledge :
             /\ Means(a)
             /\ Good(Context("verdict"), Following(code[1], Tail(code)), Discover(code[1], a))
             /\ Discover(code[1], a) \in Knowledge
    BY <2>2
  <2>4. code' = Following(code[1], Tail(code)) /\ raised' = raised /\ fault' = fault
    BY <2>1, Proceeds DEF Works
  <2>5. PICK b : b = Discover(code[1], a)
    OBVIOUS
  <2>6. /\ b.key = aesKey' /\ b.data = a.data /\ b.opened = a.opened /\ b.nonempty = a.nonempty
        /\ b.holds = a.holds /\ b.decoded = a.decoded /\ b.added = a.added /\ b.built = a.built
    <3>1. b = [a EXCEPT !.key = code[1].key]
      BY <2>2, <2>5 DEF Discover
    <3> QED
      BY <2>1, <2>2, <3>1 DEF Knowledge
  <2>7. Means(b)'
    <3>1. \A q \in TokenConditions \cup ReportConditions : Holds(q) => Holds(q)'
      BY <2>1, SameHolds
    <3>2. ASSUME call.name \in {"unwrap", "protect"} PROVE TokenMeans(b)'
      <4>1. TokenMeans(a)
        BY <2>3, <3>2 DEF Means
      <4>2. \A d : Measured(d)' = Measured(d)
        BY <2>1 DEF Measured, PlainSize
      <4> QED
        BY <2>1, <2>6, <3>1, <4>1, <4>2 DEF TokenMeans
    <3>3. ASSUME call.name \in ChainCalls PROVE ChainMeans(b)'
      <4>1. ChainMeans(a)
        BY <2>3, <3>3 DEF Means
      <4>2. \A S : Certificates(S)' = Certificates(S)
        BY <2>1 DEF Certificates
      <4>3. PathTrusted' <=> PathTrusted
        BY <2>1 DEF PathTrusted, Findable, Windows
      <4> QED
        BY <2>1, <2>6, <4>1, <4>2, <4>3 DEF ChainMeans
    <3> QED
      BY <2>1, <2>3, <2>6, <3>1, <3>2, <3>3 DEF Means
  <2>8. CallTyped' /\ Cursor' /\ Context("verdict")' = Context("verdict")
    BY <2>1, SameContext DEF VerdictInv, CallTyped, Cursor
  <2> QED
    BY <2>1, <2>2, <2>3, <2>4, <2>5, <2>7, <2>8, WorkKeeps
<1>2. CASE DoMeasure
  <2> DEFINE l == IF Head(code).direction = "encrypt" THEN PlainSize(Head(code).data)
                  ELSE call.token[Head(code).data].size - TagLength
  <2>1. /\ At("measure") /\ UNCHANGED <<backend, call, x509, aesKey, made, fault>>
        /\ \/ l >= 0 /\ gcm' = Start(l) /\ Proceed(<< >>)
           \/ l < 0 /\ Throw /\ UNCHANGED gcm
    BY <1>2 DEF DoMeasure
  <2> HIDE DEF l
  <2>2. /\ call.name # "none" /\ raised = FALSE /\ fault = FALSE /\ Head(code) = code[1]
        /\ code[1].op = "measure" /\ IsSeq(Tail(code))
        /\ \E a \in Knowledge :
             /\ Means(a) /\ Judges(Context("verdict"), code[1], a)
             /\ Good(Context("verdict"), Following(code[1], Tail(code)), Discover(code[1], a))
             /\ Discover(code[1], a) \in Knowledge
    BY <2>1, Ready
  <2>3. PICK a \in Knowledge :
             /\ Means(a) /\ Judges(Context("verdict"), code[1], a)
             /\ Good(Context("verdict"), Following(code[1], Tail(code)), Discover(code[1], a))
             /\ Discover(code[1], a) \in Knowledge
    BY <2>2
  <2>0. PICK d : d = code[1].data
    OBVIOUS
  <2>4. /\ call.name \in {"unwrap", "protect"} /\ d \in Data
        /\ code[1].direction = IF call.name = "protect" THEN "encrypt" ELSE "decrypt"
    <3> DEFINE c == Context("verdict")
    <3>1. c.name = call.name
      BY DEF Context
    <3> HIDE DEF c
    <3> QED
      BY <2>0, <2>2, <2>3, <3>1 DEF Judges, Neutral, Calm, Direction, c
  <2>5. l = Measured(d)
    BY <2>0, <2>2, <2>4 DEF l, Measured
  <2>6. call.name = "protect" => call.size \in Nat /\ KeySize \in Nat
    BY ConstantsAssumption DEF VerdictInv, CallTyped
  <2>7. call.name = "unwrap" => call.token[d].size \in Nat /\ TagLength \in Nat
    BY <2>4, ConstantsAssumption DEF VerdictInv, CallTyped, Token, Ciphertext, Data
  <2>8. l \in Int /\ (call.name = "protect" => l >= 0)
    BY <2>4, <2>5, <2>6, <2>7 DEF Measured, PlainSize
  <2>9. CASE l >= 0
    <3>1. gcm' = Start(l) /\ Proceed(<< >>)
      BY <2>1, <2>8, <2>9
    <3>2. code' = Following(code[1], Tail(code)) /\ raised' = raised
      BY <2>1, <3>1, Proceeds
    <3>3. PICK b : b = Discover(code[1], a)
      OBVIOUS
    <3>4. /\ b.key = a.key /\ b.data = d /\ b.opened = a.opened /\ b.nonempty = a.nonempty
          /\ b.holds = a.holds /\ b.decoded = a.decoded /\ b.added = a.added /\ b.built = a.built
      <4>1. b = [a EXCEPT !.data = d]
        BY <2>0, <2>2, <3>3 DEF Discover
      <4> QED
        BY <4>1 DEF Knowledge
    <3>5. gcm'.length = l /\ gcm'.done = 0 /\ gcm'.offset = 0 /\ gcm' \in [done : Nat, offset : Nat, length : Nat]
      BY <2>8, <2>9, <3>1 DEF Start
    <3>6. Cursor'
      <4>1. numBlocks(gcm'.length) \in Nat
        BY <3>5, Blocks
      <4>2. 0 = 0 * BlockLength
        BY ConstantsAssumption
      <4> QED
        BY <3>5, <4>1, <4>2 DEF Cursor
    <3>7. Means(b)'
      <4>1. \A q \in TokenConditions : Holds(q) => Holds(q)'
        BY <2>1 DEF Holds, TokenConditions
      <4>2. Measured(d)' = l
        BY <2>1, <2>5 DEF Measured, PlainSize
      <4>3. TokenMeans(b)'
        BY <2>1, <2>3, <2>4, <3>4, <3>5, <4>1, <4>2 DEF Means, TokenMeans
      <4> QED
        BY <2>1, <2>4, <4>3 DEF Means, ChainCalls
    <3>8. CallTyped' /\ Context("verdict")' = Context("verdict")
      BY <2>1, SameContext DEF VerdictInv, CallTyped
    <3> QED
      BY <2>1, <2>2, <2>3, <3>2, <3>3, <3>6, <3>7, <3>8, WorkKeeps
  <2>10. CASE l < 0
    <3>1. Throw /\ UNCHANGED gcm
      BY <2>1, <2>8, <2>10
    <3>2. Refused
      <4>1. call.name = "unwrap"
        BY <2>4, <2>8, <2>10
      <4>2. call.token[d].size <= TagLength
        BY <2>5, <2>7, <2>10, <4>1 DEF Measured
      <4>3. ~(call.token[d].size > TagLength)
        BY <2>7, <4>1, <4>2
      <4>4. ~Intact(backend, call.token)
        BY <2>4, <4>3 DEF Intact, Data
      <4> QED
        BY <4>1, <4>4 DEF Refused, ChainCalls
    <3> QED
      BY <2>1, <2>2, <3>1, <3>2, ThrowKeeps
  <2> QED
    BY <2>8, <2>9, <2>10
<1>3. CASE DoChained
  <2>1. /\ At("chained") /\ UNCHANGED <<backend, call, x509, aesKey, made>>
        /\ IF MoreChained(gcm.done, gcm.length)
           THEN \/ /\ gcm' = [gcm EXCEPT !.done = @ + 1, !.offset = @ + BlockLength]
                   /\ UNCHANGED <<code, raised, fault>>
                \/ Faults /\ UNCHANGED gcm
           ELSE Works /\ UNCHANGED gcm
    BY <1>3 DEF DoChained
  <2>2. "chained" \in Neutral \ {"end"} /\ "chained" \notin {"end", "constructed"}
    BY DEF Neutral, Calm
  <2>3. CASE Works /\ UNCHANGED gcm
    <3>1. code' = Following(code[1], Tail(code)) /\ raised' = raised /\ fault' = fault
      BY <2>1, <2>2, <2>3, Proceeds DEF Works
    <3>2. Cursor'
      BY <2>3 DEF VerdictInv, Cursor
    <3> QED
      BY <2>1, <2>2, <2>3, <3>1, <3>2, QuietStep
  <2>4. CASE Faults /\ UNCHANGED gcm
    <3>1. call.name # "none" /\ IsSeq(Tail(code))
      BY <2>1, Ready
    <3> QED
      BY <2>1, <2>4, <3>1, ThrowKeeps DEF Faults
  <2>5. CASE /\ MoreChained(gcm.done, gcm.length)
             /\ gcm' = [gcm EXCEPT !.done = @ + 1, !.offset = @ + BlockLength]
             /\ UNCHANGED <<code, raised, fault>>
    <3>1. /\ call.name # "none" /\ raised = FALSE
      BY <2>1, Ready
    <3>2. PICK a \in Knowledge : Good(Context("verdict"), code, a) /\ Means(a)
      BY <3>1 DEF VerdictInv, Running
    <3>3. /\ gcm.done \in Nat /\ gcm.offset \in Nat /\ gcm.length \in Nat /\ BlockLength \in Nat
          /\ gcm.offset = gcm.done * BlockLength
          /\ gcm'.done = gcm.done + 1 /\ gcm'.offset = gcm.offset + BlockLength /\ gcm'.length = gcm.length
          /\ gcm' \in [done : Nat, offset : Nat, length : Nat]
      <4>1. Cursor /\ BlockLength \in Nat
        BY ConstantsAssumption DEF VerdictInv
      <4>2. /\ gcm \in [done : Nat, offset : Nat, length : Nat]
            /\ gcm.offset = gcm.done * BlockLength
        BY <4>1 DEF Cursor
      <4>3. gcm' = [gcm EXCEPT !.done = @ + 1, !.offset = @ + BlockLength]
        BY <2>5
      <4>4. /\ gcm'.done = gcm.done + 1 /\ gcm'.offset = gcm.offset + BlockLength /\ gcm'.length = gcm.length
            /\ gcm' = [done |-> gcm.done + 1, offset |-> gcm.offset + BlockLength, length |-> gcm.length]
        BY <4>2, <4>3
      <4>5. gcm.done + 1 \in Nat /\ gcm.offset + BlockLength \in Nat
        BY <4>1, <4>2
      <4> QED
        BY <4>1, <4>2, <4>4, <4>5
    <3>4. (gcm.done + 1) * BlockLength <= gcm.length /\ gcm.done + 1 <= numBlocks(gcm.length)
      BY <2>5, <3>3, Blocks
    <3>5. (gcm.done + 1) * BlockLength = gcm.done * BlockLength + BlockLength
      BY <3>3
    <3>6. Cursor'
      BY <3>3, <3>4, <3>5 DEF Cursor
    <3>7. Means(a)'
      BY <2>1, <3>2, <3>3, SameMeans
    <3>8. CallTyped' /\ Context("verdict")' = Context("verdict")
      BY <2>1, SameContext DEF VerdictInv, CallTyped
    <3>9. Good(Context("verdict"), code', a)
      BY <2>5, <3>2
    <3> QED
      BY <2>1, <2>5, <3>1, <3>6, <3>7, <3>8, <3>9, WorkKeeps
  <2> QED
    BY <2>1, <2>3, <2>4, <2>5
<1> QED
  BY <1>1, <1>2, <1>3

\* AES-GCM: the last call
LEMMA LastStep == ASSUME VerdictInv, DoLastDecrypt \/ DoLastEncrypt PROVE VerdictInv'
<1>1. At("last")
  BY DEF DoLastDecrypt, DoLastEncrypt
<1>2. /\ call.name # "none" /\ raised = FALSE /\ fault = FALSE /\ Head(code) = code[1]
      /\ code[1].op = "last" /\ IsSeq(Tail(code))
      /\ \E a \in Knowledge :
           /\ Means(a) /\ Judges(Context("verdict"), code[1], a)
           /\ Good(Context("verdict"), Following(code[1], Tail(code)), Discover(code[1], a))
           /\ Discover(code[1], a) \in Knowledge
  BY <1>1, Ready
<1>3. PICK a \in Knowledge :
           /\ Means(a) /\ Judges(Context("verdict"), code[1], a)
           /\ Good(Context("verdict"), Following(code[1], Tail(code)), Discover(code[1], a))
           /\ Discover(code[1], a) \in Knowledge
  BY <1>2
<1>4. PICK d : d = code[1].data
  OBVIOUS
<1>5. PICK b : b = Discover(code[1], a)
  OBVIOUS
<1>6. /\ call.name \in {"unwrap", "protect"} /\ d \in Data
      /\ code[1].direction = IF call.name = "protect" THEN "encrypt" ELSE "decrypt"
      /\ a.data = d /\ a.key = KeyOf(d)
  <2> DEFINE c == Context("verdict")
  <2>1. c.name = call.name
    BY DEF Context
  <2> HIDE DEF c
  <2> QED
    BY <1>2, <1>3, <1>4, <2>1 DEF Judges, Neutral, Calm, Direction, c
<1>7. /\ b.key = a.key /\ b.data = a.data /\ b.opened = a.opened \cup {d} /\ b.nonempty = a.nonempty
      /\ b.holds = a.holds
  <2>1. b = [a EXCEPT !.opened = @ \cup {d}]
    BY <1>2, <1>4, <1>5 DEF Discover
  <2> QED
    BY <2>1 DEF Knowledge
<1>8. TokenMeans(a) /\ a.opened \subseteq Data
  BY <1>3, <1>6 DEF Means, Knowledge
<1>9. KeyOf(d) = aesKey /\ gcm.length = Measured(d)
  BY <1>6, <1>8 DEF TokenMeans
<1>10. CASE DoLastDecrypt
  <2>1. /\ code[1].direction = "decrypt"
        /\ \/ Opens(call.token[d]) /\ Works
           \/ ~Opens(call.token[d]) /\ Throw /\ UNCHANGED fault
           \/ Faults
        /\ UNCHANGED <<backend, call, x509, aesKey, gcm, made>>
    BY <1>2, <1>4, <1>10 DEF DoLastDecrypt
  <2>2. call.name = "unwrap"
    BY <1>6, <2>1
  <2>3. Opens(call.token[d]) <=> call.token[d].intact /\ call.token[d].key = KeyOf(d)
    BY <1>9 DEF Opens, VerdictInv, Cursor
  <2>4. CASE Opens(call.token[d]) /\ Works
    <3>1. code' = Following(code[1], Tail(code)) /\ raised' = raised /\ fault' = fault
      BY <1>1, <2>4, Proceeds DEF Works
    <3>2. Means(b)'
      <4>1. \A q \in TokenConditions : Holds(q) => Holds(q)'
        BY <2>1 DEF Holds, TokenConditions
      <4>2. TokenMeans(b)'
        BY <1>7, <1>8, <2>1, <2>2, <2>3, <2>4, <4>1 DEF TokenMeans, Measured, PlainSize
      <4> QED
        BY <2>1, <2>2, <4>2 DEF Means, ChainCalls
    <3>3. CallTyped' /\ Cursor' /\ Context("verdict")' = Context("verdict")
      BY <2>1, SameContext DEF VerdictInv, CallTyped, Cursor
    <3> QED
      BY <1>2, <1>3, <1>5, <2>1, <3>1, <3>2, <3>3, WorkKeeps
  <2>5. CASE ~Opens(call.token[d]) /\ Throw /\ UNCHANGED fault
    <3>1. ~Intact(backend, call.token)
      BY <1>6, <2>3, <2>5 DEF Intact, Data, KeyOf
    <3>2. Refused
      BY <2>2, <3>1 DEF Refused, ChainCalls
    <3> QED
      BY <1>2, <2>1, <2>5, <3>2, ThrowKeeps
  <2>6. CASE Faults
    BY <1>2, <2>1, <2>6, ThrowKeeps DEF Faults
  <2> QED
    BY <2>1, <2>4, <2>5, <2>6
<1>11. CASE DoLastEncrypt
  <2>1. /\ code[1].direction = "encrypt"
        /\ UNCHANGED <<backend, x509, aesKey, gcm, made>>
        /\ \/ /\ call' = [call EXCEPT !.token[d] =
                      [size |-> gcm.length + TagLength, key |-> aesKey, intact |-> TRUE]]
              /\ Works
           \/ Faults /\ UNCHANGED call
    BY <1>2, <1>4, <1>11 DEF DoLastEncrypt
  <2>2. call.name = "protect"
    BY <1>6, <2>1
  <2>3. CASE Faults /\ UNCHANGED call
    BY <1>2, <2>1, <2>3, ThrowKeeps DEF Faults
  <2>4. CASE /\ call' = [call EXCEPT !.token[d] =
                      [size |-> gcm.length + TagLength, key |-> aesKey, intact |-> TRUE]]
             /\ Works
    <3> DEFINE z == [size |-> gcm.length + TagLength, key |-> aesKey, intact |-> TRUE]
    <3>1. code' = Following(code[1], Tail(code)) /\ raised' = raised /\ fault' = fault
      BY <1>1, <2>4, Proceeds DEF Works
    <3>2. call \in [name : {"protect"}, size : Nat \ {0}, token : Token] /\ call.token \in Token
      BY <2>2 DEF VerdictInv, CallTyped
    <3>3. gcm.length \in Nat /\ gcm.length > 0 /\ TagLength \in Nat
      <4>1. KeySize \in Nat \ {0} /\ call.size \in Nat \ {0} /\ TagLength \in Nat
        BY <3>2, ConstantsAssumption
      <4> QED
        BY <1>9, <2>2, <4>1 DEF Measured, PlainSize
    <3>4. z \in Ciphertext /\ z.intact /\ z.key = KeyOf(d) /\ z.size > TagLength
      <4>1. KeyOf(d) \in {"transport", "derived"}
        BY DEF KeyOf
      <4> QED
        BY <1>9, <3>3, <4>1 DEF Ciphertext
    <3> HIDE DEF z
    <3>5. PICK t : t = [call.token EXCEPT ![d] = z]
      OBVIOUS
    <3>6. /\ t \in Token /\ \A f \in Fields : t[f] = call.token[f]
          /\ t[d] = z /\ \A o \in Data : o # d => t[o] = call.token[o]
      BY <1>6, <3>2, <3>4, <3>5 DEF Token, Data, Fields
    <3>7. call' = [name |-> "protect", size |-> call.size, token |-> t]
      <4>1. call' = [call EXCEPT !.token = t]
        BY <2>4, <3>5 DEF z
      <4> QED
        BY <3>2, <4>1
    <3>8. CallTyped'
      BY <3>2, <3>6, <3>7 DEF CallTyped, ChainCalls
    <3>9. Cursor' /\ Context("verdict")' = Context("verdict")
      BY <2>1, <2>2, <3>7, SameContext DEF VerdictInv, Cursor, ChainCalls
    <3>10. Means(b)'
      <4>1. call'.name = "protect" /\ call'.token = t /\ call'.size = call.size
        BY <3>7
      <4>2. Measured(d)' = Measured(d)
        BY <2>2, <4>1 DEF Measured, PlainSize
      <4>3. \A o \in a.opened \cup {d} : /\ t[o].intact /\ t[o].key = KeyOf(o) /\ t[o].size > TagLength
        BY <1>8, <2>2, <3>4, <3>6 DEF TokenMeans
      <4>5. \A f \in a.holds \cap Fields : t[f] = Form(backend, f)
        BY <1>8, <2>2, <3>6 DEF TokenMeans
      <4>4. TokenMeans(b)'
        BY <1>6, <1>7, <1>9, <2>1, <4>1, <4>2, <4>3, <4>5 DEF TokenMeans
      <4> QED
        BY <4>1, <4>4 DEF Means, ChainCalls
    <3>11. call'.name = call.name
      BY <2>2, <3>7
    <3> QED
      BY <1>2, <1>3, <1>5, <2>1, <3>1, <3>8, <3>9, <3>10, <3>11, WorkKeeps
  <2> QED
    BY <2>1, <2>3, <2>4
<1> QED
  BY <1>10, <1>11

\* A key that is handed out
LEMMA WriteStep == ASSUME VerdictInv, DoWrite PROVE VerdictInv'
<1>1. At("write") /\ Works /\ UNCHANGED <<backend, x509, aesKey, gcm, made>>
  BY DEF DoWrite
<1>2. /\ call.name # "none" /\ raised = FALSE /\ fault = FALSE /\ Head(code) = code[1]
      /\ code[1].op = "write" /\ IsSeq(Tail(code))
      /\ \E a \in Knowledge :
           /\ Means(a) /\ Judges(Context("verdict"), code[1], a)
           /\ Good(Context("verdict"), Following(code[1], Tail(code)), Discover(code[1], a))
           /\ Discover(code[1], a) \in Knowledge
  BY <1>1, Ready
<1>3. PICK a \in Knowledge :
           /\ Means(a) /\ Judges(Context("verdict"), code[1], a)
           /\ Good(Context("verdict"), Following(code[1], Tail(code)), Discover(code[1], a))
           /\ Discover(code[1], a) \in Knowledge
  BY <1>2
<1>4. PICK f : f = code[1].field
  OBVIOUS
<1>5. PICK b : b = Discover(code[1], a)
  OBVIOUS
<1>6. call.name = "protect" /\ f \in Fields /\ code[1].form = Form(backend, f)
  <2> DEFINE c == Context("verdict")
  <2>1. c.name = call.name /\ c.backend = backend
    BY DEF Context
  <2> HIDE DEF c
  <2> QED
    BY <1>2, <1>3, <1>4, <2>1 DEF Judges, Neutral, Calm, c
<1>7. /\ b.key = a.key /\ b.data = a.data /\ b.opened = a.opened /\ b.nonempty = a.nonempty
      /\ b.holds = a.holds \cup {f}
  <2>1. b = [a EXCEPT !.holds = @ \cup {f}]
    BY <1>2, <1>4, <1>5 DEF Discover
  <2> QED
    BY <2>1 DEF Knowledge
<1>8. TokenMeans(a) /\ a.opened \subseteq Data
  BY <1>3, <1>6 DEF Means, Knowledge
<1>9. code' = Following(code[1], Tail(code)) /\ raised' = raised /\ fault' = fault
  BY <1>1, Proceeds DEF Works
<1>10. call \in [name : {"protect"}, size : Nat \ {0}, token : Token] /\ call.token \in Token
  BY <1>6 DEF VerdictInv, CallTyped
<1>11. Form(backend, f) \in PrivateForm \cap PublicForm \/ (f = "private" /\ Form(backend, f) \in PrivateForm)
  BY <1>6 DEF Form, PrivateForm, PublicForm, Fields
<1>12. PICK t : t = [call.token EXCEPT ![f] = Form(backend, f)]
  OBVIOUS
<1>13. /\ t \in Token /\ t[f] = Form(backend, f) /\ \A o \in Data : t[o] = call.token[o]
       /\ \A o \in Fields : o # f => t[o] = call.token[o]
  BY <1>6, <1>10, <1>11, <1>12 DEF Token, Data, Fields
<1>14. call' = [name |-> "protect", size |-> call.size, token |-> t]
  <2>1. call' = [call EXCEPT !.token = t]
    BY <1>2, <1>4, <1>6, <1>12 DEF DoWrite
  <2> QED
    BY <1>10, <2>1
<1>15. CallTyped'
  BY <1>10, <1>13, <1>14 DEF CallTyped, ChainCalls
<1>16. Cursor' /\ Context("verdict")' = Context("verdict") /\ call'.name = call.name
  BY <1>1, <1>6, <1>14, SameContext DEF VerdictInv, Cursor, ChainCalls
<1>17. Means(b)'
  <2>1. call'.name = "protect" /\ call'.token = t /\ call'.size = call.size
    BY <1>14
  <2>2. \A d : Measured(d)' = Measured(d)
    BY <1>6, <2>1 DEF Measured, PlainSize
  <2>3. \A d \in a.opened : t[d].intact /\ t[d].key = KeyOf(d) /\ t[d].size > TagLength
    BY <1>6, <1>8, <1>13 DEF TokenMeans
  <2>4. \A g \in (a.holds \cup {f}) \cap Fields : t[g] = Form(backend, g)
    BY <1>6, <1>8, <1>13 DEF TokenMeans
  <2>5. TokenMeans(b)'
    BY <1>1, <1>7, <1>8, <2>1, <2>2, <2>3, <2>4 DEF TokenMeans
  <2> QED
    BY <2>1, <2>5 DEF Means, ChainCalls
<1> QED
  BY <1>1, <1>2, <1>3, <1>5, <1>9, <1>15, <1>16, <1>17, WorkKeeps

\* The certificates
LEMMA ChainStep == ASSUME VerdictInv, DoLoad \/ DoAdd \/ DoBuildChain PROVE VerdictInv'
<1>0. PICK op \in {"load", "add", "build_chain"} : At(op)
  BY DEF DoLoad, DoAdd, DoBuildChain
<1>2. /\ call.name # "none" /\ raised = FALSE /\ fault = FALSE /\ Head(code) = code[1]
      /\ code[1].op = op /\ IsSeq(Tail(code))
      /\ \E a \in Knowledge :
           /\ Means(a) /\ Judges(Context("verdict"), code[1], a)
           /\ Good(Context("verdict"), Following(code[1], Tail(code)), Discover(code[1], a))
           /\ Discover(code[1], a) \in Knowledge
  BY <1>0, Ready
<1>3. PICK a \in Knowledge :
           /\ Means(a) /\ Judges(Context("verdict"), code[1], a)
           /\ Good(Context("verdict"), Following(code[1], Tail(code)), Discover(code[1], a))
           /\ Discover(code[1], a) \in Knowledge
  BY <1>2
<1>4. PICK b : b = Discover(code[1], a)
  OBVIOUS
<1>5. PICK i : i = code[1].index
  OBVIOUS
<1>6. PICK n \in Nat : n = Len(call.x5c) /\ DOMAIN call.x5c = 1..n
  <2>1. call.name \in ChainCalls
    <3> DEFINE c == Context("verdict")
    <3>1. c.name = call.name
      BY DEF Context
    <3> HIDE DEF c
    <3> QED
      BY <1>0, <1>2, <1>3, <3>1 DEF Judges, Neutral, Calm, c
  <2>2. PICK S : call.x5c \in Seq(S)
    BY <2>1 DEF VerdictInv, CallTyped, IsSeq
  <2> QED
    BY <2>2
<1>7. /\ call.name \in ChainCalls
      /\ op = "load" => i \in 1..n \/ (i = 1 /\ "has_x5c" \in a.holds)
      /\ op = "add" => i \in 2..n
  <2> DEFINE c == Context("verdict")
  <2>1. c.name = call.name /\ (call.name \in ChainCalls => c.last = n)
    BY <1>6 DEF Context
  <2> HIDE DEF c
  <2> QED
    BY <1>0, <1>2, <1>3, <1>5, <2>1 DEF Judges, Neutral, Calm, c
<1>8. ChainMeans(a) /\ call.name \notin {"unwrap", "protect", "report"}
  BY <1>3, <1>7 DEF Means, ChainCalls
<1>9. /\ a.holds \in SUBSET Conditions
      /\ a.decoded \in SUBSET Nat /\ a.added \in SUBSET Nat /\ a.built \in SUBSET Nat
  BY DEF Knowledge
<1>10. CASE op = "load"
  <2>1. DoLoad
    BY <1>2, <1>10 DEF DoLoad, DoAdd, DoBuildChain, At
  <2>2. /\ UNCHANGED <<backend, call, x509, aesKey, gcm, made, fault>>
        /\ \/ call.x5c[i].decodes /\ Proceed(<< >>)
           \/ ~call.x5c[i].decodes /\ Throw
    BY <1>2, <1>5, <2>1 DEF DoLoad
  <2>3. CASE call.x5c[i].decodes /\ Proceed(<< >>)
    <3>1. code' = Following(code[1], Tail(code)) /\ raised' = raised
      BY <1>0, <1>10, <2>3, Proceeds
    <3>2. b = [a EXCEPT !.decoded = @ \cup {i}]
      BY <1>2, <1>4, <1>5, <1>10 DEF Discover
    <3>3. b.holds = a.holds /\ b.decoded = a.decoded \cup {i} /\ b.added = a.added /\ b.built = a.built
      BY <3>2 DEF Knowledge
    <3>4. ChainMeans(b)'
      BY <1>8, <2>2, <2>3, <3>3 DEF ChainMeans, Certificates, PathTrusted, Findable, Windows
    <3>5. Means(b)'
      BY <1>7, <1>8, <2>2, <3>4 DEF Means
    <3>6. CallTyped' /\ Cursor' /\ Context("verdict")' = Context("verdict")
      BY <2>2, SameContext DEF VerdictInv, CallTyped, Cursor
    <3> QED
      BY <1>2, <1>3, <1>4, <2>2, <3>1, <3>5, <3>6, WorkKeeps
  <2>4. CASE ~call.x5c[i].decodes /\ Throw
    <3>1. call.x5c = << >> \/ i \in 1..n
      <4>1. ASSUME call.x5c # << >> PROVE 1 \in 1..n
        <5>1. PICK S : call.x5c \in Seq(S)
          BY <1>7 DEF VerdictInv, CallTyped, IsSeq
        <5> QED
          BY <1>6, <4>1, <5>1
      <4> QED
        BY <1>7, <1>10, <4>1
    <3>2. ~Trusted
      BY <1>6, <2>4, <3>1 DEF Trusted, ToSet
    <3>3. Refused
      BY <1>8, <3>2 DEF Refused
    <3> QED
      BY <1>2, <2>2, <2>4, <3>3, ThrowKeeps
  <2> QED
    BY <2>2, <2>3, <2>4
<1>11. ASSUME CallTyped', Works, UNCHANGED <<backend, call, aesKey, gcm, made>>, ChainMeans(b)'
       PROVE  VerdictInv'
  <2>1. code' = Following(code[1], Tail(code)) /\ raised' = raised /\ fault' = fault
    BY <1>0, <1>11, Proceeds DEF Works
  <2>2. Means(b)'
    BY <1>7, <1>8, <1>11 DEF Means
  <2>3. Cursor' /\ Context("verdict")' = Context("verdict")
    BY <1>11, SameContext DEF VerdictInv, Cursor
  <2> QED
    BY <1>2, <1>3, <1>4, <1>11, <2>1, <2>2, <2>3, WorkKeeps
<1>12. x509 = [roots |-> x509.roots, store |-> x509.store, chainContext |-> x509.chainContext]
  BY <1>7 DEF VerdictInv, CallTyped
<1>13. CASE op = "add"
  <2>1. DoAdd
    BY <1>2, <1>13 DEF DoLoad, DoAdd, DoBuildChain, At
  <2>2. /\ Works /\ UNCHANGED <<backend, call, aesKey, gcm, made>>
        /\ x509' = [x509 EXCEPT !.store = @ \cup {call.x5c[i]}]
    BY <1>2, <1>5, <2>1 DEF DoAdd
  <2>3. /\ x509' = [roots |-> x509.roots, store |-> x509.store \cup {call.x5c[i]},
                    chainContext |-> x509.chainContext]
        /\ x509'.roots = x509.roots /\ x509'.store = x509.store \cup {call.x5c[i]}
        /\ x509'.chainContext = x509.chainContext
    BY <1>12, <2>2
  <2>4. b = [a EXCEPT !.added = @ \cup {i}]
    BY <1>2, <1>4, <1>5, <1>13 DEF Discover
  <2>5. b.holds = a.holds /\ b.decoded = a.decoded /\ b.added = a.added \cup {i} /\ b.built = a.built
    BY <2>4 DEF Knowledge
  <2>6. i \in Nat /\ i # 0
    BY <1>7, <1>13
  <2>7. /\ Certificates(b.added)' = Certificates(a.added) \cup {call.x5c[i]}
        /\ Certificates(b.built)' = Certificates(a.built)
    BY <1>9, <2>2, <2>3, <2>5, <2>6 DEF Certificates
  <2>8. PathTrusted => PathTrusted'
    BY <2>2, <2>3 DEF PathTrusted, Findable, Windows
  <2>9. ChainMeans(b)'
    BY <1>8, <2>2, <2>3, <2>5, <2>7, <2>8 DEF ChainMeans
  <2>10. CallTyped'
    BY <1>7, <2>2, <2>3 DEF VerdictInv, CallTyped
  <2> QED
    BY <1>11, <2>2, <2>9, <2>10
<1>14. CASE op = "build_chain"
  <2>1. DoBuildChain
    BY <1>2, <1>14 DEF DoLoad, DoAdd, DoBuildChain, At
  <2>2. /\ Works /\ UNCHANGED <<backend, call, aesKey, gcm, made>>
        /\ x509' = [x509 EXCEPT !.chainContext = @ \cup x509.store \cup SystemStores]
    BY <2>1 DEF DoBuildChain
  <2>3. /\ x509' = [roots |-> x509.roots, store |-> x509.store,
                    chainContext |-> x509.chainContext \cup x509.store \cup SystemStores]
        /\ x509'.roots = x509.roots /\ x509'.store = x509.store
        /\ x509'.chainContext = x509.chainContext \cup x509.store \cup SystemStores
    BY <1>12, <2>2
  <2>4. b = [a EXCEPT !.built = @ \cup a.added]
    BY <1>2, <1>4, <1>14 DEF Discover
  <2>5. b.holds = a.holds /\ b.decoded = a.decoded /\ b.added = a.added /\ b.built = a.built \cup a.added
    BY <2>4 DEF Knowledge
  <2>6. /\ Certificates(b.added)' = Certificates(a.added)
        /\ Certificates(b.built)' = Certificates(a.built) \cup Certificates(a.added)
    BY <1>9, <2>2, <2>3, <2>5 DEF Certificates
  <2>7. PathTrusted => PathTrusted'
    BY <2>2, <2>3 DEF PathTrusted, Findable, Windows
  <2>8. ChainMeans(b)'
    BY <1>8, <2>2, <2>3, <2>5, <2>6, <2>7 DEF ChainMeans
  <2>9. CallTyped'
    BY <1>7, <2>2, <2>3 DEF VerdictInv, CallTyped
  <2> QED
    BY <1>11, <2>2, <2>8, <2>9
<1> QED
  BY <1>0, <1>10, <1>13, <1>14

\* The conditions
LEMMA HoldsIs ==
  /\ Holds("has_x5c") = (call.x5c # << >>)
  /\ Holds("chain_verifies") = ChainVerifies
  /\ Holds("signature_verifies") = call.signature
  /\ Holds("not_empty") = (gcm.length > 0)
  /\ Holds("is_pkcs8") = (call.token.private \notin {"no_pkcs8", "sec1"})
  /\ Holds("is_ecc") = (call.token.private # "no_ecc")
  /\ Holds("point_known") = (call.token.private \notin {"bad_form", "compressed"})
  /\ Holds("cng_takes_private") = (call.token.private \notin {"odd_size", "other_curve", "bad_point"})
  /\ Holds("ossl_takes_private") =
       (call.token.private \notin {"no_pkcs8", "no_ecc", "bad_form", "bad_point"})
  /\ Holds("is_spki") = (call.token.public # "no_spki")
  /\ Holds("cng_takes_public") = (call.token.public \notin {"compressed", "other_curve", "bad_point"})
  /\ Holds("ossl_takes_public") = (call.token.public \notin {"no_spki", "bad_form", "bad_point"})
  /\ Holds("same_curve") =
       ((call.token.private = "other_curve") = (call.token.public = "other_curve"))
  /\ Holds("type_known") = (call.report.type # "other")
  /\ Holds("hash_known") = (call.report.hash # "other")
  /\ Holds("hash_matches") = call.report.matches
<1>1. Holds("has_x5c") = (call.x5c # << >>)
  BY DEF Holds
<1>2. Holds("chain_verifies") = ChainVerifies
  BY DEF Holds
<1>3. Holds("signature_verifies") = call.signature
  BY DEF Holds
<1>4. Holds("not_empty") = (gcm.length > 0)
  BY DEF Holds
<1>5. Holds("is_pkcs8") = (call.token.private \notin {"no_pkcs8", "sec1"})
  BY DEF Holds
<1>6. Holds("is_ecc") = (call.token.private # "no_ecc")
  BY DEF Holds
<1>7. Holds("point_known") = (call.token.private \notin {"bad_form", "compressed"})
  BY DEF Holds
<1>8. Holds("cng_takes_private") = (call.token.private \notin {"odd_size", "other_curve", "bad_point"})
  BY DEF Holds
<1>9. Holds("ossl_takes_private") = (call.token.private \notin {"no_pkcs8", "no_ecc", "bad_form", "bad_point"})
  BY DEF Holds
<1>10. Holds("is_spki") = (call.token.public # "no_spki")
  BY DEF Holds
<1>11. Holds("cng_takes_public") = (call.token.public \notin {"compressed", "other_curve", "bad_point"})
  BY DEF Holds
<1>12. Holds("ossl_takes_public") = (call.token.public \notin {"no_spki", "bad_form", "bad_point"})
  BY DEF Holds
<1>13. Holds("same_curve") = ((call.token.private = "other_curve") = (call.token.public = "other_curve"))
  BY DEF Holds
<1>14. Holds("type_known") = (call.report.type # "other")
  BY DEF Holds
<1>15. Holds("hash_known") = (call.report.hash # "other")
  BY DEF Holds
<1>16. Holds("hash_matches") = call.report.matches
  BY DEF Holds
<1> QED
  BY <1>1, <1>2, <1>3, <1>4, <1>5, <1>6, <1>7, <1>8, <1>9, <1>10, <1>11, <1>12, <1>13, <1>14, <1>15, <1>16

\* With every certificate behind the leaf in the store, and in the chain that
\* Windows has built, a build judges the path through all it can find
LEMMA ChainJudged ==
  ASSUME IsSeq(call.x5c), call.x5c # << >>, \A root \in x509.roots : root.issuer = root.name,
         (IF Windows THEN x509.chainContext ELSE x509.store) =
           Certificates({0} \cup 2..Len(call.x5c)) \cup (IF Windows THEN SystemStores ELSE {})
  PROVE  ChainVerifies <=> PathTrusted
<1> DEFINE known == IF Windows THEN x509.chainContext ELSE x509.store
           leaf == call.x5c[1]
           path == Path(leaf, known)
<1>1. known = Findable
  <2>1. PICK S : call.x5c \in Seq(S)
    BY DEF IsSeq
  <2> DEFINE t == Tail(call.x5c)
             n == Len(call.x5c)
  <2>2. /\ n \in Nat /\ n >= 1 /\ DOMAIN t = 1..(n - 1)
        /\ \A i \in 1..(n - 1) : t[i] = call.x5c[i + 1]
    BY <2>1
  <2> HIDE DEF t, n
  <2>3. ToSet(t) = {call.x5c[i] : i \in 2..n}
    <3>1. ASSUME NEW i \in 2..n PROVE i - 1 \in 1..(n - 1) /\ (i - 1) + 1 = i
      BY <2>2
    <3>2. ASSUME NEW i \in 2..n PROVE call.x5c[i] \in ToSet(t)
      <4>1. i - 1 \in DOMAIN t /\ t[i - 1] = call.x5c[i]
        BY <2>2, <3>1
      <4> QED
        BY <4>1 DEF ToSet
    <3>3. ASSUME NEW z \in ToSet(t) PROVE z \in {call.x5c[i] : i \in 2..n}
      <4>1. PICK i \in 1..(n - 1) : z = t[i]
        BY <2>2 DEF ToSet
      <4>2. i + 1 \in 2..n /\ z = call.x5c[i + 1]
        BY <2>2, <4>1
      <4> QED
        BY <4>2
    <3> QED
      BY <3>2, <3>3
  <2>4. Certificates({0} \cup 2..n) = x509.roots \cup {call.x5c[i] : i \in 2..n}
    <3>1. 0 \in {0} \cup 2..n /\ ({0} \cup 2..n) \ {0} = 2..n
      BY <2>2
    <3> QED
      BY <3>1 DEF Certificates
  <2> QED
    BY <2>3, <2>4 DEF Findable, t, n
<1>2. ChainVerifies <=> /\ \A n \in DOMAIN path : backend \in path[n].valid
                        /\ Top(path).issuer = Top(path).name /\ Top(path) \in x509.roots
                        /\ GetCommonName(leaf) = "matches"
  BY DEF ChainVerifies, VerifyChainTerminatesAtRoot, VerifySubjectSuffix
<1>3. GetCommonName(leaf) = "matches" <=> leaf.subject \in Subjects(backend)
  BY DEF GetCommonName, Wincrypt_GetCommonName, Ossl_GetCommonName, ExtractFieldFromDN, Subjects, Windows
<1> HIDE DEF known
<1>4. PathTrusted <=> /\ \A n \in DOMAIN path : backend \in path[n].valid
                      /\ Top(path) \in x509.roots
                      /\ leaf.subject \in Subjects(backend)
  BY <1>1 DEF PathTrusted
<1> HIDE DEF path, leaf
<1> QED
  BY <1>2, <1>3, <1>4

\* A test tells what it is meant to
LEMMA TestStep == ASSUME VerdictInv, DoTest PROVE VerdictInv'
<1>1. At("test") /\ UNCHANGED <<backend, call, x509, aesKey, gcm, made, fault>>
  BY DEF DoTest
<1>2. /\ call.name # "none" /\ raised = FALSE /\ fault = FALSE /\ Head(code) = code[1]
      /\ code[1].op = "test" /\ IsSeq(Tail(code))
      /\ \E a \in Knowledge :
           /\ Means(a) /\ Judges(Context("verdict"), code[1], a)
           /\ Good(Context("verdict"), Following(code[1], Tail(code)), Discover(code[1], a))
           /\ Discover(code[1], a) \in Knowledge
  BY <1>1, Ready
<1>3. PICK a \in Knowledge :
           /\ Means(a) /\ Judges(Context("verdict"), code[1], a)
           /\ Good(Context("verdict"), Following(code[1], Tail(code)), Discover(code[1], a))
           /\ Discover(code[1], a) \in Knowledge
  BY <1>2
<1>4. PICK b : b = Discover(code[1], a)
  OBVIOUS
<1>5. PICK q : q = code[1].condition
  OBVIOUS
<1>6. \/ Holds(q) /\ Proceed(<< >>)
      \/ ~Holds(q) /\ Throw
  BY <1>2, <1>5 DEF DoTest
<1>7. PICK c : c = Context("verdict")
  OBVIOUS
<1>8. /\ CanTest(c, q, a) /\ c.name = call.name /\ c.backend = backend
      /\ call.name \in ChainCalls => c.last = Len(call.x5c)
  <2>1. CanTest(c, q, a)
    BY <1>2, <1>3, <1>5, <1>7 DEF Judges, Neutral, Calm
  <2> QED
    BY <1>7, <2>1 DEF Context
<1>9. /\ b.key = a.key /\ b.data = a.data /\ b.opened = a.opened
      /\ b.decoded = a.decoded /\ b.added = a.added /\ b.built = a.built
      /\ q = "not_empty" => b.nonempty = a.nonempty \cup {a.data} /\ b.holds = a.holds
      /\ q # "not_empty" => b.nonempty = a.nonempty /\ b.holds = a.holds \cup {q}
  <2>1. CASE q = "not_empty"
    <3>1. b = [a EXCEPT !.nonempty = @ \cup {a.data}]
      BY <1>2, <1>4, <1>5, <2>1 DEF Discover
    <3> QED
      BY <2>1, <3>1 DEF Knowledge
  <2>2. CASE q # "not_empty"
    <3>1. b = [a EXCEPT !.holds = @ \cup {q}]
      BY <1>2, <1>4, <1>5, <2>2 DEF Discover
    <3> QED
      BY <2>2, <3>1 DEF Knowledge
  <2> QED
    BY <2>1, <2>2
<1>10. ASSUME Holds(q) => Means(b), ~Holds(q) => Refused PROVE VerdictInv'
  <2>1. CASE Holds(q) /\ Proceed(<< >>)
    <3>1. code' = Following(code[1], Tail(code)) /\ raised' = raised
      BY <1>1, <2>1, Proceeds
    <3>2. Means(b)'
      BY <1>1, <1>10, <2>1, SameMeans
    <3>3. CallTyped' /\ Cursor' /\ Context("verdict")' = Context("verdict")
      BY <1>1, SameContext DEF VerdictInv, CallTyped, Cursor
    <3> QED
      BY <1>1, <1>2, <1>3, <1>4, <3>1, <3>2, <3>3, WorkKeeps
  <2>2. CASE ~Holds(q) /\ Throw
    BY <1>1, <1>2, <1>10, <2>2, ThrowKeeps
  <2> QED
    BY <1>6, <2>1, <2>2
<1>11. CASE q = "not_empty" /\ call.name = "unwrap" /\ a.data \in Data
  <2>1. TokenMeans(a)
    BY <1>3, <1>11 DEF Means
  <2>2. gcm.length = call.token[a.data].size - TagLength
    BY <1>11, <2>1 DEF TokenMeans, Measured
  <2>3. call.token[a.data].size \in Nat /\ TagLength \in Nat
    BY <1>11, ConstantsAssumption DEF VerdictInv, CallTyped, Token, Ciphertext, Data
  <2>4. Holds(q) <=> call.token[a.data].size > TagLength
    <3>1. Holds("not_empty") = (gcm.length > 0)
      BY HoldsIs
    <3>2. gcm.length > 0 <=> call.token[a.data].size > TagLength
      BY <2>2, <2>3
    <3> QED
      BY <1>11, <3>1, <3>2
  <2>5. ASSUME Holds(q) PROVE Means(b)
    <3>1. TokenMeans(b)
      BY <1>9, <1>11, <2>1, <2>4, <2>5 DEF TokenMeans
    <3> QED
      BY <1>11, <3>1 DEF Means, ChainCalls
  <2>6. ASSUME ~Holds(q) PROVE Refused
    <3>1. ~Intact(backend, call.token)
      BY <1>11, <2>4, <2>6 DEF Intact, Data
    <3> QED
      BY <1>11, <3>1 DEF Refused, ChainCalls
  <2> QED
    BY <1>10, <2>5, <2>6
<1>12. CASE q \in Needed(c) /\ call.name = "unwrap"
  <2>1. TokenMeans(a) /\ q # "not_empty"
    BY <1>3, <1>12 DEF Means, Needed, PrivateConditions, PublicConditions, DeriveConditions
  <2>2. ASSUME Holds(q) PROVE Means(b)
    <3>1. TokenMeans(b)
      BY <1>9, <1>12, <2>1, <2>2 DEF TokenMeans
    <3> QED
      BY <1>12, <3>1 DEF Means, ChainCalls
  <2>3. ASSUME ~Holds(q) PROVE Refused
    <3>1. ~Intact(backend, call.token)
      <4>1. CASE backend = "windows"
        <5>1. /\ KeyPairs(backend) = {"good"} \X {"good", "bad_form"}
              /\ q \in {"is_pkcs8", "is_ecc", "point_known", "cng_takes_private", "is_spki", "cng_takes_public"}
          BY <1>8, <1>12, <4>1 DEF KeyPairs, Needed, PrivateConditions, PublicConditions, DeriveConditions
        <5>2. call.token.private # "good" \/ call.token.public \notin {"good", "bad_form"}
          BY <2>3, <5>1, HoldsIs
        <5> QED
          BY <5>1, <5>2 DEF Intact
      <4>2. CASE backend # "windows"
        <5>1. /\ KeyPairs(backend) = ({"good", "sec1", "compressed", "odd_size"} \X {"good", "compressed"})
                                     \cup {<<"other_curve", "other_curve">>}
              /\ q \in {"ossl_takes_private", "ossl_takes_public", "same_curve"}
          BY <1>8, <1>12, <4>2 DEF KeyPairs, Needed, PrivateConditions, PublicConditions, DeriveConditions
        <5>2. /\ \/ call.token.private \notin {"good", "sec1", "compressed", "odd_size"}
                 \/ call.token.public \notin {"good", "compressed"}
              /\ ~(call.token.private = "other_curve" /\ call.token.public = "other_curve")
          BY <2>3, <5>1, HoldsIs
        <5> QED
          BY <5>1, <5>2 DEF Intact
      <4> QED
        BY <4>1, <4>2
    <3> QED
      BY <1>12, <3>1 DEF Refused, ChainCalls
  <2> QED
    BY <1>10, <2>2, <2>3
<1>13. CASE q \in ReportConditions /\ call.name = "report"
  <2>1. q # "not_empty" /\ \A p \in a.holds \cap ReportConditions : Holds(p)
    BY <1>3, <1>13 DEF Means, ReportConditions
  <2>2. ASSUME Holds(q) PROVE Means(b)
    BY <1>9, <1>13, <2>1, <2>2 DEF Means, ChainCalls
  <2>3. ASSUME ~Holds(q) PROVE Refused
    <3>1. ~ReportValid
      BY <1>13, <2>3, HoldsIs DEF ReportValid, ReportConditions
    <3> QED
      BY <1>13, <3>1 DEF Refused, ChainCalls
  <2> QED
    BY <1>10, <2>2, <2>3
<1>14. CASE q \in ChainConditions \ {"chain_verifies"} /\ call.name \in ChainCalls
  <2>1. ChainMeans(a) /\ q \in {"has_x5c", "signature_verifies"} /\ call.name \notin {"unwrap", "protect", "report"}
    BY <1>3, <1>14 DEF Means, ChainConditions, ChainCalls
  <2>2. ASSUME Holds(q) PROVE Means(b)
    <3>1. ChainMeans(b)
      BY <1>9, <2>1, <2>2, HoldsIs DEF ChainMeans
    <3> QED
      BY <2>1, <3>1 DEF Means
  <2>3. ASSUME ~Holds(q) PROVE Refused
    <3>1. ~Trusted
      BY <2>1, <2>3, HoldsIs DEF Trusted
    <3> QED
      BY <2>1, <3>1 DEF Refused
  <2> QED
    BY <1>10, <2>2, <2>3
<1>15. CASE /\ q = "chain_verifies" /\ call.name \in ChainCalls
            /\ (IF c.backend = "windows" THEN a.built ELSE a.added) = Intermediates(c)
  <2>1. ChainMeans(a) /\ call.name \notin {"unwrap", "protect", "report"}
    BY <1>3, <1>15 DEF Means, ChainCalls
  <2>2. (IF Windows THEN x509.chainContext ELSE x509.store) =
          Certificates({0} \cup 2..Len(call.x5c)) \cup (IF Windows THEN SystemStores ELSE {})
    <3>1. Intermediates(c) = {0} \cup 2..Len(call.x5c) /\ 0 \in Intermediates(c)
      BY <1>8, <1>15 DEF Intermediates
    <3> QED
      BY <1>8, <1>15, <2>1, <3>1 DEF ChainMeans, Windows
  <2>3. IsSeq(call.x5c) /\ \A root \in x509.roots : root.issuer = root.name
    BY <1>15 DEF VerdictInv, CallTyped
  <2>4. call.x5c # << >> => (Holds(q) <=> PathTrusted)
    <3>1. call.x5c # << >> => (ChainVerifies <=> PathTrusted)
      BY <2>2, <2>3, ChainJudged
    <3> QED
      BY <1>15, <3>1, HoldsIs
  <2>5. ASSUME Holds(q) PROVE Means(b)
    <3>1. ChainMeans(b)
      BY <1>9, <1>15, <2>1, <2>4, <2>5 DEF ChainMeans
    <3> QED
      BY <2>1, <3>1 DEF Means
  <2>6. ASSUME ~Holds(q) PROVE Refused
    <3>1. ~Trusted
      BY <2>4, <2>6 DEF Trusted
    <3> QED
      BY <2>1, <3>1 DEF Refused
  <2> QED
    BY <1>10, <2>5, <2>6
<1>16. CASE q = "same_curve" /\ call.name = "protect"
  <2>1. TokenMeans(a) /\ q \notin Fields
    BY <1>3, <1>16 DEF Means, Fields
  <2>2. TokenMeans(b)
    BY <1>9, <1>16, <2>1 DEF TokenMeans
  <2>3. Means(b) /\ Refused
    BY <1>16, <2>2 DEF Means, Refused, ChainCalls
  <2> QED
    BY <1>10, <2>3
<1> QED
  BY <1>8, <1>11, <1>12, <1>13, <1>14, <1>15, <1>16 DEF CanTest

\* A call begins with nothing known
LEMMA BeginStep ==
  ASSUME VerdictInv, Verify \/ Unwrap \/ Protect \/ Generate \/ Report PROVE VerdictInv'
<1>1. ASSUME NEW C, NEW script, NEW roots, Begin(C, script, roots),
             C.name \in {"verify", "generate", "unwrap", "protect", "report"},
             C.name = "unwrap" => C.token \in Token,
             C.name = "protect" => C \in [name : {"protect"}, size : Nat \ {0}, token : Token],
             C.name \in ChainCalls => /\ IsSeq(C.x5c) /\ C.signature \in BOOLEAN
                                      /\ \A root \in roots : root.issuer = root.name,
             C.name = "generate" => C.x5c # << >>,
             Good([view |-> "verdict", name |-> C.name, backend |-> backend,
                   last |-> IF C.name \in ChainCalls THEN Len(C.x5c) ELSE 0], script, Nothing)
      PROVE  VerdictInv'
  <2>1. /\ call' = C /\ code' = script /\ raised' = FALSE /\ fault' = FALSE /\ backend' = backend
        /\ x509' = [roots |-> roots, store |-> roots, chainContext |-> {}]
        /\ aesKey' = "none" /\ gcm' = Start(0) /\ made' = made
    BY <1>1 DEF Begin
  <2>2. Context("verdict")' = [view |-> "verdict", name |-> C.name, backend |-> backend,
                               last |-> IF C.name \in ChainCalls THEN Len(C.x5c) ELSE 0]
    BY <2>1 DEF Context
  <2>3. Good(Context("verdict")', code', Nothing) /\ IsSeq(code')
    BY <1>1, <2>1, <2>2, GoodParts
  <2>4. Nothing \in Knowledge
    BY DEF Nothing, Knowledge, Keys
  <2>5. Means(Nothing)'
    <3>1. /\ Nothing.key = "none" /\ Nothing.data = "none" /\ Nothing.opened = {} /\ Nothing.nonempty = {}
          /\ Nothing.holds = {} /\ Nothing.decoded = {} /\ Nothing.added = {0} /\ Nothing.built = {}
      BY DEF Nothing
    <3>2. x509'.roots = roots /\ x509'.store = roots /\ x509'.chainContext = {}
      BY <2>1
    <3>3. Certificates({0})' = roots /\ Certificates({})' = {}
      BY <3>2 DEF Certificates
    <3>4. "none" \notin Data
      BY DEF Data
    <3>5. TokenMeans(Nothing)'
      BY <2>1, <3>1, <3>4 DEF TokenMeans
    <3>6. ChainMeans(Nothing)'
      BY <3>1, <3>2, <3>3 DEF ChainMeans
    <3> QED
      BY <3>1, <3>5, <3>6 DEF Means
  <2>6. Running'
    BY <2>3, <2>4, <2>5 DEF Running
  <2>7. Cursor'
    <3>1. gcm' = [done |-> 0, offset |-> 0, length |-> 0]
      BY <2>1 DEF Start
    <3>2. numBlocks(0) \in Nat /\ 0 * BlockLength = 0
      BY Blocks, ConstantsAssumption
    <3> QED
      BY <3>1, <3>2 DEF Cursor
  <2>8. CallTyped'
    <3>1. x509'.roots = roots /\ x509' = [roots |-> x509'.roots, store |-> x509'.store, chainContext |-> x509'.chainContext]
      BY <2>1
    <3> QED
      BY <1>1, <2>1, <3>1 DEF CallTyped
  <2> QED
    BY <1>1, <2>1, <2>3, <2>6, <2>7, <2>8 DEF VerdictInv
<1>2. CASE Verify
  <2>1. PICK x5c \in Chains, good \in BOOLEAN :
          Begin([name |-> "verify", x5c |-> x5c, signature |-> good], ParseToken(x5c), TrustedRoots)
    BY <1>2 DEF Verify
  <2>2. IsSeq(x5c) /\ Len(x5c) \in Nat /\ \A root \in TrustedRoots : root.issuer = root.name
    BY ConstantsAssumption DEF IsSeq
  <2> DEFINE c == [view |-> "verdict", name |-> "verify", backend |-> backend, last |-> Len(x5c)]
  <2>3. Good(c, ParseToken(x5c), Nothing)
    <3>1. c.view = "verdict" /\ c.name = "verify" /\ c.backend = backend /\ c.last = Len(x5c)
      OBVIOUS
    <3> HIDE DEF c
    <3> QED
      BY <2>2, <3>1, ParseTokenGood
  <2>4. "verify" \in ChainCalls
    BY DEF ChainCalls
  <2> QED
    BY <1>1, <2>1, <2>2, <2>3, <2>4
<1>3. CASE Generate
  <2>1. Begin([name |-> "generate", x5c |-> TestChain, signature |-> TRUE], ValidateSignature, {TestRoot})
    BY <1>3 DEF Generate
  <2>2. IsSeq(TestChain) /\ Len(TestChain) = 2 /\ TestChain # << >> /\ TestRoot.issuer = TestRoot.name
    <3>1. PICK p, q : TestChain = <<p, q>>
      BY DEF TestChain
    <3>2. <<p, q>> \in Seq({p, q}) /\ Len(<<p, q>>) = 2 /\ <<p, q>> # << >>
      OBVIOUS
    <3>3. TestRoot.issuer = TestRoot.name
      BY DEF TestRoot, TestCert
    <3> QED
      BY <3>1, <3>2, <3>3 DEF IsSeq
  <2> DEFINE c == [view |-> "verdict", name |-> "generate", backend |-> backend, last |-> Len(TestChain)]
  <2>3. Good(c, ValidateSignature, Nothing)
    <3>1. c.view = "verdict" /\ c.name = "generate" /\ c.backend = backend /\ c.last = 2
      BY <2>2
    <3> HIDE DEF c
    <3> QED
      BY <3>1, ValidateSignatureGood
  <2>4. "generate" \in ChainCalls
    BY DEF ChainCalls
  <2> QED
    BY <1>1, <2>1, <2>2, <2>3, <2>4
<1>4. CASE Unwrap
  <2>1. PICK token \in Tokens \cup made :
          Begin([name |-> "unwrap", token |-> token], decrypt_secret, {})
    BY <1>4 DEF Unwrap
  <2>2. token \in Token
    BY ConstantsAssumption DEF VerdictInv
  <2> DEFINE c == [view |-> "verdict", name |-> "unwrap", backend |-> backend, last |-> 0]
  <2>3. Good(c, decrypt_secret, Nothing)
    <3>1. c.view = "verdict" /\ c.name = "unwrap" /\ c.backend = backend
      OBVIOUS
    <3> HIDE DEF c
    <3> QED
      BY <3>1, DecryptSecretGood
  <2>4. "unwrap" \notin ChainCalls
    BY DEF ChainCalls
  <2> QED
    BY <1>1, <2>1, <2>2, <2>3, <2>4
<1>5. CASE Protect
  <2>1. PICK size \in SecretSizes :
          Begin([name |-> "protect", size |-> size, token |-> NoToken], EncryptWithPadding, {})
    BY <1>5 DEF Protect
  <2>2. size \in Nat \ {0}
    BY ConstantsAssumption
  <2>3. NoToken \in Token
    <3> DEFINE z == [size |-> 0, key |-> "other", intact |-> FALSE]
    <3>1. z \in Ciphertext
      BY DEF Ciphertext
    <3>2. NoToken = [encryptedEcdhPrivate |-> z, encryptedSecret |-> z,
                     private |-> "no_pkcs8", public |-> "no_spki"]
      BY DEF NoToken
    <3> HIDE DEF z
    <3> QED
      BY <3>1, <3>2 DEF Token, PrivateForm, PublicForm
  <2> DEFINE c == [view |-> "verdict", name |-> "protect", backend |-> backend, last |-> 0]
  <2>4. Good(c, EncryptWithPadding, Nothing)
    <3>1. c.view = "verdict" /\ c.name = "protect" /\ c.backend = backend
      OBVIOUS
    <3> HIDE DEF c
    <3> QED
      BY <3>1, EncryptWithPaddingGood
  <2>5. "protect" \notin ChainCalls
    BY DEF ChainCalls
  <2> QED
    BY <1>1, <2>1, <2>2, <2>3, <2>4, <2>5
<1>6. CASE Report
  <2>1. PICK report : Begin([name |-> "report", report |-> report], IsValidHclReport, {})
    BY <1>6 DEF Report
  <2> DEFINE c == [view |-> "verdict", name |-> "report", backend |-> backend, last |-> 0]
  <2>2. Good(c, IsValidHclReport, Nothing)
    <3>1. c.view = "verdict" /\ c.name = "report"
      OBVIOUS
    <3> HIDE DEF c
    <3> QED
      BY <3>1, IsValidHclReportGood
  <2>3. "report" \notin ChainCalls
    BY DEF ChainCalls
  <2> QED
    BY <1>1, <2>1, <2>2, <2>3
<1> QED
  BY <1>2, <1>3, <1>4, <1>5, <1>6

\* A call that returns leaves an intact token behind if it was to make one
LEMMA ReturnStep == ASSUME VerdictInv, Return PROVE VerdictInv'
<1>1. /\ call.name # "none" /\ code = << >> /\ call' = NoCall
      /\ made' = (IF call.name = "protect" /\ ~raised THEN {call.token} ELSE made)
      /\ UNCHANGED <<backend, code, raised, x509, aesKey, gcm, fault>>
  BY DEF Return
<1>2. ASSUME call.name = "protect", raised = FALSE PROVE call.token \in Token /\ Intact(backend, call.token)
  <2>1. PICK a \in Knowledge : Good(Context("verdict"), code, a) /\ Means(a)
    BY <1>1, <1>2 DEF VerdictInv, Running
  <2> DEFINE c == Context("verdict")
  <2>2. c.view = "verdict" /\ c.name = "protect"
    BY <1>2 DEF Context
  <2> HIDE DEF c
  <2>3. KnowsAll(c, a)
    BY <1>1, <2>1, <2>2, GoodParts DEF Complete, c
  <2>4. Data \subseteq a.opened /\ Fields \subseteq a.holds
    BY <2>2, <2>3 DEF KnowsAll
  <2>5. \A d \in Data : /\ call.token[d].intact /\ call.token[d].key = KeyOf(d)
                        /\ call.token[d].size > TagLength
    BY <1>2, <2>1, <2>4 DEF Means, TokenMeans
  <2>6. \A f \in Fields : call.token[f] = Form(backend, f)
    BY <1>2, <2>1, <2>4 DEF Means, TokenMeans
  <2>7. <<call.token.private, call.token.public>> \in KeyPairs(backend)
    BY <2>6 DEF Fields, Form, KeyPairs
  <2>8. call.token \in Token
    BY <1>2 DEF VerdictInv, CallTyped
  <2> QED
    BY <2>5, <2>7, <2>8 DEF Intact, Data, KeyOf
<1>3. made' \subseteq Token /\ \A token \in made' : Intact(backend', token)
  BY <1>1, <1>2 DEF VerdictInv
<1>4. call'.name = "none"
  BY <1>1 DEF NoCall
<1>5. CallTyped' /\ Cursor'
  BY <1>1, <1>4 DEF VerdictInv, CallTyped, Cursor, ChainCalls
<1> QED
  BY <1>1, <1>3, <1>4, <1>5 DEF VerdictInv

\* The inductive invariant: a call that has not thrown knows what the rest of
\* its code needs, and a call that has thrown without a fault had a reason.
THEOREM Verdicts == Spec => []VerdictInv
<1>1. Init => VerdictInv
  <2> SUFFICES ASSUME Init PROVE VerdictInv
    OBVIOUS
  <2>1. call = NoCall /\ code = << >> /\ raised = FALSE /\ fault = FALSE /\ made = {} /\ gcm = Start(0)
    BY DEF Init
  <2>2. call.name = "none"
    BY <2>1 DEF NoCall
  <2>3. CallTyped
    BY <2>2 DEF CallTyped, ChainCalls
  <2>4. Cursor
    <3>1. gcm = [done |-> 0, offset |-> 0, length |-> 0]
      BY <2>1 DEF Start
    <3>2. numBlocks(0) \in Nat /\ 0 * BlockLength = 0
      BY Blocks, ConstantsAssumption
    <3> QED
      BY <3>1, <3>2 DEF Cursor
  <2> QED
    BY <2>1, <2>2, <2>3, <2>4, Single DEF VerdictInv
<1>2. VerdictInv /\ [Next]_vars => VerdictInv'
  <2> SUFFICES ASSUME VerdictInv, [Next]_vars PROVE VerdictInv'
    OBVIOUS
  <2>1. CASE \/ DoRequest \/ DoNew \/ NewFails \/ DoOwn \/ DoRelease \/ DoConstructed \/ DoEnd \/ Terminate
             \/ DoCopy
    BY <2>1, ResourceStep
  <2>2. CASE DoAssign \/ DoMeasure \/ DoChained
    BY <2>2, CursorStep
  <2>3. CASE DoLastDecrypt \/ DoLastEncrypt
    BY <2>3, LastStep
  <2>4. CASE DoLoad \/ DoAdd \/ DoBuildChain
    BY <2>4, ChainStep
  <2>5. CASE DoTest
    BY <2>5, TestStep
  <2>6. CASE Verify \/ Unwrap \/ Protect \/ Generate \/ Report
    BY <2>6, BeginStep
  <2>7. CASE Return
    BY <2>7, ReturnStep
  <2>8. CASE UNCHANGED vars
    BY <2>8, SameState DEF vars
  <2>9. CASE DoWrite
    BY <2>9, WriteStep
  <2> QED
    BY <2>1, <2>2, <2>3, <2>4, <2>5, <2>6, <2>7, <2>8, <2>9 DEF Next, Terminated
<1> QED
  BY <1>1, <1>2, PTL DEF Spec

\* decrypt_secret succeeds on intact tokens, and on no other, in both builds and
\* whatever the sizes of secrets, keys, blocks and tags; what EncryptWithPadding
\* makes is intact.
THEOREM UnwrapsIntact == Spec => []UnwrapsExactlyIntact
<1>1. ASSUME VerdictInv PROVE UnwrapsExactlyIntact
  <2>1. ASSUME Over("unwrap") PROVE IF fault THEN raised ELSE raised = ~Intact(backend, call.token)
    <3>1. call.name = "unwrap" /\ code = << >>
      BY <2>1 DEF Over
    <3>2. CASE raised = TRUE
      <4>1. fault \/ Refused
        BY <1>1, <3>1, <3>2 DEF VerdictInv, Unwinding
      <4> QED
        BY <3>1, <3>2, <4>1 DEF Refused
    <3>3. CASE raised = FALSE
      <4>1. fault = FALSE
        BY <1>1, <3>3 DEF VerdictInv
      <4>2. PICK a \in Knowledge : Good(Context("verdict"), code, a) /\ Means(a)
        BY <1>1, <3>1, <3>3 DEF VerdictInv, Running
      <4> DEFINE c == Context("verdict")
      <4>3. c.view = "verdict" /\ c.name = "unwrap" /\ c.backend = backend
        BY <3>1 DEF Context
      <4> HIDE DEF c
      <4>4. KnowsAll(c, a)
        BY <3>1, <4>2, <4>3, GoodParts DEF Complete, c
      <4>5. Data \subseteq a.opened \cap a.nonempty /\ Needed(c) \subseteq a.holds
        BY <4>3, <4>4 DEF KnowsAll
      <4>6. \A d \in Data : /\ call.token[d].intact /\ call.token[d].key = KeyOf(d)
                            /\ call.token[d].size > TagLength
        BY <3>1, <4>2, <4>5 DEF Means, TokenMeans
      <4>7. \A q \in Needed(c) : Holds(q)
        <5>1. Needed(c) \subseteq TokenConditions
          BY DEF Needed, PrivateConditions, PublicConditions, DeriveConditions, TokenConditions
        <5> QED
          BY <3>1, <4>2, <4>5, <5>1 DEF Means, TokenMeans
      <4>8. call.token.private \in PrivateForm /\ call.token.public \in PublicForm
        BY <1>1, <3>1 DEF VerdictInv, CallTyped, Token
      <4>9. <<call.token.private, call.token.public>> \in KeyPairs(backend)
        <5>1. CASE backend = "windows"
          <6>1. /\ "is_pkcs8" \in Needed(c) /\ "is_ecc" \in Needed(c) /\ "point_known" \in Needed(c)
                /\ "cng_takes_private" \in Needed(c) /\ "is_spki" \in Needed(c)
                /\ "cng_takes_public" \in Needed(c)
            BY <4>3, <5>1 DEF Needed, PrivateConditions, PublicConditions
          <6>2. call.token.private = "good" /\ call.token.public \in {"good", "bad_form"}
            BY <4>7, <4>8, <6>1, HoldsIs DEF PrivateForm, PublicForm
          <6> QED
            BY <5>1, <6>2 DEF KeyPairs
        <5>2. CASE backend # "windows"
          <6>1. /\ "ossl_takes_private" \in Needed(c) /\ "ossl_takes_public" \in Needed(c)
                /\ "same_curve" \in Needed(c)
            BY <4>3, <5>2 DEF Needed, PrivateConditions, PublicConditions, DeriveConditions
          <6>2. \/ /\ call.token.private \in {"good", "sec1", "compressed", "odd_size"}
                   /\ call.token.public \in {"good", "compressed"}
                \/ call.token.private = "other_curve" /\ call.token.public = "other_curve"
            BY <4>7, <4>8, <6>1, HoldsIs DEF PrivateForm, PublicForm
          <6> QED
            BY <5>2, <6>2 DEF KeyPairs
        <5> QED
          BY <5>1, <5>2
      <4>10. Intact(backend, call.token)
        BY <4>6, <4>9 DEF Intact, Data, KeyOf
      <4> QED
        BY <3>3, <4>1, <4>10
    <3> QED
      BY <1>1, <3>2, <3>3 DEF VerdictInv
  <2> QED
    BY <1>1, <2>1 DEF UnwrapsExactlyIntact, VerdictInv
<1> QED
  BY <1>1, Verdicts, PTL

\* ParseToken in both builds, the tests' ValidateSignature and IsValidHclReport
\* accept exactly what they should, for every set of roots and every x5c.
THEOREM VerdictsAreRight == Spec => []AcceptsExactlyTrusted
<1>1. ASSUME VerdictInv PROVE AcceptsExactlyTrusted
  <2>1. ASSUME Over("verify") \/ Over("generate") PROVE IF fault THEN raised ELSE raised = ~Trusted
    <3>1. call.name \in ChainCalls /\ call.name # "none" /\ code = << >>
      BY <2>1 DEF Over, ChainCalls
    <3>2. CASE raised = TRUE
      <4>1. fault \/ Refused
        BY <1>1, <3>1, <3>2 DEF VerdictInv, Unwinding
      <4> QED
        BY <3>1, <3>2, <4>1 DEF Refused
    <3>3. CASE raised = FALSE
      <4>1. fault = FALSE
        BY <1>1, <3>3 DEF VerdictInv
      <4>2. PICK a \in Knowledge : Good(Context("verdict"), code, a) /\ Means(a)
        BY <1>1, <3>1, <3>3 DEF VerdictInv, Running
      <4> DEFINE c == Context("verdict")
      <4>3. c.view = "verdict" /\ c.name = call.name /\ c.last = Len(call.x5c)
        BY <3>1 DEF Context
      <4> HIDE DEF c
      <4>4. KnowsAll(c, a)
        BY <3>1, <4>2, <4>3, GoodParts DEF Complete, c
      <4>5. /\ ChainConditions \ {"has_x5c"} \subseteq a.holds
            /\ call.name = "verify" => "has_x5c" \in a.holds
            /\ 1..Len(call.x5c) \subseteq a.decoded
        BY <3>1, <4>3, <4>4 DEF KnowsAll, ChainCalls, ChainConditions
      <4>6. ChainMeans(a)
        BY <3>1, <4>2 DEF Means
      <4>7. call.x5c # << >>
        BY <1>1, <3>1, <4>5, <4>6 DEF ChainMeans, ChainCalls, VerdictInv, CallTyped
      <4>8. "chain_verifies" \in a.holds /\ "signature_verifies" \in a.holds
        BY <4>5 DEF ChainConditions
      <4>9. PathTrusted /\ call.signature
        BY <4>6, <4>7, <4>8 DEF ChainMeans
      <4>10. \A z \in ToSet(call.x5c) : z.decodes
        <5>1. PICK S : call.x5c \in Seq(S)
          BY <1>1, <3>1 DEF VerdictInv, CallTyped, IsSeq
        <5>2. DOMAIN call.x5c = 1..Len(call.x5c)
          BY <5>1
        <5> QED
          BY <4>5, <4>6, <5>2 DEF ChainMeans, ToSet
      <4>11. Trusted
        BY <4>7, <4>9, <4>10 DEF Trusted
      <4> QED
        BY <3>3, <4>1, <4>11
    <3> QED
      BY <1>1, <3>2, <3>3 DEF VerdictInv
  <2>2. ASSUME Over("report") PROVE IF fault THEN raised ELSE raised = ~ReportValid
    <3>1. call.name = "report" /\ code = << >>
      BY <2>2 DEF Over
    <3>2. CASE raised = TRUE
      <4>1. fault \/ Refused
        BY <1>1, <3>1, <3>2 DEF VerdictInv, Unwinding
      <4> QED
        BY <3>1, <3>2, <4>1 DEF Refused
    <3>3. CASE raised = FALSE
      <4>1. fault = FALSE
        BY <1>1, <3>3 DEF VerdictInv
      <4>2. PICK a \in Knowledge : Good(Context("verdict"), code, a) /\ Means(a)
        BY <1>1, <3>1, <3>3 DEF VerdictInv, Running
      <4> DEFINE c == Context("verdict")
      <4>3. c.view = "verdict" /\ c.name = "report"
        BY <3>1 DEF Context
      <4> HIDE DEF c
      <4>4. KnowsAll(c, a)
        BY <3>1, <4>2, <4>3, GoodParts DEF Complete, c
      <4>5. ReportConditions \subseteq a.holds
        BY <4>3, <4>4 DEF KnowsAll
      <4>6. Holds("type_known") /\ Holds("hash_known") /\ Holds("hash_matches")
        BY <3>1, <4>2, <4>5 DEF Means, ReportConditions
      <4>7. ReportValid
        BY <4>6, HoldsIs DEF ReportValid
      <4> QED
        BY <3>3, <4>1, <4>7
    <3> QED
      BY <1>1, <3>2, <3>3 DEF VerdictInv
  <2> QED
    BY <2>1, <2>2 DEF AcceptsExactlyTrusted, Trusted, PathTrusted, ReportValid
<1> QED
  BY <1>1, Verdicts, PTL
=============================================================================
