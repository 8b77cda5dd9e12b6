--------------------------- MODULE CryptoBackends ---------------------------
(***************************************************************************)
(* azure-protected-vm-secrets: the cryptography behind it, once written    *)
(* against CNG and CryptoAPI (Windows) and once against OpenSSL (Linux).   *)
(* A process makes one call after the other:                               *)
(*   verify    the certificate chain and the signature in ParseToken,      *)
(*   unwrap    decrypt_secret, after the TPM has decrypted the AES key,    *)
(*   protect   EncryptWithPadding of the sample,                           *)
(*   generate  the tests' generateCertChain, used to sign and to verify,   *)
(*   report    HclReportParser::IsValidHclReport.                          *)
(*                                                                         *)
(* A function is the sequence of what it asks of the platform's library; a *)
(* caller splices in the functions it calls.  Every request may fail, and  *)
(* throws then: what follows is skipped up to the end of the next object   *)
(* that was constructed.  Consecutive requests that keep nothing are one   *)
(* Request.  Of what a call allocates, the model counts what C++ does not  *)
(* give back by itself.  Where an object lives longer than the block that  *)
(* makes it (aesWrapper; the certificates of generateCertChain die before) *)
(* the model destroys it with the block: no code runs in between that      *)
(* refers to it.  Memory is not exhausted where the code does not look     *)
(* (Malloc); where it looks, it throws (Allocate).                         *)
(***************************************************************************)
EXTENDS Integers, Sequences, SequencesExt, Bags, FiniteSets

CONSTANTS
  TrustedRoots,  \* GetTrustedRoots, as certificates
  Chains,        \* x5c headers: sequences of certificates, the leaf first
  SystemStores,  \* certificates in the stores of Windows, which are searched too
  Tokens,        \* claims of tokens the service has made, or somebody broke
  SecretSizes,   \* bytes of a secret to protect
  KeySize,       \* bytes of an exported ECDH key
  BlockLength,   \* of AES, in bytes
  TagLength      \* of GCM, in bytes

\* valid: the builds whose library has no objection to its signature, dates and
\* extensions: OpenSSL is told to be strict (X509_V_FLAG_X509_STRICT), Windows
\* applies CERT_CHAIN_POLICY_BASE and its own list of weak algorithms.
\* subject: what ends with the expected suffix, the common name and what
\* ExtractFieldFromDN finds of it ("matches"), only the former ("quoted"), only
\* the latter ("cut") or neither; "none": there is no common name
Builds == {"linux", "windows"}
Certificate ==
  [name : STRING, issuer : STRING, valid : SUBSET Builds, decodes : BOOLEAN,
   subject : {"matches", "quoted", "cut", "other", "none"}]

\* key: the AES key it was encrypted with; intact: it is what was encrypted
Ciphertext == [size : Nat, key : {"transport", "derived", "other"}, intact : BOOLEAN]

\* The forms of the decrypted ECDH key.  "good": PKCS#8, a P-256 key with its
\* point uncompressed, or without a point (should CNG object to that, it is a
\* request that fails); "sec1": the ECPrivateKey that PKCS#8 would wrap, alone;
\* "odd_size": the scalar has fewer or more bytes than a coordinate of the point;
\* "bad_form", "bad_point": the first byte of the point is unknown, the point is
\* not on the curve
PrivateForm ==
  {"good", "sec1", "compressed", "odd_size", "other_curve", "bad_form", "bad_point", "no_ecc", "no_pkcs8"}

\* and of the public one, which is a SubjectPublicKeyInfo
PublicForm == {"good", "compressed", "other_curve", "bad_form", "bad_point", "no_spki"}

Token ==
  [encryptedEcdhPrivate : Ciphertext, encryptedSecret : Ciphertext,
   private : PrivateForm, public : PublicForm]

ASSUME ConstantsAssumption ==
  /\ BlockLength \in Nat \ {0} /\ TagLength \in Nat \ {0} /\ KeySize \in Nat \ {0}
  /\ SecretSizes \subseteq Nat \ {0}
  /\ Tokens \subseteq Token
  /\ \A x5c \in Chains : x5c \in Seq(Certificate)
  /\ IsFiniteSet(TrustedRoots) /\ TrustedRoots \subseteq Certificate
  /\ IsFiniteSet(SystemStores) /\ SystemStores \subseteq Certificate
  /\ \A root \in TrustedRoots : root.issuer = root.name /\ root.decodes

VARIABLES
  backend,  \* "linux" or "windows": what the library was built for
  call,     \* what runs, and on what
  code,     \* what is left of it
  raised,   \* an exception is on its way
  live,     \* bag of what this call has allocated and not released
  members,  \* of them, what a member or a unique_ptr of an object points to
  twice,    \* what was released when it was not live any more
  x509,     \* store: the certificates it holds; chainContext: those the chain
            \* was built from
  aesKey,   \* the key of the AesWrapper
  gcm,      \* its cursor: blocks done, offset, length of the data
  made,     \* the token the sample made last
  fault,    \* history: a request has failed by itself in this call
  process   \* "running" or "terminated"

vars == <<backend, call, code, raised, live, members, twice, x509, aesKey, gcm, made,
          fault, process>>

Windows == backend = "windows"

-----------------------------------------------------------------------------
(* What the code asks of a library *)

Request == [op |-> "request"]
New(r) == [op |-> "new", what |-> r]              \* and store it in a member
Allocate(r) == [op |-> "allocate", what |-> r]    \* only a local refers to it
Malloc(r) == [op |-> "malloc", what |-> r]        \* the same, and nobody looks at the result
Own(r) == [op |-> "own", what |-> r]              \* a member refers to it from here on
Release(r) == [op |-> "release", what |-> r]
Test(condition) == [op |-> "test", condition |-> condition]

\* An object: constructor, what its destructor releases, its scope
Object(constructor, destructor, scope) ==
  constructor \o <<[op |-> "constructed", destructor |-> destructor, scope |-> scope]>>

-----------------------------------------------------------------------------
(* AES-GCM: BcryptAesWrapper.cpp, OsslAesWrapper.cpp *)

hAesHandle == <<"aesWrapper", "hAesHandle">>
hAesKey == <<"aesWrapper", "hAesKey">>
cipherCtx == <<"aesWrapper", "ctx">>

\* The cursor starts; a ciphertext is at least its tag
Measure(data, direction) == [op |-> "measure", data |-> data, direction |-> direction]
ChainedCalls == [op |-> "chained"]
LastCall(data, direction) == [op |-> "last", data |-> data, direction |-> direction]

GcmWrapper(scope) == Object(<<New(hAesHandle), Request>>, {hAesHandle, hAesKey}, scope)

OsslGcmWrapper(scope) == Object(<<New(cipherCtx)>>, {cipherCtx}, scope)

AesWrapper(scope) == IF Windows THEN GcmWrapper(scope) ELSE OsslGcmWrapper(scope)

Assign(key) == [op |-> "assign", key |-> key]

\* Mutant of GcmWrapper_SetKey: the old key is destroyed, its member kept
SetKeyDestroyingOld(key) ==
  (IF key = "derived" THEN <<Release(hAesKey)>> ELSE << >>) \o <<New(hAesKey), Assign(key)>>

\* A second key takes the place of the first, which nobody can destroy then
GcmWrapper_SetKey(key) == <<New(hAesKey), Assign(key)>>

OsslGcmWrapper_SetKey(key) == <<Assign(key)>>

SetKey(key) == IF Windows THEN GcmWrapper_SetKey(key) ELSE OsslGcmWrapper_SetKey(key)

GcmChainingInfo == Request
SetChainingInfo == IF Windows THEN <<GcmChainingInfo>> ELSE << >>

GcmWrapper_Encrypt(data) ==
  <<Measure(data, "encrypt"), Request, ChainedCalls, LastCall(data, "encrypt")>>
OsslGcmWrapper_Encrypt(data) ==
  <<Measure(data, "encrypt"), Request, LastCall(data, "encrypt")>>
Encrypt(data) == IF Windows THEN GcmWrapper_Encrypt(data) ELSE OsslGcmWrapper_Encrypt(data)

GcmWrapper_Decrypt(data) ==
  <<Measure(data, "decrypt"), Request, ChainedCalls, LastCall(data, "decrypt")>>
OsslGcmWrapper_Decrypt(data) ==
  <<Measure(data, "decrypt"), Request, LastCall(data, "decrypt")>>
Decrypt(data) == IF Windows THEN GcmWrapper_Decrypt(data) ELSE OsslGcmWrapper_Decrypt(data)

-----------------------------------------------------------------------------
(* ECDH: BcryptECDiffieHellman.cpp, OsslECDiffieHellman.cpp *)

\* o is the object, ecdhPrivate or ecdhPublic
hEcHandle(o) == <<o, "hEcHandle">>
hEccKeyHandle(o) == <<o, "hEccKeyHandle">>
hSharedSecret(o) == <<o, "hSharedSecret">>
Buffer(function, name) == <<function, name>>

\* Mutant of BcryptECDiffieHellman: the destructor forgets the key
BcryptEcdhKeepingKey(o, scope) ==
  Object(<<New(hEcHandle(o))>>, {hSharedSecret(o), hEcHandle(o)}, scope)
BcryptECDiffieHellman(o, scope) ==
  Object(<<New(hEcHandle(o))>>, {hSharedSecret(o), hEccKeyHandle(o), hEcHandle(o)}, scope)

\* Every member is a unique_ptr
OsslECDiffieHellman(o, scope) == Object(<<Request>>, {}, scope)

ECDiffieHellman(o, scope) ==
  IF Windows THEN BcryptECDiffieHellman(o, scope) ELSE OsslECDiffieHellman(o, scope)

Bcrypt_GenerateKeyPair(o) == <<New(hEccKeyHandle(o)), Request>>
Ossl_GenerateKeyPair(o) == <<Request>>
GenerateKeyPair(o) == IF Windows THEN Bcrypt_GenerateKeyPair(o) ELSE Ossl_GenerateKeyPair(o)

\* What CryptDecodeObjectEx allocates is freed once the key is copied to pekb;
\* pekb, the key in the clear, is not.  A scalar that is too short is only
\* logged: the copy of the point then starts at an offset that has wrapped.
CopyKey == [op |-> "copy"]
Bcrypt_ImportPkcs8PrivateKey(o) ==
  LET buffer(name) == Buffer("ImportPkcs8PrivateKey", name) IN
  <<Test("is_pkcs8"), Allocate(buffer("privateKeyInfo")),
    Test("is_ecc"), Allocate(buffer("eccPrivateInfo")),
    Test("point_known"), Allocate(buffer("pekb")), CopyKey,
    Release(buffer("privateKeyInfo")), Release(buffer("eccPrivateInfo")),
    Test("cng_takes_private"), New(hEccKeyHandle(o))>>

\* d2i_PrivateKey reads PKCS#8 and, without it, an ECPrivateKey
Ossl_ImportPkcs8PrivateKey(o) == <<Test("ossl_takes_private")>>

ImportPkcs8PrivateKey(o) ==
  IF Windows THEN Bcrypt_ImportPkcs8PrivateKey(o) ELSE Ossl_ImportPkcs8PrivateKey(o)

\* The first byte of the point is logged if it is unknown, and not copied: CNG
\* sees the coordinates alone
Bcrypt_ImportSubjectPublicKeyInfo(o) ==
  LET buffer(name) == Buffer("ImportSubjectPublicKeyInfo", name) IN
  <<Test("is_spki"), Allocate(buffer("PublicKeyInfo")), Allocate(buffer("pekb")),
    Release(buffer("PublicKeyInfo")), Test("cng_takes_public"), New(hEccKeyHandle(o))>>

\* d2i_PUBKEY looks at the first byte
Ossl_ImportSubjectPublicKeyInfo(o) == <<Test("ossl_takes_public")>>

ImportSubjectPublicKeyInfo(o) ==
  IF Windows THEN Bcrypt_ImportSubjectPublicKeyInfo(o) ELSE Ossl_ImportSubjectPublicKeyInfo(o)

\* The form of a key that is handed to the caller, who puts it into the token
Write(field, form) == [op |-> "write", field |-> field, form |-> form]

\* No buffer is given back, three of them hold the private key.  The size of
\* the key usage is never asked for: cbKeyUsage is 0.
Bcrypt_ExportPkcs8PrivateKey ==
  LET buffer(name) == Buffer("ExportPkcs8PrivateKey", name) IN
  <<Request, Malloc(buffer("privateKeyBlob")), Request, Malloc(buffer("pbCurveParameters")),
    Request, Malloc(buffer("PublicKey")), Malloc(buffer("CryptBitBlob")),
    Request, Allocate(buffer("privateKeyInfo")), Request, Allocate(buffer("derPrivateBytes")),
    Write("private", "good")>>

\* i2d_PrivateKey writes an ECPrivateKey, not PKCS#8
Ossl_ExportPkcs8PrivateKey == <<Request, Write("private", "sec1")>>

ExportPkcs8PrivateKey ==
  IF Windows THEN Bcrypt_ExportPkcs8PrivateKey ELSE Ossl_ExportPkcs8PrivateKey

Bcrypt_ExportSubjectPublicKeyInfo ==
  LET buffer(name) == Buffer("ExportSubjectPublicKeyInfo", name) IN
  <<Request, Allocate(buffer("publicKeyBlob")), Request, Malloc(buffer("CryptBitBlob")),
    Request, Allocate(buffer("pbCurveParameters")), Request, Allocate(buffer("PublicKey")),
    Allocate(buffer("Parameters")), Allocate(buffer("pszObjId")), Request,
    Allocate(buffer("derPublicBytes")), Write("public", "good")>>

Ossl_ExportSubjectPublicKeyInfo == <<Request, Write("public", "good")>>

ExportSubjectPublicKeyInfo ==
  IF Windows THEN Bcrypt_ExportSubjectPublicKeyInfo ELSE Ossl_ExportSubjectPublicKeyInfo

\* The handle stays with ecdhPrivate, and is handed on
Bcrypt_DeriveSecret == <<New(hSharedSecret("ecdhPrivate"))>>
Ossl_DeriveSecret == <<Request, Test("same_curve")>>
DeriveSecret == IF Windows THEN Bcrypt_DeriveSecret ELSE Ossl_DeriveSecret

-----------------------------------------------------------------------------
(* Hashes and HKDF: BcryptHKDF.cpp, OsslHKDF.cpp *)

hAlg == <<"hkdf", "hAlg">>
pctx == <<"hkdf", "pctx">>
hHash == Buffer("Expand", "hHash")
shaAlg == Buffer("BcryptSha", "hAlg")
mdCtx == Buffer("OsslSha", "ctx")

\* A provider that cannot be opened shows when it is used, and is closed
BcryptSha == Object(<<New(shaAlg)>>, {shaAlg}, <<Request>>)

\* The context is not freed
OsslSha == <<Allocate(mdCtx), Request>>

Bcrypt_Extract == <<Request>>

\* A key of 32 bytes takes one round
Bcrypt_Expand == <<Allocate(hHash), Request, Release(hHash)>>

\* The destructor destroys the secret, which is the one of ecdhPrivate
BcryptHKDF(scope) == Object(<<New(hAlg)>>, {hSharedSecret("ecdhPrivate"), hAlg}, scope)

\* Frees its context before it throws
OsslHKDF(scope) == Object(OsslSha \o <<Request, New(pctx)>>, {pctx}, scope)

HKDF(scope) == IF Windows THEN BcryptHKDF(scope) ELSE OsslHKDF(scope)

DeriveKey == IF Windows THEN Bcrypt_Extract \o Bcrypt_Expand ELSE <<Request>>

-----------------------------------------------------------------------------
(* Certificates: WincryptX509.cpp, OsslX509.cpp *)

hStore == <<"x509", "hStore">>
leafPrivateKey == <<"x509", "leafPrivateKey">>
rootContext == <<"x509", "rootCertContext">>
leafContext == <<"x509", "pLeafCertContext">>
chainContext == <<"x509", "chainContext">>
store == <<"x509", "store">>
intermediate_certs == <<"x509", "intermediate_certs">>
leaf_cert == <<"x509", "leaf_cert">>
intermediate(i) == <<"intermediate", i>>
hKey == Buffer("VerifySignature", "hKey")
hHashAlg == Buffer("VerifySignature", "hHashAlg")

\* What the tests generate; the places a certificate may have in an x5c header
TestCert(name, issuer, subject) ==
  [name |-> name, issuer |-> issuer, valid |-> Builds, decodes |-> TRUE, subject |-> subject]
TestRoot == TestCert("Test Root CA", "Test Root CA", "other")
TestChain == <<TestCert("eastus", "Test Intermediate CA", "matches"),
               TestCert("Test Intermediate CA", "Test Root CA", "other")>>
Positions == UNION {DOMAIN x5c : x5c \in Chains \cup {TestChain}}

LoadCertificate(i) == [op |-> "load", index |-> i]
AddToStore(i) == [op |-> "add", index |-> i]

\* n roots.  The destructor leaves every certificate context.
WincryptX509(n, scope) ==
  Object(<<New(hStore)>> \o FlattenSeq([i \in 1..n |-> <<Allocate(rootContext), Request>>]),
         {leafPrivateKey, hStore}, scope)

OsslX509(n, scope) ==
  Object(<<New(intermediate_certs), New(store), Request>>,
         {store, intermediate_certs, leaf_cert} \cup {intermediate(i) : i \in Positions}, scope)

X509(n, scope) == IF Windows THEN WincryptX509(n, scope) ELSE OsslX509(n, scope)

Wincrypt_LoadIntermediateCertificate(i) ==
  <<LoadCertificate(i), Allocate(intermediate(i)), Request, AddToStore(i)>>
Ossl_LoadIntermediateCertificate(i) ==
  <<LoadCertificate(i), Allocate(intermediate(i)), Request, Own(intermediate(i)), AddToStore(i)>>
LoadIntermediateCertificate(i) ==
  IF Windows THEN Wincrypt_LoadIntermediateCertificate(i) ELSE Ossl_LoadIntermediateCertificate(i)

\* Windows builds the chain here, Linux when it is verified
BuildChain == [op |-> "build_chain"]
Wincrypt_LoadLeafCertificate ==
  <<LoadCertificate(1), Allocate(leafContext), Allocate(chainContext), BuildChain>>
Ossl_LoadLeafCertificate == <<LoadCertificate(1), New(leaf_cert)>>
LoadLeafCertificate == IF Windows THEN Wincrypt_LoadLeafCertificate ELSE Ossl_LoadLeafCertificate

VerifyCertChain == <<Request, Test("chain_verifies")>>

\* hKey is not destroyed when the hash or the signature is not as it should be.
\* A public key that is not imported leaves hKey undefined: the code throws
\* here or where it is used.
Wincrypt_VerifySignature ==
  <<Allocate(hKey)>> \o
  Object(<<New(hHashAlg)>>, {hHashAlg}, <<Request, Test("signature_verifies")>>) \o
  <<Release(hKey)>>
Ossl_VerifySignature == <<Request, Test("signature_verifies")>>
VerifySignature == IF Windows THEN Wincrypt_VerifySignature ELSE Ossl_VerifySignature

-----------------------------------------------------------------------------
(* The tests' own chain: root, intermediate, leaf *)

hProv(c) == <<c, "hProv">>
key(c) == <<c, "hKey">>
cert(c) == <<c, "cert">>
container(c) == <<c, "containerName">>
pbEncoded(c) == <<c, "pbEncoded">>
hRsaAlg == Buffer("convertToBcryptKey", "hRsaAlg")
pkeyCtx == Buffer("generateKey", "ctx")

createKeyPair(c) == <<New(container(c)), New(hProv(c)), New(key(c))>>

\* The destructor deletes the key container too
GeneratedCert(c, scope) == Object(<< >>, {cert(c), key(c), hProv(c), container(c)}, scope)

createRootCACert(c) ==
  createKeyPair(c) \o <<Request>> \o
  Object(<<New(pbEncoded(c))>>, {pbEncoded(c)}, <<New(cert(c))>>)

createSignedCert(c) ==
  createKeyPair(c) \o <<Request>> \o
  Object(<<New(pbEncoded(c))>>, {pbEncoded(c)}, <<Request>>) \o <<New(cert(c))>>

convertToBcryptKey ==
  <<Request>> \o Object(<<New(hRsaAlg)>>, {hRsaAlg}, <<Allocate(leafPrivateKey)>>)

SetLeafKey == Own(leafPrivateKey)

\* leafPrivateKey is nobody's until SetLeafKey
Wincrypt_generateCertChain(scope) ==
  GeneratedCert("rootCA", createRootCACert("rootCA") \o
  GeneratedCert("intermediateCA", createSignedCert("intermediateCA") \o
  GeneratedCert("leafCert", createSignedCert("leafCert") \o convertToBcryptKey \o
  X509(1, LoadIntermediateCertificate(2) \o LoadLeafCertificate \o <<SetLeafKey>> \o scope))))

\* ctx is not freed when it cannot be initialized
generateKey == <<Allocate(pkeyCtx), Request, Release(pkeyCtx), Request>>
generateCSR == Request
addExtensions == Request
signCertificate == <<Request, addExtensions, Request>>

Ossl_generateCertChain(scope) ==
  generateKey \o <<generateCSR>> \o signCertificate \o
  generateKey \o <<generateCSR>> \o signCertificate \o
  generateKey \o <<generateCSR>> \o signCertificate \o
  X509(1, LoadIntermediateCertificate(2) \o LoadLeafCertificate \o scope)

generateCertChain(scope) ==
  IF Windows THEN Wincrypt_generateCertChain(scope) ELSE Ossl_generateCertChain(scope)

Wincrypt_SignData == Object(<<New(hHashAlg)>>, {hHashAlg}, <<Request>>) \o <<Request>>
Ossl_SignData == <<Request>>
SignData == IF Windows THEN Wincrypt_SignData ELSE Ossl_SignData

-----------------------------------------------------------------------------
(* The calls *)

\* Mutant of ParseToken: the leaf is loaded as x5c lists it, first
ParseTokenInOrder(x5c) ==
  X509(Cardinality(TrustedRoots),
    <<Test("has_x5c")>> \o LoadLeafCertificate \o
    FlattenSeq([i \in 1..Len(x5c) - 1 |-> LoadIntermediateCertificate(i + 1)]) \o
    VerifyCertChain \o VerifySignature)

ParseToken(x5c) ==
  X509(Cardinality(TrustedRoots),
    <<Test("has_x5c")>> \o
    FlattenSeq([i \in 1..Len(x5c) - 1 |-> LoadIntermediateCertificate(i + 1)]) \o
    LoadLeafCertificate \o VerifyCertChain \o VerifySignature)

\* Mutant of decrypt_secret: the derived key is never set
decrypt_secret_OneKey ==
  <<Request>> \o
  AesWrapper(SetKey("transport") \o SetChainingInfo \o Decrypt("encryptedEcdhPrivate") \o
    <<Test("not_empty")>> \o
    ECDiffieHellman("ecdhPrivate", ECDiffieHellman("ecdhPublic",
      ImportPkcs8PrivateKey("ecdhPrivate") \o ImportSubjectPublicKeyInfo("ecdhPublic") \o
      DeriveSecret \o
      HKDF(DeriveKey \o SetChainingInfo \o Decrypt("encryptedSecret") \o <<Test("not_empty")>>))))

\* The first Request is Tpm::RsaDecrypt
decrypt_secret ==
  <<Request>> \o
  AesWrapper(SetKey("transport") \o SetChainingInfo \o Decrypt("encryptedEcdhPrivate") \o
    <<Test("not_empty")>> \o
    ECDiffieHellman("ecdhPrivate", ECDiffieHellman("ecdhPublic",
      ImportPkcs8PrivateKey("ecdhPrivate") \o ImportSubjectPublicKeyInfo("ecdhPublic") \o
      DeriveSecret \o
      HKDF(DeriveKey \o SetKey("derived") \o SetChainingInfo \o Decrypt("encryptedSecret") \o
           <<Test("not_empty")>>))))

\* The last Request is Tss2RsaEncrypt.  In the code aesWrapper is destroyed after
\* the other three; none of them needs another at that point.
EncryptWithPadding ==
  ECDiffieHellman("ecdhPrivate", ECDiffieHellman("ecdhPublic",
    GenerateKeyPair("ecdhPrivate") \o GenerateKeyPair("ecdhPublic") \o
    ExportSubjectPublicKeyInfo \o ExportPkcs8PrivateKey \o DeriveSecret \o
    HKDF(DeriveKey \o
      AesWrapper(SetKey("derived") \o SetChainingInfo \o Encrypt("encryptedSecret") \o
                 SetKey("transport") \o SetChainingInfo \o Encrypt("encryptedEcdhPrivate") \o
                 <<Request>>))))

\* The test that signs with the generated chain
ValidateSignature == generateCertChain(VerifyCertChain \o SignData \o VerifySignature)

IsValidHclReport ==
  <<Test("type_known"), Test("hash_known")>> \o
  (IF Windows THEN BcryptSha ELSE OsslSha) \o <<Test("hash_matches")>>

-----------------------------------------------------------------------------
(* Running them *)

NoCall == [name |-> "none"]

At(op) == process = "running" /\ code # << >> /\ Head(code).op = op
Unwind(rest) ==
  LET ends == {i \in DOMAIN rest : rest[i].op = "end"}
  IN  IF ends = {} THEN << >>
      ELSE SubSeq(rest, CHOOSE i \in ends : \A j \in ends : i <= j, Len(rest))

Proceed(next) == code' = next \o Tail(code) /\ UNCHANGED raised
Throw == code' = Unwind(Tail(code)) /\ raised' = TRUE
Faults == Throw /\ fault' = TRUE
Works == Proceed(<< >>) /\ UNCHANGED fault

DoRequest ==
  /\ At("request")
  /\ Works \/ Faults
  /\ UNCHANGED <<backend, call, live, members, twice, x509, aesKey, gcm, made, process>>

DoNew ==
  /\ \/ At("new") /\ members' = members \cup {Head(code).what}
     \/ (At("allocate") \/ At("malloc")) /\ UNCHANGED members
  /\ Works
  /\ live' = live (+) SetToBag({Head(code).what})
  /\ UNCHANGED <<backend, call, twice, x509, aesKey, gcm, made, process>>

NewFails ==
  /\ At("new") \/ At("allocate")
  /\ Faults
  /\ UNCHANGED <<backend, call, live, members, twice, x509, aesKey, gcm, made, process>>

DoOwn ==
  /\ At("own")
  /\ Works
  /\ members' = members \cup {Head(code).what}
  /\ UNCHANGED <<backend, call, live, twice, x509, aesKey, gcm, made, process>>

DoRelease ==
  /\ At("release")
  /\ Works
  /\ live' = live (-) SetToBag({Head(code).what})
  /\ UNCHANGED <<backend, call, members, twice, x509, aesKey, gcm, made, process>>

DoConstructed ==
  /\ At("constructed")
  /\ Proceed(Head(code).scope \o <<[op |-> "end", destructor |-> Head(code).destructor]>>)
  /\ UNCHANGED <<backend, call, live, members, twice, x509, aesKey, gcm, made, fault, process>>

\* A destructor releases what its members point to; no member is reset
DoEnd ==
  /\ At("end")
  /\ LET released == Head(code).destructor \cap members IN
     /\ live' = live (-) SetToBag(released)
     /\ twice' = twice \cup {r \in released : ~BagIn(r, live)}
  /\ code' = (IF raised THEN Unwind(Tail(code)) ELSE Tail(code)) /\ UNCHANGED raised
  /\ UNCHANGED <<backend, call, members, x509, aesKey, gcm, made, fault, process>>

\* A copy that runs outside of pekb, if it is survived, changes nothing of what
\* the model knows
DoCopy ==
  /\ At("copy")
  /\ Works
  /\ UNCHANGED <<backend, call, live, members, twice, x509, aesKey, gcm, made, process>>

\* ~GcmWrapper throws when CNG does not take back its handles; a copy outside of
\* pekb ends four gigabytes away in most builds, where there may be no memory
Terminate ==
  /\ \/ At("end") /\ hAesHandle \in Head(code).destructor
     \/ At("copy") /\ call.token.private = "odd_size"
  /\ process' = "terminated"
  /\ UNCHANGED <<backend, call, code, raised, live, members, twice, x509, aesKey, gcm, made, fault>>

DoAssign ==
  /\ At("assign")
  /\ Works
  /\ aesKey' = Head(code).key
  /\ UNCHANGED <<backend, call, live, members, twice, x509, gcm, made, process>>

\* Encrypt measures what is to be encrypted, Decrypt takes the tag off
PlainSize(data) == IF data = "encryptedSecret" THEN call.size ELSE KeySize
Start(length) == [done |-> 0, offset |-> 0, length |-> length]

DoMeasure ==
  /\ At("measure")
  /\ LET length == IF Head(code).direction = "encrypt" THEN PlainSize(Head(code).data)
                   ELSE call.token[Head(code).data].size - TagLength
     IN  \/ length >= 0 /\ gcm' = Start(length) /\ Proceed(<< >>)
         \/ length < 0 /\ Throw /\ UNCHANGED gcm
  /\ UNCHANGED <<backend, call, live, members, twice, x509, aesKey, made, fault, process>>

numBlocks(length) == (length + BlockLength - 1) \div BlockLength

\* Mutant of MoreChained: one call too many
MoreChainedByOne(i, length) == i < numBlocks(length)
MoreChained(i, length) == i < numBlocks(length) - 1

\* The calls with BCRYPT_AUTH_MODE_CHAIN_CALLS_FLAG, a block each
DoChained ==
  /\ At("chained")
  /\ IF MoreChained(gcm.done, gcm.length)
     THEN \/ /\ gcm' = [gcm EXCEPT !.done = @ + 1, !.offset = @ + BlockLength]
             /\ UNCHANGED <<code, raised, fault>>
          \/ Faults /\ UNCHANGED gcm
     ELSE Works /\ UNCHANGED gcm
  /\ UNCHANGED <<backend, call, live, members, twice, x509, aesKey, made, process>>

\* What is left, and the tag: made here, or compared here with the one at the end
Opens(ciphertext) == ciphertext.intact /\ ciphertext.key = aesKey /\ gcm.offset <= gcm.length

DoLastDecrypt ==
  /\ At("last") /\ Head(code).direction = "decrypt"
  /\ LET opens == Opens(call.token[Head(code).data]) IN
     \/ opens /\ Works
     \/ ~opens /\ Throw /\ UNCHANGED fault
     \/ Faults
  /\ UNCHANGED <<backend, call, live, members, twice, x509, aesKey, gcm, made, process>>

DoLastEncrypt ==
  /\ At("last") /\ Head(code).direction = "encrypt"
  /\ \/ /\ call' = [call EXCEPT !.token[Head(code).data] =
                      [size |-> gcm.length + TagLength, key |-> aesKey, intact |-> TRUE]]
        /\ Works
     \/ Faults /\ UNCHANGED call
  /\ UNCHANGED <<backend, live, members, twice, x509, aesKey, gcm, made, process>>

DoWrite ==
  /\ At("write")
  /\ Works
  /\ call' = [call EXCEPT !.token[Head(code).field] = Head(code).form]
  /\ UNCHANGED <<backend, live, members, twice, x509, aesKey, gcm, made, process>>

DoLoad ==
  /\ At("load")
  /\ LET c == call.x5c[Head(code).index] IN
     \/ c.decodes /\ Proceed(<< >>)
     \/ ~c.decodes /\ Throw
  /\ UNCHANGED <<backend, call, live, members, twice, x509, aesKey, gcm, made, fault, process>>

DoAdd ==
  /\ At("add")
  /\ Works
  /\ x509' = [x509 EXCEPT !.store = @ \cup {call.x5c[Head(code).index]}]
  /\ UNCHANGED <<backend, call, live, members, twice, aesKey, gcm, made, process>>

\* The default chain engine searches the stores of Windows besides hStore
DoBuildChain ==
  /\ At("build_chain")
  /\ Works
  /\ x509' = [x509 EXCEPT !.chainContext = @ \cup x509.store \cup SystemStores]
  /\ UNCHANGED <<backend, call, live, members, twice, aesKey, gcm, made, process>>

\* Chain building, external: from a certificate to its issuer as long as the
\* issuer is known
Issuer(c, known) ==
  LET issuers == {i \in known : i.name = c.issuer}
  IN  IF issuers = {} THEN c ELSE CHOOSE i \in issuers : TRUE
Path(leaf, known) ==
  LET up[n \in 0..Cardinality(known)] == IF n = 0 THEN leaf ELSE Issuer(up[n - 1], known)
  IN  up
Top(path) == path[Cardinality(DOMAIN path) - 1]

\* A complete chain, to a self-signed certificate that is one of the roots
VerifyChainTerminatesAtRoot(path) == Top(path).issuer = Top(path).name /\ Top(path) \in x509.roots

\* CertNameToStr puts quotes around a name with a comma, a plus, a semicolon and
\* the like in it, so that it ends with a quote; ExtractFieldFromDN stops at the
\* first comma, quoted or not, behind the first "CN="
ExtractFieldFromDN(subject) ==
  CASE subject = "quoted" -> "other" [] subject = "cut" -> "matches" [] OTHER -> subject
Wincrypt_GetCommonName(c) == ExtractFieldFromDN(c.subject)
Ossl_GetCommonName(c) ==
  CASE c.subject = "quoted" -> "matches" [] c.subject = "cut" -> "other" [] OTHER -> c.subject
GetCommonName(c) == IF Windows THEN Wincrypt_GetCommonName(c) ELSE Ossl_GetCommonName(c)
VerifySubjectSuffix(c) == GetCommonName(c) = "matches"

\* Windows tells the root from the chain it built, Linux from the one it builds
ChainVerifies ==
  LET leaf == call.x5c[1]
      path == Path(leaf, IF Windows THEN x509.chainContext ELSE x509.store)
  IN  /\ \A n \in DOMAIN path : backend \in path[n].valid
      /\ VerifyChainTerminatesAtRoot(path)
      /\ VerifySubjectSuffix(leaf)

Holds(condition) ==
  CASE condition = "has_x5c" -> call.x5c # << >>
    [] condition = "chain_verifies" -> ChainVerifies
    [] condition = "signature_verifies" -> call.signature
    [] condition = "not_empty" -> gcm.length > 0
    [] condition = "is_pkcs8" -> call.token.private \notin {"no_pkcs8", "sec1"}
    [] condition = "is_ecc" -> call.token.private # "no_ecc"
    [] condition = "point_known" -> call.token.private \notin {"bad_form", "compressed"}
    [] condition = "cng_takes_private" -> call.token.private \notin {"odd_size", "other_curve", "bad_point"}
    [] condition = "ossl_takes_private" ->
         call.token.private \notin {"no_pkcs8", "no_ecc", "bad_form", "bad_point"}
    [] condition = "is_spki" -> call.token.public # "no_spki"
    [] condition = "cng_takes_public" -> call.token.public \notin {"compressed", "other_curve", "bad_point"}
    [] condition = "ossl_takes_public" -> call.token.public \notin {"no_spki", "bad_form", "bad_point"}
    [] condition = "same_curve" -> (call.token.private = "other_curve") = (call.token.public = "other_curve")
    [] condition = "type_known" -> call.report.type # "other"
    [] condition = "hash_known" -> call.report.hash # "other"
    [] condition = "hash_matches" -> call.report.matches

DoTest ==
  /\ At("test")
  /\ LET holds == Holds(Head(code).condition) IN
     \/ holds /\ Proceed(<< >>)
     \/ ~holds /\ Throw
  /\ UNCHANGED <<backend, call, live, members, twice, x509, aesKey, gcm, made, fault, process>>

-----------------------------------------------------------------------------
(* The process *)

NoToken ==
  LET none == [size |-> 0, key |-> "other", intact |-> FALSE]
  IN  [encryptedEcdhPrivate |-> none, encryptedSecret |-> none,
       private |-> "no_pkcs8", public |-> "no_spki"]

Idle == process = "running" /\ call.name = "none"

Begin(c, script, roots) ==
  /\ Idle
  /\ call' = c
  /\ code' = script
  /\ raised' = FALSE /\ fault' = FALSE
  /\ live' = EmptyBag /\ members' = {} /\ twice' = {}
  /\ x509' = [roots |-> roots, store |-> roots, chainContext |-> {}]
  /\ aesKey' = "none" /\ gcm' = Start(0)
  /\ UNCHANGED <<backend, made, process>>

Verify == \E x5c \in Chains, good \in BOOLEAN :
  Begin([name |-> "verify", x5c |-> x5c, signature |-> good], ParseToken(x5c), TrustedRoots)

Unwrap == \E token \in Tokens \cup made :
  Begin([name |-> "unwrap", token |-> token], decrypt_secret, {})

Protect == \E size \in SecretSizes :
  Begin([name |-> "protect", size |-> size, token |-> NoToken], EncryptWithPadding, {})

Generate ==
  Begin([name |-> "generate", x5c |-> TestChain, signature |-> TRUE], ValidateSignature, {TestRoot})

Report == \E type \in {"tdx", "snp", "other"}, hash \in {"sha256", "sha384", "sha512", "other"},
             matches \in BOOLEAN :
  Begin([name |-> "report", report |-> [type |-> type, hash |-> hash, matches |-> matches]],
        IsValidHclReport, {})

\* decrypt_secret and IsValidHclReport catch everything, and ParseToken's
\* callers do: the process goes on
Return ==
  /\ process = "running" /\ call.name # "none" /\ code = << >>
  /\ call' = NoCall
  /\ made' = IF call.name = "protect" /\ ~raised THEN {call.token} ELSE made
  /\ UNCHANGED <<backend, code, raised, live, members, twice, x509, aesKey, gcm, fault, process>>

Terminated == process = "terminated" /\ UNCHANGED vars

Init ==
  /\ backend \in {"linux", "windows"}
  /\ call = NoCall /\ code = << >> /\ raised = FALSE
  /\ live = EmptyBag /\ members = {} /\ twice = {}
  /\ x509 = [roots |-> {}, store |-> {}, chainContext |-> {}]
  /\ aesKey = "none" /\ gcm = Start(0) /\ made = {} /\ fault = FALSE
  /\ process = "running"

Next ==
  \/ DoRequest \/ DoNew \/ NewFails \/ DoOwn \/ DoRelease \/ DoConstructed \/ DoEnd \/ Terminate
  \/ DoCopy \/ DoAssign \/ DoMeasure \/ DoChained \/ DoLastDecrypt \/ DoLastEncrypt \/ DoWrite
  \/ DoLoad \/ DoAdd \/ DoBuildChain \/ DoTest
  \/ Verify \/ Unwrap \/ Protect \/ Generate \/ Report \/ Return \/ Terminated

Spec == Init /\ [][Next]_vars

-----------------------------------------------------------------------------
(* What makes the component correct *)

Copies(r) == IF BagIn(r, live) THEN live[r] ELSE 0
Over(name) == process = "running" /\ call.name = name /\ code = << >>

\* The state is well typed.  In particular the cursor of AES-GCM stays within
\* the data, and nothing but the key of an AesWrapper, a root certificate and the
\* context of a hash is ever held more than once.
TypeOK ==
  /\ backend \in {"linux", "windows"} /\ process \in {"running", "terminated"}
  /\ raised \in BOOLEAN /\ fault \in BOOLEAN
  /\ IsABag(live)
  /\ \A r \in BagToSet(live) \ {hAesKey, rootContext, mdCtx} : live[r] = 1
  /\ Copies(hAesKey) <= 2 /\ Copies(rootContext) <= Cardinality(TrustedRoots) + 1
  /\ aesKey \in {"none", "transport", "derived"}
  /\ gcm.offset \in 0..gcm.length /\ gcm.done \in 0..numBlocks(gcm.length)
  /\ made \subseteq Token

\* What a build can find when it builds a chain: the certificates of x5c behind
\* the leaf and the roots, Windows also what is in its stores
Findable == ToSet(Tail(call.x5c)) \cup x509.roots \cup (IF Windows THEN SystemStores ELSE {})

\* The subjects a build accepts
Subjects(build) == {"matches", IF build = "windows" THEN "cut" ELSE "quoted"}

\* Each build of the library accepts exactly the tokens (ParseToken) whose
\* certificates all decode, whose leaf has a path to one of the roots through
\* what the build can find, without a certificate that its library objects to,
\* and whose subject and signature are right.  So neither when the chain is built
\* (Windows builds it while it loads, Linux when it verifies) nor the order of x5c
\* behind the leaf makes a difference; the two builds differ in what their
\* libraries object to, in the stores of Windows, and in how they read a name
\* that has to be quoted, in nothing else.  A report is valid (IsValidHclReport)
\* when it has a known type and a known hash, and the hash is right.
AcceptsExactlyTrusted ==
  /\ Over("verify") \/ Over("generate") =>
       LET path == Path(call.x5c[1], Findable)
           trusted ==
             /\ call.x5c # << >> /\ \A c \in ToSet(call.x5c) : c.decodes
             /\ \A n \in DOMAIN path : backend \in path[n].valid
             /\ Top(path) \in x509.roots
             /\ call.x5c[1].subject \in Subjects(backend)
             /\ call.signature
       IN  IF fault THEN raised ELSE raised = ~trusted
  /\ Over("report") =>
       LET valid == /\ call.report.type # "other" /\ call.report.hash # "other"
                    /\ call.report.matches
       IN  IF fault THEN raised ELSE raised = ~valid

\* The pairs of keys a build takes.  Only Linux takes a key without PKCS#8, with a
\* compressed point, with a scalar of any size or, if both are, on another curve; only
\* Windows takes a public key whose point begins with an unknown byte.
KeyPairs(build) ==
  IF build = "windows" THEN {"good"} \X {"good", "bad_form"}
  ELSE ({"good", "sec1", "compressed", "odd_size"} \X {"good", "compressed"})
       \cup {<<"other_curve", "other_curve">>}

\* A token with a secret in it that was encrypted as it should be, and with keys
\* that the build takes
Intact(build, token) ==
  /\ <<token.private, token.public>> \in KeyPairs(build)
  /\ token.encryptedEcdhPrivate.intact /\ token.encryptedEcdhPrivate.key = "transport"
  /\ token.encryptedEcdhPrivate.size > TagLength
  /\ token.encryptedSecret.intact /\ token.encryptedSecret.key = "derived"
  /\ token.encryptedSecret.size > TagLength

\* decrypt_secret succeeds on intact tokens, whatever the length of the secret,
\* and on no other; a token that EncryptWithPadding has made is intact for the
\* build that made it, though Linux writes its private key without PKCS#8 and
\* Windows could not read it.
UnwrapsExactlyIntact ==
  /\ Over("unwrap") => IF fault THEN raised ELSE raised = ~Intact(backend, call.token)
  /\ \A token \in made : Intact(backend, token)

\* Nothing is released twice, but for the ECDH secret on Windows: BcryptHKDF
\* destroys it, and then ecdhPrivate does, in every call that constructs a
\* BcryptHKDF.
OnlySharedSecretTwice ==
  /\ twice \subseteq (IF Windows THEN {hSharedSecret("ecdhPrivate")} ELSE {})
  /\ Windows /\ (Over("unwrap") \/ Over("protect")) =>
       (twice # {}) = (hAlg \in members)

\* What the code never releases
NeverReleased ==
  CASE call.name = "report" -> IF Windows THEN {} ELSE {mdCtx}
    [] call.name \in {"verify", "generate"} ->
         IF Windows
         THEN {rootContext, leafContext, chainContext} \cup {intermediate(i) : i \in 2..Len(call.x5c)}
         ELSE {}
    [] call.name = "unwrap" ->
         IF Windows
         THEN {hAesKey, Buffer("ImportPkcs8PrivateKey", "pekb"),
               Buffer("ImportSubjectPublicKeyInfo", "pekb")}
         ELSE {mdCtx}
    [] call.name = "protect" ->
         IF Windows
         THEN {hAesKey} \cup
              {Buffer("ExportPkcs8PrivateKey", b) : b \in
                 {"privateKeyBlob", "pbCurveParameters", "PublicKey", "CryptBitBlob",
                  "privateKeyInfo", "derPrivateBytes"}} \cup
              {Buffer("ExportSubjectPublicKeyInfo", b) : b \in
                 {"publicKeyBlob", "CryptBitBlob", "pbCurveParameters", "PublicKey",
                  "Parameters", "pszObjId", "derPublicBytes"}}
         ELSE {mdCtx}

\* What it does not release when it throws at the wrong place
NotReleasedOnError ==
  {Buffer("ImportPkcs8PrivateKey", "privateKeyInfo"), Buffer("ImportPkcs8PrivateKey", "eccPrivateInfo"),
   Buffer("ImportSubjectPublicKeyInfo", "PublicKeyInfo"), hHash, hKey, pkeyCtx,
   hAesHandle, hStore, store, intermediate_certs, leafPrivateKey}
  \cup {intermediate(i) : i \in Positions}

\* A call that succeeds leaves exactly what the code never releases, a call that
\* fails leaves besides only what it does not release on an error.  So no key
\* handle survives a call but the one that a second SetKey has replaced, and on
\* Linux nothing but the context of a hash survives a call that succeeds.
LeftoversExplained ==
  process = "running" /\ call.name # "none" /\ code = << >> =>
    /\ ~raised => BagToSet(live) = NeverReleased
    /\ raised => BagToSet(live) \subseteq NeverReleased \cup NotReleasedOnError
    /\ Copies(hAesKey) <= 1
=============================================================================
