----------------------- MODULE CryptoBackendsHoldings -----------------------
(***************************************************************************)
(* Proofs about CryptoBackends, for both builds, every set of roots,       *)
(* chains and tokens and every size: what a call leaves allocated and what *)
(* it releases twice, wherever it throws.                                  *)
(*                                                                         *)
(* The rules are those of CryptoBackendsProofs, the view is "holdings".    *)
(* At every instruction that may throw, what is held must be safe (Safe):  *)
(* if everything open is released there, only what may be left is left.    *)
(* Each function is shown to take what it finds to what it leaves.         *)
(*                                                                         *)
(* ResourceInv relates what is tracked to the state, and adds Owed: the    *)
(* ends of scopes that an exception would reach release what is open, each *)
(* once.                                                                   *)
(***************************************************************************)
EXTENDS CryptoBackendsProofs

-----------------------------------------------------------------------------
(* What a call holds: the instructions *)

Sound(c, a) == Holdings(a) /\ Safe(c, a)

\* The fields of what an owner has
LEMMA VFields ==
  ASSUME NEW l, NEW m, NEW p
  PROVE  /\ V(l, m, p).live = l /\ V(l, m, p).members = m /\ V(l, m, p).open = p
         /\ V(l, m, p) = V(V(l, m, p).live, V(l, m, p).members, V(l, m, p).open)
BY DEF V

\* One place changes
LEMMA PutFacts ==
  ASSUME NEW a, a = [p \in Places |-> a[p]], NEW p \in Places, NEW v
  PROVE  /\ Put(a, p, v)[p] = v
         /\ \A q \in Places : q # p => Put(a, p, v)[q] = a[q]
         /\ Put(a, p, v) = [q \in Places |-> Put(a, p, v)[q]]
BY DEF Put

\* The places
LEMMA PlaceNames ==
  /\ Owners \subseteq Places /\ \A o \in Owners : o \notin {"key", "secret", "roots", "contexts"}
  /\ "key" \in Places /\ "secret" \in Places /\ "roots" \in Places /\ "contexts" \in Places
  /\ "hkdf" \in Owners
BY DEF Places, Owners

\* What an owner has changes, and what is left may be left
LEMMA PutOwner ==
  ASSUME NEW c, NEW a, Holdings(a), NEW o \in Owners, NEW l, NEW m, NEW p,
         NEW b, b = Put(a, o, V(l, m, p))
  PROVE  /\ Holdings(b) /\ b[o] = V(l, m, p)
         /\ \A q \in Places : q # o => b[q] = a[q]
         /\ Safe(c, a) /\ SafeOwner(c, o, V(l, m, p))
            /\ (o = "hkdf" => ("hAlg" \in m <=> "hAlg" \in a[o].members)) => Safe(c, b)
<1> DEFINE v == V(l, m, p)
<1>0. v.live = l /\ v.members = m /\ v.open = p /\ v = V(v.live, v.members, v.open)
  BY DEF V
<1> HIDE DEF v
<1>1. o \in Places /\ a = [q \in Places |-> a[q]]
  BY PlaceNames DEF Holdings
<1>2. b[o] = v /\ (\A q \in Places : q # o => b[q] = a[q]) /\ b = [q \in Places |-> b[q]]
  BY <1>1, PutFacts DEF v
<1>3. /\ \A q \in Owners : b[q] = IF q = o THEN v ELSE a[q]
      /\ b["key"] = a["key"] /\ b["secret"] = a["secret"] /\ b["roots"] = a["roots"]
      /\ b["contexts"] = a["contexts"]
  BY <1>2, PlaceNames
<1>4. Holdings(b)
  <2>1. \A q \in Owners : b[q] = V(b[q].live, b[q].members, b[q].open)
    BY <1>0, <1>3 DEF Holdings
  <2> QED
    BY <1>2, <1>3, <2>1 DEF Holdings
<1>5. ASSUME Safe(c, a), SafeOwner(c, o, v), o = "hkdf" => ("hAlg" \in m <=> "hAlg" \in a[o].members)
      PROVE  Safe(c, b)
  <2>1. \A q \in Owners : SafeOwner(c, q, b[q])
    BY <1>3, <1>5 DEF Safe
  <2>2. "hAlg" \in b["hkdf"].members <=> "hAlg" \in a["hkdf"].members
    BY <1>0, <1>3, <1>5, PlaceNames
  <2> QED
    BY <1>3, <1>5, <2>1, <2>2 DEF Safe
<1> QED
  BY <1>2, <1>4, <1>5 DEF v

\* The number of keys, of roots and of contexts
LEMMA PutCounts ==
  ASSUME NEW c, NEW a, Holdings(a), NEW p \in {"key", "roots", "contexts"}, NEW v,
         p = "key" => \E n \in 0..2, m \in 0..1, k \in 0..1 : v = Kv(n, m, k),
         p = "roots" => \E n \in 0..Cardinality(TrustedRoots) + 1 : v = Count(n),
         p = "contexts" => \E n \in Nat : v = Count(n), NEW b, b = Put(a, p, v)
  PROVE  /\ Holdings(b) /\ b[p] = v
         /\ \A q \in Places : q # p => b[q] = a[q]
         /\ /\ Safe(c, a) /\ (p = "key" => SafeKey(c, v)) /\ (p = "roots" => SafeRoots(c, v))
            /\ (p = "contexts" => SafeContexts(c, v))
            => Safe(c, b)
<1>1. p \in Places /\ a = [q \in Places |-> a[q]] /\ p \notin Owners
  BY PlaceNames DEF Holdings
<1>2. b[p] = v /\ (\A q \in Places : q # p => b[q] = a[q]) /\ b = [q \in Places |-> b[q]]
  BY <1>1, PutFacts
<1>3. /\ \A q \in Owners : b[q] = a[q]
      /\ b["key"] = (IF p = "key" THEN v ELSE a["key"]) /\ b["secret"] = a["secret"]
      /\ b["roots"] = (IF p = "roots" THEN v ELSE a["roots"])
      /\ b["contexts"] = (IF p = "contexts" THEN v ELSE a["contexts"])
  BY <1>1, <1>2, PlaceNames
<1>4. Holdings(b)
  <2>1. \A q \in Owners : b[q] = V(b[q].live, b[q].members, b[q].open)
    BY <1>3 DEF Holdings
  <2>2. \E n \in 0..2, m \in 0..1, k \in 0..1 : b["key"] = Kv(n, m, k)
    BY <1>3 DEF Holdings
  <2>3. \E n \in 0..Cardinality(TrustedRoots) + 1 : b["roots"] = Count(n)
    BY <1>3 DEF Holdings
  <2>4. \E n \in Nat : b["contexts"] = Count(n)
    BY <1>3 DEF Holdings
  <2> QED
    BY <1>2, <1>3, <2>1, <2>2, <2>3, <2>4 DEF Holdings
<1>5. ASSUME Safe(c, a), p = "key" => SafeKey(c, v), p = "roots" => SafeRoots(c, v),
             p = "contexts" => SafeContexts(c, v)
      PROVE  Safe(c, b)
  BY <1>3, <1>5, PlaceNames DEF Safe
<1> QED
  BY <1>2, <1>4, <1>5

\* The shared secret
LEMMA PutSecret ==
  ASSUME NEW c, NEW a, Holdings(a), NEW n \in 0..1, NEW m \in 0..1, NEW k \in 0..2, NEW h \in 0..1,
         NEW t \in 0..1, NEW b, b = Put(a, "secret", Sv(n, m, k, h, t))
  PROVE  /\ Holdings(b) /\ b["secret"] = Sv(n, m, k, h, t)
         /\ \A q \in Places : q # "secret" => b[q] = a[q]
         /\ Safe(c, a) /\ SafeSecret(c, Sv(n, m, k, h, t)) /\ h = a["secret"].hkdf => Safe(c, b)
<1> DEFINE v == Sv(n, m, k, h, t)
<1>0. v.hkdf = h
  BY DEF Sv
<1>1. "secret" \in Places /\ a = [q \in Places |-> a[q]]
  BY PlaceNames DEF Holdings
<1>2. b["secret"] = v /\ (\A q \in Places : q # "secret" => b[q] = a[q]) /\ b = [q \in Places |-> b[q]]
  BY <1>1, PutFacts
<1>3. /\ \A q \in Owners : b[q] = a[q]
      /\ b["key"] = a["key"] /\ b["roots"] = a["roots"] /\ b["contexts"] = a["contexts"]
  BY <1>2, PlaceNames
<1>4. Holdings(b)
  <2>1. \E n1 \in 0..1, m1 \in 0..1, k1 \in 0..2, h1 \in 0..1, t1 \in 0..1 : b["secret"] = Sv(n1, m1, k1, h1, t1)
    BY <1>2
  <2> HIDE DEF v
  <2> QED
    BY <1>2, <1>3, <2>1 DEF Holdings
<1> HIDE DEF v
<1>5. ASSUME Safe(c, a), SafeSecret(c, v), h = a["secret"].hkdf PROVE Safe(c, b)
  BY <1>0, <1>2, <1>3, <1>5, PlaceNames DEF Safe
<1> QED
  BY <1>2, <1>4, <1>5 DEF v

\* The pairs that are not among the four
Ordinary(o, n) ==
  /\ ~(o = "aesWrapper" /\ n = "hAesKey") /\ ~(o = "ecdhPrivate" /\ n = "hSharedSecret")
  /\ ~(o = "x509" /\ n = "rootCertContext")

\* An owner and such a name are a plain pair
LEMMA OrdinaryIsPlain ==
  ASSUME NEW o \in Owners, NEW n, Ordinary(o, n)
  PROVE  Plain(<<o, n>>) /\ <<o, n>> \notin Specials /\ <<o, n>>[1] = o /\ <<o, n>>[2] = n
<1>1. o # "OsslSha"
  BY DEF Owners
<1>2. <<o, n>> \notin Specials
  BY <1>1 DEF Ordinary, Specials, Shared, hSharedSecret, hAesKey, rootContext, mdCtx, Buffer
<1>3. <<o, n>>[1] = o /\ <<o, n>>[2] = n
  OBVIOUS
<1> QED
  BY <1>2, <1>3 DEF Plain

\* A resource of an owner is made for a member, or not, becomes a member's, is
\* released
Gain(a, o, n) == Put(a, o, V(a[o].live \cup {n}, a[o].members \cup {n}, a[o].open))
Add(a, o, n) == Put(a, o, V(a[o].live \cup {n}, a[o].members, a[o].open))
Join(a, o, n) == Put(a, o, V(a[o].live, a[o].members \cup {n}, a[o].open))
Lose(a, o, n) == Put(a, o, V(a[o].live \ {n}, a[o].members, a[o].open))

\* What each instruction on a resource does
LEMMA OwnerInstructions ==
  ASSUME NEW c, c.view = "holdings", NEW a, Sound(c, a), NEW o \in Owners, NEW n, Ordinary(o, n)
  PROVE  /\ n \notin a[o].live => Runs(c, <<New(<<o, n>>)>>, a, Gain(a, o, n))
         /\ n \notin a[o].live => Runs(c, <<Allocate(<<o, n>>)>>, a, Add(a, o, n))
         /\ n \notin a[o].live => Runs(c, <<Malloc(<<o, n>>)>>, a, Add(a, o, n))
         /\ Runs(c, <<Own(<<o, n>>)>>, a, Join(a, o, n))
         /\ Runs(c, <<Release(<<o, n>>)>>, a, Lose(a, o, n))
<1> DEFINE r == <<o, n>>
<1>1. Plain(r) /\ r \notin Specials /\ r[1] = o /\ r[2] = n
  BY OrdinaryIsPlain
<1>2. Holdings(a) /\ Safe(c, a)
  BY DEF Sound
<1>3. r # hAesKey /\ r # Shared /\ r # rootContext /\ r # mdCtx
  BY <1>1 DEF Specials
<1> HIDE DEF r
<1>4. ASSUME n \notin a[o].live PROVE Runs(c, <<New(r)>>, a, Gain(a, o, n))
  <2> DEFINE x == New(r)
  <2>1. x.op = "new" /\ x.what = r
    BY DEF New
  <2> HIDE DEF x
  <2>2. Fits(c, x, a)
    BY <1>1, <1>2, <1>4, <2>1 DEF Fits, Keeps, Fresh
  <2>3. Learn(c, x, a) = Gain(a, o, n)
    BY <1>1, <1>3, <2>1 DEF Learn, Track, Taken, Gain
  <2> QED
    BY <2>1, <2>2, <2>3, One DEF x
<1>5. ASSUME n \notin a[o].live PROVE Runs(c, <<Allocate(r)>>, a, Add(a, o, n))
  <2> DEFINE x == Allocate(r)
  <2>1. x.op = "allocate" /\ x.what = r
    BY DEF Allocate
  <2> HIDE DEF x
  <2>2. Fits(c, x, a)
    BY <1>1, <1>2, <1>5, <2>1 DEF Fits, Keeps, Fresh
  <2>3. Learn(c, x, a) = Add(a, o, n)
    BY <1>1, <1>3, <2>1 DEF Learn, Track, Taken, Add
  <2> QED
    BY <2>1, <2>2, <2>3, One DEF x
<1>6. Runs(c, <<Own(r)>>, a, Join(a, o, n))
  <2> DEFINE x == Own(r)
  <2>1. x.op = "own" /\ x.what = r
    BY DEF Own
  <2> HIDE DEF x
  <2>2. Fits(c, x, a)
    BY <1>1, <1>2, <2>1 DEF Fits, Keeps, Throwing
  <2>3. Learn(c, x, a) = Join(a, o, n)
    BY <1>1, <2>1 DEF Learn, Track, Join
  <2> QED
    BY <2>1, <2>2, <2>3, One DEF x
<1>7. Runs(c, <<Release(r)>>, a, Lose(a, o, n))
  <2> DEFINE x == Release(r)
  <2>1. x.op = "release" /\ x.what = r
    BY DEF Release
  <2> HIDE DEF x
  <2>2. Fits(c, x, a)
    BY <1>1, <1>2, <2>1 DEF Fits, Keeps, Throwing
  <2>3. Learn(c, x, a) = Lose(a, o, n)
    BY <1>1, <2>1 DEF Learn, Track, Lose
  <2> QED
    BY <2>1, <2>2, <2>3, One DEF x
<1>8. ASSUME n \notin a[o].live PROVE Runs(c, <<Malloc(r)>>, a, Add(a, o, n))
  <2> DEFINE x == Malloc(r)
  <2>1. x.op = "malloc" /\ x.what = r
    BY DEF Malloc
  <2> HIDE DEF x
  <2>2. Fits(c, x, a)
    BY <1>1, <1>2, <1>8, <2>1 DEF Fits, Keeps, Fresh
  <2>3. Learn(c, x, a) = Add(a, o, n)
    BY <1>1, <1>3, <2>1 DEF Learn, Track, Taken, Add
  <2> QED
    BY <2>1, <2>2, <2>3, One DEF x
<1> QED
  BY <1>4, <1>5, <1>6, <1>7, <1>8 DEF r

\* The four are four
LEMMA FourSpecials ==
  /\ hAesKey # Shared /\ hAesKey # rootContext /\ hAesKey # mdCtx
  /\ Shared # rootContext /\ Shared # mdCtx /\ rootContext # mdCtx
BY DEF Shared, hSharedSecret, hAesKey, rootContext, mdCtx, Buffer

\* What the instructions on the four do
LEMMA SpecialInstructions ==
  ASSUME NEW c, c.view = "holdings", NEW a, Sound(c, a)
  PROVE  /\ \A n, m, k : a["key"] = Kv(n, m, k) /\ n <= 1 =>
              Runs(c, <<New(hAesKey)>>, a, Put(a, "key", Kv(n + 1, 1, k)))
         /\ \A m, k, h, t : a["secret"] = Sv(0, m, k, h, t) =>
              Runs(c, <<New(Shared)>>, a, Put(a, "secret", Sv(1, 1, k, h, t)))
         /\ \A n : a["roots"] = Count(n) /\ n <= Cardinality(TrustedRoots) =>
              Runs(c, <<Allocate(rootContext)>>, a, Put(a, "roots", Count(n + 1)))
         /\ \A n : a["contexts"] = Count(n) =>
              Runs(c, <<Allocate(mdCtx)>>, a, Put(a, "contexts", Count(n + 1)))
<1>0. Holdings(a) /\ Safe(c, a)
  BY DEF Sound
<1>1. ASSUME NEW n, NEW m, NEW k, a["key"] = Kv(n, m, k), n <= 1
      PROVE  Runs(c, <<New(hAesKey)>>, a, Put(a, "key", Kv(n + 1, 1, k)))
  <2> DEFINE x == New(hAesKey)
  <2>1. x.op = "new" /\ x.what = hAesKey
    BY DEF New
  <2>2. a["key"].n = n /\ a["key"].open = k
    BY <1>1 DEF Kv
  <2> HIDE DEF x
  <2>3. Fits(c, x, a)
    BY <1>0, <1>1, <2>1, <2>2 DEF Fits, Keeps, Fresh
  <2>4. Learn(c, x, a) = Put(a, "key", Kv(n + 1, 1, k))
    BY <2>1, <2>2, FourSpecials DEF Learn, Track, Taken
  <2> QED
    BY <2>1, <2>3, <2>4, One DEF x
<1>2. ASSUME NEW m, NEW k, NEW h, NEW t, a["secret"] = Sv(0, m, k, h, t)
      PROVE  Runs(c, <<New(Shared)>>, a, Put(a, "secret", Sv(1, 1, k, h, t)))
  <2> DEFINE x == New(Shared)
  <2>1. x.op = "new" /\ x.what = Shared
    BY DEF New
  <2>2. a["secret"].n = 0 /\ a["secret"].open = k /\ a["secret"].hkdf = h /\ a["secret"].twice = t
    BY <1>2 DEF Sv
  <2> HIDE DEF x
  <2>3. Fits(c, x, a)
    BY <1>0, <2>1, <2>2 DEF Fits, Keeps, Fresh
  <2>4. Learn(c, x, a) = Put(a, "secret", Sv(1, 1, k, h, t))
    BY <2>1, <2>2, FourSpecials DEF Learn, Track, Taken
  <2> QED
    BY <2>1, <2>3, <2>4, One DEF x
<1>3. ASSUME NEW n, a["roots"] = Count(n), n <= Cardinality(TrustedRoots)
      PROVE  Runs(c, <<Allocate(rootContext)>>, a, Put(a, "roots", Count(n + 1)))
  <2> DEFINE x == Allocate(rootContext)
  <2>1. x.op = "allocate" /\ x.what = rootContext
    BY DEF Allocate
  <2>2. a["roots"].n = n
    BY <1>3 DEF Count
  <2> HIDE DEF x
  <2>3. Fits(c, x, a)
    BY <1>0, <1>3, <2>1, <2>2 DEF Fits, Keeps, Fresh
  <2>4. Learn(c, x, a) = Put(a, "roots", Count(n + 1))
    BY <2>1, <2>2, FourSpecials DEF Learn, Track, Taken
  <2> QED
    BY <2>1, <2>3, <2>4, One DEF x
<1>4. ASSUME NEW n, a["contexts"] = Count(n)
      PROVE  Runs(c, <<Allocate(mdCtx)>>, a, Put(a, "contexts", Count(n + 1)))
  <2> DEFINE x == Allocate(mdCtx)
  <2>1. x.op = "allocate" /\ x.what = mdCtx
    BY DEF Allocate
  <2>2. a["contexts"].n = n
    BY <1>4 DEF Count
  <2> HIDE DEF x
  <2>3. Fits(c, x, a)
    BY <1>0, <2>1, <2>2 DEF Fits, Keeps, Fresh
  <2>4. Learn(c, x, a) = Put(a, "contexts", Count(n + 1))
    BY <2>1, <2>2, FourSpecials DEF Learn, Track, Taken
  <2> QED
    BY <2>1, <2>3, <2>4, One DEF x
<1> QED
  BY <1>1, <1>2, <1>3, <1>4

\* Instructions on nothing that is held
StillOps ==
  {"request", "measure", "chained", "last", "load", "test", "assign", "add", "build_chain", "copy", "write"}
Still(s) == IsSeq(s) /\ \A i \in DOMAIN s : s[i].op \in StillOps

\* They leave what is held as it is
LEMMA StillRuns ==
  ASSUME NEW c, c.view = "holdings", NEW a, Sound(c, a), NEW s, Still(s) PROVE Runs(c, s, a, a)
<1>1. ASSUME NEW x, x.op \in StillOps
      PROVE  x.op \notin {"constructed", "end"} /\ Fits(c, x, a) /\ Learn(c, x, a) = a
  BY <1>1 DEF Fits, Keeps, Learn, Track, StillOps, Throwing, Sound
<1>2. Idles(c, s, a)
  BY <1>1 DEF Idles, Still
<1> QED
  BY <1>2, IdleRuns

\* The constructors of such instructions in the model
LEMMA StillInstructions ==
  /\ Request.op \in StillOps /\ ChainedCalls.op \in StillOps /\ BuildChain.op \in StillOps
  /\ CopyKey.op \in StillOps /\ \A d, e : Write(d, e).op \in StillOps
  /\ \A d, e : Measure(d, e).op \in StillOps /\ LastCall(d, e).op \in StillOps
  /\ \A q : Test(q).op \in StillOps /\ Assign(q).op \in StillOps
  /\ \A i : LoadCertificate(i).op \in StillOps /\ AddToStore(i).op \in StillOps
BY DEF Request, ChainedCalls, BuildChain, Measure, LastCall, Test, Assign, LoadCertificate, AddToStore, CopyKey,
       Write, StillOps

\* Sequences of them
LEMMA StillTuples ==
  /\ Still(<< >>)
  /\ \A x : x.op \in StillOps => Still(<<x>>)
  /\ \A x, y : x.op \in StillOps /\ y.op \in StillOps => Still(<<x, y>>)
  /\ \A x, y, z : x.op \in StillOps /\ y.op \in StillOps /\ z.op \in StillOps => Still(<<x, y, z>>)
  /\ \A x, y, z, w : x.op \in StillOps /\ y.op \in StillOps /\ z.op \in StillOps /\ w.op \in StillOps =>
       Still(<<x, y, z, w>>)
<1>1. ASSUME NEW S, NEW s \in Seq(S), \A x \in S : x.op \in StillOps PROVE Still(s)
  <2>1. \A i \in DOMAIN s : s[i] \in S
    OBVIOUS
  <2> QED
    BY <1>1, <2>1 DEF Still, IsSeq
<1>2. Still(<< >>)
  <2> DEFINE S == {}
  <2>1. << >> \in Seq(S) /\ \A x \in S : x.op \in StillOps
    OBVIOUS
  <2> HIDE DEF S
  <2> QED
    BY <1>1, <2>1
<1>3. ASSUME NEW x, x.op \in StillOps PROVE Still(<<x>>)
  <2> DEFINE S == {x}
  <2>1. <<x>> \in Seq(S) /\ \A u \in S : u.op \in StillOps
    BY <1>3
  <2> HIDE DEF S
  <2> QED
    BY <1>1, <2>1
<1>4. ASSUME NEW x, NEW y, x.op \in StillOps, y.op \in StillOps PROVE Still(<<x, y>>)
  <2> DEFINE S == {x, y}
  <2>1. <<x, y>> \in Seq(S) /\ \A u \in S : u.op \in StillOps
    BY <1>4
  <2> HIDE DEF S
  <2> QED
    BY <1>1, <2>1
<1>5. ASSUME NEW x, NEW y, NEW z, x.op \in StillOps, y.op \in StillOps, z.op \in StillOps
      PROVE  Still(<<x, y, z>>)
  <2> DEFINE S == {x, y, z}
  <2>1. <<x, y, z>> \in Seq(S) /\ \A u \in S : u.op \in StillOps
    BY <1>5
  <2> HIDE DEF S
  <2> QED
    BY <1>1, <2>1
<1>6. ASSUME NEW x, NEW y, NEW z, NEW w,
             x.op \in StillOps, y.op \in StillOps, z.op \in StillOps, w.op \in StillOps
      PROVE  Still(<<x, y, z, w>>)
  <2> DEFINE S == {x, y, z, w}
  <2>1. <<x, y, z, w>> \in Seq(S) /\ \A u \in S : u.op \in StillOps
    BY <1>6
  <2> HIDE DEF S
  <2> QED
    BY <1>1, <2>1
<1> QED
  BY <1>2, <1>3, <1>4, <1>5, <1>6

-----------------------------------------------------------------------------
(* What a call holds: objects *)

Of(o, S) == {<<o, n>> : n \in S}

\* What a destructor releases: S of o, T of q, and E
Parts(D, o, S, q, T, E) ==
  /\ Slice(D, o) = S /\ Slice(D, q) = T
  /\ \A x \in Owners : x # o /\ x # q => Slice(D, x) = {}
  /\ \A r \in D \ {hAesKey, Shared} : Plain(r)
  /\ hAesKey \in D <=> hAesKey \in E
  /\ Shared \in D <=> Shared \in E

\* A destructor of the pairs of o and S, of q and T, and of E
PairsOf(D, o, S, q, T, E) ==
  /\ o \in Owners /\ q \in Owners /\ o # q
  /\ (\A n \in S : Ordinary(o, n)) /\ (\A n \in T : Ordinary(q, n)) /\ E \subseteq {hAesKey, Shared}
  /\ D = Of(o, S) \cup Of(q, T) \cup E

\* What it has of each owner
LEMMA PartsIs ==
  ASSUME NEW D, NEW o, NEW S, NEW q, NEW T, NEW E, PairsOf(D, o, S, q, T, E)
  PROVE  Parts(D, o, S, q, T, E)
<1> SUFFICES ASSUME o \in Owners, q \in Owners, o # q, \A n \in S : Ordinary(o, n), \A n \in T : Ordinary(q, n),
                    E \subseteq {hAesKey, Shared}, D = Of(o, S) \cup Of(q, T) \cup E
             PROVE  Parts(D, o, S, q, T, E)
  BY DEF PairsOf
<1>1. \A n \in S : Plain(<<o, n>>) /\ <<o, n>> \notin Specials /\ <<o, n>>[1] = o /\ <<o, n>>[2] = n
  BY OrdinaryIsPlain
<1>2. \A n \in T : Plain(<<q, n>>) /\ <<q, n>> \notin Specials /\ <<q, n>>[1] = q /\ <<q, n>>[2] = n
  BY OrdinaryIsPlain
<1>3. E \subseteq Specials /\ hAesKey \in Specials /\ Shared \in Specials
  BY DEF Specials
<1>4. \A r \in D \ Specials : (\E n \in S : r = <<o, n>>) \/ (\E n \in T : r = <<q, n>>)
  BY <1>3 DEF Of
<1>5. \A n \in S : <<o, n>> \in D \ Specials
  BY <1>1 DEF Of
<1>6. \A n \in T : <<q, n>> \in D \ Specials
  BY <1>2 DEF Of
<1>7. /\ hAesKey \in D <=> hAesKey \in E
      /\ Shared \in D <=> Shared \in E
  <2>1. \A r \in Specials : r \notin Of(o, S) /\ r \notin Of(q, T)
    BY <1>1, <1>2 DEF Of
  <2> QED
    BY <1>3, <2>1
<1>8. \A r \in D \ {hAesKey, Shared} : Plain(r)
  <2>1. \A r \in D \ {hAesKey, Shared} : (\E n \in S : r = <<o, n>>) \/ (\E n \in T : r = <<q, n>>)
    BY DEF Of
  <2> QED
    BY <1>1, <1>2, <2>1
<1>9. Slice(D, o) = S
  <2>1. ASSUME NEW n \in Slice(D, o) PROVE n \in S
    <3>1. PICK r \in D \ Specials : r[1] = o /\ n = r[2]
      BY <2>1 DEF Slice
    <3> QED
      BY <1>1, <1>2, <1>4, <3>1
  <2>2. ASSUME NEW n \in S PROVE n \in Slice(D, o)
    BY <1>1, <1>5 DEF Slice
  <2> QED
    BY <2>1, <2>2
<1>10. Slice(D, q) = T
  <2>1. ASSUME NEW n \in Slice(D, q) PROVE n \in T
    <3>1. PICK r \in D \ Specials : r[1] = q /\ n = r[2]
      BY <2>1 DEF Slice
    <3> QED
      BY <1>1, <1>2, <1>4, <3>1
  <2>2. ASSUME NEW n \in T PROVE n \in Slice(D, q)
    BY <1>2, <1>6 DEF Slice
  <2> QED
    BY <2>1, <2>2
<1>11. ASSUME NEW x \in Owners, x \notin {o, q} PROVE Slice(D, x) = {}
  BY <1>1, <1>2, <1>4, <1>11 DEF Slice
<1> QED
  BY <1>7, <1>8, <1>9, <1>10, <1>11 DEF Parts

\* An object is constructed
LEMMA OpenedFacts ==
  ASSUME NEW a, Holdings(a), NEW D, Openable(D, a), NEW b, b = Opened(a, D)
  PROVE  /\ Holdings(b)
         /\ \A o \in Owners : b[o] = V(a[o].live, a[o].members, a[o].open \cup Slice(D, o))
         /\ hAesKey \in D => b["key"] = Kv(a["key"].n, a["key"].member, a["key"].open + 1)
         /\ hAesKey \notin D => b["key"] = a["key"]
         /\ Shared \in D /\ hAlg \in D =>
              b["secret"] = Sv(a["secret"].n, a["secret"].member, a["secret"].open + 1, 1, a["secret"].twice)
         /\ Shared \in D /\ hAlg \notin D =>
              b["secret"] = Sv(a["secret"].n, a["secret"].member, a["secret"].open + 1, a["secret"].hkdf,
                               a["secret"].twice)
         /\ Shared \notin D => b["secret"] = a["secret"]
         /\ b["roots"] = a["roots"] /\ b["contexts"] = a["contexts"]
<1>1. b = [p \in Places |-> b[p]]
  BY DEF Opened
<1>2. \A o \in Owners : b[o] = V(a[o].live, a[o].members, a[o].open \cup Slice(D, o))
  BY PlaceNames DEF Opened
<1>3. /\ b["key"] = IF hAesKey \in D THEN Kv(a["key"].n, a["key"].member, a["key"].open + 1) ELSE a["key"]
      /\ b["secret"] = IF Shared \in D
           THEN Sv(a["secret"].n, a["secret"].member, a["secret"].open + 1,
                   IF hAlg \in D THEN 1 ELSE a["secret"].hkdf, a["secret"].twice)
           ELSE a["secret"]
      /\ b["roots"] = a["roots"] /\ b["contexts"] = a["contexts"]
  BY PlaceNames DEF Opened
<1>4. ASSUME NEW n, NEW m, NEW k, a["key"] = Kv(n, m, k)
      PROVE  b["key"] = Kv(n, m, IF hAesKey \in D THEN k + 1 ELSE k)
  BY <1>3, <1>4 DEF Kv
<1>5. ASSUME NEW n, NEW m, NEW k, NEW h, NEW t, a["secret"] = Sv(n, m, k, h, t)
      PROVE  b["secret"] = IF Shared \in D THEN Sv(n, m, k + 1, IF hAlg \in D THEN 1 ELSE h, t)
                           ELSE Sv(n, m, k, h, t)
  BY <1>3, <1>5 DEF Sv
<1>6. Holdings(b)
  <2>1. ASSUME NEW o \in Owners PROVE b[o] = V(b[o].live, b[o].members, b[o].open)
    <3>1. PICK l, m, p : b[o] = V(l, m, p)
      BY <1>2
    <3> QED
      BY <3>1, VFields
  <2>2. \E n \in 0..2, m \in 0..1, p \in 0..1 : b["key"] = Kv(n, m, p)
    <3>1. PICK n \in 0..2, m \in 0..1, p \in 0..1 : a["key"] = Kv(n, m, p)
      BY DEF Holdings
    <3>2. hAesKey \in D => p = 0
      BY <3>1 DEF Openable, Kv
    <3>3. (IF hAesKey \in D THEN p + 1 ELSE p) \in 0..1
      BY <3>2
    <3> QED
      BY <1>4, <3>1, <3>3
  <2>3. \E n \in 0..1, m \in 0..1, p \in 0..2, h \in 0..1, t \in 0..1 : b["secret"] = Sv(n, m, p, h, t)
    <3>1. PICK n \in 0..1, m \in 0..1, p \in 0..2, h \in 0..1, t \in 0..1 : a["secret"] = Sv(n, m, p, h, t)
      BY DEF Holdings
    <3>2. Shared \in D => p <= 1
      BY <3>1 DEF Openable, Sv
    <3>3. (IF Shared \in D THEN p + 1 ELSE p) \in 0..2 /\ (IF hAlg \in D THEN 1 ELSE h) \in 0..1
      BY <3>2
    <3>4. b["secret"] = IF Shared \in D THEN Sv(n, m, p + 1, IF hAlg \in D THEN 1 ELSE h, t)
                        ELSE Sv(n, m, p, h, t)
      BY <1>5, <3>1
    <3> QED
      BY <3>3, <3>4
  <2> QED
    BY <1>1, <1>3, <2>1, <2>2, <2>3 DEF Holdings
<1> QED
  BY <1>2, <1>3, <1>6

\* What will be released is a part of what is open
Pending(D, a) ==
  /\ \A o \in Owners : Slice(D, o) \subseteq a[o].open
  /\ hAesKey \in D => a["key"].open = 1
  /\ Shared \in D => a["secret"].open >= 1

\* An object is destroyed, in the course of events or by an exception: nothing
\* but the shared secret is released twice, and what is left may be left
LEMMA DestroyedFacts ==
  ASSUME NEW c, NEW a, Sound(c, a), NEW D, Pending(D, a), NEW b, b = Destroyed(a, D)
  PROVE  /\ Closable(c, D, a) /\ Sound(c, b)
         /\ \A o \in Owners : b[o] = V(a[o].live \ (Slice(D, o) \cap a[o].members), a[o].members,
                                       a[o].open \ Slice(D, o))
         /\ hAesKey \in D => b["key"] = Kv(a["key"].n - a["key"].member, a["key"].member, a["key"].open - 1)
         /\ hAesKey \notin D => b["key"] = a["key"]
         /\ Shared \in D /\ a["secret"].member = 1 /\ a["secret"].n = 1 =>
              b["secret"] = Sv(0, 1, a["secret"].open - 1, a["secret"].hkdf, a["secret"].twice)
         /\ Shared \in D /\ a["secret"].member = 1 /\ a["secret"].n = 0 =>
              b["secret"] = Sv(0, 1, a["secret"].open - 1, a["secret"].hkdf, 1)
         /\ Shared \in D /\ a["secret"].member = 0 =>
              b["secret"] = Sv(a["secret"].n, 0, a["secret"].open - 1, a["secret"].hkdf, a["secret"].twice)
         /\ Shared \notin D => b["secret"] = a["secret"]
         /\ b["roots"] = a["roots"] /\ b["contexts"] = a["contexts"]
<1>0. Holdings(a) /\ Safe(c, a)
  BY DEF Sound
<1>1. b = [p \in Places |-> b[p]]
  BY DEF Destroyed
<1>2. \A o \in Owners : b[o] = V(a[o].live \ (Slice(D, o) \cap a[o].members), a[o].members,
                                 a[o].open \ Slice(D, o))
  BY PlaceNames DEF Destroyed
<1>3. /\ b["key"] = IF hAesKey \in D THEN Kv(a["key"].n - a["key"].member, a["key"].member, a["key"].open - 1)
                    ELSE a["key"]
      /\ b["secret"] = IF Shared \in D
           THEN Sv(IF a["secret"].member = 1 THEN 0 ELSE a["secret"].n, a["secret"].member,
                   a["secret"].open - 1, a["secret"].hkdf,
                   IF a["secret"].member = 1 /\ a["secret"].n = 0 THEN 1 ELSE a["secret"].twice)
           ELSE a["secret"]
      /\ b["roots"] = a["roots"] /\ b["contexts"] = a["contexts"]
  BY PlaceNames DEF Destroyed
<1>4. ASSUME NEW n, NEW m, NEW k, a["key"] = Kv(n, m, k)
      PROVE  b["key"] = IF hAesKey \in D THEN Kv(n - m, m, k - 1) ELSE Kv(n, m, k)
  BY <1>3, <1>4 DEF Kv
<1>5. ASSUME NEW n, NEW m, NEW k, NEW h, NEW t, a["secret"] = Sv(n, m, k, h, t)
      PROVE  b["secret"] = IF Shared \in D
                           THEN Sv(IF m = 1 THEN 0 ELSE n, m, k - 1, h, IF m = 1 /\ n = 0 THEN 1 ELSE t)
                           ELSE Sv(n, m, k, h, t)
  BY <1>3, <1>5 DEF Sv
<1>6. \E n \in 0..2, m \in 0..1, p \in 0..1 : b["key"] = Kv(n, m, p) /\ SafeKey(c, b["key"])
  <2>1. PICK n \in 0..2, m \in 0..1, p \in 0..1 : a["key"] = Kv(n, m, p)
    BY <1>0 DEF Holdings
  <2>2. a["key"].n = n /\ a["key"].member = m /\ a["key"].open = p /\ SafeKey(c, a["key"])
    BY <1>0, <2>1 DEF Kv, Safe
  <2>3. CASE hAesKey \in D
    <3>0. p = 1
      BY <2>2, <2>3 DEF Pending
    <3>1. b["key"] = Kv(n - m, m, p - 1)
      BY <1>4, <2>1, <2>3, Zenon
    <3>2. n - m \in 0..1 /\ p - 1 = 0
      BY <2>2, <3>0 DEF SafeKey
    <3>3. b["key"].n = n - m /\ b["key"].member = m /\ b["key"].open = p - 1
      BY <3>1 DEF Kv
    <3>4. n - m # 0 => n # 0
      BY <2>2, <3>0 DEF SafeKey
    <3>5. SafeKey(c, b["key"])
      BY <2>2, <3>2, <3>3, <3>4 DEF SafeKey
    <3>6. n - m \in 0..2 /\ p - 1 \in 0..1
      BY <3>2
    <3> QED
      BY <3>1, <3>5, <3>6
  <2>4. CASE hAesKey \notin D
    BY <1>3, <2>1, <2>2, <2>4
  <2> QED
    BY <2>3, <2>4
<1>7. /\ \E n \in 0..1, m \in 0..1, p \in 0..2, h \in 0..1, t \in 0..1 : b["secret"] = Sv(n, m, p, h, t)
      /\ SafeSecret(c, b["secret"]) /\ b["secret"].hkdf = a["secret"].hkdf
      /\ Shared \in D /\ a["secret"].member = 1 /\ a["secret"].n = 0 => OnWindows(c)
  <2>1. PICK n \in 0..1, m \in 0..1, p \in 0..2, h \in 0..1, t \in 0..1 : a["secret"] = Sv(n, m, p, h, t)
    BY <1>0 DEF Holdings
  <2>2. /\ a["secret"].n = n /\ a["secret"].member = m /\ a["secret"].open = p
        /\ a["secret"].hkdf = h /\ a["secret"].twice = t /\ SafeSecret(c, a["secret"])
    BY <1>0, <2>1 DEF Sv, Safe
  <2>3. CASE Shared \in D
    <3> DEFINE n1 == IF m = 1 THEN 0 ELSE n
               t1 == IF m = 1 /\ n = 0 THEN 1 ELSE t
    <3>1. b["secret"] = Sv(n1, m, p - 1, h, t1) /\ p >= 1
      BY <1>5, <2>1, <2>2, <2>3 DEF Pending
    <3>2. /\ b["secret"].n = n1 /\ b["secret"].member = m /\ b["secret"].open = p - 1
          /\ b["secret"].hkdf = h /\ b["secret"].twice = t1
      BY <3>1 DEF Sv
    <3>3. n1 \in 0..1 /\ t1 \in 0..1 /\ p - 1 \in 0..2
      BY <3>1
    <3>4. h = 0 => p = 1 /\ t = 0 /\ (m = 1 => n = 1) /\ (n = 1 => m = 1)
      BY <2>2, <3>1 DEF SafeSecret
    <3>5. h = 1 => OnWindows(c) /\ m = 1 /\ t = 0 /\ ((p = 2 /\ n = 1) \/ (p = 1 /\ n = 0))
      BY <2>2, <3>1 DEF SafeSecret
    <3>6. n1 = 0
      BY <3>4, <3>5
    <3>7. h = 0 => t1 = 0 /\ p - 1 = 0
      BY <3>4
    <3>8. h = 1 => (p - 1 = 1 /\ t1 = 0) \/ (p - 1 = 0 /\ t1 = 1)
      BY <3>5
    <3> HIDE DEF n1, t1
    <3>9. SafeSecret(c, b["secret"])
      BY <3>2, <3>5, <3>6, <3>7, <3>8 DEF SafeSecret
    <3> QED
      BY <2>2, <3>1, <3>2, <3>3, <3>4, <3>5, <3>9
  <2>4. CASE Shared \notin D
    <3>1. b["secret"] = a["secret"]
      BY <1>3, <2>4
    <3> QED
      BY <2>1, <2>2, <2>4, <3>1
  <2> QED
    BY <2>3, <2>4
<1>8. ASSUME NEW o \in Owners
      PROVE  SafeOwner(c, o, b[o]) /\ Slice(D, o) \cap a[o].members \subseteq a[o].live
             /\ b[o] = V(b[o].live, b[o].members, b[o].open) /\ b[o].members = a[o].members
  <2>1. SafeOwner(c, o, a[o]) /\ Slice(D, o) \subseteq a[o].open
    BY <1>0 DEF Safe, Pending
  <2>2. /\ b[o].live = a[o].live \ (Slice(D, o) \cap a[o].members) /\ b[o].members = a[o].members
        /\ b[o].open = a[o].open \ Slice(D, o) /\ b[o] = V(b[o].live, b[o].members, b[o].open)
    <3>1. PICK l, m, p : /\ l = a[o].live \ (Slice(D, o) \cap a[o].members) /\ m = a[o].members
                         /\ p = a[o].open \ Slice(D, o)
      OBVIOUS
    <3>2. b[o] = V(l, m, p)
      BY <1>2, <3>1
    <3> QED
      BY <3>1, <3>2, VFields
  <2> QED
    BY <2>1, <2>2 DEF SafeOwner
<1>9. Holdings(b)
  BY <1>0, <1>1, <1>3, <1>6, <1>7, <1>8 DEF Holdings
<1>10. Safe(c, b)
  <2>1. "hAlg" \in b["hkdf"].members <=> "hAlg" \in a["hkdf"].members
    BY <1>8, PlaceNames
  <2>2. \A o \in Owners : SafeOwner(c, o, b[o])
    BY <1>8
  <2> QED
    BY <1>0, <1>3, <1>6, <1>7, <2>1, <2>2 DEF Safe
<1>11. Closable(c, D, a)
  <2>1. hAesKey \in D => a["key"].n >= a["key"].member
    BY <1>0 DEF Pending, Safe, SafeKey
  <2> QED
    BY <1>7, <1>8, <2>1 DEF Closable
<1>12. /\ Shared \in D /\ a["secret"].member = 1 /\ a["secret"].n = 1 =>
            b["secret"] = Sv(0, 1, a["secret"].open - 1, a["secret"].hkdf, a["secret"].twice)
       /\ Shared \in D /\ a["secret"].member = 1 /\ a["secret"].n = 0 =>
            b["secret"] = Sv(0, 1, a["secret"].open - 1, a["secret"].hkdf, 1)
       /\ Shared \in D /\ a["secret"].member = 0 =>
            b["secret"] = Sv(a["secret"].n, 0, a["secret"].open - 1, a["secret"].hkdf, a["secret"].twice)
  BY <1>3
<1> QED
  BY <1>2, <1>3, <1>9, <1>10, <1>11, <1>12 DEF Sound

\* An object: its constructor, its scope, its destructor
LEMMA ObjectHeld ==
  ASSUME NEW c, c.view = "holdings", NEW constructor, NEW D, NEW scope, NEW a, NEW a1, NEW b,
         Runs(c, constructor, a, a1), Holdings(a1), Openable(D, a1),
         Runs(c, scope, Opened(a1, D), b), Sound(c, b), Pending(D, b)
  PROVE  Runs(c, Object(constructor, D, scope), a, Destroyed(b, D)) /\ Sound(c, Destroyed(b, D))
<1> DEFINE x == Constructed(D, scope)
           e == EndOf(x)
<1>1. x.op = "constructed" /\ x.destructor = D /\ e.op = "end" /\ e.destructor = D
  BY DEF Constructed, EndOf
<1>2. Object(constructor, D, scope) = Cat(constructor, <<x>>)
  BY Zenon DEF Object, Cat, Constructed
<1>3. Closable(c, D, b) /\ Sound(c, Destroyed(b, D)) /\ Holdings(b)
  BY DestroyedFacts DEF Sound
<1>4. Runs(c, <<x>>, a1, Destroyed(b, D))
  <2>1. /\ Fits(c, x, a1) /\ Learn(c, x, a1) = Opened(a1, D)
        /\ Fits(c, e, b) /\ Learn(c, e, b) = Destroyed(b, D)
    <3> HIDE DEF x, e
    <3> QED
      BY <1>1, <1>3 DEF Fits, Keeps, Learn, Track, Throwing
  <2>2. Runs(c, scope, Learn(c, x, a1), b)
    <3> HIDE DEF x
    <3> QED
      BY <2>1
  <2>3. Runs(c, <<x>>, a1, Learn(c, e, b))
    BY <2>1, <2>2, Scope
  <2> HIDE DEF x, e
  <2> QED
    BY <2>1, <2>3
<1> HIDE DEF x
<1> QED
  BY <1>2, <1>3, <1>4, Then

\* Two that are the same at every place
LEMMA SamePlaces ==
  ASSUME NEW a, NEW b, Holdings(a), Holdings(b), \A p \in Owners : a[p] = b[p], a["key"] = b["key"],
         a["secret"] = b["secret"], a["roots"] = b["roots"], a["contexts"] = b["contexts"]
  PROVE  a = b
<1>1. \A p \in Places : a[p] = b[p]
  BY DEF Places
<1>2. [p \in Places |-> a[p]] = [p \in Places |-> b[p]]
  BY <1>1
<1>3. a = [p \in Places |-> a[p]] /\ b = [p \in Places |-> b[p]]
  BY DEF Holdings
<1> QED
  BY <1>2, <1>3

\* Every place but one is as it was
Except(a, b, o) == \A q \in Places : q # o => b[q] = a[q]

\* The order of sets in which V is safe
LEMMA SafeIs ==
  ASSUME NEW c, NEW o, NEW l, NEW m, NEW p,
         l \ (p \cap m) \subseteq Never(c, o) \cup OnError(c, o), p \cap m \subseteq l
  PROVE  SafeOwner(c, o, V(l, m, p))
BY VFields DEF SafeOwner

\* One instruction on a resource of an owner
LEMMA OwnerStep ==
  ASSUME NEW c, c.view = "holdings", NEW a, Sound(c, a), NEW o \in Owners, NEW n, Ordinary(o, n),
         NEW l, NEW m, NEW p, a[o] = V(l, m, p), o = "hkdf" => n # "hAlg",
         NEW l2, NEW m2, SafeOwner(c, o, V(l2, m2, p)), NEW x,
         \/ x = New(<<o, n>>) /\ n \notin l /\ l2 = l \cup {n} /\ m2 = m \cup {n}
         \/ x = Allocate(<<o, n>>) /\ n \notin l /\ l2 = l \cup {n} /\ m2 = m
         \/ x = Malloc(<<o, n>>) /\ n \notin l /\ l2 = l \cup {n} /\ m2 = m
         \/ x = Own(<<o, n>>) /\ l2 = l /\ m2 = m \cup {n}
         \/ x = Release(<<o, n>>) /\ l2 = l \ {n} /\ m2 = m
  PROVE  \E b : Runs(c, <<x>>, a, b) /\ Sound(c, b) /\ b[o] = V(l2, m2, p) /\ Except(a, b, o)
<1>1. PICK b : b = Put(a, o, V(l2, m2, p))
  OBVIOUS
<1>2. a[o].live = l /\ a[o].members = m /\ a[o].open = p /\ Holdings(a) /\ Safe(c, a)
  BY VFields DEF Sound
<1>3. o = "hkdf" => ("hAlg" \in m2 <=> "hAlg" \in a[o].members)
  BY <1>2
<1>4. Holdings(b) /\ b[o] = V(l2, m2, p) /\ (\A q \in Places : q # o => b[q] = a[q]) /\ Safe(c, b)
  BY <1>1, <1>2, <1>3, PutOwner
<1>5. CASE x = New(<<o, n>>) /\ n \notin l /\ l2 = l \cup {n} /\ m2 = m \cup {n}
  <2>1. b = Gain(a, o, n)
    BY <1>1, <1>2, <1>5 DEF Gain
  <2>2. Runs(c, <<x>>, a, b)
    BY <1>2, <1>5, <2>1, OwnerInstructions
  <2> QED
    BY <1>4, <2>2 DEF Except, Sound
<1>6. CASE x = Allocate(<<o, n>>) /\ n \notin l /\ l2 = l \cup {n} /\ m2 = m
  <2>1. b = Add(a, o, n)
    BY <1>1, <1>2, <1>6 DEF Add
  <2>2. Runs(c, <<x>>, a, b)
    BY <1>2, <1>6, <2>1, OwnerInstructions
  <2> QED
    BY <1>4, <2>2 DEF Except, Sound
<1>7. CASE x = Own(<<o, n>>) /\ l2 = l /\ m2 = m \cup {n}
  <2>1. b = Join(a, o, n)
    BY <1>1, <1>2, <1>7 DEF Join
  <2>2. Runs(c, <<x>>, a, b)
    BY <1>2, <1>7, <2>1, OwnerInstructions
  <2> QED
    BY <1>4, <2>2 DEF Except, Sound
<1>8. CASE x = Release(<<o, n>>) /\ l2 = l \ {n} /\ m2 = m
  <2>1. b = Lose(a, o, n)
    BY <1>1, <1>2, <1>8 DEF Lose
  <2>2. Runs(c, <<x>>, a, b)
    BY <1>2, <1>8, <2>1, OwnerInstructions
  <2> QED
    BY <1>4, <2>2 DEF Except, Sound
<1>9. CASE x = Malloc(<<o, n>>) /\ n \notin l /\ l2 = l \cup {n} /\ m2 = m
  <2>1. b = Add(a, o, n)
    BY <1>1, <1>2, <1>9 DEF Add
  <2>2. Runs(c, <<x>>, a, b)
    BY <1>2, <1>9, <2>1, OwnerInstructions
  <2> QED
    BY <1>4, <2>2 DEF Except, Sound
<1> QED
  BY <1>5, <1>6, <1>7, <1>8, <1>9

\* Another key, on Windows and for a secret
LEMMA KeyStep ==
  ASSUME NEW c, c.view = "holdings", NEW a, Sound(c, a), NEW n \in 0..1, NEW m \in 0..1, a["key"] = Kv(n, m, 1),
         OnWindows(c), c.name \in Secrets
  PROVE  \E b : /\ Runs(c, <<New(hAesKey)>>, a, b) /\ Sound(c, b) /\ b["key"] = Kv(n + 1, 1, 1)
                /\ Except(a, b, "key")
<1>1. PICK v, b : v = Kv(n + 1, 1, 1) /\ b = Put(a, "key", v)
  OBVIOUS
<1>2. v.n = n + 1 /\ v.member = 1 /\ v.open = 1
  BY <1>1 DEF Kv
<1>3. SafeKey(c, v)
  BY <1>2 DEF SafeKey
<1>4. \E n1 \in 0..2, m1 \in 0..1, k1 \in 0..1 : v = Kv(n1, m1, k1)
  <2>1. n + 1 \in 0..2 /\ 1 \in 0..1
    OBVIOUS
  <2> QED
    BY <1>1, <2>1
<1>5. Holdings(a) /\ Safe(c, a)
  BY DEF Sound
<1>6. Holdings(b) /\ b["key"] = v /\ (\A q \in Places : q # "key" => b[q] = a[q]) /\ Safe(c, b)
  BY <1>1, <1>3, <1>4, <1>5, PutCounts
<1>7. Runs(c, <<New(hAesKey)>>, a, b)
  <2>1. n <= 1
    OBVIOUS
  <2> QED
    BY <1>1, <2>1, SpecialInstructions
<1> QED
  BY <1>1, <1>6, <1>7 DEF Except, Sound

\* The secret is derived
LEMMA SecretStep ==
  ASSUME NEW c, c.view = "holdings", NEW a, Sound(c, a), a["secret"] = Sv(0, 0, 1, 0, 0)
  PROVE  \E b : /\ Runs(c, <<New(Shared)>>, a, b) /\ Sound(c, b) /\ b["secret"] = Sv(1, 1, 1, 0, 0)
                /\ Except(a, b, "secret")
<1>1. PICK v, b : v = Sv(1, 1, 1, 0, 0) /\ b = Put(a, "secret", v)
  OBVIOUS
<1>2. v.n = 1 /\ v.member = 1 /\ v.open = 1 /\ v.hkdf = 0 /\ v.twice = 0
  BY <1>1 DEF Sv
<1>3. SafeSecret(c, v)
  BY <1>2 DEF SafeSecret
<1>4. Holdings(a) /\ Safe(c, a) /\ 0 = a["secret"].hkdf
  BY DEF Sound, Sv
<1>5. 0 \in 0..1 /\ 1 \in 0..1 /\ 1 \in 0..2
  OBVIOUS
<1>6. Holdings(b) /\ b["secret"] = v /\ (\A q \in Places : q # "secret" => b[q] = a[q]) /\ Safe(c, b)
  BY <1>1, <1>3, <1>4, <1>5, PutSecret
<1>7. Runs(c, <<New(Shared)>>, a, b)
  BY <1>1, SpecialInstructions
<1> QED
  BY <1>1, <1>6, <1>7 DEF Except, Sound

\* One more context of a root, on Windows, or of a hash, on Linux
LEMMA CountStep ==
  ASSUME NEW c, c.view = "holdings", NEW a, Sound(c, a), NEW n \in Nat, NEW x, NEW p,
         \/ /\ x = Allocate(rootContext) /\ p = "roots" /\ n <= Cardinality(TrustedRoots)
            /\ OnWindows(c) /\ c.name \in ChainCalls
         \/ /\ x = Allocate(mdCtx) /\ p = "contexts"
            /\ ~OnWindows(c) /\ c.name \in Secrets \cup {"report"},
         a[p] = Count(n)
  PROVE  \E b : Runs(c, <<x>>, a, b) /\ Sound(c, b) /\ b[p] = Count(n + 1) /\ Except(a, b, p)
<1>0. Cardinality(TrustedRoots) \in Nat
  BY ConstantsAssumption, FS_CardinalityType
<1>1. PICK v, b : v = Count(n + 1) /\ b = Put(a, p, v)
  OBVIOUS
<1>2. Holdings(a) /\ Safe(c, a)
  BY DEF Sound
<1>3. /\ p = "roots" => \E n1 \in 0..Cardinality(TrustedRoots) + 1 : v = Count(n1)
      /\ p = "contexts" => \E n1 \in Nat : v = Count(n1)
      /\ (p = "roots" => SafeRoots(c, v)) /\ (p = "contexts" => SafeContexts(c, v))
      /\ p \in {"key", "roots", "contexts"} /\ p # "key"
  <2>1. n + 1 \in Nat /\ (p = "roots" => n + 1 \in 0..Cardinality(TrustedRoots) + 1)
    BY <1>0
  <2> QED
    BY <1>1, <2>1 DEF SafeRoots, SafeContexts
<1>4. Holdings(b) /\ b[p] = v /\ (\A q \in Places : q # p => b[q] = a[q]) /\ Safe(c, b)
  BY <1>1, <1>2, <1>3, PutCounts
<1>5. Runs(c, <<x>>, a, b)
  BY <1>1, SpecialInstructions
<1> QED
  BY <1>1, <1>4, <1>5 DEF Except, Sound

-----------------------------------------------------------------------------
(* What a call holds: the functions of the backends *)

\* A long sequence in two parts
LEMMA InTwo ==
  ASSUME NEW c, NEW a, NEW m, NEW b, NEW u, NEW v, NEW w, NEW S, w \in Seq(S), Len(w) = Len(u) + Len(v),
         \A i \in 1..Len(u) : w[i] = u[i], \A i \in 1..Len(v) : w[Len(u) + i] = v[i],
         Runs(c, u, a, m), Runs(c, v, m, b)
  PROVE  Runs(c, w, a, b)
<1>1. IsSeq(u) /\ IsSeq(v) /\ IsSeq(w)
  BY DEF Runs, IsSeq
<1>2. Cat(u, v) = w
  BY <1>1, CatIs
<1>3. Runs(c, Cat(u, v), a, b)
  BY Then
<1> QED
  BY <1>2, <1>3

\* w is u, then v, then t
Joined(w, u, v, t) ==
  /\ IsSeq(w) /\ Len(w) = Len(u) + Len(v) + Len(t)
  /\ \A i \in 1..Len(u) : w[i] = u[i]
  /\ \A i \in 1..Len(v) : w[Len(u) + i] = v[i]
  /\ \A i \in 1..Len(t) : w[Len(u) + Len(v) + i] = t[i]

\* and in three
LEMMA InThree ==
  ASSUME NEW c, NEW a, NEW m, NEW k, NEW b, NEW u, NEW v, NEW t, NEW w, Joined(w, u, v, t),
         Runs(c, u, a, m), Runs(c, v, m, k), Runs(c, t, k, b)
  PROVE  Runs(c, w, a, b)
<1>1. IsSeq(u) /\ IsSeq(v)
  BY DEF Runs
<1>2. PICK T : u \in Seq(T) /\ v \in Seq(T)
  BY <1>1, CommonSet
<1>3. PICK z : z = u \o v
  OBVIOUS
<1>4. /\ z \in Seq(T) /\ Len(u) \in Nat /\ Len(v) \in Nat /\ Len(z) = Len(u) + Len(v)
      /\ \A i \in 1..Len(z) : z[i] = IF i <= Len(u) THEN u[i] ELSE v[i - Len(u)]
  BY <1>2, <1>3
<1>5. Runs(c, z, a, k)
  BY <1>3, Then DEF Cat
<1>6. \A i \in 1..Len(z) : w[i] = z[i]
  <2> SUFFICES ASSUME NEW i \in 1..Len(z) PROVE w[i] = z[i]
    OBVIOUS
  <2>1. CASE i <= Len(u)
    BY <1>4, <2>1 DEF Joined
  <2>2. CASE i > Len(u)
    <3>1. PICK j : j = i - Len(u)
      OBVIOUS
    <3>2. j \in 1..Len(v) /\ Len(u) + j = i /\ z[i] = v[j]
      BY <1>4, <2>2, <3>1
    <3>3. w[Len(u) + j] = v[j]
      BY <3>2 DEF Joined
    <3> QED
      BY <3>2, <3>3
  <2> QED
    BY <1>4, <2>1, <2>2
<1>7. Len(w) = Len(z) + Len(t) /\ \A i \in 1..Len(t) : w[Len(z) + i] = t[i]
  BY <1>4 DEF Joined
<1>8. PICK S : w \in Seq(S)
  BY DEF Joined, IsSeq
<1> QED
  BY <1>5, <1>6, <1>7, <1>8, InTwo

\* Of the owners an ECDH key, and the buffers of its import and export
LEMMA OwnerNames ==
  /\ "aesWrapper" \in Owners /\ "ecdhPrivate" \in Owners /\ "ecdhPublic" \in Owners
  /\ "ImportPkcs8PrivateKey" \in Owners /\ "ImportSubjectPublicKeyInfo" \in Owners
  /\ "ExportPkcs8PrivateKey" \in Owners /\ "ExportSubjectPublicKeyInfo" \in Owners
  /\ "hkdf" \in Owners /\ "Expand" \in Owners /\ "BcryptSha" \in Owners /\ "x509" \in Owners
  /\ "intermediate" \in Owners /\ "VerifySignature" \in Owners /\ "rootCA" \in Owners
  /\ "intermediateCA" \in Owners /\ "leafCert" \in Owners /\ "convertToBcryptKey" \in Owners
  /\ "generateKey" \in Owners
BY DEF Owners

\* Every place but two is as it was
Except2(a, b, o, q) == \A p \in Places : p # o /\ p # q => b[p] = a[p]

\* Tests and requests change nothing
LEMMA StillRun ==
  ASSUME NEW c, c.view = "holdings", NEW a, Sound(c, a), NEW x, x.op \in StillOps
  PROVE  Runs(c, <<x>>, a, a)
<1>1. Still(<<x>>)
  BY StillTuples
<1> QED
  BY <1>1, StillRuns

\* An ECDH object has its key
LEMMA EcdhKeyStep ==
  ASSUME NEW c, c.view = "holdings", NEW a, Sound(c, a), NEW o \in {"ecdhPrivate", "ecdhPublic"}, NEW p,
         a[o] = V({"hEcHandle"}, {"hEcHandle"}, p), "hEcHandle" \in p, "hEccKeyHandle" \in p
  PROVE  \E b : /\ Runs(c, <<New(hEccKeyHandle(o))>>, a, b) /\ Sound(c, b) /\ Except(a, b, o)
                /\ b[o] = V({"hEcHandle", "hEccKeyHandle"}, {"hEcHandle", "hEccKeyHandle"}, p)
<1>1. PICK l, m, l2, m2, n : /\ l = {"hEcHandle"} /\ m = l /\ n = "hEccKeyHandle" /\ l2 = {"hEcHandle", "hEccKeyHandle"}
                             /\ m2 = l2
  OBVIOUS
<1>2. o \in Owners /\ Ordinary(o, n) /\ o # "hkdf"
  BY <1>1, OwnerNames DEF Ordinary
<1>3. SafeOwner(c, o, V(l2, m2, p))
  <2>1. l2 \ (p \cap m2) \subseteq Never(c, o) \cup OnError(c, o) /\ p \cap m2 \subseteq l2
    BY <1>1
  <2> QED
    BY <2>1, SafeIs
<1>4. a[o] = V(l, m, p) /\ n \notin l /\ l2 = l \cup {n} /\ m2 = m \cup {n}
  BY <1>1
<1>5. PICK x : x = New(<<o, n>>)
  OBVIOUS
<1>6. \E b : Runs(c, <<x>>, a, b) /\ Sound(c, b) /\ b[o] = V(l2, m2, p) /\ Except(a, b, o)
  BY <1>2, <1>3, <1>4, <1>5, OwnerStep
<1> QED
  BY <1>1, <1>5, <1>6 DEF hEccKeyHandle

\* Buffers that no member refers to
Loose(l) == V(l, {}, {})

\* One is allocated or released
LEMMA BufferStep ==
  ASSUME NEW c, c.view = "holdings", NEW a, Sound(c, a), NEW o \in Owners, NEW n, Ordinary(o, n), o # "hkdf",
         NEW l, a[o] = Loose(l), NEW l2, l2 \subseteq Never(c, o) \cup OnError(c, o), NEW x,
         \/ x = Allocate(<<o, n>>) /\ n \notin l /\ l2 = l \cup {n}
         \/ x = Malloc(<<o, n>>) /\ n \notin l /\ l2 = l \cup {n}
         \/ x = Release(<<o, n>>) /\ l2 = l \ {n}
  PROVE  \E b : Runs(c, <<x>>, a, b) /\ Sound(c, b) /\ b[o] = Loose(l2) /\ Except(a, b, o)
<1>1. PICK m, p : m = {} /\ p = {}
  OBVIOUS
<1>2. a[o] = V(l, m, p) /\ Loose(l2) = V(l2, m, p)
  BY <1>1 DEF Loose
<1>3. SafeOwner(c, o, V(l2, m, p))
  <2>1. l2 \ (p \cap m) \subseteq Never(c, o) \cup OnError(c, o) /\ p \cap m \subseteq l2
    BY <1>1
  <2> QED
    BY <2>1, SafeIs
<1>4. \/ x = Allocate(<<o, n>>) /\ n \notin l /\ l2 = l \cup {n} /\ m = m
      \/ x = Malloc(<<o, n>>) /\ n \notin l /\ l2 = l \cup {n} /\ m = m
      \/ x = Release(<<o, n>>) /\ l2 = l \ {n} /\ m = m
  OBVIOUS
<1>5. \E b : Runs(c, <<x>>, a, b) /\ Sound(c, b) /\ b[o] = V(l2, m, p) /\ Except(a, b, o)
  BY <1>2, <1>3, <1>4, OwnerStep
<1> QED
  BY <1>2, <1>5

\* The private key of a token: pekb stays
LEMMA ImportPkcs8Held ==
  ASSUME NEW c, c.view = "holdings", c.name = "unwrap", OnWindows(c), Windows, NEW a, Sound(c, a),
         a["ImportPkcs8PrivateKey"] = Loose({}), NEW p,
         a["ecdhPrivate"] = V({"hEcHandle"}, {"hEcHandle"}, p), "hEcHandle" \in p, "hEccKeyHandle" \in p
  PROVE  \E b : /\ Runs(c, ImportPkcs8PrivateKey("ecdhPrivate"), a, b) /\ Sound(c, b)
                /\ b["ImportPkcs8PrivateKey"] = Loose({"pekb"})
                /\ b["ecdhPrivate"] = V({"hEcHandle", "hEccKeyHandle"}, {"hEcHandle", "hEccKeyHandle"}, p)
                /\ Except2(a, b, "ImportPkcs8PrivateKey", "ecdhPrivate")
<1>0. PICK o, n1, n2, n3, l0, l1, l2, l3, l4, l5 :
        /\ o = "ImportPkcs8PrivateKey" /\ n1 = "privateKeyInfo" /\ n2 = "eccPrivateInfo" /\ n3 = "pekb"
        /\ l0 = {} /\ l1 = l0 \cup {n1} /\ l2 = l1 \cup {n2} /\ l3 = l2 \cup {n3}
        /\ l4 = l3 \ {n1} /\ l5 = l4 \ {n2}
  OBVIOUS
<1>1. PICK x1, x2, x3, x4, x5, y1, y2, y3, y4, y5, y6 :
        /\ x1 = Test("is_pkcs8") /\ x2 = Test("is_ecc") /\ x3 = Test("point_known") /\ x4 = CopyKey
        /\ x5 = Test("cng_takes_private")
        /\ y1 = Allocate(<<o, n1>>) /\ y2 = Allocate(<<o, n2>>) /\ y3 = Allocate(<<o, n3>>)
        /\ y4 = Release(<<o, n1>>) /\ y5 = Release(<<o, n2>>) /\ y6 = New(hEccKeyHandle("ecdhPrivate"))
  OBVIOUS
<1>2. ImportPkcs8PrivateKey("ecdhPrivate") = <<x1, y1, x2, y2, x3, y3, x4, y4, y5, x5, y6>>
  BY <1>0, <1>1, Zenon DEF ImportPkcs8PrivateKey, Bcrypt_ImportPkcs8PrivateKey, Buffer
<1>3. /\ o \in Owners /\ o # "hkdf" /\ Ordinary(o, n1) /\ Ordinary(o, n2) /\ Ordinary(o, n3)
      /\ l3 \subseteq Never(c, o) \cup OnError(c, o)
      /\ n1 \notin l0 /\ n2 \notin l1 /\ n3 \notin l2
  BY <1>0, OwnerNames DEF Ordinary, Never, OnError
<1>4. /\ l1 \subseteq l3 /\ l2 \subseteq l3 /\ l4 \subseteq l3 /\ l5 \subseteq l3 /\ l5 = {"pekb"}
  BY <1>0
<1>5. \A b : Sound(c, b) => /\ Runs(c, <<x1>>, b, b) /\ Runs(c, <<x2>>, b, b) /\ Runs(c, <<x3>>, b, b)
                            /\ Runs(c, <<x4>>, b, b) /\ Runs(c, <<x5>>, b, b)
  BY <1>1, StillRun, StillInstructions
<1>6. PICK b1 : Runs(c, <<y1>>, a, b1) /\ Sound(c, b1) /\ b1[o] = Loose(l1) /\ Except(a, b1, o)
  BY <1>0, <1>1, <1>3, <1>4, BufferStep
<1>7. PICK b2 : Runs(c, <<y2>>, b1, b2) /\ Sound(c, b2) /\ b2[o] = Loose(l2) /\ Except(b1, b2, o)
  BY <1>0, <1>1, <1>3, <1>4, <1>6, BufferStep
<1>8. PICK b3 : Runs(c, <<y3>>, b2, b3) /\ Sound(c, b3) /\ b3[o] = Loose(l3) /\ Except(b2, b3, o)
  BY <1>0, <1>1, <1>3, <1>4, <1>7, BufferStep
<1>9. PICK b4 : Runs(c, <<y4>>, b3, b4) /\ Sound(c, b4) /\ b4[o] = Loose(l4) /\ Except(b3, b4, o)
  BY <1>0, <1>1, <1>3, <1>4, <1>8, BufferStep
<1>10. PICK b5 : Runs(c, <<y5>>, b4, b5) /\ Sound(c, b5) /\ b5[o] = Loose(l5) /\ Except(b4, b5, o)
  BY <1>0, <1>1, <1>3, <1>4, <1>9, BufferStep
<1>11. Except(a, b5, o)
  BY <1>6, <1>7, <1>8, <1>9, <1>10 DEF Except
<1>12. b5["ecdhPrivate"] = a["ecdhPrivate"]
  BY <1>0, <1>11, OwnerNames, PlaceNames DEF Except
<1>13. PICK b6 : /\ Runs(c, <<y6>>, b5, b6) /\ Sound(c, b6) /\ Except(b5, b6, "ecdhPrivate")
                 /\ b6["ecdhPrivate"] = V({"hEcHandle", "hEccKeyHandle"}, {"hEcHandle", "hEccKeyHandle"}, p)
  BY <1>1, <1>10, <1>12, EcdhKeyStep
<1>14. /\ Runs(c, <<x1, y1, x2, y2, x3>>, a, b2) /\ Runs(c, <<y3, x4, y4, y5, x5>>, b2, b5)
       /\ Runs(c, <<y6>>, b5, b6)
  BY <1>5, <1>6, <1>7, <1>8, <1>9, <1>10, <1>13, Few
<1>15. Runs(c, <<x1, y1, x2, y2, x3, y3, x4, y4, y5, x5, y6>>, a, b6)
  <2> DEFINE u == <<x1, y1, x2, y2, x3>>
             v == <<y3, x4, y4, y5, x5>>
             t == <<y6>>
             w == <<x1, y1, x2, y2, x3, y3, x4, y4, y5, x5, y6>>
  <2>1. /\ Len(u) = 5 /\ Len(v) = 5 /\ Len(t) = 1 /\ Len(w) = 11
        /\ w \in Seq({x1, y1, x2, y2, x3, y3, x4, y4, y5, x5, y6})
        /\ w[1] = u[1] /\ w[2] = u[2] /\ w[3] = u[3] /\ w[4] = u[4] /\ w[5] = u[5]
        /\ w[6] = v[1] /\ w[7] = v[2] /\ w[8] = v[3] /\ w[9] = v[4] /\ w[10] = v[5]
        /\ w[11] = t[1]
    OBVIOUS
  <2>2. Runs(c, u, a, b2) /\ Runs(c, v, b2, b5) /\ Runs(c, t, b5, b6)
    BY <1>14
  <2> HIDE DEF u, v, t, w
  <2>3. Joined(w, u, v, t)
    BY <2>1 DEF Joined, IsSeq
  <2>4. Runs(c, w, a, b6)
    BY <2>2, <2>3, InThree
  <2> QED
    BY <2>4 DEF w
<1>16. Runs(c, ImportPkcs8PrivateKey("ecdhPrivate"), a, b6)
  BY <1>2, <1>15, Zenon
<1>17. b6[o] = Loose({"pekb"}) /\ Except2(a, b6, o, "ecdhPrivate")
  BY <1>0, <1>3, <1>4, <1>10, <1>11, <1>13, PlaceNames DEF Except, Except2
<1> QED
  BY <1>0, <1>13, <1>16, <1>17

\* The public key of a token: pekb stays
LEMMA ImportSpkiHeld ==
  ASSUME NEW c, c.view = "holdings", c.name = "unwrap", OnWindows(c), Windows, NEW a, Sound(c, a),
         a["ImportSubjectPublicKeyInfo"] = Loose({}), NEW p,
         a["ecdhPublic"] = V({"hEcHandle"}, {"hEcHandle"}, p), "hEcHandle" \in p, "hEccKeyHandle" \in p
  PROVE  \E b : /\ Runs(c, ImportSubjectPublicKeyInfo("ecdhPublic"), a, b) /\ Sound(c, b)
                /\ b["ImportSubjectPublicKeyInfo"] = Loose({"pekb"})
                /\ b["ecdhPublic"] = V({"hEcHandle", "hEccKeyHandle"}, {"hEcHandle", "hEccKeyHandle"}, p)
                /\ Except2(a, b, "ImportSubjectPublicKeyInfo", "ecdhPublic")
<1>0. PICK o, n1, n2, l0, l1, l2, l3 :
        /\ o = "ImportSubjectPublicKeyInfo" /\ n1 = "PublicKeyInfo" /\ n2 = "pekb"
        /\ l0 = {} /\ l1 = l0 \cup {n1} /\ l2 = l1 \cup {n2} /\ l3 = l2 \ {n1}
  OBVIOUS
<1>1. PICK x1, x2, y1, y2, y3, y4 :
        /\ x1 = Test("is_spki") /\ x2 = Test("cng_takes_public")
        /\ y1 = Allocate(<<o, n1>>) /\ y2 = Allocate(<<o, n2>>) /\ y3 = Release(<<o, n1>>)
        /\ y4 = New(hEccKeyHandle("ecdhPublic"))
  OBVIOUS
<1>2. ImportSubjectPublicKeyInfo("ecdhPublic") = <<x1, y1, y2, y3, x2, y4>>
  BY <1>0, <1>1, Zenon DEF ImportSubjectPublicKeyInfo, Bcrypt_ImportSubjectPublicKeyInfo, Buffer
<1>3. /\ o \in Owners /\ o # "hkdf" /\ Ordinary(o, n1) /\ Ordinary(o, n2)
      /\ l2 \subseteq Never(c, o) \cup OnError(c, o) /\ n1 \notin l0 /\ n2 \notin l1
  BY <1>0, OwnerNames DEF Ordinary, Never, OnError
<1>4. /\ l1 \subseteq l2 /\ l3 \subseteq l2 /\ l3 = {"pekb"}
  BY <1>0
<1>5. \A b : Sound(c, b) => Runs(c, <<x1>>, b, b) /\ Runs(c, <<x2>>, b, b)
  BY <1>1, StillRun, StillInstructions
<1>6. PICK b1 : Runs(c, <<y1>>, a, b1) /\ Sound(c, b1) /\ b1[o] = Loose(l1) /\ Except(a, b1, o)
  BY <1>0, <1>1, <1>3, <1>4, BufferStep
<1>7. PICK b2 : Runs(c, <<y2>>, b1, b2) /\ Sound(c, b2) /\ b2[o] = Loose(l2) /\ Except(b1, b2, o)
  BY <1>0, <1>1, <1>3, <1>4, <1>6, BufferStep
<1>8. PICK b3 : Runs(c, <<y3>>, b2, b3) /\ Sound(c, b3) /\ b3[o] = Loose(l3) /\ Except(b2, b3, o)
  BY <1>0, <1>1, <1>3, <1>4, <1>7, BufferStep
<1>9. Except(a, b3, o)
  BY <1>6, <1>7, <1>8 DEF Except
<1>10. b3["ecdhPublic"] = a["ecdhPublic"]
  BY <1>0, <1>9, OwnerNames, PlaceNames DEF Except
<1>11. PICK b4 : /\ Runs(c, <<y4>>, b3, b4) /\ Sound(c, b4) /\ Except(b3, b4, "ecdhPublic")
                 /\ b4["ecdhPublic"] = V({"hEcHandle", "hEccKeyHandle"}, {"hEcHandle", "hEccKeyHandle"}, p)
  BY <1>1, <1>8, <1>10, EcdhKeyStep
<1>12. Runs(c, <<x1, y1, y2, y3, x2>>, a, b3)
  BY <1>5, <1>6, <1>7, <1>8, Few
<1>13. Runs(c, <<x1, y1, y2, y3, x2, y4>>, a, b4)
  <2> DEFINE u == <<x1, y1, y2, y3, x2>>
             v == <<y4>>
             w == <<x1, y1, y2, y3, x2, y4>>
  <2>1. /\ Len(u) = 5 /\ Len(v) = 1 /\ Len(w) = 6 /\ w \in Seq({x1, y1, x2, y2, y3, y4})
        /\ w[1] = u[1] /\ w[2] = u[2] /\ w[3] = u[3] /\ w[4] = u[4] /\ w[5] = u[5]
        /\ w[6] = v[1]
    OBVIOUS
  <2>2. Runs(c, u, a, b3) /\ Runs(c, v, b3, b4)
    BY <1>11, <1>12
  <2> HIDE DEF u, v, w
  <2>3. /\ Len(w) = Len(u) + Len(v) /\ \A i \in 1..Len(u) : w[i] = u[i]
        /\ \A i \in 1..Len(v) : w[Len(u) + i] = v[i]
    BY <2>1
  <2>4. Runs(c, w, a, b4)
    BY <2>1, <2>2, <2>3, InTwo
  <2> QED
    BY <2>4 DEF w
<1>14. Runs(c, ImportSubjectPublicKeyInfo("ecdhPublic"), a, b4)
  BY <1>2, <1>13, Zenon
<1>15. b4[o] = Loose({"pekb"}) /\ Except2(a, b4, o, "ecdhPublic")
  BY <1>0, <1>3, <1>4, <1>8, <1>9, <1>11, PlaceNames DEF Except, Except2
<1> QED
  BY <1>0, <1>11, <1>14, <1>15

\* The exported private key: no buffer is given back
LEMMA ExportPkcs8Held ==
  ASSUME NEW c, c.view = "holdings", c.name = "protect", OnWindows(c), Windows, NEW a, Sound(c, a),
         a["ExportPkcs8PrivateKey"] = Loose({})
  PROVE  \E b : /\ Runs(c, ExportPkcs8PrivateKey, a, b) /\ Sound(c, b)
                /\ b["ExportPkcs8PrivateKey"] = Loose(Never(c, "ExportPkcs8PrivateKey"))
                /\ Except(a, b, "ExportPkcs8PrivateKey")
<1>0. PICK o, n1, n2, n3, n4, n5, n6, l0, l1, l2, l3, l4, l5, l6 :
        /\ o = "ExportPkcs8PrivateKey" /\ n1 = "privateKeyBlob" /\ n2 = "pbCurveParameters"
        /\ n3 = "PublicKey" /\ n4 = "CryptBitBlob" /\ n5 = "privateKeyInfo"
        /\ n6 = "derPrivateBytes"
        /\ l0 = {} /\ l1 = l0 \cup {n1} /\ l2 = l1 \cup {n2} /\ l3 = l2 \cup {n3}
        /\ l4 = l3 \cup {n4} /\ l5 = l4 \cup {n5} /\ l6 = l5 \cup {n6}
  OBVIOUS
<1>1. PICK x, z, y1, y2, y3, y4, y5, y6 :
        /\ x = Request /\ z = Write("private", "good") /\ y1 = Malloc(<<o, n1>>)
        /\ y2 = Malloc(<<o, n2>>) /\ y3 = Malloc(<<o, n3>>) /\ y4 = Malloc(<<o, n4>>)
        /\ y5 = Allocate(<<o, n5>>) /\ y6 = Allocate(<<o, n6>>)
  OBVIOUS
<1>2. ExportPkcs8PrivateKey = <<x, y1, x, y2, x, y3, y4, x, y5, x, y6, z>>
  BY <1>0, <1>1, Zenon DEF ExportPkcs8PrivateKey, Bcrypt_ExportPkcs8PrivateKey, Buffer
<1>3. /\ o \in Owners /\ o # "hkdf" /\ l6 = Never(c, o)
      /\ Ordinary(o, n1) /\ Ordinary(o, n2) /\ Ordinary(o, n3) /\ Ordinary(o, n4)
      /\ Ordinary(o, n5) /\ Ordinary(o, n6)
      /\ n1 \notin l0 /\ n2 \notin l1 /\ n3 \notin l2 /\ n4 \notin l3 /\ n5 \notin l4 /\ n6 \notin l5
  BY <1>0, OwnerNames DEF Ordinary, Never
<1>4. /\ l1 \subseteq Never(c, o) \cup OnError(c, o) /\ l2 \subseteq Never(c, o) \cup OnError(c, o)
      /\ l3 \subseteq Never(c, o) \cup OnError(c, o) /\ l4 \subseteq Never(c, o) \cup OnError(c, o)
      /\ l5 \subseteq Never(c, o) \cup OnError(c, o) /\ l6 \subseteq Never(c, o) \cup OnError(c, o)
  BY <1>0, <1>3
<1>5. \A b : Sound(c, b) => Runs(c, <<x>>, b, b) /\ Runs(c, <<z>>, b, b)
  BY <1>1, StillRun, StillInstructions
<1>6. PICK b1 : Runs(c, <<y1>>, a, b1) /\ Sound(c, b1) /\ b1[o] = Loose(l1) /\ Except(a, b1, o)
  BY <1>0, <1>1, <1>3, <1>4, BufferStep
<1>7. PICK b2 : Runs(c, <<y2>>, b1, b2) /\ Sound(c, b2) /\ b2[o] = Loose(l2) /\ Except(b1, b2, o)
  BY <1>0, <1>1, <1>3, <1>4, <1>6, BufferStep
<1>8. PICK b3 : Runs(c, <<y3>>, b2, b3) /\ Sound(c, b3) /\ b3[o] = Loose(l3) /\ Except(b2, b3, o)
  BY <1>0, <1>1, <1>3, <1>4, <1>7, BufferStep
<1>9. PICK b4 : Runs(c, <<y4>>, b3, b4) /\ Sound(c, b4) /\ b4[o] = Loose(l4) /\ Except(b3, b4, o)
  BY <1>0, <1>1, <1>3, <1>4, <1>8, BufferStep
<1>10. PICK b5 : Runs(c, <<y5>>, b4, b5) /\ Sound(c, b5) /\ b5[o] = Loose(l5) /\ Except(b4, b5, o)
  BY <1>0, <1>1, <1>3, <1>4, <1>9, BufferStep
<1>11. PICK b6 : Runs(c, <<y6>>, b5, b6) /\ Sound(c, b6) /\ b6[o] = Loose(l6) /\ Except(b5, b6, o)
  BY <1>0, <1>1, <1>3, <1>4, <1>10, BufferStep
<1>12. Except(a, b6, o)
  BY <1>6, <1>7, <1>8, <1>9, <1>10, <1>11 DEF Except
<1>13. /\ Runs(c, <<x, y1, x, y2, x>>, a, b2) /\ Runs(c, <<y3, y4, x, y5, x>>, b2, b5)
       /\ Runs(c, <<y6, z>>, b5, b6)
  BY <1>5, <1>6, <1>7, <1>8, <1>9, <1>10, <1>11, Few
<1>14. Runs(c, <<x, y1, x, y2, x, y3, y4, x, y5, x, y6, z>>, a, b6)
  <2> DEFINE u == <<x, y1, x, y2, x>>
             v == <<y3, y4, x, y5, x>>
             t == <<y6, z>>
             w == <<x, y1, x, y2, x, y3, y4, x, y5, x, y6, z>>
  <2>1. /\ Len(u) = 5 /\ Len(v) = 5 /\ Len(t) = 2 /\ Len(w) = 12
        /\ w \in Seq({x, y1, y2, y3, y4, y5, y6, z})
        /\ w[1] = u[1] /\ w[2] = u[2] /\ w[3] = u[3] /\ w[4] = u[4] /\ w[5] = u[5]
        /\ w[6] = v[1] /\ w[7] = v[2] /\ w[8] = v[3] /\ w[9] = v[4] /\ w[10] = v[5]
        /\ w[11] = t[1] /\ w[12] = t[2]
    OBVIOUS
  <2>2. Runs(c, u, a, b2) /\ Runs(c, v, b2, b5) /\ Runs(c, t, b5, b6)
    BY <1>13
  <2> HIDE DEF u, v, t, w
  <2>3. Joined(w, u, v, t)
    BY <2>1 DEF Joined, IsSeq
  <2>4. Runs(c, w, a, b6)
    BY <2>2, <2>3, InThree
  <2> QED
    BY <2>4 DEF w
<1>15. Runs(c, ExportPkcs8PrivateKey, a, b6)
  BY <1>2, <1>14, Zenon
<1> QED
  BY <1>0, <1>3, <1>11, <1>12, <1>15

\* The exported public key
LEMMA ExportSpkiHeld ==
  ASSUME NEW c, c.view = "holdings", c.name = "protect", OnWindows(c), Windows, NEW a, Sound(c, a),
         a["ExportSubjectPublicKeyInfo"] = Loose({})
  PROVE  \E b : /\ Runs(c, ExportSubjectPublicKeyInfo, a, b) /\ Sound(c, b)
                /\ b["ExportSubjectPublicKeyInfo"] = Loose(Never(c, "ExportSubjectPublicKeyInfo"))
                /\ Except(a, b, "ExportSubjectPublicKeyInfo")
<1>0. PICK o, n1, n2, n3, n4, n5, n6, n7, l0, l1, l2, l3, l4, l5, l6, l7 :
        /\ o = "ExportSubjectPublicKeyInfo" /\ n1 = "publicKeyBlob" /\ n2 = "CryptBitBlob"
        /\ n3 = "pbCurveParameters" /\ n4 = "PublicKey" /\ n5 = "Parameters"
        /\ n6 = "pszObjId" /\ n7 = "derPublicBytes"
        /\ l0 = {} /\ l1 = l0 \cup {n1} /\ l2 = l1 \cup {n2} /\ l3 = l2 \cup {n3}
        /\ l4 = l3 \cup {n4} /\ l5 = l4 \cup {n5} /\ l6 = l5 \cup {n6} /\ l7 = l6 \cup {n7}
  OBVIOUS
<1>1. PICK x, z, y1, y2, y3, y4, y5, y6, y7 :
        /\ x = Request /\ z = Write("public", "good") /\ y1 = Allocate(<<o, n1>>)
        /\ y2 = Malloc(<<o, n2>>) /\ y3 = Allocate(<<o, n3>>) /\ y4 = Allocate(<<o, n4>>)
        /\ y5 = Allocate(<<o, n5>>) /\ y6 = Allocate(<<o, n6>>) /\ y7 = Allocate(<<o, n7>>)
  OBVIOUS
<1>2. ExportSubjectPublicKeyInfo = <<x, y1, x, y2, x, y3, x, y4, y5, y6, x, y7, z>>
  BY <1>0, <1>1, Zenon DEF ExportSubjectPublicKeyInfo, Bcrypt_ExportSubjectPublicKeyInfo, Buffer
<1>3. /\ o \in Owners /\ o # "hkdf" /\ l7 = Never(c, o)
      /\ Ordinary(o, n1) /\ Ordinary(o, n2) /\ Ordinary(o, n3) /\ Ordinary(o, n4)
      /\ Ordinary(o, n5) /\ Ordinary(o, n6) /\ Ordinary(o, n7)
      /\ n1 \notin l0 /\ n2 \notin l1 /\ n3 \notin l2 /\ n4 \notin l3 /\ n5 \notin l4 /\ n6 \notin l5 /\ n7 \notin l6
  BY <1>0, OwnerNames DEF Ordinary, Never
<1>4. /\ l1 \subseteq Never(c, o) \cup OnError(c, o) /\ l2 \subseteq Never(c, o) \cup OnError(c, o)
      /\ l3 \subseteq Never(c, o) \cup OnError(c, o) /\ l4 \subseteq Never(c, o) \cup OnError(c, o)
      /\ l5 \subseteq Never(c, o) \cup OnError(c, o) /\ l6 \subseteq Never(c, o) \cup OnError(c, o)
      /\ l7 \subseteq Never(c, o) \cup OnError(c, o)
  BY <1>0, <1>3
<1>5. \A b : Sound(c, b) => Runs(c, <<x>>, b, b) /\ Runs(c, <<z>>, b, b)
  BY <1>1, StillRun, StillInstructions
<1>6. PICK b1 : Runs(c, <<y1>>, a, b1) /\ Sound(c, b1) /\ b1[o] = Loose(l1) /\ Except(a, b1, o)
  BY <1>0, <1>1, <1>3, <1>4, BufferStep
<1>7. PICK b2 : Runs(c, <<y2>>, b1, b2) /\ Sound(c, b2) /\ b2[o] = Loose(l2) /\ Except(b1, b2, o)
  BY <1>0, <1>1, <1>3, <1>4, <1>6, BufferStep
<1>8. PICK b3 : Runs(c, <<y3>>, b2, b3) /\ Sound(c, b3) /\ b3[o] = Loose(l3) /\ Except(b2, b3, o)
  BY <1>0, <1>1, <1>3, <1>4, <1>7, BufferStep
<1>9. PICK b4 : Runs(c, <<y4>>, b3, b4) /\ Sound(c, b4) /\ b4[o] = Loose(l4) /\ Except(b3, b4, o)
  BY <1>0, <1>1, <1>3, <1>4, <1>8, BufferStep
<1>10. PICK b5 : Runs(c, <<y5>>, b4, b5) /\ Sound(c, b5) /\ b5[o] = Loose(l5) /\ Except(b4, b5, o)
  BY <1>0, <1>1, <1>3, <1>4, <1>9, BufferStep
<1>11. PICK b6 : Runs(c, <<y6>>, b5, b6) /\ Sound(c, b6) /\ b6[o] = Loose(l6) /\ Except(b5, b6, o)
  BY <1>0, <1>1, <1>3, <1>4, <1>10, BufferStep
<1>12. PICK b7 : Runs(c, <<y7>>, b6, b7) /\ Sound(c, b7) /\ b7[o] = Loose(l7) /\ Except(b6, b7, o)
  BY <1>0, <1>1, <1>3, <1>4, <1>11, BufferStep
<1>13. Except(a, b7, o)
  BY <1>6, <1>7, <1>8, <1>9, <1>10, <1>11, <1>12 DEF Except
<1>14. /\ Runs(c, <<x, y1, x, y2, x>>, a, b2) /\ Runs(c, <<y3, x, y4, y5, y6>>, b2, b6)
       /\ Runs(c, <<x, y7, z>>, b6, b7)
  BY <1>5, <1>6, <1>7, <1>8, <1>9, <1>10, <1>11, <1>12, Few
<1>15. Runs(c, <<x, y1, x, y2, x, y3, x, y4, y5, y6, x, y7, z>>, a, b7)
  <2> DEFINE u == <<x, y1, x, y2, x>>
             v == <<y3, x, y4, y5, y6>>
             t == <<x, y7, z>>
             w == <<x, y1, x, y2, x, y3, x, y4, y5, y6, x, y7, z>>
  <2>1. /\ Len(u) = 5 /\ Len(v) = 5 /\ Len(t) = 3 /\ Len(w) = 13
        /\ w \in Seq({x, y1, y2, y3, y4, y5, y6, y7, z})
        /\ w[1] = u[1] /\ w[2] = u[2] /\ w[3] = u[3] /\ w[4] = u[4] /\ w[5] = u[5]
        /\ w[6] = v[1] /\ w[7] = v[2] /\ w[8] = v[3] /\ w[9] = v[4] /\ w[10] = v[5]
        /\ w[11] = t[1] /\ w[12] = t[2] /\ w[13] = t[3]
    OBVIOUS
  <2>2. Runs(c, u, a, b2) /\ Runs(c, v, b2, b6) /\ Runs(c, t, b6, b7)
    BY <1>14
  <2> HIDE DEF u, v, t, w
  <2>3. Joined(w, u, v, t)
    BY <2>1 DEF Joined, IsSeq
  <2>4. Runs(c, w, a, b7)
    BY <2>2, <2>3, InThree
  <2> QED
    BY <2>4 DEF w
<1>16. Runs(c, ExportSubjectPublicKeyInfo, a, b7)
  BY <1>2, <1>15, Zenon
<1> QED
  BY <1>0, <1>3, <1>12, <1>13, <1>16

\* A buffer that is released again: Bcrypt_Expand, generateKey
LEMMA BorrowHeld ==
  ASSUME NEW c, c.view = "holdings", NEW a, Sound(c, a), NEW o \in Owners, o # "hkdf", NEW n, Ordinary(o, n),
         n \in OnError(c, o), a[o] = Loose({}), NEW x, NEW y, x = Allocate(<<o, n>>), y = Release(<<o, n>>)
  PROVE  Runs(c, <<x, Request, y>>, a, a) /\ Runs(c, <<x, Request, y, Request>>, a, a)
<1>0. PICK l0, l1 : l0 = {} /\ l1 = l0 \cup {n}
  OBVIOUS
<1>1. n \notin l0 /\ l1 \subseteq Never(c, o) \cup OnError(c, o) /\ l0 \subseteq Never(c, o) \cup OnError(c, o) /\ l0 = l1 \ {n}
  BY <1>0
<1>2. PICK b1 : Runs(c, <<x>>, a, b1) /\ Sound(c, b1) /\ b1[o] = Loose(l1) /\ Except(a, b1, o)
  BY <1>0, <1>1, BufferStep
<1>3. PICK b2 : Runs(c, <<y>>, b1, b2) /\ Sound(c, b2) /\ b2[o] = Loose(l0) /\ Except(b1, b2, o)
  BY <1>1, <1>2, BufferStep
<1>4. b2 = a
  <2>1. Holdings(a) /\ Holdings(b2)
    BY <1>3 DEF Sound
  <2>2. \A q \in Places : b2[q] = a[q]
    BY <1>0, <1>2, <1>3 DEF Except
  <2> QED
    BY <2>1, <2>2, SamePlaces, PlaceNames
<1>5. Runs(c, <<Request>>, b1, b1) /\ Runs(c, <<Request>>, a, a)
  BY <1>2, StillRun, StillInstructions
<1> QED
  BY <1>2, <1>3, <1>4, <1>5, Few

\* One round of HKDF, and the tests' keys on Linux
LEMMA BorrowedHeld ==
  ASSUME NEW c, c.view = "holdings", NEW a, Sound(c, a)
  PROVE  /\ a["Expand"] = Loose({}) => Runs(c, DeriveKey, a, a)
         /\ a["generateKey"] = Loose({}) => Runs(c, generateKey, a, a)
<1>1. ASSUME a["Expand"] = Loose({}) PROVE Runs(c, DeriveKey, a, a)
  <2>1. "hHash" \in OnError(c, "Expand") /\ Ordinary("Expand", "hHash") /\ "Expand" \in Owners
    BY OwnerNames DEF OnError, Ordinary
  <2>2. PICK q, n, x, y : q = "Expand" /\ n = "hHash" /\ x = Allocate(<<q, n>>) /\ y = Release(<<q, n>>)
    OBVIOUS
  <2>3. Runs(c, <<x, Request, y>>, a, a)
    BY <1>1, <2>1, <2>2, BorrowHeld
  <2>4. Runs(c, <<Request>>, a, a)
    BY StillRun, StillInstructions
  <2>5. Bcrypt_Expand = <<x, Request, y>> /\ Bcrypt_Extract = <<Request>>
    BY <2>2, Zenon DEF Bcrypt_Expand, Bcrypt_Extract, hHash, Buffer
  <2>6. Runs(c, Cat(Bcrypt_Extract, Bcrypt_Expand), a, a)
    BY <2>3, <2>4, <2>5, Then
  <2>7. DeriveKey = Cat(Bcrypt_Extract, Bcrypt_Expand) \/ DeriveKey = <<Request>>
    BY Zenon DEF DeriveKey, Cat
  <2> QED
    BY <2>4, <2>6, <2>7
<1>2. ASSUME a["generateKey"] = Loose({}) PROVE Runs(c, generateKey, a, a)
  <2>1. "ctx" \in OnError(c, "generateKey") /\ Ordinary("generateKey", "ctx") /\ "generateKey" \in Owners
    BY OwnerNames DEF OnError, Ordinary
  <2>2. PICK q, n, x, y : q = "generateKey" /\ n = "ctx" /\ x = Allocate(<<q, n>>) /\ y = Release(<<q, n>>)
    OBVIOUS
  <2>3. Runs(c, <<x, Request, y, Request>>, a, a)
    BY <1>2, <2>1, <2>2, BorrowHeld
  <2>4. generateKey = <<x, Request, y, Request>>
    BY <2>2, Zenon DEF generateKey, pkeyCtx, Buffer
  <2> QED
    BY <2>3, <2>4
<1> QED
  BY <1>1, <1>2

\* What holds nothing, or on Linux only
LEMMA StillFunctions ==
  ASSUME NEW c, c.view = "holdings", NEW a, Sound(c, a)
  PROVE  /\ Runs(c, <<Request>>, a, a) /\ \A q : Runs(c, <<Test(q)>>, a, a)
         /\ Runs(c, SetChainingInfo, a, a)
         /\ \A d : Runs(c, Encrypt(d), a, a) /\ Runs(c, Decrypt(d), a, a)
         /\ Runs(c, VerifyCertChain, a, a)
         /\ ~Windows =>
              /\ \A k : Runs(c, SetKey(k), a, a)
              /\ \A o : /\ Runs(c, GenerateKeyPair(o), a, a) /\ Runs(c, ImportPkcs8PrivateKey(o), a, a)
                        /\ Runs(c, ImportSubjectPublicKeyInfo(o), a, a)
              /\ Runs(c, ExportPkcs8PrivateKey, a, a) /\ Runs(c, ExportSubjectPublicKeyInfo, a, a)
              /\ Runs(c, DeriveSecret, a, a) /\ Runs(c, DeriveKey, a, a)
              /\ Runs(c, VerifySignature, a, a) /\ Runs(c, SignData, a, a)
<1>1. Still(<<Request>>) /\ Still(<< >>) /\ (\A q : Still(<<Test(q)>>)) /\ \A q : Still(<<Request, Test(q)>>)
  BY StillInstructions, StillTuples
<1>2. Still(SetChainingInfo)
  BY <1>1, Zenon DEF SetChainingInfo, GcmChainingInfo
<1>3. ASSUME NEW d PROVE Still(Encrypt(d)) /\ Still(Decrypt(d))
  <2>1. /\ Still(<<Measure(d, "encrypt"), Request, ChainedCalls, LastCall(d, "encrypt")>>)
        /\ Still(<<Measure(d, "decrypt"), Request, ChainedCalls, LastCall(d, "decrypt")>>)
        /\ Still(<<Measure(d, "encrypt"), Request, LastCall(d, "encrypt")>>)
        /\ Still(<<Measure(d, "decrypt"), Request, LastCall(d, "decrypt")>>)
    BY StillInstructions, StillTuples
  <2> QED
    BY <2>1, Zenon DEF Encrypt, Decrypt, GcmWrapper_Encrypt, OsslGcmWrapper_Encrypt, GcmWrapper_Decrypt,
                       OsslGcmWrapper_Decrypt
<1>4. Still(VerifyCertChain)
  BY <1>1, Zenon DEF VerifyCertChain
<1>5. ASSUME ~Windows
      PROVE  /\ \A k : Still(SetKey(k))
             /\ \A o : Still(GenerateKeyPair(o)) /\ Still(ImportPkcs8PrivateKey(o)) /\ Still(ImportSubjectPublicKeyInfo(o))
             /\ Still(ExportPkcs8PrivateKey) /\ Still(ExportSubjectPublicKeyInfo)
             /\ Still(DeriveSecret) /\ Still(DeriveKey) /\ Still(VerifySignature) /\ Still(SignData)
  <2>1. \A k : Still(SetKey(k))
    <3>1. \A k : Still(<<Assign(k)>>)
      BY StillInstructions, StillTuples
    <3> QED
      BY <1>5, <3>1, Zenon DEF SetKey, OsslGcmWrapper_SetKey
  <2>2. \A o : Still(GenerateKeyPair(o)) /\ Still(ImportPkcs8PrivateKey(o)) /\ Still(ImportSubjectPublicKeyInfo(o))
    BY <1>1, <1>5, Zenon
       DEF GenerateKeyPair, ImportPkcs8PrivateKey, ImportSubjectPublicKeyInfo, Ossl_GenerateKeyPair,
           Ossl_ImportPkcs8PrivateKey, Ossl_ImportSubjectPublicKeyInfo
  <2>3. Still(ExportPkcs8PrivateKey) /\ Still(ExportSubjectPublicKeyInfo) /\ Still(DeriveSecret) /\ Still(DeriveKey)
    <3>1. \A d, e : Still(<<Request, Write(d, e)>>)
      BY StillInstructions, StillTuples
    <3> QED
      BY <1>1, <1>5, <3>1, Zenon DEF ExportPkcs8PrivateKey, ExportSubjectPublicKeyInfo,
           Ossl_ExportPkcs8PrivateKey, Ossl_ExportSubjectPublicKeyInfo, DeriveSecret, Ossl_DeriveSecret, DeriveKey
  <2>4. Still(VerifySignature) /\ Still(SignData)
    BY <1>1, <1>5, Zenon DEF VerifySignature, Ossl_VerifySignature, SignData, Ossl_SignData
  <2> QED
    BY <2>1, <2>2, <2>3, <2>4
<1> QED
  BY <1>1, <1>2, <1>3, <1>4, <1>5, StillRuns

\* Nothing of it is to be released by another object; it is by this one
CanEnter(a, o, S, q, T, E) ==
  /\ S \cap a[o].open = {} /\ T \cap a[q].open = {}
  /\ hAesKey \in E => a["key"].open = 0
  /\ Shared \in E => a["secret"].open <= 1
CanLeave(a, o, S, q, T, E) ==
  /\ S \subseteq a[o].open /\ T \subseteq a[q].open
  /\ hAesKey \in E => a["key"].open = 1
  /\ Shared \in E => a["secret"].open >= 1

\* What its object being constructed, or destroyed, changes
HasEntered(a, b, D, o, S, q, T, E) ==
  /\ b[o] = V(a[o].live, a[o].members, a[o].open \cup S)
  /\ b[q] = V(a[q].live, a[q].members, a[q].open \cup T)
  /\ \A x \in Owners : x # o /\ x # q => b[x] = a[x]
  /\ hAesKey \in E => b["key"] = Kv(a["key"].n, a["key"].member, a["key"].open + 1)
  /\ hAesKey \notin E => b["key"] = a["key"]
  /\ Shared \in E /\ hAlg \in D =>
       b["secret"] = Sv(a["secret"].n, a["secret"].member, a["secret"].open + 1, 1, a["secret"].twice)
  /\ Shared \in E /\ hAlg \notin D =>
       b["secret"] = Sv(a["secret"].n, a["secret"].member, a["secret"].open + 1, a["secret"].hkdf,
                        a["secret"].twice)
  /\ Shared \notin E => b["secret"] = a["secret"]
  /\ b["roots"] = a["roots"] /\ b["contexts"] = a["contexts"]
HasLeft(a, b, o, S, q, T, E) ==
  /\ b[o] = V(a[o].live \ (S \cap a[o].members), a[o].members, a[o].open \ S)
  /\ b[q] = V(a[q].live \ (T \cap a[q].members), a[q].members, a[q].open \ T)
  /\ \A x \in Owners : x # o /\ x # q => b[x] = a[x]
  /\ hAesKey \in E => b["key"] = Kv(a["key"].n - a["key"].member, a["key"].member, a["key"].open - 1)
  /\ hAesKey \notin E => b["key"] = a["key"]
  /\ Shared \in E /\ a["secret"].member = 1 /\ a["secret"].n = 1 =>
       b["secret"] = Sv(0, 1, a["secret"].open - 1, a["secret"].hkdf, a["secret"].twice)
  /\ Shared \in E /\ a["secret"].member = 1 /\ a["secret"].n = 0 =>
       b["secret"] = Sv(0, 1, a["secret"].open - 1, a["secret"].hkdf, 1)
  /\ Shared \in E /\ a["secret"].member = 0 =>
       b["secret"] = Sv(a["secret"].n, 0, a["secret"].open - 1, a["secret"].hkdf, a["secret"].twice)
  /\ Shared \notin E => b["secret"] = a["secret"]
  /\ b["roots"] = a["roots"] /\ b["contexts"] = a["contexts"]

\* Its object is constructed
LEMMA Entered ==
  ASSUME NEW o \in Owners, NEW q \in Owners, o # q, NEW D, NEW S, NEW T, NEW E, Parts(D, o, S, q, T, E),
         NEW a, Holdings(a), CanEnter(a, o, S, q, T, E), NEW b, b = Opened(a, D)
  PROVE  Openable(D, a) /\ Holdings(b) /\ HasEntered(a, b, D, o, S, q, T, E)
<1>1. Openable(D, a)
  BY DEF Openable, Parts, CanEnter
<1>2. /\ Holdings(b)
      /\ \A x \in Owners : b[x] = V(a[x].live, a[x].members, a[x].open \cup Slice(D, x))
      /\ hAesKey \in D => b["key"] = Kv(a["key"].n, a["key"].member, a["key"].open + 1)
      /\ hAesKey \notin D => b["key"] = a["key"]
      /\ Shared \in D /\ hAlg \in D =>
           b["secret"] = Sv(a["secret"].n, a["secret"].member, a["secret"].open + 1, 1, a["secret"].twice)
      /\ Shared \in D /\ hAlg \notin D =>
           b["secret"] = Sv(a["secret"].n, a["secret"].member, a["secret"].open + 1, a["secret"].hkdf,
                            a["secret"].twice)
      /\ Shared \notin D => b["secret"] = a["secret"]
      /\ b["roots"] = a["roots"] /\ b["contexts"] = a["contexts"]
  BY <1>1, OpenedFacts
<1>3. ASSUME NEW x \in Owners, x # o, x # q PROVE b[x] = a[x]
  <2>1. a[x].open \cup Slice(D, x) = a[x].open
    BY <1>3 DEF Parts
  <2>2. b[x] = V(a[x].live, a[x].members, a[x].open \cup Slice(D, x))
    BY <1>2, <1>3
  <2>3. a[x] = V(a[x].live, a[x].members, a[x].open)
    BY <1>3 DEF Holdings
  <2> QED
    BY <2>1, <2>2, <2>3
<1>4. (hAesKey \in D <=> hAesKey \in E) /\ (Shared \in D <=> Shared \in E) /\ Slice(D, o) = S /\ Slice(D, q) = T
  BY DEF Parts
<1> QED
  BY <1>1, <1>2, <1>3, <1>4 DEF HasEntered

\* And destroyed
LEMMA Left ==
  ASSUME NEW o \in Owners, NEW q \in Owners, o # q, NEW D, NEW S, NEW T, NEW E, Parts(D, o, S, q, T, E),
         NEW c, NEW a, Sound(c, a), CanLeave(a, o, S, q, T, E), NEW b, b = Destroyed(a, D)
  PROVE  Pending(D, a) /\ Sound(c, b) /\ HasLeft(a, b, o, S, q, T, E)
<1>1. Pending(D, a)
  <2>1. ASSUME NEW x \in Owners PROVE Slice(D, x) \subseteq a[x].open
    BY DEF Parts, CanLeave
  <2> QED
    BY <2>1 DEF Pending, Parts, CanLeave
<1>2. /\ Sound(c, b)
      /\ \A x \in Owners : b[x] = V(a[x].live \ (Slice(D, x) \cap a[x].members), a[x].members,
                                    a[x].open \ Slice(D, x))
      /\ hAesKey \in D => b["key"] = Kv(a["key"].n - a["key"].member, a["key"].member, a["key"].open - 1)
      /\ hAesKey \notin D => b["key"] = a["key"]
      /\ Shared \in D /\ a["secret"].member = 1 /\ a["secret"].n = 1 =>
           b["secret"] = Sv(0, 1, a["secret"].open - 1, a["secret"].hkdf, a["secret"].twice)
      /\ Shared \in D /\ a["secret"].member = 1 /\ a["secret"].n = 0 =>
           b["secret"] = Sv(0, 1, a["secret"].open - 1, a["secret"].hkdf, 1)
      /\ Shared \in D /\ a["secret"].member = 0 =>
           b["secret"] = Sv(a["secret"].n, 0, a["secret"].open - 1, a["secret"].hkdf, a["secret"].twice)
      /\ Shared \notin D => b["secret"] = a["secret"]
      /\ b["roots"] = a["roots"] /\ b["contexts"] = a["contexts"]
  BY <1>1, DestroyedFacts
<1>3. ASSUME NEW x \in Owners, x # o, x # q PROVE b[x] = a[x]
  <2>1. a[x].live \ (Slice(D, x) \cap a[x].members) = a[x].live /\ a[x].open \ Slice(D, x) = a[x].open
    BY <1>3 DEF Parts
  <2>2. b[x] = V(a[x].live \ (Slice(D, x) \cap a[x].members), a[x].members, a[x].open \ Slice(D, x))
    BY <1>2, <1>3
  <2>3. a[x] = V(a[x].live, a[x].members, a[x].open)
    BY <1>3 DEF Holdings, Sound
  <2> QED
    BY <2>1, <2>2, <2>3
<1>4. (hAesKey \in D <=> hAesKey \in E) /\ (Shared \in D <=> Shared \in E) /\ Slice(D, o) = S /\ Slice(D, q) = T
  BY DEF Parts
<1> QED
  BY <1>1, <1>2, <1>3, <1>4 DEF HasLeft

\* The destructors of the two that share the secret, and of the AesWrapper
LEMMA DestructorParts ==
  /\ Parts({hAesHandle, hAesKey}, "aesWrapper", {"hAesHandle"}, "hkdf", {}, {hAesKey})
  /\ Parts({hSharedSecret("ecdhPrivate"), hEccKeyHandle("ecdhPrivate"), hEcHandle("ecdhPrivate")},
           "ecdhPrivate", {"hEcHandle", "hEccKeyHandle"}, "ecdhPublic", {}, {Shared})
  /\ Parts({hSharedSecret("ecdhPrivate"), hAlg}, "hkdf", {"hAlg"}, "Expand", {}, {Shared})
<1>1. Parts({hAesHandle, hAesKey}, "aesWrapper", {"hAesHandle"}, "hkdf", {}, {hAesKey})
  <2>1. PICK D, S, T, E, o, q : /\ D = {hAesHandle, hAesKey} /\ S = {"hAesHandle"} /\ T = {} /\ E = {hAesKey}
                                /\ o = "aesWrapper" /\ q = "hkdf"
    OBVIOUS
  <2>2. /\ o \in Owners /\ q \in Owners /\ o # q /\ E \subseteq {hAesKey, Shared}
        /\ (\A n \in S : Ordinary(o, n)) /\ \A n \in T : Ordinary(q, n)
    BY <2>1, OwnerNames DEF Ordinary
  <2>3. D = Of(o, S) \cup Of(q, T) \cup E
    BY <2>1 DEF Of, hAesHandle
  <2>4. PairsOf(D, o, S, q, T, E)
    BY <2>2, <2>3 DEF PairsOf
  <2>5. Parts(D, o, S, q, T, E)
    BY <2>4, PartsIs
  <2> QED
    BY <2>1, <2>5
<1>2. Parts({hSharedSecret("ecdhPrivate"), hEccKeyHandle("ecdhPrivate"), hEcHandle("ecdhPrivate")},
           "ecdhPrivate", {"hEcHandle", "hEccKeyHandle"}, "ecdhPublic", {}, {Shared})
  <2>1. PICK D, S, T, E, o, q :
          /\ D = {hSharedSecret("ecdhPrivate"), hEccKeyHandle("ecdhPrivate"), hEcHandle("ecdhPrivate")}
          /\ S = {"hEcHandle", "hEccKeyHandle"} /\ T = {} /\ E = {Shared}
          /\ o = "ecdhPrivate" /\ q = "ecdhPublic"
    OBVIOUS
  <2>2. /\ o \in Owners /\ q \in Owners /\ o # q /\ E \subseteq {hAesKey, Shared}
        /\ (\A n \in S : Ordinary(o, n)) /\ \A n \in T : Ordinary(q, n)
    BY <2>1, OwnerNames DEF Ordinary
  <2>3. D = Of(o, S) \cup Of(q, T) \cup E
    BY <2>1 DEF Of, hEccKeyHandle, hEcHandle, Shared
  <2>4. PairsOf(D, o, S, q, T, E)
    BY <2>2, <2>3 DEF PairsOf
  <2>5. Parts(D, o, S, q, T, E)
    BY <2>4, PartsIs
  <2> QED
    BY <2>1, <2>5
<1>3. Parts({hSharedSecret("ecdhPrivate"), hAlg}, "hkdf", {"hAlg"}, "Expand", {}, {Shared})
  <2>1. PICK D, S, T, E, o, q :
          /\ D = {hSharedSecret("ecdhPrivate"), hAlg} /\ S = {"hAlg"} /\ T = {} /\ E = {Shared}
          /\ o = "hkdf" /\ q = "Expand"
    OBVIOUS
  <2>2. /\ o \in Owners /\ q \in Owners /\ o # q /\ E \subseteq {hAesKey, Shared}
        /\ (\A n \in S : Ordinary(o, n)) /\ \A n \in T : Ordinary(q, n)
    BY <2>1, OwnerNames DEF Ordinary
  <2>3. D = Of(o, S) \cup Of(q, T) \cup E
    BY <2>1 DEF Of, hAlg, Shared
  <2>4. PairsOf(D, o, S, q, T, E)
    BY <2>2, <2>3 DEF PairsOf
  <2>5. Parts(D, o, S, q, T, E)
    BY <2>4, PartsIs
  <2> QED
    BY <2>1, <2>5
<1> QED
  BY <1>1, <1>2, <1>3

-----------------------------------------------------------------------------
(* What a call holds: objects of the backends *)

\* The constructor works, and the object is constructed
Enters(c, constructor, D, a, b) ==
  \E a1 : Runs(c, constructor, a, a1) /\ Holdings(a1) /\ Openable(D, a1) /\ b = Opened(a1, D)

\* An object, from the outside
LEMMA Within ==
  ASSUME NEW c, c.view = "holdings", NEW constructor, NEW D, NEW scope, NEW a, NEW a2, NEW b, NEW b2,
         Enters(c, constructor, D, a, a2), Runs(c, scope, a2, b), Sound(c, b), Pending(D, b),
         b2 = Destroyed(b, D)
  PROVE  Runs(c, Object(constructor, D, scope), a, b2)
<1>1. PICK a1 : Runs(c, constructor, a, a1) /\ Holdings(a1) /\ Openable(D, a1) /\ a2 = Opened(a1, D)
  BY DEF Enters
<1>2. Runs(c, Object(constructor, D, scope), a, Destroyed(b, D))
  BY <1>1, ObjectHeld
<1> QED
  BY <1>2

\* What is safe stays safe if what changes is
LEMMA SafeAgain ==
  ASSUME NEW c, NEW a, Safe(c, a), NEW b, NEW o, NEW q,
         \A x \in Owners : x # o /\ x # q => b[x] = a[x], SafeOwner(c, o, b[o]), SafeOwner(c, q, b[q]),
         SafeKey(c, b["key"]), SafeSecret(c, b["secret"]), b["roots"] = a["roots"],
         b["contexts"] = a["contexts"], b["secret"].hkdf = 1 <=> "hAlg" \in b["hkdf"].members
  PROVE  Safe(c, b)
<1>1. \A x \in Owners : SafeOwner(c, x, b[x])
  BY DEF Safe
<1> QED
  BY <1>1 DEF Safe

\* Nothing but o and q is touched by a constructor, and hAlg is left alone
Touches(a, b, o, q) ==
  Except2(a, b, o, q) /\ ("hAlg" \in b["hkdf"].members <=> "hAlg" \in a["hkdf"].members)

\* What is safe once S of o, to be released by an object, is open too
OpensAs(c, a, o, S, v) == v = V(a[o].live, a[o].members, a[o].open \cup S) /\ SafeOwner(c, o, v)

\* An object that releases S of o and T of q is constructed
LEMMA EnterTwo ==
  ASSUME NEW c, NEW constructor, NEW a, NEW a1, Sound(c, a), Runs(c, constructor, a, a1), Holdings(a1),
         NEW o \in Owners, NEW q \in Owners, o # q, NEW D, NEW S, NEW T, Parts(D, o, S, q, T, {}),
         Touches(a, a1, o, q), CanEnter(a1, o, S, q, T, {}), NEW v, OpensAs(c, a1, o, S, v),
         NEW w, OpensAs(c, a1, q, T, w)
  PROVE  \E b : /\ Enters(c, constructor, D, a, b) /\ Sound(c, b) /\ b[o] = v /\ b[q] = w
                /\ Except2(a, b, o, q)
<1>0. PICK E : E = {}
  OBVIOUS
<1>1. PICK b : b = Opened(a1, D)
  OBVIOUS
<1>3. /\ Parts(D, o, S, q, T, E) /\ hAesKey \notin E /\ Shared \notin E
      /\ CanEnter(a1, o, S, q, T, E)
  BY <1>0
<1>4. /\ Openable(D, a1) /\ Holdings(b)
      /\ b[o] = V(a1[o].live, a1[o].members, a1[o].open \cup S)
      /\ b[q] = V(a1[q].live, a1[q].members, a1[q].open \cup T)
      /\ \A x \in Owners : x # o /\ x # q => b[x] = a1[x]
      /\ b["key"] = a1["key"] /\ b["secret"] = a1["secret"]
      /\ b["roots"] = a1["roots"] /\ b["contexts"] = a1["contexts"]
  <2>1. Openable(D, a1) /\ Holdings(b) /\ HasEntered(a1, b, D, o, S, q, T, E)
    BY <1>1, <1>3, Entered
  <2> QED
    BY <1>3, <2>1 DEF HasEntered
<1>5. b[o] = v /\ b[q] = w
  BY <1>4 DEF OpensAs
<1>6. /\ \A x \in Owners : x # o /\ x # q => b[x] = a[x]
      /\ b["key"] = a["key"] /\ b["secret"] = a["secret"]
      /\ b["roots"] = a["roots"] /\ b["contexts"] = a["contexts"]
  BY <1>4, PlaceNames DEF Except2, Touches
<1>7. Except2(a, b, o, q)
  BY <1>6 DEF Except2, Places
<1>8. b["hkdf"].members = a1["hkdf"].members
  <2>1. b[o].members = a1[o].members /\ b[q].members = a1[q].members
    BY <1>4 DEF V
  <2> QED
    BY <1>4, <2>1, PlaceNames
<1>9. Safe(c, b)
  <2>1. SafeOwner(c, o, b[o]) /\ SafeOwner(c, q, b[q]) /\ Safe(c, a)
    BY <1>5 DEF Sound, OpensAs
  <2>2. /\ SafeKey(c, b["key"]) /\ SafeSecret(c, b["secret"])
        /\ b["secret"].hkdf = 1 <=> "hAlg" \in b["hkdf"].members
    BY <1>6, <1>8, <2>1 DEF Safe, Touches
  <2> QED
    BY <1>6, <2>1, <2>2, SafeAgain
<1> QED
  BY <1>1, <1>4, <1>5, <1>7, <1>9 DEF Enters, Sound

\* And is destroyed
LEMMA LeaveTwo ==
  ASSUME NEW c, NEW a, Sound(c, a), NEW o \in Owners, NEW q \in Owners, o # q, NEW D, NEW S, NEW T,
         Parts(D, o, S, q, T, {}), NEW l, NEW m, NEW p, a[o] = V(l, m, p), NEW k, NEW n, NEW r, a[q] = V(k, n, r),
         S \subseteq p, T \subseteq r, NEW b, b = Destroyed(a, D)
  PROVE  /\ Pending(D, a) /\ Sound(c, b) /\ b[o] = V(l \ (S \cap m), m, p \ S)
         /\ b[q] = V(k \ (T \cap n), n, r \ T) /\ Except2(a, b, o, q)
<1>1. PICK E : E = {}
  OBVIOUS
<1>2. /\ a[o].live = l /\ a[o].members = m /\ a[o].open = p
      /\ a[q].live = k /\ a[q].members = n /\ a[q].open = r
  BY VFields
<1>3. /\ Parts(D, o, S, q, T, E) /\ hAesKey \notin E /\ Shared \notin E
      /\ CanLeave(a, o, S, q, T, E)
  BY <1>1, <1>2 DEF CanLeave
<1>4. /\ Pending(D, a) /\ Sound(c, b)
      /\ b[o] = V(a[o].live \ (S \cap a[o].members), a[o].members, a[o].open \ S)
      /\ b[q] = V(a[q].live \ (T \cap a[q].members), a[q].members, a[q].open \ T)
      /\ \A x \in Owners : x # o /\ x # q => b[x] = a[x]
      /\ b["key"] = a["key"] /\ b["secret"] = a["secret"]
      /\ b["roots"] = a["roots"] /\ b["contexts"] = a["contexts"]
  <2>1. Pending(D, a) /\ Sound(c, b) /\ HasLeft(a, b, o, S, q, T, E)
    BY <1>3, Left
  <2> QED
    BY <1>3, <2>1 DEF HasLeft
<1>5. Except2(a, b, o, q)
  BY <1>4 DEF Except2, Places
<1> QED
  BY <1>2, <1>4, <1>5

\* An object that releases S of o only
OwnParts(D, o, S) == \E q \in Owners : q # o /\ Parts(D, o, S, q, {}, {})

\* The pairs of o and S are such a destructor
LEMMA OwnPartsIs ==
  ASSUME NEW o \in Owners, NEW S, \A n \in S : Ordinary(o, n), NEW D, D = Of(o, S) PROVE OwnParts(D, o, S)
<1>1. PICK q \in Owners : q # o
  BY DEF Owners
<1>2. PICK T, E : T = {} /\ E = {}
  OBVIOUS
<1>3. (\A n \in T : Ordinary(q, n)) /\ E \subseteq {hAesKey, Shared} /\ D = Of(o, S) \cup Of(q, T) \cup E
  BY <1>2 DEF Of
<1>4. PairsOf(D, o, S, q, T, E)
  BY <1>1, <1>3 DEF PairsOf
<1>5. Parts(D, o, S, q, T, E)
  BY <1>4, PartsIs
<1> QED
  BY <1>1, <1>2, <1>5 DEF OwnParts

\* Such an object is constructed
LEMMA EnterOne ==
  ASSUME NEW c, NEW constructor, NEW a, NEW a1, Sound(c, a), Runs(c, constructor, a, a1), Holdings(a1),
         NEW o \in Owners, NEW D, NEW S, OwnParts(D, o, S), Except(a, a1, o),
         NEW l, NEW m, NEW p, a1[o] = V(l, m, p), S \cap p = {},
         NEW v, v = V(l, m, p \cup S), SafeOwner(c, o, v),
         o = "hkdf" => ("hAlg" \in m <=> "hAlg" \in a[o].members)
  PROVE  \E b : Enters(c, constructor, D, a, b) /\ Sound(c, b) /\ b[o] = v /\ Except(a, b, o)
<1>1. PICK q \in Owners : q # o /\ Parts(D, o, S, q, {}, {})
  BY DEF OwnParts
<1>2. PICK T, w : T = {} /\ w = V(a1[q].live, a1[q].members, a1[q].open \cup T)
  OBVIOUS
<1>3. a1[q] = w /\ a1[q] = a[q]
  <2>1. a1[q].open \cup T = a1[q].open
    BY <1>2
  <2> QED
    BY <1>1, <1>2, <2>1, PlaceNames DEF Except, Holdings
<1>4. a1[o].live = l /\ a1[o].members = m /\ a1[o].open = p
  BY VFields
<1>5. CanEnter(a1, o, S, q, T, {}) /\ Except2(a, a1, o, q)
  BY <1>2, <1>4 DEF Except, Except2, CanEnter
<1>6. OpensAs(c, a1, o, S, v) /\ OpensAs(c, a1, q, T, w)
  BY <1>2, <1>3, <1>4 DEF Sound, Safe, OpensAs
<1>7. Touches(a, a1, o, q)
  BY <1>4, <1>5, PlaceNames DEF Except, Touches
<1>8. Parts(D, o, S, q, T, {})
  BY <1>1, <1>2
<1>9. PICK b : /\ Enters(c, constructor, D, a, b) /\ Sound(c, b) /\ b[o] = v /\ b[q] = w
               /\ Except2(a, b, o, q)
  BY <1>1, <1>5, <1>6, <1>7, <1>8, EnterTwo
<1>10. Except(a, b, o)
  BY <1>3, <1>9 DEF Except, Except2
<1> QED
  BY <1>9, <1>10

\* Such an object is destroyed
LEMMA LeaveOne ==
  ASSUME NEW c, NEW a, Sound(c, a), NEW o \in Owners, NEW D, NEW S, OwnParts(D, o, S),
         NEW l, NEW m, NEW p, a[o] = V(l, m, p), S \subseteq p, NEW b, b = Destroyed(a, D)
  PROVE  /\ Pending(D, a) /\ Sound(c, b) /\ b[o] = V(l \ (S \cap m), m, p \ S) /\ Except(a, b, o)
<1>1. PICK q \in Owners : q # o /\ Parts(D, o, S, q, {}, {})
  BY DEF OwnParts
<1>2. PICK T, k, n, r : T = {} /\ k = a[q].live /\ n = a[q].members /\ r = a[q].open
  OBVIOUS
<1>3. a[q] = V(k, n, r) /\ T \subseteq r /\ k \ (T \cap n) = k /\ r \ T = r
  BY <1>2 DEF Holdings, Sound
<1>4. /\ Pending(D, a) /\ Sound(c, b) /\ b[o] = V(l \ (S \cap m), m, p \ S)
      /\ b[q] = V(k \ (T \cap n), n, r \ T) /\ Except2(a, b, o, q)
  <2>1. Parts(D, o, S, q, T, {})
    BY <1>1, <1>2
  <2> QED
    BY <1>1, <1>3, <2>1, LeaveTwo
<1>5. Except(a, b, o)
  BY <1>3, <1>4 DEF Except, Except2
<1> QED
  BY <1>4, <1>5

\* AesWrapper on Windows: its handle, and its key
LEMMA GcmEnters ==
  ASSUME NEW c, c.view = "holdings", c.name \in Secrets, OnWindows(c), NEW a, Sound(c, a),
         a["aesWrapper"] = Loose({}), a["key"] = Kv(0, 0, 0)
  PROVE  \E b : /\ Enters(c, <<New(hAesHandle), Request>>, {hAesHandle, hAesKey}, a, b) /\ Sound(c, b)
                /\ b["aesWrapper"] = V({"hAesHandle"}, {"hAesHandle"}, {"hAesHandle"}) /\ b["key"] = Kv(0, 0, 1)
                /\ Except2(a, b, "aesWrapper", "key")
<1>0. PICK o, q, n, l0, l1, T, E, D :
        /\ o = "aesWrapper" /\ q = "hkdf" /\ n = "hAesHandle" /\ l0 = {} /\ l1 = {n} /\ T = {} /\ E = {hAesKey}
        /\ D = {hAesHandle, hAesKey}
  OBVIOUS
<1>1. PICK x : x = New(<<o, n>>)
  OBVIOUS
<1>2. o \in Owners /\ q \in Owners /\ o # q /\ Ordinary(o, n) /\ o # "hkdf" /\ o \in Places /\ n \in OnError(c, o)
  BY <1>0, OwnerNames, PlaceNames DEF Ordinary, OnError
<1>3. a[o] = V(l0, l0, l0) /\ n \notin l0 /\ l1 = l0 \cup {n}
  BY <1>0 DEF Loose
<1>4. SafeOwner(c, o, V(l1, l1, l0)) /\ SafeOwner(c, o, V(l1, l1, l1))
  <2>1. l1 \ (l0 \cap l1) \subseteq Never(c, o) \cup OnError(c, o) /\ l0 \cap l1 \subseteq l1
    BY <1>0, <1>2
  <2>2. l1 \ (l1 \cap l1) \subseteq Never(c, o) \cup OnError(c, o) /\ l1 \cap l1 \subseteq l1
    OBVIOUS
  <2> QED
    BY <2>1, <2>2, SafeIs
<1>5. PICK a1 : Runs(c, <<x>>, a, a1) /\ Sound(c, a1) /\ a1[o] = V(l1, l1, l0) /\ Except(a, a1, o)
  BY <1>1, <1>2, <1>3, <1>4, OwnerStep
<1>6. Runs(c, <<Request>>, a1, a1)
  BY <1>5, StillRun, StillInstructions
<1>7. Runs(c, <<x, Request>>, a, a1) /\ Holdings(a1)
  BY <1>5, <1>6, Few DEF Sound
<1>8. a1["key"] = Kv(0, 0, 0) /\ a1["secret"] = a["secret"] /\ a1["hkdf"] = a["hkdf"]
  BY <1>0, <1>5, PlaceNames DEF Except
<1>9. a1["key"].open = 0 /\ a1["key"].n = 0 /\ a1["key"].member = 0
  BY <1>8 DEF Kv
<1>10. a1[o].live = l1 /\ a1[o].members = l1 /\ a1[o].open = l0
  BY <1>5, VFields
<1>11. PICK b : b = Opened(a1, D)
  OBVIOUS
<1>12. Parts(D, o, l1, q, T, E) /\ CanEnter(a1, o, l1, q, T, E) /\ hAesKey \in E /\ Shared \notin E
  <2>1. Parts(D, o, l1, q, T, E)
    BY <1>0, DestructorParts
  <2>2. l1 \cap a1[o].open = {} /\ T \cap a1[q].open = {} /\ hAesKey \in E /\ Shared \notin E
    BY <1>0, <1>10, FourSpecials
  <2> QED
    BY <1>9, <2>1, <2>2 DEF CanEnter
<1>13. Openable(D, a1) /\ Holdings(b) /\ HasEntered(a1, b, D, o, l1, q, T, E)
  BY <1>2, <1>7, <1>11, <1>12, Entered
<1>14. /\ b[o] = V(l1, l1, l1) /\ b["key"] = Kv(0, 0, 1) /\ b["secret"] = a1["secret"] /\ b["roots"] = a1["roots"]
       /\ b["contexts"] = a1["contexts"] /\ \A y \in Owners : y # o => b[y] = a1[y]
  <2>1. /\ b[o] = V(a1[o].live, a1[o].members, a1[o].open \cup l1)
        /\ b[q] = V(a1[q].live, a1[q].members, a1[q].open \cup T)
        /\ (\A y \in Owners : y # o /\ y # q => b[y] = a1[y])
        /\ b["key"] = Kv(a1["key"].n, a1["key"].member, a1["key"].open + 1)
        /\ b["secret"] = a1["secret"] /\ b["roots"] = a1["roots"] /\ b["contexts"] = a1["contexts"]
    BY <1>12, <1>13 DEF HasEntered
  <2>2. a1[q].open \cup T = a1[q].open /\ a1[o].open \cup l1 = l1
    BY <1>0, <1>10
  <2>3. b[q] = a1[q]
    BY <1>2, <1>7, <2>1, <2>2 DEF Holdings
  <2>4. b["key"] = Kv(0, 0, 1)
    BY <1>9, <2>1
  <2> QED
    BY <1>10, <2>1, <2>2, <2>3, <2>4
<1>15. Except2(a, b, o, "key")
  BY <1>5, <1>14, PlaceNames DEF Except, Except2, Places
<1>16. Safe(c, b)
  <2>1. Safe(c, a1) /\ SafeOwner(c, o, b[o]) /\ SafeOwner(c, q, b[q])
    BY <1>0, <1>2, <1>4, <1>5, <1>14 DEF Sound, Safe
  <2>2. SafeKey(c, b["key"])
    BY <1>14 DEF SafeKey, Kv
  <2>3. b["hkdf"] = a1["hkdf"]
    BY <1>0, <1>2, <1>14
  <2>4. SafeSecret(c, b["secret"]) /\ (b["secret"].hkdf = 1 <=> "hAlg" \in b["hkdf"].members)
    BY <1>14, <2>1, <2>3 DEF Safe
  <2> QED
    BY <1>14, <2>1, <2>2, <2>4, SafeAgain
<1>17. Enters(c, <<x, Request>>, D, a, b)
  BY <1>7, <1>11, <1>13 DEF Enters
<1>18. <<x, Request>> = <<New(hAesHandle), Request>>
  BY <1>0, <1>1, Zenon DEF hAesHandle
<1> QED
  BY <1>0, <1>13, <1>14, <1>15, <1>16, <1>17, <1>18 DEF Sound

\* The AesWrapper is destroyed: with it the handle, and the key that it has last
LEMMA GcmLeaves ==
  ASSUME NEW c, c.view = "holdings", NEW a, Sound(c, a), NEW n, NEW m,
         a["aesWrapper"] = V({"hAesHandle"}, {"hAesHandle"}, {"hAesHandle"}), a["key"] = Kv(n, m, 1),
         NEW b, b = Destroyed(a, {hAesHandle, hAesKey})
  PROVE  /\ Pending({hAesHandle, hAesKey}, a) /\ Sound(c, b)
         /\ b["aesWrapper"] = V({}, {"hAesHandle"}, {}) /\ b["key"] = Kv(n - m, m, 0)
         /\ Except2(a, b, "aesWrapper", "key")
<1>0. PICK o, q, l0, l1, T, E, D :
        /\ o = "aesWrapper" /\ q = "hkdf" /\ l0 = {} /\ l1 = {"hAesHandle"} /\ T = {} /\ E = {hAesKey}
        /\ D = {hAesHandle, hAesKey}
  OBVIOUS
<1>1. o \in Owners /\ q \in Owners /\ o # q /\ o \in Places /\ b = Destroyed(a, D)
  BY <1>0, OwnerNames, PlaceNames
<1>2. a["key"].n = n /\ a["key"].member = m /\ a["key"].open = 1
  BY DEF Kv
<1>3. a[o].live = l1 /\ a[o].members = l1 /\ a[o].open = l1
  BY <1>0, VFields
<1>4. Parts(D, o, l1, q, T, E) /\ CanLeave(a, o, l1, q, T, E) /\ hAesKey \in E /\ Shared \notin E
  <2>1. Parts(D, o, l1, q, T, E)
    BY <1>0, DestructorParts
  <2>2. l1 \subseteq a[o].open /\ T \subseteq a[q].open /\ hAesKey \in E /\ Shared \notin E
    BY <1>0, <1>3, FourSpecials
  <2> QED
    BY <1>2, <2>1, <2>2 DEF CanLeave
<1>5. Pending(D, a) /\ Sound(c, b) /\ HasLeft(a, b, o, l1, q, T, E)
  BY <1>1, <1>4, Left
<1>6. /\ b[o] = V(a[o].live \ (l1 \cap a[o].members), a[o].members, a[o].open \ l1)
      /\ b[q] = V(a[q].live \ (T \cap a[q].members), a[q].members, a[q].open \ T)
      /\ (\A x \in Owners : x # o /\ x # q => b[x] = a[x])
      /\ b["key"] = Kv(a["key"].n - a["key"].member, a["key"].member, a["key"].open - 1)
      /\ b["secret"] = a["secret"] /\ b["roots"] = a["roots"] /\ b["contexts"] = a["contexts"]
  BY <1>4, <1>5 DEF HasLeft
<1>7. /\ a[o].live \ (l1 \cap a[o].members) = l0 /\ a[o].open \ l1 = l0
      /\ a[q].live \ (T \cap a[q].members) = a[q].live /\ a[q].open \ T = a[q].open
  BY <1>0, <1>3
<1>8. b[o] = V(l0, l1, l0)
  BY <1>3, <1>6, <1>7
<1>9. b[q] = a[q]
  BY <1>1, <1>6, <1>7 DEF Holdings, Sound
<1>10. b["key"] = Kv(n - m, m, 0)
  <2>1. 1 - 1 = 0
    OBVIOUS
  <2> QED
    BY <1>2, <1>6, <2>1
<1>11. Except2(a, b, o, "key")
  BY <1>6, <1>9 DEF Except2, Places
<1> QED
  BY <1>0, <1>5, <1>8, <1>10, <1>11

\* The ecdhPrivate on Windows: its handles, and the secret
EcdhNames == {"hEcHandle", "hEccKeyHandle"}
EcdhPrivateParts == {hSharedSecret("ecdhPrivate"), hEccKeyHandle("ecdhPrivate"), hEcHandle("ecdhPrivate")}

\* It is constructed
LEMMA EcdhEnters ==
  ASSUME NEW c, c.view = "holdings", NEW a, Sound(c, a),
         a["ecdhPrivate"] = Loose({}), a["secret"] = Sv(0, 0, 0, 0, 0)
  PROVE  \E b : /\ Enters(c, <<New(hEcHandle("ecdhPrivate"))>>, EcdhPrivateParts, a, b) /\ Sound(c, b)
                /\ b["ecdhPrivate"] = V({"hEcHandle"}, {"hEcHandle"}, EcdhNames) /\ b["secret"] = Sv(0, 0, 1, 0, 0)
                /\ Except2(a, b, "ecdhPrivate", "secret")
<1>0. PICK o, q, n, l0, l1, S, T, E, D :
        /\ o = "ecdhPrivate" /\ q = "ecdhPublic" /\ n = "hEcHandle" /\ l0 = {} /\ l1 = {n} /\ S = EcdhNames
        /\ T = {} /\ E = {Shared} /\ D = EcdhPrivateParts
  OBVIOUS
<1>1. PICK x : x = New(<<o, n>>)
  OBVIOUS
<1>2. o \in Owners /\ q \in Owners /\ o # q /\ Ordinary(o, n) /\ o # "hkdf" /\ q # "hkdf" /\ o \in Places
  BY <1>0, OwnerNames, PlaceNames DEF Ordinary
<1>3. a[o] = V(l0, l0, l0) /\ n \notin l0 /\ l1 = l0 \cup {n} /\ Holdings(a) /\ Safe(c, a)
  BY <1>0 DEF Loose, Sound
<1>4. SafeOwner(c, o, V(l1, l1, S))
  <2>1. l1 \ (S \cap l1) \subseteq Never(c, o) \cup OnError(c, o) /\ S \cap l1 \subseteq l1
    BY <1>0 DEF EcdhNames
  <2> QED
    BY <2>1, SafeIs
<1>5. PICK a1 : a1 = Gain(a, o, n)
  OBVIOUS
<1>20. a[o].live = l0 /\ a[o].members = l0 /\ a[o].open = l0 /\ n \notin a[o].live
  BY <1>3, VFields
<1>6. Runs(c, <<x>>, a, a1)
  BY <1>1, <1>2, <1>5, <1>20, OwnerInstructions
<1>7. Holdings(a1) /\ a1[o] = V(l1, l1, l0) /\ \A y \in Places : y # o => a1[y] = a[y]
  <2>1. a1 = Put(a, o, V(l1, l1, l0))
    BY <1>3, <1>5, <1>20 DEF Gain
  <2> QED
    BY <1>2, <1>3, <2>1, PutOwner
<1>8. a1["secret"] = Sv(0, 0, 0, 0, 0) /\ a1["key"] = a["key"] /\ a1["hkdf"] = a["hkdf"]
  BY <1>2, <1>7, PlaceNames
<1>9. a1["secret"].open = 0 /\ a1["secret"].n = 0 /\ a1["secret"].member = 0 /\ a1["secret"].hkdf = 0
      /\ a1["secret"].twice = 0
  BY <1>8 DEF Sv
<1>10. a1[o].live = l1 /\ a1[o].members = l1 /\ a1[o].open = l0
  BY <1>7, VFields
<1>11. PICK b : b = Opened(a1, D)
  OBVIOUS
<1>12. /\ Parts(D, o, S, q, T, E) /\ CanEnter(a1, o, S, q, T, E) /\ hAesKey \notin E /\ Shared \in E
       /\ hAlg \notin D
  <2>1. Parts(D, o, S, q, T, E)
    BY <1>0, DestructorParts DEF EcdhPrivateParts, EcdhNames
  <2>2. S \cap a1[o].open = {} /\ T \cap a1[q].open = {} /\ hAesKey \notin E /\ Shared \in E
    BY <1>0, <1>10, FourSpecials
  <2>3. hAlg \notin D
    BY <1>0 DEF EcdhPrivateParts, hAlg, hSharedSecret, hEccKeyHandle, hEcHandle
  <2> QED
    BY <1>9, <2>1, <2>2, <2>3 DEF CanEnter
<1>13. Openable(D, a1) /\ Holdings(b) /\ HasEntered(a1, b, D, o, S, q, T, E)
  BY <1>2, <1>7, <1>11, <1>12, Entered
<1>14. /\ b[o] = V(l1, l1, S) /\ b["secret"] = Sv(0, 0, 1, 0, 0) /\ b["key"] = a1["key"] /\ b["roots"] = a1["roots"]
       /\ b["contexts"] = a1["contexts"] /\ \A y \in Owners : y # o => b[y] = a1[y]
  <2>1. /\ b[o] = V(a1[o].live, a1[o].members, a1[o].open \cup S)
        /\ b[q] = V(a1[q].live, a1[q].members, a1[q].open \cup T)
        /\ (\A y \in Owners : y # o /\ y # q => b[y] = a1[y])
        /\ b["key"] = a1["key"] /\ b["roots"] = a1["roots"] /\ b["contexts"] = a1["contexts"]
    BY <1>12, <1>13 DEF HasEntered
  <2>2. b["secret"] = Sv(a1["secret"].n, a1["secret"].member, a1["secret"].open + 1, a1["secret"].hkdf,
                         a1["secret"].twice)
    BY <1>12, <1>13 DEF HasEntered
  <2>3. a1[q].open \cup T = a1[q].open /\ a1[o].open \cup S = S
    BY <1>0, <1>10
  <2>4. b[q] = a1[q]
    BY <1>2, <1>7, <2>1, <2>3 DEF Holdings
  <2>5. b["secret"] = Sv(0, 0, 1, 0, 0)
    BY <1>9, <2>2
  <2> QED
    BY <1>10, <2>1, <2>3, <2>4, <2>5
<1>15. Except2(a, b, o, "secret")
  BY <1>7, <1>14, PlaceNames DEF Except2, Places
<1>16. Safe(c, b)
  <2>1. SafeOwner(c, o, b[o]) /\ SafeOwner(c, q, b[q])
    BY <1>2, <1>3, <1>4, <1>7, <1>14, PlaceNames DEF Safe
  <2>2. SafeSecret(c, b["secret"]) /\ b["secret"].hkdf = 0
    BY <1>14 DEF SafeSecret, Sv
  <2>3. b["hkdf"] = a["hkdf"] /\ b["key"] = a["key"] /\ b["roots"] = a["roots"] /\ b["contexts"] = a["contexts"]
    BY <1>2, <1>7, <1>8, <1>14, PlaceNames
  <2>4. SafeKey(c, b["key"]) /\ (b["secret"].hkdf = 1 <=> "hAlg" \in b["hkdf"].members)
    <3>1. a["secret"].hkdf = 0
      BY DEF Sv
    <3> QED
      BY <1>3, <2>2, <2>3, <3>1 DEF Safe
  <2>5. \A y \in Owners : y # o /\ y # q => b[y] = a[y]
    BY <1>7, <1>14, PlaceNames
  <2> QED
    BY <1>3, <2>1, <2>2, <2>3, <2>4, <2>5, SafeAgain
<1>17. Enters(c, <<x>>, D, a, b)
  BY <1>6, <1>7, <1>11, <1>13 DEF Enters
<1>18. <<x>> = <<New(hEcHandle("ecdhPrivate"))>>
  BY <1>0, <1>1, Zenon DEF hEcHandle
<1> QED
  BY <1>0, <1>13, <1>14, <1>15, <1>16, <1>17, <1>18 DEF Sound

\* It goes, after the BcryptHKDF: the secret is released a second time
LEMMA EcdhLeaves ==
  ASSUME NEW c, c.view = "holdings", NEW a, Sound(c, a), a["ecdhPrivate"] = V(EcdhNames, EcdhNames, EcdhNames),
         a["secret"] = Sv(0, 1, 1, 1, 0), NEW b, b = Destroyed(a, EcdhPrivateParts)
  PROVE  /\ Pending(EcdhPrivateParts, a) /\ Sound(c, b)
         /\ b["ecdhPrivate"] = V({}, EcdhNames, {}) /\ b["secret"] = Sv(0, 1, 0, 1, 1)
         /\ Except2(a, b, "ecdhPrivate", "secret")
<1>0. PICK o, q, l0, S, T, E, D :
        /\ o = "ecdhPrivate" /\ q = "ecdhPublic" /\ l0 = {} /\ S = EcdhNames /\ T = {} /\ E = {Shared}
        /\ D = EcdhPrivateParts
  OBVIOUS
<1>1. o \in Owners /\ q \in Owners /\ o # q /\ o \in Places /\ b = Destroyed(a, D)
  BY <1>0, OwnerNames, PlaceNames
<1>2. a["secret"].n = 0 /\ a["secret"].member = 1 /\ a["secret"].open = 1 /\ a["secret"].hkdf = 1
  BY DEF Sv
<1>3. a[o].live = S /\ a[o].members = S /\ a[o].open = S
  BY <1>0, VFields
<1>4. Parts(D, o, S, q, T, E) /\ CanLeave(a, o, S, q, T, E) /\ hAesKey \notin E /\ Shared \in E
  <2>1. Parts(D, o, S, q, T, E)
    BY <1>0, DestructorParts DEF EcdhPrivateParts, EcdhNames
  <2>2. S \subseteq a[o].open /\ T \subseteq a[q].open /\ hAesKey \notin E /\ Shared \in E
    BY <1>0, <1>3, FourSpecials
  <2> QED
    BY <1>2, <2>1, <2>2 DEF CanLeave
<1>5. Pending(D, a) /\ Sound(c, b) /\ HasLeft(a, b, o, S, q, T, E)
  BY <1>1, <1>4, Left
<1>6. /\ b[o] = V(a[o].live \ (S \cap a[o].members), a[o].members, a[o].open \ S)
      /\ b[q] = V(a[q].live \ (T \cap a[q].members), a[q].members, a[q].open \ T)
      /\ (\A x \in Owners : x # o /\ x # q => b[x] = a[x])
      /\ b["key"] = a["key"] /\ b["roots"] = a["roots"] /\ b["contexts"] = a["contexts"]
  BY <1>4, <1>5 DEF HasLeft
<1>7. b["secret"] = Sv(0, 1, a["secret"].open - 1, a["secret"].hkdf, 1)
  BY <1>2, <1>4, <1>5 DEF HasLeft
<1>8. /\ a[o].live \ (S \cap a[o].members) = l0 /\ a[o].open \ S = l0
      /\ a[q].live \ (T \cap a[q].members) = a[q].live /\ a[q].open \ T = a[q].open
  BY <1>0, <1>3
<1>9. b[o] = V(l0, S, l0)
  BY <1>3, <1>6, <1>8
<1>10. b[q] = a[q]
  BY <1>1, <1>6, <1>8 DEF Holdings, Sound
<1>11. b["secret"] = Sv(0, 1, 0, 1, 1)
  BY <1>2, <1>7
<1>12. Except2(a, b, o, "secret")
  BY <1>6, <1>10 DEF Except2, Places
<1> QED
  BY <1>0, <1>5, <1>9, <1>11, <1>12

\* BcryptHKDF: its algorithm, and the secret that is not its own
LEMMA HkdfEnters ==
  ASSUME NEW c, c.view = "holdings", OnWindows(c), NEW a, Sound(c, a),
         a["hkdf"] = Loose({}), a["secret"] = Sv(1, 1, 1, 0, 0)
  PROVE  \E b : /\ Enters(c, <<New(hAlg)>>, {hSharedSecret("ecdhPrivate"), hAlg}, a, b) /\ Sound(c, b)
                /\ b["hkdf"] = V({"hAlg"}, {"hAlg"}, {"hAlg"}) /\ b["secret"] = Sv(1, 1, 2, 1, 0)
                /\ Except2(a, b, "hkdf", "secret")
<1>0. PICK o, q, n, l0, l1, T, E, D :
        /\ o = "hkdf" /\ q = "Expand" /\ n = "hAlg" /\ l0 = {} /\ l1 = {n}
        /\ T = {} /\ E = {Shared} /\ D = {hSharedSecret("ecdhPrivate"), hAlg}
  OBVIOUS
<1>1. PICK x : x = New(<<o, n>>)
  OBVIOUS
<1>2. o \in Owners /\ q \in Owners /\ o # q /\ Ordinary(o, n) /\ o \in Places
  BY <1>0, OwnerNames, PlaceNames DEF Ordinary
<1>3. a[o] = V(l0, l0, l0) /\ n \notin l0 /\ l1 = l0 \cup {n} /\ Holdings(a) /\ Safe(c, a)
  BY <1>0 DEF Loose, Sound
<1>4. SafeOwner(c, o, V(l1, l1, l1))
  <2>1. l1 \ (l1 \cap l1) \subseteq Never(c, o) \cup OnError(c, o) /\ l1 \cap l1 \subseteq l1
    OBVIOUS
  <2> QED
    BY <2>1, SafeIs
<1>5. PICK a1 : a1 = Gain(a, o, n)
  OBVIOUS
<1>20. a[o].live = l0 /\ a[o].members = l0 /\ a[o].open = l0 /\ n \notin a[o].live
  BY <1>3, VFields
<1>6. Runs(c, <<x>>, a, a1)
  BY <1>1, <1>2, <1>5, <1>20, OwnerInstructions
<1>7. Holdings(a1) /\ a1[o] = V(l1, l1, l0) /\ \A y \in Places : y # o => a1[y] = a[y]
  <2>1. a1 = Put(a, o, V(l1, l1, l0))
    BY <1>3, <1>5, <1>20 DEF Gain
  <2> QED
    BY <1>2, <1>3, <2>1, PutOwner
<1>8. a1["secret"] = Sv(1, 1, 1, 0, 0) /\ a1["key"] = a["key"]
  BY <1>2, <1>7, PlaceNames
<1>9. a1["secret"].open = 1 /\ a1["secret"].n = 1 /\ a1["secret"].member = 1 /\ a1["secret"].hkdf = 0
      /\ a1["secret"].twice = 0
  BY <1>8 DEF Sv
<1>10. a1[o].live = l1 /\ a1[o].members = l1 /\ a1[o].open = l0
  BY <1>7, VFields
<1>11. PICK b : b = Opened(a1, D)
  OBVIOUS
<1>12. /\ Parts(D, o, l1, q, T, E) /\ CanEnter(a1, o, l1, q, T, E) /\ hAesKey \notin E /\ Shared \in E
       /\ hAlg \in D
  <2>1. Parts(D, o, l1, q, T, E)
    BY <1>0, DestructorParts
  <2>2. l1 \cap a1[o].open = {} /\ T \cap a1[q].open = {} /\ hAesKey \notin E /\ Shared \in E /\ hAlg \in D
    BY <1>0, <1>10, FourSpecials
  <2> QED
    BY <1>9, <2>1, <2>2 DEF CanEnter
<1>13. Openable(D, a1) /\ Holdings(b) /\ HasEntered(a1, b, D, o, l1, q, T, E)
  BY <1>2, <1>7, <1>11, <1>12, Entered
<1>14. /\ b[o] = V(l1, l1, l1) /\ b["secret"] = Sv(1, 1, 2, 1, 0) /\ b["key"] = a1["key"] /\ b["roots"] = a1["roots"]
       /\ b["contexts"] = a1["contexts"] /\ \A y \in Owners : y # o => b[y] = a1[y]
  <2>1. /\ b[o] = V(a1[o].live, a1[o].members, a1[o].open \cup l1)
        /\ b[q] = V(a1[q].live, a1[q].members, a1[q].open \cup T)
        /\ (\A y \in Owners : y # o /\ y # q => b[y] = a1[y])
        /\ b["key"] = a1["key"] /\ b["roots"] = a1["roots"] /\ b["contexts"] = a1["contexts"]
    BY <1>12, <1>13 DEF HasEntered
  <2>2. b["secret"] = Sv(a1["secret"].n, a1["secret"].member, a1["secret"].open + 1, 1, a1["secret"].twice)
    BY <1>12, <1>13 DEF HasEntered
  <2>3. a1[q].open \cup T = a1[q].open /\ a1[o].open \cup l1 = l1
    BY <1>0, <1>10
  <2>4. b[q] = a1[q]
    BY <1>2, <1>7, <2>1, <2>3 DEF Holdings
  <2>5. b["secret"] = Sv(1, 1, 2, 1, 0)
    BY <1>9, <2>2
  <2> QED
    BY <1>10, <2>1, <2>3, <2>4, <2>5
<1>15. Except2(a, b, o, "secret")
  BY <1>7, <1>14, PlaceNames DEF Except2, Places
<1>16. Safe(c, b)
  <2>1. SafeOwner(c, o, b[o]) /\ SafeOwner(c, q, b[q])
    BY <1>2, <1>3, <1>4, <1>7, <1>14, PlaceNames DEF Safe
  <2>2. SafeSecret(c, b["secret"]) /\ b["secret"].hkdf = 1
    BY <1>14 DEF SafeSecret, Sv
  <2>3. b["key"] = a["key"] /\ b["roots"] = a["roots"] /\ b["contexts"] = a["contexts"]
    BY <1>2, <1>7, <1>8, <1>14, PlaceNames
  <2>4. SafeKey(c, b["key"]) /\ (b["secret"].hkdf = 1 <=> "hAlg" \in b["hkdf"].members)
    <3>1. "hAlg" \in b["hkdf"].members
      BY <1>0, <1>14, VFields
    <3> QED
      BY <1>3, <2>2, <2>3, <3>1 DEF Safe
  <2>5. \A y \in Owners : y # o /\ y # q => b[y] = a[y]
    BY <1>7, <1>14, PlaceNames
  <2> QED
    BY <1>3, <2>1, <2>2, <2>3, <2>4, <2>5, SafeAgain
<1>17. Enters(c, <<x>>, D, a, b)
  BY <1>6, <1>7, <1>11, <1>13 DEF Enters
<1>18. <<x>> = <<New(hAlg)>>
  BY <1>0, <1>1, Zenon DEF hAlg
<1> QED
  BY <1>0, <1>13, <1>14, <1>15, <1>16, <1>17, <1>18 DEF Sound

\* The BcryptHKDF is destroyed, and the shared secret with it: the first time
LEMMA HkdfLeaves ==
  ASSUME NEW c, c.view = "holdings", NEW a, Sound(c, a), a["hkdf"] = V({"hAlg"}, {"hAlg"}, {"hAlg"}),
         a["secret"] = Sv(1, 1, 2, 1, 0), NEW b, b = Destroyed(a, {hSharedSecret("ecdhPrivate"), hAlg})
  PROVE  /\ Pending({hSharedSecret("ecdhPrivate"), hAlg}, a) /\ Sound(c, b)
         /\ b["hkdf"] = V({}, {"hAlg"}, {}) /\ b["secret"] = Sv(0, 1, 1, 1, 0)
         /\ Except2(a, b, "hkdf", "secret")
<1>0. PICK o, q, l0, l1, T, E, D :
        /\ o = "hkdf" /\ q = "Expand" /\ l0 = {} /\ l1 = {"hAlg"} /\ T = {} /\ E = {Shared}
        /\ D = {hSharedSecret("ecdhPrivate"), hAlg}
  OBVIOUS
<1>1. o \in Owners /\ q \in Owners /\ o # q /\ o \in Places /\ b = Destroyed(a, D)
  BY <1>0, OwnerNames, PlaceNames
<1>2. /\ a["secret"].n = 1 /\ a["secret"].member = 1 /\ a["secret"].open = 2 /\ a["secret"].hkdf = 1
      /\ a["secret"].twice = 0
  BY DEF Sv
<1>3. a[o].live = l1 /\ a[o].members = l1 /\ a[o].open = l1
  BY <1>0, VFields
<1>4. Parts(D, o, l1, q, T, E) /\ CanLeave(a, o, l1, q, T, E) /\ hAesKey \notin E /\ Shared \in E
  <2>1. Parts(D, o, l1, q, T, E)
    BY <1>0, DestructorParts
  <2>2. l1 \subseteq a[o].open /\ T \subseteq a[q].open /\ hAesKey \notin E /\ Shared \in E
    BY <1>0, <1>3, FourSpecials
  <2> QED
    BY <1>2, <2>1, <2>2 DEF CanLeave
<1>5. Pending(D, a) /\ Sound(c, b) /\ HasLeft(a, b, o, l1, q, T, E)
  BY <1>1, <1>4, Left
<1>6. /\ b[o] = V(a[o].live \ (l1 \cap a[o].members), a[o].members, a[o].open \ l1)
      /\ b[q] = V(a[q].live \ (T \cap a[q].members), a[q].members, a[q].open \ T)
      /\ (\A x \in Owners : x # o /\ x # q => b[x] = a[x])
      /\ b["key"] = a["key"] /\ b["roots"] = a["roots"] /\ b["contexts"] = a["contexts"]
  BY <1>4, <1>5 DEF HasLeft
<1>7. b["secret"] = Sv(0, 1, a["secret"].open - 1, a["secret"].hkdf, a["secret"].twice)
  BY <1>2, <1>4, <1>5 DEF HasLeft
<1>8. /\ a[o].live \ (l1 \cap a[o].members) = l0 /\ a[o].open \ l1 = l0
      /\ a[q].live \ (T \cap a[q].members) = a[q].live /\ a[q].open \ T = a[q].open
  BY <1>0, <1>3
<1>9. b[o] = V(l0, l1, l0)
  BY <1>3, <1>6, <1>8
<1>10. b[q] = a[q]
  BY <1>1, <1>6, <1>8 DEF Holdings, Sound
<1>11. b["secret"] = Sv(0, 1, 1, 1, 0)
  BY <1>2, <1>7
<1>12. Except2(a, b, o, "secret")
  BY <1>6, <1>10 DEF Except2, Places
<1> QED
  BY <1>0, <1>5, <1>9, <1>11, <1>12

\* An object that releases S of o, when all its constructor does is to make h
MakesAs(c, a, o, S, h, v) ==
  /\ h \in S /\ Ordinary(o, h) /\ (o = "hkdf" => h # "hAlg")
  /\ h \notin a[o].live /\ S \cap a[o].open = {}
  /\ v = V(a[o].live \cup {h}, a[o].members \cup {h}, a[o].open \cup S) /\ SafeOwner(c, o, v)

\* It is constructed
LEMMA NewEnters ==
  ASSUME NEW c, c.view = "holdings", NEW a, Sound(c, a), NEW o \in Owners, NEW D, NEW S, OwnParts(D, o, S),
         NEW h, NEW v, MakesAs(c, a, o, S, h, v), NEW x, x = New(<<o, h>>)
  PROVE  \E b : Enters(c, <<x>>, D, a, b) /\ Sound(c, b) /\ b[o] = v /\ Except(a, b, o)
<1>1. PICK l, m, p : l = a[o].live \cup {h} /\ m = a[o].members \cup {h} /\ p = a[o].open
  OBVIOUS
<1>2. PICK a1 : a1 = Gain(a, o, h)
  OBVIOUS
<1>3. a1 = Put(a, o, V(l, m, p)) /\ Holdings(a)
  BY <1>1, <1>2 DEF Gain, Sound
<1>4. Holdings(a1) /\ a1[o] = V(l, m, p) /\ Except(a, a1, o)
  BY <1>3, PutOwner DEF Except
<1>5. Runs(c, <<x>>, a, a1)
  <2>1. Ordinary(o, h) /\ h \notin a[o].live
    BY DEF MakesAs
  <2> QED
    BY <1>2, <2>1, OwnerInstructions
<1>6. S \cap p = {} /\ v = V(l, m, p \cup S) /\ SafeOwner(c, o, v)
  BY <1>1 DEF MakesAs
<1>7. o = "hkdf" => ("hAlg" \in m <=> "hAlg" \in a[o].members)
  BY <1>1 DEF MakesAs
<1> QED
  BY <1>4, <1>5, <1>6, <1>7, EnterOne

\* It is destroyed
LeavesAs(a, o, S, v) ==
  /\ S \subseteq a[o].open
  /\ v = V(a[o].live \ (S \cap a[o].members), a[o].members, a[o].open \ S)

\* What is left of o then
LEMMA NewLeaves ==
  ASSUME NEW c, NEW a, Sound(c, a), NEW o \in Owners, NEW D, NEW S, OwnParts(D, o, S), NEW v,
         LeavesAs(a, o, S, v), NEW b, b = Destroyed(a, D)
  PROVE  Pending(D, a) /\ Sound(c, b) /\ b[o] = v /\ Except(a, b, o)
<1>1. PICK l, m, p : l = a[o].live /\ m = a[o].members /\ p = a[o].open
  OBVIOUS
<1>2. a[o] = V(l, m, p) /\ S \subseteq p /\ v = V(l \ (S \cap m), m, p \ S)
  BY <1>1 DEF Holdings, Sound, LeavesAs
<1> QED
  BY <1>2, LeaveOne

\* One name
LEMMA OneName ==
  ASSUME NEW o \in Owners, NEW h, Ordinary(o, h) PROVE OwnParts({<<o, h>>}, o, {h})
<1>1. PICK S, D : S = {h} /\ D = {<<o, h>>}
  OBVIOUS
<1>2. D = Of(o, S) /\ \A n \in S : Ordinary(o, n)
  BY <1>1 DEF Of
<1>3. OwnParts(D, o, S)
  BY <1>2, OwnPartsIs
<1> QED
  BY <1>1, <1>3

\* An object with one resource, that is there while nothing happens
LEMMA BriefHeld ==
  ASSUME NEW c, c.view = "holdings", NEW a, Sound(c, a), NEW o \in Owners, NEW h, Ordinary(o, h), o # "hkdf",
         NEW l, NEW m, NEW p, a[o] = V(l, m, p), h \notin l, h \notin p, NEW m2, m2 = m \cup {h},
         NEW scope, Still(scope), NEW x, x = New(<<o, h>>), NEW D, D = {<<o, h>>}
  PROVE  \E b : Runs(c, Object(<<x>>, D, scope), a, b) /\ Sound(c, b) /\ b[o] = V(l, m2, p) /\ Except(a, b, o)
<1>1. PICK S, v, w : S = {h} /\ v = V(l \cup {h}, m \cup {h}, p \cup S) /\ w = V(l, m2, p)
  OBVIOUS
<1>2. a[o].live = l /\ a[o].members = m /\ a[o].open = p
  BY VFields
<1>3. OwnParts(D, o, S)
  BY <1>1, OneName
<1>4. SafeOwner(c, o, v)
  <2>1. SafeOwner(c, o, a[o])
    BY DEF Sound, Safe
  <2>2. l \ (p \cap m) \subseteq Never(c, o) \cup OnError(c, o) /\ p \cap m \subseteq l
    BY <1>2, <2>1 DEF SafeOwner
  <2>3. PICK l1, m1, p1 : l1 = l \cup {h} /\ m1 = m \cup {h} /\ p1 = p \cup S
    OBVIOUS
  <2>4. l1 \ (p1 \cap m1) \subseteq Never(c, o) \cup OnError(c, o) /\ p1 \cap m1 \subseteq l1
    BY <1>1, <2>2, <2>3
  <2> QED
    BY <1>1, <2>3, <2>4, SafeIs
<1>5. MakesAs(c, a, o, S, h, v)
  <2>1. h \in S /\ h \notin a[o].live /\ S \cap a[o].open = {}
    BY <1>1, <1>2
  <2>2. v = V(a[o].live \cup {h}, a[o].members \cup {h}, a[o].open \cup S)
    BY <1>1, <1>2
  <2> QED
    BY <1>4, <2>1, <2>2 DEF MakesAs
<1>6. PICK a2 : Enters(c, <<x>>, D, a, a2) /\ Sound(c, a2) /\ a2[o] = v /\ Except(a, a2, o)
  BY <1>3, <1>5, NewEnters
<1>7. PICK b : b = Destroyed(a2, D)
  OBVIOUS
<1>8. LeavesAs(a2, o, S, w)
  <2>1. PICK l1, m1, p1 : l1 = l \cup {h} /\ m1 = m \cup {h} /\ p1 = p \cup S
    OBVIOUS
  <2>2. a2[o].live = l1 /\ a2[o].members = m1 /\ a2[o].open = p1
    BY <1>1, <1>6, <2>1, VFields
  <2>3. S \subseteq p1 /\ l1 \ (S \cap m1) = l /\ m1 = m2 /\ p1 \ S = p
    BY <1>1, <2>1
  <2> QED
    BY <1>1, <2>2, <2>3 DEF LeavesAs
<1>9. Pending(D, a2) /\ Sound(c, b) /\ b[o] = w /\ Except(a2, b, o)
  BY <1>3, <1>6, <1>7, <1>8, NewLeaves
<1>10. Runs(c, scope, a2, a2)
  BY <1>6, StillRuns
<1>11. Runs(c, Object(<<x>>, D, scope), a, b)
  BY <1>6, <1>7, <1>9, <1>10, Within
<1>12. Except(a, b, o)
  BY <1>6, <1>9 DEF Except
<1> QED
  BY <1>1, <1>9, <1>11, <1>12

\* An object without a destructor of its own
LEMMA NoDestructor ==
  ASSUME NEW c, c.view = "holdings", NEW constructor, NEW scope, NEW a, Sound(c, a), NEW b, Sound(c, b),
         Runs(c, constructor, a, a), Runs(c, scope, a, b)
  PROVE  Runs(c, Object(constructor, {}, scope), a, b)
<1>1. PICK o, S, D, w : o = "hkdf" /\ S = {} /\ D = {} /\ w = a[o]
  OBVIOUS
<1>2. o \in Owners /\ OwnParts(D, o, S)
  <2>1. o \in Owners /\ (\A n \in S : Ordinary(o, n)) /\ D = Of(o, S)
    BY <1>1, PlaceNames DEF Of
  <2> QED
    BY <2>1, OwnPartsIs
<1>3. PICK a2 : Enters(c, constructor, D, a, a2) /\ Sound(c, a2) /\ a2[o] = w /\ Except(a, a2, o)
  <2>1. PICK l, m, p : l = a[o].live /\ m = a[o].members /\ p = a[o].open
    OBVIOUS
  <2>2. a[o] = V(l, m, p) /\ p \cup S = p /\ S \cap p = {} /\ Holdings(a) /\ SafeOwner(c, o, w)
    BY <1>1, <1>2, <2>1 DEF Holdings, Sound, Safe
  <2>3. w = V(l, m, p \cup S) /\ Except(a, a, o) /\ ("hAlg" \in m <=> "hAlg" \in a[o].members)
    BY <1>1, <2>1, <2>2 DEF Except
  <2> QED
    BY <1>2, <2>2, <2>3, EnterOne
<1>4. a2 = a
  <2>1. Holdings(a) /\ Holdings(a2) /\ \A p \in Places : a2[p] = a[p]
    BY <1>1, <1>3 DEF Sound, Except
  <2> QED
    BY <2>1, SamePlaces, PlaceNames
<1>5. PICK b2 : b2 = Destroyed(b, D)
  OBVIOUS
<1>6. Pending(D, b) /\ b2 = b
  <2>1. PICK v, l, m, p : v = b[o] /\ l = b[o].live /\ m = b[o].members /\ p = b[o].open
    OBVIOUS
  <2>2. LeavesAs(b, o, S, v)
    <3>1. v = V(l, m, p) /\ S \subseteq p /\ l \ (S \cap m) = l /\ p \ S = p
      BY <1>1, <1>2, <2>1 DEF Holdings, Sound
    <3> QED
      BY <2>1, <3>1 DEF LeavesAs
  <2>3. Pending(D, b) /\ Sound(c, b2) /\ b2[o] = v /\ Except(b, b2, o)
    BY <1>2, <1>5, <2>2, NewLeaves
  <2>4. Holdings(b) /\ Holdings(b2) /\ \A q \in Places : b2[q] = b[q]
    BY <2>1, <2>3 DEF Sound, Except
  <2> QED
    BY <2>3, <2>4, SamePlaces, PlaceNames
<1>7. Runs(c, Object(constructor, D, scope), a, b)
  BY <1>3, <1>4, <1>5, <1>6, Within
<1> QED
  BY <1>1, <1>7

-----------------------------------------------------------------------------
(* What a call holds: the calls *)

\* A call starts with nothing
LEMMA FreeIs ==
  ASSUME NEW c
  PROVE  /\ Sound(c, Free) /\ \A o \in Owners : Free[o] = Loose({})
         /\ Free["key"] = Kv(0, 0, 0) /\ Free["secret"] = Sv(0, 0, 0, 0, 0)
         /\ Free["roots"] = Count(0) /\ Free["contexts"] = Count(0)
<1>1. \A o \in Owners : Free[o] = Loose({})
  BY PlaceNames DEF Free, Loose
<1>2. /\ Free["key"] = Kv(0, 0, 0) /\ Free["secret"] = Sv(0, 0, 0, 0, 0)
      /\ Free["roots"] = Count(0) /\ Free["contexts"] = Count(0)
  BY PlaceNames DEF Free
<1>3. Free = [p \in Places |-> Free[p]]
  BY DEF Free
<1>4. PICK f : f = Free
  OBVIOUS
<1>5. Holdings(f)
  <2>1. \A o \in Owners : f[o] = V(f[o].live, f[o].members, f[o].open)
    BY <1>1, <1>4, VFields DEF Loose
  <2>2. /\ 0 \in 0..2 /\ 0 \in 0..1 /\ 0 \in Nat /\ 0 \in 0..Cardinality(TrustedRoots) + 1
    BY ConstantsAssumption, FS_CardinalityType
  <2> QED
    BY <1>2, <1>3, <1>4, <2>1, <2>2 DEF Holdings
<1>6. Safe(c, f)
  <2>1. ASSUME NEW o \in Owners PROVE SafeOwner(c, o, f[o])
    <3>1. PICK l : l = {}
      OBVIOUS
    <3>2. f[o] = V(l, l, l) /\ l \ (l \cap l) \subseteq Never(c, o) \cup OnError(c, o) /\ l \cap l \subseteq l
      BY <1>1, <1>4, <3>1 DEF Loose
    <3> QED
      BY <3>2, SafeIs
  <2>2. SafeKey(c, f["key"]) /\ SafeSecret(c, f["secret"]) /\ SafeRoots(c, f["roots"]) /\ SafeContexts(c, f["contexts"])
    BY <1>2, <1>4 DEF Kv, Sv, Count, SafeKey, SafeSecret, SafeRoots, SafeContexts
  <2>3. f["secret"].hkdf = 0 /\ "hAlg" \notin f["hkdf"].members
    BY <1>1, <1>2, <1>4, PlaceNames DEF Loose, Sv, V
  <2> QED
    BY <2>1, <2>2, <2>3 DEF Safe
<1> QED
  BY <1>1, <1>2, <1>4, <1>5, <1>6 DEF Sound

\* A context of a hash, on Linux
LEMMA OsslShaHeld ==
  ASSUME NEW c, c.view = "holdings", ~OnWindows(c), c.name \in Secrets \cup {"report"}, NEW a, Sound(c, a),
         a["contexts"] = Count(0)
  PROVE  \E b : Runs(c, OsslSha, a, b) /\ Sound(c, b) /\ b["contexts"] = Count(1) /\ Except(a, b, "contexts")
<1>1. PICK n, p, x : n \in Nat /\ n = 0 /\ p = "contexts" /\ x = Allocate(mdCtx)
  <2>1. 0 \in Nat
    OBVIOUS
  <2> QED
    BY <2>1
<1>2. PICK b : Runs(c, <<x>>, a, b) /\ Sound(c, b) /\ b[p] = Count(n + 1) /\ Except(a, b, p)
  BY <1>1, CountStep
<1>3. Runs(c, <<Request>>, b, b)
  BY <1>2, StillRun, StillInstructions
<1>4. Runs(c, <<x, Request>>, a, b)
  BY <1>2, <1>3, Few
<1>5. OsslSha = <<x, Request>> /\ n + 1 = 1
  BY <1>1 DEF OsslSha
<1> QED
  BY <1>1, <1>2, <1>4, <1>5

\* A provider of hashes, on Windows
LEMMA BcryptShaHeld ==
  ASSUME NEW c, c.view = "holdings", NEW a, Sound(c, a), a["BcryptSha"] = Loose({})
  PROVE  \E b : /\ Runs(c, BcryptSha, a, b) /\ Sound(c, b) /\ b["BcryptSha"].live = {}
                /\ Except(a, b, "BcryptSha")
<1>0. PICK o, h, l, m2, x, D : /\ o = "BcryptSha" /\ h = "hAlg" /\ l = {} /\ m2 = l \cup {h} /\ x = New(<<o, h>>)
                               /\ D = {<<o, h>>}
  OBVIOUS
<1>1. o \in Owners /\ Ordinary(o, h) /\ o # "hkdf" /\ a[o] = V(l, l, l) /\ h \notin l
  BY <1>0, OwnerNames DEF Ordinary, Loose
<1>2. PICK u : u = <<Request>>
  OBVIOUS
<1>3. Still(u)
  BY <1>2, StillTuples, StillInstructions
<1>4. PICK b : Runs(c, Object(<<x>>, D, u), a, b) /\ Sound(c, b) /\ b[o] = V(l, m2, l) /\ Except(a, b, o)
  BY <1>0, <1>1, <1>3, BriefHeld
<1>5. BcryptSha = Object(<<x>>, D, u)
  BY <1>0, <1>2, Zenon DEF BcryptSha, shaAlg, Buffer
<1>6. b[o].live = l
  BY <1>4, VFields
<1> QED
  BY <1>0, <1>4, <1>5, <1>6

\* IsValidHclReport
LEMMA ReportHeld ==
  ASSUME NEW c, c.view = "holdings", c.name = "report", OnWindows(c) <=> Windows
  PROVE  Good(c, IsValidHclReport, Free) /\ NoEnds(IsValidHclReport)
<1> DEFINE t == <<Test("type_known"), Test("hash_known")>>
           u == <<Test("hash_matches")>>
<1>1. Still(t) /\ Still(u)
  BY StillTuples, StillInstructions
<1>2. /\ Windows => IsValidHclReport = Cat(Cat(t, BcryptSha), u)
      /\ ~Windows => IsValidHclReport = Cat(Cat(t, OsslSha), u)
  BY Zenon DEF IsValidHclReport, Cat
<1> HIDE DEF t, u
<1>3. /\ Sound(c, Free) /\ (\A o \in Owners : Free[o] = Loose({}))
      /\ Free["key"] = Kv(0, 0, 0) /\ Free["secret"] = Sv(0, 0, 0, 0, 0)
      /\ Free["roots"] = Count(0) /\ Free["contexts"] = Count(0)
  BY FreeIs
<1>4. PICK f : f = Free
  OBVIOUS
<1>5. Runs(c, t, f, f)
  BY <1>1, <1>3, <1>4, StillRuns
<1>6. f["key"].n = 0 /\ f["secret"].n = 0 /\ f["roots"].n = 0 /\ f["contexts"].n = 0 /\ \A o \in Owners : f[o].live = {}
  BY <1>3, <1>4, VFields DEF Kv, Sv, Count, Loose
<1>7. \A o : Never(c, o) = {}
  BY DEF Never, ChainCalls
<1>8. CASE Windows
  <2>1. f["BcryptSha"] = Loose({})
    BY <1>3, <1>4, OwnerNames
  <2>2. PICK b : /\ Runs(c, BcryptSha, f, b) /\ Sound(c, b) /\ b["BcryptSha"].live = {}
                 /\ Except(f, b, "BcryptSha")
    BY <1>3, <1>4, <2>1, BcryptShaHeld
  <2>3. Runs(c, u, b, b)
    BY <1>1, <2>2, StillRuns
  <2>4. Runs(c, Cat(t, BcryptSha), f, b)
    BY <1>5, <2>2, Then
  <2>5. Runs(c, IsValidHclReport, f, b)
    BY <1>2, <1>8, <2>3, <2>4, Then
  <2>6. /\ b["key"] = f["key"] /\ b["secret"] = f["secret"] /\ b["roots"] = f["roots"]
        /\ b["contexts"] = f["contexts"] /\ \A o \in Owners : b[o].live = {}
    BY <1>6, <2>2, PlaceNames, OwnerNames DEF Except
  <2>7. Complete(c, b)
    BY <1>6, <1>7, <1>8, <2>2, <2>6 DEF Complete, Settled, Sound, Secrets
  <2> QED
    BY <1>4, <2>5, <2>7, CompleteIsGood, RunsToEnd
<1>9. CASE ~Windows
  <2>2. PICK b : /\ Runs(c, OsslSha, f, b) /\ Sound(c, b) /\ b["contexts"] = Count(1)
                 /\ Except(f, b, "contexts")
    BY <1>3, <1>4, <1>9, OsslShaHeld
  <2>3. Runs(c, u, b, b)
    BY <1>1, <2>2, StillRuns
  <2>4. Runs(c, Cat(t, OsslSha), f, b)
    BY <1>5, <2>2, Then
  <2>5. Runs(c, IsValidHclReport, f, b)
    BY <1>2, <1>9, <2>3, <2>4, Then
  <2>6. /\ b["key"] = f["key"] /\ b["secret"] = f["secret"] /\ b["roots"] = f["roots"]
        /\ b["contexts"].n = 1 /\ \A o \in Owners : b[o].live = {}
    BY <1>6, <2>2, PlaceNames, OwnerNames DEF Except, Count
  <2>7. Complete(c, b)
    BY <1>6, <1>7, <1>9, <2>2, <2>6 DEF Complete, Settled, Sound, Secrets
  <2> QED
    BY <1>4, <2>5, <2>7, CompleteIsGood, RunsToEnd
<1> QED
  BY <1>8, <1>9

\* An object with one member, made by the constructor and released by the destructor
LEMMA OneEnters ==
  ASSUME NEW c, c.view = "holdings", NEW a, Sound(c, a), NEW o \in Owners, NEW h, Ordinary(o, h),
         o = "hkdf" => h # "hAlg", a[o] = Loose({})
  PROVE  \E b : /\ Enters(c, <<New(<<o, h>>)>>, {<<o, h>>}, a, b) /\ Sound(c, b) /\ b[o] = V({h}, {h}, {h})
                /\ Except(a, b, o)
<1>1. PICK S, v, D, x, n : S = {h} /\ v = V(S, S, S) /\ D = {<<o, h>>} /\ x = New(<<o, h>>) /\ n = {}
  OBVIOUS
<1>2. a[o].live = n /\ a[o].members = n /\ a[o].open = n
  BY <1>1, VFields DEF Loose
<1>3. SafeOwner(c, o, v)
  <2>1. S \ (S \cap S) \subseteq Never(c, o) \cup OnError(c, o) /\ S \cap S \subseteq S
    OBVIOUS
  <2> QED
    BY <1>1, <2>1, SafeIs
<1>4. n \cup {h} = S /\ n \cup S = S /\ S \cap n = {} /\ h \in S /\ h \notin n
  BY <1>1
<1>5. MakesAs(c, a, o, S, h, v)
  BY <1>1, <1>2, <1>3, <1>4 DEF MakesAs
<1>6. OwnParts(D, o, S)
  BY <1>1, OneName
<1>7. \E b : Enters(c, <<x>>, D, a, b) /\ Sound(c, b) /\ b[o] = v /\ Except(a, b, o)
  BY <1>1, <1>5, <1>6, NewEnters
<1> QED
  BY <1>1, <1>7

\* ... and its destructor
LEMMA OneLeaves ==
  ASSUME NEW c, NEW a, Sound(c, a), NEW o \in Owners, NEW h, Ordinary(o, h), a[o] = V({h}, {h}, {h}),
         NEW b, b = Destroyed(a, {<<o, h>>})
  PROVE  /\ Pending({<<o, h>>}, a) /\ Sound(c, b) /\ b[o] = V({}, {h}, {}) /\ Except(a, b, o)
<1>1. PICK S, v, D, n : S = {h} /\ n = {} /\ v = V(n, S, n) /\ D = {<<o, h>>}
  OBVIOUS
<1>2. a[o].live = S /\ a[o].members = S /\ a[o].open = S
  BY <1>1, VFields
<1>3. S \ (S \cap S) = n /\ S \ S = n /\ S \subseteq S
  BY <1>1
<1>4. LeavesAs(a, o, S, v)
  BY <1>1, <1>2, <1>3 DEF LeavesAs
<1>5. OwnParts(D, o, S)
  BY <1>1, OneName
<1>6. Pending(D, a) /\ Sound(c, b) /\ b[o] = v /\ Except(a, b, o)
  BY <1>1, <1>4, <1>5, NewLeaves
<1> QED
  BY <1>1, <1>6

\* Something before a constructor
LEMMA EntersAfter ==
  ASSUME NEW c, NEW s, NEW u, NEW D, NEW a, NEW a1, NEW b, Runs(c, s, a, a1), Enters(c, u, D, a1, b)
  PROVE  Enters(c, Cat(s, u), D, a, b)
<1>1. PICK a2 : Runs(c, u, a1, a2) /\ Holdings(a2) /\ Openable(D, a2) /\ b = Opened(a2, D)
  BY DEF Enters
<1>2. Runs(c, Cat(s, u), a, a2)
  BY <1>1, Then
<1> QED
  BY <1>1, <1>2 DEF Enters

\* AES-GCM on Linux: a context
LEMMA OsslGcmHeld ==
  ASSUME NEW c, c.view = "holdings", NEW a, Sound(c, a), a["aesWrapper"] = Loose({})
  PROVE  \E a1 : /\ Sound(c, a1) /\ Except(a, a1, "aesWrapper")
                 /\ \A scope, b : Runs(c, scope, a1, b) /\ Sound(c, b) /\ b["aesWrapper"] = a1["aesWrapper"] =>
                      \E d : /\ Runs(c, OsslGcmWrapper(scope), a, d) /\ Sound(c, d) /\ d["aesWrapper"].live = {}
                             /\ Except(b, d, "aesWrapper")
<1>1. PICK o, h : o = "aesWrapper" /\ h = "ctx"
  OBVIOUS
<1>2. o \in Owners /\ Ordinary(o, h) /\ (o = "hkdf" => h # "hAlg") /\ a[o] = Loose({}) /\ cipherCtx = <<o, h>>
  BY <1>1, OwnerNames DEF Ordinary, cipherCtx
<1>3. PICK D, u : D = {<<o, h>>} /\ u = <<New(<<o, h>>)>>
  OBVIOUS
<1>4. PICK a1 : Enters(c, u, D, a, a1) /\ Sound(c, a1) /\ a1[o] = V({h}, {h}, {h}) /\ Except(a, a1, o)
  BY <1>2, <1>3, OneEnters
<1>5. ASSUME NEW scope, NEW b, Runs(c, scope, a1, b), Sound(c, b), b["aesWrapper"] = a1["aesWrapper"]
      PROVE  \E d : /\ Runs(c, OsslGcmWrapper(scope), a, d) /\ Sound(c, d) /\ d["aesWrapper"].live = {}
                    /\ Except(b, d, "aesWrapper")
  <2>1. PICK d : d = Destroyed(b, D)
    OBVIOUS
  <2>2. b[o] = V({h}, {h}, {h})
    BY <1>1, <1>4, <1>5
  <2>3. Pending(D, b) /\ Sound(c, d) /\ d[o] = V({}, {h}, {}) /\ Except(b, d, o)
    BY <1>2, <1>3, <1>5, <2>1, <2>2, OneLeaves
  <2>4. Runs(c, Object(u, D, scope), a, d)
    BY <1>4, <1>5, <2>1, <2>3, Within
  <2>5. OsslGcmWrapper(scope) = Object(u, D, scope)
    BY <1>2, <1>3, Zenon DEF OsslGcmWrapper
  <2>6. d[o].live = {}
    BY <2>3, VFields
  <2> QED
    BY <1>1, <2>3, <2>4, <2>5, <2>6
<1> QED
  BY <1>1, <1>4, <1>5

\* HKDF on Linux: the context of a hash, and its own
LEMMA OsslHkdfHeld ==
  ASSUME NEW c, c.view = "holdings", ~OnWindows(c), c.name \in Secrets, NEW a, Sound(c, a),
         a["contexts"] = Count(0), a["hkdf"] = Loose({})
  PROVE  \E a1 : /\ Sound(c, a1) /\ a1["contexts"] = Count(1) /\ Except2(a, a1, "hkdf", "contexts")
                 /\ \A scope, b : Runs(c, scope, a1, b) /\ Sound(c, b) /\ b["hkdf"] = a1["hkdf"] =>
                      \E d : /\ Runs(c, OsslHKDF(scope), a, d) /\ Sound(c, d) /\ d["hkdf"].live = {}
                             /\ Except(b, d, "hkdf")
<1>1. PICK o, h : o = "hkdf" /\ h = "pctx"
  OBVIOUS
<1>2. o \in Owners /\ Ordinary(o, h) /\ (o = "hkdf" => h # "hAlg") /\ pctx = <<o, h>>
  BY <1>1, OwnerNames DEF Ordinary, pctx
<1>3. PICK D, u : D = {<<o, h>>} /\ u = <<New(<<o, h>>)>>
  OBVIOUS
<1>4. PICK a0 : Runs(c, OsslSha, a, a0) /\ Sound(c, a0) /\ a0["contexts"] = Count(1) /\ Except(a, a0, "contexts")
  BY OsslShaHeld
<1>5. Runs(c, Cat(OsslSha, <<Request>>), a, a0)
  <2>1. Runs(c, <<Request>>, a0, a0)
    BY <1>4, StillFunctions
  <2> QED
    BY <1>4, <2>1, Then
<1>6. a0[o] = Loose({})
  BY <1>1, <1>4, PlaceNames, OwnerNames DEF Except
<1>7. PICK a1 : Enters(c, u, D, a0, a1) /\ Sound(c, a1) /\ a1[o] = V({h}, {h}, {h}) /\ Except(a0, a1, o)
  BY <1>2, <1>3, <1>4, <1>6, OneEnters
<1>8. PICK w : w = Cat(Cat(OsslSha, <<Request>>), u)
  OBVIOUS
<1>9. Enters(c, w, D, a, a1)
  BY <1>5, <1>7, <1>8, EntersAfter
<1>10. w = OsslSha \o <<Request, New(pctx)>>
  <2>1. IsSeq(OsslSha) /\ IsSeq(<<Request>>) /\ IsSeq(u)
    BY <1>3, <1>4, Single DEF Runs
  <2>2. w = Cat(OsslSha, Cat(<<Request>>, u))
    BY <1>8, <2>1, CatAssociative
  <2>3. Cat(<<Request>>, u) = <<Request, New(pctx)>>
    BY <1>2, <1>3, Tuples, Zenon
  <2> QED
    BY <2>2, <2>3, Zenon DEF Cat
<1>11. ASSUME NEW scope, NEW b, Runs(c, scope, a1, b), Sound(c, b), b["hkdf"] = a1["hkdf"]
       PROVE  \E d : /\ Runs(c, OsslHKDF(scope), a, d) /\ Sound(c, d) /\ d["hkdf"].live = {}
                     /\ Except(b, d, "hkdf")
  <2>1. PICK d : d = Destroyed(b, D)
    OBVIOUS
  <2>2. b[o] = V({h}, {h}, {h})
    BY <1>1, <1>7, <1>11
  <2>3. Pending(D, b) /\ Sound(c, d) /\ d[o] = V({}, {h}, {}) /\ Except(b, d, o)
    BY <1>2, <1>3, <1>11, <2>1, <2>2, OneLeaves
  <2>4. Runs(c, Object(w, D, scope), a, d)
    BY <1>9, <1>11, <2>1, <2>3, Within
  <2>5. OsslHKDF(scope) = Object(w, D, scope)
    BY <1>2, <1>3, <1>10, Zenon DEF OsslHKDF
  <2>6. d[o].live = {}
    BY <2>3, VFields
  <2> QED
    BY <1>1, <2>3, <2>4, <2>5, <2>6
<1>12. a1["contexts"] = Count(1) /\ Except2(a, a1, "hkdf", "contexts")
  BY <1>1, <1>4, <1>7, PlaceNames, OwnerNames DEF Except, Except2
<1> QED
  BY <1>7, <1>11, <1>12

\* ECDH on Linux holds nothing that C++ does not give back
LEMMA OsslEcdhHeld ==
  ASSUME NEW c, c.view = "holdings", ~Windows, NEW scope, NEW a, Sound(c, a), NEW b, Sound(c, b),
         Runs(c, scope, a, b), NEW o, NEW q
  PROVE  Runs(c, ECDiffieHellman(o, ECDiffieHellman(q, scope)), a, b)
<1>1. Runs(c, <<Request>>, a, a)
  BY StillFunctions
<1>2. PICK t : t = Object(<<Request>>, {}, scope)
  OBVIOUS
<1>3. Runs(c, t, a, b)
  BY <1>1, <1>2, NoDestructor
<1>4. Runs(c, Object(<<Request>>, {}, t), a, b)
  BY <1>1, <1>3, NoDestructor
<1>5. ECDiffieHellman(o, ECDiffieHellman(q, scope)) = Object(<<Request>>, {}, t)
  BY <1>2, Zenon DEF ECDiffieHellman, OsslECDiffieHellman
<1> QED
  BY <1>4, <1>5

\* What is left at the end of decrypt_secret and of EncryptWithPadding on Linux
LEMMA LinuxSettled ==
  ASSUME NEW c, c.view = "holdings", c.name \in Secrets, ~OnWindows(c), NEW b, Sound(c, b),
         \A o \in Owners : b[o].live = {}, b["key"] = Kv(0, 0, 0), b["secret"] = Sv(0, 0, 0, 0, 0),
         b["roots"] = Count(0), b["contexts"] = Count(1)
  PROVE  Good(c, << >>, b)
<1>1. b["key"].n = 0 /\ b["secret"].n = 0 /\ b["roots"].n = 0 /\ b["contexts"].n = 1
  BY DEF Kv, Sv, Count
<1>2. \A o : Never(c, o) = {}
  BY DEF Never
<1>3. Complete(c, b)
  BY <1>1, <1>2 DEF Complete, Settled, Sound, Secrets
<1> QED
  BY <1>3, CompleteIsGood

\* decrypt_secret, on Linux
LEMMA DecryptSecretLinux ==
  ASSUME NEW c, c.view = "holdings", c.name = "unwrap", ~OnWindows(c), ~Windows
  PROVE  Good(c, decrypt_secret, Free) /\ NoEnds(decrypt_secret)
<1> DEFINE t1 == Cat(Cat(Cat(Cat(DeriveKey, SetKey("derived")), SetChainingInfo), Decrypt("encryptedSecret")),
                     <<Test("not_empty")>>)
           p2 == Cat(Cat(ImportPkcs8PrivateKey("ecdhPrivate"), ImportSubjectPublicKeyInfo("ecdhPublic")),
                         DeriveSecret)
           t2 == Cat(p2, OsslHKDF(t1))
           t3 == ECDiffieHellman("ecdhPrivate", ECDiffieHellman("ecdhPublic", t2))
           p4 == Cat(Cat(Cat(SetKey("transport"), SetChainingInfo), Decrypt("encryptedEcdhPrivate")),
                         <<Test("not_empty")>>)
           t4 == Cat(p4, t3)
<1>1. decrypt_secret = Cat(<<Request>>, OsslGcmWrapper(t4))
  BY Zenon DEF decrypt_secret, Cat, t1, t2, t3, t4, p2, p4, HKDF, AesWrapper
<1>2. ASSUME NEW a, Sound(c, a)
      PROVE  Runs(c, t1, a, a) /\ Runs(c, p2, a, a) /\ Runs(c, p4, a, a) /\ Runs(c, <<Request>>, a, a)
  <2>1. /\ Runs(c, <<Request>>, a, a) /\ Runs(c, <<Test("not_empty")>>, a, a)
        /\ Runs(c, SetChainingInfo, a, a)
        /\ Runs(c, Decrypt("encryptedSecret"), a, a) /\ Runs(c, Decrypt("encryptedEcdhPrivate"), a, a)
    BY <1>2, StillFunctions
  <2>2. /\ Runs(c, SetKey("transport"), a, a) /\ Runs(c, SetKey("derived"), a, a)
        /\ Runs(c, ImportPkcs8PrivateKey("ecdhPrivate"), a, a)
        /\ Runs(c, ImportSubjectPublicKeyInfo("ecdhPublic"), a, a)
        /\ Runs(c, DeriveSecret, a, a) /\ Runs(c, DeriveKey, a, a)
    BY <1>2, StillFunctions
  <2>3. Runs(c, p2, a, a)
    BY <2>2, Then
  <2>4. Runs(c, p4, a, a)
    BY <2>1, <2>2, Then
  <2>5. Runs(c, t1, a, a)
    BY <2>1, <2>2, Then
  <2> QED
    BY <2>1, <2>3, <2>4, <2>5
<1> HIDE DEF t1, p2, t2, t3, p4, t4
<1>3. PICK f : f = Free
  OBVIOUS
<1>4. /\ Sound(c, f) /\ (\A o \in Owners : f[o] = Loose({}))
      /\ f["key"] = Kv(0, 0, 0) /\ f["secret"] = Sv(0, 0, 0, 0, 0)
      /\ f["roots"] = Count(0) /\ f["contexts"] = Count(0)
  BY <1>3, FreeIs
<1>5. f["aesWrapper"] = Loose({}) /\ f["hkdf"] = Loose({})
  BY <1>4, OwnerNames
<1>6. PICK a1 : /\ Sound(c, a1) /\ Except(f, a1, "aesWrapper")
                /\ \A scope, b : Runs(c, scope, a1, b) /\ Sound(c, b) /\ b["aesWrapper"] = a1["aesWrapper"] =>
                     \E d : /\ Runs(c, OsslGcmWrapper(scope), f, d) /\ Sound(c, d) /\ d["aesWrapper"].live = {}
                            /\ Except(b, d, "aesWrapper")
  BY <1>4, <1>5, OsslGcmHeld
<1>7. a1["hkdf"] = Loose({}) /\ a1["contexts"] = Count(0)
  BY <1>4, <1>5, <1>6, PlaceNames, OwnerNames DEF Except
<1>8. PICK a2 : /\ Sound(c, a2) /\ a2["contexts"] = Count(1) /\ Except2(a1, a2, "hkdf", "contexts")
                /\ \A scope, b : Runs(c, scope, a2, b) /\ Sound(c, b) /\ b["hkdf"] = a2["hkdf"] =>
                     \E d : /\ Runs(c, OsslHKDF(scope), a1, d) /\ Sound(c, d) /\ d["hkdf"].live = {}
                            /\ Except(b, d, "hkdf")
  BY <1>6, <1>7, OsslHkdfHeld DEF Secrets
<1>9. PICK a3 : Runs(c, OsslHKDF(t1), a1, a3) /\ Sound(c, a3) /\ a3["hkdf"].live = {} /\ Except(a2, a3, "hkdf")
  BY <1>2, <1>8
<1>10. Runs(c, t2, a1, a3)
  BY <1>2, <1>6, <1>9, Then DEF t2
<1>11. Runs(c, t3, a1, a3)
  BY <1>6, <1>9, <1>10, OsslEcdhHeld DEF t3
<1>12. Runs(c, t4, a1, a3)
  BY <1>2, <1>6, <1>11, Then DEF t4
<1>13. a3["aesWrapper"] = a1["aesWrapper"]
  BY <1>8, <1>9, PlaceNames, OwnerNames DEF Except, Except2
<1>14. PICK d : /\ Runs(c, OsslGcmWrapper(t4), f, d) /\ Sound(c, d) /\ d["aesWrapper"].live = {}
                /\ Except(a3, d, "aesWrapper")
  BY <1>6, <1>9, <1>12, <1>13
<1>15. Runs(c, decrypt_secret, f, d)
  BY <1>1, <1>2, <1>4, <1>14, Then
<1>16. ASSUME NEW o \in Owners PROVE d[o].live = {}
  <2>1. CASE o = "aesWrapper"
    BY <1>14, <2>1
  <2>2. CASE o = "hkdf"
    BY <1>9, <1>14, <2>2, PlaceNames DEF Except
  <2>3. CASE o # "aesWrapper" /\ o # "hkdf"
    <3>1. d[o] = f[o]
      BY <1>6, <1>8, <1>9, <1>14, <2>3, PlaceNames DEF Except, Except2
    <3> QED
      BY <1>4, <3>1, VFields DEF Loose
  <2> QED
    BY <2>1, <2>2, <2>3
<1>17. /\ d["key"] = Kv(0, 0, 0) /\ d["secret"] = Sv(0, 0, 0, 0, 0)
       /\ d["roots"] = Count(0) /\ d["contexts"] = Count(1)
  BY <1>4, <1>6, <1>8, <1>9, <1>14, PlaceNames DEF Except, Except2
<1>18. Good(c, << >>, d)
  BY <1>14, <1>16, <1>17, LinuxSettled DEF Secrets
<1> QED
  BY <1>3, <1>15, <1>18, RunsToEnd

\* EncryptWithPadding, on Linux
LEMMA EncryptWithPaddingLinux ==
  ASSUME NEW c, c.view = "holdings", c.name = "protect", ~OnWindows(c), ~Windows
  PROVE  Good(c, EncryptWithPadding, Free) /\ NoEnds(EncryptWithPadding)
<1> DEFINE t0 == Cat(Cat(SetKey("derived"), SetChainingInfo), Encrypt("encryptedSecret"))
           t1 == Cat(Cat(Cat(Cat(t0, SetKey("transport")), SetChainingInfo), Encrypt("encryptedEcdhPrivate")),
                     <<Request>>)
           t2 == Cat(DeriveKey, OsslGcmWrapper(t1))
           p3 == Cat(Cat(Cat(Cat(GenerateKeyPair("ecdhPrivate"), GenerateKeyPair("ecdhPublic")),
                             ExportSubjectPublicKeyInfo), ExportPkcs8PrivateKey), DeriveSecret)
           t3 == Cat(p3, OsslHKDF(t2))
<1>1. EncryptWithPadding = ECDiffieHellman("ecdhPrivate", ECDiffieHellman("ecdhPublic", t3))
  BY Zenon DEF EncryptWithPadding, Cat, t0, t1, t2, t3, p3, HKDF, AesWrapper
<1>2. ASSUME NEW a, Sound(c, a) PROVE Runs(c, t1, a, a) /\ Runs(c, p3, a, a) /\ Runs(c, DeriveKey, a, a)
  <2>1. /\ Runs(c, <<Request>>, a, a) /\ Runs(c, SetChainingInfo, a, a)
        /\ Runs(c, Encrypt("encryptedSecret"), a, a) /\ Runs(c, Encrypt("encryptedEcdhPrivate"), a, a)
    BY <1>2, StillFunctions
  <2>2. /\ Runs(c, SetKey("transport"), a, a) /\ Runs(c, SetKey("derived"), a, a)
        /\ Runs(c, GenerateKeyPair("ecdhPrivate"), a, a) /\ Runs(c, GenerateKeyPair("ecdhPublic"), a, a)
        /\ Runs(c, ExportSubjectPublicKeyInfo, a, a) /\ Runs(c, ExportPkcs8PrivateKey, a, a)
        /\ Runs(c, DeriveSecret, a, a) /\ Runs(c, DeriveKey, a, a)
    BY <1>2, StillFunctions
  <2>3. Runs(c, p3, a, a)
    BY <2>2, Then
  <2>4. Runs(c, t0, a, a)
    BY <2>1, <2>2, Then
  <2>5. Runs(c, t1, a, a)
    <3> HIDE DEF t0
    <3> QED
      BY <2>1, <2>2, <2>4, Then
  <2> QED
    BY <2>2, <2>3, <2>5
<1> HIDE DEF t0, t1, t2, p3, t3
<1>3. PICK f : f = Free
  OBVIOUS
<1>4. /\ Sound(c, f) /\ (\A o \in Owners : f[o] = Loose({}))
      /\ f["key"] = Kv(0, 0, 0) /\ f["secret"] = Sv(0, 0, 0, 0, 0)
      /\ f["roots"] = Count(0) /\ f["contexts"] = Count(0)
  BY <1>3, FreeIs
<1>5. f["aesWrapper"] = Loose({}) /\ f["hkdf"] = Loose({})
  BY <1>4, OwnerNames
<1>6. PICK a1 : /\ Sound(c, a1) /\ a1["contexts"] = Count(1) /\ Except2(f, a1, "hkdf", "contexts")
                /\ \A scope, b : Runs(c, scope, a1, b) /\ Sound(c, b) /\ b["hkdf"] = a1["hkdf"] =>
                     \E d : /\ Runs(c, OsslHKDF(scope), f, d) /\ Sound(c, d) /\ d["hkdf"].live = {}
                            /\ Except(b, d, "hkdf")
  BY <1>4, <1>5, OsslHkdfHeld DEF Secrets
<1>7. a1["aesWrapper"] = Loose({})
  BY <1>5, <1>6, PlaceNames, OwnerNames DEF Except2
<1>8. PICK a2 : /\ Sound(c, a2) /\ Except(a1, a2, "aesWrapper")
                /\ \A scope, b : Runs(c, scope, a2, b) /\ Sound(c, b) /\ b["aesWrapper"] = a2["aesWrapper"] =>
                     \E d : /\ Runs(c, OsslGcmWrapper(scope), a1, d) /\ Sound(c, d) /\ d["aesWrapper"].live = {}
                            /\ Except(b, d, "aesWrapper")
  BY <1>6, <1>7, OsslGcmHeld
<1>9. PICK a3 : /\ Runs(c, OsslGcmWrapper(t1), a1, a3) /\ Sound(c, a3) /\ a3["aesWrapper"].live = {}
                /\ Except(a2, a3, "aesWrapper")
  BY <1>2, <1>8
<1>10. Runs(c, t2, a1, a3)
  BY <1>2, <1>6, <1>9, Then DEF t2
<1>11. a3["hkdf"] = a1["hkdf"]
  BY <1>8, <1>9, PlaceNames, OwnerNames DEF Except
<1>12. PICK d : Runs(c, OsslHKDF(t2), f, d) /\ Sound(c, d) /\ d["hkdf"].live = {} /\ Except(a3, d, "hkdf")
  BY <1>6, <1>9, <1>10, <1>11
<1>13. Runs(c, t3, f, d)
  BY <1>2, <1>4, <1>12, Then DEF t3
<1>14. Runs(c, EncryptWithPadding, f, d)
  BY <1>1, <1>4, <1>12, <1>13, OsslEcdhHeld
<1>15. ASSUME NEW o \in Owners PROVE d[o].live = {}
  <2>1. CASE o = "aesWrapper"
    BY <1>9, <1>12, <2>1, PlaceNames DEF Except
  <2>2. CASE o = "hkdf"
    BY <1>12, <2>2
  <2>3. CASE o # "aesWrapper" /\ o # "hkdf"
    <3>1. d[o] = f[o]
      BY <1>6, <1>8, <1>9, <1>12, <2>3, PlaceNames DEF Except, Except2
    <3> QED
      BY <1>4, <3>1, VFields DEF Loose
  <2> QED
    BY <2>1, <2>2, <2>3
<1>16. /\ d["key"] = Kv(0, 0, 0) /\ d["secret"] = Sv(0, 0, 0, 0, 0)
       /\ d["roots"] = Count(0) /\ d["contexts"] = Count(1)
  BY <1>4, <1>6, <1>8, <1>9, <1>12, PlaceNames DEF Except, Except2
<1>17. Good(c, << >>, d)
  BY <1>12, <1>15, <1>16, LinuxSettled DEF Secrets
<1> QED
  BY <1>3, <1>14, <1>17, RunsToEnd

\* The places decrypt_secret and EncryptWithPadding use on Windows: aesWrapper and its key, ecdhPrivate
\* and its secret, ecdhPublic, hkdf, the buffers of the two imports and of the two exports
World(b, aw, k, ep, s, eu, h, i, j, x, y) ==
  /\ b["aesWrapper"] = aw /\ b["key"] = k /\ b["ecdhPrivate"] = ep /\ b["secret"] = s /\ b["ecdhPublic"] = eu
  /\ b["hkdf"] = h /\ b["ImportPkcs8PrivateKey"] = i /\ b["ImportSubjectPublicKeyInfo"] = j
  /\ b["ExportPkcs8PrivateKey"] = x /\ b["ExportSubjectPublicKeyInfo"] = y
  /\ \A o \in Owners :
       o \notin {"aesWrapper", "ecdhPrivate", "ecdhPublic", "hkdf", "ImportPkcs8PrivateKey",
                 "ImportSubjectPublicKeyInfo", "ExportPkcs8PrivateKey", "ExportSubjectPublicKeyInfo"} =>
         b[o] = Loose({})
  /\ b["roots"] = Count(0) /\ b["contexts"] = Count(0)

\* AES-GCM on Windows: it leaves one of two keys
LEMMA GcmHeld ==
  ASSUME NEW c, c.view = "holdings", c.name \in Secrets, OnWindows(c), NEW a, Sound(c, a),
         a["aesWrapper"] = Loose({}), a["key"] = Kv(0, 0, 0)
  PROVE  \E a1 : /\ Sound(c, a1) /\ Except2(a, a1, "aesWrapper", "key") /\ a1["key"] = Kv(0, 0, 1)
                 /\ \A scope, b : (/\ Runs(c, scope, a1, b) /\ Sound(c, b) /\ b["aesWrapper"] = a1["aesWrapper"]
                                   /\ b["key"] = Kv(2, 1, 1)) =>
                      \E d : /\ Runs(c, GcmWrapper(scope), a, d) /\ Sound(c, d) /\ d["aesWrapper"].live = {}
                             /\ d["key"] = Kv(1, 1, 0) /\ Except2(b, d, "aesWrapper", "key")
<1>1. PICK u, D, H : u = <<New(hAesHandle), Request>> /\ D = {hAesHandle, hAesKey} /\ H = {"hAesHandle"}
  OBVIOUS
<1>2. PICK a1 : /\ Enters(c, u, D, a, a1) /\ Sound(c, a1) /\ a1["aesWrapper"] = V(H, H, H)
                /\ a1["key"] = Kv(0, 0, 1) /\ Except2(a, a1, "aesWrapper", "key")
  BY <1>1, GcmEnters
<1>3. ASSUME NEW scope, NEW b, Runs(c, scope, a1, b), Sound(c, b), b["aesWrapper"] = a1["aesWrapper"],
             b["key"] = Kv(2, 1, 1)
      PROVE  \E d : /\ Runs(c, GcmWrapper(scope), a, d) /\ Sound(c, d) /\ d["aesWrapper"].live = {}
                    /\ d["key"] = Kv(1, 1, 0) /\ Except2(b, d, "aesWrapper", "key")
  <2>1. PICK d : d = Destroyed(b, D)
    OBVIOUS
  <2>2. PICK n, m : n = 2 /\ m = 1
    OBVIOUS
  <2>3. /\ Pending(D, b) /\ Sound(c, d) /\ d["aesWrapper"] = V({}, H, {}) /\ d["key"] = Kv(n - m, m, 0)
        /\ Except2(b, d, "aesWrapper", "key")
    BY <1>1, <1>2, <1>3, <2>1, <2>2, GcmLeaves
  <2>4. Runs(c, Object(u, D, scope), a, d)
    BY <1>2, <1>3, <2>1, <2>3, Within
  <2>5. GcmWrapper(scope) = Object(u, D, scope)
    BY <1>1, Zenon DEF GcmWrapper
  <2>6. d["aesWrapper"].live = {} /\ n - m = 1
    BY <2>2, <2>3, VFields
  <2> QED
    BY <2>2, <2>3, <2>4, <2>5, <2>6
<1> QED
  BY <1>2, <1>3

\* ecdhPrivate on Windows
LEMMA EcdhPrivateHeld ==
  ASSUME NEW c, c.view = "holdings", NEW a, Sound(c, a), a["ecdhPrivate"] = Loose({}),
         a["secret"] = Sv(0, 0, 0, 0, 0)
  PROVE  \E a1 : /\ Sound(c, a1) /\ a1["ecdhPrivate"] = V({"hEcHandle"}, {"hEcHandle"}, EcdhNames)
                 /\ a1["secret"] = Sv(0, 0, 1, 0, 0) /\ Except2(a, a1, "ecdhPrivate", "secret")
                 /\ \A scope, b : (/\ Runs(c, scope, a1, b) /\ Sound(c, b)
                                   /\ b["ecdhPrivate"] = V(EcdhNames, EcdhNames, EcdhNames)
                                   /\ b["secret"] = Sv(0, 1, 1, 1, 0)) =>
                      \E d : /\ Runs(c, BcryptECDiffieHellman("ecdhPrivate", scope), a, d) /\ Sound(c, d)
                             /\ d["ecdhPrivate"].live = {} /\ d["secret"] = Sv(0, 1, 0, 1, 1)
                             /\ Except2(b, d, "ecdhPrivate", "secret")
<1>1. PICK u, D : u = <<New(hEcHandle("ecdhPrivate"))>> /\ D = EcdhPrivateParts
  OBVIOUS
<1>2. PICK a1 : /\ Enters(c, u, D, a, a1) /\ Sound(c, a1)
                /\ a1["ecdhPrivate"] = V({"hEcHandle"}, {"hEcHandle"}, EcdhNames)
                /\ a1["secret"] = Sv(0, 0, 1, 0, 0) /\ Except2(a, a1, "ecdhPrivate", "secret")
  BY <1>1, EcdhEnters
<1>3. ASSUME NEW scope, NEW b, Runs(c, scope, a1, b), Sound(c, b),
             b["ecdhPrivate"] = V(EcdhNames, EcdhNames, EcdhNames), b["secret"] = Sv(0, 1, 1, 1, 0)
      PROVE  \E d : /\ Runs(c, BcryptECDiffieHellman("ecdhPrivate", scope), a, d) /\ Sound(c, d)
                    /\ d["ecdhPrivate"].live = {} /\ d["secret"] = Sv(0, 1, 0, 1, 1)
                    /\ Except2(b, d, "ecdhPrivate", "secret")
  <2>1. PICK d : d = Destroyed(b, D)
    OBVIOUS
  <2>2. /\ Pending(D, b) /\ Sound(c, d) /\ d["ecdhPrivate"] = V({}, EcdhNames, {})
        /\ d["secret"] = Sv(0, 1, 0, 1, 1) /\ Except2(b, d, "ecdhPrivate", "secret")
    BY <1>1, <1>3, <2>1, EcdhLeaves
  <2>3. Runs(c, Object(u, D, scope), a, d)
    BY <1>2, <1>3, <2>1, <2>2, Within
  <2>4. BcryptECDiffieHellman("ecdhPrivate", scope) = Object(u, D, scope)
    BY <1>1, Zenon DEF BcryptECDiffieHellman, EcdhPrivateParts
  <2>5. d["ecdhPrivate"].live = {}
    BY <2>2, VFields
  <2> QED
    BY <2>2, <2>3, <2>4, <2>5
<1> QED
  BY <1>2, <1>3

EcdhPublicNames == {"hSharedSecret", "hEccKeyHandle", "hEcHandle"}

\* ecdhPublic on Windows: it never has a secret
LEMMA EcdhPublicHeld ==
  ASSUME NEW c, c.view = "holdings", NEW a, Sound(c, a), a["ecdhPublic"] = Loose({})
  PROVE  \E a1 : /\ Sound(c, a1) /\ a1["ecdhPublic"] = V({"hEcHandle"}, {"hEcHandle"}, EcdhPublicNames)
                 /\ Except(a, a1, "ecdhPublic")
                 /\ \A scope, b : (/\ Runs(c, scope, a1, b) /\ Sound(c, b)
                                   /\ b["ecdhPublic"] = V(EcdhNames, EcdhNames, EcdhPublicNames)) =>
                      \E d : /\ Runs(c, BcryptECDiffieHellman("ecdhPublic", scope), a, d) /\ Sound(c, d)
                             /\ d["ecdhPublic"].live = {} /\ Except(b, d, "ecdhPublic")
<1>1. PICK o, h, S, H, n, v : /\ o = "ecdhPublic" /\ h = "hEcHandle" /\ S = EcdhPublicNames /\ H = {h} /\ n = {}
                              /\ v = V(H, H, S)
  OBVIOUS
<1>2. o \in Owners /\ (\A m \in S : Ordinary(o, m)) /\ h \in S /\ o # "hkdf"
  BY <1>1, OwnerNames DEF Ordinary, EcdhPublicNames
<1>3. PICK D, u, x : /\ D = Of(o, S) /\ x = New(<<o, h>>) /\ u = <<x>>
  OBVIOUS
<1>4. OwnParts(D, o, S)
  BY <1>2, <1>3, OwnPartsIs
<1>5. a[o].live = n /\ a[o].members = n /\ a[o].open = n
  BY <1>1, VFields DEF Loose
<1>6. SafeOwner(c, o, v)
  <2>1. H \ (S \cap H) \subseteq Never(c, o) \cup OnError(c, o) /\ S \cap H \subseteq H
    BY <1>1, <1>2
  <2> QED
    BY <1>1, <2>1, SafeIs
<1>7. n \cup H = H /\ n \cup S = S /\ S \cap n = {} /\ h \notin n
  BY <1>1
<1>8. MakesAs(c, a, o, S, h, v)
  BY <1>1, <1>2, <1>5, <1>6, <1>7 DEF MakesAs
<1>9. PICK a1 : Enters(c, u, D, a, a1) /\ Sound(c, a1) /\ a1[o] = v /\ Except(a, a1, o)
  BY <1>2, <1>3, <1>4, <1>8, NewEnters
<1>10. ASSUME NEW scope, NEW b, Runs(c, scope, a1, b), Sound(c, b),
              b["ecdhPublic"] = V(EcdhNames, EcdhNames, EcdhPublicNames)
       PROVE  \E d : /\ Runs(c, BcryptECDiffieHellman("ecdhPublic", scope), a, d) /\ Sound(c, d)
                     /\ d["ecdhPublic"].live = {} /\ Except(b, d, "ecdhPublic")
  <2>1. PICK d, N, w : d = Destroyed(b, D) /\ N = EcdhNames /\ w = V(n, N, n)
    OBVIOUS
  <2>2. b[o].live = N /\ b[o].members = N /\ b[o].open = S
    BY <1>1, <1>10, <2>1, VFields
  <2>3. N \ (S \cap N) = n /\ S \ S = n /\ S \subseteq S
    BY <1>1, <2>1 DEF EcdhNames, EcdhPublicNames
  <2>4. LeavesAs(b, o, S, w)
    BY <2>1, <2>2, <2>3 DEF LeavesAs
  <2>5. Pending(D, b) /\ Sound(c, d) /\ d[o] = w /\ Except(b, d, o)
    BY <1>2, <1>4, <1>10, <2>1, <2>4, NewLeaves
  <2>6. Runs(c, Object(u, D, scope), a, d)
    BY <1>9, <1>10, <2>1, <2>5, Within
  <2>7. D = {hSharedSecret(o), hEccKeyHandle(o), hEcHandle(o)}
    <3>1. \A r : r \in D <=> \E m \in S : r = <<o, m>>
      BY <1>3 DEF Of
    <3>2. D = {<<o, "hSharedSecret">>, <<o, "hEccKeyHandle">>, <<o, "hEcHandle">>}
      BY <1>1, <3>1 DEF EcdhPublicNames
    <3> QED
      BY <3>2 DEF hSharedSecret, hEccKeyHandle, hEcHandle
  <2>8. BcryptECDiffieHellman(o, scope) = Object(u, D, scope)
    BY <1>1, <1>3, <2>7, Zenon DEF BcryptECDiffieHellman, hEcHandle
  <2>9. d[o].live = {}
    BY <1>1, <2>1, <2>5, VFields
  <2> QED
    BY <1>1, <2>5, <2>6, <2>8, <2>9
<1> QED
  BY <1>1, <1>9, <1>10

\* HKDF on Windows
LEMMA BcryptHkdfHeld ==
  ASSUME NEW c, c.view = "holdings", OnWindows(c), NEW a, Sound(c, a), a["hkdf"] = Loose({}),
         a["secret"] = Sv(1, 1, 1, 0, 0)
  PROVE  \E a1 : /\ Sound(c, a1) /\ a1["secret"] = Sv(1, 1, 2, 1, 0) /\ Except2(a, a1, "hkdf", "secret")
                 /\ \A scope, b : (/\ Runs(c, scope, a1, b) /\ Sound(c, b) /\ b["hkdf"] = a1["hkdf"]
                                   /\ b["secret"] = a1["secret"]) =>
                      \E d : /\ Runs(c, BcryptHKDF(scope), a, d) /\ Sound(c, d) /\ d["hkdf"].live = {}
                             /\ d["secret"] = Sv(0, 1, 1, 1, 0) /\ Except2(b, d, "hkdf", "secret")
<1>1. PICK u, D, H : u = <<New(hAlg)>> /\ D = {hSharedSecret("ecdhPrivate"), hAlg} /\ H = {"hAlg"}
  OBVIOUS
<1>2. PICK a1 : /\ Enters(c, u, D, a, a1) /\ Sound(c, a1) /\ a1["hkdf"] = V(H, H, H)
                /\ a1["secret"] = Sv(1, 1, 2, 1, 0) /\ Except2(a, a1, "hkdf", "secret")
  BY <1>1, HkdfEnters
<1>3. ASSUME NEW scope, NEW b, Runs(c, scope, a1, b), Sound(c, b), b["hkdf"] = a1["hkdf"],
             b["secret"] = a1["secret"]
      PROVE  \E d : /\ Runs(c, BcryptHKDF(scope), a, d) /\ Sound(c, d) /\ d["hkdf"].live = {}
                    /\ d["secret"] = Sv(0, 1, 1, 1, 0) /\ Except2(b, d, "hkdf", "secret")
  <2>1. PICK d : d = Destroyed(b, D)
    OBVIOUS
  <2>2. /\ Pending(D, b) /\ Sound(c, d) /\ d["hkdf"] = V({}, H, {})
        /\ d["secret"] = Sv(0, 1, 1, 1, 0) /\ Except2(b, d, "hkdf", "secret")
    BY <1>1, <1>2, <1>3, <2>1, HkdfLeaves
  <2>3. Runs(c, Object(u, D, scope), a, d)
    BY <1>2, <1>3, <2>1, <2>2, Within
  <2>4. BcryptHKDF(scope) = Object(u, D, scope)
    BY <1>1, Zenon DEF BcryptHKDF
  <2>5. d["hkdf"].live = {}
    BY <2>2, VFields
  <2> QED
    BY <2>2, <2>3, <2>4, <2>5
<1> QED
  BY <1>2, <1>3

\* SetKey on Windows takes one more key
LEMMA SetKeyHeld ==
  ASSUME NEW c, c.view = "holdings", OnWindows(c), Windows, c.name \in Secrets, NEW a, Sound(c, a),
         NEW n \in 0..1, NEW m \in 0..1, a["key"] = Kv(n, m, 1), NEW k
  PROVE  \E b : /\ Runs(c, SetKey(k), a, b) /\ Sound(c, b) /\ b["key"] = Kv(n + 1, 1, 1)
                /\ Except(a, b, "key")
<1>1. PICK b : /\ Runs(c, <<New(hAesKey)>>, a, b) /\ Sound(c, b) /\ b["key"] = Kv(n + 1, 1, 1)
               /\ Except(a, b, "key")
  BY KeyStep
<1>2. Runs(c, <<Assign(k)>>, b, b)
  BY <1>1, StillRun, StillInstructions
<1>3. Runs(c, <<New(hAesKey), Assign(k)>>, a, b)
  BY <1>1, <1>2, Few
<1> QED
  BY <1>1, <1>3 DEF SetKey, GcmWrapper_SetKey

\* DeriveSecret on Windows
LEMMA DeriveSecretHeld ==
  ASSUME NEW c, c.view = "holdings", Windows, NEW a, Sound(c, a), a["secret"] = Sv(0, 0, 1, 0, 0)
  PROVE  \E b : /\ Runs(c, DeriveSecret, a, b) /\ Sound(c, b) /\ b["secret"] = Sv(1, 1, 1, 0, 0)
                /\ Except(a, b, "secret")
BY SecretStep DEF DeriveSecret, Bcrypt_DeriveSecret, Shared

\* GenerateKeyPair on Windows
LEMMA GenerateKeyPairHeld ==
  ASSUME NEW c, c.view = "holdings", Windows, NEW a, Sound(c, a), NEW o \in {"ecdhPrivate", "ecdhPublic"}, NEW p,
         a[o] = V({"hEcHandle"}, {"hEcHandle"}, p), "hEcHandle" \in p, "hEccKeyHandle" \in p
  PROVE  \E b : /\ Runs(c, GenerateKeyPair(o), a, b) /\ Sound(c, b) /\ Except(a, b, o)
                /\ b[o] = V(EcdhNames, EcdhNames, p)
<1>1. PICK b : /\ Runs(c, <<New(hEccKeyHandle(o))>>, a, b) /\ Sound(c, b) /\ Except(a, b, o)
               /\ b[o] = V(EcdhNames, EcdhNames, p)
  BY EcdhKeyStep DEF EcdhNames
<1>2. Runs(c, <<Request>>, b, b)
  BY <1>1, StillFunctions
<1>3. Runs(c, <<New(hEccKeyHandle(o)), Request>>, a, b)
  BY <1>1, <1>2, Few
<1> QED
  BY <1>1, <1>3 DEF GenerateKeyPair, Bcrypt_GenerateKeyPair

\* What is left at the end of decrypt_secret and of EncryptWithPadding on Windows
LEMMA WindowsSettled ==
  ASSUME NEW c, c.view = "holdings", c.name \in Secrets, OnWindows(c), NEW b, Sound(c, b),
         NEW aw, NEW k, NEW ep, NEW s, NEW eu, NEW h, NEW i, NEW j, NEW x, NEW y,
         World(b, aw, k, ep, s, eu, h, i, j, x, y), aw.live = {}, ep.live = {}, eu.live = {}, h.live = {},
         k = Kv(1, 1, 0), s = Sv(0, 1, 0, 1, 1),
         i = Loose(Never(c, "ImportPkcs8PrivateKey")), j = Loose(Never(c, "ImportSubjectPublicKeyInfo")),
         x = Loose(Never(c, "ExportPkcs8PrivateKey")), y = Loose(Never(c, "ExportSubjectPublicKeyInfo"))
  PROVE  Good(c, << >>, b)
<1>1. b["key"].n = 1 /\ b["secret"].n = 0 /\ b["roots"].n = 0 /\ b["contexts"].n = 0
  BY DEF Kv, Sv, Count, World
<1>2. ASSUME NEW o \in Owners PROVE b[o].live = Never(c, o)
  <2>1. CASE o \in {"aesWrapper", "ecdhPrivate", "ecdhPublic", "hkdf"}
    <3>1. Never(c, o) = {}
      BY <2>1 DEF Never, ChainCalls
    <3> QED
      BY <2>1, <3>1 DEF World
  <2>2. CASE o \in {"ImportPkcs8PrivateKey", "ImportSubjectPublicKeyInfo", "ExportPkcs8PrivateKey",
                    "ExportSubjectPublicKeyInfo"}
    <3>1. b[o] = Loose(Never(c, o))
      BY <2>2 DEF World
    <3> QED
      BY <3>1, VFields DEF Loose
  <2>3. CASE o \notin {"aesWrapper", "ecdhPrivate", "ecdhPublic", "hkdf", "ImportPkcs8PrivateKey",
                       "ImportSubjectPublicKeyInfo", "ExportPkcs8PrivateKey", "ExportSubjectPublicKeyInfo"}
    <3>1. Never(c, o) = {}
      BY <2>3 DEF Never, ChainCalls, Secrets
    <3>2. b[o] = Loose({})
      BY <2>3 DEF World
    <3> QED
      BY <3>1, <3>2, VFields DEF Loose
  <2> QED
    BY <2>1, <2>2, <2>3
<1>3. Complete(c, b)
  BY <1>1, <1>2 DEF Complete, Settled, Sound, Secrets
<1> QED
  BY <1>3, CompleteIsGood

\* A call starts with nothing
LEMMA FreeWorld ==
  World(Free, Loose({}), Kv(0, 0, 0), Loose({}), Sv(0, 0, 0, 0, 0), Loose({}), Loose({}), Loose({}), Loose({}),
        Loose({}), Loose({}))
<1>1. PICK n : n = Loose({})
  OBVIOUS
<1>2. PICK f : f = Free
  OBVIOUS
<1>3. /\ \A o \in Owners : f[o] = n
      /\ f["key"] = Kv(0, 0, 0) /\ f["secret"] = Sv(0, 0, 0, 0, 0)
      /\ f["roots"] = Count(0) /\ f["contexts"] = Count(0)
  BY <1>1, <1>2, FreeIs
<1>4. World(f, n, Kv(0, 0, 0), n, Sv(0, 0, 0, 0, 0), n, n, n, n, n, n)
  BY <1>1, <1>3, OwnerNames DEF World
<1> QED
  BY <1>1, <1>2, <1>4

\* decrypt_secret, on Windows
LEMMA DecryptSecretWindows ==
  ASSUME NEW c, c.view = "holdings", c.name = "unwrap", OnWindows(c), Windows
  PROVE  Good(c, decrypt_secret, Free) /\ NoEnds(decrypt_secret)
<1> DEFINE t1 == Cat(Cat(Cat(Cat(DeriveKey, SetKey("derived")), SetChainingInfo), Decrypt("encryptedSecret")),
                     <<Test("not_empty")>>)
           t2 == Cat(Cat(Cat(ImportPkcs8PrivateKey("ecdhPrivate"), ImportSubjectPublicKeyInfo("ecdhPublic")),
                         DeriveSecret), BcryptHKDF(t1))
           t3 == BcryptECDiffieHellman("ecdhPrivate", BcryptECDiffieHellman("ecdhPublic", t2))
           t4 == Cat(Cat(Cat(Cat(SetKey("transport"), SetChainingInfo), Decrypt("encryptedEcdhPrivate")),
                         <<Test("not_empty")>>), t3)
<1>1. decrypt_secret = Cat(<<Request>>, GcmWrapper(t4))
  BY Zenon DEF decrypt_secret, Cat, t1, t2, t3, t4, HKDF, AesWrapper, ECDiffieHellman
<1>2. ASSUME NEW a, Sound(c, a)
      PROVE  /\ Runs(c, <<Request>>, a, a) /\ Runs(c, <<Test("not_empty")>>, a, a)
             /\ Runs(c, SetChainingInfo, a, a)
             /\ Runs(c, Decrypt("encryptedSecret"), a, a) /\ Runs(c, Decrypt("encryptedEcdhPrivate"), a, a)
             /\ (a["Expand"] = Loose({}) => Runs(c, DeriveKey, a, a))
  BY <1>2, StillFunctions, BorrowedHeld
<1>3. c.name \in Secrets
  BY DEF Secrets
<1> DEFINE N == Loose({})
           P == Loose({"pekb"})
           e1 == V({"hEcHandle"}, {"hEcHandle"}, EcdhNames)
           e2 == V(EcdhNames, EcdhNames, EcdhNames)
           u1 == V({"hEcHandle"}, {"hEcHandle"}, EcdhPublicNames)
           u2 == V(EcdhNames, EcdhNames, EcdhPublicNames)
           s0 == Sv(0, 0, 0, 0, 0)
           s1 == Sv(0, 0, 1, 0, 0)
           s2 == Sv(1, 1, 1, 0, 0)
           s3 == Sv(1, 1, 2, 1, 0)
           s4 == Sv(0, 1, 1, 1, 0)
           s5 == Sv(0, 1, 0, 1, 1)
           k0 == Kv(0, 0, 0)
           k1 == Kv(0, 0, 1)
           k2 == Kv(1, 1, 1)
           k3 == Kv(2, 1, 1)
           k4 == Kv(1, 1, 0)
<1> HIDE DEF t1, t2, t3, t4
<1>4. PICK f : f = Free
  OBVIOUS
<1>5. Sound(c, f) /\ World(f, N, k0, N, s0, N, N, N, N, N, N)
  BY <1>4, FreeIs, FreeWorld
<1>6. PICK a1 : /\ Sound(c, a1) /\ Except2(f, a1, "aesWrapper", "key") /\ a1["key"] = k1
                /\ \A scope, b : (/\ Runs(c, scope, a1, b) /\ Sound(c, b) /\ b["aesWrapper"] = a1["aesWrapper"]
                                  /\ b["key"] = k3) =>
                     \E d : /\ Runs(c, GcmWrapper(scope), f, d) /\ Sound(c, d) /\ d["aesWrapper"].live = {}
                            /\ d["key"] = k4 /\ Except2(b, d, "aesWrapper", "key")
  BY <1>3, <1>5, GcmHeld DEF World
<1>7. PICK w : w = a1["aesWrapper"]
  OBVIOUS
<1>8. PICK a2 : Runs(c, SetKey("transport"), a1, a2) /\ Sound(c, a2) /\ a2["key"] = k2 /\ Except(a1, a2, "key")
  <2>0. 0 \in 0..1
    OBVIOUS
  <2>1. PICK n \in 0..1, m \in 0..1 : n = 0 /\ m = 0
    BY <2>0
  <2>2. \E b : /\ Runs(c, SetKey("transport"), a1, b) /\ Sound(c, b) /\ b["key"] = Kv(n + 1, 1, 1)
               /\ Except(a1, b, "key")
    BY <1>3, <1>6, <2>1, SetKeyHeld
  <2>3. n + 1 = 1
    BY <2>1
  <2> QED
    BY <2>2, <2>3
<1> HIDE DEF N, P, e1, e2, u1, u2, s0, s1, s2, s3, s4, s5, k0, k1, k2, k3, k4
<1>9. World(a1, w, k1, N, s0, N, N, N, N, N, N)
  BY <1>5, <1>6, <1>7, PlaceNames, OwnerNames DEF World, Except2, N
<1>10. World(a2, w, k2, N, s0, N, N, N, N, N, N)
  BY <1>8, <1>9, PlaceNames, OwnerNames DEF World, Except, N
<1>11. PICK a3 : /\ Sound(c, a3) /\ a3["ecdhPrivate"] = e1
                 /\ a3["secret"] = s1 /\ Except2(a2, a3, "ecdhPrivate", "secret")
                 /\ \A scope, b : (/\ Runs(c, scope, a3, b) /\ Sound(c, b)
                                   /\ b["ecdhPrivate"] = e2 /\ b["secret"] = s4) =>
                      \E d : /\ Runs(c, BcryptECDiffieHellman("ecdhPrivate", scope), a2, d) /\ Sound(c, d)
                             /\ d["ecdhPrivate"].live = {} /\ d["secret"] = s5
                             /\ Except2(b, d, "ecdhPrivate", "secret")
  BY <1>8, <1>10, EcdhPrivateHeld DEF World, N, e1, e2, s0, s1, s4, s5
<1>12. World(a3, w, k2, e1, s1, N, N, N, N, N, N)
  BY <1>10, <1>11, PlaceNames, OwnerNames DEF World, Except2, N
<1>13. PICK a4 : /\ Sound(c, a4) /\ a4["ecdhPublic"] = u1 /\ Except(a3, a4, "ecdhPublic")
                 /\ \A scope, b : (/\ Runs(c, scope, a4, b) /\ Sound(c, b) /\ b["ecdhPublic"] = u2) =>
                      \E d : /\ Runs(c, BcryptECDiffieHellman("ecdhPublic", scope), a3, d) /\ Sound(c, d)
                             /\ d["ecdhPublic"].live = {} /\ Except(b, d, "ecdhPublic")
  BY <1>11, <1>12, EcdhPublicHeld DEF World, N, u1, u2
<1>14. World(a4, w, k2, e1, s1, u1, N, N, N, N, N)
  BY <1>12, <1>13, PlaceNames, OwnerNames DEF World, Except, N
<1>15. PICK a5 : /\ Runs(c, ImportPkcs8PrivateKey("ecdhPrivate"), a4, a5) /\ Sound(c, a5)
                 /\ a5["ImportPkcs8PrivateKey"] = P /\ a5["ecdhPrivate"] = e2
                 /\ Except2(a4, a5, "ImportPkcs8PrivateKey", "ecdhPrivate")
  <2>1. PICK p : p = EcdhNames
    OBVIOUS
  <2>2. "hEcHandle" \in p /\ "hEccKeyHandle" \in p
    BY <2>1 DEF EcdhNames
  <2>3. a4["ImportPkcs8PrivateKey"] = Loose({}) /\ a4["ecdhPrivate"] = V({"hEcHandle"}, {"hEcHandle"}, p)
    BY <1>14, <2>1 DEF World, N, e1
  <2>4. \E b : /\ Runs(c, ImportPkcs8PrivateKey("ecdhPrivate"), a4, b) /\ Sound(c, b)
               /\ b["ImportPkcs8PrivateKey"] = Loose({"pekb"})
               /\ b["ecdhPrivate"] = V({"hEcHandle", "hEccKeyHandle"}, {"hEcHandle", "hEccKeyHandle"}, p)
               /\ Except2(a4, b, "ImportPkcs8PrivateKey", "ecdhPrivate")
    BY <1>13, <2>2, <2>3, ImportPkcs8Held
  <2> QED
    BY <2>1, <2>4 DEF P, e2, EcdhNames
<1>16. World(a5, w, k2, e2, s1, u1, N, P, N, N, N)
  BY <1>14, <1>15, PlaceNames, OwnerNames DEF World, Except2, N
<1>17. PICK a6 : /\ Runs(c, ImportSubjectPublicKeyInfo("ecdhPublic"), a5, a6) /\ Sound(c, a6)
                 /\ a6["ImportSubjectPublicKeyInfo"] = P /\ a6["ecdhPublic"] = u2
                 /\ Except2(a5, a6, "ImportSubjectPublicKeyInfo", "ecdhPublic")
  <2>1. PICK p : p = EcdhPublicNames
    OBVIOUS
  <2>2. "hEcHandle" \in p /\ "hEccKeyHandle" \in p
    BY <2>1 DEF EcdhPublicNames
  <2>3. a5["ImportSubjectPublicKeyInfo"] = Loose({}) /\ a5["ecdhPublic"] = V({"hEcHandle"}, {"hEcHandle"}, p)
    BY <1>16, <2>1 DEF World, N, u1
  <2>4. \E b : /\ Runs(c, ImportSubjectPublicKeyInfo("ecdhPublic"), a5, b) /\ Sound(c, b)
               /\ b["ImportSubjectPublicKeyInfo"] = Loose({"pekb"})
               /\ b["ecdhPublic"] = V({"hEcHandle", "hEccKeyHandle"}, {"hEcHandle", "hEccKeyHandle"}, p)
               /\ Except2(a5, b, "ImportSubjectPublicKeyInfo", "ecdhPublic")
    BY <1>15, <2>2, <2>3, ImportSpkiHeld
  <2> QED
    BY <2>1, <2>4 DEF P, u2, EcdhNames
<1>18. World(a6, w, k2, e2, s1, u2, N, P, P, N, N)
  BY <1>16, <1>17, PlaceNames, OwnerNames DEF World, Except2, N
<1>19. PICK a7 : Runs(c, DeriveSecret, a6, a7) /\ Sound(c, a7) /\ a7["secret"] = s2 /\ Except(a6, a7, "secret")
  BY <1>17, <1>18, DeriveSecretHeld DEF World, s1, s2
<1>20. World(a7, w, k2, e2, s2, u2, N, P, P, N, N)
  BY <1>18, <1>19, PlaceNames, OwnerNames DEF World, Except, N
<1>21. PICK a8 : /\ Sound(c, a8) /\ a8["secret"] = s3 /\ Except2(a7, a8, "hkdf", "secret")
                 /\ \A scope, b : (/\ Runs(c, scope, a8, b) /\ Sound(c, b) /\ b["hkdf"] = a8["hkdf"]
                                   /\ b["secret"] = a8["secret"]) =>
                      \E d : /\ Runs(c, BcryptHKDF(scope), a7, d) /\ Sound(c, d) /\ d["hkdf"].live = {}
                             /\ d["secret"] = s4 /\ Except2(b, d, "hkdf", "secret")
  BY <1>19, <1>20, BcryptHkdfHeld DEF World, N, s2, s3, s4
<1>22. PICK h : h = a8["hkdf"]
  OBVIOUS
<1>23. World(a8, w, k2, e2, s3, u2, h, P, P, N, N)
  BY <1>20, <1>21, <1>22, PlaceNames, OwnerNames DEF World, Except2, N
<1>24. PICK a9 : Runs(c, SetKey("derived"), a8, a9) /\ Sound(c, a9) /\ a9["key"] = k3 /\ Except(a8, a9, "key")
  <2>0. 1 \in 0..1
    OBVIOUS
  <2>1. PICK n \in 0..1, m \in 0..1 : n = 1 /\ m = 1
    BY <2>0
  <2>2. a8["key"] = Kv(n, m, 1)
    BY <1>23, <2>1 DEF World, k2
  <2>3. \E b : /\ Runs(c, SetKey("derived"), a8, b) /\ Sound(c, b) /\ b["key"] = Kv(n + 1, 1, 1)
               /\ Except(a8, b, "key")
    BY <1>3, <1>21, <2>2, SetKeyHeld
  <2>4. n + 1 = 2
    BY <2>1
  <2> QED
    BY <2>3, <2>4 DEF k3
<1>25. World(a9, w, k3, e2, s3, u2, h, P, P, N, N)
  BY <1>23, <1>24, PlaceNames, OwnerNames DEF World, Except, N
<1>26. Runs(c, t1, a8, a9)
  <2>1. Runs(c, DeriveKey, a8, a8)
    <3>1. a8["Expand"] = Loose({})
      BY <1>23, OwnerNames DEF World
    <3> QED
      BY <1>2, <1>21, <3>1
  <2>2. Runs(c, Cat(DeriveKey, SetKey("derived")), a8, a9)
    BY <1>24, <2>1, Then
  <2>3. /\ Runs(c, SetChainingInfo, a9, a9) /\ Runs(c, Decrypt("encryptedSecret"), a9, a9)
        /\ Runs(c, <<Test("not_empty")>>, a9, a9)
    BY <1>2, <1>24
  <2> QED
    BY <2>2, <2>3, Then DEF t1
<1>27. PICK a10 : /\ Runs(c, BcryptHKDF(t1), a7, a10) /\ Sound(c, a10) /\ a10["hkdf"].live = {}
                  /\ a10["secret"] = s4 /\ Except2(a9, a10, "hkdf", "secret")
  <2>1. a9["hkdf"] = a8["hkdf"] /\ a9["secret"] = a8["secret"]
    BY <1>23, <1>25 DEF World
  <2> QED
    BY <1>21, <1>24, <1>26, <2>1
<1>28. PICK g : g = a10["hkdf"]
  OBVIOUS
<1>29. World(a10, w, k3, e2, s4, u2, g, P, P, N, N)
  BY <1>25, <1>27, <1>28, PlaceNames, OwnerNames DEF World, Except2, N
<1>30. Runs(c, t2, a4, a10)
  BY <1>15, <1>17, <1>19, <1>27, Then DEF t2
<1>31. PICK a11 : /\ Runs(c, BcryptECDiffieHellman("ecdhPublic", t2), a3, a11) /\ Sound(c, a11)
                  /\ a11["ecdhPublic"].live = {} /\ Except(a10, a11, "ecdhPublic")
  <2>1. a10["ecdhPublic"] = u2
    BY <1>29 DEF World
  <2> QED
    BY <1>13, <1>27, <1>30, <2>1
<1>32. PICK v : v = a11["ecdhPublic"]
  OBVIOUS
<1>33. World(a11, w, k3, e2, s4, v, g, P, P, N, N)
  BY <1>29, <1>31, <1>32, PlaceNames, OwnerNames DEF World, Except, N
<1>34. PICK a12 : /\ Runs(c, t3, a2, a12) /\ Sound(c, a12)
                  /\ a12["ecdhPrivate"].live = {} /\ a12["secret"] = s5
                  /\ Except2(a11, a12, "ecdhPrivate", "secret")
  <2>1. a11["ecdhPrivate"] = e2 /\ a11["secret"] = s4
    BY <1>33 DEF World
  <2>2. PICK t : t = BcryptECDiffieHellman("ecdhPublic", t2)
    OBVIOUS
  <2>3. \E d : /\ Runs(c, BcryptECDiffieHellman("ecdhPrivate", t), a2, d) /\ Sound(c, d)
               /\ d["ecdhPrivate"].live = {} /\ d["secret"] = s5
               /\ Except2(a11, d, "ecdhPrivate", "secret")
    BY <1>11, <1>31, <2>1, <2>2
  <2> QED
    BY <2>2, <2>3 DEF t3
<1>35. PICK e : e = a12["ecdhPrivate"]
  OBVIOUS
<1>36. World(a12, w, k3, e, s5, v, g, P, P, N, N)
  BY <1>33, <1>34, <1>35, PlaceNames, OwnerNames DEF World, Except2, N
<1>37. Runs(c, t4, a1, a12)
  <2>1. /\ Runs(c, SetChainingInfo, a2, a2) /\ Runs(c, Decrypt("encryptedEcdhPrivate"), a2, a2)
        /\ Runs(c, <<Test("not_empty")>>, a2, a2)
    BY <1>2, <1>8
  <2> QED
    BY <1>8, <1>34, <2>1, Then DEF t4
<1>38. PICK a13 : /\ Runs(c, GcmWrapper(t4), f, a13) /\ Sound(c, a13) /\ a13["aesWrapper"].live = {}
                  /\ a13["key"] = k4 /\ Except2(a12, a13, "aesWrapper", "key")
  <2>1. a12["aesWrapper"] = a1["aesWrapper"] /\ a12["key"] = k3
    BY <1>7, <1>36 DEF World
  <2> QED
    BY <1>6, <1>34, <1>37, <2>1 DEF k3, k4
<1>39. PICK z : z = a13["aesWrapper"]
  OBVIOUS
<1>40. World(a13, z, k4, e, s5, v, g, P, P, N, N)
  BY <1>36, <1>38, <1>39, PlaceNames, OwnerNames DEF World, Except2, N
<1>41. Runs(c, decrypt_secret, f, a13)
  BY <1>1, <1>2, <1>5, <1>38, Then
<1>42. /\ Never(c, "ImportPkcs8PrivateKey") = {"pekb"} /\ Never(c, "ImportSubjectPublicKeyInfo") = {"pekb"}
       /\ Never(c, "ExportPkcs8PrivateKey") = {} /\ Never(c, "ExportSubjectPublicKeyInfo") = {}
  BY DEF Never, ChainCalls
<1>43. Good(c, << >>, a13)
  <2>1. z.live = {} /\ e.live = {} /\ v.live = {} /\ g.live = {}
    BY <1>27, <1>28, <1>31, <1>32, <1>34, <1>35, <1>38, <1>39
  <2>2. /\ P = Loose(Never(c, "ImportPkcs8PrivateKey")) /\ P = Loose(Never(c, "ImportSubjectPublicKeyInfo"))
        /\ N = Loose(Never(c, "ExportPkcs8PrivateKey")) /\ N = Loose(Never(c, "ExportSubjectPublicKeyInfo"))
    BY <1>42 DEF N, P
  <2>3. k4 = Kv(1, 1, 0) /\ s5 = Sv(0, 1, 0, 1, 1)
    BY DEF k4, s5
  <2> QED
    BY <1>3, <1>38, <1>40, <2>1, <2>2, <2>3, WindowsSettled
<1> QED
  BY <1>4, <1>41, <1>43, RunsToEnd

\* EncryptWithPadding, on Windows
LEMMA EncryptWithPaddingWindows ==
  ASSUME NEW c, c.view = "holdings", c.name = "protect", OnWindows(c), Windows
  PROVE  Good(c, EncryptWithPadding, Free) /\ NoEnds(EncryptWithPadding)
<1> DEFINE t0 == Cat(Cat(SetKey("derived"), SetChainingInfo), Encrypt("encryptedSecret"))
           t1 == Cat(Cat(Cat(Cat(t0, SetKey("transport")), SetChainingInfo), Encrypt("encryptedEcdhPrivate")),
                     <<Request>>)
           t2 == Cat(DeriveKey, GcmWrapper(t1))
           t3 == Cat(Cat(Cat(Cat(Cat(GenerateKeyPair("ecdhPrivate"), GenerateKeyPair("ecdhPublic")),
                             ExportSubjectPublicKeyInfo), ExportPkcs8PrivateKey), DeriveSecret), BcryptHKDF(t2))
<1>1. EncryptWithPadding = BcryptECDiffieHellman("ecdhPrivate", BcryptECDiffieHellman("ecdhPublic", t3))
  BY Zenon DEF EncryptWithPadding, Cat, t0, t1, t2, t3, HKDF, AesWrapper, ECDiffieHellman
<1>2. ASSUME NEW a, Sound(c, a)
      PROVE  /\ Runs(c, <<Request>>, a, a) /\ Runs(c, SetChainingInfo, a, a)
             /\ Runs(c, Encrypt("encryptedSecret"), a, a) /\ Runs(c, Encrypt("encryptedEcdhPrivate"), a, a)
             /\ (a["Expand"] = Loose({}) => Runs(c, DeriveKey, a, a))
  BY <1>2, StillFunctions, BorrowedHeld
<1>3. c.name \in Secrets
  BY DEF Secrets
<1> DEFINE N == Loose({})
           P == Loose(Never(c, "ExportPkcs8PrivateKey"))
           Y == Loose(Never(c, "ExportSubjectPublicKeyInfo"))
           e1 == V({"hEcHandle"}, {"hEcHandle"}, EcdhNames)
           e2 == V(EcdhNames, EcdhNames, EcdhNames)
           u1 == V({"hEcHandle"}, {"hEcHandle"}, EcdhPublicNames)
           u2 == V(EcdhNames, EcdhNames, EcdhPublicNames)
           s0 == Sv(0, 0, 0, 0, 0)
           s1 == Sv(0, 0, 1, 0, 0)
           s2 == Sv(1, 1, 1, 0, 0)
           s3 == Sv(1, 1, 2, 1, 0)
           s4 == Sv(0, 1, 1, 1, 0)
           s5 == Sv(0, 1, 0, 1, 1)
           k0 == Kv(0, 0, 0)
           k1 == Kv(0, 0, 1)
           k2 == Kv(1, 1, 1)
           k3 == Kv(2, 1, 1)
           k4 == Kv(1, 1, 0)
<1> HIDE DEF t0, t1, t2, t3
<1>4. PICK f : f = Free
  OBVIOUS
<1>5. Sound(c, f) /\ World(f, N, k0, N, s0, N, N, N, N, N, N)
  BY <1>4, FreeIs, FreeWorld
<1> HIDE DEF N, P, Y, e1, e2, u1, u2, s0, s1, s2, s3, s4, s5, k0, k1, k2, k3, k4
<1>6. PICK a1 : /\ Sound(c, a1) /\ a1["ecdhPrivate"] = e1
                /\ a1["secret"] = s1 /\ Except2(f, a1, "ecdhPrivate", "secret")
                /\ \A scope, b : (/\ Runs(c, scope, a1, b) /\ Sound(c, b)
                                  /\ b["ecdhPrivate"] = e2 /\ b["secret"] = s4) =>
                     \E d : /\ Runs(c, BcryptECDiffieHellman("ecdhPrivate", scope), f, d) /\ Sound(c, d)
                            /\ d["ecdhPrivate"].live = {} /\ d["secret"] = s5
                            /\ Except2(b, d, "ecdhPrivate", "secret")
  BY <1>5, EcdhPrivateHeld DEF World, N, e1, e2, s0, s1, s4, s5
<1>7. World(a1, N, k0, e1, s1, N, N, N, N, N, N)
  BY <1>5, <1>6, PlaceNames, OwnerNames DEF World, Except2, N
<1>8. PICK a2 : /\ Sound(c, a2) /\ a2["ecdhPublic"] = u1 /\ Except(a1, a2, "ecdhPublic")
                /\ \A scope, b : (/\ Runs(c, scope, a2, b) /\ Sound(c, b) /\ b["ecdhPublic"] = u2) =>
                     \E d : /\ Runs(c, BcryptECDiffieHellman("ecdhPublic", scope), a1, d) /\ Sound(c, d)
                            /\ d["ecdhPublic"].live = {} /\ Except(b, d, "ecdhPublic")
  BY <1>6, <1>7, EcdhPublicHeld DEF World, N, u1, u2
<1>9. World(a2, N, k0, e1, s1, u1, N, N, N, N, N)
  BY <1>7, <1>8, PlaceNames, OwnerNames DEF World, Except, N
<1>10. PICK a3 : /\ Runs(c, GenerateKeyPair("ecdhPrivate"), a2, a3) /\ Sound(c, a3)
                 /\ Except(a2, a3, "ecdhPrivate") /\ a3["ecdhPrivate"] = e2
  <2>1. PICK o, p : o = "ecdhPrivate" /\ p = EcdhNames
    OBVIOUS
  <2>2. "hEcHandle" \in p /\ "hEccKeyHandle" \in p /\ o \in {"ecdhPrivate", "ecdhPublic"}
    BY <2>1 DEF EcdhNames
  <2>3. a2[o] = V({"hEcHandle"}, {"hEcHandle"}, p)
    BY <1>9, <2>1 DEF World, e1
  <2>4. \E b : /\ Runs(c, GenerateKeyPair(o), a2, b) /\ Sound(c, b) /\ Except(a2, b, o)
               /\ b[o] = V(EcdhNames, EcdhNames, p)
    BY <1>8, <2>2, <2>3, GenerateKeyPairHeld
  <2> QED
    BY <2>1, <2>4 DEF e2
<1>11. World(a3, N, k0, e2, s1, u1, N, N, N, N, N)
  BY <1>9, <1>10, PlaceNames, OwnerNames DEF World, Except, N
<1>12. PICK a4 : /\ Runs(c, GenerateKeyPair("ecdhPublic"), a3, a4) /\ Sound(c, a4)
                 /\ Except(a3, a4, "ecdhPublic") /\ a4["ecdhPublic"] = u2
  <2>1. PICK o, p : o = "ecdhPublic" /\ p = EcdhPublicNames
    OBVIOUS
  <2>2. "hEcHandle" \in p /\ "hEccKeyHandle" \in p /\ o \in {"ecdhPrivate", "ecdhPublic"}
    BY <2>1 DEF EcdhPublicNames
  <2>3. a3[o] = V({"hEcHandle"}, {"hEcHandle"}, p)
    BY <1>11, <2>1 DEF World, u1
  <2>4. \E b : /\ Runs(c, GenerateKeyPair(o), a3, b) /\ Sound(c, b) /\ Except(a3, b, o)
               /\ b[o] = V(EcdhNames, EcdhNames, p)
    BY <1>10, <2>2, <2>3, GenerateKeyPairHeld
  <2> QED
    BY <2>1, <2>4 DEF u2
<1>13. World(a4, N, k0, e2, s1, u2, N, N, N, N, N)
  BY <1>11, <1>12, PlaceNames, OwnerNames DEF World, Except, N
<1>14. PICK a5 : /\ Runs(c, ExportSubjectPublicKeyInfo, a4, a5) /\ Sound(c, a5)
                 /\ a5["ExportSubjectPublicKeyInfo"] = Y /\ Except(a4, a5, "ExportSubjectPublicKeyInfo")
  <2>1. a4["ExportSubjectPublicKeyInfo"] = Loose({})
    BY <1>13 DEF World, N
  <2> QED
    BY <1>12, <2>1, ExportSpkiHeld DEF Y
<1>15. World(a5, N, k0, e2, s1, u2, N, N, N, N, Y)
  BY <1>13, <1>14, PlaceNames, OwnerNames DEF World, Except, N
<1>16. PICK a6 : /\ Runs(c, ExportPkcs8PrivateKey, a5, a6) /\ Sound(c, a6)
                 /\ a6["ExportPkcs8PrivateKey"] = P /\ Except(a5, a6, "ExportPkcs8PrivateKey")
  <2>1. a5["ExportPkcs8PrivateKey"] = Loose({})
    BY <1>15 DEF World, N
  <2> QED
    BY <1>14, <2>1, ExportPkcs8Held DEF P
<1>17. World(a6, N, k0, e2, s1, u2, N, N, N, P, Y)
  BY <1>15, <1>16, PlaceNames, OwnerNames DEF World, Except, N
<1>18. PICK a7 : Runs(c, DeriveSecret, a6, a7) /\ Sound(c, a7) /\ a7["secret"] = s2 /\ Except(a6, a7, "secret")
  BY <1>16, <1>17, DeriveSecretHeld DEF World, s1, s2
<1>19. World(a7, N, k0, e2, s2, u2, N, N, N, P, Y)
  BY <1>17, <1>18, PlaceNames, OwnerNames DEF World, Except, N
<1>20. PICK a8 : /\ Sound(c, a8) /\ a8["secret"] = s3 /\ Except2(a7, a8, "hkdf", "secret")
                 /\ \A scope, b : (/\ Runs(c, scope, a8, b) /\ Sound(c, b) /\ b["hkdf"] = a8["hkdf"]
                                   /\ b["secret"] = a8["secret"]) =>
                      \E d : /\ Runs(c, BcryptHKDF(scope), a7, d) /\ Sound(c, d) /\ d["hkdf"].live = {}
                             /\ d["secret"] = s4 /\ Except2(b, d, "hkdf", "secret")
  BY <1>18, <1>19, BcryptHkdfHeld DEF World, N, s2, s3, s4
<1>21. PICK h : h = a8["hkdf"]
  OBVIOUS
<1>22. World(a8, N, k0, e2, s3, u2, h, N, N, P, Y)
  BY <1>19, <1>20, <1>21, PlaceNames, OwnerNames DEF World, Except2, N
<1>23. Runs(c, DeriveKey, a8, a8)
  <2>1. a8["Expand"] = Loose({})
    BY <1>22, OwnerNames DEF World
  <2> QED
    BY <1>2, <1>20, <2>1
<1>24. PICK a9 : /\ Sound(c, a9) /\ Except2(a8, a9, "aesWrapper", "key") /\ a9["key"] = k1
                 /\ \A scope, b : (/\ Runs(c, scope, a9, b) /\ Sound(c, b) /\ b["aesWrapper"] = a9["aesWrapper"]
                                   /\ b["key"] = k3) =>
                      \E d : /\ Runs(c, GcmWrapper(scope), a8, d) /\ Sound(c, d) /\ d["aesWrapper"].live = {}
                             /\ d["key"] = k4 /\ Except2(b, d, "aesWrapper", "key")
  BY <1>3, <1>20, <1>22, GcmHeld DEF World, N, k0, k1, k3, k4
<1>25. PICK w : w = a9["aesWrapper"]
  OBVIOUS
<1>26. World(a9, w, k1, e2, s3, u2, h, N, N, P, Y)
  BY <1>22, <1>24, <1>25, PlaceNames, OwnerNames DEF World, Except2, N
<1>27. PICK a10 : Runs(c, SetKey("derived"), a9, a10) /\ Sound(c, a10) /\ a10["key"] = k2 /\ Except(a9, a10, "key")
  <2>0. 0 \in 0..1
    OBVIOUS
  <2>1. PICK n \in 0..1, m \in 0..1 : n = 0 /\ m = 0
    BY <2>0
  <2>2. a9["key"] = Kv(n, m, 1)
    BY <1>24, <2>1 DEF k1
  <2>3. \E b : /\ Runs(c, SetKey("derived"), a9, b) /\ Sound(c, b) /\ b["key"] = Kv(n + 1, 1, 1)
               /\ Except(a9, b, "key")
    BY <1>3, <1>24, <2>2, SetKeyHeld
  <2>4. n + 1 = 1
    BY <2>1
  <2> QED
    BY <2>3, <2>4 DEF k2
<1>28. World(a10, w, k2, e2, s3, u2, h, N, N, P, Y)
  BY <1>26, <1>27, PlaceNames, OwnerNames DEF World, Except, N
<1>29. PICK a11 : Runs(c, SetKey("transport"), a10, a11) /\ Sound(c, a11) /\ a11["key"] = k3 /\ Except(a10, a11, "key")
  <2>0. 1 \in 0..1
    OBVIOUS
  <2>1. PICK n \in 0..1, m \in 0..1 : n = 1 /\ m = 1
    BY <2>0
  <2>2. a10["key"] = Kv(n, m, 1)
    BY <1>27, <2>1 DEF k2
  <2>3. \E b : /\ Runs(c, SetKey("transport"), a10, b) /\ Sound(c, b) /\ b["key"] = Kv(n + 1, 1, 1)
               /\ Except(a10, b, "key")
    BY <1>3, <1>27, <2>2, SetKeyHeld
  <2>4. n + 1 = 2
    BY <2>1
  <2> QED
    BY <2>3, <2>4 DEF k3
<1>30. World(a11, w, k3, e2, s3, u2, h, N, N, P, Y)
  BY <1>28, <1>29, PlaceNames, OwnerNames DEF World, Except, N
<1>31. Runs(c, t1, a9, a11)
  <2>1. /\ Runs(c, SetChainingInfo, a10, a10) /\ Runs(c, Encrypt("encryptedSecret"), a10, a10)
    BY <1>2, <1>27
  <2>2. Runs(c, t0, a9, a10)
    BY <1>27, <2>1, Then DEF t0
  <2>3. /\ Runs(c, SetChainingInfo, a11, a11) /\ Runs(c, Encrypt("encryptedEcdhPrivate"), a11, a11)
        /\ Runs(c, <<Request>>, a11, a11)
    BY <1>2, <1>29
  <2> QED
    BY <1>29, <2>2, <2>3, Then DEF t1
<1>32. PICK a12 : /\ Runs(c, GcmWrapper(t1), a8, a12) /\ Sound(c, a12) /\ a12["aesWrapper"].live = {}
                  /\ a12["key"] = k4 /\ Except2(a11, a12, "aesWrapper", "key")
  <2>1. a11["aesWrapper"] = a9["aesWrapper"]
    BY <1>25, <1>30 DEF World
  <2> QED
    BY <1>24, <1>29, <1>31, <2>1
<1>33. PICK z : z = a12["aesWrapper"]
  OBVIOUS
<1>34. World(a12, z, k4, e2, s3, u2, h, N, N, P, Y)
  BY <1>30, <1>32, <1>33, PlaceNames, OwnerNames DEF World, Except2, N
<1>35. Runs(c, t2, a8, a12)
  BY <1>23, <1>32, Then DEF t2
<1>36. PICK a13 : /\ Runs(c, BcryptHKDF(t2), a7, a13) /\ Sound(c, a13) /\ a13["hkdf"].live = {}
                  /\ a13["secret"] = s4 /\ Except2(a12, a13, "hkdf", "secret")
  <2>1. a12["hkdf"] = a8["hkdf"] /\ a12["secret"] = a8["secret"]
    BY <1>22, <1>34 DEF World
  <2> QED
    BY <1>20, <1>32, <1>35, <2>1
<1>37. PICK g : g = a13["hkdf"]
  OBVIOUS
<1>38. World(a13, z, k4, e2, s4, u2, g, N, N, P, Y)
  BY <1>34, <1>36, <1>37, PlaceNames, OwnerNames DEF World, Except2, N
<1>39. Runs(c, t3, a2, a13)
  BY <1>10, <1>12, <1>14, <1>16, <1>18, <1>36, Then DEF t3
<1>40. PICK a14 : /\ Runs(c, BcryptECDiffieHellman("ecdhPublic", t3), a1, a14) /\ Sound(c, a14)
                  /\ a14["ecdhPublic"].live = {} /\ Except(a13, a14, "ecdhPublic")
  <2>1. a13["ecdhPublic"] = u2
    BY <1>38 DEF World
  <2> QED
    BY <1>8, <1>36, <1>39, <2>1
<1>41. PICK v : v = a14["ecdhPublic"]
  OBVIOUS
<1>42. World(a14, z, k4, e2, s4, v, g, N, N, P, Y)
  BY <1>38, <1>40, <1>41, PlaceNames, OwnerNames DEF World, Except, N
<1>43. PICK a15 : /\ Runs(c, EncryptWithPadding, f, a15) /\ Sound(c, a15)
                  /\ a15["ecdhPrivate"].live = {} /\ a15["secret"] = s5
                  /\ Except2(a14, a15, "ecdhPrivate", "secret")
  <2>1. a14["ecdhPrivate"] = e2 /\ a14["secret"] = s4
    BY <1>42 DEF World
  <2>2. PICK t : t = BcryptECDiffieHellman("ecdhPublic", t3)
    OBVIOUS
  <2>3. \E d : /\ Runs(c, BcryptECDiffieHellman("ecdhPrivate", t), f, d) /\ Sound(c, d)
               /\ d["ecdhPrivate"].live = {} /\ d["secret"] = s5
               /\ Except2(a14, d, "ecdhPrivate", "secret")
    BY <1>6, <1>40, <2>1, <2>2
  <2> QED
    BY <1>1, <2>2, <2>3
<1>44. PICK e : e = a15["ecdhPrivate"]
  OBVIOUS
<1>45. World(a15, z, k4, e, s5, v, g, N, N, P, Y)
  BY <1>42, <1>43, <1>44, PlaceNames, OwnerNames DEF World, Except2, N
<1>46. /\ Never(c, "ImportPkcs8PrivateKey") = {} /\ Never(c, "ImportSubjectPublicKeyInfo") = {}
  BY DEF Never, ChainCalls
<1>47. Good(c, << >>, a15)
  <2>1. z.live = {} /\ e.live = {} /\ v.live = {} /\ g.live = {}
    BY <1>32, <1>33, <1>36, <1>37, <1>40, <1>41, <1>43, <1>44
  <2>2. /\ P = Loose(Never(c, "ExportPkcs8PrivateKey")) /\ Y = Loose(Never(c, "ExportSubjectPublicKeyInfo"))
        /\ N = Loose(Never(c, "ImportPkcs8PrivateKey")) /\ N = Loose(Never(c, "ImportSubjectPublicKeyInfo"))
    BY <1>46 DEF N, P, Y
  <2>3. k4 = Kv(1, 1, 0) /\ s5 = Sv(0, 1, 0, 1, 1)
    BY DEF k4, s5
  <2> QED
    BY <1>3, <1>43, <1>45, <2>1, <2>2, <2>3, WindowsSettled
<1> QED
  BY <1>4, <1>43, <1>47, RunsToEnd

-----------------------------------------------------------------------------
(* What a call holds: certificates *)

\* A state of which one place changes
LEMMA PutIs ==
  ASSUME NEW a, NEW b, Holdings(a), Holdings(b), NEW o \in Places, NEW v, b[o] = v, Except(a, b, o)
  PROVE  b = Put(a, o, v)
<1>1. a = [p \in Places |-> a[p]] /\ b = [p \in Places |-> b[p]]
  BY DEF Holdings
<1>2. PICK d : d = Put(a, o, v)
  OBVIOUS
<1>3. d[o] = v /\ (\A q \in Places : q # o => d[q] = a[q]) /\ d = [q \in Places |-> d[q]]
  BY <1>1, <1>2, PutFacts
<1>4. \A p \in Places : d[p] = b[p]
  BY <1>3 DEF Except
<1>5. d = b
  BY <1>1, <1>3, <1>4
<1> QED
  BY <1>2, <1>5

\* n root certificates, on Windows
LEMMA RootsHeld ==
  ASSUME NEW c, c.view = "holdings", OnWindows(c), c.name \in ChainCalls, NEW n \in Nat,
         n <= Cardinality(TrustedRoots) + 1, NEW a, Sound(c, a), a["roots"] = Count(0)
  PROVE  \E b : /\ Runs(c, FlattenSeq([i \in 1..n |-> <<Allocate(rootContext), Request>>]), a, b) /\ Sound(c, b)
                /\ b["roots"] = Count(n) /\ Except(a, b, "roots")
<1> DEFINE w == <<Allocate(rootContext), Request>>
           ss == [i \in 1..n |-> w]
           A == [i \in 0..n |-> Put(a, "roots", Count(i))]
<1>0. Cardinality(TrustedRoots) \in Nat
  BY ConstantsAssumption, FS_CardinalityType
<1>1. ASSUME NEW i \in 0..n PROVE Sound(c, A[i]) /\ A[i]["roots"] = Count(i) /\ Except(a, A[i], "roots")
  <2>1. A[i] = Put(a, "roots", Count(i)) /\ i \in 0..Cardinality(TrustedRoots) + 1
    BY <1>0
  <2>2. PICK b, v, p : b = Put(a, p, v) /\ v = Count(i) /\ p = "roots"
    OBVIOUS
  <2>3. SafeRoots(c, v)
    BY DEF SafeRoots
  <2>4. Holdings(a) /\ Safe(c, a)
    BY DEF Sound
  <2>5. /\ Holdings(b) /\ b[p] = v /\ (\A q \in Places : q # p => b[q] = a[q])
        /\ (/\ Safe(c, a) /\ (p = "key" => SafeKey(c, v)) /\ (p = "roots" => SafeRoots(c, v))
            /\ (p = "contexts" => SafeContexts(c, v))
            => Safe(c, b))
    <3>1. p \in {"key", "roots", "contexts"} /\ (p = "roots" => \E k \in 0..Cardinality(TrustedRoots) + 1 : v = Count(k))
      BY <2>1, <2>2
    <3>2. p # "key" /\ p # "contexts"
      BY <2>2
    <3> QED
      BY <2>2, <2>4, <3>1, <3>2, PutCounts
  <2>6. Safe(c, b)
    BY <2>2, <2>3, <2>4, <2>5
  <2>7. A[i] = b
    BY <2>1, <2>2
  <2> HIDE DEF A
  <2> QED
    BY <2>2, <2>5, <2>6, <2>7 DEF Sound, Except
<1>2. ASSUME NEW i \in 1..n PROVE Runs(c, ss[i], A[i - 1], A[i])
  <2>1. i - 1 \in 0..n /\ i \in 0..n /\ i - 1 <= Cardinality(TrustedRoots) /\ (i - 1) + 1 = i /\ i - 1 \in Nat
    BY <1>0
  <2>2. ss[i] = w
    OBVIOUS
  <2> HIDE DEF A, ss
  <2>3. PICK x, p, j : x = Allocate(rootContext) /\ p = "roots" /\ j = i - 1
    OBVIOUS
  <2>4. PICK d : d = A[j]
    OBVIOUS
  <2>5. Sound(c, d) /\ d[p] = Count(j) /\ Except(a, d, p) /\ j \in Nat
    BY <1>1, <2>1, <2>3, <2>4
  <2>6. PICK b : Runs(c, <<x>>, d, b) /\ Sound(c, b) /\ b[p] = Count(j + 1) /\ Except(d, b, p)
    BY <2>1, <2>3, <2>5, CountStep
  <2>7. Runs(c, <<Request>>, b, b)
    BY <2>6, StillFunctions
  <2>8. Runs(c, <<x, Request>>, d, b)
    BY <2>6, <2>7, Few
  <2>9. b = A[i]
    <3>1. PICK e : e = A[i]
      OBVIOUS
    <3>2. Sound(c, e) /\ e[p] = Count(j + 1) /\ Except(a, e, p)
      BY <1>1, <2>1, <2>3, <3>1
    <3>3. b = Put(a, p, Count(j + 1)) /\ e = Put(a, p, Count(j + 1))
      <4>1. Except(a, b, p)
        BY <2>5, <2>6 DEF Except
      <4>2. p \in Places /\ Holdings(a) /\ Holdings(b) /\ Holdings(e)
        BY <2>3, <2>6, <3>2, PlaceNames DEF Sound
      <4> QED
        BY <2>6, <3>2, <4>1, <4>2, PutIs
    <3> QED
      BY <3>1, <3>3
  <2> QED
    BY <2>2, <2>3, <2>4, <2>8, <2>9
<1>3. IsSeq(ss) /\ Len(ss) = n
  <2> HIDE DEF w
  <2>1. ss \in Seq({w}) /\ Len(ss) = n
    OBVIOUS
  <2> HIDE DEF ss
  <2> QED
    BY <2>1 DEF IsSeq
<1>4. A[0] = a
  <2>1. PICK p : p = "roots"
    OBVIOUS
  <2>2. p \in Places /\ Holdings(a) /\ Except(a, a, p) /\ a[p] = Count(0)
    BY <2>1, PlaceNames DEF Sound, Except
  <2>3. a = Put(a, p, Count(0))
    BY <2>2, PutIs
  <2>4. A[0] = Put(a, "roots", Count(0))
    OBVIOUS
  <2> QED
    BY <2>1, <2>3, <2>4
<1>5. n \in 0..n
  OBVIOUS
<1>6. Sound(c, A[n]) /\ A[n]["roots"] = Count(n) /\ Except(a, A[n], "roots")
  BY <1>1, <1>5
<1>8. ss = [i \in 1..n |-> <<Allocate(rootContext), Request>>]
  OBVIOUS
<1> HIDE DEF A, ss
<1>7. Runs(c, FlattenSeq(ss), A[0], A[n])
  BY <1>2, <1>3, FlatRuns
<1> QED
  BY <1>4, <1>6, <1>7, <1>8

\* What one certificate, i, adds to the others
OneMore(c, i, l, m, p, l2, m2) ==
  /\ i \in 2..c.last /\ i \notin l /\ l \subseteq 2..c.last /\ p \cap m \subseteq l
  /\ l2 = l \cup {i} /\ (Windows => m2 = m) /\ (~Windows => m2 = m \cup {i})

\* One certificate behind the leaf.  On Linux it is nobody's for a moment.
LEMMA IntermediateHeld ==
  ASSUME NEW c, c.view = "holdings", c.name \in ChainCalls, OnWindows(c) <=> Windows, NEW i,
         NEW a, Sound(c, a), NEW l, NEW m, NEW p, a["intermediate"] = V(l, m, p), NEW l2, NEW m2,
         OneMore(c, i, l, m, p, l2, m2)
  PROVE  \E b : /\ Runs(c, LoadIntermediateCertificate(i), a, b) /\ Sound(c, b) /\ b["intermediate"] = V(l2, m2, p)
                /\ Except(a, b, "intermediate")
<1>0. /\ i \in 2..c.last /\ i \notin l /\ l \subseteq 2..c.last /\ p \cap m \subseteq l
      /\ l2 = l \cup {i} /\ (Windows => m2 = m) /\ (~Windows => m2 = m \cup {i})
  BY DEF OneMore
<1>1. PICK o : o = "intermediate"
  OBVIOUS
<1>2. o \in Owners /\ Ordinary(o, i) /\ (o = "hkdf" => i # "hAlg") /\ a[o] = V(l, m, p)
      /\ intermediate(i) = <<o, i>>
  BY <1>1, OwnerNames DEF Ordinary, intermediate
<1>3. l2 \subseteq Never(c, o) \cup OnError(c, o)
  <2>1. OnError(c, o) = 2..c.last
    BY <1>1 DEF OnError
  <2> QED
    BY <1>0, <2>1
<1>4. SafeOwner(c, o, V(l2, m, p)) /\ SafeOwner(c, o, V(l2, m2, p))
  <2>1. l2 \ (p \cap m) \subseteq Never(c, o) \cup OnError(c, o) /\ p \cap m \subseteq l2
    BY <1>0, <1>3
  <2>2. l2 \ (p \cap m2) \subseteq Never(c, o) \cup OnError(c, o) /\ p \cap m2 \subseteq l2
    BY <1>0, <1>3
  <2> QED
    BY <2>1, <2>2, SafeIs
<1>5. PICK x, y, z, v : x = Allocate(<<o, i>>) /\ y = Own(<<o, i>>) /\ z = LoadCertificate(i) /\ v = AddToStore(i)
  OBVIOUS
<1>6. PICK a1 : Runs(c, <<x>>, a, a1) /\ Sound(c, a1) /\ a1[o] = V(l2, m, p) /\ Except(a, a1, o)
  BY <1>0, <1>2, <1>4, <1>5, OwnerStep
<1>7. Runs(c, <<z>>, a, a) /\ Runs(c, <<Request>>, a1, a1) /\ Runs(c, <<v>>, a1, a1)
  BY <1>5, <1>6, StillRun, StillInstructions
<1>8. CASE Windows
  <2>1. Runs(c, <<z, x, Request, v>>, a, a1)
    BY <1>6, <1>7, Few
  <2>2. LoadIntermediateCertificate(i) = <<z, x, Request, v>>
    BY <1>2, <1>5, <1>8 DEF LoadIntermediateCertificate, Wincrypt_LoadIntermediateCertificate
  <2> QED
    BY <1>0, <1>1, <1>6, <1>8, <2>1, <2>2
<1>9. CASE ~Windows
  <2>1. PICK b : Runs(c, <<y>>, a1, b) /\ Sound(c, b) /\ b[o] = V(l2, m2, p) /\ Except(a1, b, o)
    BY <1>0, <1>2, <1>4, <1>5, <1>6, <1>9, OwnerStep
  <2>2. Runs(c, <<v>>, b, b)
    BY <1>5, <2>1, StillRun, StillInstructions
  <2>3. Runs(c, <<z, x, Request, y, v>>, a, b)
    BY <1>6, <1>7, <2>1, <2>2, Few
  <2>4. LoadIntermediateCertificate(i) = <<z, x, Request, y, v>>
    BY <1>2, <1>5, <1>9 DEF LoadIntermediateCertificate, Ossl_LoadIntermediateCertificate
  <2>5. Except(a, b, o)
    BY <1>6, <2>1 DEF Except
  <2> QED
    BY <1>1, <2>1, <2>3, <2>4, <2>5
<1> QED
  BY <1>8, <1>9

\* The certificates 2..i + 1, for each i
Behind(p, i) == V(2..(i + 1), IF Windows THEN {} ELSE 2..(i + 1), p)

\* All the certificates behind the leaf, one after the other
LEMMA IntermediatesHeld ==
  ASSUME NEW c, c.view = "holdings", c.name \in ChainCalls, OnWindows(c) <=> Windows, c.last \in Nat,
         NEW a, Sound(c, a), NEW p, a["intermediate"] = V({}, {}, p)
  PROVE  \E b : /\ Runs(c, FlattenSeq([i \in 1..c.last - 1 |-> LoadIntermediateCertificate(i + 1)]), a, b)
                /\ Sound(c, b) /\ Except(a, b, "intermediate")
                /\ b["intermediate"] = V(2..c.last, IF Windows THEN {} ELSE 2..c.last, p)
<1> DEFINE n == IF c.last = 0 THEN 0 ELSE c.last - 1
           ss == [i \in 1..c.last - 1 |-> LoadIntermediateCertificate(i + 1)]
           A == [i \in 0..n |-> Put(a, "intermediate", Behind(p, i))]
<1>1. n \in Nat /\ 1..c.last - 1 = 1..n /\ (\A i \in 1..n : i + 1 \in 2..c.last) /\ 2..(n + 1) = 2..c.last
      /\ n + 1 <= c.last + 1 /\ \A i \in 0..n : 2..(i + 1) \subseteq 2..c.last
  OBVIOUS
<1> HIDE DEF n
<1>2. ASSUME NEW i \in 0..n
      PROVE  Sound(c, A[i]) /\ A[i]["intermediate"] = Behind(p, i) /\ Except(a, A[i], "intermediate")
  <2>1. A[i] = Put(a, "intermediate", Behind(p, i))
    OBVIOUS
  <2>2. PICK o, l, m, b : /\ o = "intermediate" /\ l = 2..(i + 1) /\ m = (IF Windows THEN {} ELSE 2..(i + 1))
                          /\ b = Put(a, o, V(l, m, p))
    OBVIOUS
  <2>3. o \in Owners /\ o # "hkdf" /\ Holdings(a) /\ Safe(c, a)
    BY <2>2, OwnerNames DEF Sound
  <2>4. SafeOwner(c, o, V(l, m, p))
    <3>1. OnError(c, o) = 2..c.last
      BY <2>2 DEF OnError
    <3>2. l \ (p \cap m) \subseteq Never(c, o) \cup OnError(c, o) /\ p \cap m \subseteq l
      BY <1>1, <2>2, <3>1
    <3> QED
      BY <3>2, SafeIs
  <2>5. /\ Holdings(b) /\ b[o] = V(l, m, p) /\ (\A q \in Places : q # o => b[q] = a[q])
        /\ (Safe(c, a) /\ SafeOwner(c, o, V(l, m, p))
            /\ (o = "hkdf" => ("hAlg" \in m <=> "hAlg" \in a[o].members)) => Safe(c, b))
    BY <2>2, <2>3, PutOwner
  <2>6. Sound(c, b) /\ b[o] = V(l, m, p) /\ Except(a, b, o)
    BY <2>3, <2>4, <2>5 DEF Sound, Except
  <2>7. Behind(p, i) = V(l, m, p)
    BY <2>2 DEF Behind
  <2>8. A[i] = b
    BY <2>1, <2>2, <2>7
  <2> HIDE DEF A
  <2> QED
    BY <2>2, <2>6, <2>7, <2>8
<1>3. IsSeq(ss) /\ Len(ss) = n
  <2> DEFINE S == {LoadIntermediateCertificate(i + 1) : i \in 1..n}
  <2>1. ss \in [1..n -> S]
    BY <1>1
  <2> HIDE DEF S, ss
  <2>2. ss \in Seq(S) /\ Len(ss) = n
    BY <1>1, <2>1
  <2> QED
    BY <2>2 DEF IsSeq
<1>4. ASSUME NEW i \in 1..n PROVE Runs(c, ss[i], A[i - 1], A[i])
  <2>1. i - 1 \in 0..n /\ i \in 0..n /\ i + 1 \in 2..c.last
    BY <1>1
  <2>2. ss[i] = LoadIntermediateCertificate(i + 1)
    BY <1>1
  <2> HIDE DEF A, ss
  <2>3. PICK d, e, o : d = A[i - 1] /\ e = A[i] /\ o = "intermediate"
    OBVIOUS
  <2>4. /\ Sound(c, d) /\ d[o] = Behind(p, i - 1) /\ Except(a, d, o)
        /\ Sound(c, e) /\ e[o] = Behind(p, i) /\ Except(a, e, o)
    BY <1>2, <2>1, <2>3
  <2>5. PICK j, l, m, l2, m2 : /\ j = i + 1 /\ l = 2..((i - 1) + 1) /\ m = (IF Windows THEN {} ELSE 2..((i - 1) + 1))
                               /\ l2 = 2..(i + 1) /\ m2 = (IF Windows THEN {} ELSE 2..(i + 1))
    OBVIOUS
  <2>6. d[o] = V(l, m, p) /\ e[o] = V(l2, m2, p)
    BY <2>4, <2>5 DEF Behind
  <2>7. l2 = l \cup {j} /\ j \notin l /\ l \subseteq 2..c.last /\ j \in 2..c.last
    BY <1>1, <2>1, <2>5
  <2>8. OneMore(c, j, l, m, p, l2, m2)
    <3>1. (Windows => m2 = m) /\ (~Windows => m2 = m \cup {j}) /\ p \cap m \subseteq l
      BY <2>5, <2>7
    <3> QED
      BY <2>7, <3>1 DEF OneMore
  <2>9. PICK b : Runs(c, LoadIntermediateCertificate(j), d, b) /\ Sound(c, b) /\ b[o] = V(l2, m2, p) /\ Except(d, b, o)
    BY <2>3, <2>4, <2>6, <2>8, IntermediateHeld
  <2>10. b = Put(a, o, V(l2, m2, p)) /\ e = Put(a, o, V(l2, m2, p))
    <3>1. Except(a, b, o)
      BY <2>4, <2>9 DEF Except
    <3>2. o \in Places /\ Holdings(a) /\ Holdings(b) /\ Holdings(e)
      BY <2>3, <2>4, <2>9, PlaceNames, OwnerNames DEF Sound
    <3> QED
      BY <2>4, <2>6, <2>9, <3>1, <3>2, PutIs
  <2> QED
    BY <2>2, <2>3, <2>5, <2>9, <2>10
<1>5. A[0] = a
  <2>1. PICK o, v : o = "intermediate" /\ v = V({}, {}, p)
    OBVIOUS
  <2>2. o \in Places /\ Holdings(a) /\ Except(a, a, o) /\ a[o] = v
    BY <2>1, PlaceNames, OwnerNames DEF Sound, Except
  <2>3. a = Put(a, o, v)
    BY <2>2, PutIs
  <2>4. A[0] = Put(a, "intermediate", Behind(p, 0))
    BY <1>1
  <2>5. Behind(p, 0) = v
    <3>1. 2..(0 + 1) = {}
      OBVIOUS
    <3> QED
      BY <2>1, <3>1 DEF Behind
  <2> QED
    BY <2>1, <2>3, <2>4, <2>5
<1>6. n \in 0..n
  BY <1>1
<1>7. Sound(c, A[n]) /\ A[n]["intermediate"] = Behind(p, n) /\ Except(a, A[n], "intermediate")
  BY <1>2, <1>6
<1>8. Behind(p, n) = V(2..c.last, IF Windows THEN {} ELSE 2..c.last, p)
  BY <1>1 DEF Behind
<1>9. ss = [i \in 1..c.last - 1 |-> LoadIntermediateCertificate(i + 1)]
  OBVIOUS
<1> HIDE DEF A, ss
<1>10. Runs(c, FlattenSeq(ss), A[0], A[n])
  BY <1>1, <1>3, <1>4, FlatRuns
<1> QED
  BY <1>5, <1>7, <1>8, <1>9, <1>10

\* What opening an object makes of the part of o
OpensTo(c, a, o, S, v) == /\ S \cap a[o].open = {} /\ v = V(a[o].live, a[o].members, a[o].open \cup S)
                          /\ SafeOwner(c, o, v)

\* An object after its constructor
LEMMA OpenOne ==
  ASSUME NEW c, NEW a, Sound(c, a), NEW o \in Owners, NEW D, NEW S, OwnParts(D, o, S), NEW v, OpensTo(c, a, o, S, v),
         NEW s, NEW a0, Runs(c, s, a0, a)
  PROVE  \E b : Enters(c, s, D, a0, b) /\ Sound(c, b) /\ b[o] = v /\ Except(a, b, o)
<1>1. PICK l, m, p : l = a[o].live /\ m = a[o].members /\ p = a[o].open
  OBVIOUS
<1>2. a[o] = V(l, m, p)
  BY <1>1 DEF Sound, Holdings
<1>3. S \cap p = {} /\ v = V(l, m, p \cup S) /\ SafeOwner(c, o, v)
  BY <1>1 DEF OpensTo
<1>4. Holdings(a) /\ Except(a, a, o) /\ Runs(c, << >>, a, a) /\ (o = "hkdf" => ("hAlg" \in m <=> "hAlg" \in a[o].members))
  BY <1>1, Empty DEF Sound, Except
<1>5. PICK b : Enters(c, << >>, D, a, b) /\ Sound(c, b) /\ b[o] = v /\ Except(a, b, o)
  BY <1>2, <1>3, <1>4, EnterOne
<1>6. Enters(c, Cat(s, << >>), D, a0, b)
  BY <1>5, EntersAfter
<1>7. Cat(s, << >>) = s
  <2>1. IsSeq(s)
    BY DEF Runs
  <2> QED
    BY <2>1, CatEmpty
<1> QED
  BY <1>5, <1>6, <1>7

\* The object that holds the certificates on Windows, for n roots: before it a
\* key of a leaf may have been made
StoreNames == {"leafPrivateKey", "hStore"}
LeftContexts == {"pLeafCertContext", "chainContext"}
StoreHeld(c, a, n, M, a1) ==
  /\ Sound(c, a1) /\ a1["x509"] = V(M, {"hStore"}, StoreNames) /\ a1["roots"] = Count(n)
  /\ Except2(a, a1, "x509", "roots")
  /\ \A scope, b : (/\ Runs(c, scope, a1, b) /\ Sound(c, b)
                    /\ b["x509"] = V(M \cup LeftContexts, M, StoreNames)) =>
       \E d : /\ Runs(c, WincryptX509(n, scope), a, d) /\ Sound(c, d)
              /\ d["x509"].live = LeftContexts /\ Except(b, d, "x509")

\* The constructor of WincryptX509, for n roots, and its destructor
LEMMA WincryptX509Held ==
  ASSUME NEW c, c.view = "holdings", OnWindows(c), c.name \in ChainCalls, NEW n \in Nat,
         n <= Cardinality(TrustedRoots) + 1, NEW a, Sound(c, a), a["roots"] = Count(0),
         NEW L, L \subseteq {"leafPrivateKey"}, a["x509"] = V(L, {}, {}), NEW M, M = L \cup {"hStore"}
  PROVE  \E a1 : StoreHeld(c, a, n, M, a1)
<1>1. PICK o, h, S, H, e : o = "x509" /\ h = "hStore" /\ S = StoreNames /\ H = {h} /\ e = {}
  OBVIOUS
<1>2. /\ o \in Owners /\ o # "hkdf" /\ (\A m \in S : Ordinary(o, m)) /\ Ordinary(o, h) /\ hStore = <<o, h>>
      /\ leafPrivateKey = <<o, "leafPrivateKey">>
  BY <1>1, OwnerNames DEF Ordinary, StoreNames, hStore, leafPrivateKey
<1>3. OnError(c, o) = {"hStore", "store", "intermediate_certs", "leafPrivateKey"}
  BY <1>1 DEF OnError
<1>4. SafeOwner(c, o, V(M, H, e)) /\ SafeOwner(c, o, V(M, H, S))
  <2>1. M \ (e \cap H) \subseteq Never(c, o) \cup OnError(c, o) /\ e \cap H \subseteq M
    BY <1>1, <1>3
  <2>2. M \ (S \cap H) \subseteq Never(c, o) \cup OnError(c, o) /\ S \cap H \subseteq M
    BY <1>1, <1>3
  <2> QED
    BY <2>1, <2>2, SafeIs
<1>5. PICK x : x = New(<<o, h>>)
  OBVIOUS
<1>6. PICK a0 : Runs(c, <<x>>, a, a0) /\ Sound(c, a0) /\ a0[o] = V(M, H, e) /\ Except(a, a0, o)
  <2>1. h \notin L /\ M = L \cup {h} /\ H = e \cup {h} /\ a[o] = V(L, e, e)
    BY <1>1
  <2> QED
    BY <1>2, <1>4, <1>5, <2>1, OwnerStep
<1>7. PICK ss : ss = [i \in 1..n |-> <<Allocate(rootContext), Request>>]
  OBVIOUS
<1>8. PICK a2 : Runs(c, FlattenSeq(ss), a0, a2) /\ Sound(c, a2) /\ a2["roots"] = Count(n) /\ Except(a0, a2, "roots")
  <2>1. a0["roots"] = Count(0)
    BY <1>1, <1>6, PlaceNames, OwnerNames DEF Except
  <2> QED
    BY <1>6, <1>7, <2>1, RootsHeld
<1>9. PICK s : s = Cat(<<x>>, FlattenSeq(ss))
  OBVIOUS
<1>10. Runs(c, s, a, a2)
  BY <1>6, <1>8, <1>9, Then
<1>11. PICK D : D = Of(o, S)
  OBVIOUS
<1>12. OwnParts(D, o, S)
  BY <1>2, <1>11, OwnPartsIs
<1>13. OpensTo(c, a2, o, S, V(M, H, S))
  <2>1. a2[o] = V(M, H, e)
    BY <1>1, <1>6, <1>8, PlaceNames, OwnerNames DEF Except
  <2>2. a2[o].live = M /\ a2[o].members = H /\ a2[o].open = e
    BY <2>1, VFields
  <2>3. S \cap e = {} /\ e \cup S = S
    BY <1>1
  <2> QED
    BY <1>4, <2>2, <2>3 DEF OpensTo
<1>14. PICK a1 : Enters(c, s, D, a, a1) /\ Sound(c, a1) /\ a1[o] = V(M, H, S) /\ Except(a2, a1, o)
  BY <1>2, <1>8, <1>10, <1>12, <1>13, OpenOne
<1>15. a1["roots"] = Count(n) /\ Except2(a, a1, "x509", "roots")
  BY <1>1, <1>6, <1>8, <1>14, PlaceNames, OwnerNames DEF Except, Except2
<1>16. D = {leafPrivateKey, hStore}
  <2>1. \A r : r \in D <=> \E m \in S : r = <<o, m>>
    BY <1>11 DEF Of
  <2>2. D = {<<o, "leafPrivateKey">>, <<o, "hStore">>}
    BY <1>1, <2>1 DEF StoreNames
  <2> QED
    BY <1>1, <1>2, <2>2
<1>17. ASSUME NEW scope, NEW b, Runs(c, scope, a1, b), Sound(c, b),
              b["x509"] = V(M \cup LeftContexts, M, StoreNames)
       PROVE  \E d : /\ Runs(c, WincryptX509(n, scope), a, d) /\ Sound(c, d)
                     /\ d["x509"].live = LeftContexts /\ Except(b, d, "x509")
  <2>1. PICK d, F, w : d = Destroyed(b, D) /\ F = M \cup LeftContexts /\ w = V(LeftContexts, M, e)
    OBVIOUS
  <2>2. b[o].live = F /\ b[o].members = M /\ b[o].open = S
    BY <1>1, <1>17, <2>1, VFields
  <2>3. F \ (S \cap M) = LeftContexts /\ S \ S = e /\ S \subseteq S
    <3>1. M \subseteq S
      BY <1>1 DEF StoreNames
    <3>2. \A m \in LeftContexts : m \notin S
      BY <1>1 DEF StoreNames, LeftContexts
    <3> QED
      BY <1>1, <2>1, <3>1, <3>2
  <2>4. LeavesAs(b, o, S, w)
    BY <2>1, <2>2, <2>3 DEF LeavesAs
  <2>5. Pending(D, b) /\ Sound(c, d) /\ d[o] = w /\ Except(b, d, o)
    BY <1>2, <1>12, <1>17, <2>1, <2>4, NewLeaves
  <2>6. Runs(c, Object(s, D, scope), a, d)
    BY <1>14, <1>17, <2>1, <2>5, Within
  <2>7. WincryptX509(n, scope) = Object(s, D, scope)
    BY <1>2, <1>5, <1>7, <1>9, <1>16, Zenon DEF WincryptX509, Cat
  <2>8. d[o].live = LeftContexts
    BY <2>1, <2>5, VFields
  <2> QED
    BY <1>1, <2>5, <2>6, <2>7, <2>8
<1> QED
  BY <1>1, <1>14, <1>15, <1>17 DEF StoreHeld

\* A destructor with the members of two owners
LEMMA LeavesTwo ==
  ASSUME NEW c, NEW a, Sound(c, a), NEW o \in Owners, NEW q \in Owners, o # q, NEW D, NEW S, NEW T,
         Parts(D, o, S, q, T, {}), NEW v, LeavesAs(a, o, S, v), NEW w, LeavesAs(a, q, T, w), NEW b, b = Destroyed(a, D)
  PROVE  Pending(D, a) /\ Sound(c, b) /\ b[o] = v /\ b[q] = w /\ Except2(a, b, o, q)
<1>1. PICK l, m, p : l = a[o].live /\ m = a[o].members /\ p = a[o].open
  OBVIOUS
<1>2. PICK k, n, r : k = a[q].live /\ n = a[q].members /\ r = a[q].open
  OBVIOUS
<1>3. a[o] = V(l, m, p) /\ a[q] = V(k, n, r)
  BY <1>1, <1>2 DEF Sound, Holdings
<1>4. S \subseteq p /\ T \subseteq r /\ v = V(l \ (S \cap m), m, p \ S) /\ w = V(k \ (T \cap n), n, r \ T)
  BY <1>1, <1>2 DEF LeavesAs
<1>5. /\ Pending(D, a) /\ Sound(c, b) /\ b[o] = V(l \ (S \cap m), m, p \ S)
      /\ b[q] = V(k \ (T \cap n), n, r \ T) /\ Except2(a, b, o, q)
  BY <1>3, <1>4, LeaveTwo
<1> QED
  BY <1>4, <1>5

\* The object that holds the certificates on Linux: it releases them too
OsslNames == {"store", "intermediate_certs", "leaf_cert"}
OsslStores == {"store", "intermediate_certs"}

\* Its scope, from its construction to its destruction
LEMMA OsslX509Held ==
  ASSUME NEW c, c.view = "holdings", NEW a, Sound(c, a), a["x509"] = Loose({}), a["intermediate"] = Loose({}), NEW n
  PROVE  \E a1 : /\ Sound(c, a1) /\ a1["x509"] = V(OsslStores, OsslStores, OsslNames)
                 /\ a1["intermediate"] = V({}, {}, Positions) /\ Except2(a, a1, "x509", "intermediate")
                 /\ \A scope, b, k : (/\ Runs(c, scope, a1, b) /\ Sound(c, b)
                                      /\ b["x509"] = V(OsslNames, OsslNames, OsslNames)
                                      /\ b["intermediate"] = V(k, k, Positions) /\ k \subseteq Positions) =>
                      \E d : /\ Runs(c, OsslX509(n, scope), a, d) /\ Sound(c, d)
                             /\ d["x509"].live = {} /\ d["intermediate"].live = {}
                             /\ Except2(b, d, "x509", "intermediate")
<1>1. PICK o, q, h, g, S, T, e : /\ o = "x509" /\ q = "intermediate" /\ h = "intermediate_certs" /\ g = "store"
                                 /\ S = OsslNames /\ T = Positions /\ e = {}
  OBVIOUS
<1>2. /\ o \in Owners /\ q \in Owners /\ o # q /\ o # "hkdf" /\ (\A m \in S : Ordinary(o, m)) /\ Ordinary(o, h)
      /\ Ordinary(o, g) /\ (\A m \in T : Ordinary(q, m)) /\ intermediate_certs = <<o, h>> /\ store = <<o, g>>
      /\ leaf_cert = <<o, "leaf_cert">> /\ q # "hkdf"
  BY <1>1, OwnerNames DEF Ordinary, OsslNames, intermediate_certs, store, leaf_cert
<1>3. OnError(c, o) = {"hStore", "store", "intermediate_certs", "leafPrivateKey"}
  BY <1>1 DEF OnError
<1>4. PICK H, G : H = {h} /\ G = OsslStores
  OBVIOUS
<1>5. H = e \cup {h} /\ G = H \cup {g} /\ g \notin H /\ h \notin e /\ a[o] = V(e, e, e) /\ G \subseteq S /\ G \subseteq OnError(c, o)
      /\ H \subseteq OnError(c, o) /\ a[q] = V(e, e, e)
  BY <1>1, <1>3, <1>4 DEF OsslStores, OsslNames, Loose
<1>6. /\ SafeOwner(c, o, V(H, H, e)) /\ SafeOwner(c, o, V(G, G, e)) /\ SafeOwner(c, o, V(G, G, S))
      /\ SafeOwner(c, q, V(e, e, T))
  <2>1. H \ (e \cap H) \subseteq Never(c, o) \cup OnError(c, o) /\ e \cap H \subseteq H
    BY <1>1, <1>5
  <2>2. G \ (e \cap G) \subseteq Never(c, o) \cup OnError(c, o) /\ e \cap G \subseteq G
    BY <1>1, <1>5
  <2>3. G \ (S \cap G) \subseteq Never(c, o) \cup OnError(c, o) /\ S \cap G \subseteq G
    BY <1>1, <1>5
  <2>4. e \ (T \cap e) \subseteq Never(c, q) \cup OnError(c, q) /\ T \cap e \subseteq e
    BY <1>1
  <2>5. SafeOwner(c, o, V(H, H, e))
    BY <2>1, SafeIs
  <2>6. SafeOwner(c, o, V(G, G, e))
    BY <2>2, SafeIs
  <2>7. SafeOwner(c, o, V(G, G, S))
    BY <2>3, SafeIs
  <2>8. SafeOwner(c, q, V(e, e, T))
    BY <2>4, SafeIs
  <2> QED
    BY <2>5, <2>6, <2>7, <2>8
<1>7. PICK x, y : x = New(<<o, h>>) /\ y = New(<<o, g>>)
  OBVIOUS
<1>8. PICK a0 : Runs(c, <<x>>, a, a0) /\ Sound(c, a0) /\ a0[o] = V(H, H, e) /\ Except(a, a0, o)
  BY <1>2, <1>5, <1>6, <1>7, OwnerStep
<1>9. PICK a2 : Runs(c, <<y>>, a0, a2) /\ Sound(c, a2) /\ a2[o] = V(G, G, e) /\ Except(a0, a2, o)
  BY <1>2, <1>5, <1>6, <1>7, <1>8, OwnerStep
<1>10. Runs(c, <<Request>>, a2, a2)
  BY <1>9, StillFunctions
<1>11. PICK s : s = <<x, y, Request>>
  OBVIOUS
<1>12. Runs(c, s, a, a2)
  BY <1>8, <1>9, <1>10, <1>11, Few
<1>13. PICK D : D = Of(o, S) \cup Of(q, T) \cup {}
  OBVIOUS
<1>14. Parts(D, o, S, q, T, {})
  <2>1. PICK E : E = {}
    OBVIOUS
  <2>2. E \subseteq {hAesKey, Shared} /\ D = Of(o, S) \cup Of(q, T) \cup E
    BY <1>13, <2>1
  <2>3. PairsOf(D, o, S, q, T, E)
    BY <1>2, <2>2 DEF PairsOf
  <2>4. Parts(D, o, S, q, T, E)
    BY <2>3, PartsIs
  <2> QED
    BY <2>1, <2>4
<1>15. a2[q] = V(e, e, e) /\ Except(a, a2, o) /\ Holdings(a2)
  BY <1>2, <1>5, <1>8, <1>9, PlaceNames DEF Except, Sound
<1>16. /\ a2[o].live = G /\ a2[o].members = G /\ a2[o].open = e
       /\ a2[q].live = e /\ a2[q].members = e /\ a2[q].open = e
  BY <1>9, <1>15, VFields
<1>17. Touches(a, a2, o, q) /\ CanEnter(a2, o, S, q, T, {}) /\ OpensAs(c, a2, o, S, V(G, G, S)) /\ OpensAs(c, a2, q, T, V(e, e, T))
  <2>1. Touches(a, a2, o, q)
    BY <1>2, <1>15, PlaceNames DEF Touches, Except, Except2
  <2>2. CanEnter(a2, o, S, q, T, {})
    BY <1>1, <1>16 DEF CanEnter
  <2>3. e \cup S = S /\ e \cup T = T
    BY <1>1
  <2> QED
    BY <1>6, <1>16, <2>1, <2>2, <2>3 DEF OpensAs
<1>18. PICK a1 : /\ Enters(c, s, D, a, a1) /\ Sound(c, a1) /\ a1[o] = V(G, G, S) /\ a1[q] = V(e, e, T)
                 /\ Except2(a, a1, o, q)
  BY <1>2, <1>12, <1>14, <1>15, <1>17, EnterTwo
<1>19. D = {store, intermediate_certs, leaf_cert} \cup {intermediate(i) : i \in Positions}
  <2>1. \A r : r \in D <=> (\E m \in S : r = <<o, m>>) \/ (\E m \in T : r = <<q, m>>)
    BY <1>13 DEF Of
  <2>2. \A r : r \in D <=> r \in {store, intermediate_certs, leaf_cert} \/ r \in {intermediate(i) : i \in Positions}
    BY <1>1, <1>2, <2>1 DEF OsslNames, intermediate
  <2> QED
    BY <2>2
<1>20. ASSUME NEW scope, NEW b, NEW k, Runs(c, scope, a1, b), Sound(c, b),
              b["x509"] = V(OsslNames, OsslNames, OsslNames), b["intermediate"] = V(k, k, Positions),
              k \subseteq Positions
       PROVE  \E d : /\ Runs(c, OsslX509(n, scope), a, d) /\ Sound(c, d)
                     /\ d["x509"].live = {} /\ d["intermediate"].live = {}
                     /\ Except2(b, d, "x509", "intermediate")
  <2>1. PICK d : d = Destroyed(b, D)
    OBVIOUS
  <2>2. PICK v, w : v = V(e, S, e) /\ w = V(e, k, e)
    OBVIOUS
  <2>3. LeavesAs(b, o, S, v) /\ LeavesAs(b, q, T, w)
    <3>1. /\ b[o].live = S /\ b[o].members = S /\ b[o].open = S
          /\ b[q].live = k /\ b[q].members = k /\ b[q].open = T
      BY <1>1, <1>20, VFields
    <3>2. S \ (S \cap S) = e /\ k \ (T \cap k) = e /\ S \ S = e /\ T \ T = e /\ S \subseteq S /\ T \subseteq T
      BY <1>1, <1>20
    <3> QED
      BY <2>2, <3>1, <3>2 DEF LeavesAs
  <2>4. Pending(D, b) /\ Sound(c, d) /\ d[o] = v /\ d[q] = w /\ Except2(b, d, o, q)
    BY <1>2, <1>14, <1>20, <2>1, <2>3, LeavesTwo
  <2>5. d[o].live = {} /\ d[q].live = {}
    BY <1>1, <2>2, <2>4, VFields
  <2>6. Runs(c, Object(s, D, scope), a, d)
    BY <1>18, <1>20, <2>1, <2>4, Within
  <2>7. OsslX509(n, scope) = Object(s, D, scope)
    BY <1>2, <1>7, <1>11, <1>19, Zenon DEF OsslX509
  <2> QED
    BY <1>1, <2>4, <2>5, <2>6, <2>7
<1> QED
  BY <1>1, <1>4, <1>18, <1>20

\* The leaf, on Windows
LEMMA WincryptLeafHeld ==
  ASSUME NEW c, c.view = "holdings", OnWindows(c), Windows, c.name \in ChainCalls, NEW a, Sound(c, a),
         NEW M, M \subseteq StoreNames, a["x509"] = V(M, {"hStore"}, StoreNames), "hStore" \in M
  PROVE  \E b : /\ Runs(c, LoadLeafCertificate, a, b) /\ Sound(c, b)
                /\ b["x509"] = V(M \cup LeftContexts, {"hStore"}, StoreNames) /\ Except(a, b, "x509")
<1>1. PICK o, h, g, S, H, F, G : /\ o = "x509" /\ h = "pLeafCertContext" /\ g = "chainContext" /\ S = StoreNames
                                 /\ H = {"hStore"} /\ F = M \cup {h} /\ G = F \cup {g}
  OBVIOUS
<1>2. /\ o \in Owners /\ o # "hkdf" /\ Ordinary(o, h) /\ Ordinary(o, g) /\ leafContext = <<o, h>> /\ chainContext = <<o, g>>
      /\ G = M \cup LeftContexts /\ h \notin M /\ g \notin F /\ a[o] = V(M, H, S)
  BY <1>1, OwnerNames DEF Ordinary, leafContext, chainContext, LeftContexts, StoreNames
<1>3. OnError(c, o) = {"hStore", "store", "intermediate_certs", "leafPrivateKey"} /\ Never(c, o) = LeftContexts
  BY <1>1 DEF OnError, Never, LeftContexts
<1>4. G \subseteq Never(c, o) \cup OnError(c, o) /\ F \subseteq G
  BY <1>1, <1>2, <1>3 DEF StoreNames
<1>5. SafeOwner(c, o, V(F, H, S)) /\ SafeOwner(c, o, V(G, H, S))
  <2>1. F \ (S \cap H) \subseteq Never(c, o) \cup OnError(c, o) /\ S \cap H \subseteq F
    BY <1>1, <1>4
  <2>2. G \ (S \cap H) \subseteq Never(c, o) \cup OnError(c, o) /\ S \cap H \subseteq G
    BY <1>1, <1>4
  <2> QED
    BY <2>1, <2>2, SafeIs
<1>6. PICK x, y, z : x = Allocate(<<o, h>>) /\ y = Allocate(<<o, g>>) /\ z = LoadCertificate(1)
  OBVIOUS
<1>7. PICK a0 : Runs(c, <<x>>, a, a0) /\ Sound(c, a0) /\ a0[o] = V(F, H, S) /\ Except(a, a0, o)
  BY <1>1, <1>2, <1>5, <1>6, OwnerStep
<1>8. PICK b : Runs(c, <<y>>, a0, b) /\ Sound(c, b) /\ b[o] = V(G, H, S) /\ Except(a0, b, o)
  BY <1>1, <1>2, <1>5, <1>6, <1>7, OwnerStep
<1>9. Runs(c, <<z>>, a, a) /\ Runs(c, <<BuildChain>>, b, b)
  BY <1>6, <1>8, StillRun, StillInstructions
<1>10. Runs(c, <<z, x, y, BuildChain>>, a, b)
  BY <1>7, <1>8, <1>9, Few
<1>11. LoadLeafCertificate = <<z, x, y, BuildChain>>
  BY <1>2, <1>6 DEF LoadLeafCertificate, Wincrypt_LoadLeafCertificate
<1>12. Except(a, b, o)
  BY <1>7, <1>8 DEF Except
<1> QED
  BY <1>1, <1>2, <1>8, <1>10, <1>11, <1>12

\* The leaf, on Linux
LEMMA OsslLeafHeld ==
  ASSUME NEW c, c.view = "holdings", ~Windows, NEW a, Sound(c, a), a["x509"] = V(OsslStores, OsslStores, OsslNames)
  PROVE  \E b : /\ Runs(c, LoadLeafCertificate, a, b) /\ Sound(c, b)
                /\ b["x509"] = V(OsslNames, OsslNames, OsslNames) /\ Except(a, b, "x509")
<1>1. PICK o, h, S, G : o = "x509" /\ h = "leaf_cert" /\ S = OsslNames /\ G = OsslStores
  OBVIOUS
<1>2. /\ o \in Owners /\ o # "hkdf" /\ Ordinary(o, h) /\ leaf_cert = <<o, h>>
      /\ S = G \cup {h} /\ h \notin G /\ a[o] = V(G, G, S)
  BY <1>1, OwnerNames DEF Ordinary, leaf_cert, OsslNames, OsslStores
<1>3. SafeOwner(c, o, V(S, S, S))
  <2>1. S \ (S \cap S) \subseteq Never(c, o) \cup OnError(c, o) /\ S \cap S \subseteq S
    OBVIOUS
  <2> QED
    BY <2>1, SafeIs
<1>4. PICK x, z : x = New(<<o, h>>) /\ z = LoadCertificate(1)
  OBVIOUS
<1>5. PICK b : Runs(c, <<x>>, a, b) /\ Sound(c, b) /\ b[o] = V(S, S, S) /\ Except(a, b, o)
  BY <1>2, <1>3, <1>4, OwnerStep
<1>6. Runs(c, <<z>>, a, a)
  BY <1>4, StillRun, StillInstructions
<1>7. Runs(c, <<z, x>>, a, b)
  BY <1>5, <1>6, Few
<1>8. LoadLeafCertificate = <<z, x>>
  BY <1>2, <1>4 DEF LoadLeafCertificate, Ossl_LoadLeafCertificate
<1> QED
  BY <1>1, <1>5, <1>7, <1>8

\* The hash of a signature is made and destroyed; hKey, which is not on an error,
\* is destroyed when all goes well
LEMMA SignatureHeld ==
  ASSUME NEW c, c.view = "holdings", Windows, NEW a, Sound(c, a), NEW m, a["VerifySignature"] = V({}, m, {})
  PROVE  /\ \E b : /\ Runs(c, VerifySignature, a, b) /\ Sound(c, b) /\ b["VerifySignature"].live = {}
                   /\ Except(a, b, "VerifySignature")
         /\ \E b, k : /\ Runs(c, SignData, a, b) /\ Sound(c, b) /\ b["VerifySignature"] = V({}, k, {})
                      /\ Except(a, b, "VerifySignature")
<1>1. PICK o, h, g, e, H, n : /\ o = "VerifySignature" /\ h = "hKey" /\ g = "hHashAlg" /\ e = {} /\ H = {h}
                              /\ n = m \cup {g}
  OBVIOUS
<1>2. /\ o \in Owners /\ o # "hkdf" /\ Ordinary(o, h) /\ Ordinary(o, g) /\ hKey = <<o, h>> /\ hHashAlg = <<o, g>>
      /\ H = e \cup {h} /\ h \notin e /\ g \notin e /\ g \notin H /\ a[o] = V(e, m, e) /\ e = H \ {h}
  BY <1>1, OwnerNames DEF Ordinary, hKey, hHashAlg, Buffer
<1>3. SafeOwner(c, o, V(H, m, e)) /\ SafeOwner(c, o, V(e, n, e))
  <2>1. OnError(c, o) = {"hKey"}
    BY <1>1 DEF OnError
  <2>2. H \ (e \cap m) \subseteq Never(c, o) \cup OnError(c, o) /\ e \cap m \subseteq H
    BY <1>1, <2>1
  <2>3. e \ (e \cap n) \subseteq Never(c, o) \cup OnError(c, o) /\ e \cap n \subseteq e
    BY <1>1
  <2>4. SafeOwner(c, o, V(H, m, e))
    BY <2>2, SafeIs
  <2>5. SafeOwner(c, o, V(e, n, e))
    BY <2>3, SafeIs
  <2> QED
    BY <2>4, <2>5
<1>4. PICK x, y, z, D, u, v : /\ x = Allocate(<<o, h>>) /\ y = Release(<<o, h>>) /\ z = New(<<o, g>>) /\ D = {<<o, g>>}
                              /\ u = <<Request, Test("signature_verifies")>> /\ v = <<Request>>
  OBVIOUS
<1>5. Still(u) /\ Still(v)
  BY <1>4, StillTuples, StillInstructions
<1>6. PICK a1 : Runs(c, <<x>>, a, a1) /\ Sound(c, a1) /\ a1[o] = V(H, m, e) /\ Except(a, a1, o)
  BY <1>2, <1>3, <1>4, OwnerStep
<1>7. PICK a2 : Runs(c, Object(<<z>>, D, u), a1, a2) /\ Sound(c, a2) /\ a2[o] = V(H, n, e) /\ Except(a1, a2, o)
  BY <1>1, <1>2, <1>4, <1>5, <1>6, BriefHeld
<1>8. PICK a3 : Runs(c, <<y>>, a2, a3) /\ Sound(c, a3) /\ a3[o] = V(e, n, e) /\ Except(a2, a3, o)
  BY <1>2, <1>3, <1>4, <1>7, OwnerStep
<1>9. Runs(c, VerifySignature, a, a3)
  <2>1. VerifySignature = Cat(Cat(<<x>>, Object(<<z>>, D, u)), <<y>>)
    BY <1>2, <1>4, Zenon DEF VerifySignature, Wincrypt_VerifySignature, Cat
  <2> QED
    BY <1>6, <1>7, <1>8, <2>1, Then
<1>10. Except(a, a3, o) /\ a3[o].live = {}
  BY <1>1, <1>6, <1>7, <1>8, VFields DEF Except
<1>11. PICK b : Runs(c, Object(<<z>>, D, v), a, b) /\ Sound(c, b) /\ b[o] = V(e, n, e) /\ Except(a, b, o)
  BY <1>1, <1>2, <1>4, <1>5, BriefHeld
<1>12. Runs(c, SignData, a, b)
  <2>1. SignData = Cat(Object(<<z>>, D, v), <<Request>>)
    BY <1>2, <1>4, Zenon DEF SignData, Wincrypt_SignData, Cat
  <2>2. Runs(c, <<Request>>, b, b)
    BY <1>11, StillFunctions
  <2> QED
    BY <1>11, <2>1, <2>2, Then
<1> QED
  BY <1>1, <1>8, <1>9, <1>10, <1>11, <1>12

\* What is left at the end of ParseToken and of ValidateSignature
LEMMA ChainSettled ==
  ASSUME NEW c, c.view = "holdings", c.name \in ChainCalls, NEW b, Sound(c, b),
         \A o \in Owners : b[o].live = Never(c, o), b["key"] = Kv(0, 0, 0), b["secret"] = Sv(0, 0, 0, 0, 0),
         b["contexts"] = Count(0), NEW n, b["roots"] = Count(n),
         ~OnWindows(c) => n = 0, OnWindows(c) /\ c.name = "verify" => n = Cardinality(TrustedRoots),
         OnWindows(c) /\ c.name = "generate" => n = 1
  PROVE  Good(c, << >>, b)
<1>1. b["key"].n = 0 /\ b["secret"].n = 0 /\ b["roots"].n = n /\ b["contexts"].n = 0
  BY DEF Kv, Sv, Count
<1>2. c.name \notin Secrets \cup {"report"}
  BY DEF Secrets, ChainCalls
<1>3. n = IF OnWindows(c) /\ c.name = "verify" THEN Cardinality(TrustedRoots)
          ELSE IF OnWindows(c) /\ c.name = "generate" THEN 1 ELSE 0
  BY DEF ChainCalls
<1>4. Complete(c, b)
  BY <1>1, <1>2, <1>3 DEF Complete, Settled, Sound
<1> QED
  BY <1>4, CompleteIsGood

\* What a chain leaves: on Windows the contexts of its certificates
LEMMA ChainNever ==
  ASSUME NEW c, c.name \in ChainCalls
  PROVE  /\ ~OnWindows(c) => \A o : Never(c, o) = {}
         /\ OnWindows(c) => /\ Never(c, "x509") = LeftContexts /\ Never(c, "intermediate") = 2..c.last
                            /\ \A o : o \notin {"x509", "intermediate"} => Never(c, o) = {}
BY DEF Never, ChainCalls, LeftContexts

\* ParseToken, on Linux
LEMMA ParseTokenLinux ==
  ASSUME NEW c, c.view = "holdings", c.name = "verify", ~OnWindows(c), ~Windows, NEW x5c, Len(x5c) = c.last,
         c.last \in Nat, 2..c.last \subseteq Positions
  PROVE  Good(c, ParseToken(x5c), Free) /\ NoEnds(ParseToken(x5c))
<1> DEFINE z == <<Test("has_x5c")>>
           ss == [i \in 1..c.last - 1 |-> LoadIntermediateCertificate(i + 1)]
           t == Cat(Cat(Cat(Cat(z, FlattenSeq(ss)), LoadLeafCertificate), VerifyCertChain), VerifySignature)
           n == Cardinality(TrustedRoots)
<1>1. ParseToken(x5c) = OsslX509(n, t)
  BY Zenon DEF ParseToken, Cat, X509
<1>2. c.name \in ChainCalls
  BY DEF ChainCalls
<1>3. PICK f, k : f = Free /\ k = 2..c.last
  OBVIOUS
<1>4. /\ Sound(c, f) /\ (\A o \in Owners : f[o] = Loose({}))
      /\ f["key"] = Kv(0, 0, 0) /\ f["secret"] = Sv(0, 0, 0, 0, 0)
      /\ f["roots"] = Count(0) /\ f["contexts"] = Count(0)
  BY <1>3, FreeIs
<1>5. f["x509"] = Loose({}) /\ f["intermediate"] = Loose({})
  BY <1>4, OwnerNames
<1> HIDE DEF n
<1>6. PICK a1 : /\ Sound(c, a1) /\ a1["x509"] = V(OsslStores, OsslStores, OsslNames)
                /\ a1["intermediate"] = V({}, {}, Positions) /\ Except2(f, a1, "x509", "intermediate")
                /\ \A scope, b, m : (/\ Runs(c, scope, a1, b) /\ Sound(c, b)
                                     /\ b["x509"] = V(OsslNames, OsslNames, OsslNames)
                                     /\ b["intermediate"] = V(m, m, Positions) /\ m \subseteq Positions) =>
                     \E d : /\ Runs(c, OsslX509(n, scope), f, d) /\ Sound(c, d)
                            /\ d["x509"].live = {} /\ d["intermediate"].live = {}
                            /\ Except2(b, d, "x509", "intermediate")
  BY <1>4, <1>5, OsslX509Held
<1>7. PICK a2 : /\ Runs(c, FlattenSeq(ss), a1, a2) /\ Sound(c, a2) /\ Except(a1, a2, "intermediate")
                /\ a2["intermediate"] = V(k, k, Positions)
  <2>1. PICK p : p = Positions
    OBVIOUS
  <2>2. \E b : /\ Runs(c, FlattenSeq(ss), a1, b) /\ Sound(c, b) /\ Except(a1, b, "intermediate")
               /\ b["intermediate"] = V(2..c.last, IF Windows THEN {} ELSE 2..c.last, p)
    BY <1>2, <1>6, <2>1, IntermediatesHeld
  <2> HIDE DEF ss
  <2> QED
    BY <1>3, <2>1, <2>2
<1> HIDE DEF ss
<1>8. a2["x509"] = V(OsslStores, OsslStores, OsslNames)
  BY <1>6, <1>7, PlaceNames, OwnerNames DEF Except
<1>9. PICK a3 : /\ Runs(c, LoadLeafCertificate, a2, a3) /\ Sound(c, a3)
                /\ a3["x509"] = V(OsslNames, OsslNames, OsslNames) /\ Except(a2, a3, "x509")
  BY <1>7, <1>8, OsslLeafHeld
<1>10. Runs(c, t, a1, a3)
  <2>1. Runs(c, z, a1, a1)
    BY <1>6, StillFunctions
  <2>2. Runs(c, VerifyCertChain, a3, a3) /\ Runs(c, VerifySignature, a3, a3)
    BY <1>9, StillFunctions
  <2> QED
    BY <1>7, <1>9, <2>1, <2>2, Then
<1> HIDE DEF t
<1>11. a3["intermediate"] = V(k, k, Positions)
  BY <1>7, <1>9, PlaceNames, OwnerNames DEF Except
<1>12. PICK d : /\ Runs(c, OsslX509(n, t), f, d) /\ Sound(c, d)
                /\ d["x509"].live = {} /\ d["intermediate"].live = {} /\ Except2(a3, d, "x509", "intermediate")
  BY <1>3, <1>6, <1>9, <1>10, <1>11
<1>13. ASSUME NEW o \in Owners PROVE d[o].live = Never(c, o)
  <2>1. Never(c, o) = {}
    BY <1>2, ChainNever
  <2>2. CASE o \in {"x509", "intermediate"}
    BY <1>12, <2>1, <2>2
  <2>3. CASE o \notin {"x509", "intermediate"}
    <3>1. d[o] = f[o]
      BY <1>6, <1>7, <1>9, <1>12, <2>3, PlaceNames DEF Except, Except2
    <3> QED
      BY <1>4, <2>1, <3>1, VFields DEF Loose
  <2> QED
    BY <2>2, <2>3
<1>14. /\ d["key"] = Kv(0, 0, 0) /\ d["secret"] = Sv(0, 0, 0, 0, 0)
       /\ d["roots"] = Count(0) /\ d["contexts"] = Count(0)
  BY <1>4, <1>6, <1>7, <1>9, <1>12, PlaceNames DEF Except, Except2
<1>15. Good(c, << >>, d)
  BY <1>2, <1>12, <1>13, <1>14, ChainSettled
<1> QED
  BY <1>1, <1>3, <1>12, <1>15, RunsToEnd

\* ParseToken, on Windows
LEMMA ParseTokenWindows ==
  ASSUME NEW c, c.view = "holdings", c.name = "verify", OnWindows(c), Windows, NEW x5c, Len(x5c) = c.last,
         c.last \in Nat
  PROVE  Good(c, ParseToken(x5c), Free) /\ NoEnds(ParseToken(x5c))
<1> DEFINE z == <<Test("has_x5c")>>
           ss == [i \in 1..c.last - 1 |-> LoadIntermediateCertificate(i + 1)]
           t == Cat(Cat(Cat(Cat(z, FlattenSeq(ss)), LoadLeafCertificate), VerifyCertChain), VerifySignature)
<1>0. PICK n \in Nat : n = Cardinality(TrustedRoots) /\ n <= Cardinality(TrustedRoots) + 1
  BY ConstantsAssumption, FS_CardinalityType
<1>1. ParseToken(x5c) = WincryptX509(n, t)
  BY <1>0, Zenon DEF ParseToken, Cat, X509
<1>2. c.name \in ChainCalls
  BY DEF ChainCalls
<1>3. PICK f, e, M : f = Free /\ e = {} /\ M = e \cup {"hStore"}
  OBVIOUS
<1>4. /\ Sound(c, f) /\ (\A o \in Owners : f[o] = Loose({}))
      /\ f["key"] = Kv(0, 0, 0) /\ f["secret"] = Sv(0, 0, 0, 0, 0)
      /\ f["roots"] = Count(0) /\ f["contexts"] = Count(0)
  BY <1>3, FreeIs
<1>5. f["x509"] = V(e, {}, {}) /\ f["intermediate"] = V({}, {}, {}) /\ f["VerifySignature"] = V({}, {}, {})
      /\ e \subseteq {"leafPrivateKey"} /\ M \subseteq StoreNames /\ "hStore" \in M /\ M = {"hStore"}
  BY <1>3, <1>4, OwnerNames DEF Loose, StoreNames
<1>6. PICK a1 : StoreHeld(c, f, n, M, a1)
  BY <1>0, <1>2, <1>3, <1>4, <1>5, WincryptX509Held
<1>6a. /\ Sound(c, a1) /\ a1["x509"] = V(M, {"hStore"}, StoreNames) /\ a1["roots"] = Count(n)
       /\ Except2(f, a1, "x509", "roots")
       /\ \A scope, b : (/\ Runs(c, scope, a1, b) /\ Sound(c, b)
                         /\ b["x509"] = V(M \cup LeftContexts, M, StoreNames)) =>
            \E d : /\ Runs(c, WincryptX509(n, scope), f, d) /\ Sound(c, d)
                   /\ d["x509"].live = LeftContexts /\ Except(b, d, "x509")
  BY <1>6 DEF StoreHeld
<1>7. PICK a2 : /\ Runs(c, FlattenSeq(ss), a1, a2) /\ Sound(c, a2) /\ Except(a1, a2, "intermediate")
                /\ a2["intermediate"].live = 2..c.last
  <2>1. PICK p : p = {}
    OBVIOUS
  <2>2. a1["intermediate"] = V({}, {}, p)
    BY <1>5, <1>6a, <2>1, PlaceNames, OwnerNames DEF Except2
  <2>3. PICK b : /\ Runs(c, FlattenSeq(ss), a1, b) /\ Sound(c, b) /\ Except(a1, b, "intermediate")
                 /\ b["intermediate"] = V(2..c.last, IF Windows THEN {} ELSE 2..c.last, p)
    BY <1>2, <1>6a, <2>2, IntermediatesHeld
  <2>4. b["intermediate"].live = 2..c.last
    BY <2>3, VFields
  <2> HIDE DEF ss
  <2> QED
    BY <2>3, <2>4
<1> HIDE DEF ss
<1>8. a2["x509"] = V(M, {"hStore"}, StoreNames)
  BY <1>6a, <1>7, PlaceNames, OwnerNames DEF Except
<1>9. PICK a3 : /\ Runs(c, LoadLeafCertificate, a2, a3) /\ Sound(c, a3)
                /\ a3["x509"] = V(M \cup LeftContexts, M, StoreNames) /\ Except(a2, a3, "x509")
  BY <1>2, <1>5, <1>7, <1>8, WincryptLeafHeld
<1>10. PICK a4 : /\ Runs(c, VerifySignature, a3, a4) /\ Sound(c, a4) /\ a4["VerifySignature"].live = {}
                 /\ Except(a3, a4, "VerifySignature")
  <2>1. PICK m : m = {}
    OBVIOUS
  <2>2. a3["VerifySignature"] = V({}, m, {})
    BY <1>5, <1>6a, <1>7, <1>9, <2>1, PlaceNames, OwnerNames DEF Except, Except2
  <2> QED
    BY <1>9, <2>2, SignatureHeld
<1>11. Runs(c, t, a1, a4)
  <2>1. Runs(c, z, a1, a1)
    BY <1>6a, StillFunctions
  <2>2. Runs(c, VerifyCertChain, a3, a3)
    BY <1>9, StillFunctions
  <2> QED
    BY <1>7, <1>9, <1>10, <2>1, <2>2, Then
<1> HIDE DEF t
<1>12. a4["x509"] = V(M \cup LeftContexts, M, StoreNames)
  BY <1>9, <1>10, PlaceNames, OwnerNames DEF Except
<1>13. PICK d : /\ Runs(c, WincryptX509(n, t), f, d) /\ Sound(c, d)
                /\ d["x509"].live = LeftContexts /\ Except(a4, d, "x509")
  BY <1>6a, <1>10, <1>11, <1>12
<1>14. ASSUME NEW o \in Owners PROVE d[o].live = Never(c, o)
  <2>1. CASE o = "x509"
    BY <1>2, <1>13, <2>1, ChainNever
  <2>2. CASE o = "intermediate"
    <3>1. d[o] = a2[o]
      BY <1>9, <1>10, <1>13, <2>2, PlaceNames DEF Except
    <3> QED
      BY <1>2, <1>7, <2>2, <3>1, ChainNever
  <2>3. CASE o = "VerifySignature"
    <3>1. d[o] = a4[o]
      BY <1>13, <2>3, PlaceNames DEF Except
    <3> QED
      BY <1>2, <1>10, <2>3, <3>1, ChainNever
  <2>4. CASE o # "x509" /\ o # "intermediate" /\ o # "VerifySignature"
    <3>1. d[o] = f[o]
      BY <1>6a, <1>7, <1>9, <1>10, <1>13, <2>4, PlaceNames DEF Except, Except2
    <3>2. f[o].live = {}
      BY <1>4, VFields DEF Loose
    <3> QED
      BY <1>2, <2>4, <3>1, <3>2, ChainNever
  <2> QED
    BY <2>1, <2>2, <2>3, <2>4
<1>15. /\ d["key"] = Kv(0, 0, 0) /\ d["secret"] = Sv(0, 0, 0, 0, 0)
       /\ d["roots"] = Count(n) /\ d["contexts"] = Count(0)
  BY <1>4, <1>6a, <1>7, <1>9, <1>10, <1>13, PlaceNames, OwnerNames DEF Except, Except2
<1>16. Good(c, << >>, d)
  BY <1>0, <1>2, <1>13, <1>14, <1>15, ChainSettled
<1> QED
  BY <1>1, <1>3, <1>13, <1>16, RunsToEnd

\* The tests' chain has a certificate behind the leaf
LEMMA SecondPosition == 2 \in Positions
<1>1. 2 \in DOMAIN TestChain
  BY DEF TestChain
<1> QED
  BY <1>1 DEF Positions

\* ValidateSignature, on Linux
LEMMA ValidateSignatureLinux ==
  ASSUME NEW c, c.view = "holdings", c.name = "generate", ~OnWindows(c), ~Windows, c.last = 2
  PROVE  Good(c, ValidateSignature, Free) /\ NoEnds(ValidateSignature)
<1> DEFINE v == Cat(Cat(VerifyCertChain, SignData), VerifySignature)
           l == Cat(LoadIntermediateCertificate(2), LoadLeafCertificate)
           w == Cat(l, v)
           g1 == Cat(Cat(generateKey, <<generateCSR>>), signCertificate)
           g2 == Cat(Cat(Cat(g1, generateKey), <<generateCSR>>), signCertificate)
           g3 == Cat(Cat(Cat(g2, generateKey), <<generateCSR>>), signCertificate)
<1>1. ValidateSignature = Cat(g3, OsslX509(1, w))
  BY Zenon DEF ValidateSignature, generateCertChain, Ossl_generateCertChain, Cat, X509
<1>2. c.name \in ChainCalls
  BY DEF ChainCalls
<1>3. PICK f, k, e, i : f = Free /\ k = {2} /\ e = {} /\ i = 2
  OBVIOUS
<1>4. /\ Sound(c, f) /\ (\A o \in Owners : f[o] = Loose({}))
      /\ f["key"] = Kv(0, 0, 0) /\ f["secret"] = Sv(0, 0, 0, 0, 0)
      /\ f["roots"] = Count(0) /\ f["contexts"] = Count(0)
  BY <1>3, FreeIs
<1>5. f["x509"] = Loose({}) /\ f["intermediate"] = Loose({}) /\ f["generateKey"] = Loose({})
  BY <1>4, OwnerNames
<1>6. Runs(c, g3, f, f)
  <2>1. Runs(c, generateKey, f, f)
    BY <1>4, <1>5, BorrowedHeld
  <2>2. Runs(c, <<generateCSR>>, f, f)
    BY <1>4, StillFunctions DEF generateCSR
  <2>3. Runs(c, signCertificate, f, f)
    <3>1. Still(<<Request, Request, Request>>)
      BY StillTuples, StillInstructions
    <3>2. signCertificate = <<Request, Request, Request>>
      BY DEF signCertificate, addExtensions
    <3> QED
      BY <1>4, <3>1, <3>2, StillRuns
  <2>4. Runs(c, g1, f, f)
    BY <2>1, <2>2, <2>3, Then
  <2> HIDE DEF g1
  <2>5. Runs(c, g2, f, f)
    BY <2>1, <2>2, <2>3, <2>4, Then
  <2> HIDE DEF g2
  <2> QED
    BY <2>1, <2>2, <2>3, <2>5, Then
<1> HIDE DEF g1, g2, g3
<1>7. PICK n : n = 1
  OBVIOUS
<1>8. PICK a1 : /\ Sound(c, a1) /\ a1["x509"] = V(OsslStores, OsslStores, OsslNames)
                /\ a1["intermediate"] = V({}, {}, Positions) /\ Except2(f, a1, "x509", "intermediate")
                /\ \A scope, b, m : (/\ Runs(c, scope, a1, b) /\ Sound(c, b)
                                     /\ b["x509"] = V(OsslNames, OsslNames, OsslNames)
                                     /\ b["intermediate"] = V(m, m, Positions) /\ m \subseteq Positions) =>
                     \E d : /\ Runs(c, OsslX509(n, scope), f, d) /\ Sound(c, d)
                            /\ d["x509"].live = {} /\ d["intermediate"].live = {}
                            /\ Except2(b, d, "x509", "intermediate")
  BY <1>4, <1>5, OsslX509Held
<1>9. PICK a2 : /\ Runs(c, LoadIntermediateCertificate(i), a1, a2) /\ Sound(c, a2)
                /\ a2["intermediate"] = V(k, k, Positions) /\ Except(a1, a2, "intermediate")
  <2>1. PICK p : p = Positions
    OBVIOUS
  <2>2. OneMore(c, i, e, e, p, k, k)
    BY <1>3 DEF OneMore
  <2>3. a1["intermediate"] = V(e, e, p)
    BY <1>3, <1>8, <2>1
  <2> QED
    BY <1>2, <1>8, <2>1, <2>2, <2>3, IntermediateHeld
<1>10. a2["x509"] = V(OsslStores, OsslStores, OsslNames)
  BY <1>8, <1>9, PlaceNames, OwnerNames DEF Except
<1>11. PICK a3 : /\ Runs(c, LoadLeafCertificate, a2, a3) /\ Sound(c, a3)
                 /\ a3["x509"] = V(OsslNames, OsslNames, OsslNames) /\ Except(a2, a3, "x509")
  BY <1>9, <1>10, OsslLeafHeld
<1>12. Runs(c, w, a1, a3)
  <2>1. Runs(c, VerifyCertChain, a3, a3) /\ Runs(c, VerifySignature, a3, a3) /\ Runs(c, SignData, a3, a3)
    BY <1>11, StillFunctions
  <2>2. Runs(c, v, a3, a3)
    BY <2>1, Then
  <2> HIDE DEF v
  <2>3. Runs(c, l, a1, a3)
    BY <1>3, <1>9, <1>11, Then
  <2> QED
    BY <2>2, <2>3, Then
<1> HIDE DEF w
<1>13. a3["intermediate"] = V(k, k, Positions) /\ k \subseteq Positions
  BY <1>3, <1>9, <1>11, SecondPosition, PlaceNames, OwnerNames DEF Except
<1>14. PICK d : /\ Runs(c, OsslX509(n, w), f, d) /\ Sound(c, d)
                /\ d["x509"].live = {} /\ d["intermediate"].live = {} /\ Except2(a3, d, "x509", "intermediate")
  BY <1>8, <1>11, <1>12, <1>13
<1>15. ASSUME NEW o \in Owners PROVE d[o].live = Never(c, o)
  <2>1. Never(c, o) = {}
    BY <1>2, ChainNever
  <2>2. CASE o \in {"x509", "intermediate"}
    BY <1>14, <2>1, <2>2
  <2>3. CASE o \notin {"x509", "intermediate"}
    <3>1. d[o] = f[o]
      BY <1>8, <1>9, <1>11, <1>14, <2>3, PlaceNames DEF Except, Except2
    <3> QED
      BY <1>4, <2>1, <3>1, VFields DEF Loose
  <2> QED
    BY <2>2, <2>3
<1>16. /\ d["key"] = Kv(0, 0, 0) /\ d["secret"] = Sv(0, 0, 0, 0, 0)
       /\ d["roots"] = Count(0) /\ d["contexts"] = Count(0)
  BY <1>4, <1>8, <1>9, <1>11, <1>14, PlaceNames DEF Except, Except2
<1>17. Good(c, << >>, d)
  BY <1>2, <1>14, <1>15, <1>16, ChainSettled
<1>18. Runs(c, Cat(g3, OsslX509(n, w)), f, d)
  BY <1>6, <1>14, Then
<1> QED
  BY <1>1, <1>3, <1>7, <1>17, <1>18, RunsToEnd

\* What one of the tests' certificates holds on Windows
CertNames == {"cert", "hKey", "hProv", "containerName"}
TestOwners == {"rootCA", "intermediateCA", "leafCert"}

\* Names of a certificate of the tests
LEMMA CertNamesAre ==
  ASSUME NEW o \in TestOwners
  PROVE  /\ o \in Owners /\ o # "hkdf" /\ \A n : Ordinary(o, n)
         /\ container(o) = <<o, "containerName">> /\ hProv(o) = <<o, "hProv">> /\ key(o) = <<o, "hKey">>
         /\ cert(o) = <<o, "cert">> /\ pbEncoded(o) = <<o, "pbEncoded">>
BY OwnerNames DEF TestOwners, Ordinary, container, hProv, key, cert, pbEncoded

\* What is a member of an object is safe there
LEMMA SafeMembers ==
  ASSUME NEW c, NEW o, NEW l, NEW p, l \subseteq p PROVE SafeOwner(c, o, V(l, l, p))
<1>1. l \ (p \cap l) \subseteq Never(c, o) \cup OnError(c, o) /\ p \cap l \subseteq l
  OBVIOUS
<1> QED
  BY <1>1, SafeIs

\* The key of a certificate of the tests: the object destroys it whatever follows
LEMMA KeyPairHeld ==
  ASSUME NEW c, c.view = "holdings", NEW o \in TestOwners, NEW a, Sound(c, a), a[o] = V({}, {}, CertNames)
  PROVE  \E b, l : /\ l = {"containerName", "hProv", "hKey"} /\ b[o] = V(l, l, CertNames) /\ Sound(c, b)
                   /\ Runs(c, Cat(createKeyPair(o), <<Request>>), a, b) /\ Except(a, b, o)
<1>1. PICK h, g, k, e, H, G, K, C : /\ h = "containerName" /\ g = "hProv" /\ k = "hKey" /\ e = {} /\ H = e \cup {h}
                                    /\ G = H \cup {g} /\ K = G \cup {k} /\ C = CertNames
  OBVIOUS
<1>2. /\ o \in Owners /\ o # "hkdf" /\ Ordinary(o, h) /\ Ordinary(o, g) /\ Ordinary(o, k)
      /\ container(o) = <<o, h>> /\ hProv(o) = <<o, g>> /\ key(o) = <<o, k>>
      /\ h \notin e /\ g \notin H /\ k \notin G /\ H \subseteq C /\ G \subseteq C /\ K \subseteq C
      /\ a[o] = V(e, e, C)
  BY <1>1, CertNamesAre DEF CertNames
<1>3. SafeOwner(c, o, V(H, H, C)) /\ SafeOwner(c, o, V(G, G, C)) /\ SafeOwner(c, o, V(K, K, C))
  BY <1>2, SafeMembers
<1>4. PICK x, y, z : x = New(<<o, h>>) /\ y = New(<<o, g>>) /\ z = New(<<o, k>>)
  OBVIOUS
<1>5. PICK a1 : Runs(c, <<x>>, a, a1) /\ Sound(c, a1) /\ a1[o] = V(H, H, C) /\ Except(a, a1, o)
  BY <1>1, <1>2, <1>3, <1>4, OwnerStep
<1>6. PICK a2 : Runs(c, <<y>>, a1, a2) /\ Sound(c, a2) /\ a2[o] = V(G, G, C) /\ Except(a1, a2, o)
  BY <1>1, <1>2, <1>3, <1>4, <1>5, OwnerStep
<1>7. PICK b : Runs(c, <<z>>, a2, b) /\ Sound(c, b) /\ b[o] = V(K, K, C) /\ Except(a2, b, o)
  BY <1>1, <1>2, <1>3, <1>4, <1>6, OwnerStep
<1>8. Runs(c, <<x, y, z>>, a, b)
  BY <1>5, <1>6, <1>7, Few
<1>9. createKeyPair(o) = <<x, y, z>>
  BY <1>2, <1>4 DEF createKeyPair
<1>10. Runs(c, <<Request>>, b, b)
  BY <1>7, StillFunctions
<1>11. Runs(c, Cat(createKeyPair(o), <<Request>>), a, b)
  BY <1>8, <1>9, <1>10, Then
<1>12. Except(a, b, o)
  BY <1>5, <1>6, <1>7 DEF Except
<1>13. K = {"containerName", "hProv", "hKey"}
  BY <1>1
<1> QED
  BY <1>1, <1>7, <1>11, <1>12, <1>13

\* A certificate of the tests is made, the root's in the scope of its encoding
LEMMA CertsHeld ==
  ASSUME NEW c, c.view = "holdings", NEW o \in TestOwners, NEW a, Sound(c, a), a[o] = V({}, {}, CertNames)
  PROVE  \E m : /\ CertNames \subseteq m
                /\ \E b : /\ Runs(c, createSignedCert(o), a, b) /\ Sound(c, b) /\ b[o] = V(CertNames, m, CertNames)
                          /\ Except(a, b, o)
                /\ \E b : /\ Runs(c, createRootCACert(o), a, b) /\ Sound(c, b) /\ b[o] = V(CertNames, m, CertNames)
                          /\ Except(a, b, o)
<1>1. PICK a0, l : /\ l = {"containerName", "hProv", "hKey"} /\ a0[o] = V(l, l, CertNames) /\ Sound(c, a0)
                   /\ Runs(c, Cat(createKeyPair(o), <<Request>>), a, a0) /\ Except(a, a0, o)
  BY KeyPairHeld
<1>2. PICK h, g, C, H, m, l1, l2, P : /\ h = "pbEncoded" /\ g = "cert" /\ C = CertNames /\ H = {h} /\ m = l \cup {h}
                                      /\ l1 = l \cup {h} /\ l2 = l1 \cup {g} /\ P = C \cup H
  OBVIOUS
<1>3. PICK n : n = m \cup {g}
  OBVIOUS
<1>4. /\ o \in Owners /\ o # "hkdf" /\ Ordinary(o, h) /\ Ordinary(o, g)
      /\ pbEncoded(o) = <<o, h>> /\ cert(o) = <<o, g>>
      /\ h \notin l /\ h \notin C /\ g \notin l /\ g \notin l1 /\ C = l \cup {g} /\ C \subseteq n
      /\ l1 \subseteq P /\ l2 \subseteq P /\ l1 = m /\ l2 = n /\ a0[o] = V(l, l, C)
  BY <1>1, <1>2, <1>3, CertNamesAre DEF CertNames
<1>5. PICK x, y, D, s : x = New(<<o, h>>) /\ y = New(<<o, g>>) /\ D = {<<o, h>>} /\ s = <<Request>>
  OBVIOUS
<1>6. SafeOwner(c, o, V(C, n, C)) /\ SafeOwner(c, o, V(l1, m, P)) /\ SafeOwner(c, o, V(l2, n, P))
  <2>1. C \ (C \cap n) \subseteq Never(c, o) \cup OnError(c, o) /\ C \cap n \subseteq C
    BY <1>4
  <2>2. SafeOwner(c, o, V(C, n, C))
    BY <2>1, SafeIs
  <2>3. SafeOwner(c, o, V(l1, l1, P)) /\ SafeOwner(c, o, V(l2, l2, P))
    BY <1>4, SafeMembers
  <2> QED
    BY <1>4, <2>2, <2>3
<1>7. \E b : /\ Runs(c, createSignedCert(o), a, b) /\ Sound(c, b) /\ b[o] = V(C, n, C) /\ Except(a, b, o)
  <2>1. Still(s)
    BY <1>5, StillTuples, StillInstructions
  <2>2. PICK a1 : Runs(c, Object(<<x>>, D, s), a0, a1) /\ Sound(c, a1) /\ a1[o] = V(l, m, C) /\ Except(a0, a1, o)
    BY <1>1, <1>2, <1>4, <1>5, <2>1, BriefHeld
  <2>3. PICK b : Runs(c, <<y>>, a1, b) /\ Sound(c, b) /\ b[o] = V(C, n, C) /\ Except(a1, b, o)
    BY <1>3, <1>4, <1>5, <1>6, <2>2, OwnerStep
  <2>4. createSignedCert(o) = Cat(Cat(Cat(createKeyPair(o), <<Request>>), Object(<<x>>, D, s)), <<y>>)
    BY <1>4, <1>5, Zenon DEF createSignedCert, Cat
  <2>5. Runs(c, createSignedCert(o), a, b)
    BY <1>1, <2>2, <2>3, <2>4, Then
  <2>6. Except(a, b, o)
    BY <1>1, <2>2, <2>3 DEF Except
  <2> QED
    BY <2>3, <2>5, <2>6
<1>8. \E b : /\ Runs(c, createRootCACert(o), a, b) /\ Sound(c, b) /\ b[o] = V(C, n, C) /\ Except(a, b, o)
  <2>1. OwnParts(D, o, H)
    BY <1>2, <1>4, <1>5, OneName
  <2>2. MakesAs(c, a0, o, H, h, V(l1, m, P))
    <3>1. a0[o].live = l /\ a0[o].members = l /\ a0[o].open = C
      BY <1>4, VFields
    <3>2. h \in H /\ H \cap C = {} /\ m = l \cup {h}
      BY <1>2, <1>4
    <3> QED
      BY <1>2, <1>4, <1>6, <3>1, <3>2 DEF MakesAs
  <2>3. PICK a1 : Enters(c, <<x>>, D, a0, a1) /\ Sound(c, a1) /\ a1[o] = V(l1, m, P) /\ Except(a0, a1, o)
    BY <1>1, <1>4, <1>5, <2>1, <2>2, NewEnters
  <2>4. PICK a2 : Runs(c, <<y>>, a1, a2) /\ Sound(c, a2) /\ a2[o] = V(l2, n, P) /\ Except(a1, a2, o)
    BY <1>2, <1>3, <1>4, <1>5, <1>6, <2>3, OwnerStep
  <2>5. PICK b : b = Destroyed(a2, D)
    OBVIOUS
  <2>6. LeavesAs(a2, o, H, V(C, n, C))
    <3>1. a2[o].live = l2 /\ a2[o].members = n /\ a2[o].open = P
      BY <2>4, VFields
    <3>2. H \subseteq P /\ l2 \ (H \cap n) = C /\ P \ H = C
      BY <1>2, <1>3, <1>4
    <3> QED
      BY <3>1, <3>2 DEF LeavesAs
  <2>7. Pending(D, a2) /\ Sound(c, b) /\ b[o] = V(C, n, C) /\ Except(a2, b, o)
    BY <1>4, <2>1, <2>4, <2>5, <2>6, NewLeaves
  <2>8. Runs(c, Object(<<x>>, D, <<y>>), a0, b)
    BY <2>3, <2>4, <2>5, <2>7, Within
  <2>9. createRootCACert(o) = Cat(Cat(createKeyPair(o), <<Request>>), Object(<<x>>, D, <<y>>))
    BY <1>4, <1>5, Zenon DEF createRootCACert, Cat
  <2>10. Runs(c, createRootCACert(o), a, b)
    BY <1>1, <2>8, <2>9, Then
  <2>11. Except(a, b, o)
    BY <1>1, <2>3, <2>4, <2>7 DEF Except
  <2> QED
    BY <2>7, <2>10, <2>11
<1> QED
  BY <1>2, <1>4, <1>7, <1>8

\* The object of a certificate of the tests
LEMMA GeneratedHeld ==
  ASSUME NEW c, c.view = "holdings", NEW o \in TestOwners, NEW a, Sound(c, a), a[o] = Loose({})
  PROVE  \E a1 : /\ Sound(c, a1) /\ a1[o] = V({}, {}, CertNames) /\ Except(a, a1, o)
                 /\ \A scope, b, m : (/\ Runs(c, scope, a1, b) /\ Sound(c, b) /\ b[o] = V(CertNames, m, CertNames)
                                      /\ CertNames \subseteq m) =>
                      \E d : /\ Runs(c, GeneratedCert(o, scope), a, d) /\ Sound(c, d) /\ d[o].live = {}
                             /\ Except(b, d, o)
<1>1. PICK C, e, D, s : C = CertNames /\ e = {} /\ D = Of(o, C) /\ s = << >>
  OBVIOUS
<1>2. /\ o \in Owners /\ o # "hkdf" /\ (\A n \in C : Ordinary(o, n)) /\ a[o] = V(e, e, e)
      /\ container(o) = <<o, "containerName">> /\ hProv(o) = <<o, "hProv">> /\ key(o) = <<o, "hKey">>
      /\ cert(o) = <<o, "cert">>
  BY <1>1, CertNamesAre DEF Loose
<1>3. OwnParts(D, o, C)
  BY <1>1, <1>2, OwnPartsIs
<1>4. OpensTo(c, a, o, C, V(e, e, C))
  <2>1. a[o].live = e /\ a[o].members = e /\ a[o].open = e
    BY <1>2, VFields
  <2>2. C \cap e = {} /\ e \cup C = C /\ e \subseteq C
    BY <1>1
  <2>3. SafeOwner(c, o, V(e, e, C))
    BY <2>2, SafeMembers
  <2> QED
    BY <2>1, <2>2, <2>3 DEF OpensTo
<1>5. Runs(c, s, a, a)
  BY <1>1, Empty
<1>6. PICK a1 : Enters(c, s, D, a, a1) /\ Sound(c, a1) /\ a1[o] = V(e, e, C) /\ Except(a, a1, o)
  BY <1>2, <1>3, <1>4, <1>5, OpenOne
<1>7. D = {cert(o), key(o), hProv(o), container(o)}
  <2>1. \A r : r \in D <=> \E n \in C : r = <<o, n>>
    BY <1>1 DEF Of
  <2>2. D = {<<o, "cert">>, <<o, "hKey">>, <<o, "hProv">>, <<o, "containerName">>}
    BY <1>1, <2>1 DEF CertNames
  <2> QED
    BY <1>2, <2>2
<1>8. ASSUME NEW scope, NEW b, NEW m, Runs(c, scope, a1, b), Sound(c, b), b[o] = V(CertNames, m, CertNames),
             CertNames \subseteq m
      PROVE  \E d : /\ Runs(c, GeneratedCert(o, scope), a, d) /\ Sound(c, d) /\ d[o].live = {} /\ Except(b, d, o)
  <2>1. PICK d, w : d = Destroyed(b, D) /\ w = V(e, m, e)
    OBVIOUS
  <2>2. LeavesAs(b, o, C, w)
    <3>1. b[o].live = C /\ b[o].members = m /\ b[o].open = C
      BY <1>1, <1>8, VFields
    <3>2. C \subseteq C /\ C \ (C \cap m) = e /\ C \ C = e
      BY <1>1, <1>8
    <3> QED
      BY <2>1, <3>1, <3>2 DEF LeavesAs
  <2>3. Pending(D, b) /\ Sound(c, d) /\ d[o] = w /\ Except(b, d, o)
    BY <1>2, <1>3, <1>8, <2>1, <2>2, NewLeaves
  <2>4. Runs(c, Object(s, D, scope), a, d)
    BY <1>6, <1>8, <2>1, <2>3, Within
  <2>5. GeneratedCert(o, scope) = Object(s, D, scope)
    BY <1>1, <1>7, Zenon DEF GeneratedCert
  <2>6. d[o].live = {}
    BY <1>1, <2>1, <2>3, VFields
  <2> QED
    BY <2>3, <2>4, <2>5, <2>6
<1> QED
  BY <1>1, <1>6, <1>8

\* The private key of the leaf is nobody's when convertToBcryptKey returns
LEMMA ConvertHeld ==
  ASSUME NEW c, c.view = "holdings", NEW a, Sound(c, a), a["x509"] = Loose({}), a["convertToBcryptKey"] = Loose({})
  PROVE  \E b : /\ Runs(c, convertToBcryptKey, a, b) /\ Sound(c, b) /\ b["x509"] = V({"leafPrivateKey"}, {}, {})
                /\ b["convertToBcryptKey"].live = {} /\ Except2(a, b, "x509", "convertToBcryptKey")
<1>1. PICK o, q, h, g, e, L : /\ o = "convertToBcryptKey" /\ q = "x509" /\ h = "hRsaAlg" /\ g = "leafPrivateKey" /\ e = {}
                              /\ L = {g}
  OBVIOUS
<1>2. /\ o \in Owners /\ q \in Owners /\ o # q /\ o # "hkdf" /\ q # "hkdf" /\ Ordinary(o, h) /\ Ordinary(q, g)
      /\ hRsaAlg = <<o, h>> /\ leafPrivateKey = <<q, g>> /\ L = e \cup {g} /\ g \notin e /\ a[q] = V(e, e, e)
      /\ a[o] = Loose({})
  BY <1>1, OwnerNames DEF Ordinary, hRsaAlg, Buffer, leafPrivateKey, Loose
<1>3. PICK x, y, D : x = New(<<o, h>>) /\ y = Allocate(<<q, g>>) /\ D = {<<o, h>>}
  OBVIOUS
<1>4. PICK a1 : Enters(c, <<x>>, D, a, a1) /\ Sound(c, a1) /\ a1[o] = V({h}, {h}, {h}) /\ Except(a, a1, o)
  BY <1>2, <1>3, OneEnters
<1>5. a1[q] = V(e, e, e)
  BY <1>2, <1>4, PlaceNames DEF Except
<1>6. SafeOwner(c, q, V(L, e, e))
  <2>1. g \in OnError(c, q)
    BY <1>1 DEF OnError
  <2>2. L \ (e \cap e) \subseteq Never(c, q) \cup OnError(c, q) /\ e \cap e \subseteq L
    BY <1>1, <2>1
  <2> QED
    BY <2>2, SafeIs
<1>7. PICK a2 : Runs(c, <<y>>, a1, a2) /\ Sound(c, a2) /\ a2[q] = V(L, e, e) /\ Except(a1, a2, q)
  BY <1>2, <1>3, <1>4, <1>5, <1>6, OwnerStep
<1>8. a2[o] = V({h}, {h}, {h})
  BY <1>2, <1>4, <1>7, PlaceNames DEF Except
<1>9. PICK b : b = Destroyed(a2, D)
  OBVIOUS
<1>10. Pending(D, a2) /\ Sound(c, b) /\ b[o] = V({}, {h}, {}) /\ Except(a2, b, o)
  <2>1. o \in Owners /\ Ordinary(o, h) /\ Sound(c, a2) /\ b = Destroyed(a2, {<<o, h>>})
    BY <1>2, <1>3, <1>7, <1>9
  <2>2. Pending({<<o, h>>}, a2) /\ Sound(c, b) /\ b[o] = V({}, {h}, {}) /\ Except(a2, b, o)
    BY <1>8, <2>1, OneLeaves
  <2> QED
    BY <1>3, <2>2
<1>11. Runs(c, Object(<<x>>, D, <<y>>), a, b)
  BY <1>4, <1>7, <1>9, <1>10, Within
<1>12. convertToBcryptKey = Cat(<<Request>>, Object(<<x>>, D, <<y>>))
  BY <1>2, <1>3, Zenon DEF convertToBcryptKey, Cat
<1>13. Runs(c, <<Request>>, a, a)
  BY StillFunctions
<1>14. Runs(c, convertToBcryptKey, a, b)
  BY <1>11, <1>12, <1>13, Then
<1>15. b[q] = V(L, e, e) /\ b[o].live = {}
  BY <1>2, <1>7, <1>10, VFields, PlaceNames DEF Except
<1>16. Except2(a, b, q, o)
  BY <1>4, <1>7, <1>10 DEF Except, Except2
<1> QED
  BY <1>1, <1>10, <1>14, <1>15, <1>16

\* What ValidateSignature does with its chain on Windows, and what of it is left
SignAndVerify == Cat(Cat(VerifyCertChain, SignData), VerifySignature)
TestScope == Cat(Cat(Cat(LoadIntermediateCertificate(2), LoadLeafCertificate), <<SetLeafKey>>), SignAndVerify)
Beside(a, b) == \A q \in Places : q \notin {"x509", "intermediate", "VerifySignature", "roots"} => b[q] = a[q]

\* The chain of the tests, once their certificates are made
LEMMA TestScopeHeld ==
  ASSUME NEW c, c.view = "holdings", c.name = "generate", OnWindows(c), Windows, c.last = 2, NEW a, Sound(c, a),
         NEW L, L = {"leafPrivateKey"}, a["x509"] = V(L, {}, {}), a["intermediate"] = V({}, {}, {}),
         a["VerifySignature"] = V({}, {}, {}), a["roots"] = Count(0)
  PROVE  \E d : /\ Runs(c, WincryptX509(1, TestScope), a, d) /\ Sound(c, d) /\ d["x509"].live = LeftContexts
                /\ d["intermediate"].live = 2..c.last /\ d["VerifySignature"].live = {} /\ d["roots"] = Count(1)
                /\ Beside(a, d)
<1>1. PICK n \in Nat : n = 1 /\ n <= Cardinality(TrustedRoots) + 1
  BY ConstantsAssumption, FS_CardinalityType
<1>2. c.name \in ChainCalls
  BY DEF ChainCalls
<1>3. PICK M, e, k, i, o, H, S, F, g : /\ M = L \cup {"hStore"} /\ e = {} /\ k = {2} /\ i = 2
                                          /\ o = "x509" /\ H = {"hStore"} /\ S = StoreNames /\ F = M \cup LeftContexts
                                          /\ g = "leafPrivateKey"
  OBVIOUS
<1>4. /\ a["x509"] = V(L, {}, {}) /\ L \subseteq {"leafPrivateKey"} /\ M \subseteq StoreNames /\ "hStore" \in M
      /\ M = H \cup {g} /\ o \in Owners /\ o # "hkdf" /\ Ordinary(o, g) /\ leafPrivateKey = <<o, g>>
  BY <1>3, OwnerNames DEF StoreNames, Ordinary, leafPrivateKey
<1>5. PICK a1 : StoreHeld(c, a, n, M, a1)
  <2>1. M = L \cup {"hStore"}
    BY <1>3
  <2> QED
    BY <1>1, <1>2, <1>4, <2>1, WincryptX509Held
<1>5a. /\ Sound(c, a1) /\ a1["x509"] = V(M, {"hStore"}, StoreNames) /\ a1["roots"] = Count(n)
       /\ Except2(a, a1, "x509", "roots")
       /\ \A scope, b : (/\ Runs(c, scope, a1, b) /\ Sound(c, b)
                         /\ b["x509"] = V(M \cup LeftContexts, M, StoreNames)) =>
            \E d : /\ Runs(c, WincryptX509(n, scope), a, d) /\ Sound(c, d)
                   /\ d["x509"].live = LeftContexts /\ Except(b, d, "x509")
  BY <1>5 DEF StoreHeld
<1>6. PICK a2 : /\ Runs(c, LoadIntermediateCertificate(i), a1, a2) /\ Sound(c, a2)
                /\ a2["intermediate"] = V(k, e, e) /\ Except(a1, a2, "intermediate")
  <2>1. OneMore(c, i, e, e, e, k, e)
    BY <1>3 DEF OneMore
  <2>2. a1["intermediate"] = V(e, e, e)
    BY <1>3, <1>5a, PlaceNames, OwnerNames DEF Except2
  <2> QED
    BY <1>2, <1>5a, <2>1, <2>2, IntermediateHeld
<1>7. a2["x509"] = V(M, {"hStore"}, StoreNames)
  BY <1>5a, <1>6, PlaceNames, OwnerNames DEF Except
<1>8. PICK a3 : /\ Runs(c, LoadLeafCertificate, a2, a3) /\ Sound(c, a3)
                /\ a3["x509"] = V(M \cup LeftContexts, {"hStore"}, StoreNames) /\ Except(a2, a3, "x509")
  BY <1>2, <1>4, <1>6, <1>7, WincryptLeafHeld
<1>9. SafeOwner(c, o, V(F, M, S))
  <2>1. Never(c, o) = LeftContexts
    BY <1>2, <1>3, ChainNever
  <2>2. F \ (S \cap M) \subseteq Never(c, o) \cup OnError(c, o) /\ S \cap M \subseteq F
    BY <1>3, <1>4, <2>1
  <2> QED
    BY <2>2, SafeIs
<1>10. PICK x : x = Own(<<o, g>>)
  OBVIOUS
<1>11. PICK a4 : Runs(c, <<x>>, a3, a4) /\ Sound(c, a4) /\ a4[o] = V(F, M, S) /\ Except(a3, a4, o)
  <2>1. a3[o] = V(F, H, S)
    BY <1>3, <1>8
  <2> QED
    BY <1>4, <1>8, <1>9, <1>10, <2>1, OwnerStep
<1>12. PICK a5, m : /\ Runs(c, SignData, a4, a5) /\ Sound(c, a5) /\ a5["VerifySignature"] = V({}, m, {})
                    /\ Except(a4, a5, "VerifySignature")
  <2>1. PICK j : j = {}
    OBVIOUS
  <2>2. a4["VerifySignature"] = V({}, j, {})
    BY <1>3, <1>5a, <1>6, <1>8, <1>11, <2>1, PlaceNames, OwnerNames DEF Except, Except2
  <2> QED
    BY <1>11, <2>2, SignatureHeld
<1>13. PICK a6 : /\ Runs(c, VerifySignature, a5, a6) /\ Sound(c, a6) /\ a6["VerifySignature"].live = {}
                 /\ Except(a5, a6, "VerifySignature")
  BY <1>12, SignatureHeld
<1>14. Runs(c, TestScope, a1, a6)
  <2>1. Runs(c, VerifyCertChain, a4, a4)
    BY <1>11, StillFunctions
  <2>2. Runs(c, SignAndVerify, a4, a6)
    BY <1>12, <1>13, <2>1, Then DEF SignAndVerify
  <2>3. x = SetLeafKey
    BY <1>4, <1>10 DEF SetLeafKey
  <2>4. Runs(c, Cat(Cat(LoadIntermediateCertificate(i), LoadLeafCertificate), <<x>>), a1, a4)
    BY <1>6, <1>8, <1>11, Then
  <2> QED
    BY <1>3, <2>2, <2>3, <2>4, Then DEF TestScope
<1>15. a6["x509"] = V(M \cup LeftContexts, M, StoreNames)
  BY <1>3, <1>11, <1>12, <1>13, PlaceNames, OwnerNames DEF Except
<1>16. PICK d : /\ Runs(c, WincryptX509(n, TestScope), a, d) /\ Sound(c, d)
                /\ d["x509"].live = LeftContexts /\ Except(a6, d, "x509")
  BY <1>5a, <1>13, <1>14, <1>15
<1>17. d["intermediate"].live = 2..c.last
  <2>1. d["intermediate"] = V(k, e, e)
    BY <1>3, <1>6, <1>8, <1>11, <1>12, <1>13, <1>16, PlaceNames, OwnerNames DEF Except
  <2>2. 2..c.last = k
    BY <1>3
  <2> QED
    BY <2>1, <2>2, VFields
<1>18. d["VerifySignature"].live = {}
  BY <1>13, <1>16, PlaceNames, OwnerNames DEF Except
<1>19. d["roots"] = Count(1)
  BY <1>1, <1>3, <1>5a, <1>6, <1>8, <1>11, <1>12, <1>13, <1>16, PlaceNames, OwnerNames DEF Except
<1>20. Beside(a, d)
  BY <1>3, <1>5a, <1>6, <1>8, <1>11, <1>12, <1>13, <1>16 DEF Except, Except2, Beside
<1> QED
  BY <1>1, <1>16, <1>17, <1>18, <1>19, <1>20

\* ValidateSignature, on Windows
LEMMA ValidateSignatureWindows ==
  ASSUME NEW c, c.view = "holdings", c.name = "generate", OnWindows(c), Windows, c.last = 2
  PROVE  Good(c, ValidateSignature, Free) /\ NoEnds(ValidateSignature)
<1> DEFINE t == WincryptX509(1, TestScope)
           u1 == Cat(Cat(createSignedCert("leafCert"), convertToBcryptKey), t)
           w1 == GeneratedCert("leafCert", u1)
           u2 == Cat(createSignedCert("intermediateCA"), w1)
           w2 == GeneratedCert("intermediateCA", u2)
           u3 == Cat(createRootCACert("rootCA"), w2)
<1>1. ValidateSignature = GeneratedCert("rootCA", u3)
  BY Zenon DEF ValidateSignature, generateCertChain, Wincrypt_generateCertChain, Cat, X509, TestScope, SignAndVerify
<1>2. PICK f, p, q, r : f = Free /\ p = "rootCA" /\ q = "intermediateCA" /\ r = "leafCert"
  OBVIOUS
<1>3. /\ Sound(c, f) /\ (\A o \in Owners : f[o] = Loose({}))
      /\ f["key"] = Kv(0, 0, 0) /\ f["secret"] = Sv(0, 0, 0, 0, 0)
      /\ f["roots"] = Count(0) /\ f["contexts"] = Count(0)
  BY <1>2, FreeIs
<1>4. /\ p \in TestOwners /\ q \in TestOwners /\ r \in TestOwners /\ p # q /\ p # r /\ q # r
      /\ p \in Owners /\ q \in Owners /\ r \in Owners
      /\ \A x \in {p, q, r} : x \notin {"x509", "convertToBcryptKey", "intermediate", "VerifySignature", "roots"}
  BY <1>2, OwnerNames DEF TestOwners
<1>5. PICK a1 : /\ Sound(c, a1) /\ a1[p] = V({}, {}, CertNames) /\ Except(f, a1, p)
                /\ \A scope, b, m : (/\ Runs(c, scope, a1, b) /\ Sound(c, b) /\ b[p] = V(CertNames, m, CertNames)
                                     /\ CertNames \subseteq m) =>
                     \E d : /\ Runs(c, GeneratedCert(p, scope), f, d) /\ Sound(c, d) /\ d[p].live = {}
                            /\ Except(b, d, p)
  BY <1>3, <1>4, GeneratedHeld
<1>6. PICK a2, m1 : /\ Runs(c, createRootCACert(p), a1, a2) /\ Sound(c, a2) /\ a2[p] = V(CertNames, m1, CertNames)
                    /\ Except(a1, a2, p) /\ CertNames \subseteq m1
  BY <1>4, <1>5, CertsHeld
<1>7. a2[q] = Loose({})
  BY <1>3, <1>4, <1>5, <1>6, PlaceNames DEF Except
<1>8. PICK a3 : /\ Sound(c, a3) /\ a3[q] = V({}, {}, CertNames) /\ Except(a2, a3, q)
                /\ \A scope, b, m : (/\ Runs(c, scope, a3, b) /\ Sound(c, b) /\ b[q] = V(CertNames, m, CertNames)
                                     /\ CertNames \subseteq m) =>
                     \E d : /\ Runs(c, GeneratedCert(q, scope), a2, d) /\ Sound(c, d) /\ d[q].live = {}
                            /\ Except(b, d, q)
  BY <1>4, <1>6, <1>7, GeneratedHeld
<1>9. PICK a4, m2 : /\ Runs(c, createSignedCert(q), a3, a4) /\ Sound(c, a4) /\ a4[q] = V(CertNames, m2, CertNames)
                    /\ Except(a3, a4, q) /\ CertNames \subseteq m2
  BY <1>4, <1>8, CertsHeld
<1>10. a4[r] = Loose({})
  BY <1>3, <1>4, <1>5, <1>6, <1>8, <1>9, PlaceNames DEF Except
<1>11. PICK a5 : /\ Sound(c, a5) /\ a5[r] = V({}, {}, CertNames) /\ Except(a4, a5, r)
                 /\ \A scope, b, m : (/\ Runs(c, scope, a5, b) /\ Sound(c, b) /\ b[r] = V(CertNames, m, CertNames)
                                      /\ CertNames \subseteq m) =>
                      \E d : /\ Runs(c, GeneratedCert(r, scope), a4, d) /\ Sound(c, d) /\ d[r].live = {}
                             /\ Except(b, d, r)
  BY <1>4, <1>9, <1>10, GeneratedHeld
<1>12. PICK a6, m3 : /\ Runs(c, createSignedCert(r), a5, a6) /\ Sound(c, a6) /\ a6[r] = V(CertNames, m3, CertNames)
                     /\ Except(a5, a6, r) /\ CertNames \subseteq m3
  BY <1>4, <1>11, CertsHeld
<1>13. \A x \in Places \ {p, q, r} : a6[x] = f[x]
  BY <1>5, <1>6, <1>8, <1>9, <1>11, <1>12 DEF Except
<1>14. PICK a7 : /\ Runs(c, convertToBcryptKey, a6, a7) /\ Sound(c, a7) /\ a7["x509"] = V({"leafPrivateKey"}, {}, {})
                 /\ a7["convertToBcryptKey"].live = {} /\ Except2(a6, a7, "x509", "convertToBcryptKey")
  <2>1. a6["x509"] = Loose({}) /\ a6["convertToBcryptKey"] = Loose({})
    BY <1>2, <1>3, <1>13, PlaceNames, OwnerNames
  <2> QED
    BY <1>12, <2>1, ConvertHeld
<1>15. /\ a7["intermediate"] = V({}, {}, {}) /\ a7["VerifySignature"] = V({}, {}, {}) /\ a7["roots"] = Count(0)
       /\ a7[r] = V(CertNames, m3, CertNames)
  BY <1>2, <1>3, <1>4, <1>12, <1>13, <1>14, PlaceNames, OwnerNames DEF Except2, Loose
<1>16. PICK b1 : /\ Runs(c, t, a7, b1) /\ Sound(c, b1) /\ b1["x509"].live = LeftContexts
                 /\ b1["intermediate"].live = 2..c.last /\ b1["VerifySignature"].live = {} /\ b1["roots"] = Count(1)
                 /\ Beside(a7, b1)
  BY <1>14, <1>15, TestScopeHeld
<1> HIDE DEF t
<1>17. Runs(c, u1, a5, b1)
  BY <1>2, <1>12, <1>14, <1>16, Then
<1> HIDE DEF u1
<1>18. b1[r] = V(CertNames, m3, CertNames)
  BY <1>4, <1>15, <1>16, PlaceNames DEF Beside
<1>19. PICK b2 : Runs(c, w1, a4, b2) /\ Sound(c, b2) /\ b2[r].live = {} /\ Except(b1, b2, r)
  <2>1. PICK d : Runs(c, GeneratedCert(r, u1), a4, d) /\ Sound(c, d) /\ d[r].live = {} /\ Except(b1, d, r)
    BY <1>11, <1>12, <1>16, <1>17, <1>18
  <2> QED
    BY <1>2, <2>1
<1> HIDE DEF w1
<1>20. Runs(c, u2, a3, b2)
  BY <1>2, <1>9, <1>19, Then
<1> HIDE DEF u2
<1>21. b2[q] = V(CertNames, m2, CertNames)
  BY <1>4, <1>9, <1>11, <1>12, <1>14, <1>16, <1>19, PlaceNames DEF Except, Except2, Beside
<1>22. PICK b3 : Runs(c, w2, a2, b3) /\ Sound(c, b3) /\ b3[q].live = {} /\ Except(b2, b3, q)
  <2>1. PICK d : Runs(c, GeneratedCert(q, u2), a2, d) /\ Sound(c, d) /\ d[q].live = {} /\ Except(b2, d, q)
    BY <1>8, <1>9, <1>19, <1>20, <1>21
  <2> QED
    BY <1>2, <2>1
<1> HIDE DEF w2
<1>23. Runs(c, u3, a1, b3)
  BY <1>2, <1>6, <1>22, Then
<1> HIDE DEF u3
<1>24. b3[p] = V(CertNames, m1, CertNames)
  BY <1>4, <1>6, <1>8, <1>9, <1>11, <1>12, <1>14, <1>16, <1>19, <1>22, PlaceNames DEF Except, Except2, Beside
<1>25. PICK d : Runs(c, GeneratedCert(p, u3), f, d) /\ Sound(c, d) /\ d[p].live = {} /\ Except(b3, d, p)
  BY <1>5, <1>6, <1>22, <1>23, <1>24
<1>26. c.name \in ChainCalls
  BY DEF ChainCalls
<1>27. \A x \in Places \ {p, q, r} : d[x] = b1[x]
  BY <1>19, <1>22, <1>25 DEF Except
<1>28. ASSUME NEW o \in Owners PROVE d[o].live = Never(c, o)
  <2>1. CASE o \in {p, q, r}
    <3>1. Never(c, o) = {}
      BY <1>4, <1>26, <2>1, ChainNever
    <3>2. d[p].live = {} /\ d[q].live = {} /\ d[r].live = {}
      BY <1>4, <1>19, <1>22, <1>25, PlaceNames DEF Except
    <3> QED
      BY <2>1, <3>1, <3>2
  <2>2. CASE o \notin {p, q, r}
    <3>1. d[o] = b1[o]
      BY <1>27, <2>2, PlaceNames
    <3>2. CASE o \in {"x509", "intermediate"}
      BY <1>16, <1>26, <3>1, <3>2, ChainNever
    <3>3. CASE o \notin {"x509", "intermediate"}
      <4>1. Never(c, o) = {}
        BY <1>26, <3>3, ChainNever
      <4>2. CASE o = "VerifySignature"
        BY <1>16, <3>1, <4>1, <4>2
      <4>3. CASE o # "VerifySignature"
        <5>1. b1[o] = a7[o]
          BY <1>16, <3>3, <4>3, PlaceNames DEF Beside
        <5>2. CASE o = "convertToBcryptKey"
          BY <1>14, <3>1, <4>1, <5>1, <5>2
        <5>3. CASE o # "convertToBcryptKey"
          <6>1. a7[o] = f[o]
            BY <1>13, <1>14, <2>2, <3>3, <5>3, PlaceNames DEF Except2
          <6>2. f[o].live = {}
            BY <1>3, VFields DEF Loose
          <6> QED
            BY <3>1, <4>1, <5>1, <6>1, <6>2
        <5> QED
          BY <5>2, <5>3
      <4> QED
        BY <4>2, <4>3
    <3> QED
      BY <3>2, <3>3
  <2> QED
    BY <2>1, <2>2
<1>29. d["key"] = Kv(0, 0, 0) /\ d["secret"] = Sv(0, 0, 0, 0, 0) /\ d["contexts"] = Count(0)
  BY <1>2, <1>3, <1>13, <1>14, <1>16, <1>27, PlaceNames DEF Except2, Beside
<1>30. d["roots"] = Count(1)
  BY <1>2, <1>16, <1>27, PlaceNames
<1>31. Good(c, << >>, d)
  BY <1>25, <1>26, <1>28, <1>29, <1>30, ChainSettled
<1> QED
  BY <1>1, <1>2, <1>25, <1>31, RunsToEnd

-----------------------------------------------------------------------------
(* Bags *)

\* How often r is in B
Times(B, r) == IF BagIn(r, B) THEN B[r] ELSE 0

\* C is B with one r more, or with one less of each of R
Adds(B, r, C) == C = B (+) SetToBag({r})
Removes(B, R, C) == C = B (-) SetToBag(R)

\* A bag holds what it holds once or more
LEMMA TimesIs ==
  ASSUME NEW B, IsABag(B), NEW r
  PROVE  Times(B, r) \in Nat /\ (Times(B, r) > 0 <=> r \in BagToSet(B)) /\ (r \in BagToSet(B) => B[r] = Times(B, r))
<1>1. CASE r \in BagToSet(B)
  <2>1. B[r] \in Nat /\ B[r] > 0
    BY <1>1 DEF IsABag, BagToSet
  <2> QED
    BY <1>1, <2>1 DEF Times, BagIn
<1>2. CASE r \notin BagToSet(B)
  BY <1>2 DEF Times, BagIn
<1> QED
  BY <1>1, <1>2

\* One more
LEMMA BagAdd ==
  ASSUME NEW B, IsABag(B), NEW r, NEW C, Adds(B, r, C)
  PROVE  IsABag(C) /\ Times(C, r) = Times(B, r) + 1 /\ \A q : q # r => Times(C, q) = Times(B, q)
<1>1. PICK D : D = DOMAIN B
  OBVIOUS
<1>2. C = [e \in D \cup {r} |-> (IF e \in D THEN B[e] ELSE 0) + (IF e \in {r} THEN 1 ELSE 0)]
  <2>1. DOMAIN SetToBag({r}) = {r} /\ \A e \in {r} : SetToBag({r})[e] = 1
    BY DEF SetToBag
  <2> QED
    BY <1>1, <2>1 DEF Adds, (+)
<1>3. \A e \in D : B[e] \in Nat /\ B[e] > 0
  BY <1>1 DEF IsABag
<1>4. DOMAIN C = D \cup {r} /\ \A e \in D \cup {r} : C[e] = (IF e \in D THEN B[e] ELSE 0) + (IF e \in {r} THEN 1 ELSE 0)
  BY <1>2
<1>5. ASSUME NEW e \in D \cup {r} PROVE C[e] \in {n \in Nat : n > 0}
  <2>1. C[e] = (IF e \in D THEN B[e] ELSE 0) + (IF e = r THEN 1 ELSE 0)
    BY <1>4
  <2>2. CASE e \in D
    BY <1>3, <2>1, <2>2
  <2>3. CASE e \notin D
    BY <2>1, <2>3
  <2> QED
    BY <2>2, <2>3
<1>6. C = [e \in D \cup {r} |-> C[e]]
  BY <1>2
<1>7. IsABag(C)
  BY <1>4, <1>5, <1>6 DEF IsABag
<1>8. Times(C, r) = Times(B, r) + 1
  BY <1>1, <1>3, <1>4 DEF Times, BagIn, BagToSet
<1>9. ASSUME NEW q, q # r PROVE Times(C, q) = Times(B, q)
  <2>1. CASE q \in D
    BY <1>1, <1>3, <1>4, <1>9, <2>1 DEF Times, BagIn, BagToSet
  <2>2. CASE q \notin D
    BY <1>1, <1>4, <1>9, <2>2 DEF Times, BagIn, BagToSet
  <2> QED
    BY <2>1, <2>2
<1> QED
  BY <1>7, <1>8, <1>9

\* One less of each in R
LEMMA BagRemove ==
  ASSUME NEW B, IsABag(B), NEW R, NEW C, Removes(B, R, C)
  PROVE  /\ IsABag(C) /\ \A q : q \notin R => Times(C, q) = Times(B, q)
         /\ \A q \in R : Times(C, q) = IF Times(B, q) = 0 THEN 0 ELSE Times(B, q) - 1
<1>1. PICK D : D = DOMAIN B
  OBVIOUS
<1>2. PICK E : E = [e \in D |-> IF e \in R THEN B[e] - 1 ELSE B[e]]
  OBVIOUS
<1>3. C = [e \in {d \in D : E[d] > 0} |-> E[e]]
  <2>1. DOMAIN SetToBag(R) = R /\ \A e \in R : SetToBag(R)[e] = 1
    BY DEF SetToBag
  <2>2. E = [e \in DOMAIN B |-> IF e \in DOMAIN SetToBag(R) THEN B[e] - SetToBag(R)[e] ELSE B[e]]
    BY <1>1, <1>2, <2>1
  <2>3. DOMAIN E = D
    BY <1>2
  <2>4. C = [e \in {d \in DOMAIN E : E[d] > 0} |-> E[e]]
    BY <2>2, Zenon DEF Removes, (-)
  <2> QED
    BY <2>3, <2>4
<1>4. \A e \in D : B[e] \in Nat /\ B[e] > 0
  BY <1>1 DEF IsABag
<1>5. \A e \in D : E[e] = IF e \in R THEN B[e] - 1 ELSE B[e]
  BY <1>2
<1>6. DOMAIN C = {d \in D : E[d] > 0} /\ \A e \in DOMAIN C : C[e] = E[e]
  BY <1>3
<1>7. IsABag(C)
  <2>1. \A e \in DOMAIN C : C[e] \in {n \in Nat : n > 0}
    BY <1>4, <1>5, <1>6
  <2>2. C = [e \in DOMAIN C |-> C[e]]
    BY <1>3
  <2> QED
    BY <2>1, <2>2 DEF IsABag
<1>8. ASSUME NEW q, q \notin R PROVE Times(C, q) = Times(B, q)
  <2>1. CASE q \in D
    BY <1>1, <1>4, <1>5, <1>6, <1>8, <2>1 DEF Times, BagIn, BagToSet
  <2>2. CASE q \notin D
    BY <1>1, <1>6, <2>2 DEF Times, BagIn, BagToSet
  <2> QED
    BY <2>1, <2>2
<1>9. ASSUME NEW q \in R PROVE Times(C, q) = IF Times(B, q) = 0 THEN 0 ELSE Times(B, q) - 1
  <2>1. CASE q \in D
    <3>1. Times(B, q) = B[q] /\ B[q] \in Nat /\ B[q] > 0 /\ E[q] = B[q] - 1
      BY <1>1, <1>4, <1>5, <2>1 DEF Times, BagIn, BagToSet
    <3>2. CASE B[q] = 1
      BY <1>6, <3>1, <3>2 DEF Times, BagIn, BagToSet
    <3>3. CASE B[q] # 1
      <4>1. q \in DOMAIN C
        BY <1>6, <2>1, <3>1, <3>3
      <4> QED
        BY <1>6, <3>1, <4>1 DEF Times, BagIn, BagToSet
    <3> QED
      BY <3>2, <3>3
  <2>2. CASE q \notin D
    BY <1>1, <1>6, <2>2 DEF Times, BagIn, BagToSet
  <2> QED
    BY <2>1, <2>2
<1> QED
  BY <1>7, <1>8, <1>9

\* Nothing
LEMMA NoBag == IsABag(EmptyBag) /\ \A r : Times(EmptyBag, r) = 0
<1>1. DOMAIN EmptyBag = {} /\ EmptyBag = [e \in {} |-> 1]
  BY DEF EmptyBag, SetToBag
<1> QED
  BY <1>1 DEF IsABag, Times, BagIn, BagToSet

-----------------------------------------------------------------------------
(* Where an exception goes *)

\* The first end of a scope
LEMMA UnwindIs ==
  ASSUME NEW s, IsSeq(s)
  PROVE  /\ NoEnds(s) => Unwind(s) = << >>
         /\ \A m \in DOMAIN s : s[m].op = "end" /\ (\A j \in DOMAIN s : s[j].op = "end" => m <= j) =>
              Unwind(s) = SubSeq(s, m, Len(s))
<1> DEFINE ends == {i \in DOMAIN s : s[i].op = "end"}
<1>1. ASSUME NoEnds(s) PROVE Unwind(s) = << >>
  <2>1. ends = {}
    BY <1>1 DEF NoEnds
  <2> QED
    BY <2>1 DEF Unwind
<1>2. ASSUME NEW m \in DOMAIN s, s[m].op = "end", \A j \in DOMAIN s : s[j].op = "end" => m <= j
      PROVE  Unwind(s) = SubSeq(s, m, Len(s))
  <2>1. m \in ends /\ \A j \in ends : m <= j
    BY <1>2
  <2>2. \A i \in ends : i \in Int
    <3>1. PICK S : s \in Seq(S)
      BY DEF IsSeq
    <3> QED
      BY <3>1
  <2>3. Unwind(s) = SubSeq(s, CHOOSE i \in ends : \A j \in ends : i <= j, Len(s))
    <3>1. ends # {}
      BY <2>1
    <3> QED
      BY <3>1, Zenon DEF Unwind
  <2> HIDE DEF ends
  <2> DEFINE k == CHOOSE i \in ends : \A j \in ends : i <= j
  <2>4. k \in ends /\ \A j \in ends : k <= j
    BY <2>1
  <2> HIDE DEF k
  <2>5. k = m
    BY <2>1, <2>2, <2>4
  <2> QED
    BY <2>3, <2>5 DEF k
<1> QED
  BY <1>1, <1>2

\* An exception at the end of a scope stays there
LEMMA UnwindAtEnd ==
  ASSUME NEW s, IsSeq(s), s = << >> \/ s[1].op = "end" PROVE Unwind(s) = s
<1>1. PICK S : s \in Seq(S)
  BY DEF IsSeq
<1>2. CASE s = << >>
  <2>1. NoEnds(s)
    BY <1>2 DEF NoEnds
  <2> QED
    BY <1>2, <2>1, UnwindIs
<1>3. CASE s # << >>
  <2>1. Len(s) \in Nat \ {0} /\ DOMAIN s = 1..Len(s)
    BY <1>1, <1>3
  <2>2. 1 \in DOMAIN s /\ s[1].op = "end" /\ \A j \in DOMAIN s : s[j].op = "end" => 1 <= j
    BY <1>3, <2>1
  <2>3. Unwind(s) = SubSeq(s, 1, Len(s))
    BY <2>2, UnwindIs
  <2>4. SubSeq(s, 1, Len(s)) = s
    <3> DEFINE u == SubSeq(s, 1, Len(s))
    <3>1. 1 \in Int /\ Len(s) \in Int /\ \A i \in 1..Len(s) : s[i] \in S
      BY <1>1, <2>1
    <3>2. /\ u \in Seq(S)
          /\ Len(u) = IF 1 <= Len(s) THEN Len(s) - 1 + 1 ELSE 0
          /\ \A i \in 1..Len(s) - 1 + 1 : u[i] = s[1 + i - 1]
      BY <3>1, SubSeqProperties
    <3> HIDE DEF u
    <3>3. Len(u) = Len(s)
      BY <2>1, <3>2
    <3>4. ASSUME NEW i \in 1..Len(u) PROVE u[i] = s[i]
      <4>1. i \in 1..Len(s) - 1 + 1 /\ 1 + i - 1 = i
        BY <2>1, <3>3
      <4> QED
        BY <3>2, <4>1
    <3>5. u = s
      BY <1>1, <3>2, <3>3, <3>4, SeqEqual
    <3> QED
      BY <3>5 DEF u
  <2> QED
    BY <2>3, <2>4
<1> QED
  BY <1>2, <1>3

\* An exception skips what has no end in it
LEMMA UnwindBehind ==
  ASSUME NEW u, NEW t, IsSeq(u), IsSeq(t), NoEnds(u) PROVE Unwind(Cat(u, t)) = Unwind(t)
<1>1. PICK S : u \in Seq(S) /\ t \in Seq(S)
  BY CommonSet
<1> DEFINE r == u \o t
<1>2. PICK n, l : n = Len(u) /\ l = Len(t)
  OBVIOUS
<1>3. n \in Nat /\ l \in Nat /\ DOMAIN u = 1..n /\ DOMAIN t = 1..l
  BY <1>1, <1>2
<1>4. /\ r \in Seq(S) /\ Len(r) = n + l
      /\ \A i \in 1..n + l : r[i] = IF i <= n THEN u[i] ELSE t[i - n]
  BY <1>1, <1>2, ConcatProperties
<1>5. r = Cat(u, t)
  BY DEF Cat
<1> HIDE DEF r
<1>6. DOMAIN r = 1..n + l /\ IsSeq(r)
  BY <1>4 DEF IsSeq
<1>7. \A i \in 1..n : r[i].op # "end"
  <2>1. ASSUME NEW i \in 1..n PROVE r[i] = u[i]
    <3>1. i \in 1..n + l /\ i <= n
      BY <1>3
    <3> QED
      BY <1>4, <3>1
  <2> QED
    BY <1>3, <2>1 DEF NoEnds
<1>8. ASSUME NEW j \in 1..l PROVE n + j \in 1..n + l /\ r[n + j] = t[j]
  <2>1. PICK i : i = n + j
    OBVIOUS
  <2>2. i \in 1..n + l /\ ~(i <= n) /\ i - n = j
    BY <1>3, <2>1
  <2>3. r[i] = t[i - n]
    BY <1>4, <2>2
  <2> QED
    BY <2>1, <2>2, <2>3
<1>9. CASE NoEnds(t)
  <2>1. NoEnds(r)
    <3>1. ASSUME NEW i \in 1..n + l PROVE r[i].op # "end"
      <4>1. CASE i <= n
        <5>1. i \in 1..n
          BY <1>3, <4>1
        <5> QED
          BY <1>7, <5>1
      <4>2. CASE ~(i <= n)
        <5>1. i - n \in 1..l /\ r[i] = t[i - n]
          BY <1>3, <1>4, <4>2
        <5> QED
          BY <1>3, <1>9, <5>1 DEF NoEnds
      <4> QED
        BY <4>1, <4>2
    <3> QED
      BY <1>6, <3>1 DEF NoEnds
  <2> QED
    BY <1>5, <1>6, <1>9, <2>1, UnwindIs
<1>10. CASE ~NoEnds(t)
  <2> DEFINE ends == {i \in DOMAIN t : t[i].op = "end"}
  <2>1. PICK m \in ends : \A j \in ends : m <= j
    <3>1. ends \in SUBSET Nat
      BY <1>3
    <3>2. ends # {}
      BY <1>10 DEF NoEnds
    <3> HIDE DEF ends
    <3> QED
      BY <3>1, <3>2, FirstPosition
  <2>2. m \in 1..l /\ t[m].op = "end" /\ \A j \in 1..l : t[j].op = "end" => m <= j
    BY <1>3, <2>1
  <2>3. Unwind(t) = SubSeq(t, m, l)
    BY <1>2, <1>3, <2>2, UnwindIs
  <2>4. PICK k : k = n + m
    OBVIOUS
  <2>5. k \in 1..n + l /\ r[k].op = "end"
    BY <1>8, <2>2, <2>4
  <2>6. ASSUME NEW j \in 1..n + l, r[j].op = "end" PROVE k <= j
    <3>1. ~(j <= n)
      <4>1. j <= n => j \in 1..n
        BY <1>3
      <4> QED
        BY <1>7, <2>6, <4>1
    <3>2. j - n \in 1..l /\ r[j] = t[j - n]
      BY <1>3, <1>4, <3>1
    <3>3. m <= j - n
      BY <2>2, <2>6, <3>2
    <3> QED
      BY <1>3, <2>2, <2>4, <3>3
  <2>7. PICK p : p = n + l
    OBVIOUS
  <2>8. Unwind(r) = SubSeq(r, k, p)
    BY <1>4, <1>6, <2>5, <2>6, <2>7, UnwindIs
  <2>9. SubSeq(r, k, p) = SubSeq(t, m, l)
    <3> DEFINE v == SubSeq(r, k, p)
               w == SubSeq(t, m, l)
    <3>1. /\ v \in Seq(S)
          /\ Len(v) = IF k <= p THEN p - k + 1 ELSE 0
          /\ \A i \in 1..p - k + 1 : v[i] = r[k + i - 1]
      <4>1. k \in Int /\ p \in Int /\ \A i \in k..p : r[i] \in S
        BY <1>3, <1>4, <2>5, <2>7
      <4> QED
        BY <4>1, SubSeqProperties
    <3>2. /\ w \in Seq(S)
          /\ Len(w) = IF m <= l THEN l - m + 1 ELSE 0
          /\ \A i \in 1..l - m + 1 : w[i] = t[m + i - 1]
      <4>1. m \in Int /\ l \in Int /\ \A i \in m..l : t[i] \in S
        BY <1>1, <1>2, <1>3, <2>2
      <4> QED
        BY <1>1, <4>1, SubSeqProperties
    <3> HIDE DEF v, w
    <3>3. Len(v) = l - m + 1 /\ Len(w) = l - m + 1
      BY <1>3, <2>2, <2>4, <2>5, <2>7, <3>1, <3>2
    <3>4. ASSUME NEW i \in 1..Len(v) PROVE v[i] = w[i]
      <4>1. /\ i \in 1..p - k + 1 /\ i \in 1..l - m + 1 /\ m + i - 1 \in 1..l
            /\ k + i - 1 = n + (m + i - 1)
        BY <1>3, <2>2, <2>4, <2>7, <3>3
      <4>2. v[i] = r[k + i - 1] /\ w[i] = t[m + i - 1]
        BY <3>1, <3>2, <4>1
      <4>3. r[n + (m + i - 1)] = t[m + i - 1]
        BY <1>8, <4>1
      <4> QED
        BY <4>1, <4>2, <4>3
    <3>5. v = w
      BY <3>1, <3>2, <3>3, <3>4, SeqEqual
    <3> QED
      BY <3>5 DEF v, w
  <2> QED
    BY <1>5, <2>3, <2>8, <2>9
<1> QED
  BY <1>9, <1>10

-----------------------------------------------------------------------------
(* What the objects that have been constructed will release *)

\* Of a: what is open, of each owner, of the key and of the secret
Debtors == Owners \cup {"key", "secret"}
Debts(a) == [p \in Debtors |-> a[p].open]
Clear(w) == (\A o \in Owners : w[o] = {}) /\ w["key"] = 0 /\ w["secret"] = 0
CanClose(w, D) ==
  /\ \A r \in D \ {hAesKey, Shared} : Plain(r)
  /\ \A o \in Owners : Slice(D, o) \subseteq w[o]
  /\ hAesKey \in D => w["key"] = 1
  /\ Shared \in D => w["secret"] >= 1
Closes(w, D) ==
  [p \in Debtors |->
     IF p \in Owners THEN w[p] \ Slice(D, p)
     ELSE IF p = "key" /\ hAesKey \in D THEN w[p] - 1
     ELSE IF p = "secret" /\ Shared \in D THEN w[p] - 1 ELSE w[p]]

\* The ends of scopes that an exception meets in s close everything that is
\* open in w, each once
Owing(R, s, w) ==
  /\ IsSeq(s)
  /\ s = << >> => Clear(w)
  /\ s # << >> => /\ s[1].op = "end" /\ CanClose(w, s[1].destructor)
                  /\ <<Unwind(Tail(s)), Closes(w, s[1].destructor)>> \in R
Settles(R) == \A s, w : <<s, w>> \in R => Owing(R, s, w)
Owed(s, w) == \E R : Settles(R) /\ <<Unwind(s), w>> \in R

\* A sequence is its first element and its tail
LEMMA HeadAndTail ==
  ASSUME NEW s, IsSeq(s), s # << >>
  PROVE  s = Cat(<<s[1]>>, Tail(s)) /\ IsSeq(Tail(s)) /\ Head(s) = s[1]
<1>1. PICK S : s \in Seq(S)
  BY DEF IsSeq
<1>2. /\ Len(s) \in Nat \ {0} /\ Tail(s) \in Seq(S) /\ Len(Tail(s)) = Len(s) - 1 /\ Head(s) = s[1]
      /\ \A i \in 1..(Len(s) - 1) : Tail(s)[i] = s[i + 1]
  BY <1>1
<1>3. PICK x : x = s[1]
  OBVIOUS
<1>4. PICK y : y = <<x>>
  OBVIOUS
<1>5. Len(y) = 1 /\ y[1] = x /\ IsSeq(y)
  BY <1>4, Single
<1>6. PICK t : t = Tail(s)
  OBVIOUS
<1>7. ASSUME NEW i \in 1..Len(t) PROVE s[Len(y) + i] = t[i]
  <2>1. i \in 1..(Len(s) - 1) /\ Len(y) + i = i + 1
    BY <1>2, <1>5, <1>6
  <2> QED
    BY <1>2, <1>6, <2>1
<1>8. ASSUME NEW i \in 1..Len(y) PROVE s[i] = y[i]
  <2>1. i = 1
    BY <1>5
  <2> QED
    BY <1>3, <1>5, <2>1
<1>9. IsSeq(t) /\ Len(s) = Len(y) + Len(t)
  BY <1>2, <1>5, <1>6 DEF IsSeq
<1>10. Cat(y, t) = s
  BY <1>5, <1>7, <1>8, <1>9, CatIs
<1> QED
  BY <1>2, <1>3, <1>4, <1>6, <1>9, <1>10

\* At the end of a scope
LEMMA OwedParts ==
  ASSUME NEW s, NEW w, Owed(s, w), IsSeq(s), s = << >> \/ s[1].op = "end"
  PROVE  /\ s = << >> => Clear(w)
         /\ s # << >> => CanClose(w, s[1].destructor) /\ Owed(Tail(s), Closes(w, s[1].destructor))
<1>1. PICK R : Settles(R) /\ <<Unwind(s), w>> \in R
  BY DEF Owed
<1>2. Unwind(s) = s
  BY UnwindAtEnd
<1>3. Owing(R, s, w)
  BY <1>1, <1>2 DEF Settles
<1> QED
  BY <1>1, <1>3 DEF Owing, Owed

\* What has no end in it owes nothing
LEMMA OwedBehind ==
  ASSUME NEW u, NEW t, NEW w, IsSeq(u), IsSeq(t), NoEnds(u) PROVE Owed(Cat(u, t), w) <=> Owed(t, w)
<1>1. Unwind(Cat(u, t)) = Unwind(t)
  BY UnwindBehind
<1> QED
  BY <1>1 DEF Owed

\* Nor is anything owed by going where the exception goes
LEMMA OwedUnwind == ASSUME NEW s, NEW w, IsSeq(s), Owed(s, w) PROVE Owed(Unwind(s), w)
<1>1. PICK u : u = Unwind(s)
  OBVIOUS
<1>2. IsSeq(u) /\ (u = << >> \/ u[1].op = "end")
  BY <1>1, UnwindToEnd
<1>3. Unwind(u) = u
  BY <1>2, UnwindAtEnd
<1> QED
  BY <1>1, <1>3 DEF Owed

\* One end more
LEMMA OwedEnd ==
  ASSUME NEW x, NEW t, NEW w, IsSeq(t), x.op = "end", CanClose(w, x.destructor),
         Owed(t, Closes(w, x.destructor))
  PROVE  Owed(Cat(<<x>>, t), w)
<1>1. PICK v : v = Closes(w, x.destructor)
  OBVIOUS
<1>2. PICK R : Settles(R) /\ <<Unwind(t), v>> \in R
  BY <1>1 DEF Owed
<1>3. PICK s : s = Cat(<<x>>, t)
  OBVIOUS
<1>4. IsSeq(s) /\ s # << >> /\ s[1] = x /\ Tail(s) = t
  BY <1>3, CatOne
<1>5. Unwind(s) = s
  BY <1>4, UnwindAtEnd
<1>6. PICK Q : Q = R \cup {<<s, w>>}
  OBVIOUS
<1>7. ASSUME NEW p, NEW q, <<p, q>> \in Q PROVE Owing(Q, p, q)
  <2>1. CASE <<p, q>> \in R
    <3>1. Owing(R, p, q)
      BY <1>2, <2>1 DEF Settles
    <3> QED
      BY <1>6, <3>1 DEF Owing
  <2>2. CASE <<p, q>> \notin R
    <3>1. p = s /\ q = w
      BY <1>6, <1>7, <2>2
    <3>2. <<Unwind(Tail(s)), Closes(w, s[1].destructor)>> \in Q
      BY <1>1, <1>2, <1>4, <1>6
    <3> QED
      BY <1>4, <3>1, <3>2 DEF Owing
  <2> QED
    BY <2>1, <2>2
<1>8. Settles(Q) /\ <<Unwind(s), w>> \in Q
  BY <1>5, <1>6, <1>7 DEF Settles
<1> QED
  BY <1>3, <1>8 DEF Owed

\* Nothing is owed with nothing open
LEMMA OwedNothing == ASSUME NEW s, NEW w, IsSeq(s), NoEnds(s), Clear(w) PROVE Owed(s, w)
<1>1. Unwind(s) = << >> /\ IsSeq(<< >>)
  BY UnwindIs, Single
<1>2. PICK R : R = {<<<< >>, w>>}
  OBVIOUS
<1>3. ASSUME NEW p, NEW q, <<p, q>> \in R PROVE Owing(R, p, q)
  <2>1. p = << >> /\ q = w
    BY <1>2, <1>3
  <2> QED
    BY <1>1, <2>1 DEF Owing
<1>4. Settles(R) /\ <<<< >>, w>> \in R
  BY <1>2, <1>3 DEF Settles
<1> QED
  BY <1>1, <1>4 DEF Owed

\* A destructor closes what its constructor has opened
LEMMA DebtsOpened ==
  ASSUME NEW a, Holdings(a), NEW D, Openable(D, a), NEW b, b = Opened(a, D)
  PROVE  CanClose(Debts(b), D) /\ Closes(Debts(b), D) = Debts(a)
<1>1. /\ \A o \in Owners : b[o].open = a[o].open \cup Slice(D, o)
      /\ hAesKey \in D => b["key"].open = a["key"].open + 1
      /\ hAesKey \notin D => b["key"].open = a["key"].open
      /\ Shared \in D => b["secret"].open = a["secret"].open + 1
      /\ Shared \notin D => b["secret"].open = a["secret"].open
  <2>1. /\ \A o \in Owners : b[o] = V(a[o].live, a[o].members, a[o].open \cup Slice(D, o))
        /\ hAesKey \in D => b["key"] = Kv(a["key"].n, a["key"].member, a["key"].open + 1)
        /\ hAesKey \notin D => b["key"] = a["key"]
        /\ Shared \in D /\ hAlg \in D =>
             b["secret"] = Sv(a["secret"].n, a["secret"].member, a["secret"].open + 1, 1, a["secret"].twice)
        /\ Shared \in D /\ hAlg \notin D =>
             b["secret"] = Sv(a["secret"].n, a["secret"].member, a["secret"].open + 1, a["secret"].hkdf,
                              a["secret"].twice)
        /\ Shared \notin D => b["secret"] = a["secret"]
    BY OpenedFacts
  <2>2. ASSUME NEW o \in Owners PROVE b[o].open = a[o].open \cup Slice(D, o)
    <3>1. PICK l, m, p : l = a[o].live /\ m = a[o].members /\ p = a[o].open \cup Slice(D, o)
      OBVIOUS
    <3>2. b[o] = V(l, m, p)
      BY <2>1, <3>1
    <3> QED
      BY <3>1, <3>2, VFields
  <2>3. hAesKey \in D => b["key"].open = a["key"].open + 1
    BY <2>1 DEF Kv
  <2>4. Shared \in D => b["secret"].open = a["secret"].open + 1
    BY <2>1 DEF Sv
  <2> QED
    BY <2>1, <2>2, <2>3, <2>4
<1>2. a["key"].open \in Nat /\ a["secret"].open \in Nat
  BY DEF Holdings, Kv, Sv
<1>3. \A o \in Owners : Slice(D, o) \cap a[o].open = {}
  BY DEF Openable
<1>4. hAesKey \in D => a["key"].open = 0
  BY DEF Openable
<1>5. PICK w : w = Debts(b)
  OBVIOUS
<1>6. /\ \A o \in Owners : w[o] = b[o].open
      /\ w["key"] = b["key"].open /\ w["secret"] = b["secret"].open
  BY <1>5 DEF Debts, Debtors
<1>7. CanClose(w, D)
  BY <1>1, <1>2, <1>4, <1>6 DEF CanClose, Openable
<1>8. ASSUME NEW p \in Debtors PROVE Closes(w, D)[p] = a[p].open
  <2>1. CASE p \in Owners
    <3>1. Closes(w, D)[p] = w[p] \ Slice(D, p)
      BY <2>1 DEF Closes, Debtors
    <3> QED
      BY <1>1, <1>3, <1>6, <2>1, <3>1
  <2>2. CASE p = "key"
    <3>0. p \in Debtors /\ p \notin Owners /\ p # "secret" /\ p = "key"
      BY <2>2, PlaceNames
    <3>1. Closes(w, D)[p] = IF hAesKey \in D THEN w[p] - 1 ELSE w[p]
      BY <3>0 DEF Closes
    <3> QED
      BY <1>1, <1>2, <1>6, <2>2, <3>1
  <2>3. CASE p = "secret"
    <3>0. p \in Debtors /\ p \notin Owners /\ p # "key" /\ p = "secret"
      BY <2>3, PlaceNames
    <3>1. Closes(w, D)[p] = IF Shared \in D THEN w[p] - 1 ELSE w[p]
      BY <3>0 DEF Closes
    <3> QED
      BY <1>1, <1>2, <1>6, <2>3, <3>1
  <2> QED
    BY <2>1, <2>2, <2>3 DEF Debtors
<1>9. Closes(w, D) = Debts(a)
  <2>1. Closes(w, D) = [p \in Debtors |-> Closes(w, D)[p]]
    BY DEF Closes
  <2> QED
    BY <1>8, <2>1 DEF Debts
<1> QED
  BY <1>5, <1>7, <1>9

\* What is open once a destructor has run
LEMMA DebtsDestroyed ==
  ASSUME NEW a, NEW D, NEW b, b = Destroyed(a, D)
  PROVE  Debts(b) = Closes(Debts(a), D) /\ (CanClose(Debts(a), D) => Pending(D, a))
<1>1. PICK w : w = Debts(a)
  OBVIOUS
<1>2. \A p \in Debtors : w[p] = a[p].open
  BY <1>1 DEF Debts
<1>3. ASSUME NEW p \in Debtors PROVE b[p].open = Closes(w, D)[p]
  <2>1. CASE p \in Owners
    <3>1. Closes(w, D)[p] = w[p] \ Slice(D, p)
      BY <2>1 DEF Closes, Debtors
    <3>2. b[p] = V(a[p].live \ (Slice(D, p) \cap a[p].members), a[p].members, a[p].open \ Slice(D, p))
      BY <2>1, PlaceNames DEF Destroyed
    <3>3. b[p].open = a[p].open \ Slice(D, p)
      BY <3>2, VFields
    <3> QED
      BY <1>2, <3>1, <3>3
  <2>2. CASE p = "key"
    <3>0. p \in Debtors /\ p \notin Owners /\ p # "secret" /\ p = "key"
      BY <2>2, PlaceNames
    <3>1. Closes(w, D)[p] = IF hAesKey \in D THEN w[p] - 1 ELSE w[p]
      BY <3>0 DEF Closes
    <3>2. b[p] = IF hAesKey \in D THEN Kv(a[p].n - a[p].member, a[p].member, a[p].open - 1) ELSE a[p]
      BY <2>2, PlaceNames DEF Destroyed
    <3>3. b[p].open = IF hAesKey \in D THEN a[p].open - 1 ELSE a[p].open
      BY <3>2 DEF Kv
    <3> QED
      BY <1>2, <3>1, <3>3
  <2>3. CASE p = "secret"
    <3>0. p \in Debtors /\ p \notin Owners /\ p # "key" /\ p = "secret"
      BY <2>3, PlaceNames
    <3>1. Closes(w, D)[p] = IF Shared \in D THEN w[p] - 1 ELSE w[p]
      BY <3>0 DEF Closes
    <3>2. Shared \in D => \E n, t : b[p] = Sv(n, a[p].member, a[p].open - 1, a[p].hkdf, t)
      BY <2>3, PlaceNames DEF Destroyed
    <3>3. Shared \notin D => b[p] = a[p]
      BY <2>3, PlaceNames DEF Destroyed
    <3>4. b[p].open = IF Shared \in D THEN a[p].open - 1 ELSE a[p].open
      <4>1. CASE Shared \in D
        <5>1. PICK n, t : b[p] = Sv(n, a[p].member, a[p].open - 1, a[p].hkdf, t)
          BY <3>2, <4>1
        <5> QED
          BY <4>1, <5>1 DEF Sv
      <4>2. CASE Shared \notin D
        BY <3>3, <4>2
      <4> QED
        BY <4>1, <4>2
    <3> QED
      BY <1>2, <3>1, <3>4
  <2> QED
    BY <2>1, <2>2, <2>3 DEF Debtors
<1>4. Debts(b) = Closes(w, D)
  <2>1. Closes(w, D) = [p \in Debtors |-> Closes(w, D)[p]]
    BY DEF Closes
  <2> QED
    BY <1>3, <2>1 DEF Debts
<1>5. CanClose(w, D) => Pending(D, a)
  BY <1>2 DEF CanClose, Pending, Debtors
<1> QED
  BY <1>1, <1>4, <1>5

-----------------------------------------------------------------------------
(* The state holds what is tracked *)

Amount(a, r) ==
  IF r = hAesKey THEN a["key"].n ELSE IF r = Shared THEN a["secret"].n
  ELSE IF r = rootContext THEN a["roots"].n ELSE IF r = mdCtx THEN a["contexts"].n
  ELSE IF Plain(r) /\ r[2] \in a[r[1]].live THEN 1 ELSE 0
Member(a, r) ==
  \/ r = hAesKey /\ a["key"].member = 1
  \/ r = Shared /\ a["secret"].member = 1
  \/ Plain(r) /\ r[2] \in a[r[1]].members
Twice(a) == IF a["secret"].twice = 1 THEN {Shared} ELSE {}

\* The bag B, the members M and what was released twice, T, are as a says
HeldIs(B, M, T, a) ==
  /\ IsABag(B) /\ \A r : Times(B, r) = Amount(a, r)
  /\ \A r : r \in M <=> Member(a, r)
  /\ T = Twice(a)

\* By kind of resource
LEMMA AmountIs ==
  ASSUME NEW a
  PROVE  /\ Amount(a, hAesKey) = a["key"].n /\ Amount(a, Shared) = a["secret"].n
         /\ Amount(a, rootContext) = a["roots"].n /\ Amount(a, mdCtx) = a["contexts"].n
         /\ \A r : r \notin Specials => Amount(a, r) = IF Plain(r) /\ r[2] \in a[r[1]].live THEN 1 ELSE 0
<1>1. Specials = {hAesKey, Shared, rootContext, mdCtx}
  BY DEF Specials
<1>2. Amount(a, hAesKey) = a["key"].n
  BY DEF Amount
<1>3. Amount(a, Shared) = a["secret"].n
  BY FourSpecials DEF Amount
<1>4. Amount(a, rootContext) = a["roots"].n
  BY FourSpecials DEF Amount
<1>5. Amount(a, mdCtx) = a["contexts"].n
  BY FourSpecials DEF Amount
<1>6. ASSUME NEW r, r \notin Specials PROVE Amount(a, r) = IF Plain(r) /\ r[2] \in a[r[1]].live THEN 1 ELSE 0
  <2>1. r # hAesKey /\ r # Shared /\ r # rootContext /\ r # mdCtx
    BY <1>1, <1>6
  <2> QED
    BY <2>1, Zenon DEF Amount
<1> QED
  BY <1>2, <1>3, <1>4, <1>5, <1>6

\* The same of the members
LEMMA MemberIs ==
  ASSUME NEW a
  PROVE  /\ Member(a, hAesKey) <=> a["key"].member = 1
         /\ Member(a, Shared) <=> a["secret"].member = 1
         /\ ~Member(a, rootContext) /\ ~Member(a, mdCtx)
         /\ \A r : r \notin Specials => (Member(a, r) <=> Plain(r) /\ r[2] \in a[r[1]].members)
<1>1. hAesKey \in Specials /\ Shared \in Specials /\ rootContext \in Specials /\ mdCtx \in Specials
  BY DEF Specials
<1>2. \A r \in Specials : ~Plain(r)
  BY DEF Plain
<1> QED
  BY <1>1, <1>2, FourSpecials DEF Member

\* A plain resource is a pair of an owner and a name
LEMMA PlainIs ==
  ASSUME NEW r, Plain(r) PROVE r[1] \in Owners /\ r = <<r[1], r[2]>> /\ r \notin Specials
<1>1. PICK o \in Owners : r = <<o, r[2]>>
  BY DEF Plain
<1>2. PICK n : n = r[2]
  OBVIOUS
<1>3. r = <<o, n>>
  BY <1>1, <1>2
<1>4. r[1] = o
  BY <1>3
<1> QED
  BY <1>1, <1>4 DEF Plain

\* One place changes: what is not in it stays
LEMMA HeldElsewhere ==
  ASSUME NEW a, NEW p \in Places, NEW b, \A q \in Places : q # p => b[q] = a[q], NEW r,
         ~(r = hAesKey /\ p = "key"), ~(r = Shared /\ p = "secret"),
         ~(r = rootContext /\ p = "roots"), ~(r = mdCtx /\ p = "contexts"),
         ~(Plain(r) /\ r[1] = p)
  PROVE  Amount(b, r) = Amount(a, r) /\ (Member(b, r) <=> Member(a, r))
<1>1. CASE r = hAesKey
  <2>1. b["key"] = a["key"]
    BY <1>1, PlaceNames
  <2> QED
    BY <1>1, <2>1, AmountIs, MemberIs
<1>2. CASE r = Shared
  <2>1. b["secret"] = a["secret"]
    BY <1>2, PlaceNames
  <2> QED
    BY <1>2, <2>1, AmountIs, MemberIs
<1>3. CASE r = rootContext
  <2>1. b["roots"] = a["roots"]
    BY <1>3, PlaceNames
  <2> QED
    BY <1>3, <2>1, AmountIs, MemberIs
<1>4. CASE r = mdCtx
  <2>1. b["contexts"] = a["contexts"]
    BY <1>4, PlaceNames
  <2> QED
    BY <1>4, <2>1, AmountIs, MemberIs
<1>5. CASE r \notin Specials
  <2>1. CASE Plain(r)
    <3>1. b[r[1]] = a[r[1]]
      BY <2>1, PlainIs, PlaceNames
    <3> QED
      BY <1>5, <3>1, AmountIs, MemberIs
  <2>2. CASE ~Plain(r)
    BY <1>5, <2>2, AmountIs, MemberIs
  <2> QED
    BY <2>1, <2>2
<1> QED
  BY <1>1, <1>2, <1>3, <1>4, <1>5 DEF Specials

\* Within an owner, one name changes
LEMMA HeldOfOwner ==
  ASSUME NEW a, Holdings(a), NEW w, Plain(w), NEW l, NEW m, NEW p,
         NEW b, b = Put(a, w[1], V(l, m, p)),
         \A n : n # w[2] => /\ n \in l <=> n \in a[w[1]].live
                            /\ n \in m <=> n \in a[w[1]].members
  PROVE  /\ Amount(b, w) = (IF w[2] \in l THEN 1 ELSE 0) /\ (Member(b, w) <=> w[2] \in m)
         /\ \A r : r # w => Amount(b, r) = Amount(a, r) /\ (Member(b, r) <=> Member(a, r))
         /\ Twice(b) = Twice(a)
<1>1. PICK o : o = w[1]
  OBVIOUS
<1>2. o \in Owners /\ w = <<o, w[2]>> /\ w \notin Specials
  BY <1>1, PlainIs
<1>3. o \in Places /\ o \notin {"key", "secret", "roots", "contexts"}
  BY <1>2, PlaceNames
<1>4. b[o] = V(l, m, p) /\ (\A q \in Places : q # o => b[q] = a[q])
  BY <1>1, <1>2, PutOwner
<1>5. b[o].live = l /\ b[o].members = m
  BY <1>4, VFields
<1>6. Amount(b, w) = (IF w[2] \in l THEN 1 ELSE 0) /\ (Member(b, w) <=> w[2] \in m)
  BY <1>1, <1>2, <1>5, AmountIs, MemberIs
<1>7. ASSUME NEW r, r # w PROVE Amount(b, r) = Amount(a, r) /\ (Member(b, r) <=> Member(a, r))
  <2>1. CASE Plain(r) /\ r[1] = o
    <3>1. r = <<o, r[2]>> /\ r \notin Specials
      BY <2>1, PlainIs
    <3>2. r[2] # w[2]
      BY <1>2, <1>7, <3>1
    <3>3. /\ r[2] \in b[o].live <=> r[2] \in a[o].live
          /\ r[2] \in b[o].members <=> r[2] \in a[o].members
      BY <1>1, <1>5, <3>2
    <3> QED
      BY <2>1, <3>1, <3>3, AmountIs, MemberIs
  <2>2. CASE ~(Plain(r) /\ r[1] = o)
    BY <1>3, <1>4, <2>2, HeldElsewhere
  <2> QED
    BY <2>1, <2>2
<1>8. Twice(b) = Twice(a)
  BY <1>3, <1>4, PlaceNames DEF Twice
<1> QED
  BY <1>6, <1>7, <1>8

\* A new resource
LEMMA HeldTaken ==
  ASSUME NEW a, Holdings(a), NEW x, x.op \in {"new", "allocate", "malloc"}, Fresh(x, a), NEW B, NEW M, NEW T,
         HeldIs(B, M, T, a), NEW C, Adds(B, x.what, C), NEW N,
         N = IF x.op = "new" THEN M \cup {x.what} ELSE M
  PROVE  HeldIs(C, N, T, Taken(x, a)) /\ Debts(Taken(x, a)) = Debts(a) /\ Taken(x, a)["secret"].twice = a["secret"].twice
<1>1. PICK r : r = x.what
  OBVIOUS
<1>2. PICK b : b = Taken(x, a)
  OBVIOUS
<1>3. /\ IsABag(B) /\ (\A q : Times(B, q) = Amount(a, q)) /\ (\A q : q \in M <=> Member(a, q))
      /\ T = Twice(a)
  BY DEF HeldIs
<1>4. IsABag(C) /\ Times(C, r) = Times(B, r) + 1 /\ \A q : q # r => Times(C, q) = Times(B, q)
  <2>1. Adds(B, r, C)
    BY <1>1
  <2> QED
    BY <1>3, <2>1, BagAdd
<1>5. SUFFICES /\ Amount(b, r) = Amount(a, r) + 1 /\ (Member(b, r) <=> r \in N)
               /\ \A q : q # r => Amount(b, q) = Amount(a, q) /\ (Member(b, q) <=> Member(a, q))
               /\ Twice(b) = Twice(a) /\ Debts(b) = Debts(a) /\ b["secret"].twice = a["secret"].twice
  <2>1. ASSUME NEW q PROVE Times(C, q) = Amount(b, q) /\ (q \in N <=> Member(b, q))
    <3>1. CASE q = r
      BY <1>3, <1>4, <1>5, <3>1
    <3>2. CASE q # r
      <4>1. q \in N <=> q \in M
        BY <1>1, <3>2
      <4> QED
        BY <1>3, <1>4, <1>5, <3>2, <4>1
    <3> QED
      BY <3>1, <3>2
  <2> QED
    BY <1>2, <1>3, <1>4, <1>5, <2>1 DEF HeldIs
<1>6. a = [p \in Places |-> a[p]]
  BY DEF Holdings
<1>7. CASE Plain(r)
  <2>1. r \notin Specials /\ r[1] \in Owners
    BY <1>7, PlainIs
  <2>2. r[2] \notin a[r[1]].live
    BY <1>1, <2>1 DEF Fresh, Specials
  <2>3. PICK l, m, k : /\ l = a[r[1]].live \cup {r[2]} /\ k = a[r[1]].open
                       /\ m = IF x.op = "new" THEN a[r[1]].members \cup {r[2]} ELSE a[r[1]].members
    OBVIOUS
  <2>4. b = Put(a, r[1], V(l, m, k))
    BY <1>1, <1>2, <2>1, <2>3 DEF Taken, Specials
  <2>5. \A n : n # r[2] => /\ n \in l <=> n \in a[r[1]].live
                           /\ n \in m <=> n \in a[r[1]].members
    BY <2>3
  <2>6. /\ Amount(b, r) = (IF r[2] \in l THEN 1 ELSE 0) /\ (Member(b, r) <=> r[2] \in m)
        /\ \A q : q # r => Amount(b, q) = Amount(a, q) /\ (Member(b, q) <=> Member(a, q))
        /\ Twice(b) = Twice(a)
    BY <1>7, <2>4, <2>5, HeldOfOwner
  <2>7. Amount(b, r) = Amount(a, r) + 1
    BY <2>1, <2>2, <2>3, <2>6, AmountIs
  <2>8. Member(b, r) <=> r \in N
    <3>1. Member(a, r) <=> r[2] \in a[r[1]].members
      BY <1>7, <2>1, MemberIs
    <3> QED
      BY <1>1, <1>3, <2>3, <2>6, <3>1
  <2>9. /\ b[r[1]].open = a[r[1]].open /\ (\A q \in Places : q # r[1] => b[q] = a[q])
    <3>1. b[r[1]] = V(l, m, k) /\ (\A q \in Places : q # r[1] => b[q] = a[q])
      BY <1>6, <2>1, <2>4, PlaceNames, PutFacts
    <3> QED
      BY <2>3, <3>1, VFields
  <2>10. b["secret"] = a["secret"]
    BY <2>1, <2>9, PlaceNames
  <2>11. \A p \in Debtors : b[p].open = a[p].open
    BY <2>9, PlaceNames DEF Debtors
  <2> QED
    BY <2>6, <2>7, <2>8, <2>10, <2>11 DEF Debts
<1>8. CASE r = hAesKey
  <2>1. x.op = "new" /\ ~Plain(r)
    BY <1>1, <1>8, FourSpecials DEF Fresh, Plain, Specials
  <2>2. PICK v : v = Kv(a["key"].n + 1, 1, a["key"].open)
    OBVIOUS
  <2>3. b = Put(a, "key", v)
    BY <1>1, <1>2, <1>8, <2>2, FourSpecials DEF Taken
  <2>4. b["key"] = v /\ \A q \in Places : q # "key" => b[q] = a[q]
    BY <1>6, <2>3, PlaceNames, PutFacts
  <2>5. b["key"].n = a["key"].n + 1 /\ b["key"].member = 1 /\ b["key"].open = a["key"].open
    BY <2>2, <2>4 DEF Kv
  <2>6. \A q : q # r => Amount(b, q) = Amount(a, q) /\ (Member(b, q) <=> Member(a, q))
    <3>1. ASSUME NEW q, q # r PROVE Amount(b, q) = Amount(a, q) /\ (Member(b, q) <=> Member(a, q))
      <4>1. ~(Plain(q) /\ q[1] = "key")
        BY PlainIs, PlaceNames
      <4> QED
        BY <1>8, <2>4, <3>1, <4>1, PlaceNames, HeldElsewhere
    <3> QED
      BY <3>1
  <2>7. b["secret"] = a["secret"]
    BY <2>4, PlaceNames
  <2>8. \A p \in Debtors : b[p].open = a[p].open
    BY <2>4, <2>5, PlaceNames DEF Debtors
  <2>9. Amount(b, r) = Amount(a, r) + 1 /\ (Member(b, r) <=> r \in N)
    BY <1>1, <1>8, <2>1, <2>5, AmountIs, MemberIs
  <2> QED
    BY <2>6, <2>7, <2>8, <2>9 DEF Debts, Twice
<1>9. CASE r = Shared
  <2>1. x.op = "new" /\ ~Plain(r) /\ a["secret"].n = 0
    BY <1>1, <1>9, FourSpecials DEF Fresh, Plain, Specials
  <2>2. PICK v : v = Sv(1, 1, a["secret"].open, a["secret"].hkdf, a["secret"].twice)
    OBVIOUS
  <2>3. b = Put(a, "secret", v)
    BY <1>1, <1>2, <1>9, <2>2, FourSpecials DEF Taken
  <2>4. b["secret"] = v /\ \A q \in Places : q # "secret" => b[q] = a[q]
    BY <1>6, <2>3, PlaceNames, PutFacts
  <2>5. /\ b["secret"].n = 1 /\ b["secret"].member = 1 /\ b["secret"].open = a["secret"].open
        /\ b["secret"].twice = a["secret"].twice
    BY <2>2, <2>4 DEF Sv
  <2>6. \A q : q # r => Amount(b, q) = Amount(a, q) /\ (Member(b, q) <=> Member(a, q))
    <3>1. ASSUME NEW q, q # r PROVE Amount(b, q) = Amount(a, q) /\ (Member(b, q) <=> Member(a, q))
      <4>1. ~(Plain(q) /\ q[1] = "secret")
        BY PlainIs, PlaceNames
      <4> QED
        BY <1>9, <2>4, <3>1, <4>1, PlaceNames, HeldElsewhere
    <3> QED
      BY <3>1
  <2>7. \A p \in Debtors : b[p].open = a[p].open
    BY <2>4, <2>5, PlaceNames DEF Debtors
  <2>8. Amount(b, r) = Amount(a, r) + 1 /\ (Member(b, r) <=> r \in N)
    BY <1>1, <1>9, <2>1, <2>5, AmountIs, MemberIs
  <2> QED
    BY <2>5, <2>6, <2>7, <2>8 DEF Debts, Twice
<1>10. ASSUME NEW p, (p = "roots" /\ r = rootContext) \/ (p = "contexts" /\ r = mdCtx),
              x.op = "allocate", NEW v, v = Count(a[p].n + 1), b = Put(a, p, v)
       PROVE  /\ Amount(b, r) = Amount(a, r) + 1 /\ (Member(b, r) <=> r \in N)
              /\ \A q : q # r => Amount(b, q) = Amount(a, q) /\ (Member(b, q) <=> Member(a, q))
              /\ Twice(b) = Twice(a) /\ Debts(b) = Debts(a) /\ b["secret"].twice = a["secret"].twice
  <2>1. p \in Places /\ p \notin Owners
    BY <1>10, PlaceNames
  <2>2. b[p] = v /\ \A q \in Places : q # p => b[q] = a[q]
    BY <1>6, <1>10, <2>1, PutFacts
  <2>3. b[p].n = a[p].n + 1
    BY <1>10, <2>2 DEF Count
  <2>4. \A q : q # r => Amount(b, q) = Amount(a, q) /\ (Member(b, q) <=> Member(a, q))
    <3>1. ASSUME NEW q, q # r PROVE Amount(b, q) = Amount(a, q) /\ (Member(b, q) <=> Member(a, q))
      <4>1. ~(Plain(q) /\ q[1] = p)
        BY <2>1, PlainIs
      <4>2. ~(q = rootContext /\ p = "roots") /\ ~(q = mdCtx /\ p = "contexts") /\ p # "key" /\ p # "secret"
        BY <1>10, <3>1
      <4> QED
        BY <2>1, <2>2, <4>1, <4>2, HeldElsewhere
    <3> QED
      BY <3>1
  <2>5. b["secret"] = a["secret"]
    BY <1>10, <2>2, PlaceNames
  <2>6. \A q \in Debtors : b[q].open = a[q].open
    BY <1>10, <2>1, <2>2, PlaceNames DEF Debtors
  <2>7. Amount(b, r) = Amount(a, r) + 1
    BY <1>10, <2>3, AmountIs
  <2>8. Member(b, r) <=> r \in N
    <3>1. ~Member(b, r) /\ ~Member(a, r)
      BY <1>10, MemberIs
    <3> QED
      BY <1>3, <1>10, <3>1
  <2> QED
    BY <2>4, <2>5, <2>6, <2>7, <2>8 DEF Debts, Twice
<1>11. CASE r = rootContext
  <2>1. x.op = "allocate"
    BY <1>1, <1>11, FourSpecials DEF Fresh, Plain, Specials
  <2>2. PICK p, v : p = "roots" /\ v = Count(a[p].n + 1)
    OBVIOUS
  <2>3. b = Put(a, p, v)
    BY <1>1, <1>2, <1>11, <2>2, FourSpecials DEF Taken
  <2>4. (p = "roots" /\ r = rootContext) \/ (p = "contexts" /\ r = mdCtx)
    BY <1>11, <2>2
  <2> QED
    BY <1>10, <2>1, <2>2, <2>3, <2>4
<1>12. CASE r = mdCtx
  <2>1. x.op = "allocate"
    BY <1>1, <1>12, FourSpecials DEF Fresh, Plain, Specials
  <2>2. PICK p, v : p = "contexts" /\ v = Count(a[p].n + 1)
    OBVIOUS
  <2>3. b = Put(a, p, v)
    BY <1>1, <1>2, <1>12, <2>2, FourSpecials DEF Taken
  <2>4. (p = "roots" /\ r = rootContext) \/ (p = "contexts" /\ r = mdCtx)
    BY <1>12, <2>2
  <2> QED
    BY <1>10, <2>1, <2>2, <2>3, <2>4
<1> QED
  BY <1>1, <1>7, <1>8, <1>9, <1>11, <1>12 DEF Fresh

\* A member refers to a resource, or it is released
Handled(a, B, M, r, b, C, N) ==
  \/ b = Join(a, r[1], r[2]) /\ C = B /\ N = M \cup {r}
  \/ b = Lose(a, r[1], r[2]) /\ Removes(B, {r}, C) /\ N = M

\* Neither opens or closes anything
LEMMA HeldOwnRelease ==
  ASSUME NEW a, Holdings(a), NEW r, Plain(r), NEW B, NEW M, NEW T, HeldIs(B, M, T, a),
         NEW b, NEW C, NEW N, Handled(a, B, M, r, b, C, N)
  PROVE  HeldIs(C, N, T, b) /\ Debts(b) = Debts(a) /\ b["secret"].twice = a["secret"].twice
<1>1. r \notin Specials /\ r[1] \in Owners
  BY PlainIs
<1>2. a = [p \in Places |-> a[p]]
  BY DEF Holdings
<1>3. /\ IsABag(B) /\ (\A q : Times(B, q) = Amount(a, q)) /\ (\A q : q \in M <=> Member(a, q))
      /\ T = Twice(a)
  BY DEF HeldIs
<1>4. ASSUME NEW l, NEW m, b = Put(a, r[1], V(l, m, a[r[1]].open))
      PROVE  Debts(b) = Debts(a) /\ b["secret"].twice = a["secret"].twice
  <2>0. PICK k : k = a[r[1]].open
    OBVIOUS
  <2>1. b[r[1]] = V(l, m, k) /\ (\A q \in Places : q # r[1] => b[q] = a[q])
    BY <1>1, <1>2, <1>4, <2>0, PlaceNames, PutFacts
  <2>2. b[r[1]].open = a[r[1]].open
    BY <2>0, <2>1, VFields
  <2>3. b["secret"] = a["secret"]
    BY <1>1, <2>1, PlaceNames
  <2>4. \A p \in Debtors : b[p].open = a[p].open
    BY <2>1, <2>2, PlaceNames DEF Debtors
  <2> QED
    BY <2>3, <2>4 DEF Debts
<1>5. ASSUME b = Put(a, r[1], V(a[r[1]].live, a[r[1]].members \cup {r[2]}, a[r[1]].open))
      PROVE  HeldIs(B, M \cup {r}, T, b) /\ Debts(b) = Debts(a) /\ b["secret"].twice = a["secret"].twice
  <2>1. PICK l, m, k : l = a[r[1]].live /\ m = a[r[1]].members \cup {r[2]} /\ k = a[r[1]].open
    OBVIOUS
  <2>2. b = Put(a, r[1], V(l, m, k))
    BY <1>5, <2>1
  <2>3. \A n : n # r[2] => /\ n \in l <=> n \in a[r[1]].live
                           /\ n \in m <=> n \in a[r[1]].members
    BY <2>1
  <2>4. /\ Amount(b, r) = (IF r[2] \in l THEN 1 ELSE 0) /\ (Member(b, r) <=> r[2] \in m)
        /\ \A q : q # r => Amount(b, q) = Amount(a, q) /\ (Member(b, q) <=> Member(a, q))
        /\ Twice(b) = Twice(a)
    BY <2>2, <2>3, HeldOfOwner
  <2>5. Amount(b, r) = Amount(a, r) /\ Member(b, r)
    BY <1>1, <2>1, <2>4, AmountIs
  <2>6. HeldIs(B, M \cup {r}, T, b)
    BY <1>3, <2>4, <2>5 DEF HeldIs
  <2> QED
    BY <1>4, <2>1, <2>2, <2>6
<1>6. ASSUME b = Put(a, r[1], V(a[r[1]].live \ {r[2]}, a[r[1]].members, a[r[1]].open)),
             Removes(B, {r}, C)
      PROVE  HeldIs(C, M, T, b) /\ Debts(b) = Debts(a) /\ b["secret"].twice = a["secret"].twice
  <2>1. PICK l, m, k : l = a[r[1]].live \ {r[2]} /\ m = a[r[1]].members /\ k = a[r[1]].open
    OBVIOUS
  <2>2. b = Put(a, r[1], V(l, m, k))
    BY <1>6, <2>1
  <2>3. \A n : n # r[2] => /\ n \in l <=> n \in a[r[1]].live
                           /\ n \in m <=> n \in a[r[1]].members
    BY <2>1
  <2>4. /\ Amount(b, r) = (IF r[2] \in l THEN 1 ELSE 0) /\ (Member(b, r) <=> r[2] \in m)
        /\ \A q : q # r => Amount(b, q) = Amount(a, q) /\ (Member(b, q) <=> Member(a, q))
        /\ Twice(b) = Twice(a)
    BY <2>2, <2>3, HeldOfOwner
  <2>5. PICK R : R = {r}
    OBVIOUS
  <2>6. /\ IsABag(C) /\ \A q : q \notin R => Times(C, q) = Times(B, q)
        /\ \A q \in R : Times(C, q) = IF Times(B, q) = 0 THEN 0 ELSE Times(B, q) - 1
    BY <1>3, <1>6, <2>5, BagRemove
  <2>7. Times(C, r) = 0 /\ Amount(b, r) = 0 /\ (Member(b, r) <=> Member(a, r))
    <3>1. Amount(a, r) = 0 \/ Amount(a, r) = 1
      BY <1>1, AmountIs
    <3>2. Member(a, r) <=> r[2] \in a[r[1]].members
      BY <1>1, MemberIs
    <3> QED
      BY <1>3, <2>1, <2>4, <2>5, <2>6, <3>1, <3>2
  <2>8. HeldIs(C, M, T, b)
    <3>1. ASSUME NEW q PROVE Times(C, q) = Amount(b, q) /\ (q \in M <=> Member(b, q))
      BY <1>3, <2>4, <2>5, <2>6, <2>7
    <3> QED
      BY <1>3, <2>4, <2>6, <3>1 DEF HeldIs
  <2> QED
    BY <1>4, <2>1, <2>2, <2>8
<1> QED
  BY <1>5, <1>6 DEF Handled, Join, Lose

\* An object opens what it will release, and holds what it held
LEMMA HeldOpened ==
  ASSUME NEW a, Holdings(a), NEW D, Openable(D, a), NEW b, b = Opened(a, D), NEW B, NEW M, NEW T,
         HeldIs(B, M, T, a)
  PROVE  HeldIs(B, M, T, b) /\ b["secret"].twice = a["secret"].twice
<1>0. \A o \in Owners : b[o] = V(a[o].live, a[o].members, a[o].open \cup Slice(D, o))
  BY OpenedFacts
<1>1. ASSUME NEW o \in Owners PROVE b[o].live = a[o].live /\ b[o].members = a[o].members
  <2>1. b[o] = V(a[o].live, a[o].members, a[o].open \cup Slice(D, o))
    BY <1>0
  <2>2. PICK l, m, p : l = a[o].live /\ m = a[o].members /\ p = a[o].open \cup Slice(D, o)
    OBVIOUS
  <2>3. b[o] = V(l, m, p)
    BY <2>1, <2>2
  <2> QED
    BY <2>2, <2>3, VFields
<1>2. b["key"].n = a["key"].n /\ b["key"].member = a["key"].member
  <2>1. b["key"] = a["key"] \/ b["key"] = Kv(a["key"].n, a["key"].member, a["key"].open + 1)
    BY OpenedFacts
  <2> QED
    BY <2>1 DEF Kv
<1>3. /\ b["secret"].n = a["secret"].n /\ b["secret"].member = a["secret"].member
      /\ b["secret"].twice = a["secret"].twice
  <2>1. CASE Shared \notin D
    BY <2>1, OpenedFacts
  <2>2. CASE Shared \in D /\ hAlg \in D
    <3>1. b["secret"] = Sv(a["secret"].n, a["secret"].member, a["secret"].open + 1, 1, a["secret"].twice)
      BY <2>2, OpenedFacts
    <3> QED
      BY <3>1 DEF Sv
  <2>3. CASE Shared \in D /\ hAlg \notin D
    <3>1. b["secret"] = Sv(a["secret"].n, a["secret"].member, a["secret"].open + 1, a["secret"].hkdf,
                           a["secret"].twice)
      BY <2>3, OpenedFacts
    <3> QED
      BY <3>1 DEF Sv
  <2> QED
    BY <2>1, <2>2, <2>3
<1>4. b["roots"] = a["roots"] /\ b["contexts"] = a["contexts"]
  BY OpenedFacts
<1>5. ASSUME NEW r PROVE Amount(b, r) = Amount(a, r) /\ (Member(b, r) <=> Member(a, r))
  <2>1. CASE r \in Specials
    <3>1. r = hAesKey \/ r = Shared \/ r = rootContext \/ r = mdCtx
      BY <2>1 DEF Specials
    <3> QED
      BY <1>2, <1>3, <1>4, <3>1, AmountIs, MemberIs
  <2>2. CASE r \notin Specials
    <3>1. Plain(r) => b[r[1]].live = a[r[1]].live /\ b[r[1]].members = a[r[1]].members
      BY <1>1, PlainIs
    <3> QED
      BY <2>2, <3>1, AmountIs, MemberIs
  <2> QED
    BY <2>1, <2>2
<1> QED
  BY <1>3, <1>5 DEF HeldIs, Twice

\* What a destructor does to one resource
LEMMA DestroyedAmounts ==
  ASSUME NEW c, NEW a, Holdings(a), NEW D, CanClose(Debts(a), D), Closable(c, D, a),
         NEW b, b = Destroyed(a, D), NEW r
  PROVE  /\ Member(b, r) <=> Member(a, r)
         /\ ~(r \in D /\ Member(a, r)) => Amount(b, r) = Amount(a, r)
         /\ r \in D /\ Member(a, r) => Amount(b, r) = IF Amount(a, r) = 0 THEN 0 ELSE Amount(a, r) - 1
<1>1. CASE r = hAesKey
  <2>1. b["key"] = IF hAesKey \in D THEN Kv(a["key"].n - a["key"].member, a["key"].member, a["key"].open - 1)
                   ELSE a["key"]
    BY PlaceNames DEF Destroyed
  <2>2. PICK n \in 0..2, m \in 0..1, p \in 0..1 : a["key"] = Kv(n, m, p)
    BY DEF Holdings
  <2>3. a["key"].n = n /\ a["key"].member = m /\ (hAesKey \in D => n >= m)
    BY <2>2 DEF Kv, Closable
  <2>4. b["key"].member = m /\ b["key"].n = IF hAesKey \in D THEN n - m ELSE n
    BY <2>1, <2>3 DEF Kv
  <2> QED
    BY <1>1, <2>3, <2>4, AmountIs, MemberIs
<1>2. CASE r = Shared
  <2>1. b["secret"] = IF Shared \in D
                      THEN Sv(IF a["secret"].member = 1 THEN 0 ELSE a["secret"].n, a["secret"].member,
                              a["secret"].open - 1, a["secret"].hkdf,
                              IF a["secret"].member = 1 /\ a["secret"].n = 0 THEN 1 ELSE a["secret"].twice)
                      ELSE a["secret"]
    BY PlaceNames DEF Destroyed
  <2>2. PICK n \in 0..1, m \in 0..1, p \in 0..2, h \in 0..1, t \in 0..1 : a["secret"] = Sv(n, m, p, h, t)
    BY DEF Holdings
  <2>3. a["secret"].n = n /\ a["secret"].member = m
    BY <2>2 DEF Sv
  <2>4. b["secret"].member = m /\ b["secret"].n = IF Shared \in D /\ m = 1 THEN 0 ELSE n
    BY <2>1, <2>3 DEF Sv
  <2> QED
    BY <1>2, <2>3, <2>4, AmountIs, MemberIs
<1>3. CASE r = rootContext \/ r = mdCtx
  <2>1. b["roots"] = a["roots"] /\ b["contexts"] = a["contexts"]
    BY PlaceNames DEF Destroyed
  <2> QED
    BY <1>3, <2>1, AmountIs, MemberIs
<1>4. CASE r \notin Specials /\ ~Plain(r)
  BY <1>4, AmountIs, MemberIs
<1>5. CASE Plain(r)
  <2>1. PICK o, n : o = r[1] /\ n = r[2]
    OBVIOUS
  <2>2. o \in Owners /\ r = <<o, n>> /\ r \notin Specials
    BY <1>5, <2>1, PlainIs
  <2>3. PICK l, m, p : /\ l = a[o].live \ (Slice(D, o) \cap a[o].members) /\ m = a[o].members
                       /\ p = a[o].open \ Slice(D, o)
    OBVIOUS
  <2>4. b[o] = V(l, m, p)
    BY <2>2, <2>3, PlaceNames DEF Destroyed
  <2>5. b[o].live = l /\ b[o].members = m
    BY <2>4, VFields
  <2>6. n \in Slice(D, o) <=> r \in D
    <3>1. ASSUME r \in D PROVE n \in Slice(D, o)
      BY <2>1, <2>2, <3>1 DEF Slice
    <3>2. ASSUME n \in Slice(D, o) PROVE r \in D
      <4>1. PICK q \in D \ Specials : q[1] = o /\ n = q[2]
        BY <3>2 DEF Slice
      <4>2. Plain(q)
        BY <4>1 DEF CanClose, Specials
      <4>3. q = <<o, n>>
        BY <4>1, <4>2, PlainIs
      <4> QED
        BY <2>2, <4>1, <4>3
    <3> QED
      BY <3>1, <3>2
  <2>7. /\ Amount(a, r) = (IF n \in a[o].live THEN 1 ELSE 0) /\ (Member(a, r) <=> n \in a[o].members)
        /\ Amount(b, r) = (IF n \in l THEN 1 ELSE 0) /\ (Member(b, r) <=> n \in m)
    BY <1>5, <2>1, <2>2, <2>5, AmountIs, MemberIs
  <2> QED
    BY <2>3, <2>6, <2>7
<1> QED
  BY <1>1, <1>2, <1>3, <1>4, <1>5 DEF Specials

\* What a destructor of D leaves: C, and Y released twice
Releases(B, M, T, D, C, Y) == Removes(B, D \cap M, C) /\ Y = T \cup {r \in D \cap M : ~BagIn(r, B)}

\* It does to what is held what it does to a
LEMMA HeldDestroyed ==
  ASSUME NEW c, NEW a, Holdings(a), NEW D, CanClose(Debts(a), D), Closable(c, D, a),
         NEW b, b = Destroyed(a, D), NEW B, NEW M, NEW T, HeldIs(B, M, T, a), NEW C, NEW Y,
         Releases(B, M, T, D, C, Y)
  PROVE  /\ HeldIs(C, M, Y, b)
         /\ b["secret"].twice = 1 => a["secret"].twice = 1 \/ OnWindows(c)
<1>1. /\ IsABag(B) /\ (\A q : Times(B, q) = Amount(a, q)) /\ (\A q : q \in M <=> Member(a, q))
      /\ T = Twice(a)
  BY DEF HeldIs
<1>2. PICK R : R = D \cap M
  OBVIOUS
<1>3. /\ IsABag(C) /\ \A q : q \notin R => Times(C, q) = Times(B, q)
      /\ \A q \in R : Times(C, q) = IF Times(B, q) = 0 THEN 0 ELSE Times(B, q) - 1
  <2>1. Removes(B, R, C)
    BY <1>2 DEF Releases
  <2> QED
    BY <1>1, <2>1, BagRemove
<1>4. ASSUME NEW q PROVE Times(C, q) = Amount(b, q) /\ (q \in M <=> Member(b, q))
  <2>1. /\ Member(b, q) <=> Member(a, q)
        /\ ~(q \in D /\ Member(a, q)) => Amount(b, q) = Amount(a, q)
        /\ q \in D /\ Member(a, q) => Amount(b, q) = IF Amount(a, q) = 0 THEN 0 ELSE Amount(a, q) - 1
    BY DestroyedAmounts
  <2>2. q \in R <=> q \in D /\ Member(a, q)
    BY <1>1, <1>2
  <2>3. Times(B, q) = Amount(a, q)
    BY <1>1
  <2> QED
    BY <1>1, <1>3, <2>1, <2>2, <2>3
<1>5. b["secret"] = IF Shared \in D
                    THEN Sv(IF a["secret"].member = 1 THEN 0 ELSE a["secret"].n, a["secret"].member,
                            a["secret"].open - 1, a["secret"].hkdf,
                            IF a["secret"].member = 1 /\ a["secret"].n = 0 THEN 1 ELSE a["secret"].twice)
                    ELSE a["secret"]
  BY PlaceNames DEF Destroyed
<1>6. b["secret"].twice = IF Shared \in D /\ a["secret"].member = 1 /\ a["secret"].n = 0 THEN 1
                          ELSE a["secret"].twice
  BY <1>5 DEF Sv
<1>7. ASSUME NEW q \in R PROVE BagIn(q, B) <=> ~(q = Shared /\ a["secret"].n = 0)
  <2>1. q \in D /\ Member(a, q) /\ Times(B, q) = Amount(a, q)
    BY <1>1, <1>2
  <2>2. Times(B, q) \in Nat /\ (Times(B, q) > 0 <=> BagIn(q, B))
    BY <1>1, TimesIs DEF BagIn
  <2>3. CASE q = hAesKey
    <3>1. a["key"].member = 1 /\ a["key"].n >= a["key"].member
      BY <2>1, <2>3, MemberIs DEF Closable
    <3>2. Amount(a, q) = a["key"].n
      BY <2>3, AmountIs
    <3> QED
      BY <2>1, <2>2, <2>3, <3>1, <3>2, FourSpecials
  <2>4. CASE q = Shared
    <3>1. Amount(a, q) = a["secret"].n
      BY <2>4, AmountIs
    <3> QED
      BY <2>1, <2>2, <2>4, <3>1
  <2>5. CASE Plain(q)
    <3>1. PICK o, n : o = q[1] /\ n = q[2]
      OBVIOUS
    <3>2. o \in Owners /\ q = <<o, n>> /\ q \notin Specials
      BY <2>5, <3>1, PlainIs
    <3>3. n \in a[o].members /\ n \in Slice(D, o)
      BY <2>1, <3>1, <3>2, MemberIs DEF Slice
    <3>4. n \in a[o].live
      BY <3>2, <3>3 DEF Closable
    <3>5. Amount(a, q) = 1
      BY <2>5, <3>1, <3>2, <3>4, AmountIs
    <3>6. q # Shared
      BY <3>2 DEF Specials
    <3> QED
      BY <2>1, <2>2, <3>5, <3>6
  <2> QED
    BY <2>1, <2>3, <2>4, <2>5 DEF Member
<1>8. Y = Twice(b)
  <2>1. Shared \in R <=> Shared \in D /\ a["secret"].member = 1
    BY <1>1, <1>2, MemberIs
  <2>2. Y = T \cup {r \in R : r = Shared /\ a["secret"].n = 0}
    BY <1>2, <1>7 DEF Releases
  <2>3. CASE Shared \in R /\ a["secret"].n = 0
    <3>1. Y = {Shared}
      BY <1>1, <2>2, <2>3 DEF Twice
    <3> QED
      BY <1>6, <2>1, <2>3, <3>1 DEF Twice
  <2>4. CASE ~(Shared \in R /\ a["secret"].n = 0)
    <3>1. Y = T
      BY <2>2, <2>4
    <3> QED
      BY <1>1, <1>6, <2>1, <2>4, <3>1 DEF Twice
  <2> QED
    BY <2>3, <2>4
<1>9. b["secret"].twice = 1 => a["secret"].twice = 1 \/ OnWindows(c)
  BY <1>6 DEF Closable
<1> QED
  BY <1>3, <1>4, <1>8, <1>9 DEF HeldIs

-----------------------------------------------------------------------------
(* What is held, in every state *)

\* a accounts for what is live: as long as nothing was thrown the rest of the
\* code is right for a, and once something was, a is safe
Accounts(a) ==
  /\ Holdings(a) /\ HeldIs(live, members, twice, a)
  /\ a["secret"].twice = 1 => Windows
  /\ call.name # "none" => /\ Owed(code, Debts(a))
                           /\ raised => Safe(Context("holdings"), a)
                           /\ ~raised => Good(Context("holdings"), code, a)

\* The build and the process, the key, the roots and the positions in x5c
Scalars ==
  /\ backend \in {"linux", "windows"} /\ process \in {"running", "terminated"}
  /\ aesKey \in Keys
  /\ call.name = "verify" => x509.roots = TrustedRoots
  /\ call.name \in ChainCalls => 2..Len(call.x5c) \subseteq Positions

ResourceInv == Scalars /\ \E a : Accounts(a)

\* The context stays
LEMMA SameHolder ==
  ASSUME backend' = backend, call'.name = call.name, call.name \in ChainCalls => call'.x5c = call.x5c
  PROVE  Context("holdings")' = Context("holdings")
BY DEF Context

\* What a good sequence holds is well formed
LEMMA GoodHolds == ASSUME NEW c, c.view = "holdings", NEW s, NEW a, Good(c, s, a) PROVE Holdings(a)
<1>1. CASE s = << >>
  BY <1>1, GoodParts DEF Complete, Settled
<1>2. CASE s # << >>
  <2>1. Fits(c, s[1], a)
    BY <1>2, GoodParts
  <2> QED
    BY <2>1 DEF Fits, Keeps
<1> QED
  BY <1>1, <1>2

\* Where an instruction is about to be run
LEMMA HeldReady ==
  ASSUME VerdictInv, NEW op, At(op), op # "end", NEW a, Accounts(a), NEW c, c = Context("holdings")
  PROVE  /\ call.name # "none" /\ raised = FALSE /\ code # << >> /\ Head(code) = code[1]
         /\ code[1].op = op /\ IsSeq(Tail(code)) /\ c.view = "holdings"
         /\ Keeps(c, code[1], a) /\ Owed(Tail(code), Debts(a))
         /\ op = "constructed" => IsSeq(code[1].scope) /\ NoEnds(code[1].scope)
         /\ Good(c, Following(code[1], Tail(code)), Track(code[1], a))
<1>1. /\ call.name # "none" /\ raised = FALSE /\ code # << >> /\ Head(code) = code[1]
      /\ code[1].op = op /\ IsSeq(Tail(code))
  BY Ready
<1>2. c.view = "holdings"
  BY DEF Context
<1>3. Good(c, code, a) /\ Owed(code, Debts(a)) /\ IsSeq(code)
  BY <1>1 DEF Accounts, VerdictInv
<1>4. /\ Fits(c, code[1], a)
      /\ code[1].op = "constructed" => IsSeq(code[1].scope) /\ NoEnds(code[1].scope)
      /\ Good(c, Following(code[1], Tail(code)), Learn(c, code[1], a))
  BY <1>1, <1>3, GoodParts
<1>5. Keeps(c, code[1], a) /\ Good(c, Following(code[1], Tail(code)), Track(code[1], a))
  BY <1>2, <1>4 DEF Fits, Learn
<1>6. Owed(Tail(code), Debts(a))
  <2>1. PICK x, t, w : x = code[1] /\ t = Tail(code) /\ w = Debts(a)
    OBVIOUS
  <2>2. code = Cat(<<x>>, t)
    BY <1>1, <1>3, <2>1, HeadAndTail
  <2>3. PICK u : u = <<x>>
    OBVIOUS
  <2>4. IsSeq(u) /\ NoEnds(u)
    BY <1>1, <2>1, <2>3, Single
  <2>5. Owed(Cat(u, t), w) /\ IsSeq(t)
    BY <1>1, <1>3, <2>1, <2>2, <2>3
  <2> QED
    BY <2>1, <2>4, <2>5, OwedBehind
<1> QED
  BY <1>1, <1>2, <1>4, <1>5, <1>6

\* A step that throws
LEMMA HeldThrow ==
  ASSUME VerdictInv, NEW op \in Throwing, At(op), NEW a, Accounts(a), Throw,
         UNCHANGED <<backend, call, live, members, twice>>
  PROVE  Accounts(a)'
<1>1. PICK c : c = Context("holdings")
  OBVIOUS
<1>2. op # "end"
  BY DEF Throwing
<1>3. /\ call.name # "none" /\ code[1].op = op /\ IsSeq(Tail(code))
      /\ Keeps(c, code[1], a) /\ Owed(Tail(code), Debts(a))
  BY <1>1, <1>2, HeldReady
<1>4. Safe(c, a)
  BY <1>3 DEF Keeps
<1>5. code' = Unwind(Tail(code)) /\ raised' = TRUE
  BY DEF Throw
<1>6. PICK t, w : t = Tail(code) /\ w = Debts(a)
  OBVIOUS
<1>7. Owed(Unwind(t), w)
  BY <1>3, <1>6, OwedUnwind
<1>8. Context("holdings")' = c
  BY <1>1, SameHolder
<1>9. Owed(code', Debts(a))
  BY <1>5, <1>6, <1>7
<1> QED
  BY <1>4, <1>5, <1>8, <1>9 DEF Accounts, Windows

\* A step to what is held then
LEMMA HeldWork ==
  ASSUME VerdictInv, NEW op, op \notin {"end", "constructed"}, At(op), NEW a, Accounts(a),
         Proceed(<< >>), backend' = backend, call'.name = call.name,
         call.name \in ChainCalls => call'.x5c = call.x5c,
         NEW b, b = Track(code[1], a), HeldIs(live', members', twice', b), Debts(b) = Debts(a),
         b["secret"].twice = a["secret"].twice
  PROVE  Accounts(b)'
<1>1. PICK c : c = Context("holdings")
  OBVIOUS
<1>2. /\ call.name # "none" /\ raised = FALSE /\ code[1].op = op /\ IsSeq(Tail(code)) /\ c.view = "holdings"
      /\ Owed(Tail(code), Debts(a))
      /\ Good(c, Following(code[1], Tail(code)), Track(code[1], a))
  BY <1>1, HeldReady
<1>3. code' = Tail(code) /\ code' = Following(code[1], Tail(code)) /\ raised' = raised
  BY Proceeds
<1>4. Good(c, code', b) /\ Owed(code', Debts(b))
  BY <1>2, <1>3
<1>5. Holdings(b)
  BY <1>2, <1>4, GoodHolds
<1>6. Context("holdings")' = c
  BY <1>1, SameHolder
<1>7. b["secret"].twice = 1 => Windows'
  BY DEF Accounts, Windows
<1> QED
  BY <1>2, <1>3, <1>4, <1>5, <1>6, <1>7 DEF Accounts

\* A step that changes nothing that is held
LEMMA HeldStill ==
  ASSUME VerdictInv, NEW op \in StillOps, At(op), NEW a, Accounts(a), Proceed(<< >>),
         UNCHANGED <<backend, live, members, twice>>, call'.name = call.name,
         call.name \in ChainCalls => call'.x5c = call.x5c
  PROVE  Accounts(a)'
<1>1. op \notin {"end", "constructed"} /\ op # "end"
  BY DEF StillOps
<1>2. code[1].op = op
  BY <1>1, Ready
<1>3. Track(code[1], a) = a
  BY <1>2 DEF Track, StillOps
<1>4. HeldIs(live', members', twice', a)
  BY DEF Accounts
<1> QED
  BY <1>1, <1>3, <1>4, HeldWork

\* No step of the call at all
LEMMA HeldSame ==
  ASSUME NEW a, Accounts(a), UNCHANGED <<backend, call, code, raised, live, members, twice>>
  PROVE  Accounts(a)'
<1>1. Context("holdings")' = Context("holdings")
  BY SameHolder
<1> QED
  BY <1>1 DEF Accounts, Windows

\* Keys are written to the token of EncryptWithPadding only
LEMMA Written == ASSUME VerdictInv, DoWrite PROVE call.name = "protect" /\ call'.name = "protect"
<1>1. At("write") /\ call' = [call EXCEPT !.token[Head(code).field] = Head(code).form]
  BY DEF DoWrite
<1>2. code[1].op = "write" /\ \E b \in Knowledge : Judges(Context("verdict"), code[1], b)
  BY <1>1, Ready
<1>3. Context("verdict").name = "protect"
  BY <1>2 DEF Judges, Neutral, Calm
<1>4. call.name = "protect"
  BY <1>3 DEF Context
<1>5. call \in [name : {"protect"}, size : Nat \ {0}, token : Token]
  BY <1>4 DEF VerdictInv, CallTyped
<1>6. \E t : call' = [call EXCEPT !.token = t]
  BY <1>1
<1> QED
  BY <1>4, <1>5, <1>6

\* Requests, the cursor, the certificates and the tests hold nothing
LEMMA StillStep ==
  ASSUME VerdictInv, NEW a, Accounts(a),
         \/ DoRequest \/ DoCopy \/ DoAssign \/ DoMeasure \/ DoChained \/ DoLastDecrypt \/ DoLastEncrypt
         \/ DoWrite \/ DoLoad \/ DoAdd \/ DoBuildChain \/ DoTest
  PROVE  Accounts(a)'
<1>1. ASSUME NEW op \in StillOps, At(op), Proceed(<< >>), UNCHANGED <<backend, call, live, members, twice>>
      PROVE  Accounts(a)'
  BY <1>1, HeldStill
<1>2. ASSUME NEW op \in StillOps \cap Throwing, At(op), Throw, UNCHANGED <<backend, call, live, members, twice>>
      PROVE  Accounts(a)'
  BY <1>2, HeldThrow
<1>3. /\ "request" \in StillOps \cap Throwing /\ "measure" \in StillOps \cap Throwing
      /\ "chained" \in StillOps \cap Throwing /\ "last" \in StillOps \cap Throwing
      /\ "load" \in StillOps \cap Throwing /\ "test" \in StillOps \cap Throwing
      /\ "assign" \in StillOps /\ "add" \in StillOps /\ "build_chain" \in StillOps
      /\ "copy" \in StillOps /\ "write" \in StillOps
  BY DEF StillOps, Throwing
<1>4. CASE DoRequest
  BY <1>1, <1>2, <1>3, <1>4 DEF DoRequest, Works, Faults
<1>5. CASE DoAssign
  BY <1>1, <1>3, <1>5 DEF DoAssign, Works
<1>6. CASE DoMeasure
  BY <1>1, <1>2, <1>3, <1>6 DEF DoMeasure
<1>7. CASE DoChained
  <2>1. At("chained") /\ UNCHANGED <<backend, call, live, members, twice>>
    BY <1>7 DEF DoChained
  <2>2. UNCHANGED <<code, raised>> \/ Throw \/ Proceed(<< >>)
    BY <1>7 DEF DoChained, Works, Faults
  <2> QED
    BY <1>1, <1>2, <1>3, <2>1, <2>2, HeldSame
<1>8. CASE DoLastDecrypt
  BY <1>1, <1>2, <1>3, <1>8 DEF DoLastDecrypt, Works, Faults
<1>9. CASE DoLastEncrypt
  <2>1. /\ At("last") /\ Head(code).direction = "encrypt" /\ UNCHANGED <<backend, live, members, twice>>
        /\ \/ Throw /\ UNCHANGED call
           \/ /\ call' = [call EXCEPT !.token[Head(code).data] =
                            [size |-> gcm.length + TagLength, key |-> aesKey, intact |-> TRUE]]
              /\ Proceed(<< >>)
    BY <1>9 DEF DoLastEncrypt, Works, Faults
  <2>2. call.name = "protect"
    <3>1. /\ Head(code) = code[1] /\ code[1].op = "last"
          /\ \E b \in Knowledge : Judges(Context("verdict"), code[1], b)
      BY <2>1, Ready
    <3>2. code[1].direction = Direction(Context("verdict"))
      BY <3>1 DEF Judges, Neutral, Calm
    <3>3. Context("verdict").name = call.name
      BY DEF Context
    <3> QED
      BY <2>1, <3>1, <3>2, <3>3 DEF Direction
  <2>3. call \in [name : {"protect"}, size : Nat \ {0}, token : Token]
    BY <2>2 DEF VerdictInv, CallTyped
  <2>4. CASE /\ call' = [call EXCEPT !.token[Head(code).data] =
                            [size |-> gcm.length + TagLength, key |-> aesKey, intact |-> TRUE]]
             /\ Proceed(<< >>)
    <3>1. PICK t : call' = [call EXCEPT !.token = t]
      BY <2>4
    <3>2. call'.name = call.name /\ call.name \notin ChainCalls
      BY <2>2, <2>3, <3>1 DEF ChainCalls
    <3> QED
      BY <1>3, <2>1, <2>4, <3>2, HeldStill
  <2> QED
    BY <1>2, <1>3, <2>1, <2>4
<1>10. CASE DoLoad
  BY <1>1, <1>2, <1>3, <1>10 DEF DoLoad
<1>11. CASE DoAdd
  BY <1>1, <1>3, <1>11 DEF DoAdd, Works
<1>12. CASE DoBuildChain
  BY <1>1, <1>3, <1>12 DEF DoBuildChain, Works
<1>13. CASE DoTest
  BY <1>1, <1>2, <1>3, <1>13 DEF DoTest
<1>14. CASE DoCopy
  BY <1>1, <1>3, <1>14 DEF DoCopy, Works
<1>15. CASE DoWrite
  <2>1. /\ At("write") /\ Proceed(<< >>) /\ UNCHANGED <<backend, live, members, twice>>
        /\ call'.name = "protect" /\ call.name = "protect"
    BY <1>15, Written DEF DoWrite, Works
  <2> QED
    BY <1>3, <2>1, HeldStill DEF ChainCalls
<1> QED
  BY <1>4, <1>5, <1>6, <1>7, <1>8, <1>9, <1>10, <1>11, <1>12, <1>13, <1>14, <1>15

\* Resources
LEMMA HandleStep ==
  ASSUME VerdictInv, NEW a, Accounts(a), DoNew \/ NewFails \/ DoOwn \/ DoRelease
  PROVE  \E b : Accounts(b)'
<1>1. PICK c : c = Context("holdings")
  OBVIOUS
<1>2. Holdings(a) /\ HeldIs(live, members, twice, a)
  BY DEF Accounts
<1>3. CASE NewFails
  <2>1. At("new") \/ At("allocate")
    BY <1>3 DEF NewFails
  <2>2. Throw /\ UNCHANGED <<backend, call, live, members, twice>>
    BY <1>3 DEF NewFails, Faults
  <2>3. "new" \in Throwing /\ "allocate" \in Throwing
    BY DEF Throwing
  <2> QED
    BY <2>1, <2>2, <2>3, HeldThrow
<1>4. CASE DoNew
  <2>1. PICK op \in {"new", "allocate", "malloc"} :
          /\ At(op)
          /\ members' = IF op = "new" THEN members \cup {Head(code).what} ELSE members
    BY <1>4 DEF DoNew
  <2>2. /\ Proceed(<< >>) /\ live' = live (+) SetToBag({Head(code).what}) /\ UNCHANGED <<backend, call, twice>>
    BY <1>4 DEF DoNew, Works
  <2>3. Head(code) = code[1] /\ code[1].op = op /\ Keeps(c, code[1], a)
    BY <1>1, <2>1, HeldReady
  <2>4. PICK x, b, L, N : x = code[1] /\ b = Taken(x, a) /\ L = live' /\ N = members'
    OBVIOUS
  <2>5. x.op = op /\ Fresh(x, a)
    BY <2>3, <2>4 DEF Keeps
  <2>6. Adds(live, x.what, L)
    BY <2>2, <2>3, <2>4 DEF Adds
  <2>7. N = IF x.op = "new" THEN members \cup {x.what} ELSE members
    BY <2>1, <2>3, <2>4
  <2>8. HeldIs(L, N, twice, b) /\ Debts(b) = Debts(a) /\ b["secret"].twice = a["secret"].twice
    <3>1. PICK B, M, T : B = live /\ M = members /\ T = twice
      OBVIOUS
    <3>2. Holdings(a) /\ HeldIs(B, M, T, a) /\ Adds(B, x.what, L) /\ x.op \in {"new", "allocate", "malloc"}
      BY <1>2, <2>5, <2>6, <3>1
    <3>3. N = IF x.op = "new" THEN M \cup {x.what} ELSE M
      BY <2>7, <3>1
    <3>4. HeldIs(L, N, T, Taken(x, a)) /\ Debts(Taken(x, a)) = Debts(a) /\ Taken(x, a)["secret"].twice = a["secret"].twice
      BY <2>5, <3>2, <3>3, HeldTaken
    <3> QED
      BY <2>4, <3>1, <3>4
  <2>9. b = Track(code[1], a)
    BY <2>4, <2>5 DEF Track
  <2>10. HeldIs(live', members', twice', b)
    BY <2>2, <2>4, <2>8
  <2> QED
    BY <2>1, <2>2, <2>8, <2>9, <2>10, HeldWork
<1>5. CASE DoOwn
  <2>1. /\ At("own") /\ Proceed(<< >>) /\ members' = members \cup {Head(code).what}
        /\ UNCHANGED <<backend, call, live, twice>>
    BY <1>5 DEF DoOwn, Works
  <2>2. Head(code) = code[1] /\ code[1].op = "own" /\ Keeps(c, code[1], a)
    BY <1>1, <2>1, HeldReady
  <2>3. PICK r, B, M, T, b, N : /\ r = code[1].what /\ B = live /\ M = members /\ T = twice /\ N = members'
                                /\ b = Join(a, r[1], r[2])
    OBVIOUS
  <2>4. Plain(r) /\ Handled(a, B, M, r, b, B, N)
    BY <2>1, <2>2, <2>3 DEF Keeps, Handled
  <2>5. HeldIs(B, N, T, b) /\ Debts(b) = Debts(a) /\ b["secret"].twice = a["secret"].twice
    <3>1. Holdings(a) /\ HeldIs(B, M, T, a)
      BY <1>2, <2>3
    <3> QED
      BY <2>4, <3>1, HeldOwnRelease
  <2>6. b = Track(code[1], a)
    BY <2>2, <2>3 DEF Track, Join, Lose
  <2>7. HeldIs(live', members', twice', b)
    BY <2>1, <2>2, <2>3, <2>5
  <2> QED
    BY <2>1, <2>5, <2>6, <2>7, HeldWork
<1>6. CASE DoRelease
  <2>1. /\ At("release") /\ Proceed(<< >>) /\ live' = live (-) SetToBag({Head(code).what})
        /\ UNCHANGED <<backend, call, members, twice>>
    BY <1>6 DEF DoRelease, Works
  <2>2. Head(code) = code[1] /\ code[1].op = "release" /\ Keeps(c, code[1], a)
    BY <1>1, <2>1, HeldReady
  <2>3. PICK r, B, M, T, b, C : /\ r = code[1].what /\ B = live /\ M = members /\ T = twice /\ C = live'
                                /\ b = Lose(a, r[1], r[2])
    OBVIOUS
  <2>4. Plain(r) /\ Handled(a, B, M, r, b, C, M)
    BY <2>1, <2>2, <2>3 DEF Keeps, Handled, Removes
  <2>5. HeldIs(C, M, T, b) /\ Debts(b) = Debts(a) /\ b["secret"].twice = a["secret"].twice
    <3>1. Holdings(a) /\ HeldIs(B, M, T, a)
      BY <1>2, <2>3
    <3> QED
      BY <2>4, <3>1, HeldOwnRelease
  <2>6. b = Track(code[1], a)
    BY <2>2, <2>3 DEF Track, Join, Lose
  <2>7. HeldIs(live', members', twice', b)
    BY <2>1, <2>2, <2>3, <2>5
  <2> QED
    BY <2>1, <2>5, <2>6, <2>7, HeldWork
<1> QED
  BY <1>3, <1>4, <1>5, <1>6

\* An object is constructed
LEMMA ConstructedStep == ASSUME VerdictInv, NEW a, Accounts(a), DoConstructed PROVE \E b : Accounts(b)'
<1>1. PICK c : c = Context("holdings")
  OBVIOUS
<1>2. /\ At("constructed") /\ UNCHANGED <<backend, call, live, members, twice, raised>>
      /\ code' = (Head(code).scope \o <<[op |-> "end", destructor |-> Head(code).destructor]>>) \o Tail(code)
  BY DEF DoConstructed, Proceed
<1>3. "constructed" # "end"
  OBVIOUS
<1>4. /\ call.name # "none" /\ raised = FALSE /\ Head(code) = code[1]
      /\ code[1].op = "constructed" /\ IsSeq(Tail(code)) /\ c.view = "holdings"
      /\ Keeps(c, code[1], a) /\ Owed(Tail(code), Debts(a))
      /\ IsSeq(code[1].scope) /\ NoEnds(code[1].scope)
      /\ Good(c, Following(code[1], Tail(code)), Track(code[1], a))
  BY <1>1, <1>2, <1>3, HeldReady
<1>5. PICK x, t, s, D, e, b : /\ x = code[1] /\ t = Tail(code) /\ s = code[1].scope /\ D = x.destructor
                              /\ e = EndOf(x) /\ b = Opened(a, D)
  OBVIOUS
<1>6. code' = Cat(s, Cat(<<e>>, t))
  <2>1. code' = Cat(Cat(s, <<e>>), t)
    BY <1>2, <1>4, <1>5, Zenon DEF Cat, EndOf
  <2>2. PICK u : u = <<e>>
    OBVIOUS
  <2>3. IsSeq(u) /\ IsSeq(s) /\ IsSeq(t)
    BY <1>4, <1>5, <2>2, Single
  <2>4. Cat(Cat(s, u), t) = Cat(s, Cat(u, t))
    BY <2>3, CatAssociative
  <2> QED
    BY <2>1, <2>2, <2>4
<1>7. code' = Following(code[1], Tail(code))
  BY <1>4, <1>5, <1>6 DEF Following
<1>8. b = Track(code[1], a)
  BY <1>4, <1>5 DEF Track
<1>9. Good(c, code', b)
  BY <1>4, <1>7, <1>8
<1>10. Holdings(b) /\ Holdings(a) /\ HeldIs(live, members, twice, a)
  BY <1>4, <1>9, GoodHolds DEF Accounts
<1>11. Openable(D, a)
  BY <1>4, <1>5 DEF Keeps
<1>12. HeldIs(live, members, twice, b) /\ b["secret"].twice = a["secret"].twice
  <2>1. PICK B, M, T : B = live /\ M = members /\ T = twice
    OBVIOUS
  <2>2. HeldIs(B, M, T, a)
    BY <1>10, <2>1
  <2>3. HeldIs(B, M, T, b) /\ b["secret"].twice = a["secret"].twice
    BY <1>5, <1>10, <1>11, <2>2, HeldOpened
  <2> QED
    BY <2>1, <2>3
<1>13. Owed(code', Debts(b))
  <2>1. CanClose(Debts(b), D) /\ Closes(Debts(b), D) = Debts(a)
    BY <1>5, <1>10, <1>11, DebtsOpened
  <2>2. e.op = "end" /\ e.destructor = D
    BY <1>5 DEF EndOf
  <2>3. PICK w : w = Debts(b)
    OBVIOUS
  <2>4. CanClose(w, e.destructor) /\ Owed(t, Closes(w, e.destructor)) /\ IsSeq(t)
    BY <1>4, <1>5, <2>1, <2>2, <2>3
  <2>5. Owed(Cat(<<e>>, t), w)
    BY <2>2, <2>4, OwedEnd
  <2>6. PICK u : u = Cat(<<e>>, t)
    OBVIOUS
  <2>7. IsSeq(u) /\ IsSeq(s) /\ NoEnds(s)
    BY <1>4, <1>5, <2>4, <2>6, CatOne
  <2>8. Owed(Cat(s, u), w)
    BY <2>5, <2>6, <2>7, OwedBehind
  <2> QED
    BY <1>6, <2>3, <2>6, <2>8
<1>14. Context("holdings")' = c
  BY <1>1, <1>2, SameHolder
<1>15. Accounts(b)'
  BY <1>2, <1>4, <1>9, <1>10, <1>12, <1>13, <1>14 DEF Accounts, Windows
<1> QED
  BY <1>15

\* The end of a scope, on the way out of an exception too
LEMMA EndStep == ASSUME VerdictInv, NEW a, Accounts(a), DoEnd PROVE \E b : Accounts(b)'
<1>1. PICK c : c = Context("holdings")
  OBVIOUS
<1>2. /\ At("end") /\ UNCHANGED <<backend, call, members, raised>>
      /\ live' = live (-) SetToBag(Head(code).destructor \cap members)
      /\ twice' = twice \cup {r \in Head(code).destructor \cap members : ~BagIn(r, live)}
      /\ code' = IF raised THEN Unwind(Tail(code)) ELSE Tail(code)
  BY DEF DoEnd
<1>3. code # << >> /\ IsSeq(code) /\ call.name # "none"
  BY <1>2 DEF At, VerdictInv
<1>4. IsSeq(Tail(code)) /\ Head(code) = code[1] /\ code[1].op = "end"
  <2>1. IsSeq(Tail(code)) /\ Head(code) = code[1]
    BY <1>3, HeadAndTail
  <2> QED
    BY <1>2, <2>1 DEF At
<1>5. PICK t, D, b, w : t = Tail(code) /\ D = code[1].destructor /\ b = Destroyed(a, D) /\ w = Debts(a)
  OBVIOUS
<1>6. Holdings(a) /\ HeldIs(live, members, twice, a) /\ Owed(code, w)
  BY <1>3, <1>5 DEF Accounts
<1>7. CanClose(w, D) /\ Owed(t, Closes(w, D))
  <2>1. PICK s : s = code
    OBVIOUS
  <2>2. Owed(s, w) /\ IsSeq(s) /\ s # << >> /\ s[1].op = "end"
    BY <1>3, <1>4, <1>6, <2>1
  <2>3. CanClose(w, s[1].destructor) /\ Owed(Tail(s), Closes(w, s[1].destructor))
    BY <2>2, OwedParts
  <2> QED
    BY <1>5, <2>1, <2>3
<1>8. Debts(b) = Closes(w, D) /\ Pending(D, a)
  BY <1>5, <1>7, DebtsDestroyed
<1>9. Owed(code', Debts(b))
  <2>1. PICK v : v = Closes(w, D)
    OBVIOUS
  <2>2. IsSeq(t) /\ Owed(t, v)
    BY <1>4, <1>5, <1>7, <2>1
  <2>3. Owed(Unwind(t), v)
    BY <2>2, OwedUnwind
  <2> QED
    BY <1>2, <1>5, <1>8, <2>1, <2>2, <2>3
<1>10. c.view = "holdings" /\ (OnWindows(c) <=> Windows) /\ Context("holdings")' = c
  <2>1. c.view = "holdings" /\ c.backend = backend
    BY <1>1 DEF Context
  <2>2. Context("holdings")' = c
    BY <1>1, <1>2, SameHolder
  <2> QED
    BY <2>1, <2>2 DEF OnWindows, Windows
<1>11. Closable(c, D, a) /\ Holdings(b) /\ (raised => Safe(c, b)) /\ (~raised => Good(c, code', b))
  <2>1. CASE raised
    <3>1. Sound(c, a)
      BY <1>1, <1>3, <1>6, <2>1 DEF Accounts, Sound
    <3>2. Closable(c, D, a) /\ Sound(c, b)
      BY <1>5, <1>8, <3>1, DestroyedFacts
    <3> QED
      BY <2>1, <3>2 DEF Sound
  <2>2. CASE ~raised
    <3>1. Good(c, code, a)
      BY <1>1, <1>3, <2>2 DEF Accounts
    <3>2. Fits(c, code[1], a) /\ Good(c, Following(code[1], Tail(code)), Learn(c, code[1], a))
      BY <1>3, <3>1, GoodParts
    <3>3. Closable(c, D, a)
      BY <1>4, <1>5, <1>10, <3>2 DEF Fits, Keeps
    <3>4. Following(code[1], Tail(code)) = Tail(code) /\ Learn(c, code[1], a) = b
      BY <1>4, <1>5, <1>10 DEF Following, Learn, Track
    <3>5. Good(c, code', b)
      BY <1>2, <2>2, <3>2, <3>4
    <3>6. Holdings(b)
      BY <1>10, <3>5, GoodHolds
    <3> QED
      BY <2>2, <3>3, <3>5, <3>6
  <2> QED
    BY <2>1, <2>2
<1>12. HeldIs(live', members', twice', b) /\ (b["secret"].twice = 1 => a["secret"].twice = 1 \/ OnWindows(c))
  <2>1. PICK B, M, T, C, Y : B = live /\ M = members /\ T = twice /\ C = live' /\ Y = twice'
    OBVIOUS
  <2>2. HeldIs(B, M, T, a)
    BY <1>6, <2>1
  <2>3. Releases(B, M, T, D, C, Y)
    BY <1>2, <1>4, <1>5, <2>1 DEF Removes, Releases
  <2>4. CanClose(Debts(a), D)
    BY <1>5, <1>7
  <2>5. /\ HeldIs(C, M, Y, b)
        /\ b["secret"].twice = 1 => a["secret"].twice = 1 \/ OnWindows(c)
    BY <1>5, <1>6, <1>11, <2>2, <2>3, <2>4, HeldDestroyed
  <2> QED
    BY <1>2, <2>1, <2>5
<1>13. b["secret"].twice = 1 => Windows'
  BY <1>2, <1>10, <1>12 DEF Accounts, Windows
<1>14. Accounts(b)'
  BY <1>2, <1>9, <1>10, <1>11, <1>12, <1>13 DEF Accounts
<1> QED
  BY <1>14

\* Nothing is held when a call begins
LEMMA HeldFree == /\ Holdings(Free) /\ HeldIs(EmptyBag, {}, {}, Free) /\ Free["secret"].twice = 0
                  /\ Clear(Debts(Free))
<1>1. PICK c : c = Context("holdings")
  OBVIOUS
<1>2. PICK f : f = Free
  OBVIOUS
<1>3. /\ Sound(c, f) /\ (\A o \in Owners : f[o] = Loose({}))
      /\ f["key"] = Kv(0, 0, 0) /\ f["secret"] = Sv(0, 0, 0, 0, 0)
      /\ f["roots"] = Count(0) /\ f["contexts"] = Count(0)
  BY <1>2, FreeIs
<1>4. /\ f["key"].n = 0 /\ f["key"].member = 0 /\ f["key"].open = 0
      /\ f["secret"].n = 0 /\ f["secret"].member = 0 /\ f["secret"].open = 0 /\ f["secret"].twice = 0
      /\ f["roots"].n = 0 /\ f["contexts"].n = 0
  BY <1>3 DEF Kv, Sv, Count
<1>5. \A o \in Owners : f[o].live = {} /\ f[o].members = {} /\ f[o].open = {}
  <2>1. PICK e : e = {}
    OBVIOUS
  <2>2. \A o \in Owners : f[o] = V(e, e, e)
    BY <1>3, <2>1 DEF Loose
  <2>3. V(e, e, e).live = e /\ V(e, e, e).members = e /\ V(e, e, e).open = e
    BY VFields
  <2> QED
    BY <2>1, <2>2, <2>3
<1>6. ASSUME NEW r PROVE Amount(f, r) = 0 /\ ~Member(f, r)
  <2>1. CASE r \in Specials
    <3>1. r = hAesKey \/ r = Shared \/ r = rootContext \/ r = mdCtx
      BY <2>1 DEF Specials
    <3> QED
      BY <1>4, <3>1, AmountIs, MemberIs
  <2>2. CASE r \notin Specials
    <3>1. Plain(r) => f[r[1]].live = {} /\ f[r[1]].members = {}
      BY <1>5, PlainIs
    <3> QED
      BY <2>2, <3>1, AmountIs, MemberIs
  <2> QED
    BY <2>1, <2>2
<1>7. HeldIs(EmptyBag, {}, {}, f)
  BY <1>4, <1>6, NoBag DEF HeldIs, Twice
<1>8. Clear(Debts(f))
  <2>1. \A p \in Debtors : Debts(f)[p] = f[p].open
    BY DEF Debts
  <2> QED
    BY <1>4, <1>5, <2>1 DEF Clear, Debtors
<1> QED
  BY <1>2, <1>3, <1>4, <1>7, <1>8 DEF Sound

\* A call begins
LEMMA HeldBegin ==
  ASSUME VerdictInv, Scalars, Verify \/ Unwrap \/ Protect \/ Generate \/ Report
  PROVE  Accounts(Free)' /\ Scalars'
<1>1. ASSUME NEW C, NEW script, NEW roots, Begin(C, script, roots),
             C.name = "verify" => roots = TrustedRoots,
             C.name \in ChainCalls => 2..Len(C.x5c) \subseteq Positions,
             Good([view |-> "holdings", name |-> C.name, backend |-> backend,
                   last |-> IF C.name \in ChainCalls THEN Len(C.x5c) ELSE 0], script, Free),
             NoEnds(script)
      PROVE  Accounts(Free)' /\ Scalars'
  <2>1. /\ call' = C /\ code' = script /\ raised' = FALSE /\ backend' = backend /\ process' = process
        /\ x509' = [roots |-> roots, store |-> roots, chainContext |-> {}] /\ aesKey' = "none"
        /\ live' = EmptyBag /\ members' = {} /\ twice' = {}
    BY <1>1 DEF Begin
  <2>2. Context("holdings")' = [view |-> "holdings", name |-> C.name, backend |-> backend,
                                last |-> IF C.name \in ChainCalls THEN Len(C.x5c) ELSE 0]
    BY <2>1 DEF Context
  <2>3. Good(Context("holdings")', code', Free) /\ IsSeq(code')
    BY <1>1, <2>1, <2>2, GoodParts
  <2>4. Owed(code', Debts(Free))
    BY <1>1, <2>1, <2>3, HeldFree, OwedNothing
  <2>5. HeldIs(live', members', twice', Free) /\ Holdings(Free) /\ Free["secret"].twice # 1
    BY <2>1, HeldFree
  <2>6. Accounts(Free)'
    BY <2>1, <2>3, <2>4, <2>5 DEF Accounts
  <2>7. Scalars'
    BY <1>1, <2>1 DEF Scalars, Keys
  <2> QED
    BY <2>6, <2>7
<1>2. ASSUME NEW c, c.backend = backend PROVE OnWindows(c) <=> Windows
  BY <1>2 DEF OnWindows, Windows
<1>3. CASE Verify
  <2>1. PICK x5c \in Chains, good \in BOOLEAN :
          Begin([name |-> "verify", x5c |-> x5c, signature |-> good], ParseToken(x5c), TrustedRoots)
    BY <1>3 DEF Verify
  <2>2. Len(x5c) \in Nat /\ 2..Len(x5c) \subseteq Positions
    <3>1. x5c \in Seq(Certificate)
      BY ConstantsAssumption
    <3>2. Len(x5c) \in Nat /\ DOMAIN x5c = 1..Len(x5c)
      BY <3>1
    <3>3. DOMAIN x5c \subseteq Positions
      BY DEF Positions
    <3> QED
      BY <3>2, <3>3
  <2> DEFINE c == [view |-> "holdings", name |-> "verify", backend |-> backend, last |-> Len(x5c)]
  <2>3. Good(c, ParseToken(x5c), Free) /\ NoEnds(ParseToken(x5c))
    <3>1. c.view = "holdings" /\ c.name = "verify" /\ c.backend = backend /\ Len(x5c) = c.last
      OBVIOUS
    <3> HIDE DEF c
    <3>2. OnWindows(c) <=> Windows
      BY <1>2, <3>1
    <3>3. c.last \in Nat /\ 2..c.last \subseteq Positions
      BY <2>2, <3>1
    <3>4. CASE Windows
      BY <3>1, <3>2, <3>3, <3>4, ParseTokenWindows
    <3>5. CASE ~Windows
      BY <3>1, <3>2, <3>3, <3>5, ParseTokenLinux
    <3> QED
      BY <3>4, <3>5
  <2>4. "verify" \in ChainCalls
    BY DEF ChainCalls
  <2> QED
    BY <1>1, <2>1, <2>2, <2>3, <2>4
<1>4. CASE Generate
  <2>1. Begin([name |-> "generate", x5c |-> TestChain, signature |-> TRUE], ValidateSignature, {TestRoot})
    BY <1>4 DEF Generate
  <2>2. Len(TestChain) = 2 /\ 2..2 \subseteq Positions
    <3>1. PICK p, q : TestChain = <<p, q>>
      BY DEF TestChain
    <3> QED
      BY <3>1, SecondPosition
  <2> DEFINE c == [view |-> "holdings", name |-> "generate", backend |-> backend, last |-> Len(TestChain)]
  <2>3. Good(c, ValidateSignature, Free) /\ NoEnds(ValidateSignature)
    <3>1. c.view = "holdings" /\ c.name = "generate" /\ c.backend = backend /\ c.last = 2
      BY <2>2
    <3> HIDE DEF c
    <3>2. OnWindows(c) <=> Windows
      BY <1>2, <3>1
    <3>4. CASE Windows
      BY <3>1, <3>2, <3>4, ValidateSignatureWindows
    <3>5. CASE ~Windows
      BY <3>1, <3>2, <3>5, ValidateSignatureLinux
    <3> QED
      BY <3>4, <3>5
  <2>4. "generate" \in ChainCalls
    BY DEF ChainCalls
  <2> QED
    BY <1>1, <2>1, <2>2, <2>3, <2>4
<1>5. CASE Unwrap
  <2>1. PICK token \in Tokens \cup made :
          Begin([name |-> "unwrap", token |-> token], decrypt_secret, {})
    BY <1>5 DEF Unwrap
  <2> DEFINE c == [view |-> "holdings", name |-> "unwrap", backend |-> backend, last |-> 0]
  <2>3. Good(c, decrypt_secret, Free) /\ NoEnds(decrypt_secret)
    <3>1. c.view = "holdings" /\ c.name = "unwrap" /\ c.backend = backend
      OBVIOUS
    <3> HIDE DEF c
    <3>2. OnWindows(c) <=> Windows
      BY <1>2, <3>1
    <3>4. CASE Windows
      BY <3>1, <3>2, <3>4, DecryptSecretWindows
    <3>5. CASE ~Windows
      BY <3>1, <3>2, <3>5, DecryptSecretLinux
    <3> QED
      BY <3>4, <3>5
  <2>4. "unwrap" \notin ChainCalls
    BY DEF ChainCalls
  <2> QED
    BY <1>1, <2>1, <2>3, <2>4
<1>6. CASE Protect
  <2>1. PICK size \in SecretSizes :
          Begin([name |-> "protect", size |-> size, token |-> NoToken], EncryptWithPadding, {})
    BY <1>6 DEF Protect
  <2> DEFINE c == [view |-> "holdings", name |-> "protect", backend |-> backend, last |-> 0]
  <2>3. Good(c, EncryptWithPadding, Free) /\ NoEnds(EncryptWithPadding)
    <3>1. c.view = "holdings" /\ c.name = "protect" /\ c.backend = backend
      OBVIOUS
    <3> HIDE DEF c
    <3>2. OnWindows(c) <=> Windows
      BY <1>2, <3>1
    <3>4. CASE Windows
      BY <3>1, <3>2, <3>4, EncryptWithPaddingWindows
    <3>5. CASE ~Windows
      BY <3>1, <3>2, <3>5, EncryptWithPaddingLinux
    <3> QED
      BY <3>4, <3>5
  <2>4. "protect" \notin ChainCalls
    BY DEF ChainCalls
  <2> QED
    BY <1>1, <2>1, <2>3, <2>4
<1>7. CASE Report
  <2>1. PICK report : Begin([name |-> "report", report |-> report], IsValidHclReport, {})
    BY <1>7 DEF Report
  <2> DEFINE c == [view |-> "holdings", name |-> "report", backend |-> backend, last |-> 0]
  <2>2. Good(c, IsValidHclReport, Free) /\ NoEnds(IsValidHclReport)
    <3>1. c.view = "holdings" /\ c.name = "report" /\ c.backend = backend
      OBVIOUS
    <3> HIDE DEF c
    <3> QED
      BY <1>2, <3>1, ReportHeld
  <2>3. "report" \notin ChainCalls
    BY DEF ChainCalls
  <2> QED
    BY <1>1, <2>1, <2>2, <2>3
<1> QED
  BY <1>3, <1>4, <1>5, <1>6, <1>7

\* The build, the process, the key, the roots and the positions
LEMMA ScalarStep ==
  ASSUME VerdictInv, Scalars,
         \/ DoRequest \/ DoNew \/ NewFails \/ DoOwn \/ DoRelease \/ DoConstructed \/ DoEnd \/ Terminate
         \/ DoCopy \/ DoAssign \/ DoMeasure \/ DoChained \/ DoLastDecrypt \/ DoLastEncrypt \/ DoWrite
         \/ DoLoad \/ DoAdd \/ DoBuildChain \/ DoTest \/ Return \/ UNCHANGED vars
  PROVE  Scalars'
<1>1. CASE UNCHANGED <<backend, call, x509, aesKey, process>>
  BY <1>1 DEF Scalars
<1>2. CASE Terminate
  BY <1>2 DEF Terminate, Scalars
<1>3. CASE DoAssign
  <2>1. At("assign") /\ aesKey' = Head(code).key /\ UNCHANGED <<backend, call, x509, process>>
    BY <1>3 DEF DoAssign
  <2>2. /\ Head(code) = code[1] /\ code[1].op = "assign"
        /\ \E a \in Knowledge : Judges(Context("verdict"), code[1], a)
    BY <2>1, Ready
  <2>3. code[1].key \in Keys
    BY <2>2 DEF Judges, Neutral, Calm
  <2> QED
    BY <2>1, <2>2, <2>3 DEF Scalars
<1>4. CASE DoLastEncrypt
  <2>1. /\ At("last") /\ Head(code).direction = "encrypt" /\ UNCHANGED <<backend, x509, aesKey, process>>
        /\ \/ UNCHANGED call
           \/ call' = [call EXCEPT !.token[Head(code).data] =
                         [size |-> gcm.length + TagLength, key |-> aesKey, intact |-> TRUE]]
    BY <1>4 DEF DoLastEncrypt
  <2>2. call.name = "protect"
    <3>1. /\ Head(code) = code[1] /\ code[1].op = "last"
          /\ \E b \in Knowledge : Judges(Context("verdict"), code[1], b)
      BY <2>1, Ready
    <3>2. code[1].direction = Direction(Context("verdict"))
      BY <3>1 DEF Judges, Neutral, Calm
    <3>3. Context("verdict").name = call.name
      BY DEF Context
    <3> QED
      BY <2>1, <3>1, <3>2, <3>3 DEF Direction
  <2>3. call \in [name : {"protect"}, size : Nat \ {0}, token : Token]
    BY <2>2 DEF VerdictInv, CallTyped
  <2>4. \/ UNCHANGED call
        \/ \E t : call' = [call EXCEPT !.token = t]
    BY <2>1
  <2>5. call'.name = "protect"
    BY <2>2, <2>3, <2>4
  <2> QED
    BY <2>1, <2>5 DEF Scalars, ChainCalls
<1>5. CASE DoAdd \/ DoBuildChain
  <2>1. /\ UNCHANGED <<backend, call, aesKey, process>>
        /\ \/ \E s : x509' = [x509 EXCEPT !.store = s]
           \/ \E s : x509' = [x509 EXCEPT !.chainContext = s]
    BY <1>5 DEF DoAdd, DoBuildChain
  <2>2. ASSUME call.name = "verify" PROVE x509'.roots = x509.roots
    <3>1. x509 = [roots |-> x509.roots, store |-> x509.store, chainContext |-> x509.chainContext]
      BY <2>2 DEF VerdictInv, CallTyped, ChainCalls
    <3> QED
      BY <2>1, <3>1
  <2> QED
    BY <2>1, <2>2 DEF Scalars
<1>6. CASE Return
  <2>1. call' = NoCall /\ UNCHANGED <<backend, aesKey, process>>
    BY <1>6 DEF Return
  <2>2. call'.name = "none"
    BY <2>1 DEF NoCall
  <2> QED
    BY <2>1, <2>2 DEF Scalars, ChainCalls
<1>7. CASE DoRequest \/ DoNew \/ NewFails \/ DoOwn \/ DoRelease \/ DoConstructed \/ DoEnd
  <2>1. UNCHANGED <<backend, call, x509, aesKey, process>>
    BY <1>7 DEF DoRequest, DoNew, NewFails, DoOwn, DoRelease, DoConstructed, DoEnd
  <2> QED
    BY <1>1, <2>1
<1>8. CASE DoCopy \/ DoMeasure \/ DoChained \/ DoLastDecrypt \/ DoLoad \/ DoTest
  <2>1. UNCHANGED <<backend, call, x509, aesKey, process>>
    BY <1>8 DEF DoCopy, DoMeasure, DoChained, DoLastDecrypt, DoLoad, DoTest
  <2> QED
    BY <1>1, <2>1
<1>9. CASE UNCHANGED vars
  BY <1>1, <1>9 DEF vars
<1>10. CASE DoWrite
  <2>1. UNCHANGED <<backend, x509, aesKey, process>>
    BY <1>10 DEF DoWrite
  <2>2. call'.name = "protect"
    BY <1>10, Written
  <2> QED
    BY <2>1, <2>2 DEF Scalars, ChainCalls
<1> QED
  BY <1>2, <1>3, <1>4, <1>5, <1>6, <1>7, <1>8, <1>9, <1>10

\* The inductive invariant: what is live, what members point to and what was
\* released twice are as the calls of the program logic say, and the ends of
\* scopes that an exception would reach release what they have to.
THEOREM Resources == Spec => [](VerdictInv /\ ResourceInv)
<1>1. Init => ResourceInv
  <2> SUFFICES ASSUME Init PROVE ResourceInv
    OBVIOUS
  <2>1. /\ backend \in {"linux", "windows"} /\ process = "running" /\ aesKey = "none" /\ call = NoCall
        /\ live = EmptyBag /\ members = {} /\ twice = {}
    BY DEF Init
  <2>2. call.name = "none"
    BY <2>1 DEF NoCall
  <2>3. Scalars
    BY <2>1, <2>2 DEF Scalars, Keys, ChainCalls
  <2>4. Accounts(Free)
    BY <2>1, <2>2, HeldFree DEF Accounts
  <2> QED
    BY <2>3, <2>4 DEF ResourceInv
<1>2. VerdictInv /\ ResourceInv /\ [Next]_vars => ResourceInv'
  <2> SUFFICES ASSUME VerdictInv, ResourceInv, [Next]_vars PROVE ResourceInv'
    OBVIOUS
  <2>1. Scalars /\ \E a : Accounts(a)
    BY DEF ResourceInv
  <2>2. PICK a : Accounts(a)
    BY <2>1
  <2>3. CASE \/ DoRequest \/ DoCopy \/ DoAssign \/ DoMeasure \/ DoChained \/ DoLastDecrypt
             \/ DoLastEncrypt \/ DoWrite \/ DoLoad \/ DoAdd \/ DoBuildChain \/ DoTest
    <3>1. Accounts(a)'
      BY <2>2, <2>3, StillStep
    <3>2. Scalars'
      BY <2>1, <2>3, ScalarStep
    <3> QED
      BY <3>1, <3>2 DEF ResourceInv
  <2>4. CASE DoNew \/ NewFails \/ DoOwn \/ DoRelease
    <3>1. \E b : Accounts(b)'
      BY <2>2, <2>4, HandleStep
    <3>2. Scalars'
      BY <2>1, <2>4, ScalarStep
    <3> QED
      BY <3>1, <3>2 DEF ResourceInv
  <2>5. CASE DoConstructed \/ DoEnd
    <3>1. \E b : Accounts(b)'
      BY <2>2, <2>5, ConstructedStep, EndStep
    <3>2. Scalars'
      BY <2>1, <2>5, ScalarStep
    <3> QED
      BY <3>1, <3>2 DEF ResourceInv
  <2>6. CASE Terminate \/ UNCHANGED vars
    <3>1. UNCHANGED <<backend, call, code, raised, live, members, twice>>
      BY <2>6 DEF Terminate, vars
    <3>2. Accounts(a)'
      BY <2>2, <3>1, HeldSame
    <3>3. Scalars'
      BY <2>1, <2>6, ScalarStep
    <3> QED
      BY <3>2, <3>3 DEF ResourceInv
  <2>7. CASE Verify \/ Unwrap \/ Protect \/ Generate \/ Report
    <3>1. Accounts(Free)' /\ Scalars'
      BY <2>1, <2>7, HeldBegin
    <3> QED
      BY <3>1 DEF ResourceInv
  <2>8. CASE Return
    <3>1. call' = NoCall /\ UNCHANGED <<backend, live, members, twice>>
      BY <2>8 DEF Return
    <3>2. call'.name = "none"
      BY <3>1 DEF NoCall
    <3>3. Accounts(a)'
      BY <2>2, <3>1, <3>2 DEF Accounts, Windows
    <3>4. Scalars'
      BY <2>1, <2>8, ScalarStep
    <3> QED
      BY <3>3, <3>4 DEF ResourceInv
  <2> QED
    BY <2>3, <2>4, <2>5, <2>6, <2>7, <2>8 DEF Next, Terminated
<1> QED
  BY <1>1, <1>2, Verdicts, PTL DEF Spec

-----------------------------------------------------------------------------
(* What a call leaves behind *)

\* The pairs of an owner and a name in S
LEMMA OfIs ==
  ASSUME NEW o \in Owners, NEW S, \A n \in S : Ordinary(o, n), NEW r
  PROVE  r \in Of(o, S) <=> Plain(r) /\ r[1] = o /\ r[2] \in S
<1>1. ASSUME r \in Of(o, S) PROVE Plain(r) /\ r[1] = o /\ r[2] \in S
  <2>1. PICK n \in S : r = <<o, n>>
    BY <1>1 DEF Of
  <2>2. Ordinary(o, n)
    BY <2>1
  <2>3. Plain(<<o, n>>) /\ <<o, n>>[1] = o /\ <<o, n>>[2] = n
    BY <2>2, OrdinaryIsPlain
  <2> QED
    BY <2>1, <2>3
<1>2. ASSUME Plain(r), r[1] = o, r[2] \in S PROVE r \in Of(o, S)
  <2>1. PICK n : n = r[2]
    OBVIOUS
  <2>2. r = <<o, n>>
    BY <1>2, <2>1, PlainIs
  <2> QED
    BY <1>2, <2>1, <2>2 DEF Of
<1> QED
  BY <1>1, <1>2

\* Two owners have something that is never released
LEMMA NeverOfTwo ==
  ASSUME NEW c, NEW o \in Owners, NEW q \in Owners, o # q, NEW S, NEW T,
         \A n \in S : Ordinary(o, n), \A n \in T : Ordinary(q, n),
         Never(c, o) = S, Never(c, q) = T, \A p \in Owners : p \notin {o, q} => Never(c, p) = {},
         NEW r
  PROVE  r \in Of(o, S) \cup Of(q, T) <=> Plain(r) /\ r[2] \in Never(c, r[1])
<1>1. /\ r \in Of(o, S) <=> Plain(r) /\ r[1] = o /\ r[2] \in S
      /\ r \in Of(q, T) <=> Plain(r) /\ r[1] = q /\ r[2] \in T
  BY OfIs
<1>2. Plain(r) => r[1] \in Owners
  BY PlainIs
<1> QED
  BY <1>1, <1>2

\* NeverReleased, by owner
LEMMA NeverIs ==
  ASSUME NEW c, c = Context("holdings"), NEW r,
         call.name \in {"verify", "generate", "unwrap", "protect", "report"}
  PROVE  r \in NeverReleased <=> \/ Plain(r) /\ r[2] \in Never(c, r[1])
                                 \/ r = hAesKey /\ Windows /\ call.name \in Secrets
                                 \/ r = rootContext /\ Windows /\ call.name \in ChainCalls
                                 \/ r = mdCtx /\ ~Windows /\ call.name \in Secrets \cup {"report"}
<1>1. c.name = call.name /\ c.backend = backend /\ (call.name \in ChainCalls => c.last = Len(call.x5c))
  BY DEF Context
<1>2. OnWindows(c) <=> Windows
  BY <1>1 DEF OnWindows, Windows
<1>3. CASE ~Windows
  <2>1. \A o : Never(c, o) = {}
    BY <1>2, <1>3 DEF Never
  <2>2. NeverReleased = IF call.name \in ChainCalls THEN {} ELSE {mdCtx}
    BY <1>3 DEF NeverReleased, ChainCalls
  <2> QED
    BY <1>3, <2>1, <2>2 DEF Secrets, ChainCalls
<1>4. CASE Windows /\ call.name = "report"
  <2>1. \A o : Never(c, o) = {}
    BY <1>1, <1>4 DEF Never, ChainCalls
  <2>2. NeverReleased = {}
    BY <1>4 DEF NeverReleased
  <2> QED
    BY <1>4, <2>1, <2>2 DEF Secrets, ChainCalls
<1>5. CASE Windows /\ call.name \in ChainCalls
  <2>1. PICK o, q, S, T : /\ o = "x509" /\ q = "intermediate" /\ S = {"pLeafCertContext", "chainContext"}
                          /\ T = 2..Len(call.x5c)
    OBVIOUS
  <2>2. o \in Owners /\ q \in Owners /\ o # q
    BY <2>1, OwnerNames
  <2>3. (\A n \in S : Ordinary(o, n)) /\ (\A n \in T : Ordinary(q, n))
    BY <2>1 DEF Ordinary
  <2>4. Never(c, o) = S /\ Never(c, q) = T /\ \A p \in Owners : p \notin {o, q} => Never(c, p) = {}
    BY <1>1, <1>2, <1>5, <2>1 DEF Never, ChainCalls
  <2>5. r \in Of(o, S) \cup Of(q, T) <=> Plain(r) /\ r[2] \in Never(c, r[1])
    BY <2>2, <2>3, <2>4, NeverOfTwo
  <2>6. NeverReleased = {rootContext, leafContext, chainContext} \cup {intermediate(i) : i \in 2..Len(call.x5c)}
    BY <1>5 DEF NeverReleased, ChainCalls
  <2>7. Of(o, S) = {leafContext, chainContext} /\ Of(q, T) = {intermediate(i) : i \in 2..Len(call.x5c)}
    BY <2>1 DEF Of, leafContext, chainContext, intermediate
  <2>8. r \in NeverReleased <=> r = rootContext \/ r \in Of(o, S) \cup Of(q, T)
    BY <2>6, <2>7
  <2>9. call.name \notin Secrets
    BY <1>5 DEF Secrets, ChainCalls
  <2> QED
    BY <1>5, <2>5, <2>8, <2>9
<1>6. CASE Windows /\ call.name = "unwrap"
  <2>1. PICK o, q, S : /\ o = "ImportPkcs8PrivateKey" /\ q = "ImportSubjectPublicKeyInfo" /\ S = {"pekb"}
    OBVIOUS
  <2>2. o \in Owners /\ q \in Owners /\ o # q
    BY <2>1, OwnerNames
  <2>3. (\A n \in S : Ordinary(o, n)) /\ (\A n \in S : Ordinary(q, n))
    BY <2>1 DEF Ordinary
  <2>4. Never(c, o) = S /\ Never(c, q) = S /\ \A p \in Owners : p \notin {o, q} => Never(c, p) = {}
    BY <1>1, <1>2, <1>6, <2>1 DEF Never, ChainCalls
  <2>5. r \in Of(o, S) \cup Of(q, S) <=> Plain(r) /\ r[2] \in Never(c, r[1])
    BY <2>2, <2>3, <2>4, NeverOfTwo
  <2>6. NeverReleased = {hAesKey, Buffer("ImportPkcs8PrivateKey", "pekb"), Buffer("ImportSubjectPublicKeyInfo", "pekb")}
    BY <1>6 DEF NeverReleased
  <2>7. /\ Of(o, S) = {Buffer("ImportPkcs8PrivateKey", "pekb")}
        /\ Of(q, S) = {Buffer("ImportSubjectPublicKeyInfo", "pekb")}
    BY <2>1 DEF Of, Buffer
  <2>8. r \in NeverReleased <=> r = hAesKey \/ r \in Of(o, S) \cup Of(q, S)
    BY <2>6, <2>7
  <2>9. call.name \in Secrets /\ call.name \notin ChainCalls
    BY <1>6 DEF Secrets, ChainCalls
  <2> QED
    BY <1>6, <2>5, <2>8, <2>9
<1>7. CASE Windows /\ call.name = "protect"
  <2>1. PICK o, q, S, T :
          /\ o = "ExportPkcs8PrivateKey" /\ q = "ExportSubjectPublicKeyInfo"
          /\ S = {"privateKeyBlob", "pbCurveParameters", "PublicKey", "CryptBitBlob", "privateKeyInfo",
                  "derPrivateBytes"}
          /\ T = {"publicKeyBlob", "CryptBitBlob", "pbCurveParameters", "PublicKey", "Parameters", "pszObjId",
                  "derPublicBytes"}
    OBVIOUS
  <2>2. o \in Owners /\ q \in Owners /\ o # q
    BY <2>1, OwnerNames
  <2>3. (\A n \in S : Ordinary(o, n)) /\ (\A n \in T : Ordinary(q, n))
    BY <2>1 DEF Ordinary
  <2>4. Never(c, o) = S /\ Never(c, q) = T /\ \A p \in Owners : p \notin {o, q} => Never(c, p) = {}
    BY <1>1, <1>2, <1>7, <2>1 DEF Never, ChainCalls
  <2>5. r \in Of(o, S) \cup Of(q, T) <=> Plain(r) /\ r[2] \in Never(c, r[1])
    BY <2>2, <2>3, <2>4, NeverOfTwo
  <2>6. NeverReleased = {hAesKey} \cup {Buffer("ExportPkcs8PrivateKey", n) : n \in S} \cup
                        {Buffer("ExportSubjectPublicKeyInfo", n) : n \in T}
    BY <1>7, <2>1 DEF NeverReleased
  <2>7. /\ Of(o, S) = {Buffer("ExportPkcs8PrivateKey", n) : n \in S}
        /\ Of(q, T) = {Buffer("ExportSubjectPublicKeyInfo", n) : n \in T}
    BY <2>1 DEF Of, Buffer
  <2>8. r \in NeverReleased <=> r = hAesKey \/ r \in Of(o, S) \cup Of(q, T)
    BY <2>6, <2>7
  <2>9. call.name \in Secrets /\ call.name \notin ChainCalls
    BY <1>7 DEF Secrets, ChainCalls
  <2> QED
    BY <1>7, <2>5, <2>8, <2>9
<1> QED
  BY <1>3, <1>4, <1>5, <1>6, <1>7 DEF ChainCalls

\* What may be left on an error is in NotReleasedOnError
LEMMA OnErrorIs ==
  ASSUME NEW c, c.name \in ChainCalls => 2..c.last \subseteq Positions, NEW r, Plain(r), r[2] \in OnError(c, r[1])
  PROVE  r \in NotReleasedOnError
<1>1. PICK o, n : o = r[1] /\ n = r[2]
  OBVIOUS
<1>2. r = <<o, n>> /\ n \in OnError(c, o)
  BY <1>1, PlainIs
<1>3. CASE o = "intermediate"
  <2>1. n \in Positions
    BY <1>2, <1>3 DEF OnError
  <2> QED
    BY <1>2, <1>3, <2>1 DEF NotReleasedOnError, intermediate
<1>4. CASE o = "x509"
  <2>1. n \in {"hStore", "store", "intermediate_certs", "leafPrivateKey"}
    BY <1>2, <1>4 DEF OnError
  <2> QED
    BY <1>2, <1>4, <2>1 DEF NotReleasedOnError, hStore, store, intermediate_certs, leafPrivateKey
<1>5. CASE o = "ImportPkcs8PrivateKey"
  <2>1. n \in {"privateKeyInfo", "eccPrivateInfo"}
    BY <1>2, <1>5 DEF OnError
  <2> QED
    BY <1>2, <1>5, <2>1 DEF NotReleasedOnError, Buffer
<1>6. CASE o = "ImportSubjectPublicKeyInfo"
  <2>1. n \in {"PublicKeyInfo"}
    BY <1>2, <1>6 DEF OnError
  <2> QED
    BY <1>2, <1>6, <2>1 DEF NotReleasedOnError, Buffer
<1>7. CASE o = "aesWrapper"
  <2>1. n \in {"hAesHandle"}
    BY <1>2, <1>7 DEF OnError
  <2> QED
    BY <1>2, <1>7, <2>1 DEF NotReleasedOnError, hAesHandle
<1>8. CASE o \in {"Expand", "VerifySignature", "generateKey"}
  <2>1. \/ o = "Expand" /\ n = "hHash"
        \/ o = "VerifySignature" /\ n = "hKey"
        \/ o = "generateKey" /\ n = "ctx"
    BY <1>2, <1>8 DEF OnError
  <2> QED
    BY <1>2, <2>1 DEF NotReleasedOnError, hHash, hKey, pkeyCtx, Buffer
<1> QED
  BY <1>2, <1>3, <1>4, <1>5, <1>6, <1>7, <1>8 DEF OnError

\* What is live, what members point to and what was released twice are as
\* Accounts says
LEMMA HeldSays ==
  ASSUME NEW a, Accounts(a), NEW r
  PROVE  /\ IsABag(live) /\ Copies(r) = Amount(a, r) /\ Amount(a, r) \in Nat
         /\ r \in BagToSet(live) <=> Amount(a, r) > 0
         /\ r \in BagToSet(live) => live[r] = Amount(a, r)
         /\ r \in members <=> Member(a, r)
         /\ twice = Twice(a)
<1>1. PICK B : B = live
  OBVIOUS
<1>2. /\ IsABag(B) /\ Times(B, r) = Amount(a, r) /\ (r \in members <=> Member(a, r)) /\ twice = Twice(a)
  BY <1>1 DEF Accounts, HeldIs
<1>3. Times(B, r) \in Nat /\ (Times(B, r) > 0 <=> r \in BagToSet(B)) /\ (r \in BagToSet(B) => B[r] = Times(B, r))
  BY <1>2, TimesIs
<1>4. Copies(r) = Times(B, r)
  BY <1>1 DEF Copies, Times
<1> QED
  BY <1>1, <1>2, <1>3, <1>4

\* Where a call is over nothing is open any more, and a is settled unless
\* something was thrown
LEMMA HeldAtEnd ==
  ASSUME VerdictInv, NEW a, Accounts(a), call.name # "none", code = << >>, NEW c, c = Context("holdings")
  PROVE  /\ Safe(c, a) /\ Holdings(a)
         /\ \A o \in Owners : a[o].open = {}
         /\ a["key"].open = 0 /\ a["secret"].open = 0
         /\ ~raised => Settled(c, a)
<1>1. c.view = "holdings"
  BY DEF Context
<1>2. /\ Owed(code, Debts(a)) /\ IsSeq(code) /\ (raised => Safe(c, a)) /\ (~raised => Good(c, code, a))
      /\ Holdings(a)
  BY DEF Accounts, VerdictInv
<1>3. ~raised => Settled(c, a)
  BY <1>1, <1>2, GoodParts DEF Complete
<1>4. Safe(c, a)
  BY <1>2, <1>3 DEF Settled
<1>5. PICK w : w = Debts(a)
  OBVIOUS
<1>6. Clear(w)
  BY <1>2, <1>5, OwedParts
<1>7. \A p \in Debtors : w[p] = a[p].open
  BY <1>5 DEF Debts
<1> QED
  BY <1>2, <1>3, <1>4, <1>6, <1>7 DEF Clear, Debtors

\* The state is well typed: the cursor of AES-GCM stays within the data, and
\* nothing but the key of an AesWrapper, a root certificate and the context of a
\* hash is held more than once, whatever the calls and wherever they throw.
THEOREM TypeCorrect == Spec => []TypeOK
<1>1. ASSUME VerdictInv, ResourceInv PROVE TypeOK
  <2>1. Scalars /\ \E a : Accounts(a)
    BY <1>1 DEF ResourceInv
  <2>2. PICK a : Accounts(a)
    BY <2>1
  <2>3. Holdings(a)
    BY <2>2 DEF Accounts
  <2>4. PICK n \in 0..2 : a["key"].n = n
    <3>1. PICK i \in 0..2, m \in 0..1, p \in 0..1 : a["key"] = Kv(i, m, p)
      BY <2>3 DEF Holdings
    <3> QED
      BY <3>1 DEF Kv
  <2>5. a["secret"].n \in 0..1
    <3>1. PICK i \in 0..1, m \in 0..1, p \in 0..2, h \in 0..1, t \in 0..1 : a["secret"] = Sv(i, m, p, h, t)
      BY <2>3 DEF Holdings
    <3> QED
      BY <3>1 DEF Sv
  <2>6. PICK k \in 0..Cardinality(TrustedRoots) + 1 : a["roots"].n = k
    <3>1. PICK i \in 0..Cardinality(TrustedRoots) + 1 : a["roots"] = Count(i)
      BY <2>3 DEF Holdings
    <3> QED
      BY <3>1 DEF Count
  <2>7. ASSUME NEW r \in BagToSet(live) \ {hAesKey, rootContext, mdCtx} PROVE live[r] = 1
    <3>1. live[r] = Amount(a, r) /\ Amount(a, r) \in Nat /\ Amount(a, r) > 0
      BY <2>2, <2>7, HeldSays
    <3>2. CASE r = Shared
      <4>1. Amount(a, r) \in 0..1
        BY <2>5, <3>2, AmountIs
      <4> QED
        BY <3>1, <4>1
    <3>3. CASE r # Shared
      <4>1. r \notin Specials
        BY <2>7, <3>3 DEF Specials
      <4>2. Amount(a, r) = IF Plain(r) /\ r[2] \in a[r[1]].live THEN 1 ELSE 0
        BY <4>1, AmountIs
      <4> QED
        BY <3>1, <4>2
    <3> QED
      BY <3>2, <3>3
  <2>8. IsABag(live) /\ Copies(hAesKey) = n /\ Copies(rootContext) = k
    BY <2>2, <2>4, <2>6, HeldSays, AmountIs
  <2>9. k <= Cardinality(TrustedRoots) + 1
    <3>1. Cardinality(TrustedRoots) \in Nat
      BY ConstantsAssumption, FS_CardinalityType
    <3> QED
      BY <2>6, <3>1
  <2>10. gcm.offset \in 0..gcm.length /\ gcm.done \in 0..numBlocks(gcm.length)
    <3>1. PICK o, d, l, q : o = gcm.offset /\ d = gcm.done /\ l = gcm.length /\ q = numBlocks(l)
      OBVIOUS
    <3>2. o \in Nat /\ d \in Nat /\ l \in Nat /\ o <= l /\ d <= q
      BY <1>1, <3>1 DEF VerdictInv, Cursor
    <3>3. q \in Nat
      BY <3>1, <3>2, Blocks
    <3> QED
      BY <3>1, <3>2, <3>3
  <2>11. /\ backend \in {"linux", "windows"} /\ process \in {"running", "terminated"}
         /\ aesKey \in {"none", "transport", "derived"}
    BY <2>1 DEF Scalars, Keys
  <2>12. raised \in BOOLEAN /\ fault \in BOOLEAN /\ made \subseteq Token
    BY <1>1 DEF VerdictInv
  <2>13. Copies(hAesKey) <= 2 /\ Copies(rootContext) <= Cardinality(TrustedRoots) + 1
    BY <2>4, <2>8, <2>9
  <2> QED
    BY <2>7, <2>8, <2>10, <2>11, <2>12, <2>13 DEF TypeOK
<1> QED
  BY <1>1, Resources, PTL

\* Nothing is released twice but the shared secret that BcryptECDH and
\* BcryptHKDF both own, and that exactly when there was a BcryptHKDF.
THEOREM SecretTwice == Spec => []OnlySharedSecretTwice
<1>1. ASSUME VerdictInv, ResourceInv PROVE OnlySharedSecretTwice
  <2>1. PICK a : Accounts(a)
    BY <1>1 DEF ResourceInv
  <2>2. twice = Twice(a)
    BY <2>1, HeldSays
  <2>3. Holdings(a) /\ (a["secret"].twice = 1 => Windows)
    BY <2>1 DEF Accounts
  <2>4. twice \subseteq (IF Windows THEN {hSharedSecret("ecdhPrivate")} ELSE {})
    BY <2>2, <2>3 DEF Twice, Shared
  <2>5. ASSUME Over("unwrap") \/ Over("protect") PROVE (twice # {}) = (hAlg \in members)
    <3>1. code = << >> /\ call.name # "none"
      BY <2>5 DEF Over
    <3>2. PICK c : c = Context("holdings")
      OBVIOUS
    <3>3. Safe(c, a) /\ a["secret"].open = 0
      BY <1>1, <2>1, <3>1, <3>2, HeldAtEnd
    <3>4. PICK v : v = a["secret"]
      OBVIOUS
    <3>5. SafeSecret(c, v) /\ v.open = 0 /\ (v.hkdf = 1 <=> "hAlg" \in a["hkdf"].members)
      BY <3>3, <3>4 DEF Safe
    <3>6. v.hkdf \in 0..1 /\ v.twice \in 0..1
      <4>1. PICK n \in 0..1, m \in 0..1, p \in 0..2, h \in 0..1, t \in 0..1 : v = Sv(n, m, p, h, t)
        BY <2>3, <3>4 DEF Holdings
      <4> QED
        BY <4>1 DEF Sv
    <3>7. v.twice = 1 <=> v.hkdf = 1
      BY <3>5, <3>6 DEF SafeSecret
    <3>8. hAlg \in members <=> "hAlg" \in a["hkdf"].members
      <4>1. "hkdf" \in Owners /\ Ordinary("hkdf", "hAlg")
        BY DEF Owners, Ordinary
      <4>2. PICK o, n : o = "hkdf" /\ n = "hAlg"
        OBVIOUS
      <4>3. Plain(<<o, n>>) /\ <<o, n>> \notin Specials /\ <<o, n>>[1] = o /\ <<o, n>>[2] = n
        BY <4>1, <4>2, OrdinaryIsPlain
      <4>4. PICK r : r = <<o, n>>
        OBVIOUS
      <4>5. Member(a, r) <=> n \in a[o].members
        BY <4>3, <4>4, MemberIs
      <4>6. r = hAlg
        BY <4>2, <4>4 DEF hAlg
      <4> QED
        BY <2>1, <4>2, <4>5, <4>6, HeldSays
    <3>9. twice # {} <=> v.twice = 1
      BY <2>2, <3>4 DEF Twice
    <3> QED
      BY <3>5, <3>7, <3>8, <3>9
  <2> QED
    BY <2>4, <2>5 DEF OnlySharedSecretTwice
<1> QED
  BY <1>1, Resources, PTL

\* A call that was not refused has a root to trust
LEMMA HasRoot ==
  ASSUME VerdictInv, Scalars, AcceptsExactlyTrusted, process = "running", call.name = "verify", code = << >>, ~raised
  PROVE  Cardinality(TrustedRoots) \in Nat \ {0}
<1>1. fault = FALSE /\ raised = FALSE
  BY DEF VerdictInv
<1>2. Over("verify")
  BY DEF Over
<1>3. \E root : root \in x509.roots
  BY <1>1, <1>2 DEF AcceptsExactlyTrusted
<1>4. TrustedRoots # {}
  BY <1>3 DEF Scalars
<1>5. IsFiniteSet(TrustedRoots)
  BY ConstantsAssumption
<1> QED
  BY <1>4, <1>5, FS_CardinalityType, FS_EmptySet

\* What a call that was not refused leaves
LEMMA LeftNormally ==
  ASSUME VerdictInv, Scalars, AcceptsExactlyTrusted, process = "running", NEW a, Accounts(a), call.name # "none",
         code = << >>, ~raised
  PROVE  BagToSet(live) = NeverReleased
<1>1. PICK c : c = Context("holdings")
  OBVIOUS
<1>2. Settled(c, a)
  BY <1>1, HeldAtEnd
<1>3. c.name = call.name /\ c.backend = backend
  BY <1>1 DEF Context
<1>4. OnWindows(c) <=> Windows
  BY <1>3 DEF OnWindows, Windows
<1>5. call.name \in {"verify", "generate", "unwrap", "protect", "report"}
  BY DEF VerdictInv, CallTyped
<1>6. /\ a["key"].n > 0 <=> Windows /\ call.name \in Secrets
      /\ a["secret"].n = 0
      /\ a["contexts"].n > 0 <=> ~Windows /\ call.name \in Secrets \cup {"report"}
  BY <1>2, <1>3, <1>4 DEF Settled
<1>7. a["roots"].n > 0 <=> Windows /\ call.name \in ChainCalls
  <2>1. a["roots"].n = IF Windows /\ call.name = "verify" THEN Cardinality(TrustedRoots)
                       ELSE IF Windows /\ call.name = "generate" THEN 1 ELSE 0
    BY <1>2, <1>3, <1>4 DEF Settled
  <2>2. CASE call.name = "verify"
    BY <2>1, <2>2, HasRoot DEF ChainCalls
  <2>3. CASE call.name # "verify"
    BY <2>1, <2>3 DEF ChainCalls
  <2> QED
    BY <2>2, <2>3
<1>8. ASSUME NEW r PROVE r \in BagToSet(live) <=> r \in NeverReleased
  <2>1. r \in BagToSet(live) <=> Amount(a, r) > 0
    BY HeldSays
  <2>2. r \in NeverReleased <=> \/ Plain(r) /\ r[2] \in Never(c, r[1])
                                \/ r = hAesKey /\ Windows /\ call.name \in Secrets
                                \/ r = rootContext /\ Windows /\ call.name \in ChainCalls
                                \/ r = mdCtx /\ ~Windows /\ call.name \in Secrets \cup {"report"}
    BY <1>1, <1>5, NeverIs
  <2>3. Plain(r) => r \notin Specials /\ r[1] \in Owners
    BY PlainIs
  <2>4. CASE r = hAesKey
    <3>1. ~Plain(r) /\ r # rootContext /\ r # mdCtx
      BY <2>3, <2>4, FourSpecials DEF Specials
    <3> QED
      BY <1>6, <2>1, <2>2, <2>4, <3>1, AmountIs
  <2>5. CASE r = Shared
    <3>1. ~Plain(r) /\ r # hAesKey /\ r # rootContext /\ r # mdCtx
      BY <2>3, <2>5, FourSpecials DEF Specials
    <3>2. Amount(a, r) = 0
      BY <1>6, <2>5, AmountIs
    <3> QED
      BY <2>1, <2>2, <3>1, <3>2
  <2>6. CASE r = rootContext
    <3>1. ~Plain(r) /\ r # hAesKey /\ r # mdCtx
      BY <2>3, <2>6, FourSpecials DEF Specials
    <3> QED
      BY <1>7, <2>1, <2>2, <2>6, <3>1, AmountIs
  <2>7. CASE r = mdCtx
    <3>1. ~Plain(r) /\ r # hAesKey /\ r # rootContext
      BY <2>3, <2>7, FourSpecials DEF Specials
    <3> QED
      BY <1>6, <2>1, <2>2, <2>7, <3>1, AmountIs
  <2>8. CASE r \notin Specials
    <3>1. r # hAesKey /\ r # rootContext /\ r # mdCtx
      BY <2>8 DEF Specials
    <3>2. Amount(a, r) = IF Plain(r) /\ r[2] \in a[r[1]].live THEN 1 ELSE 0
      BY <2>8, AmountIs
    <3>3. Plain(r) => a[r[1]].live = Never(c, r[1])
      BY <1>2, <2>3 DEF Settled
    <3>4. Amount(a, r) > 0 <=> Plain(r) /\ r[2] \in Never(c, r[1])
      BY <3>2, <3>3
    <3> QED
      BY <2>1, <2>2, <3>1, <3>4
  <2> QED
    BY <2>4, <2>5, <2>6, <2>7, <2>8 DEF Specials
<1> QED
  BY <1>8

\* What a call leaves in any case
LEMMA LeftAnyway ==
  ASSUME VerdictInv, Scalars, NEW a, Accounts(a), call.name # "none", code = << >>
  PROVE  /\ BagToSet(live) \subseteq NeverReleased \cup NotReleasedOnError
         /\ Copies(hAesKey) <= 1
<1>1. PICK c : c = Context("holdings")
  OBVIOUS
<1>2. /\ Safe(c, a) /\ Holdings(a) /\ (\A o \in Owners : a[o].open = {})
      /\ a["key"].open = 0 /\ a["secret"].open = 0
  BY <1>1, HeldAtEnd
<1>3. /\ c.name = call.name /\ c.backend = backend
      /\ c.name \in ChainCalls => c.last = Len(call.x5c)
  BY <1>1 DEF Context
<1>4. OnWindows(c) <=> Windows
  BY <1>3 DEF OnWindows, Windows
<1>5. call.name \in {"verify", "generate", "unwrap", "protect", "report"}
  BY DEF VerdictInv, CallTyped
<1>6. c.name \in ChainCalls => 2..c.last \subseteq Positions
  BY <1>3 DEF Scalars
<1>7. PICK k, m : k = a["key"].n /\ m = a["secret"].n
  OBVIOUS
<1>8. k <= 1 /\ (k # 0 => Windows /\ call.name \in Secrets)
  BY <1>2, <1>3, <1>4, <1>7 DEF Safe, SafeKey
<1>9. m = 0
  <2>1. m \in 0..1
    <3>1. PICK n \in 0..1, i \in 0..1, p \in 0..2, h \in 0..1, t \in 0..1 : a["secret"] = Sv(n, i, p, h, t)
      BY <1>2 DEF Holdings
    <3> QED
      BY <1>7, <3>1 DEF Sv
  <2>2. m # 1
    BY <1>2, <1>7 DEF Safe, SafeSecret
  <2> QED
    BY <2>1, <2>2
<1>10. /\ a["roots"].n # 0 => Windows /\ call.name \in ChainCalls
       /\ a["contexts"].n # 0 => ~Windows /\ call.name \in Secrets \cup {"report"}
  BY <1>2, <1>3, <1>4 DEF Safe, SafeRoots, SafeContexts
<1>11. ASSUME NEW r \in BagToSet(live) PROVE r \in NeverReleased \cup NotReleasedOnError
  <2>1. Amount(a, r) > 0 /\ Amount(a, r) \in Nat
    BY <1>11, HeldSays
  <2>2. r \in NeverReleased <=> \/ Plain(r) /\ r[2] \in Never(c, r[1])
                                \/ r = hAesKey /\ Windows /\ call.name \in Secrets
                                \/ r = rootContext /\ Windows /\ call.name \in ChainCalls
                                \/ r = mdCtx /\ ~Windows /\ call.name \in Secrets \cup {"report"}
    BY <1>1, <1>5, NeverIs
  <2>3. Amount(a, r) # 0
    BY <2>1
  <2>4. CASE r = hAesKey
    BY <1>7, <1>8, <2>2, <2>3, <2>4, AmountIs
  <2>5. CASE r = Shared
    BY <1>7, <1>9, <2>3, <2>5, AmountIs
  <2>6. CASE r = rootContext
    BY <1>10, <2>2, <2>3, <2>6, AmountIs
  <2>7. CASE r = mdCtx
    BY <1>10, <2>2, <2>3, <2>7, AmountIs
  <2>8. CASE r \notin Specials
    <3>1. Plain(r) /\ r[2] \in a[r[1]].live
      BY <2>3, <2>8, AmountIs
    <3>2. PICK o, n, v : o = r[1] /\ n = r[2] /\ v = a[o]
      OBVIOUS
    <3>3. o \in Owners /\ n \in v.live /\ v.open = {}
      BY <1>2, <3>1, <3>2, PlainIs
    <3>4. SafeOwner(c, o, v)
      BY <1>2, <3>2, <3>3 DEF Safe
    <3>5. n \in Never(c, o) \cup OnError(c, o)
      BY <3>3, <3>4 DEF SafeOwner
    <3>6. CASE n \in Never(c, o)
      BY <2>2, <3>1, <3>2, <3>6
    <3>7. CASE n \in OnError(c, o)
      <4>1. r[2] \in OnError(c, r[1])
        BY <3>2, <3>7
      <4> QED
        BY <1>6, <3>1, <4>1, OnErrorIs
    <3> QED
      BY <3>5, <3>6, <3>7
  <2> QED
    BY <2>4, <2>5, <2>6, <2>7, <2>8 DEF Specials
<1>12. Copies(hAesKey) = k
  BY <1>7, HeldSays, AmountIs
<1> QED
  BY <1>8, <1>11, <1>12

\* A call that succeeds leaves exactly what the code never releases, one that
\* throws, wherever it does, leaves besides only what the code does not release
\* on an error, and of the keys of an AesWrapper at most the one that a second
\* SetKey has replaced.
THEOREM Leftovers == Spec => []LeftoversExplained
<1>1. ASSUME VerdictInv, ResourceInv, AcceptsExactlyTrusted PROVE LeftoversExplained
  <2>1. Scalars /\ \E a : Accounts(a)
    BY <1>1 DEF ResourceInv
  <2>2. PICK a : Accounts(a)
    BY <2>1
  <2>3. ASSUME process = "running", call.name # "none", code = << >>
        PROVE  /\ ~raised => BagToSet(live) = NeverReleased
               /\ raised => BagToSet(live) \subseteq NeverReleased \cup NotReleasedOnError
               /\ Copies(hAesKey) <= 1
    <3>1. ~raised => BagToSet(live) = NeverReleased
      BY <1>1, <2>1, <2>2, <2>3, LeftNormally
    <3>2. /\ BagToSet(live) \subseteq NeverReleased \cup NotReleasedOnError
          /\ Copies(hAesKey) <= 1
      BY <1>1, <2>1, <2>2, <2>3, LeftAnyway
    <3> QED
      BY <3>1, <3>2
  <2> QED
    BY <2>3 DEF LeftoversExplained
<1> QED
  BY <1>1, Resources, VerdictsAreRight, PTL
=============================================================================
