-------------------------- MODULE TpmObjectsProofs --------------------------
(***************************************************************************)
(* Proofs about TpmObjects, for any number of slots, PCRs, banks and calls *)
(* and every order of the tests: what holds of the sessions and of the     *)
(* persistent EK whatever request fails, and what a call leaves on its own *)
(* connection, when it succeeds and when it throws.                        *)
(*                                                                         *)
(* What is left of a call is a sequence of instructions, so the invariant  *)
(* of the sessions is a typing of that sequence.  A function is well       *)
(* formed if sessions are started inside the scope of a Tss2Session only,  *)
(* the second one only directly after a flush, and tmpCtx is used inside   *)
(* its own scope only; the typing is kept by splicing in a body and by an  *)
(* exception, which drops instructions up to the next end of a scope.      *)
(*                                                                         *)
(* The balance of the objects needs more, a program logic.  Triple(c, s,   *)
(* a, b) says that the sequence s, run by the call c with the objects a    *)
(* beyond those the call found, ends with b if it ends normally, and that  *)
(* wherever it throws out of s what is left then is explained (Fits).      *)
(* Functions nest, so triples of a body and of a handler are needed for    *)
(* the triple of a scope: a triple holds if it belongs to a set of triples *)
(* each of which follows from the others by one instruction (Closed).      *)
(***************************************************************************)
EXTENDS TpmObjects, WellFoundedInduction, TLAPS

-----------------------------------------------------------------------------
(* Well-formed instructions *)

Object == {"ek", "aik"}

\* Neither a scope nor a session; keys are made and flushed on C only
Plain(C) ==
  [op : {"command", "select", "rethrow"}]
  \cup [op : {"open"}, object : Object]
  \cup [op : {"pcr_read"}, alg : Bank, until : {"all_counted", "mask_empty"}]
  \cup [op : {"evict_control"}, handle : {"0", "persistent"}]
  \cup [op : {"create", "flush_object"}, ctx : C, kind : Kind]

Policy(c) == [op : {"start", "flush"}, ctx : {c}]
Conditional == [op : {"if_opens"}, object : Object, body : Seq(Plain({g}))]
OuterTry ==
  [op : {"try"}, body : Seq(Plain({g}) \cup Conditional), handler : Seq(Plain({g}))]
TryEnd == [op : {"end_try"}, handler : Seq(Plain({g}))]

\* x is a start, or a try block with one
MayStart(x) ==
  \/ x.op = "start"
  \/ x.op = "try" /\ \E n \in DOMAIN x.body : x.body[n].op = "start"

\* The start at i directly follows a flush
Restarts(s, i) == s[i].op = "start" /\ i > 1 /\ s[i - 1].op = "flush"

\* Only the first start of s may come without a flush, and only if no session
\* is open when s begins
StartsOnce(s, open) ==
  \A i \in DOMAIN s : MayStart(s[i]) =>
    Restarts(s, i) \/ (~open /\ \A j \in DOMAIN s : j < i => ~MayStart(s[j]))

\* Inside a Tss2Session of c: a body as it is written, and what is left of it
InnerTry ==
  {x \in [op : {"try"}, body : Seq(Plain({g}) \cup Policy(g)), handler : Seq(Plain({g}))] :
     StartsOnce(x.body, FALSE)}
Body(c) == Plain({c}) \cup Policy(c) \cup (IF c = g THEN InnerTry ELSE {})
Inside(c) == Body(c) \cup (IF c = g THEN TryEnd ELSE {})

Session(c) == {x \in [op : {"session"}, ctx : {c}, body : Seq(Body(c))] : StartsOnce(x.body, FALSE)}
SessionEnd == [op : {"close_session"}, ctx : Ctx]

\* Outside of every Tss2Session
Function(C) == Plain(C) \cup Conditional \cup OuterTry \cup {x \in Session(g) \cup Session(t) : x.ctx \in C}
Connection == [op : {"connect"}, body : Seq(Function(Ctx))]
CtxEnd == [op : {"close_ctx"}]
Outside == Function(Ctx) \cup Connection \cup TryEnd \cup SessionEnd \cup CtxEnd

\* What a call begins with
Call == Function({g}) \cup Connection

Instruction == Outside \cup Inside(g) \cup Inside(t)

-----------------------------------------------------------------------------
(* The inductive invariant *)

\* Before the end of a session there is only what may be inside, behind it, and
\* where there is none, only what may be outside
SessionScope(s) ==
  \A i \in DOMAIN s :
    \/ \E k \in DOMAIN s : i < k /\ s[k] \in SessionEnd /\ s[i] \in Inside(s[k].ctx)
    \/ s[i] \in Outside /\ \A k \in DOMAIN s : i < k => s[k] \notin SessionEnd

\* tmpCtx is used before its end only, and there is one of it
OnTmpCtx(x) == x.op \in {"create", "flush_object", "session", "close_session"} /\ x.ctx = t
CtxScope(s) ==
  \A i \in DOMAIN s :
    /\ OnTmpCtx(s[i]) => \E m \in DOMAIN s : i < m /\ s[m].op = "close_ctx"
    /\ s[i].op \in {"connect", "close_ctx"} =>
         \A m \in DOMAIN s : i < m => s[m].op # "close_ctx"

WellFormed(s) == s \in Seq(Instruction) /\ SessionScope(s) /\ CtxScope(s)

\* An open session has its end still to come
Open == \E ctx \in Ctx : session[ctx]
SessionsScoped ==
  /\ session \in [Ctx -> BOOLEAN]
  /\ sessions = [ctx \in Ctx |-> IF session[ctx] THEN 1 ELSE 0]
  /\ \A ctx \in Ctx : session[ctx] =>
       \E k \in DOMAIN code : code[k].op = "close_session" /\ code[k].ctx = ctx

\* So have the objects of tmpCtx
ObjectsScoped ==
  /\ DOMAIN objects = Ctx
  /\ objects[t] # None => \E m \in DOMAIN code : code[m].op = "close_ctx"

Inv ==
  /\ WellFormed(code)
  /\ StartsOnce(code, Open)
  /\ SessionsScoped
  /\ ObjectsScoped
  /\ call = "none" => code = << >>
  /\ mode # "library" => todo \in Seq(Test)

-----------------------------------------------------------------------------
(* Sequences *)

\* A sequence over a set is one over a larger set
LEMMA SeqMonotone == ASSUME NEW S, NEW T, S \subseteq T PROVE Seq(S) \subseteq Seq(T)
<1> SUFFICES ASSUME NEW s \in Seq(S) PROVE s \in Seq(T)
  OBVIOUS
<1>1. s \in [1..Len(s) -> S] /\ Len(s) \in Nat
  OBVIOUS
<1>2. s \in [1..Len(s) -> T]
  BY <1>1
<1> QED
  BY <1>1, <1>2

\* The elements of a concatenation are those of its parts, in their order
LEMMA Concatenation ==
  ASSUME NEW S, NEW a \in Seq(S), NEW b \in Seq(S)
  PROVE  /\ a \o b \in Seq(S)
         /\ Len(a) \in Nat /\ Len(b) \in Nat /\ Len(a \o b) = Len(a) + Len(b)
         /\ DOMAIN a = 1..Len(a) /\ DOMAIN b = 1..Len(b)
         /\ DOMAIN (a \o b) = 1..(Len(a) + Len(b))
         /\ \A i \in 1..Len(a) : (a \o b)[i] = a[i]
         /\ \A i \in 1..Len(b) : (a \o b)[Len(a) + i] = b[i]
         /\ \A i \in DOMAIN (a \o b) : i \in 1..Len(a) \/ (\E j \in 1..Len(b) : i = Len(a) + j)
<1>1. /\ a \o b \in Seq(S)
      /\ Len(a) \in Nat /\ Len(b) \in Nat /\ Len(a \o b) = Len(a) + Len(b)
      /\ DOMAIN a = 1..Len(a) /\ DOMAIN b = 1..Len(b)
      /\ DOMAIN (a \o b) = 1..(Len(a) + Len(b))
  OBVIOUS
<1>2. \A i \in 1..Len(a) : (a \o b)[i] = a[i]
  OBVIOUS
<1>3. \A i \in 1..Len(b) : (a \o b)[Len(a) + i] = b[i]
  OBVIOUS
<1>4. ASSUME NEW i \in 1..(Len(a) + Len(b)), i \notin 1..Len(a)
      PROVE  \E j \in 1..Len(b) : i = Len(a) + j
  <2>1. i - Len(a) \in 1..Len(b) /\ i = Len(a) + (i - Len(a))
    BY <1>1, <1>4
  <2> QED
    BY <2>1
<1> QED
  BY <1>1, <1>2, <1>3, <1>4

-----------------------------------------------------------------------------
(* The functions of the library are well formed *)

\* What asks for one thing
LEMMA PlainInstructions ==
  ASSUME NEW C
  PROVE  /\ Command \in Plain(C) /\ Rethrow \in Plain(C) /\ [op |-> "select"] \in Plain(C)
         /\ \A o \in Object : HandleToEsys(o) \in Plain(C)
         /\ \A alg \in Bank, until \in {"all_counted", "mask_empty"} :
              PCR_Read(alg, until) \in Plain(C)
         /\ \A h \in {"0", "persistent"} : EvictControl(h) \in Plain(C)
         /\ \A c \in C, k \in Kind :
              Create(c, k) \in Plain(C) /\ FlushObjectContext(c, k) \in Plain(C)
<1>1. Command \in Plain(C) /\ Rethrow \in Plain(C) /\ [op |-> "select"] \in Plain(C)
  BY DEF Plain, Command, Rethrow
<1>2. \A o \in Object : HandleToEsys(o) \in Plain(C)
  BY DEF Plain, HandleToEsys
<1>3. \A alg \in Bank, until \in {"all_counted", "mask_empty"} : PCR_Read(alg, until) \in Plain(C)
  BY DEF Plain, PCR_Read
<1>4. \A h \in {"0", "persistent"} : EvictControl(h) \in Plain(C)
  BY DEF Plain, EvictControl
<1>5. \A c \in C, k \in Kind : Create(c, k) \in Plain(C) /\ FlushObjectContext(c, k) \in Plain(C)
  BY DEF Plain, Create, FlushObjectContext
<1> QED
  BY <1>1, <1>2, <1>3, <1>4, <1>5

\* A larger set of connections allows more
LEMMA PlainMonotone == ASSUME NEW C, NEW D, C \subseteq D PROVE Plain(C) \subseteq Plain(D)
BY DEF Plain

\* Functions without a scope
LEMMA PlainFunctions ==
  ASSUME NEW C
  PROVE  /\ GetTssPcrSelection \in Seq(Plain(C))
         /\ \A alg \in Bank : /\ PopulateCurrentPcrs(alg) \in Seq(Plain(C))
                              /\ TestUtil_PopulateCurrentPcrs(alg) \in Seq(Plain(C))
         /\ NvRead \in Seq(Plain(C))
         /\ \A o \in Object : GetPublicObject(o) \in Seq(Plain(C))
         /\ \A c \in C : /\ GenerateEk(c) \in Seq(Plain(C))
                         /\ GenerateEkFromSpec(c) \in Seq(Plain(C))
                         /\ GenerateAndPersistEk(c) \in Seq(Plain(C))
<1> USE PlainInstructions
<1>1. GetTssPcrSelection \in Seq(Plain(C))
  BY DEF GetTssPcrSelection, GetPcrCount
<1>2. \A alg \in Bank : /\ PopulateCurrentPcrs(alg) \in Seq(Plain(C))
                        /\ TestUtil_PopulateCurrentPcrs(alg) \in Seq(Plain(C))
  BY <1>1, Concatenation DEF PopulateCurrentPcrs, TestUtil_PopulateCurrentPcrs
<1>3. NvRead \in Seq(Plain(C))
  BY DEF NvRead
<1>4. \A o \in Object : GetPublicObject(o) \in Seq(Plain(C))
  BY DEF GetPublicObject
<1>5. \A c \in C : GenerateEk(c) \in Seq(Plain(C)) /\ GenerateEkFromSpec(c) \in Seq(Plain(C))
  BY DEF GenerateEk, GenerateEkFromSpec, PopulateEkPublicInput, Kind
<1>6. \A c \in C : GenerateAndPersistEk(c) \in Seq(Plain(C))
  BY <1>5, Concatenation DEF GenerateAndPersistEk
<1> QED
  BY <1>1, <1>2, <1>3, <1>4, <1>5, <1>6

\* Every start of s follows a flush
Guarded(s) == \A i \in DOMAIN s : MayStart(s[i]) => Restarts(s, i)

\* A sequence of plain instructions has no start
LEMMA PlainIsGuarded == ASSUME NEW C, NEW s \in Seq(Plain(C)) PROVE Guarded(s)
<1>1. \A i \in DOMAIN s : s[i] \in Plain(C)
  OBVIOUS
<1>2. ASSUME NEW x \in Plain(C) PROVE ~MayStart(x)
  BY <1>2 DEF Plain, MayStart
<1> QED
  BY <1>1, <1>2 DEF Guarded

\* Restart is a flush and a start
LEMMA RestartIsGuarded ==
  ASSUME NEW c PROVE Guarded(Restart(c)) /\ Restart(c) \in Seq(Policy(c))
<1>1. /\ Restart(c) \in Seq(Policy(c)) /\ Len(Restart(c)) = 2 /\ DOMAIN Restart(c) = 1..2
      /\ Restart(c)[1].op = "flush" /\ Restart(c)[2].op = "start"
  BY DEF Restart, Flush, Start, Policy
<1> QED
  BY <1>1 DEF Guarded, MayStart, Restarts

\* What follows a start may only restart
LEMMA StartsConcat ==
  ASSUME NEW S, NEW a \in Seq(S), NEW b \in Seq(S), Guarded(b)
  PROVE  /\ Guarded(a) => Guarded(a \o b)
         /\ StartsOnce(a, FALSE) => StartsOnce(a \o b, FALSE)
<1> DEFINE s == a \o b
<1>1. /\ Len(a) \in Nat /\ Len(b) \in Nat
      /\ DOMAIN a = 1..Len(a) /\ DOMAIN b = 1..Len(b) /\ DOMAIN s = 1..(Len(a) + Len(b))
      /\ \A i \in 1..Len(a) : s[i] = a[i]
      /\ \A i \in 1..Len(b) : s[Len(a) + i] = b[i]
      /\ \A i \in DOMAIN s : i \in 1..Len(a) \/ (\E j \in 1..Len(b) : i = Len(a) + j)
  BY Concatenation
<1> HIDE DEF s
<1>2. ASSUME NEW j \in 1..Len(b), MayStart(s[Len(a) + j]) PROVE Restarts(s, Len(a) + j)
  <2>1. b[j].op = "start" /\ j > 1 /\ b[j - 1].op = "flush" /\ s[Len(a) + j] = b[j]
    BY <1>1, <1>2 DEF Guarded, Restarts
  <2>2. j - 1 \in 1..Len(b) /\ Len(a) + j - 1 = Len(a) + (j - 1) /\ Len(a) + j > 1
    BY <1>1, <2>1
  <2>3. s[Len(a) + j - 1] = b[j - 1]
    BY <1>1, <2>2
  <2> QED
    BY <2>1, <2>2, <2>3 DEF Restarts
<1>3. ASSUME NEW i \in 1..Len(a) PROVE Restarts(a, i) => Restarts(s, i)
  <2> SUFFICES ASSUME a[i].op = "start", i > 1, a[i - 1].op = "flush"
               PROVE  Restarts(s, i)
    BY DEF Restarts
  <2>1. i - 1 \in 1..Len(a)
    BY <1>1
  <2> QED
    BY <1>1, <2>1 DEF Restarts
<1>4. Guarded(a) => Guarded(s)
  <2> SUFFICES ASSUME Guarded(a), NEW i \in DOMAIN s, MayStart(s[i]) PROVE Restarts(s, i)
    BY DEF Guarded
  <2>1. CASE i \in 1..Len(a)
    BY <1>1, <1>3, <2>1 DEF Guarded
  <2> QED
    BY <1>1, <1>2, <2>1
<1>5. StartsOnce(a, FALSE) => StartsOnce(s, FALSE)
  <2> SUFFICES ASSUME StartsOnce(a, FALSE), NEW i \in DOMAIN s, MayStart(s[i]),
                      ~Restarts(s, i)
               PROVE  \A j \in DOMAIN s : j < i => ~MayStart(s[j])
    BY DEF StartsOnce
  <2>1. i \in 1..Len(a)
    BY <1>1, <1>2
  <2>2. \A j \in 1..Len(a) : j < i => ~MayStart(a[j])
    BY <1>1, <1>3, <2>1 DEF StartsOnce
  <2>3. ASSUME NEW j \in DOMAIN s, j < i PROVE j \in 1..Len(a)
    BY <1>1, <2>1, <2>3
  <2> QED
    BY <1>1, <2>2, <2>3
<1> QED
  BY <1>4, <1>5 DEF s

\* A body that begins with a start has no other one before it
LEMMA StartFirst ==
  ASSUME NEW c, NEW x \in Plain({c}), NEW y \in Plain({c})
  PROVE  <<Start(c), x, y>> \in Seq(Body(c)) /\ StartsOnce(<<Start(c), x, y>>, FALSE)
<1> DEFINE s == <<Start(c), x, y>>
<1>1. Start(c) \in Body(c) /\ x \in Body(c) /\ y \in Body(c)
  BY DEF Body, Policy, Start
<1>2. ~MayStart(x) /\ ~MayStart(y)
  BY DEF Plain, MayStart
<1>3. DOMAIN s = 1..3 /\ s[1] = Start(c) /\ s[2] = x /\ s[3] = y
  OBVIOUS
<1>4. s \in Seq(Body(c))
  BY <1>1
<1> HIDE DEF s
<1>5. StartsOnce(s, FALSE)
  <2> SUFFICES ASSUME NEW i \in 1..3, MayStart(s[i]), NEW j \in 1..3, j < i
               PROVE  FALSE
    BY <1>3 DEF StartsOnce
  <2>1. i = 1
    BY <1>2, <1>3
  <2> QED
    BY <2>1
<1> QED
  BY <1>4, <1>5 DEF s

\* The parts of a function
LEMMA FunctionParts ==
  ASSUME NEW C
  PROVE  /\ Plain(C) \subseteq Function(C) /\ Seq(Plain(C)) \subseteq Seq(Function(C))
         /\ \A body \in Seq(Plain({g}) \cup Conditional), handler \in Seq(Plain({g})) :
              Try(body, handler) \in Function(C)
         /\ \A o \in Object, body \in Seq(Plain({g})) : IfOpens(o, body) \in Conditional
         /\ \A c \in C \cap Ctx : \A body \in Seq(Body(c)) :
              StartsOnce(body, FALSE) => WithSession(c, body) \in Function(C)
<1>1. Plain(C) \subseteq Function(C)
  BY DEF Function
<1>2. Seq(Plain(C)) \subseteq Seq(Function(C))
  BY <1>1, SeqMonotone
<1>3. ASSUME NEW body \in Seq(Plain({g}) \cup Conditional), NEW handler \in Seq(Plain({g}))
      PROVE  Try(body, handler) \in Function(C)
  <2>1. Try(body, handler) \in OuterTry
    BY DEF Try, OuterTry
  <2> QED
    BY <2>1 DEF Function
<1>4. \A o \in Object, body \in Seq(Plain({g})) : IfOpens(o, body) \in Conditional
  BY DEF IfOpens, Conditional
<1>5. ASSUME NEW c \in C \cap Ctx, NEW body \in Seq(Body(c)), StartsOnce(body, FALSE)
      PROVE  WithSession(c, body) \in Function(C)
  <2>1. WithSession(c, body) \in Session(c) /\ WithSession(c, body).ctx = c
    BY <1>5 DEF WithSession, Session
  <2>2. c = g \/ c = t
    BY DEF Ctx, g, t
  <2> QED
    BY <2>1, <2>2 DEF Function
<1> QED
  BY <1>1, <1>2, <1>3, <1>4, <1>5

\* The digest of the policy, and the ephemeral key that is made from it
LEMMA EphemeralKeyFunctions == CreateEphemeralKey(g) \in Seq(Function({g}))
<1>1. g \in {g} \cap Ctx
  BY DEF g, Ctx
<1>2. WithSession(g, <<Start(g), PolicyPcr, GetDigest>>) \in Function({g})
  <2>1. PolicyPcr \in Plain({g}) /\ GetDigest \in Plain({g})
    BY PlainInstructions DEF PolicyPcr, GetDigest
  <2>2. /\ <<Start(g), PolicyPcr, GetDigest>> \in Seq(Body(g))
        /\ StartsOnce(<<Start(g), PolicyPcr, GetDigest>>, FALSE)
    BY <2>1, StartFirst
  <2> QED
    BY <1>1, <2>2, FunctionParts
<1>3. GetTssPcrSelection \in Seq(Function({g}))
  BY PlainFunctions, FunctionParts
<1>4. GeneratePcrDigest \in Function({g}) /\ Create(g, "ephemeral") \in Function({g})
  BY PlainInstructions, FunctionParts DEF GeneratePcrDigest, Kind
<1>5. /\ <<GeneratePcrDigest>> \in Seq(Function({g}))
      /\ <<Create(g, "ephemeral")>> \in Seq(Function({g}))
      /\ <<WithSession(g, <<Start(g), PolicyPcr, GetDigest>>)>> \in Seq(Function({g}))
  BY <1>2, <1>4
<1>6. GetEphemeralKeyPolicyDigest(g) \in Seq(Function({g}))
  BY <1>3, <1>5, Concatenation DEF GetEphemeralKeyPolicyDigest
<1> QED
  BY <1>5, <1>6, Concatenation DEF CreateEphemeralKey

\* A list of plain requests as a part of the body of a session
LEMMA PlainInBody ==
  ASSUME NEW c, NEW s \in Seq(Plain({c})) PROVE s \in Seq(Body(c)) /\ Guarded(s)
<1>1. Plain({c}) \subseteq Body(c)
  BY DEF Body
<1> QED
  BY <1>1, SeqMonotone, PlainIsGuarded

\* A restart as a part of the body of a session
LEMMA RestartInBody ==
  ASSUME NEW c PROVE Restart(c) \in Seq(Body(c)) /\ Guarded(Restart(c))
<1>1. Policy(c) \subseteq Body(c)
  BY DEF Body
<1> QED
  BY <1>1, SeqMonotone, RestartIsGuarded

\* Unsealing: up to three sessions, one after the other
LEMMA UnsealFunctions ==
  ASSUME NEW usePcrAuth \in BOOLEAN
  PROVE  /\ Unseal(usePcrAuth) \in Seq(Function({g}))
         /\ UnsealWithEkFromSpec(usePcrAuth) \in Seq(Function({g}))
<1> DEFINE B == Seq(Body(g))
           a1 == <<Start(g), PolicySecret, Command>>
           a2 == a1 \o Restart(g)
           a3 == a2 \o <<PolicySecret, Create(g, "loaded")>>
           b1 == <<GeneratePcrDigest>> \o GetTssPcrSelection
           b2 == b1 \o Restart(g)
           b3 == b2 \o <<PolicyPcr>>
           b == IF usePcrAuth THEN b3 ELSE << >>
           a4 == a3 \o b
           a5 == a4 \o <<Command>>
<1>1. /\ PolicySecret \in Plain({g}) /\ Command \in Plain({g}) /\ PolicyPcr \in Plain({g})
      /\ Create(g, "loaded") \in Plain({g}) /\ GeneratePcrDigest \in Plain({g})
      /\ FlushObjectContext(g, "ek") \in Plain({g}) /\ HandleToEsys("ek") \in Plain({g})
  BY PlainInstructions DEF PolicySecret, PolicyPcr, GeneratePcrDigest, Kind, Object
<1>2. /\ <<PolicySecret, Create(g, "loaded")>> \in Seq(Plain({g}))
      /\ <<PolicyPcr>> \in Seq(Plain({g})) /\ <<Command>> \in Seq(Plain({g}))
      /\ << >> \in Seq(Plain({g}))
  BY <1>1
<1>3. Restart(g) \in B /\ Guarded(Restart(g))
  BY RestartInBody
<1>4. a1 \in B /\ StartsOnce(a1, FALSE)
  BY <1>1, StartFirst
<1>5. b1 \in B /\ Guarded(b1)
  <2>1. GetTssPcrSelection \in Seq(Plain({g})) /\ <<GeneratePcrDigest>> \in Seq(Plain({g}))
    BY <1>1, PlainFunctions
  <2>2. b1 \in Seq(Plain({g}))
    BY <2>1, Concatenation
  <2> QED
    BY <2>2, PlainInBody
<1> HIDE DEF a1, b1
<1>6. a2 \in B /\ StartsOnce(a2, FALSE)
  BY <1>3, <1>4, Concatenation, StartsConcat
<1>7. b2 \in B /\ Guarded(b2)
  BY <1>3, <1>5, Concatenation, StartsConcat
<1> HIDE DEF a2, b2
<1>8. a3 \in B /\ StartsOnce(a3, FALSE)
  BY <1>2, <1>6, PlainInBody, Concatenation, StartsConcat
<1>9. b3 \in B /\ Guarded(b3)
  BY <1>2, <1>7, PlainInBody, Concatenation, StartsConcat
<1> HIDE DEF a3, b3
<1>10. b \in B /\ Guarded(b)
  BY <1>2, <1>9, PlainInBody
<1> HIDE DEF b
<1>11. a4 \in B /\ StartsOnce(a4, FALSE)
  BY <1>8, <1>10, Concatenation, StartsConcat
<1> HIDE DEF a4
<1>12. a5 \in B /\ StartsOnce(a5, FALSE)
  BY <1>2, <1>11, PlainInBody, Concatenation, StartsConcat
<1>13. WithSession(g, a5) \in Function({g})
  <2> HIDE DEF a5
  <2>1. g \in {g} \cap Ctx
    BY DEF g, Ctx
  <2> QED
    BY <1>12, <2>1, FunctionParts
<1>14. Plain({g}) \subseteq Function({g})
  BY FunctionParts
<1>15. UnsealInternal(usePcrAuth) \in Seq(Function({g}))
  <2>1. UnsealInternal(usePcrAuth) = <<Command, WithSession(g, a5)>>
    BY DEF UnsealInternal, a1, a2, a3, a4, b, b1, b2, b3
  <2> HIDE DEF a5
  <2> QED
    BY <1>1, <1>13, <1>14, <2>1
<1>16. /\ <<HandleToEsys("ek")>> \in Seq(Function({g}))
       /\ <<FlushObjectContext(g, "ek")>> \in Seq(Function({g}))
  BY <1>1, <1>14
<1>17. GenerateEkFromSpec(g) \in Seq(Function({g}))
  BY PlainFunctions, FunctionParts
<1>18. GenerateEkFromSpec(g) \o UnsealInternal(usePcrAuth) \in Seq(Function({g}))
  BY <1>15, <1>17, Concatenation
<1> QED
  BY <1>15, <1>16, <1>18, Concatenation DEF Unseal, UnsealWithEkFromSpec

\* Certification: the key is flushed on both ways out
LEMMA CertifyFunctions ==
  /\ GetEphemeralKey \in Seq(Function({g}))
  /\ GetEkPubWithCertification \in Seq(Function({g}))
<1>1. ASSUME NEW kind \in Kind
      PROVE  GetCertifiedKeyAndFlushHandle(kind) \in Seq(Function({g}))
  <2>1. /\ HandleToEsys("aik") \in Plain({g}) /\ Command \in Plain({g})
        /\ FlushObjectContext(g, kind) \in Plain({g}) /\ Rethrow \in Plain({g})
    BY PlainInstructions DEF Object
  <2>2. /\ <<Command>> \in Seq(Plain({g}) \cup Conditional)
        /\ <<FlushObjectContext(g, kind), Rethrow>> \in Seq(Plain({g}))
    BY <2>1
  <2>3. Try(<<Command>>, <<FlushObjectContext(g, kind), Rethrow>>) \in Function({g})
    BY <2>2, FunctionParts
  <2>4. Plain({g}) \subseteq Function({g})
    BY FunctionParts
  <2> QED
    BY <2>1, <2>3, <2>4 DEF GetCertifiedKeyAndFlushHandle
<1>2. /\ GetCertifiedKeyAndFlushHandle("ephemeral") \in Seq(Function({g}))
      /\ GetCertifiedKeyAndFlushHandle("ek") \in Seq(Function({g}))
  BY <1>1 DEF Kind
<1>3. GenerateEkFromSpec(g) \in Seq(Function({g}))
  BY PlainFunctions, FunctionParts
<1> QED
  BY <1>2, <1>3, EphemeralKeyFunctions, Concatenation DEF GetEphemeralKey, GetEkPubWithCertification

\* Decryption: the session is started inside a try block that flushes the key
LEMMA DecryptFunctions == DecryptWithEphemeralKey \in Seq(Function({g}))
<1> DEFINE a == <<GeneratePcrDigest>> \o GetTssPcrSelection
           b == <<Start(g), PolicyPcr>>
           s == a \o b
           flush == FlushObjectContext(g, "ephemeral")
           handler == <<flush, Rethrow>>
           body == <<Try(s, handler), Try(<<Command>>, handler), flush>>
<1>1. /\ PolicyPcr \in Plain({g}) /\ GeneratePcrDigest \in Plain({g}) /\ Command \in Plain({g})
      /\ flush \in Plain({g}) /\ Rethrow \in Plain({g})
  BY PlainInstructions DEF PolicyPcr, GeneratePcrDigest, Kind
<1>2. handler \in Seq(Plain({g})) /\ <<Command>> \in Seq(Plain({g}))
  BY <1>1
<1>3. a \in Seq(Plain({g}))
  <2>1. GetTssPcrSelection \in Seq(Plain({g})) /\ <<GeneratePcrDigest>> \in Seq(Plain({g}))
    BY <1>1, PlainFunctions
  <2> QED
    BY <2>1, Concatenation
<1>4. \A x \in Plain({g}) : ~MayStart(x)
  BY DEF Plain, MayStart
<1>5. s \in Seq(Plain({g}) \cup Policy(g)) /\ StartsOnce(s, FALSE)
  <2>1. a \in Seq(Plain({g}) \cup Policy(g))
    BY <1>3, SeqMonotone
  <2>2. Start(g) \in Policy(g)
    BY DEF Start, Policy
  <2>3. b \in Seq(Plain({g}) \cup Policy(g)) /\ Len(b) = 2 /\ b[1] = Start(g) /\ b[2] = PolicyPcr
    BY <1>1, <2>2
  <2> HIDE DEF a, b
  <2>4. /\ s \in Seq(Plain({g}) \cup Policy(g))
        /\ Len(a) \in Nat /\ DOMAIN s = 1..(Len(a) + 2)
        /\ \A i \in 1..Len(a) : s[i] = a[i]
        /\ s[Len(a) + 2] = PolicyPcr
    <3> DEFINE T == Plain({g}) \cup Policy(g)
    <3>1. a \in Seq(T) /\ b \in Seq(T)
      BY <2>1, <2>3
    <3> HIDE DEF T
    <3>2. /\ s \in Seq(T) /\ Len(a) \in Nat /\ DOMAIN s = 1..(Len(a) + Len(b))
          /\ \A i \in 1..Len(a) : s[i] = a[i]
          /\ \A i \in 1..Len(b) : s[Len(a) + i] = b[i]
      BY <3>1, Concatenation
    <3> HIDE DEF s
    <3>3. s[Len(a) + 2] = b[2]
      BY <2>3, <3>2
    <3> QED
      BY <2>3, <3>2, <3>3 DEF T
  <2>5. \A i \in 1..Len(a) : ~MayStart(s[i])
    <3> HIDE DEF s
    <3>1. ASSUME NEW i \in 1..Len(a) PROVE ~MayStart(s[i])
      <4>1. a[i] \in Plain({g}) /\ s[i] = a[i]
        BY <1>3, <2>4
      <4> QED
        BY <1>4, <4>1
    <3> QED
      BY <3>1
  <2> HIDE DEF s
  <2>6. ASSUME NEW i \in DOMAIN s, MayStart(s[i]) PROVE i = Len(a) + 1
    <3>1. i \in 1..Len(a) \/ i = Len(a) + 1 \/ i = Len(a) + 2
      BY <2>4
    <3> QED
      BY <1>1, <1>4, <2>4, <2>5, <2>6, <3>1
  <2>7. ASSUME NEW j \in DOMAIN s, j < Len(a) + 1 PROVE ~MayStart(s[j])
    BY <2>4, <2>5, <2>7
  <2> QED
    BY <2>4, <2>6, <2>7 DEF StartsOnce
<1>6. Guarded(<<Command>>)
  BY <1>2, PlainIsGuarded
<1>7. ~MayStart(Try(<<Command>>, handler))
  BY DEF MayStart, Try, Command
<1> HIDE DEF s, handler, flush
<1>8. Try(s, handler) \in InnerTry
  BY <1>2, <1>5 DEF Try, InnerTry
<1>9. Try(<<Command>>, handler) \in InnerTry
  <2>1. <<Command>> \in Seq(Plain({g}) \cup Policy(g))
    BY <1>1
  <2>2. StartsOnce(<<Command>>, FALSE)
    BY <1>6 DEF StartsOnce, Guarded
  <2> QED
    BY <1>2, <2>1, <2>2 DEF Try, InnerTry
<1>10. body \in Seq(Body(g)) /\ DOMAIN body = 1..3
       /\ body[2] = Try(<<Command>>, handler) /\ body[3] = flush
  BY <1>1, <1>8, <1>9 DEF Body
<1>11. StartsOnce(body, FALSE)
  <2> HIDE DEF body
  <2>1. ASSUME NEW i \in 1..3, MayStart(body[i]) PROVE i = 1
    <3>1. ~MayStart(body[2])
      BY <1>7, <1>10
    <3>2. ~MayStart(body[3])
      BY <1>1, <1>4, <1>10
    <3>3. i = 1 \/ i = 2 \/ i = 3
      OBVIOUS
    <3> QED
      BY <2>1, <3>1, <3>2, <3>3
  <2> QED
    BY <1>10, <2>1 DEF StartsOnce
<1>12. WithSession(g, body) \in Function({g})
  <2> HIDE DEF body
  <2>1. g \in {g} \cap Ctx
    BY DEF g, Ctx
  <2> QED
    BY <1>10, <1>11, <2>1, FunctionParts
<1>13. DecryptWithEphemeralKey = CreateEphemeralKey(g) \o <<WithSession(g, body)>>
  BY DEF DecryptWithEphemeralKey, s, handler, flush
<1>14. <<WithSession(g, body)>> \in Seq(Function({g}))
  BY <1>12
<1> HIDE DEF body
<1> QED
  BY <1>13, <1>14, EphemeralKeyFunctions, Concatenation

\* The public part of the EK, and its removal
LEMMA EkFunctions ==
  /\ GetEkPub \in Seq(Function({g}))
  /\ GetEkPubWithoutPersisting \in Seq(Function({g}))
  /\ RemovePersistentEk \in Seq(Function({g}))
  /\ process_create_ek \in Seq(Function({g}))
<1>1. /\ CheckAndMarshalEkPub \in Plain({g}) /\ EvictControl("persistent") \in Plain({g})
  BY PlainInstructions DEF CheckAndMarshalEkPub
<1>2. /\ <<CheckAndMarshalEkPub>> \in Seq(Plain({g})) /\ <<EvictControl("persistent")>> \in Seq(Plain({g}))
      /\ << >> \in Seq(Plain({g}))
  BY <1>1
<1>3. /\ GetPublicObject("ek") \in Seq(Plain({g})) /\ GenerateEk(g) \in Seq(Plain({g}))
      /\ GenerateAndPersistEk(g) \in Seq(Plain({g}))
  BY PlainFunctions DEF Object
<1>4. GetEkPub \in Seq(Function({g}))
  <2>1. GetPublicObject("ek") \in Seq(Plain({g}) \cup Conditional)
    BY <1>3, SeqMonotone
  <2>2. GenerateAndPersistEk(g) \o <<CheckAndMarshalEkPub>> \in Seq(Plain({g}))
    BY <1>2, <1>3, Concatenation
  <2>3. Try(GetPublicObject("ek"), GenerateAndPersistEk(g) \o <<CheckAndMarshalEkPub>>)
          \in Function({g})
    BY <2>1, <2>2, FunctionParts
  <2> QED
    BY <2>3 DEF GetEkPub
<1>5. GetEkPubWithoutPersisting \in Seq(Function({g}))
  <2>1. GetEkPubWithoutPersisting \in Seq(Plain({g}))
    BY <1>2, <1>3, Concatenation DEF GetEkPubWithoutPersisting
  <2> QED
    BY <2>1, FunctionParts
<1>6. IfOpens("ek", <<EvictControl("persistent")>>) \in Conditional
  BY <1>2, FunctionParts DEF Object
<1>7. RemovePersistentEk \in Seq(Function({g}))
  BY <1>6 DEF RemovePersistentEk, Function
<1>8. RemovePersistentEk \in Seq(Plain({g}) \cup Conditional)
  BY <1>6 DEF RemovePersistentEk
<1>9. <<Try(RemovePersistentEk, << >>)>> \in Seq(Function({g}))
  <2>1. Try(RemovePersistentEk, << >>) \in Function({g})
    BY <1>2, <1>8, FunctionParts
  <2> QED
    BY <2>1
<1> QED
  BY <1>4, <1>5, <1>7, <1>9, Concatenation DEF process_create_ek

\* The functions that only ask
LEMMA AskingFunctions ==
  /\ GetAIKCert \in Seq(Plain({g})) /\ GetAIKPub \in Seq(Plain({g}))
  /\ GetTcgLog \in Seq(Plain({g})) /\ GetEkNvCert \in Seq(Plain({g}))
  /\ GetVersion \in Seq(Plain({g})) /\ GetHCLReport \in Seq(Plain({g}))
  /\ UnpackAiKPubToRSA \in Seq(Plain({g})) /\ UnpackPcrQuoteToRSA \in Seq(Plain({g}))
  /\ \A alg \in Bank : GetPCRQuote(alg) \in Seq(Plain({g})) /\ GetPCRValues(alg) \in Seq(Plain({g}))
<1>1. <<Command>> \in Seq(Plain({g})) /\ <<HandleToEsys("aik")>> \in Seq(Plain({g}))
  BY PlainInstructions DEF Object
<1>2. /\ NvRead \in Seq(Plain({g})) /\ GetPublicObject("aik") \in Seq(Plain({g}))
      /\ GetTssPcrSelection \in Seq(Plain({g}))
      /\ \A alg \in Bank : PopulateCurrentPcrs(alg) \in Seq(Plain({g}))
  BY PlainFunctions DEF Object
<1>3. \A alg \in Bank : GetPCRQuote(alg) \in Seq(Plain({g}))
  BY <1>1, <1>2, Concatenation DEF GetPCRQuote
<1> QED
  BY <1>1, <1>2, <1>3 DEF GetAIKCert, GetAIKPub, GetTcgLog, GetEkNvCert, GetVersion, GetHCLReport,
     UnpackAiKPubToRSA, UnpackPcrQuoteToRSA, GetPCRValues

\* The sealing of the test client: four sessions on tmpCtx, one after the other
LEMMA SealFunctions ==
  ASSUME NEW useStoredEk \in BOOLEAN PROVE SealSeedToEk(useStoredEk) \in Seq(Function(Ctx))
<1> DEFINE B == Seq(Body(t))
           two == <<PolicySecret, Command>>
           load == <<PolicySecret, Create(t, "loaded")>>
           last == <<PolicyCommandCode, Command>>
           a1 == <<Start(t), PolicyCommandCode, GetDigest>>
           a2 == a1 \o Restart(t)
           a3 == a2 \o two
           a4 == a3 \o Restart(t)
           a5 == a4 \o load
           a6 == a5 \o Restart(t)
           a7 == a6 \o last
<1>1. /\ PolicySecret \in Plain({t}) /\ Command \in Plain({t}) /\ PolicyCommandCode \in Plain({t})
      /\ GetDigest \in Plain({t}) /\ Create(t, "loaded") \in Plain({t})
  BY PlainInstructions DEF PolicySecret, PolicyCommandCode, GetDigest, Kind
<1>2. two \in Seq(Plain({t})) /\ load \in Seq(Plain({t})) /\ last \in Seq(Plain({t}))
  BY <1>1
<1>3. a1 \in B /\ StartsOnce(a1, FALSE)
  BY <1>1, StartFirst
<1> HIDE DEF two, load, last, a1
<1>4. /\ two \in B /\ Guarded(two) /\ load \in B /\ Guarded(load) /\ last \in B /\ Guarded(last)
  BY <1>2, PlainInBody
<1>5. Restart(t) \in B /\ Guarded(Restart(t))
  BY RestartInBody
<1>6. a2 \in B /\ StartsOnce(a2, FALSE)
  BY <1>3, <1>5, Concatenation, StartsConcat
<1> HIDE DEF a2
<1>7. a3 \in B /\ StartsOnce(a3, FALSE)
  BY <1>4, <1>6, Concatenation, StartsConcat
<1> HIDE DEF a3
<1>8. a4 \in B /\ StartsOnce(a4, FALSE)
  BY <1>5, <1>7, Concatenation, StartsConcat
<1> HIDE DEF a4
<1>9. a5 \in B /\ StartsOnce(a5, FALSE)
  BY <1>4, <1>8, Concatenation, StartsConcat
<1> HIDE DEF a5
<1>10. a6 \in B /\ StartsOnce(a6, FALSE)
  BY <1>5, <1>9, Concatenation, StartsConcat
<1> HIDE DEF a6
<1>11. a7 \in B /\ StartsOnce(a7, FALSE)
  BY <1>4, <1>10, Concatenation, StartsConcat
<1> HIDE DEF a7
<1>12. <<WithSession(t, a7)>> \in Seq(Function(Ctx))
  <2>1. t \in Ctx \cap Ctx
    BY DEF t, Ctx
  <2>2. WithSession(t, a7) \in Function(Ctx)
    BY <1>11, <2>1, FunctionParts
  <2> QED
    BY <2>2
<1>13. /\ GetTssPcrSelection \in Seq(Function(Ctx)) /\ GenerateEkFromSpec(t) \in Seq(Function(Ctx))
  <2>1. t \in Ctx
    BY DEF t, Ctx
  <2> QED
    BY <2>1, PlainFunctions, FunctionParts
<1>14. <<HandleToEsys("ek")>> \in Seq(Function(Ctx))
  <2>1. HandleToEsys("ek") \in Function(Ctx)
    BY PlainInstructions, FunctionParts DEF Object
  <2> QED
    BY <2>1
<1> DEFINE e == IF useStoredEk THEN <<HandleToEsys("ek")>> ELSE GenerateEkFromSpec(t)
<1>15. e \in Seq(Function(Ctx))
  BY <1>13, <1>14
<1>16. SealSeedToEk(useStoredEk) = e \o GetTssPcrSelection \o <<WithSession(t, a7)>>
  BY DEF SealSeedToEk, two, load, last, a1, a2, a3, a4, a5, a6, a7
<1> HIDE DEF e
<1> QED
  BY <1>12, <1>13, <1>15, <1>16, Concatenation

\* What a process calls, and what the test client runs, is well formed
LEMMA Scripts ==
  /\ \A name \in DOMAIN Tpm : Tpm[name] \in Seq(Call)
  /\ \A name \in Test : g_tests[name] \in Seq(Call)
<1> DEFINE F == Seq(Function({g}))
           G == Seq(Function(Ctx))
<1>1. Seq(Plain({g})) \subseteq F /\ Seq(Plain(Ctx)) \subseteq G
  BY FunctionParts
<1>2. F \subseteq Seq(Call) /\ Seq(Connection) \subseteq Seq(Call)
  BY SeqMonotone DEF Call
<1>3. F \subseteq G
  <2>1. {g} \subseteq Ctx
    BY DEF g, Ctx
  <2>2. Plain({g}) \subseteq Plain(Ctx)
    BY <2>1, PlainMonotone
  <2>3. Function({g}) \subseteq Function(Ctx)
    BY <2>1, <2>2 DEF Function
  <2> QED
    BY <2>3, SeqMonotone
<1>4. /\ GetAIKCert \in F /\ GetAIKPub \in F /\ GetTcgLog \in F /\ GetEkNvCert \in F
      /\ GetVersion \in F /\ GetHCLReport \in F /\ UnpackAiKPubToRSA \in F
      /\ UnpackPcrQuoteToRSA \in F
      /\ \A alg \in Bank : GetPCRQuote(alg) \in F /\ GetPCRValues(alg) \in F
  BY <1>1, AskingFunctions
<1>5. \A b \in BOOLEAN : Unseal(b) \in F /\ UnsealWithEkFromSpec(b) \in F
  BY UnsealFunctions
<1>6. /\ GetEkPub \in F /\ GetEkPubWithoutPersisting \in F /\ RemovePersistentEk \in F
      /\ process_create_ek \in F
  BY EkFunctions
<1>7. GetEphemeralKey \in F /\ GetEkPubWithCertification \in F /\ DecryptWithEphemeralKey \in F
  BY CertifyFunctions, DecryptFunctions
<1>8. process_get_pcrquote \in Seq(Connection) /\ process_get_pcrvalues \in Seq(Connection)
  <2>1. <<GetPcrCount>> \in F
    <3>1. GetPcrCount \in Plain({g})
      BY PlainInstructions DEF GetPcrCount
    <3>2. <<GetPcrCount>> \in Seq(Plain({g}))
      BY <3>1
    <3> QED
      BY <1>1, <3>2
  <2>2. "sha1" \in Bank /\ "sha256" \in Bank /\ "sha384" \in Bank
    BY DEF Bank
  <2> DEFINE q == <<GetPcrCount>> \o GetPCRQuote("sha1") \o GetPCRQuote("sha256") \o
                  GetPCRQuote("sha384")
             v == <<GetPcrCount>> \o GetPCRValues("sha1") \o GetPCRValues("sha256") \o
                  GetPCRValues("sha384")
  <2>3. q \in F /\ v \in F
    BY <1>4, <2>1, <2>2, Concatenation
  <2>4. process_get_pcrquote = <<WithCtx(q)>> /\ process_get_pcrvalues = <<WithCtx(v)>>
    BY DEF process_get_pcrquote, process_get_pcrvalues
  <2> HIDE DEF q, v
  <2>5. WithCtx(q) \in Connection /\ WithCtx(v) \in Connection
    BY <1>3, <2>3 DEF WithCtx, Connection
  <2> QED
    BY <2>4, <2>5
<1>9. process_unseal \in Seq(Connection)
  <2> DEFINE s == TestUtil_PopulateCurrentPcrs("sha256") \o SealSeedToEk(TRUE) \o
                  Unseal(FALSE) \o SealSeedToEk(FALSE) \o UnsealWithEkFromSpec(FALSE)
  <2>1. TestUtil_PopulateCurrentPcrs("sha256") \in G
    BY <1>1, PlainFunctions DEF Bank
  <2>2. SealSeedToEk(TRUE) \in G /\ SealSeedToEk(FALSE) \in G
    BY SealFunctions
  <2>3. Unseal(FALSE) \in G /\ UnsealWithEkFromSpec(FALSE) \in G
    BY <1>3, <1>5
  <2>4. s \in G
    BY <2>1, <2>2, <2>3, Concatenation
  <2>5. process_unseal = <<WithCtx(s)>>
    BY DEF process_unseal
  <2> HIDE DEF s
  <2>6. WithCtx(s) \in Connection
    BY <2>4 DEF WithCtx, Connection
  <2> QED
    BY <2>5, <2>6
<1> HIDE DEF F, G
<1>10. /\ GetPCRQuote("sha256") \in F /\ GetPCRValues("sha256") \in F
       /\ Unseal(TRUE) \in F /\ UnsealWithEkFromSpec(TRUE) \in F
  BY <1>4, <1>5 DEF Bank
<1>11. \A name \in DOMAIN Tpm : Tpm[name] \in F
  <2>1. DOMAIN Tpm =
          {"GetAIKCert", "GetAIKPub", "GetPCRQuote", "GetPCRValues", "GetTcgLog", "GetEkNvCert",
           "GetVersion", "GetEkPubWithoutPersisting", "GetEkPub", "Unseal",
           "UnsealWithEkFromSpec", "RemovePersistentEk", "UnpackAiKPubToRSA",
           "UnpackPcrQuoteToRSA", "GetEphemeralKey", "DecryptWithEphemeralKey",
           "GetHCLReport", "GetEkPubWithCertification"}
    BY DEF Tpm
  <2>2. /\ Tpm["GetAIKCert"] \in F /\ Tpm["GetAIKPub"] \in F /\ Tpm["GetPCRQuote"] \in F
        /\ Tpm["GetPCRValues"] \in F /\ Tpm["GetTcgLog"] \in F /\ Tpm["GetEkNvCert"] \in F
        /\ Tpm["GetVersion"] \in F /\ Tpm["GetEkPubWithoutPersisting"] \in F
        /\ Tpm["GetEkPub"] \in F /\ Tpm["Unseal"] \in F /\ Tpm["UnsealWithEkFromSpec"] \in F
        /\ Tpm["RemovePersistentEk"] \in F /\ Tpm["UnpackAiKPubToRSA"] \in F
        /\ Tpm["UnpackPcrQuoteToRSA"] \in F /\ Tpm["GetEphemeralKey"] \in F
        /\ Tpm["DecryptWithEphemeralKey"] \in F /\ Tpm["GetHCLReport"] \in F
        /\ Tpm["GetEkPubWithCertification"] \in F
    BY <1>4, <1>6, <1>7, <1>10 DEF Tpm
  <2> QED
    BY <2>1, <2>2
<1>12. \A name \in Test : g_tests[name] \in F \cup Seq(Connection)
  BY <1>4, <1>6, <1>7, <1>8, <1>9 DEF Test, g_tests, process_get_tpmversion, process_get_ekpub,
     process_get_ekcert, process_get_aikpub, process_get_aikcert, process_get_tcglog,
     process_get_certifiedek
<1> QED
  BY <1>2, <1>11, <1>12

-----------------------------------------------------------------------------
(* What is left of a call *)

Stops == {"close_session", "close_ctx", "end_try"}

\* r is s without its first d instructions; a step forward drops one, and an
\* exception all up to a stop
Rest(r, s, d) ==
  /\ r \in Seq(Instruction) /\ d \in 1..Len(s) /\ Len(r) = Len(s) - d
  /\ \A i \in 1..Len(r) : r[i] = s[i + d]
  /\ \A j \in 2..d : s[j].op \notin Stops
  /\ d > 1 /\ Len(r) > 0 => r[1].op \in Stops

\* A step forward
LEMMA TailIsRest ==
  ASSUME NEW s \in Seq(Instruction), s # << >> PROVE Rest(Tail(s), s, 1)
<1>1. Len(s) \in Nat \ {0} /\ Tail(s) \in Seq(Instruction) /\ Len(Tail(s)) = Len(s) - 1
  OBVIOUS
<1>2. \A i \in 1..Len(Tail(s)) : Tail(s)[i] = s[i + 1]
  OBVIOUS
<1> QED
  BY <1>1, <1>2 DEF Rest

\* Of a nonempty set of positions one is the first
LEMMA FirstPosition ==
  ASSUME NEW n \in Nat, NEW P \in SUBSET (1..n), P # {}
  PROVE  \E i \in P : \A j \in P : i <= j
<1> DEFINE R == OpToRel(<, Nat)
<1>1. IsWellFoundedOn(R, Nat)
  BY NatLessThanWellFounded
<1>2. \A x, y \in Nat : x < y => <<x, y>> \in R
  BY DEF OpToRel
<1> HIDE DEF R
<1>3. P \subseteq Nat
  OBVIOUS
<1>4. PICK i \in P : \A j \in P : ~(<<j, i>> \in R)
  BY <1>1, <1>3, WFMin
<1>5. ASSUME NEW j \in P PROVE i <= j
  <2>1. i \in Nat /\ j \in Nat /\ ~(<<j, i>> \in R)
    BY <1>3, <1>4
  <2>2. ~(j < i)
    BY <1>2, <2>1
  <2> QED
    BY <2>1, <2>2
<1> QED
  BY <1>5

\* An exception
LEMMA UnwindIsRest ==
  ASSUME NEW s \in Seq(Instruction), s # << >>
  PROVE  \E d \in 1..Len(s) : /\ Rest(Unwind(Tail(s)), s, d)
                              /\ d < Len(s) => s[d + 1].op \in Stops
<1> DEFINE r == Tail(s)
           stops == {i \in DOMAIN r : r[i].op \in {"close_session", "close_ctx", "end_try"}}
<1>1. /\ Len(s) \in Nat \ {0} /\ r \in Seq(Instruction) /\ Len(r) = Len(s) - 1
      /\ Len(r) \in Nat /\ DOMAIN r = 1..Len(r)
  OBVIOUS
<1>2. \A i \in 1..Len(r) : r[i] = s[i + 1]
  OBVIOUS
<1>3. Unwind(r) = IF stops = {} THEN << >>
                  ELSE SubSeq(r, CHOOSE i \in stops : \A j \in stops : i <= j, Len(r))
  BY DEF Unwind
<1> HIDE DEF r
<1>4. CASE stops = {}
  <2>1. Unwind(r) = << >> /\ << >> \in Seq(Instruction)
    BY <1>3, <1>4
  <2>2. ASSUME NEW j \in 2..Len(s) PROVE s[j].op \notin Stops
    <3>1. j - 1 \in 1..Len(r) /\ r[j - 1] = s[j]
      BY <1>1, <1>2
    <3> QED
      BY <1>1, <1>4, <3>1 DEF Stops
  <2>3. Rest(<< >>, s, Len(s))
    BY <1>1, <2>1, <2>2 DEF Rest
  <2> QED
    BY <1>1, <2>1, <2>3 DEF r
<1>5. CASE stops # {}
  <2> DEFINE first == CHOOSE i \in stops : \A j \in stops : i <= j
  <2>1. \E i \in stops : \A j \in stops : i <= j
    <3>1. stops \in SUBSET (1..Len(r))
      BY <1>1
    <3> HIDE DEF stops
    <3> QED
      BY <1>1, <1>5, <3>1, FirstPosition
  <2>2. first \in stops /\ \A j \in stops : first <= j
    BY <2>1
  <2>3. first \in 1..Len(r) /\ r[first].op \in Stops
    BY <1>1, <2>2 DEF Stops
  <2>4. ASSUME NEW j \in 1..Len(r), j < first PROVE r[j].op \notin Stops
    BY <1>1, <2>2, <2>3, <2>4 DEF Stops
  <2>5. Unwind(r) = SubSeq(r, first, Len(r))
    BY <1>3, <1>5
  <2> HIDE DEF first, stops
  <2>6. /\ SubSeq(r, first, Len(r)) \in Seq(Instruction)
        /\ Len(SubSeq(r, first, Len(r))) = Len(r) - first + 1
        /\ \A i \in 1..(Len(r) - first + 1) : SubSeq(r, first, Len(r))[i] = r[first + i - 1]
    BY <1>1, <2>3
  <2> DEFINE u == Unwind(r)
  <2>7. /\ u \in Seq(Instruction) /\ Len(u) = Len(s) - first /\ first \in 1..Len(s)
        /\ Len(u) > 0 /\ first < Len(s)
    BY <1>1, <2>3, <2>5, <2>6
  <2>8. ASSUME NEW i \in 1..Len(u) PROVE u[i] = s[i + first]
    <3>1. i \in 1..(Len(r) - first + 1) /\ first + i - 1 \in 1..Len(r)
          /\ first + i - 1 + 1 = i + first
      BY <1>1, <2>3, <2>7
    <3>2. u[i] = r[first + i - 1]
      BY <2>5, <2>6, <3>1
    <3> QED
      BY <1>2, <3>1, <3>2
  <2>9. ASSUME NEW j \in 2..first PROVE s[j].op \notin Stops
    <3>1. j - 1 \in 1..Len(r) /\ j - 1 < first /\ r[j - 1] = s[j]
      BY <1>1, <1>2, <2>3
    <3> QED
      BY <2>4, <3>1
  <2>10. s[first + 1].op \in Stops /\ u[1] = s[first + 1]
    BY <1>2, <2>3, <2>7, <2>8
  <2> HIDE DEF u
  <2>11. Rest(u, s, first)
    BY <2>7, <2>8, <2>9, <2>10 DEF Rest
  <2> QED
    BY <2>7, <2>10, <2>11 DEF u, r
<1> QED
  BY <1>4, <1>5

\* What follows the first instruction and ends a scope is still there
LEMMA StopsStay ==
  ASSUME NEW s \in Seq(Instruction), NEW r, NEW d, Rest(r, s, d),
         NEW k \in DOMAIN s, k > 1, s[k].op \in Stops
  PROVE  \E i \in DOMAIN r : r[i] = s[k]
<1>1. /\ Len(s) \in Nat /\ DOMAIN s = 1..Len(s) /\ d \in 1..Len(s) /\ Len(r) = Len(s) - d
      /\ DOMAIN r = 1..Len(r)
  BY DEF Rest
<1>2. k > d
  BY <1>1 DEF Rest
<1>3. k - d \in 1..Len(r) /\ k - d + d = k
  BY <1>1, <1>2
<1>4. r[k - d] = s[k]
  BY <1>3 DEF Rest
<1> QED
  BY <1>1, <1>3, <1>4

\* The rest of a well-formed sequence is well formed
LEMMA RestWellFormed ==
  ASSUME NEW s, WellFormed(s), NEW r, NEW d, Rest(r, s, d)
  PROVE  WellFormed(r)
<1>1. /\ s \in Seq(Instruction) /\ r \in Seq(Instruction) /\ Len(s) \in Nat
      /\ DOMAIN s = 1..Len(s) /\ d \in 1..Len(s) /\ Len(r) = Len(s) - d
      /\ DOMAIN r = 1..Len(r)
  BY DEF WellFormed, Rest
<1>2. \A i \in DOMAIN r : r[i] = s[i + d] /\ i + d \in DOMAIN s
  BY <1>1 DEF Rest
<1>3. ASSUME NEW i \in DOMAIN r, NEW k \in DOMAIN s, i + d < k
      PROVE  k - d \in DOMAIN r /\ i < k - d /\ r[k - d] = s[k]
  <2>1. k - d \in DOMAIN r /\ i < k - d /\ k - d + d = k
    BY <1>1, <1>3
  <2> QED
    BY <1>2, <2>1
<1>4. SessionScope(r)
  <2> SUFFICES ASSUME NEW i \in DOMAIN r
               PROVE  \/ \E k \in DOMAIN r : i < k /\ r[k] \in SessionEnd /\ r[i] \in Inside(r[k].ctx)
                      \/ r[i] \in Outside /\ \A k \in DOMAIN r : i < k => r[k] \notin SessionEnd
    BY DEF SessionScope
  <2>1. CASE \E k \in DOMAIN s : i + d < k /\ s[k] \in SessionEnd /\ s[i + d] \in Inside(s[k].ctx)
    <3>1. PICK k \in DOMAIN s : i + d < k /\ s[k] \in SessionEnd /\ s[i + d] \in Inside(s[k].ctx)
      BY <2>1
    <3>2. k - d \in DOMAIN r /\ i < k - d /\ r[k - d] = s[k]
      BY <1>3, <3>1
    <3> QED
      BY <1>2, <3>1, <3>2
  <2>2. CASE s[i + d] \in Outside /\ \A k \in DOMAIN s : i + d < k => s[k] \notin SessionEnd
    <3>1. ASSUME NEW k \in DOMAIN r, i < k PROVE r[k] \notin SessionEnd
      <4>1. r[k] = s[k + d] /\ k + d \in DOMAIN s /\ i + d < k + d
        BY <1>1, <1>2, <3>1
      <4> QED
        BY <2>2, <4>1
    <3> QED
      BY <1>2, <2>2, <3>1
  <2>3. i + d \in DOMAIN s
    BY <1>2
  <2> QED
    BY <2>1, <2>2, <2>3 DEF WellFormed, SessionScope
<1>5. CtxScope(r)
  <2>1. ASSUME NEW i \in DOMAIN r, OnTmpCtx(r[i])
        PROVE  \E m \in DOMAIN r : i < m /\ r[m].op = "close_ctx"
    <3>1. i + d \in DOMAIN s /\ OnTmpCtx(s[i + d])
      BY <1>2, <2>1
    <3>2. PICK m \in DOMAIN s : i + d < m /\ s[m].op = "close_ctx"
      BY <3>1 DEF WellFormed, CtxScope
    <3>3. m - d \in DOMAIN r /\ i < m - d /\ r[m - d] = s[m]
      BY <1>3, <3>2
    <3> QED
      BY <3>2, <3>3
  <2>2. ASSUME NEW i \in DOMAIN r, r[i].op \in {"connect", "close_ctx"},
               NEW m \in DOMAIN r, i < m
        PROVE  r[m].op # "close_ctx"
    <3>1. /\ i + d \in DOMAIN s /\ m + d \in DOMAIN s /\ i + d < m + d
          /\ s[i + d] = r[i] /\ s[m + d] = r[m]
      BY <1>1, <1>2, <2>2
    <3> QED
      BY <2>2, <3>1 DEF WellFormed, CtxScope
  <2> QED
    BY <2>1, <2>2 DEF CtxScope
<1> QED
  BY <1>1, <1>4, <1>5 DEF WellFormed

\* And starts no second session: a session is open behind the first instruction
\* only if one was before or if that instruction starts one, and a flush closes
\* it for the start that follows
LEMMA RestStartsOnce ==
  ASSUME NEW s \in Seq(Instruction), NEW r, NEW d, Rest(r, s, d),
         NEW open \in BOOLEAN, StartsOnce(s, open), NEW after \in BOOLEAN,
         after => open \/ MayStart(s[1]),
         Len(r) > 0 /\ r[1].op = "start" /\ s[1].op = "flush" => ~after
  PROVE  StartsOnce(r, after)
<1>1. /\ Len(s) \in Nat /\ DOMAIN s = 1..Len(s) /\ d \in 1..Len(s) /\ Len(r) = Len(s) - d
      /\ Len(r) \in Nat /\ DOMAIN r = 1..Len(r)
  BY DEF Rest
<1>2. \A i \in DOMAIN r : r[i] = s[i + d] /\ i + d \in DOMAIN s
  BY <1>1 DEF Rest
<1> SUFFICES ASSUME NEW i \in DOMAIN r, MayStart(r[i]), ~Restarts(r, i)
             PROVE  ~after /\ \A j \in DOMAIN r : j < i => ~MayStart(r[j])
  BY DEF StartsOnce
<1>3. i + d \in DOMAIN s /\ MayStart(s[i + d]) /\ r[i] = s[i + d]
  BY <1>2
<1>4. CASE Restarts(s, i + d)
  <2>1. i = 1
    <3> SUFFICES ASSUME i # 1 PROVE FALSE
      OBVIOUS
    <3>1. i - 1 \in DOMAIN r /\ (i - 1) + d = i + d - 1 /\ i > 1
      BY <1>1
    <3>2. r[i - 1] = s[(i - 1) + d]
      BY <1>2, <3>1
    <3>3. s[i + d].op = "start" /\ s[i + d - 1].op = "flush"
      BY <1>1, <1>4 DEF Restarts
    <3>4. r[i].op = "start" /\ r[i - 1].op = "flush"
      BY <1>3, <3>1, <3>2, <3>3
    <3> QED
      BY <3>1, <3>4 DEF Restarts
  <2>2. r[1].op = "start" /\ s[d].op = "flush"
    <3>1. i + d - 1 = d
      BY <1>1, <2>1
    <3>2. s[i + d].op = "start" /\ s[i + d - 1].op = "flush"
      BY <1>1, <1>4 DEF Restarts
    <3>3. s[d].op = "flush"
      BY <3>1, <3>2
    <3> QED
      BY <1>3, <2>1, <3>2, <3>3
  <2>3. d = 1
    BY <1>1, <2>2 DEF Rest, Stops
  <2>4. ~after
    BY <1>1, <2>1, <2>2, <2>3
  <2> QED
    BY <1>1, <2>1, <2>4
<1>5. CASE ~open /\ \A j \in DOMAIN s : j < i + d => ~MayStart(s[j])
  <2>1. ~MayStart(s[1])
    BY <1>1, <1>5
  <2>2. ASSUME NEW j \in DOMAIN r, j < i PROVE ~MayStart(r[j])
    <3>1. j + d \in DOMAIN s /\ j + d < i + d /\ r[j] = s[j + d]
      BY <1>1, <1>2, <2>2
    <3> QED
      BY <1>5, <3>1
  <2> QED
    BY <1>5, <2>1, <2>2
<1> QED
  BY <1>3, <1>4, <1>5 DEF StartsOnce

\* Splicing: the first instruction is replaced by a sequence
LEMMA Splice ==
  ASSUME NEW s \in Seq(Instruction), s # << >>, NEW b \in Seq(Instruction)
  PROVE  LET r == b \o Tail(s) IN
         /\ r \in Seq(Instruction) /\ Len(s) \in Nat \ {0} /\ Len(b) \in Nat
         /\ DOMAIN b = 1..Len(b) /\ DOMAIN s = 1..Len(s) /\ DOMAIN r = 1..(Len(b) + Len(s) - 1)
         /\ \A i \in DOMAIN b : i \in DOMAIN r /\ r[i] = b[i]
         /\ \A k \in DOMAIN s : k > 1 =>
              Len(b) + k - 1 \in DOMAIN r /\ r[Len(b) + k - 1] = s[k]
         /\ \A i \in DOMAIN r :
              i \in DOMAIN b \/ (\E k \in DOMAIN s : k > 1 /\ i = Len(b) + k - 1)
<1> DEFINE q == Tail(s)
           n == Len(b)
           r == b \o q
<1>1. /\ Len(s) \in Nat \ {0} /\ DOMAIN s = 1..Len(s) /\ q \in Seq(Instruction)
      /\ Len(q) = Len(s) - 1
  OBVIOUS
<1>2. \A i \in 1..Len(q) : q[i] = s[i + 1]
  OBVIOUS
<1> HIDE DEF q
<1>3. /\ r \in Seq(Instruction) /\ n \in Nat /\ DOMAIN b = 1..n
      /\ DOMAIN r = 1..(n + Len(q))
      /\ \A i \in 1..n : r[i] = b[i]
      /\ \A i \in 1..Len(q) : r[n + i] = q[i]
      /\ \A i \in DOMAIN r : i \in 1..n \/ (\E j \in 1..Len(q) : i = n + j)
  <2>1. b \in Seq(Instruction) /\ q \in Seq(Instruction)
    BY <1>1
  <2>2. /\ r \in Seq(Instruction) /\ n \in Nat /\ DOMAIN b = 1..n
        /\ DOMAIN r = 1..(n + Len(q))
    BY <2>1, Concatenation
  <2>3. \A i \in 1..n : r[i] = b[i]
    BY <2>1, Concatenation
  <2>4. \A i \in 1..Len(q) : r[n + i] = q[i]
    BY <2>1, Concatenation
  <2>5. \A i \in DOMAIN r : i \in 1..n \/ (\E j \in 1..Len(q) : i = n + j)
    BY <2>1, Concatenation
  <2> QED
    BY <2>2, <2>3, <2>4, <2>5
<1> HIDE DEF r
<1>4. DOMAIN r = 1..(n + Len(s) - 1)
  BY <1>1, <1>3
<1>5. \A i \in DOMAIN b : i \in DOMAIN r /\ r[i] = b[i]
  BY <1>1, <1>3
<1>6. ASSUME NEW k \in DOMAIN s, k > 1 PROVE n + k - 1 \in DOMAIN r /\ r[n + k - 1] = s[k]
  <2>1. k - 1 \in 1..Len(q) /\ n + (k - 1) = n + k - 1 /\ (k - 1) + 1 = k
    BY <1>1, <1>3, <1>6
  <2>2. r[n + (k - 1)] = q[k - 1] /\ q[k - 1] = s[(k - 1) + 1]
    BY <1>2, <1>3, <2>1
  <2>3. n + k - 1 \in DOMAIN r
    BY <1>1, <1>3, <2>1
  <2> QED
    BY <2>1, <2>2, <2>3
<1>7. ASSUME NEW i \in DOMAIN r, i \notin DOMAIN b
      PROVE  \E k \in DOMAIN s : k > 1 /\ i = n + k - 1
  <2>1. PICK j \in 1..Len(q) : i = n + j
    BY <1>3, <1>7
  <2>2. j + 1 \in DOMAIN s /\ j + 1 > 1 /\ i = n + (j + 1) - 1
    BY <1>1, <1>3, <2>1
  <2> QED
    BY <2>2
<1>8. \A k \in DOMAIN s : k > 1 => n + k - 1 \in DOMAIN r /\ r[n + k - 1] = s[k]
  BY <1>6
<1>9. \A i \in DOMAIN r : i \in DOMAIN b \/ (\E k \in DOMAIN s : k > 1 /\ i = n + k - 1)
  BY <1>7
<1>10. r \in Seq(Instruction) /\ n \in Nat /\ DOMAIN b = 1..n
  BY <1>3
<1>11. r = b \o Tail(s)
  BY DEF q, r
<1> HIDE DEF n
<1>12. Len(b) = n
  BY DEF n
<1> QED
  BY <1>1, <1>4, <1>5, <1>8, <1>9, <1>10, <1>11, <1>12, Zenon

\* The sequence keeps the scopes if each of its instructions is inside a session
\* that ends in it or behind it, or outside of all, and if it uses tmpCtx in its
\* scope
LEMMA SpliceWellFormed ==
  ASSUME NEW s, WellFormed(s), s # << >>, NEW b \in Seq(Instruction),
         \A i \in DOMAIN b :
           \/ \E k \in DOMAIN b : i < k /\ b[k] \in SessionEnd /\ b[i] \in Inside(b[k].ctx)
           \/ \E k \in DOMAIN s : k > 1 /\ s[k] \in SessionEnd /\ b[i] \in Inside(s[k].ctx)
           \/ /\ b[i] \in Outside
              /\ \A k \in DOMAIN b : i < k => b[k] \notin SessionEnd
              /\ \A k \in DOMAIN s : k > 1 => s[k] \notin SessionEnd,
         \A i \in DOMAIN b : OnTmpCtx(b[i]) =>
           \/ \E m \in DOMAIN b : i < m /\ b[m].op = "close_ctx"
           \/ \E m \in DOMAIN s : m > 1 /\ s[m].op = "close_ctx",
         \A i \in DOMAIN b : b[i].op \in {"connect", "close_ctx"} =>
           /\ \A m \in DOMAIN b : i < m => b[m].op # "close_ctx"
           /\ \A m \in DOMAIN s : m > 1 => s[m].op # "close_ctx"
  PROVE  WellFormed(b \o Tail(s))
<1> DEFINE r == b \o Tail(s)
           n == Len(b)
<1>1. s \in Seq(Instruction)
  BY DEF WellFormed
<1>2. /\ r \in Seq(Instruction) /\ Len(s) \in Nat \ {0} /\ n \in Nat
      /\ DOMAIN b = 1..n /\ DOMAIN s = 1..Len(s) /\ DOMAIN r = 1..(n + Len(s) - 1)
      /\ \A i \in DOMAIN b : i \in DOMAIN r /\ r[i] = b[i]
      /\ \A k \in DOMAIN s : k > 1 => n + k - 1 \in DOMAIN r /\ r[n + k - 1] = s[k]
      /\ \A i \in DOMAIN r : i \in DOMAIN b \/ (\E k \in DOMAIN s : k > 1 /\ i = n + k - 1)
  BY <1>1, Splice
<1> HIDE DEF r
<1>3. ASSUME NEW i \in DOMAIN b, NEW k \in DOMAIN s, k > 1 PROVE i < n + k - 1
  BY <1>2, <1>3
<1>4. ASSUME NEW j \in DOMAIN s, NEW k \in DOMAIN s, j < k PROVE n + j - 1 < n + k - 1
  BY <1>2, <1>4
<1>5. ASSUME NEW j \in DOMAIN s, j > 1, NEW i \in DOMAIN r, n + j - 1 < i
      PROVE  \E k \in DOMAIN s : k > j /\ i = n + k - 1
  <2>1. i \notin DOMAIN b
    BY <1>2, <1>5
  <2>2. PICK k \in DOMAIN s : k > 1 /\ i = n + k - 1
    BY <1>2, <2>1
  <2>3. k > j
    BY <1>2, <1>5, <2>2
  <2> QED
    BY <2>2, <2>3
<1>6. SessionScope(r)
  <2> DEFINE Scoped(i) ==
        \/ \E k \in DOMAIN r : i < k /\ r[k] \in SessionEnd /\ r[i] \in Inside(r[k].ctx)
        \/ r[i] \in Outside /\ \A k \in DOMAIN r : i < k => r[k] \notin SessionEnd
  <2>1. ASSUME NEW i \in DOMAIN b PROVE Scoped(i)
    <3>1. CASE \E k \in DOMAIN b : i < k /\ b[k] \in SessionEnd /\ b[i] \in Inside(b[k].ctx)
      BY <1>2, <3>1
    <3>2. CASE \E k \in DOMAIN s : k > 1 /\ s[k] \in SessionEnd /\ b[i] \in Inside(s[k].ctx)
      <4>1. PICK k \in DOMAIN s : k > 1 /\ s[k] \in SessionEnd /\ b[i] \in Inside(s[k].ctx)
        BY <3>2
      <4>2. n + k - 1 \in DOMAIN r /\ r[n + k - 1] = s[k] /\ i < n + k - 1 /\ r[i] = b[i]
        BY <1>2, <1>3, <4>1
      <4> QED
        BY <4>1, <4>2
    <3>3. CASE /\ b[i] \in Outside
               /\ \A k \in DOMAIN b : i < k => b[k] \notin SessionEnd
               /\ \A k \in DOMAIN s : k > 1 => s[k] \notin SessionEnd
      <4>1. ASSUME NEW k \in DOMAIN r, i < k PROVE r[k] \notin SessionEnd
        <5>1. CASE k \in DOMAIN b
          BY <1>2, <3>3, <4>1, <5>1
        <5>2. CASE k \notin DOMAIN b
          <6>1. PICK j \in DOMAIN s : j > 1 /\ k = n + j - 1
            BY <1>2, <5>2
          <6>2. r[n + j - 1] = s[j]
            BY <1>2, <6>1
          <6> QED
            BY <3>3, <6>1, <6>2
        <5> QED
          BY <5>1, <5>2
      <4> QED
        BY <1>2, <3>3, <4>1
    <3> QED
      BY <3>1, <3>2, <3>3
  <2>2. ASSUME NEW j \in DOMAIN s, j > 1 PROVE Scoped(n + j - 1)
    <3>1. n + j - 1 \in DOMAIN r /\ r[n + j - 1] = s[j]
      BY <1>2, <2>2
    <3>2. CASE \E k \in DOMAIN s : j < k /\ s[k] \in SessionEnd /\ s[j] \in Inside(s[k].ctx)
      <4>1. PICK k \in DOMAIN s : j < k /\ s[k] \in SessionEnd /\ s[j] \in Inside(s[k].ctx)
        BY <3>2
      <4>2. k > 1
        BY <1>2, <2>2, <4>1
      <4>3. n + k - 1 \in DOMAIN r /\ r[n + k - 1] = s[k] /\ n + j - 1 < n + k - 1
        BY <1>2, <1>4, <4>1, <4>2
      <4> QED
        BY <3>1, <4>1, <4>3
    <3>3. CASE s[j] \in Outside /\ \A k \in DOMAIN s : j < k => s[k] \notin SessionEnd
      <4>1. ASSUME NEW i \in DOMAIN r, n + j - 1 < i PROVE r[i] \notin SessionEnd
        <5>1. PICK k \in DOMAIN s : k > j /\ i = n + k - 1
          BY <1>5, <2>2, <4>1
        <5>2. k > 1
          BY <1>2, <2>2, <5>1
        <5>3. r[n + k - 1] = s[k]
          BY <1>2, <5>2
        <5>4. s[k] \notin SessionEnd
          BY <1>2, <3>3, <5>1
        <5> QED
          BY <5>1, <5>3, <5>4
      <4> QED
        BY <3>1, <3>3, <4>1
    <3> QED
      BY <3>2, <3>3 DEF WellFormed, SessionScope
  <2>3. \A i \in DOMAIN r : Scoped(i)
    BY <1>2, <2>1, <2>2
  <2> QED
    BY <2>3 DEF SessionScope
<1>7. CtxScope(r)
  <2>1. ASSUME NEW i \in DOMAIN r, OnTmpCtx(r[i])
        PROVE  \E m \in DOMAIN r : i < m /\ r[m].op = "close_ctx"
    <3>1. CASE i \in DOMAIN b
      <4>1. CASE \E m \in DOMAIN b : i < m /\ b[m].op = "close_ctx"
        BY <1>2, <4>1
      <4>2. CASE \E m \in DOMAIN s : m > 1 /\ s[m].op = "close_ctx"
        <5>1. PICK m \in DOMAIN s : m > 1 /\ s[m].op = "close_ctx"
          BY <4>2
        <5>2. n + m - 1 \in DOMAIN r /\ r[n + m - 1] = s[m] /\ i < n + m - 1
          BY <1>2, <1>3, <3>1, <5>1
        <5> QED
          BY <5>1, <5>2
      <4> QED
        BY <1>2, <2>1, <3>1, <4>1, <4>2
    <3>2. CASE i \notin DOMAIN b
      <4>1. PICK j \in DOMAIN s : j > 1 /\ i = n + j - 1
        BY <1>2, <3>2
      <4>2. OnTmpCtx(s[j])
        BY <1>2, <2>1, <4>1
      <4>3. PICK m \in DOMAIN s : j < m /\ s[m].op = "close_ctx"
        BY <4>2 DEF WellFormed, CtxScope
      <4>4. m > 1
        BY <1>2, <4>1, <4>3
      <4>5. n + m - 1 \in DOMAIN r /\ r[n + m - 1] = s[m] /\ i < n + m - 1
        BY <1>2, <1>4, <4>1, <4>3, <4>4
      <4> QED
        BY <4>3, <4>5
    <3> QED
      BY <3>1, <3>2
  <2>2. ASSUME NEW i \in DOMAIN r, r[i].op \in {"connect", "close_ctx"},
               NEW m \in DOMAIN r, i < m
        PROVE  r[m].op # "close_ctx"
    <3>1. CASE i \in DOMAIN b /\ m \in DOMAIN b
      BY <1>2, <2>2, <3>1
    <3>2. CASE i \in DOMAIN b /\ m \notin DOMAIN b
      <4>1. PICK k \in DOMAIN s : k > 1 /\ m = n + k - 1
        BY <1>2, <3>2
      <4>2. s[k].op # "close_ctx" /\ r[n + k - 1] = s[k]
        BY <1>2, <2>2, <3>2, <4>1
      <4> QED
        BY <4>1, <4>2
    <3>3. CASE i \notin DOMAIN b
      <4>1. PICK j \in DOMAIN s : j > 1 /\ i = n + j - 1
        BY <1>2, <3>3
      <4>2. PICK k \in DOMAIN s : k > j /\ m = n + k - 1
        BY <1>5, <2>2, <4>1
      <4>3. k > 1 /\ j < k
        BY <1>2, <4>1, <4>2
      <4>4. r[n + j - 1] = s[j] /\ r[n + k - 1] = s[k]
        BY <1>2, <4>1, <4>3
      <4>5. s[k].op # "close_ctx"
        BY <2>2, <4>1, <4>3, <4>4 DEF WellFormed, CtxScope
      <4> QED
        BY <4>2, <4>4, <4>5
    <3> QED
      BY <3>1, <3>2, <3>3
  <2> QED
    BY <2>1, <2>2 DEF CtxScope
<1> QED
  BY <1>2, <1>6, <1>7 DEF WellFormed, r

\* And starts no second session if it has a start only where the instruction it
\* replaces may have one, or where none follows
LEMMA SpliceStartsOnce ==
  ASSUME NEW s \in Seq(Instruction), s # << >>, NEW b \in Seq(Instruction),
         NEW open \in BOOLEAN, StartsOnce(s, open), StartsOnce(b, open), s[1].op # "flush",
         \/ \A i \in DOMAIN b : ~MayStart(b[i])
         \/ MayStart(s[1])
         \/ \A k \in DOMAIN s : k > 1 => ~MayStart(s[k])
  PROVE  StartsOnce(b \o Tail(s), open)
<1> DEFINE r == b \o Tail(s)
           n == Len(b)
<1>1. /\ r \in Seq(Instruction) /\ Len(s) \in Nat \ {0} /\ n \in Nat
      /\ DOMAIN b = 1..n /\ DOMAIN s = 1..Len(s) /\ DOMAIN r = 1..(n + Len(s) - 1)
      /\ \A i \in DOMAIN b : i \in DOMAIN r /\ r[i] = b[i]
      /\ \A k \in DOMAIN s : k > 1 => n + k - 1 \in DOMAIN r /\ r[n + k - 1] = s[k]
      /\ \A i \in DOMAIN r : i \in DOMAIN b \/ (\E k \in DOMAIN s : k > 1 /\ i = n + k - 1)
  BY Splice
<1> HIDE DEF r
<1> SUFFICES ASSUME NEW i \in DOMAIN r, MayStart(r[i]), ~Restarts(r, i)
             PROVE  ~open /\ \A j \in DOMAIN r : j < i => ~MayStart(r[j])
  BY DEF StartsOnce, r
<1>2. CASE i \in DOMAIN b
  <2>1. r[i] = b[i]
    BY <1>1, <1>2
  <2>2. ~Restarts(b, i)
    <3> SUFFICES ASSUME b[i].op = "start", i > 1, b[i - 1].op = "flush" PROVE FALSE
      BY DEF Restarts
    <3>1. i - 1 \in DOMAIN b
      BY <1>1, <1>2
    <3>2. r[i - 1] = b[i - 1]
      BY <1>1, <3>1
    <3> QED
      BY <2>1, <3>2 DEF Restarts
  <2>3. ~open /\ \A j \in DOMAIN b : j < i => ~MayStart(b[j])
    BY <1>2, <2>1, <2>2 DEF StartsOnce
  <2>4. ASSUME NEW j \in DOMAIN r, j < i PROVE j \in DOMAIN b /\ r[j] = b[j]
    BY <1>1, <1>2, <2>4
  <2> QED
    BY <2>3, <2>4
<1>3. CASE i \notin DOMAIN b
  <2>1. PICK k \in DOMAIN s : k > 1 /\ i = n + k - 1
    BY <1>1, <1>3
  <2>2. r[i] = s[k] /\ MayStart(s[k])
    BY <1>1, <2>1
  <2>3. ~Restarts(s, k)
    <3> SUFFICES ASSUME s[k].op = "start", k > 1, s[k - 1].op = "flush" PROVE FALSE
      BY DEF Restarts
    <3>1. k - 1 \in DOMAIN s /\ k - 1 > 1
      <4>1. k - 1 \in DOMAIN s /\ k - 1 >= 1
        BY <1>1
      <4> QED
        BY <1>1, <4>1
    <3>2. n + (k - 1) - 1 = i - 1 /\ i > 1
      <4>1. k \in Nat /\ n \in Nat /\ i = n + k - 1
        BY <1>1, <2>1
      <4> HIDE DEF n
      <4> QED
        BY <4>1
    <3>3. r[n + (k - 1) - 1] = s[k - 1]
      BY <1>1, <3>1
    <3>4. r[i - 1].op = "flush"
      BY <3>2, <3>3
    <3> QED
      BY <2>2, <3>2, <3>4 DEF Restarts
  <2>4. ~open /\ \A j \in DOMAIN s : j < k => ~MayStart(s[j])
    BY <2>2, <2>3 DEF StartsOnce
  <2>5. ~MayStart(s[1])
    BY <1>1, <2>1, <2>4
  <2>6. \A j \in DOMAIN b : ~MayStart(b[j])
    BY <2>1, <2>2, <2>5
  <2>7. ASSUME NEW j \in DOMAIN r, j < i PROVE ~MayStart(r[j])
    <3>1. CASE j \in DOMAIN b
      BY <1>1, <2>6, <3>1
    <3>2. CASE j \notin DOMAIN b
      <4>1. PICK m \in DOMAIN s : m > 1 /\ j = n + m - 1
        BY <1>1, <3>2
      <4>2. m < k /\ r[j] = s[m]
        BY <1>1, <2>1, <2>7, <4>1
      <4> QED
        BY <2>4, <4>2
    <3> QED
      BY <3>1, <3>2
  <2> QED
    BY <2>4, <2>7
<1> QED
  BY <1>2, <1>3

-----------------------------------------------------------------------------
(* What an instruction is, by its operation *)

\* The ends of sessions and connections are outside only, requests of a session
\* inside only
LEMMA OutsideByOp ==
  ASSUME NEW x \in Outside
  PROVE  /\ x.op = "if_opens" => x \in Conditional
         /\ x.op = "try" => x \in OuterTry
         /\ x.op = "end_try" => x \in TryEnd
         /\ x.op = "session" => x \in Session(x.ctx) /\ x.ctx \in Ctx
         /\ x.op = "connect" => x \in Connection
         /\ x.op = "close_session" => x \in SessionEnd
         /\ x.op \notin {"start", "flush"}
         /\ ~MayStart(x)
<1>1. CASE x \in Plain(Ctx)
  BY <1>1 DEF Plain, MayStart
<1>2. CASE x \in Conditional
  BY <1>2 DEF Conditional, MayStart
<1>3. CASE x \in OuterTry
  <2> DEFINE T == Plain({g}) \cup Conditional
  <2>1. x.op = "try" /\ x.body \in Seq(T)
    BY <1>3 DEF OuterTry
  <2>2. \A y \in T : y.op # "start"
    BY DEF Plain, Conditional
  <2> HIDE DEF T
  <2>3. \A n \in DOMAIN x.body : x.body[n] \in T
    BY <2>1
  <2> QED
    BY <1>3, <2>1, <2>2, <2>3 DEF MayStart
<1>4. CASE x \in Session(g) \cup Session(t)
  BY <1>4 DEF Session, MayStart, g, t, Ctx
<1>5. CASE x \in Connection
  BY <1>5 DEF Connection, MayStart
<1>6. CASE x \in TryEnd
  BY <1>6 DEF TryEnd, MayStart
<1>7. CASE x \in SessionEnd \cup CtxEnd
  BY <1>7 DEF SessionEnd, CtxEnd, MayStart
<1> QED
  BY <1>1, <1>2, <1>3, <1>4, <1>5, <1>6, <1>7 DEF Outside, Function

\* Try blocks are inside of a session on g_tpm only
LEMMA InsideByOp ==
  ASSUME NEW c \in Ctx, NEW x \in Inside(c)
  PROVE  /\ x.op = "try" => x \in InnerTry /\ c = g
         /\ x.op = "end_try" => x \in TryEnd /\ c = g
         /\ x.op \in {"start", "flush", "create", "flush_object"} => x.ctx = c
         /\ x.op \notin {"if_opens", "session", "connect", "close_session", "close_ctx"}
<1>1. CASE x \in Plain({c})
  BY <1>1 DEF Plain
<1>2. CASE x \in Policy(c)
  BY <1>2 DEF Policy
<1>3. CASE c = g /\ x \in InnerTry
  <2>1. x.op = "try"
    BY <1>3 DEF InnerTry
  <2> QED
    BY <1>3, <2>1
<1>4. CASE c = g /\ x \in TryEnd
  BY <1>4 DEF TryEnd
<1> QED
  BY <1>1, <1>2, <1>3, <1>4 DEF Inside, Body

-----------------------------------------------------------------------------
(* Scopes *)

\* Only the end of a session closes one
LEMMA SessionEnds ==
  ASSUME NEW x \in Instruction, x.op = "close_session" PROVE x \in SessionEnd /\ x.ctx \in Ctx
<1>1. g \in Ctx /\ t \in Ctx
  BY DEF g, t, Ctx
<1>2. x \in SessionEnd
  BY <1>1, OutsideByOp, InsideByOp DEF Instruction
<1> QED
  BY <1>2 DEF SessionEnd

\* The first instruction is inside of a session that ends behind it, or outside
\* of all: then no session begins or ends behind it, but with an instruction of its own
LEMMA FirstScope ==
  ASSUME NEW s, WellFormed(s), s # << >>
  PROVE  \/ \E k \in DOMAIN s : k > 1 /\ s[k] \in SessionEnd /\ s[1] \in Inside(s[k].ctx)
         \/ /\ s[1] \in Outside
            /\ \A k \in DOMAIN s : k > 1 => s[k] \notin SessionEnd /\ ~MayStart(s[k])
<1>1. s \in Seq(Instruction) /\ Len(s) \in Nat \ {0} /\ DOMAIN s = 1..Len(s) /\ 1 \in DOMAIN s
  BY DEF WellFormed
<1>2. \/ \E k \in DOMAIN s : 1 < k /\ s[k] \in SessionEnd /\ s[1] \in Inside(s[k].ctx)
      \/ s[1] \in Outside /\ \A k \in DOMAIN s : 1 < k => s[k] \notin SessionEnd
  BY <1>1 DEF WellFormed, SessionScope
<1>3. CASE \E k \in DOMAIN s : 1 < k /\ s[k] \in SessionEnd /\ s[1] \in Inside(s[k].ctx)
  BY <1>1, <1>3
<1>4. CASE s[1] \in Outside /\ \A k \in DOMAIN s : 1 < k => s[k] \notin SessionEnd
  <2>1. ASSUME NEW k \in DOMAIN s, k > 1 PROVE s[k] \notin SessionEnd /\ ~MayStart(s[k])
    <3>1. s[k] \notin SessionEnd
      BY <1>1, <1>4, <2>1
    <3>2. ASSUME NEW j \in DOMAIN s, k < j PROVE s[j] \notin SessionEnd
      BY <1>1, <1>4, <2>1, <3>2
    <3>3. s[k] \in Outside
      BY <3>2 DEF WellFormed, SessionScope
    <3> QED
      BY <3>1, <3>3, OutsideByOp
  <2> QED
    BY <1>4, <2>1
<1> QED
  BY <1>2, <1>3, <1>4

\* One session ends at most
LEMMA OneSessionEnd ==
  ASSUME NEW s, WellFormed(s), NEW j \in DOMAIN s, NEW k \in DOMAIN s,
         s[j] \in SessionEnd, s[k] \in SessionEnd
  PROVE  j = k
<1>1. s \in Seq(Instruction) /\ Len(s) \in Nat /\ DOMAIN s = 1..Len(s)
  BY DEF WellFormed
<1>2. ASSUME NEW a \in DOMAIN s, NEW b \in DOMAIN s, s[a] \in SessionEnd, s[b] \in SessionEnd, a < b
      PROVE  FALSE
  <2>1. PICK m \in DOMAIN s : a < m /\ s[m] \in SessionEnd /\ s[a] \in Inside(s[m].ctx)
    BY <1>2 DEF WellFormed, SessionScope
  <2>2. s[a].op = "close_session" /\ s[m].ctx \in Ctx
    BY <1>2, <2>1 DEF SessionEnd
  <2> QED
    BY <2>1, <2>2, InsideByOp
<1>3. j < k \/ j = k \/ k < j
  BY <1>1
<1> QED
  BY <1>2, <1>3

\* Where a session is open, its end is the one that is left
LEMMA OpenSession ==
  ASSUME Inv, NEW ctx \in Ctx, session[ctx]
  PROVE  /\ \E k \in DOMAIN code : code[k] \in SessionEnd /\ code[k].ctx = ctx
         /\ \A k \in DOMAIN code : code[k] \in SessionEnd => code[k].ctx = ctx
<1>1. WellFormed(code) /\ code \in Seq(Instruction)
  BY DEF Inv, WellFormed
<1>2. PICK k \in DOMAIN code : code[k].op = "close_session" /\ code[k].ctx = ctx
  BY DEF Inv, SessionsScoped
<1>3. code[k] \in SessionEnd
  BY <1>1, <1>2, SessionEnds
<1>4. \A j \in DOMAIN code : code[j] \in SessionEnd => j = k
  BY <1>1, <1>3, OneSessionEnd
<1> QED
  BY <1>2, <1>3, <1>4

-----------------------------------------------------------------------------
(* Steps *)

\* A step that drops instructions, and opens or closes a session, or makes or
\* drops an object of tmpCtx, only as its instruction says
LEMMA Forward ==
  ASSUME Inv, code # << >>, NEW d, Rest(code', code, d),
         session' \in [Ctx -> BOOLEAN],
         sessions' = [ctx \in Ctx |-> IF session'[ctx] THEN 1 ELSE 0],
         \A ctx \in Ctx : session'[ctx] =>
           session[ctx] \/ (code[1].op = "start" /\ code[1].ctx = ctx),
         code[1].op = "close_session" => ~session'[code[1].ctx],
         Len(code') > 0 /\ code'[1].op = "start" /\ code[1].op = "flush" => ~Open',
         DOMAIN objects' = Ctx,
         objects'[t] # None =>
           objects[t] # None \/ (code[1].op \in {"create", "flush_object"} /\ code[1].ctx = t),
         code[1].op = "close_ctx" => objects'[t] = None,
         UNCHANGED <<call, mode, todo>>
  PROVE  Inv'
<1>1. /\ WellFormed(code) /\ code \in Seq(Instruction) /\ StartsOnce(code, Open)
      /\ Len(code) \in Nat \ {0} /\ DOMAIN code = 1..Len(code) /\ 1 \in DOMAIN code
  BY DEF Inv, WellFormed
<1>2. \A k \in DOMAIN code : k > 1 /\ code[k].op \in Stops => \E i \in DOMAIN code' : code'[i] = code[k]
  BY <1>1, StopsStay
<1>3. \A k \in DOMAIN code : k = 1 \/ k > 1
  BY <1>1
<1>4. WellFormed(code')
  BY <1>1, RestWellFormed
<1>5. StartsOnce(code', Open')
  <2>1. Open \in BOOLEAN /\ Open' \in BOOLEAN
    BY DEF Open
  <2>2. Open' => Open \/ MayStart(code[1])
    BY DEF Open, MayStart
  <2> QED
    BY <1>1, <2>1, <2>2, RestStartsOnce
<1>6. ASSUME NEW ctx \in Ctx, session'[ctx]
      PROVE  \E i \in DOMAIN code' : code'[i].op = "close_session" /\ code'[i].ctx = ctx
  <2>1. \E k \in DOMAIN code : k > 1 /\ code[k].op = "close_session" /\ code[k].ctx = ctx
    <3>1. CASE session[ctx]
      <4>1. PICK k \in DOMAIN code : code[k].op = "close_session" /\ code[k].ctx = ctx
        BY <3>1 DEF Inv, SessionsScoped
      <4> QED
        BY <1>3, <1>6, <4>1
    <3>2. CASE code[1].op = "start" /\ code[1].ctx = ctx
      <4>1. code[1] \notin Outside
        BY <3>2, OutsideByOp
      <4>2. PICK k \in DOMAIN code : k > 1 /\ code[k] \in SessionEnd /\ code[1] \in Inside(code[k].ctx)
        BY <1>1, <4>1, FirstScope
      <4>3. code[k].op = "close_session" /\ code[k].ctx \in Ctx
        BY <4>2 DEF SessionEnd
      <4>4. code[k].ctx = ctx
        BY <3>2, <4>2, <4>3, InsideByOp
      <4> QED
        BY <4>2, <4>3, <4>4
    <3> QED
      BY <1>6, <3>1, <3>2
  <2> QED
    BY <1>2, <2>1 DEF Stops
<1>7. ASSUME objects'[t] # None
      PROVE  \E m \in DOMAIN code' : code'[m].op = "close_ctx"
  <2>1. \E m \in DOMAIN code : m > 1 /\ code[m].op = "close_ctx"
    <3>1. CASE objects[t] # None
      <4>1. PICK m \in DOMAIN code : code[m].op = "close_ctx"
        BY <3>1 DEF Inv, ObjectsScoped
      <4> QED
        BY <1>3, <1>7, <4>1
    <3>2. CASE code[1].op \in {"create", "flush_object"} /\ code[1].ctx = t
      <4>1. OnTmpCtx(code[1])
        BY <3>2 DEF OnTmpCtx
      <4>2. PICK m \in DOMAIN code : 1 < m /\ code[m].op = "close_ctx"
        BY <1>1, <4>1 DEF WellFormed, CtxScope
      <4> QED
        BY <1>1, <4>2
    <3> QED
      BY <1>7, <3>1, <3>2
  <2> QED
    BY <1>2, <2>1 DEF Stops
<1>8. SessionsScoped'
  BY <1>6 DEF SessionsScoped
<1>9. ObjectsScoped'
  BY <1>7 DEF ObjectsScoped
<1> QED
  BY <1>4, <1>5, <1>8, <1>9 DEF Inv

\* The next instruction, or an exception, drops instructions
LEMMA Drops ==
  ASSUME Inv, code # << >>
  PROVE  /\ << >> \o Tail(code) = Tail(code) /\ Head(code) = code[1]
         /\ \E d \in 1..Len(code) : Rest(Tail(code), code, d)
         /\ \E d \in 1..Len(code) : Rest(Unwind(Tail(code)), code, d)
         /\ Len(Unwind(Tail(code))) > 0 => Unwind(Tail(code))[1].op \in Stops
<1>1. code \in Seq(Instruction) /\ Len(code) \in Nat \ {0}
  BY DEF Inv, WellFormed
<1>2. << >> \o Tail(code) = Tail(code) /\ Head(code) = code[1]
  BY <1>1
<1>3. Rest(Tail(code), code, 1) /\ 1 \in 1..Len(code)
  BY <1>1, TailIsRest
<1>4. PICK d \in 1..Len(code) : /\ Rest(Unwind(Tail(code)), code, d)
                                /\ d < Len(code) => code[d + 1].op \in Stops
  BY <1>1, UnwindIsRest
<1>5. ASSUME Len(Unwind(Tail(code))) > 0 PROVE Unwind(Tail(code))[1].op \in Stops
  <2> DEFINE u == Unwind(Tail(code))
  <2>1. Len(u) = Len(code) - d /\ Len(u) > 0 /\ \A i \in 1..Len(u) : u[i] = code[i + d]
    BY <1>4, <1>5 DEF Rest
  <2> HIDE DEF u
  <2>2. 1 \in 1..Len(u) /\ d < Len(code) /\ 1 + d = d + 1
    BY <1>1, <1>4, <2>1
  <2>3. u[1] = code[d + 1]
    BY <2>1, <2>2
  <2> QED
    BY <1>4, <2>2, <2>3 DEF u
<1> QED
  BY <1>2, <1>3, <1>4, <1>5

\* What neither opens nor closes a session or a connection, goes on or throws
LEMMA QuietStep ==
  ASSUME Inv, code # << >>, code' = Tail(code) \/ code' = Unwind(Tail(code)),
         code[1].op \notin {"close_session", "close_ctx", "start", "flush"},
         UNCHANGED <<sessions, session, call, mode, todo>>,
         DOMAIN objects' = Ctx,
         objects'[t] # objects[t] => code[1].op \in {"create", "flush_object"} /\ code[1].ctx = t
  PROVE  Inv'
<1>1. PICK d \in 1..Len(code) : Rest(code', code, d)
  BY Drops
<1>2. /\ session' \in [Ctx -> BOOLEAN]
      /\ sessions' = [ctx \in Ctx |-> IF session'[ctx] THEN 1 ELSE 0]
  BY DEF Inv, SessionsScoped
<1> QED
  BY <1>1, <1>2, Forward

\* A request without an effect on sessions and objects
LEMMA RequestStep ==
  ASSUME Inv, code # << >>, code' = << >> \o Tail(code) \/ code' = Unwind(Tail(code)),
         Head(code).op \in {"command", "select", "open", "if_opens", "evict_control", "rethrow",
                            "connect", "pcr_read"},
         UNCHANGED <<sessions, session, objects, call, mode, todo>>
  PROVE  Inv'
<1>1. << >> \o Tail(code) = Tail(code) /\ Head(code) = code[1]
  BY Drops
<1>2. DOMAIN objects' = Ctx
  BY DEF Inv, ObjectsScoped
<1>3. code[1].op \notin {"close_session", "close_ctx", "start", "flush"}
  BY <1>1
<1> QED
  BY <1>1, <1>2, <1>3, QuietStep

\* Keys are made and flushed
LEMMA ObjectStep == ASSUME Inv, DoCreate \/ DoFlushObject PROVE Inv'
<1> DEFINE c == Head(code)
<1>1. /\ code # << >> /\ c.op \in {"create", "flush_object"}
      /\ code' = << >> \o Tail(code) \/ code' = Unwind(Tail(code))
      /\ UNCHANGED <<sessions, session, call, mode, todo>>
  BY DEF DoCreate, DoFlushObject, At, Proceed, Throw, ThrowFor, Caller
<1>2. \/ objects' = objects
      \/ objects' = [objects EXCEPT ![c.ctx][c.kind] = @ + 1]
      \/ objects' = [objects EXCEPT ![c.ctx][c.kind] = @ - 1]
  BY DEF DoCreate, DoFlushObject
<1>3. << >> \o Tail(code) = Tail(code) /\ c = code[1]
  BY <1>1, Drops
<1> HIDE DEF c
<1>4. DOMAIN objects = Ctx /\ t \in Ctx
  BY DEF Inv, ObjectsScoped, t, Ctx
<1>5. DOMAIN objects' = Ctx /\ (objects'[t] # objects[t] => c.ctx = t)
  BY <1>2, <1>4
<1>6. code[1].op \notin {"close_session", "close_ctx", "start", "flush"}
  BY <1>1, <1>3
<1> QED
  BY <1>1, <1>3, <1>5, <1>6, QuietStep

\* A session is started
LEMMA StartStep == ASSUME Inv, DoStart PROVE Inv'
<1> DEFINE c == Head(code).ctx
<1>1. /\ code # << >> /\ Head(code).op = "start"
      /\ UNCHANGED <<objects, call, mode, todo>>
  BY DEF DoStart, At, Caller
<1>2. << >> \o Tail(code) = Tail(code) /\ Head(code) = code[1]
  BY <1>1, Drops
<1>3. code \in Seq(Instruction) /\ WellFormed(code) /\ Len(code) \in Nat \ {0}
      /\ DOMAIN code = 1..Len(code) /\ 1 \in DOMAIN code
  BY <1>1 DEF Inv, WellFormed
<1>4. \E k \in DOMAIN code : k > 1 /\ code[k] \in SessionEnd /\ code[1] \in Inside(code[k].ctx)
  <2>1. code[1] \notin Outside
    BY <1>1, <1>2, OutsideByOp
  <2> QED
    BY <1>1, <1>3, <2>1, FirstScope
<1>5. c \in Ctx
  <2>1. PICK k \in DOMAIN code : k > 1 /\ code[k] \in SessionEnd /\ code[1] \in Inside(code[k].ctx)
    BY <1>4
  <2>2. code[k].ctx \in Ctx
    BY <2>1 DEF SessionEnd
  <2> QED
    BY <1>1, <1>2, <2>1, <2>2, InsideByOp
<1>6. ~session[c]
  <2>1. MayStart(code[1])
    BY <1>1, <1>2 DEF MayStart
  <2>2. ~Restarts(code, 1)
    BY DEF Restarts
  <2>3. ~Open
    BY <1>3, <2>1, <2>2 DEF Inv, StartsOnce
  <2> QED
    BY <1>5, <2>3 DEF Open
<1>7. DOMAIN objects' = Ctx
  BY <1>1 DEF Inv, ObjectsScoped
<1>8. /\ session \in [Ctx -> BOOLEAN]
      /\ sessions = [ctx \in Ctx |-> IF session[ctx] THEN 1 ELSE 0]
  BY DEF Inv, SessionsScoped
<1>9. \/ /\ sessions' = [sessions EXCEPT ![c] = @ + 1]
         /\ session' = [session EXCEPT ![c] = TRUE]
         /\ code' = << >> \o Tail(code)
      \/ code' = Unwind(Tail(code)) /\ UNCHANGED <<sessions, session>>
  BY DEF DoStart, Proceed, Throw
<1> HIDE DEF c
<1>10. PICK d \in 1..Len(code) : Rest(code', code, d)
  BY <1>1, <1>2, <1>9, Drops, ZenonT(40)
<1>11. /\ session' \in [Ctx -> BOOLEAN]
       /\ \A ctx \in Ctx : session'[ctx] => session[ctx] \/ ctx = c
  BY <1>8, <1>9
<1>12. sessions' = [ctx \in Ctx |-> IF session'[ctx] THEN 1 ELSE 0]
  BY <1>5, <1>6, <1>8, <1>9
<1>13. c = code[1].ctx
  BY <1>2 DEF c
<1> QED
  BY <1>1, <1>2, <1>7, <1>10, <1>11, <1>12, <1>13, Forward

\* What Flush does to the sessions, in a state where they are scoped
LEMMA FlushEffect ==
  ASSUME SessionsScoped, NEW c \in Ctx, Flushed(c)
  PROVE  /\ session' \in [Ctx -> BOOLEAN] /\ ~session'[c]
         /\ sessions' = [ctx \in Ctx |-> IF session'[ctx] THEN 1 ELSE 0]
         /\ \A ctx \in Ctx : session'[ctx] => session[ctx]
<1>1. /\ session \in [Ctx -> BOOLEAN]
      /\ sessions = [ctx \in Ctx |-> IF session[ctx] THEN 1 ELSE 0]
  BY DEF SessionsScoped
<1>2. /\ sessions' = [sessions EXCEPT ![c] = IF session[c] THEN @ - 1 ELSE @]
      /\ session' = [session EXCEPT ![c] = FALSE]
  BY DEF Flushed
<1>3. /\ session' \in [Ctx -> BOOLEAN] /\ ~session'[c]
      /\ \A ctx \in Ctx : session'[ctx] => session[ctx]
  BY <1>1, <1>2
<1>4. \A ctx \in Ctx : ctx # c => session'[ctx] = session[ctx] /\ sessions'[ctx] = sessions[ctx]
  BY <1>1, <1>2
<1>5. sessions'[c] = 0
  BY <1>1, <1>2
<1>6. DOMAIN sessions' = Ctx /\ sessions' = [ctx \in Ctx |-> sessions'[ctx]]
  BY <1>1, <1>2
<1>7. \A ctx \in Ctx : sessions'[ctx] = IF session'[ctx] THEN 1 ELSE 0
  BY <1>1, <1>3, <1>4, <1>5
<1> QED
  BY <1>3, <1>6, <1>7

\* A session is flushed in its scope: then none is open
LEMMA FlushStep == ASSUME Inv, DoFlush PROVE Inv'
<1> DEFINE c == Head(code).ctx
<1>1. /\ code # << >> /\ Head(code).op = "flush"
      /\ UNCHANGED <<objects, call, mode, todo>>
  BY DEF DoFlush, At, Caller
<1>2. << >> \o Tail(code) = Tail(code) /\ Head(code) = code[1]
  BY <1>1, Drops
<1>3. code \in Seq(Instruction) /\ WellFormed(code)
  BY DEF Inv, WellFormed
<1>4. PICK k \in DOMAIN code : k > 1 /\ code[k] \in SessionEnd /\ code[1] \in Inside(code[k].ctx)
  <2>1. code[1] \notin Outside
    BY <1>1, <1>2, OutsideByOp
  <2> QED
    BY <1>1, <1>3, <2>1, FirstScope
<1>5. c \in Ctx /\ c = code[k].ctx
  <2>1. code[k].ctx \in Ctx
    BY <1>4 DEF SessionEnd
  <2> QED
    BY <1>1, <1>2, <1>4, <2>1, InsideByOp
<1>6. ASSUME NEW ctx \in Ctx, session[ctx] PROVE ctx = c
  BY <1>4, <1>5, <1>6, OpenSession
<1>7. DOMAIN objects' = Ctx
  BY <1>1 DEF Inv, ObjectsScoped
<1>8. CASE Flushed(c) /\ Proceed(<< >>)
  <2>1. /\ session' \in [Ctx -> BOOLEAN] /\ ~session'[c]
        /\ sessions' = [ctx \in Ctx |-> IF session'[ctx] THEN 1 ELSE 0]
        /\ \A ctx \in Ctx : session'[ctx] => session[ctx]
    <3> HIDE DEF c
    <3> QED
      BY <1>5, <1>8, FlushEffect DEF Inv
  <2>2. ~Open'
    BY <1>6, <2>1 DEF Open
  <2>3. PICK d \in 1..Len(code) : Rest(code', code, d)
    BY <1>1, <1>2, <1>8, Drops DEF Proceed
  <2> QED
    BY <1>1, <1>2, <1>7, <2>1, <2>2, <2>3, Forward
<1>9. CASE session[c] /\ Throw /\ UNCHANGED <<sessions, session>>
  <2>1. /\ session' \in [Ctx -> BOOLEAN]
        /\ sessions' = [ctx \in Ctx |-> IF session'[ctx] THEN 1 ELSE 0]
        /\ \A ctx \in Ctx : session'[ctx] => session[ctx]
    BY <1>9 DEF Inv, SessionsScoped
  <2>2. PICK d \in 1..Len(code) : Rest(code', code, d)
    BY <1>1, <1>9, Drops DEF Throw
  <2>3. ~(Len(code') > 0 /\ code'[1].op = "start")
    BY <1>1, <1>9, Drops DEF Throw, Stops
  <2> QED
    BY <1>1, <1>2, <1>7, <2>1, <2>2, <2>3, Forward
<1> QED
  BY <1>8, <1>9 DEF DoFlush

\* A Tss2Session ends: it flushes, or takes the process with it
LEMMA CloseSessionStep == ASSUME Inv, DoCloseSession PROVE Inv'
<1> DEFINE c == Head(code).ctx
<1>1. /\ code # << >> /\ Head(code).op = "close_session"
      /\ UNCHANGED <<call, mode, todo>>
  BY DEF DoCloseSession, At, Caller
<1>2. Head(code) = code[1]
  BY <1>1, Drops
<1>3. code \in Seq(Instruction) /\ 1 \in DOMAIN code /\ code[1] \in Instruction
  BY <1>1 DEF Inv, WellFormed
<1>4. c \in Ctx
  BY <1>1, <1>2, <1>3, SessionEnds
<1>5. CASE Flushed(c) /\ GoOn /\ UNCHANGED <<objects, process>>
  <2>1. /\ session' \in [Ctx -> BOOLEAN] /\ ~session'[c]
        /\ sessions' = [ctx \in Ctx |-> IF session'[ctx] THEN 1 ELSE 0]
        /\ \A ctx \in Ctx : session'[ctx] => session[ctx]
    <3> HIDE DEF c
    <3> QED
      BY <1>4, <1>5, FlushEffect DEF Inv
  <2>2. code' = Tail(code) \/ code' = Unwind(Tail(code))
    BY <1>5 DEF GoOn
  <2>3. PICK d \in 1..Len(code) : Rest(code', code, d)
    BY <1>1, <2>2, Drops
  <2>4. DOMAIN objects' = Ctx
    BY <1>5 DEF Inv, ObjectsScoped
  <2> QED
    BY <1>1, <1>2, <1>5, <2>1, <2>3, <2>4, Forward
<1>6. CASE Terminate
  <2>1. WellFormed(<< >>) /\ StartsOnce(<< >>, Open')
    BY DEF WellFormed, SessionScope, CtxScope, StartsOnce
  <2>2. SessionsScoped'
    BY <1>6 DEF Terminate, SessionsScoped
  <2>3. ObjectsScoped'
    BY <1>6 DEF Terminate, ObjectsScoped, t, Ctx
  <2> QED
    BY <1>1, <1>6, <2>1, <2>2, <2>3 DEF Inv, Terminate
<1> QED
  BY <1>5, <1>6 DEF DoCloseSession

\* A connection ends: its sessions have ended before
LEMMA CloseCtxStep == ASSUME Inv, DoCloseCtx PROVE Inv'
<1>1. /\ code # << >> /\ Head(code).op = "close_ctx"
      /\ UNCHANGED <<session, call, mode, todo>>
      /\ code' = Tail(code) \/ code' = Unwind(Tail(code))
      /\ objects' = [objects EXCEPT ![t] = None]
      /\ sessions' = [sessions EXCEPT ![t] = 0]
  BY DEF DoCloseCtx, At, Caller, GoOn
<1>2. Head(code) = code[1]
  BY <1>1, Drops
<1>3. WellFormed(code) /\ Len(code) \in Nat /\ DOMAIN code = 1..Len(code)
  BY DEF Inv, WellFormed
<1>4. \A k \in DOMAIN code : code[k] \notin SessionEnd
  <2>1. ASSUME NEW c \in Ctx PROVE code[1] \notin Inside(c)
    BY <1>1, <1>2, InsideByOp
  <2>2. \A k \in DOMAIN code : code[k] \in SessionEnd => code[k].ctx \in Ctx
    BY DEF SessionEnd
  <2>3. \A k \in DOMAIN code : k > 1 => code[k] \notin SessionEnd
    BY <1>1, <1>3, <2>1, <2>2, FirstScope
  <2>4. code[1] \notin SessionEnd
    BY <1>1, <1>2 DEF SessionEnd
  <2>5. \A k \in DOMAIN code : k = 1 \/ k > 1
    BY <1>3
  <2> QED
    BY <2>3, <2>4, <2>5
<1>5. t \in Ctx /\ ~session[t]
  <2>1. t \in Ctx
    BY DEF t, Ctx
  <2> QED
    BY <1>4, <2>1, OpenSession
<1>6. /\ session \in [Ctx -> BOOLEAN]
      /\ sessions = [ctx \in Ctx |-> IF session[ctx] THEN 1 ELSE 0]
      /\ DOMAIN objects = Ctx
  BY DEF Inv, SessionsScoped, ObjectsScoped
<1>7. sessions' = [ctx \in Ctx |-> IF session'[ctx] THEN 1 ELSE 0]
  BY <1>1, <1>5, <1>6
<1>8. DOMAIN objects' = Ctx /\ objects'[t] = None
  BY <1>1, <1>5, <1>6
<1>9. PICK d \in 1..Len(code) : Rest(code', code, d)
  BY <1>1, Drops
<1> QED
  BY <1>1, <1>2, <1>6, <1>7, <1>8, <1>9, Forward

\* A step that replaces the first instruction
LEMMA Spliced ==
  ASSUME Inv, code # << >>, NEW b \in Seq(Instruction), code' = b \o Tail(code),
         WellFormed(b \o Tail(code)), StartsOnce(b, Open),
         code[1].op \notin {"flush", "close_session", "close_ctx"},
         \/ \A i \in DOMAIN b : ~MayStart(b[i])
         \/ MayStart(code[1])
         \/ \A k \in DOMAIN code : k > 1 => ~MayStart(code[k]),
         UNCHANGED <<sessions, session, objects, call, mode, todo>>
  PROVE  Inv'
<1>1. /\ code \in Seq(Instruction) /\ StartsOnce(code, Open)
      /\ Len(code) \in Nat \ {0} /\ DOMAIN code = 1..Len(code)
  BY DEF Inv, WellFormed
<1>2. Open \in BOOLEAN /\ Open' = Open
  BY DEF Open
<1>3. StartsOnce(code', Open')
  BY <1>1, <1>2, SpliceStartsOnce
<1>4. ASSUME NEW k \in DOMAIN code, code[k].op \in {"close_session", "close_ctx"}
      PROVE  \E i \in DOMAIN code' : code'[i] = code[k]
  <2>1. k > 1
    BY <1>1, <1>4
  <2>2. /\ Len(b) + k - 1 \in DOMAIN (b \o Tail(code))
        /\ (b \o Tail(code))[Len(b) + k - 1] = code[k]
    BY <1>1, <2>1, Splice
  <2> QED
    BY <2>2
<1>5. SessionsScoped'
  <2>1. ASSUME NEW ctx \in Ctx, session[ctx]
        PROVE  \E i \in DOMAIN code' : code'[i].op = "close_session" /\ code'[i].ctx = ctx
    <3>1. PICK k \in DOMAIN code : code[k].op = "close_session" /\ code[k].ctx = ctx
      BY <2>1 DEF Inv, SessionsScoped
    <3> QED
      BY <1>4, <3>1
  <2> QED
    BY <2>1, ZenonT(40) DEF Inv, SessionsScoped
<1>6. ObjectsScoped'
  BY <1>4 DEF Inv, ObjectsScoped
<1> QED
  BY <1>3, <1>5, <1>6 DEF Inv

\* A sequence outside of every session, which uses tmpCtx only before it ends it
LEMMA SpliceOutside ==
  ASSUME Inv, code # << >>, NEW b \in Seq(Outside), code' = b \o Tail(code),
         code[1].op \notin {"flush", "close_session", "close_ctx"},
         \A k \in DOMAIN code : k > 1 => code[k] \notin SessionEnd,
         \A i \in DOMAIN b : b[i] \notin SessionEnd,
         \A i \in DOMAIN b : OnTmpCtx(b[i]) => \E m \in DOMAIN b : i < m /\ b[m].op = "close_ctx",
         \A i \in DOMAIN b : b[i].op \in {"connect", "close_ctx"} =>
           /\ \A m \in DOMAIN b : i < m => b[m].op # "close_ctx"
           /\ \A m \in DOMAIN code : m > 1 => code[m].op # "close_ctx",
         UNCHANGED <<sessions, session, objects, call, mode, todo>>
  PROVE  Inv'
<1>1. b \in Seq(Instruction)
  <2>1. Outside \subseteq Instruction
    BY DEF Instruction
  <2> QED
    BY <2>1, SeqMonotone
<1>2. \A i \in DOMAIN b : b[i] \in Outside
  OBVIOUS
<1>3. \A i \in DOMAIN b : ~MayStart(b[i])
  BY <1>2, OutsideByOp
<1>4. StartsOnce(b, Open)
  BY <1>3 DEF StartsOnce
<1>5. WellFormed(code)
  BY DEF Inv
<1>6. WellFormed(b \o Tail(code))
  BY <1>1, <1>2, <1>5, SpliceWellFormed
<1> QED
  BY <1>1, <1>3, <1>4, <1>6, Spliced

\* A sequence inside of a session that ends behind it
LEMMA SpliceInside ==
  ASSUME Inv, code # << >>, NEW b \in Seq(Inside(g)), code' = b \o Tail(code),
         NEW e \in DOMAIN code, e > 1, code[e] \in SessionEnd, code[e].ctx = g,
         code[1].op \notin {"flush", "close_session", "close_ctx"},
         StartsOnce(b, Open), (\E i \in DOMAIN b : MayStart(b[i])) => MayStart(code[1]),
         UNCHANGED <<sessions, session, objects, call, mode, todo>>
  PROVE  Inv'
<1>1. b \in Seq(Instruction)
  <2>1. Inside(g) \subseteq Instruction
    BY DEF Instruction
  <2> QED
    BY <2>1, SeqMonotone
<1>2. \A i \in DOMAIN b : b[i] \in Inside(g)
  OBVIOUS
<1>3. g \in Ctx /\ g # t
  BY DEF g, t, Ctx
<1>4. \A i \in DOMAIN b : ~OnTmpCtx(b[i]) /\ b[i].op \notin {"connect", "close_ctx"}
  BY <1>2, <1>3, InsideByOp DEF OnTmpCtx
<1>5. WellFormed(code)
  BY DEF Inv
<1>6. WellFormed(b \o Tail(code))
  BY <1>1, <1>2, <1>4, <1>5, SpliceWellFormed
<1> QED
  BY <1>1, <1>6, Spliced

\* The handler of a catch, and what is skipped when there is nothing to open, are
\* plain and on g_tpm
LEMMA PlainSplice ==
  ASSUME Inv, code # << >>, NEW b \in Seq(Plain({g})), code' = b \o Tail(code),
         code[1].op \in {"if_opens", "end_try"},
         UNCHANGED <<sessions, session, objects, call, mode, todo>>
  PROVE  Inv'
<1>1. WellFormed(code) /\ Guarded(b)
  BY PlainIsGuarded DEF Inv
<1>2. \A i \in DOMAIN b : b[i] \in Plain({g})
  OBVIOUS
<1>3. g \in Ctx /\ g # t
  BY DEF g, t, Ctx
<1>4. \A x \in Plain({g}) : ~MayStart(x) /\ ~OnTmpCtx(x) /\ x \notin SessionEnd /\ x.op \notin {"connect", "close_ctx"}
  BY <1>3 DEF Plain, MayStart, OnTmpCtx, SessionEnd
<1>5. Plain({g}) \subseteq Outside /\ Plain({g}) \subseteq Inside(g)
  BY <1>3, PlainMonotone DEF Outside, Function, Inside, Body
<1>6. CASE \E k \in DOMAIN code : k > 1 /\ code[k] \in SessionEnd /\ code[1] \in Inside(code[k].ctx)
  <2>1. PICK k \in DOMAIN code : k > 1 /\ code[k] \in SessionEnd /\ code[1] \in Inside(code[k].ctx)
    BY <1>6
  <2>2. code[k].ctx \in Ctx
    BY <2>1 DEF SessionEnd
  <2>3. code[k].ctx = g
    BY <2>1, <2>2, InsideByOp
  <2>4. b \in Seq(Inside(g)) /\ StartsOnce(b, Open)
    BY <1>1, <1>5, SeqMonotone DEF StartsOnce, Guarded
  <2> QED
    BY <1>2, <1>4, <2>1, <2>3, <2>4, SpliceInside
<1>7. CASE \A k \in DOMAIN code : k > 1 => code[k] \notin SessionEnd
  <2>1. b \in Seq(Outside)
    BY <1>5, SeqMonotone
  <2> QED
    BY <1>2, <1>4, <1>7, <2>1, SpliceOutside
<1> QED
  BY <1>1, <1>6, <1>7, FirstScope

\* The body of what depends on an object, and the handler of a catch
LEMMA IfOpensStep == ASSUME Inv, DoIfOpens PROVE Inv'
<1>1. /\ code # << >> /\ Head(code).op = "if_opens"
      /\ code' = Head(code).body \o Tail(code) \/ code' = << >> \o Tail(code)
      /\ UNCHANGED <<sessions, session, objects, call, mode, todo>>
  BY DEF DoIfOpens, At, Proceed, Caller
<1>2. Head(code) = code[1] /\ WellFormed(code) /\ code \in Seq(Instruction)
  BY <1>1, Drops DEF Inv, WellFormed
<1>3. g \in Ctx /\ t \in Ctx
  BY DEF g, t, Ctx
<1>4. code[1] \in Conditional
  <2>1. code[1] \in Instruction
    BY <1>1, <1>2
  <2> QED
    BY <1>1, <1>2, <1>3, <2>1, OutsideByOp, InsideByOp DEF Instruction
<1>5. code[1].body \in Seq(Plain({g})) /\ << >> \in Seq(Plain({g}))
  BY <1>4 DEF Conditional
<1> QED
  BY <1>1, <1>2, <1>5, PlainSplice

\* A catch runs its handler if there is an exception
LEMMA EndTryStep == ASSUME Inv, DoEndTry PROVE Inv'
<1>1. /\ code # << >> /\ Head(code).op = "end_try"
      /\ code' = Head(code).handler \o Tail(code) \/ code' = << >> \o Tail(code)
      /\ UNCHANGED <<sessions, session, objects, call, mode, todo>>
  BY DEF DoEndTry, At, Proceed, Caller
<1>2. Head(code) = code[1] /\ WellFormed(code) /\ code \in Seq(Instruction)
  BY <1>1, Drops DEF Inv, WellFormed
<1>3. g \in Ctx /\ t \in Ctx
  BY DEF g, t, Ctx
<1>4. code[1] \in TryEnd
  <2>1. code[1] \in Instruction
    BY <1>1, <1>2
  <2> QED
    BY <1>1, <1>2, <1>3, <2>1, OutsideByOp, InsideByOp DEF Instruction
<1>5. code[1].handler \in Seq(Plain({g})) /\ << >> \in Seq(Plain({g}))
  BY <1>4 DEF TryEnd
<1> QED
  BY <1>1, <1>2, <1>5, PlainSplice

\* A body and the end of its scope
LEMMA Scope ==
  ASSUME NEW S, NEW body \in Seq(S), NEW end \in S
  PROVE  /\ body \o <<end>> \in Seq(S)
         /\ Len(body) \in Nat /\ DOMAIN (body \o <<end>>) = 1..(Len(body) + 1)
         /\ DOMAIN body = 1..Len(body)
         /\ (body \o <<end>>)[Len(body) + 1] = end
         /\ \A i \in 1..Len(body) : (body \o <<end>>)[i] = body[i]
         /\ \A i \in DOMAIN (body \o <<end>>) : i \in 1..Len(body) \/ i = Len(body) + 1
<1>1. <<end>> \in Seq(S) /\ Len(<<end>>) = 1 /\ <<end>>[1] = end
  OBVIOUS
<1>2. ASSUME NEW e \in Seq(S)
      PROVE  /\ body \o e \in Seq(S)
             /\ Len(body) \in Nat /\ DOMAIN body = 1..Len(body)
             /\ DOMAIN (body \o e) = 1..(Len(body) + Len(e))
             /\ \A i \in 1..Len(body) : (body \o e)[i] = body[i]
             /\ \A i \in 1..Len(e) : (body \o e)[Len(body) + i] = e[i]
  BY Concatenation
<1>3. ASSUME NEW e \in Seq(S), Len(e) = 1, e[1] = end
      PROVE  /\ body \o e \in Seq(S)
             /\ Len(body) \in Nat /\ DOMAIN (body \o e) = 1..(Len(body) + 1)
             /\ DOMAIN body = 1..Len(body)
             /\ (body \o e)[Len(body) + 1] = end
             /\ \A i \in 1..Len(body) : (body \o e)[i] = body[i]
             /\ \A i \in DOMAIN (body \o e) : i \in 1..Len(body) \/ i = Len(body) + 1
  <2> DEFINE r == body \o e
             n == Len(body)
  <2>1. /\ r \in Seq(S) /\ n \in Nat /\ DOMAIN body = 1..n /\ DOMAIN r = 1..(n + Len(e))
        /\ \A i \in 1..n : r[i] = body[i]
        /\ \A i \in 1..Len(e) : r[n + i] = e[i]
    BY <1>2
  <2> HIDE DEF r, n
  <2>2. DOMAIN r = 1..(n + 1) /\ r[n + 1] = end
    BY <1>3, <2>1
  <2>3. \A i \in DOMAIN r : i \in 1..n \/ i = n + 1
    BY <2>1, <2>2
  <2> QED
    BY <2>1, <2>2, <2>3 DEF r, n
<1> QED
  BY <1>1, <1>3

\* A try block outside of a session, or inside: then it may start it
LEMMA TryStep == ASSUME Inv, DoTry PROVE Inv'
<1> DEFINE x == Head(code)
           e == EndTry(x.handler)
           b == x.body \o <<e>>
<1>1. /\ code # << >> /\ x.op = "try" /\ code' = b \o Tail(code)
      /\ UNCHANGED <<sessions, session, objects, call, mode, todo>>
  BY DEF DoTry, At, Proceed, Caller
<1>2. x = code[1] /\ WellFormed(code) /\ code \in Seq(Instruction) /\ 1 \in DOMAIN code
  BY <1>1, Drops DEF Inv, WellFormed
<1>3. g \in Ctx /\ g # t
  BY DEF g, t, Ctx
<1>4. ASSUME NEW h \in Seq(Plain({g}))
      PROVE  EndTry(h) \in TryEnd
  BY DEF EndTry, TryEnd
<1>5. \A y \in TryEnd : ~MayStart(y) /\ ~OnTmpCtx(y) /\ y \notin SessionEnd /\ y.op \notin {"connect", "close_ctx"}
  BY DEF TryEnd, MayStart, OnTmpCtx, SessionEnd
<1>6. CASE /\ x \in Outside
           /\ \A k \in DOMAIN code : k > 1 => code[k] \notin SessionEnd
  <2> DEFINE T == Plain({g}) \cup Conditional \cup TryEnd
  <2>1. x \in OuterTry
    BY <1>1, <1>6, OutsideByOp
  <2>2. x.body \in Seq(Plain({g}) \cup Conditional) /\ x.handler \in Seq(Plain({g}))
    BY <2>1 DEF OuterTry
  <2>3. x.body \in Seq(T) /\ e \in T
    <3>1. x.body \in Seq(T)
      BY <2>2, SeqMonotone, ZenonT(40)
    <3> QED
      BY <1>4, <2>2, <3>1
  <2>4. \A y \in T : ~OnTmpCtx(y) /\ y \notin SessionEnd /\ y.op \notin {"connect", "close_ctx"}
    <3>1. \A y \in Plain({g}) \cup Conditional : ~OnTmpCtx(y) /\ y \notin SessionEnd /\ y.op \notin {"connect", "close_ctx"}
      BY <1>3 DEF Plain, Conditional, OnTmpCtx, SessionEnd
    <3> QED
      BY <1>5, <3>1
  <2>5. T \subseteq Outside
    BY <1>3, PlainMonotone DEF Outside, Function
  <2> HIDE DEF T, e
  <2>6. b \in Seq(T)
    BY <2>3, Scope
  <2> HIDE DEF b
  <2>7. b \in Seq(Outside) /\ \A i \in DOMAIN b : b[i] \in T
    BY <2>5, <2>6, SeqMonotone
  <2> HIDE DEF x
  <2> QED
    BY <1>1, <1>2, <1>6, <2>4, <2>7, SpliceOutside
<1>7. CASE \E k \in DOMAIN code : k > 1 /\ code[k] \in SessionEnd /\ x \in Inside(code[k].ctx)
  <2>1. PICK k \in DOMAIN code : k > 1 /\ code[k] \in SessionEnd /\ x \in Inside(code[k].ctx)
    BY <1>7
  <2>2. code[k].ctx \in Ctx
    BY <2>1 DEF SessionEnd
  <2>3. code[k].ctx = g /\ x \in InnerTry
    BY <1>1, <2>1, <2>2, InsideByOp
  <2> DEFINE P == Plain({g}) \cup Policy(g)
  <2>4. x.body \in Seq(P) /\ x.handler \in Seq(Plain({g})) /\ StartsOnce(x.body, FALSE)
    BY <2>3 DEF InnerTry
  <2>5. e \in TryEnd
    BY <1>4, <2>4
  <2>6. P \subseteq Inside(g) /\ TryEnd \subseteq Inside(g)
    BY DEF Inside, Body
  <2>7. \A y \in P : MayStart(y) => y.op = "start"
    BY DEF Plain, Policy, MayStart
  <2> HIDE DEF P, e
  <2>8. x.body \in Seq(Inside(g)) /\ e \in Inside(g)
    BY <2>4, <2>5, <2>6, SeqMonotone
  <2>9. ~MayStart(e)
    BY <1>5, <2>5
  <2>10. ASSUME NEW i \in DOMAIN x.body, MayStart(x.body[i]) PROVE MayStart(x)
    <3>1. x.body[i] \in P
      BY <2>4
    <3>2. x.body[i].op = "start"
      BY <2>7, <2>10, <3>1
    <3> QED
      BY <1>1, <3>2 DEF MayStart
  <2>11. MayStart(x) => ~Open
    <3>1. ~Restarts(code, 1)
      BY DEF Restarts
    <3> QED
      BY <1>2, <3>1 DEF Inv, StartsOnce
  <2>12. Guarded(<<e>>) /\ <<e>> \in Seq(Inside(g))
    <3>1. DOMAIN <<e>> = {1} /\ <<e>>[1] = e
      OBVIOUS
    <3> QED
      BY <2>8, <2>9, <3>1 DEF Guarded
  <2>13. StartsOnce(b, Open)
    <3>1. CASE MayStart(x)
      <4>1. StartsOnce(b, FALSE)
        BY <2>4, <2>8, <2>12, StartsConcat
      <4>2. Open = FALSE
        BY <2>11, <3>1 DEF Open
      <4> QED
        BY <4>1, <4>2
    <3>2. CASE ~MayStart(x)
      <4>1. Guarded(x.body)
        BY <2>10, <3>2 DEF Guarded
      <4>2. Guarded(b)
        BY <2>8, <2>12, <4>1, StartsConcat
      <4> QED
        BY <4>2 DEF Guarded, StartsOnce
    <3> QED
      BY <3>1, <3>2
  <2>14. /\ b \in Seq(Inside(g))
         /\ \A i \in DOMAIN b : i \in 1..Len(x.body) \/ i = Len(x.body) + 1
         /\ \A i \in 1..Len(x.body) : b[i] = x.body[i] /\ i \in DOMAIN x.body
         /\ b[Len(x.body) + 1] = e
    BY <2>8, Scope
  <2> HIDE DEF b
  <2>15. ASSUME NEW i \in DOMAIN b, MayStart(b[i]) PROVE MayStart(code[1])
    BY <1>2, <2>9, <2>10, <2>14, <2>15
  <2> HIDE DEF x
  <2> QED
    BY <1>1, <1>2, <2>1, <2>3, <2>13, <2>14, <2>15, SpliceInside
<1> QED
  BY <1>1, <1>2, <1>6, <1>7, FirstScope

\* A Tss2Session begins: outside of any other, so no session is open
LEMMA SessionStep == ASSUME Inv, DoSession PROVE Inv'
<1> DEFINE x == Head(code)
           e == CloseSession(x.ctx)
           b == x.body \o <<e>>
           last == Len(x.body) + 1
<1>1. /\ code # << >> /\ x.op = "session" /\ code' = b \o Tail(code)
      /\ UNCHANGED <<sessions, session, objects, call, mode, todo>>
  BY DEF DoSession, At, Proceed, Caller, EndSession
<1>2. x = code[1] /\ WellFormed(code) /\ code \in Seq(Instruction) /\ 1 \in DOMAIN code
      /\ Len(code) \in Nat /\ DOMAIN code = 1..Len(code)
  BY <1>1, Drops DEF Inv, WellFormed
<1>3. g \in Ctx /\ t \in Ctx /\ g # t
  BY DEF g, t, Ctx
<1>4. /\ x \in Outside
      /\ \A k \in DOMAIN code : k > 1 => code[k] \notin SessionEnd /\ ~MayStart(code[k])
  <2>1. ASSUME NEW c \in Ctx PROVE x \notin Inside(c)
    BY <1>1, InsideByOp
  <2>2. \A k \in DOMAIN code : code[k] \in SessionEnd => code[k].ctx \in Ctx
    BY DEF SessionEnd
  <2> QED
    BY <1>1, <1>2, <2>1, <2>2, FirstScope
<1>5. x \in Session(x.ctx) /\ x.ctx \in Ctx
  BY <1>1, <1>4, OutsideByOp
<1>6. x.body \in Seq(Body(x.ctx)) /\ StartsOnce(x.body, FALSE)
  BY <1>5 DEF Session
<1>7. e \in SessionEnd /\ e.ctx = x.ctx /\ ~MayStart(e) /\ e.op = "close_session" /\ e \in Outside
  BY <1>5 DEF CloseSession, SessionEnd, MayStart, Outside
<1>8. Open = FALSE
  <2>1. code[1] \notin SessionEnd
    BY <1>1, <1>2 DEF SessionEnd
  <2>2. \A k \in DOMAIN code : k = 1 \/ k > 1
    BY <1>2
  <2>3. \A k \in DOMAIN code : code[k] \notin SessionEnd
    BY <1>4, <2>1, <2>2
  <2>4. \A ctx \in Ctx : ~session[ctx]
    BY <2>3, OpenSession
  <2> QED
    BY <2>4 DEF Open
<1>9. Body(x.ctx) \subseteq Inside(x.ctx) /\ Inside(x.ctx) \subseteq Instruction
  BY <1>3, <1>5 DEF Inside, Instruction, Ctx, g, t
<1>10. \A y \in Body(x.ctx) : y \notin SessionEnd /\ (OnTmpCtx(y) => x.ctx = t) /\ y.op \notin {"connect", "close_ctx", "close_session"}
  <2>1. ASSUME NEW y \in Body(x.ctx)
        PROVE  y \notin SessionEnd /\ (OnTmpCtx(y) => x.ctx = t) /\ y.op \notin {"connect", "close_ctx", "close_session"}
    <3>1. y \in Inside(x.ctx)
      BY <1>9
    <3>2. y.op \notin {"if_opens", "session", "connect", "close_session", "close_ctx"}
          /\ (y.op \in {"start", "flush", "create", "flush_object"} => y.ctx = x.ctx)
      BY <1>5, <3>1, InsideByOp
    <3> HIDE DEF x
    <3> QED
      BY <3>2 DEF SessionEnd, OnTmpCtx
  <2> QED
    BY <2>1
<1> HIDE DEF x, e
<1>11. e \in Instruction /\ x.body \in Seq(Instruction)
  <2>1. Body(x.ctx) \subseteq Instruction
    BY <1>9
  <2> QED
    BY <1>6, <1>7, <2>1, SeqMonotone DEF Instruction
<1>12. /\ b \in Seq(Instruction) /\ Len(x.body) \in Nat /\ DOMAIN b = 1..last
       /\ DOMAIN x.body = 1..Len(x.body)
       /\ b[last] = e
       /\ \A i \in 1..Len(x.body) : b[i] = x.body[i]
       /\ \A i \in DOMAIN b : i \in 1..Len(x.body) \/ i = last
  BY <1>11, Scope
<1>13. StartsOnce(b, Open)
  <2>1. Guarded(<<e>>) /\ <<e>> \in Seq(Instruction)
    <3>1. DOMAIN <<e>> = {1} /\ <<e>>[1] = e
      OBVIOUS
    <3> QED
      BY <1>7, <1>11, <3>1 DEF Guarded
  <2> QED
    BY <1>6, <1>8, <1>11, <2>1, StartsConcat
<1> HIDE DEF b
<1>14. last \in DOMAIN b /\ \A i \in 1..Len(x.body) : i < last /\ i \in DOMAIN b /\ b[i] \in Body(x.ctx)
  BY <1>6, <1>12
<1>15. \A i \in DOMAIN b : ~(last < i)
  BY <1>12
<1> HIDE DEF last
<1>16. ASSUME NEW i \in DOMAIN b
       PROVE  \/ \E k \in DOMAIN b : i < k /\ b[k] \in SessionEnd /\ b[i] \in Inside(b[k].ctx)
              \/ /\ b[i] \in Outside
                 /\ \A k \in DOMAIN b : i < k => b[k] \notin SessionEnd
                 /\ \A k \in DOMAIN code : k > 1 => code[k] \notin SessionEnd
  <2>1. CASE i \in 1..Len(x.body)
    BY <1>7, <1>9, <1>12, <1>14, <2>1
  <2>2. CASE i = last
    BY <1>4, <1>7, <1>12, <1>15, <2>2
  <2> QED
    BY <1>12, <2>1, <2>2
<1>17. ASSUME NEW i \in DOMAIN b, OnTmpCtx(b[i])
       PROVE  \E m \in DOMAIN code : m > 1 /\ code[m].op = "close_ctx"
  <2>1. x.ctx = t
    <3>1. CASE i \in 1..Len(x.body)
      BY <1>10, <1>14, <1>17, <3>1
    <3>2. CASE i = last
      BY <1>7, <1>12, <1>17, <3>2 DEF OnTmpCtx
    <3> QED
      BY <1>12, <3>1, <3>2
  <2>2. OnTmpCtx(code[1])
    BY <1>1, <1>2, <2>1 DEF OnTmpCtx
  <2>3. PICK m \in DOMAIN code : 1 < m /\ code[m].op = "close_ctx"
    BY <1>2, <2>2 DEF WellFormed, CtxScope
  <2> QED
    BY <1>2, <2>3
<1>18. ASSUME NEW i \in DOMAIN b PROVE b[i].op \notin {"connect", "close_ctx"}
  BY <1>7, <1>10, <1>12, <1>14
<1>19. WellFormed(b \o Tail(code))
  BY <1>1, <1>2, <1>12, <1>16, <1>17, <1>18, SpliceWellFormed
<1> QED
  BY <1>1, <1>2, <1>4, <1>12, <1>13, <1>19, Spliced

\* The second connection begins, outside of another one
LEMMA ConnectStep == ASSUME Inv, DoConnect PROVE Inv'
<1> DEFINE x == Head(code)
           b == x.body \o <<CloseCtx>>
           last == Len(x.body) + 1
<1>1. /\ code # << >> /\ x.op = "connect"
      /\ code' = b \o Tail(code) \/ code' = Unwind(Tail(code))
      /\ UNCHANGED <<sessions, session, objects, call, mode, todo>>
  BY DEF DoConnect, At, Proceed, Throw, Caller
<1>2. x = code[1] /\ WellFormed(code) /\ code \in Seq(Instruction) /\ 1 \in DOMAIN code
      /\ Len(code) \in Nat /\ DOMAIN code = 1..Len(code)
  BY <1>1, Drops DEF Inv, WellFormed
<1>3. CASE code' = Unwind(Tail(code))
  BY <1>1, <1>3, RequestStep
<1>4. CASE code' = b \o Tail(code)
  <2>1. x \in Outside /\ \A k \in DOMAIN code : k > 1 => code[k] \notin SessionEnd
    <3>1. ASSUME NEW c \in Ctx PROVE x \notin Inside(c)
      BY <1>1, InsideByOp
    <3>2. \A k \in DOMAIN code : code[k] \in SessionEnd => code[k].ctx \in Ctx
      BY DEF SessionEnd
    <3> QED
      BY <1>1, <1>2, <3>1, <3>2, FirstScope
  <2>2. \A m \in DOMAIN code : m > 1 => code[m].op # "close_ctx"
    <3>1. \A m \in DOMAIN code : 1 < m => code[m].op # "close_ctx"
      BY <1>1, <1>2 DEF WellFormed, CtxScope
    <3> QED
      BY <1>2, <3>1
  <2>3. x.body \in Seq(Function(Ctx))
    <3>1. x \in Connection
      BY <1>1, <2>1, OutsideByOp
    <3> QED
      BY <3>1 DEF Connection
  <2>4. \A y \in Function(Ctx) : y \notin SessionEnd /\ y.op \notin {"connect", "close_ctx"}
    BY DEF Function, Plain, Conditional, OuterTry, Session, SessionEnd
  <2>5. CloseCtx \in Outside /\ CloseCtx \notin SessionEnd /\ ~OnTmpCtx(CloseCtx) /\ CloseCtx.op = "close_ctx"
    BY DEF CloseCtx, Outside, CtxEnd, SessionEnd, OnTmpCtx
  <2> HIDE DEF x
  <2>6. x.body \in Seq(Outside)
    <3>1. Function(Ctx) \subseteq Outside
      BY DEF Outside
    <3> QED
      BY <2>3, <3>1, SeqMonotone
  <2>7. /\ b \in Seq(Outside) /\ Len(x.body) \in Nat /\ DOMAIN b = 1..last
        /\ DOMAIN x.body = 1..Len(x.body)
        /\ b[last] = CloseCtx
        /\ \A i \in 1..Len(x.body) : b[i] = x.body[i]
        /\ \A i \in DOMAIN b : i \in 1..Len(x.body) \/ i = last
    BY <2>5, <2>6, Scope
  <2> HIDE DEF b
  <2>8. last \in DOMAIN b /\ \A i \in 1..Len(x.body) : i < last /\ b[i] \in Function(Ctx)
    BY <2>3, <2>7
  <2>9. \A i \in DOMAIN b : ~(last < i)
    BY <2>7
  <2> HIDE DEF last
  <2>10. \A i \in DOMAIN b : b[i] \notin SessionEnd
    BY <2>4, <2>5, <2>7, <2>8
  <2>11. \A i \in DOMAIN b : OnTmpCtx(b[i]) => \E m \in DOMAIN b : i < m /\ b[m].op = "close_ctx"
    BY <2>5, <2>7, <2>8
  <2>12. \A i \in DOMAIN b : b[i].op \in {"connect", "close_ctx"} => i = last
    BY <2>4, <2>7, <2>8
  <2>13. \A i \in DOMAIN b : b[i].op \in {"connect", "close_ctx"} =>
           /\ \A m \in DOMAIN b : i < m => b[m].op # "close_ctx"
           /\ \A m \in DOMAIN code : m > 1 => code[m].op # "close_ctx"
    BY <2>2, <2>9, <2>12
  <2> QED
    BY <1>1, <1>2, <1>4, <2>1, <2>7, <2>10, <2>11, <2>13, SpliceOutside
<1> QED
  BY <1>1, <1>3, <1>4

\* A pass of the loop around PCR_Read
LEMMA PcrReadStep == ASSUME Inv, DoPcrRead PROVE Inv'
<1>1. /\ code # << >> /\ Head(code).op = "pcr_read"
      /\ \/ code' = <<Head(code)>> \o Tail(code)
         \/ code' = << >> \o Tail(code)
         \/ code' = Unwind(Tail(code))
      /\ UNCHANGED <<sessions, session, objects, call, mode, todo>>
  BY DEF DoPcrRead, At, Proceed, Throw, Caller
<1>2. code \in Seq(Instruction)
  BY DEF Inv, WellFormed
<1>3. CASE code' = <<Head(code)>> \o Tail(code)
  <2>1. code' = code
    BY <1>1, <1>2, <1>3
  <2> QED
    BY <1>1, <2>1 DEF Inv, WellFormed, Open, SessionsScoped, ObjectsScoped
<1>4. CASE code' = << >> \o Tail(code) \/ code' = Unwind(Tail(code))
  BY <1>1, <1>4, RequestStep
<1> QED
  BY <1>1, <1>3, <1>4

\* A call begins with a well-formed sequence and without a session
LEMMA BeginStep ==
  ASSUME Inv, Idle, NEW name, name # "none", NEW script \in Seq(Call), Begin(name, script),
         UNCHANGED <<mode, objects, sessions, session>>,
         mode' # "library" => todo' \in Seq(Test)
  PROVE  Inv'
<1>1. code = << >>
  BY DEF Idle, Inv
<1>2. \A ctx \in Ctx : ~session[ctx]
  BY <1>1 DEF Inv, SessionsScoped
<1>3. objects[t] = None
  BY <1>1 DEF Inv, ObjectsScoped
<1>4. \A i \in DOMAIN script : script[i] \in Call
  OBVIOUS
<1>5. g # t /\ {g} \subseteq Ctx
  BY DEF g, t, Ctx
<1>6. Call \subseteq Outside
  BY <1>5, PlainMonotone DEF Call, Outside, Function
<1>7. \A x \in Call : x \notin SessionEnd /\ ~OnTmpCtx(x) /\ x.op # "close_ctx"
  <2>1. \A x \in Plain({g}) : x \notin SessionEnd /\ ~OnTmpCtx(x) /\ x.op # "close_ctx"
    BY <1>5 DEF Plain, SessionEnd, OnTmpCtx
  <2>2. \A x \in Conditional \cup OuterTry \cup Connection :
          x \notin SessionEnd /\ ~OnTmpCtx(x) /\ x.op # "close_ctx"
    BY DEF Conditional, OuterTry, Connection, SessionEnd, OnTmpCtx
  <2>3. \A x \in Session(g) \cup Session(t) :
          x.ctx \in {g} => x \notin SessionEnd /\ ~OnTmpCtx(x) /\ x.op # "close_ctx"
    BY <1>5 DEF Session, SessionEnd, OnTmpCtx
  <2> QED
    BY <2>1, <2>2, <2>3 DEF Call, Function
<1>8. script \in Seq(Instruction)
  <2>1. Call \subseteq Instruction
    BY <1>6 DEF Instruction
  <2> QED
    BY <2>1, SeqMonotone
<1>9. WellFormed(script)
  BY <1>4, <1>6, <1>7, <1>8 DEF WellFormed, SessionScope, CtxScope
<1>10. \A i \in DOMAIN script : ~MayStart(script[i])
  BY <1>4, <1>6, OutsideByOp
<1>11. code' = script /\ call' = name
  BY DEF Begin
<1>12. StartsOnce(code', Open')
  BY <1>10, <1>11 DEF StartsOnce
<1>13. SessionsScoped'
  BY <1>2 DEF Inv, SessionsScoped
<1>14. ObjectsScoped'
  BY <1>3 DEF Inv, ObjectsScoped
<1> QED
  BY <1>9, <1>11, <1>12, <1>13, <1>14 DEF Inv

\* The steps of the process
LEMMA ProcessStep ==
  ASSUME Inv, Connect \/ CallTpm \/ process_command \/ Continue \/ Return \/ main \/ Exited
  PROVE  Inv'
<1>1. CASE CallTpm
  <2>1. PICK name \in DOMAIN Tpm : Begin(name, Tpm[name])
    BY <1>1 DEF CallTpm
  <2>2. Tpm[name] \in Seq(Call) /\ name # "none"
    <3>1. "none" \notin DOMAIN Tpm
      BY DEF Tpm
    <3> QED
      BY <3>1, Scripts
  <2>3. Idle /\ UNCHANGED <<mode, objects, sessions, session>> /\ mode = "library"
    BY <1>1 DEF CallTpm
  <2> QED
    BY <2>1, <2>2, <2>3, BeginStep
<1>2. CASE process_command
  <2>1. /\ Idle /\ UNCHANGED <<mode, objects, sessions, session>> /\ mode # "library" /\ todo # << >>
        /\ todo' = Tail(todo) /\ Begin(Head(todo), g_tests[Head(todo)])
    BY <1>2 DEF process_command
  <2>2. todo \in Seq(Test)
    BY <2>1 DEF Inv
  <2>3. Head(todo) \in Test /\ todo' \in Seq(Test)
    BY <2>1, <2>2
  <2>4. g_tests[Head(todo)] \in Seq(Call) /\ Head(todo) # "none"
    BY <2>3, Scripts DEF Test
  <2> QED
    BY <2>1, <2>3, <2>4, BeginStep
<1>3. CASE Continue
  <2>1. /\ UNCHANGED <<code, session, sessions, objects, call, mode>>
        /\ mode # "library" /\ todo # << >> /\ todo' = Tail(todo)
    BY <1>3 DEF Continue
  <2>2. todo' \in Seq(Test)
    BY <2>1 DEF Inv
  <2> QED
    BY <2>1, <2>2 DEF Inv, WellFormed, Open, SessionsScoped, ObjectsScoped
<1>4. CASE Return
  <2>1. UNCHANGED <<code, session, sessions, objects, mode, todo>> /\ code = << >>
    BY <1>4 DEF Return, Returned
  <2> QED
    BY <2>1, ZenonT(40) DEF Inv, WellFormed, Open, SessionsScoped, ObjectsScoped
<1>5. CASE main
  <2>1. /\ UNCHANGED <<code, session, sessions, call, mode, todo>>
        /\ objects' = [ctx \in Ctx |-> None]
    BY <1>5 DEF main
  <2>2. ObjectsScoped'
    BY <2>1 DEF ObjectsScoped, t, Ctx
  <2> QED
    BY <2>1, <2>2 DEF Inv, WellFormed, Open, SessionsScoped
<1>6. CASE Connect \/ Exited
  <2>1. UNCHANGED <<code, session, sessions, objects, call, mode, todo>>
    BY <1>6 DEF Connect, Exited, vars
  <2> QED
    BY <2>1 DEF Inv, WellFormed, Open, SessionsScoped, ObjectsScoped
<1> QED
  BY <1>1, <1>2, <1>3, <1>4, <1>5, <1>6

\* Every step preserves the invariant
LEMMA StepPreserves == ASSUME Inv, [Next]_vars PROVE Inv'
<1>1. CASE DoCommand \/ DoSelect \/ DoOpen \/ DoRethrow \/ DoEvictControl
  <2>1. /\ code' = << >> \o Tail(code) \/ code' = Unwind(Tail(code))
        /\ UNCHANGED <<sessions, session, objects, call, mode, todo>>
    BY <1>1 DEF DoCommand, DoSelect, DoOpen, DoRethrow, DoEvictControl, Proceed, Throw,
       ThrowFor, Caller
  <2>2. code # << >> /\ Head(code).op \in {"command", "select", "open", "if_opens",
          "evict_control", "rethrow", "connect", "pcr_read"}
    BY <1>1 DEF DoCommand, DoSelect, DoOpen, DoRethrow, DoEvictControl, At
  <2> QED
    BY <2>1, <2>2, RequestStep
<1>2. CASE DoIfOpens \/ DoTry \/ DoEndTry
  BY <1>2, IfOpensStep, TryStep, EndTryStep
<1>3. CASE DoCreate \/ DoFlushObject
  BY <1>3, ObjectStep
<1>4. CASE DoStart \/ DoFlush
  BY <1>4, StartStep, FlushStep
<1>5. CASE DoSession \/ DoCloseSession
  BY <1>5, SessionStep, CloseSessionStep
<1>6. CASE DoConnect \/ DoCloseCtx \/ DoPcrRead
  BY <1>6, ConnectStep, CloseCtxStep, PcrReadStep
<1>7. CASE Connect \/ CallTpm \/ process_command \/ Continue \/ Return \/ main \/ Exited
  BY <1>7, ProcessStep
<1>8. CASE UNCHANGED vars
  <2>1. UNCHANGED <<code, session, sessions, objects, call, mode, todo>>
    BY <1>8 DEF vars
  <2> QED
    BY <2>1 DEF Inv, WellFormed, Open, SessionsScoped, ObjectsScoped
<1> QED
  BY <1>1, <1>2, <1>3, <1>4, <1>5, <1>6, <1>7, <1>8 DEF Next, Step

\* The process starts without a session
LEMMA InitEstablishes == ASSUME Init PROVE Inv
<1>1. code = << >> /\ call = "none"
  BY DEF Init
<1>2. WellFormed(code) /\ StartsOnce(code, Open)
  BY <1>1 DEF WellFormed, SessionScope, CtxScope, StartsOnce
<1>3. SessionsScoped
  BY DEF Init, SessionsScoped
<1>4. ObjectsScoped
  BY DEF Init, ObjectsScoped, t, Ctx
<1>5. mode # "library" => todo \in Seq(Test)
  <2>1. mode \in Mode /\ todo \in Todo(mode)
    BY DEF Init
  <2>2. CASE mode \in Group
    <3>1. todo \in Orders
      BY <2>1, <2>2 DEF Todo, Group, Test
    <3> QED
      BY <3>1, ConstantsAssumption
  <2>3. CASE mode \in Test
    <3>1. todo = <<mode>>
      BY <2>1, <2>3 DEF Todo, Group, Test
    <3> QED
      BY <2>3, <3>1
  <2>4. CASE mode \in {"no_argument", "unknown"}
    <3>1. todo = << >>
      BY <2>1, <2>4 DEF Todo, Group, Test
    <3> QED
      BY <3>1
  <2> QED
    BY <2>1, <2>2, <2>3, <2>4 DEF Mode
<1> QED
  BY <1>1, <1>2, <1>3, <1>4, <1>5 DEF Inv

\* What is left of a call keeps its scopes, whatever fails
THEOREM Invariant == Spec => []Inv
<1>1. Init => Inv
  BY InitEstablishes
<1>2. Inv /\ [Next]_vars => Inv'
  BY StepPreserves
<1> QED
  BY <1>1, <1>2, PTL DEF Spec

\* A connection never has two sessions, and a call that returns, through an
\* exception or not, has closed them all and leaves nothing on the second connection
THEOREM NoSessionIsLeft == Spec => []SessionsEnd
<1>1. ASSUME Inv PROVE SessionsEnd
  <2>1. \A ctx \in Ctx : sessions[ctx] \in 0..1
    BY <1>1 DEF Inv, SessionsScoped
  <2>2. ASSUME Returned PROVE sessions = [ctx \in Ctx |-> 0] /\ objects[t] = None
    <3>1. code = << >>
      BY <2>2 DEF Returned
    <3>2. \A ctx \in Ctx : ~session[ctx]
      BY <1>1, <3>1 DEF Inv, SessionsScoped
    <3>3. sessions = [ctx \in Ctx |-> 0]
      BY <1>1, <3>2 DEF Inv, SessionsScoped
    <3>4. objects[t] = None
      BY <1>1, <3>1 DEF Inv, ObjectsScoped
    <3> QED
      BY <3>3, <3>4
  <2> QED
    BY <2>1, <2>2 DEF SessionsEnd
<1> QED
  BY <1>1, Invariant, PTL

-----------------------------------------------------------------------------
(* Objects beyond those a call has found *)

Vec == [Kind -> Nat]
V(e, k, l) == [kind \in Kind |-> IF kind = "ephemeral" THEN e ELSE IF kind = "ek" THEN k ELSE l]
Plus(a, kind) == [a EXCEPT ![kind] = @ + 1]
Minus(a, kind) == [a EXCEPT ![kind] = @ - 1]

Extra == [kind \in Kind |-> objects[g][kind] - before[kind]]
Kept(c) == [kind \in Kind |-> KeptOnSuccess(c, kind)]

\* What FailureLeavesExplained asks of a call c in which f failed
Fits(c, a, f) ==
  /\ a["ephemeral"] > 0 => "flush" \in f \/ (c = "GetEphemeralKey" /\ "open" \in f)
  /\ a["ek"] > 0 =>
       IF c \in {"GetEkPubWithCertification", "certifyek"} THEN f # {}
       ELSE c \in {"GetEkPubWithoutPersisting", "GetEkPub", "ekpub", "generateek",
                   "UnsealWithEkFromSpec", "unseal"}
  /\ a["loaded"] > 0 => c \in {"Unseal", "UnsealWithEkFromSpec", "unseal"}

-----------------------------------------------------------------------------
(* Triples *)

IsSeq(s) == \E S : s \in Seq(S)

\* What may stand in a try block: it leaves the objects alone
CalmOps == {"command", "select", "open", "pcr_read", "start", "flush", "evict_control", "rethrow"}
Calm(x) ==
  \/ x.op \in CalmOps
  \/ x.op = "if_opens" /\ IsSeq(x.body) /\ \A i \in DOMAIN x.body : x.body[i].op \in CalmOps
AllCalm(s) == IsSeq(s) /\ \A i \in DOMAIN s : Calm(s[i])

\* x takes a to b, and if it throws a is explained; what always throws may be
\* said to reach any b.  R has the triples of what x contains.
Effect(R, c, x, a, b) ==
  \/ x.op \in {"select", "close_session", "close_ctx"} /\ b = a
  \/ x.op \in {"command", "start", "flush", "pcr_read"} /\ b = a /\ Fits(c, a, {})
  \/ x.op = "rethrow" /\ Fits(c, a, {})
  \/ x.op = "evict_control" /\ Fits(c, a, {}) /\ (x.handle = "0" \/ b = a)
  \/ x.op = "open" /\ b = a /\ Fits(c, a, {"open"})
  \/ /\ x.op = "create" /\ x.kind \in Kind /\ Fits(c, a, {})
     /\ b = IF x.ctx = g THEN Plus(a, x.kind) ELSE a
  \/ /\ x.op = "flush_object" /\ x.ctx = g /\ x.kind \in Kind /\ Fits(c, a, {"flush"})
     /\ a[x.kind] > 0 /\ b = Minus(a, x.kind)
  \/ x.op = "if_opens" /\ b = a /\ <<x.body, a, a>> \in R
  \/ x.op = "session" /\ <<x.body, a, b>> \in R
  \/ x.op = "connect" /\ Fits(c, a, {}) /\ <<x.body, a, b>> \in R
  \/ x.op = "try" /\ b = a /\ AllCalm(x.body) /\ <<x.handler, a, a>> \in R

\* Only what is being run has the end of a try block in it
NoEndTry(s) == \A i \in DOMAIN s : s[i].op # "end_try"

\* Every triple of R follows from the triples of R
Closed(c, R) ==
  \A s, a, b : <<s, a, b>> \in R =>
    /\ IsSeq(s) /\ NoEndTry(s) /\ a \in Vec /\ b \in Vec
    /\ s = << >> => b = a
    /\ s # << >> => \E m \in Vec : Effect(R, c, s[1], a, m) /\ <<Tail(s), m, b>> \in R

Triple(c, s, a, b) == \E R : Closed(c, R) /\ <<s, a, b>> \in R

-----------------------------------------------------------------------------
(* Sequences over some set *)

\* A sequence is the tuple of its elements
LEMMA Tuples ==
  ASSUME NEW S, NEW s \in Seq(S)
  PROVE  /\ Len(s) = 2 => s = <<s[1], s[2]>>
         /\ Len(s) = 3 => s = <<s[1], s[2], s[3]>>
         /\ Len(s) = 4 => s = <<s[1], s[2], s[3], s[4]>>
<1>1. Len(s) = 2 => s = <<s[1], s[2]>>
  OBVIOUS
<1>2. Len(s) = 3 => s = <<s[1], s[2], s[3]>>
  OBVIOUS
<1>3. Len(s) = 4 => s = <<s[1], s[2], s[3], s[4]>>
  OBVIOUS
<1> QED
  BY <1>1, <1>2, <1>3

\* Short tuples, one after the other
LEMMA TupleConcat ==
  /\ \A x, y : <<x>> \o <<y>> = <<x, y>>
  /\ \A x, y, z : <<x>> \o <<y, z>> = <<x, y, z>>
  /\ \A x, y, z : <<x, y>> \o <<z>> = <<x, y, z>>
  /\ \A x, y, z, w : <<x, y, z>> \o <<w>> = <<x, y, z, w>>
<1>1. ASSUME NEW S, NEW a \in Seq(S), NEW b \in Seq(S)
      PROVE  /\ a \o b \in Seq(S) /\ Len(a \o b) = Len(a) + Len(b)
             /\ \A i \in 1..Len(a) : (a \o b)[i] = a[i]
             /\ \A i \in 1..Len(b) : (a \o b)[Len(a) + i] = b[i]
  BY Concatenation
<1>2. ASSUME NEW x, NEW y PROVE <<x>> \o <<y>> = <<x, y>>
  <2> DEFINE S == {x, y}
  <2>1. ASSUME NEW a \in Seq(S), NEW b \in Seq(S), Len(a) = 1, Len(b) = 1
        PROVE  a \o b = <<a[1], b[1]>>
    <3> DEFINE r == a \o b
    <3>1. r \in Seq(S) /\ Len(r) = Len(a) + Len(b)
      BY <1>1
    <3>2. /\ \A i \in 1..Len(a) : r[i] = a[i]
          /\ \A i \in 1..Len(b) : r[Len(a) + i] = b[i]
      BY <1>1
    <3> HIDE DEF r
    <3>3. /\ \A i \in 1..1 : r[i] = a[i]
          /\ \A i \in 1..1 : r[1 + i] = b[i]
      BY <2>1, <3>2
    <3>4. Len(r) = 2 /\ r[1] = a[1] /\ r[2] = b[1]
      BY <2>1, <3>1, <3>3
    <3> QED
      BY <3>1, <3>4, Tuples DEF r
  <2>2. /\ <<x>> \in Seq(S) /\ Len(<<x>>) = 1 /\ <<x>>[1] = x
        /\ <<y>> \in Seq(S) /\ Len(<<y>>) = 1 /\ <<y>>[1] = y
    OBVIOUS
  <2> QED
    BY <2>1, <2>2
<1>3. ASSUME NEW x, NEW y, NEW z PROVE <<x>> \o <<y, z>> = <<x, y, z>>
  <2> DEFINE S == {x, y, z}
  <2>1. ASSUME NEW a \in Seq(S), NEW b \in Seq(S), Len(a) = 1, Len(b) = 2
        PROVE  a \o b = <<a[1], b[1], b[2]>>
    <3> DEFINE r == a \o b
    <3>1. r \in Seq(S) /\ Len(r) = Len(a) + Len(b)
      BY <1>1
    <3>2. /\ \A i \in 1..Len(a) : r[i] = a[i]
          /\ \A i \in 1..Len(b) : r[Len(a) + i] = b[i]
      BY <1>1
    <3> HIDE DEF r
    <3>3. /\ \A i \in 1..1 : r[i] = a[i]
          /\ \A i \in 1..2 : r[1 + i] = b[i]
      BY <2>1, <3>2
    <3>4. Len(r) = 3 /\ r[1] = a[1] /\ r[2] = b[1] /\ r[3] = b[2]
      BY <2>1, <3>1, <3>3
    <3> QED
      BY <3>1, <3>4, Tuples DEF r
  <2>2. /\ <<x>> \in Seq(S) /\ Len(<<x>>) = 1 /\ <<x>>[1] = x
        /\ <<y, z>> \in Seq(S) /\ Len(<<y, z>>) = 2 /\ <<y, z>>[1] = y /\ <<y, z>>[2] = z
    OBVIOUS
  <2> QED
    BY <2>1, <2>2
<1>4. ASSUME NEW x, NEW y, NEW z PROVE <<x, y>> \o <<z>> = <<x, y, z>>
  <2> DEFINE S == {x, y, z}
  <2>1. ASSUME NEW a \in Seq(S), NEW b \in Seq(S), Len(a) = 2, Len(b) = 1
        PROVE  a \o b = <<a[1], a[2], b[1]>>
    <3> DEFINE r == a \o b
    <3>1. r \in Seq(S) /\ Len(r) = Len(a) + Len(b)
      BY <1>1
    <3>2. /\ \A i \in 1..Len(a) : r[i] = a[i]
          /\ \A i \in 1..Len(b) : r[Len(a) + i] = b[i]
      BY <1>1
    <3> HIDE DEF r
    <3>3. /\ \A i \in 1..2 : r[i] = a[i]
          /\ \A i \in 1..1 : r[2 + i] = b[i]
      BY <2>1, <3>2
    <3>4. Len(r) = 3 /\ r[1] = a[1] /\ r[2] = a[2] /\ r[3] = b[1]
      BY <2>1, <3>1, <3>3
    <3> QED
      BY <3>1, <3>4, Tuples DEF r
  <2>2. /\ <<x, y>> \in Seq(S) /\ Len(<<x, y>>) = 2 /\ <<x, y>>[1] = x /\ <<x, y>>[2] = y
        /\ <<z>> \in Seq(S) /\ Len(<<z>>) = 1 /\ <<z>>[1] = z
    OBVIOUS
  <2> QED
    BY <2>1, <2>2
<1>5. ASSUME NEW x, NEW y, NEW z, NEW w PROVE <<x, y, z>> \o <<w>> = <<x, y, z, w>>
  <2> DEFINE S == {x, y, z, w}
  <2>1. ASSUME NEW a \in Seq(S), NEW b \in Seq(S), Len(a) = 3, Len(b) = 1
        PROVE  a \o b = <<a[1], a[2], a[3], b[1]>>
    <3> DEFINE r == a \o b
    <3>1. r \in Seq(S) /\ Len(r) = Len(a) + Len(b)
      BY <1>1
    <3>2. /\ \A i \in 1..Len(a) : r[i] = a[i]
          /\ \A i \in 1..Len(b) : r[Len(a) + i] = b[i]
      BY <1>1
    <3> HIDE DEF r
    <3>3. /\ \A i \in 1..3 : r[i] = a[i]
          /\ \A i \in 1..1 : r[3 + i] = b[i]
      BY <2>1, <3>2
    <3>4. Len(r) = 4 /\ r[1] = a[1] /\ r[2] = a[2] /\ r[3] = a[3] /\ r[4] = b[1]
      BY <2>1, <3>1, <3>3
    <3> QED
      BY <3>1, <3>4, Tuples DEF r
  <2>2. /\ <<x, y, z>> \in Seq(S) /\ Len(<<x, y, z>>) = 3 /\ <<x, y, z>>[1] = x /\ <<x, y, z>>[2] = y /\ <<x, y, z>>[3] = z
        /\ <<w>> \in Seq(S) /\ Len(<<w>>) = 1 /\ <<w>>[1] = w
    OBVIOUS
  <2> QED
    BY <2>1, <2>2
<1> QED
  BY <1>2, <1>3, <1>4, <1>5

\* What there is to know of such a sequence
LEMMA SeqFacts ==
  ASSUME NEW s, IsSeq(s)
  PROVE  /\ Len(s) \in Nat /\ DOMAIN s = 1..Len(s)
         /\ s # << >> => /\ Len(s) > 0 /\ Head(s) = s[1] /\ IsSeq(Tail(s))
                         /\ Len(Tail(s)) = Len(s) - 1 /\ DOMAIN Tail(s) = 1..(Len(s) - 1)
                         /\ \A i \in 1..(Len(s) - 1) : Tail(s)[i] = s[i + 1]
         /\ Len(s) = 0 => s = << >>
         /\ << >> \o s = s /\ s \o << >> = s
<1>1. PICK S : s \in Seq(S)
  BY DEF IsSeq
<1>2. Len(s) \in Nat /\ DOMAIN s = 1..Len(s) /\ (Len(s) = 0 => s = << >>) /\ << >> \o s = s /\ s \o << >> = s
  BY <1>1
<1>3. ASSUME s # << >>
      PROVE  /\ Len(s) > 0 /\ Head(s) = s[1] /\ Tail(s) \in Seq(S)
             /\ Len(Tail(s)) = Len(s) - 1 /\ DOMAIN Tail(s) = 1..(Len(s) - 1)
             /\ \A i \in 1..(Len(s) - 1) : Tail(s)[i] = s[i + 1]
  BY <1>1, <1>3
<1> QED
  BY <1>2, <1>3 DEF IsSeq

\* The concatenation of two such sequences, under a name the provers keep
Cat(s, u) == s \o u

LEMMA CatParts ==
  ASSUME NEW s, NEW u, IsSeq(s), IsSeq(u)
  PROVE  /\ IsSeq(Cat(s, u)) /\ Len(Cat(s, u)) = Len(s) + Len(u)
         /\ DOMAIN Cat(s, u) = 1..(Len(s) + Len(u))
         /\ \A i \in 1..Len(s) : Cat(s, u)[i] = s[i]
         /\ \A i \in 1..Len(u) : Cat(s, u)[Len(s) + i] = u[i]
         /\ \A i \in DOMAIN Cat(s, u) : i \in 1..Len(s) \/ (\E j \in 1..Len(u) : i = Len(s) + j)
<1>1. PICK S : s \in Seq(S)
  BY DEF IsSeq
<1>2. PICK T : u \in Seq(T)
  BY DEF IsSeq
<1>3. s \in Seq(S \cup T) /\ u \in Seq(S \cup T)
  <2>1. S \subseteq S \cup T /\ T \subseteq S \cup T
    OBVIOUS
  <2>2. Seq(S) \subseteq Seq(S \cup T)
    BY <2>1, SeqMonotone
  <2>3. Seq(T) \subseteq Seq(S \cup T)
    BY <2>1, SeqMonotone
  <2> QED
    BY <1>1, <1>2, <2>2, <2>3
<1>4. /\ Cat(s, u) \in Seq(S \cup T) /\ Len(Cat(s, u)) = Len(s) + Len(u)
      /\ Len(s) \in Nat /\ Len(u) \in Nat
      /\ DOMAIN Cat(s, u) = 1..(Len(s) + Len(u))
  BY <1>3 DEF Cat
<1>5. \A i \in 1..Len(s) : Cat(s, u)[i] = s[i]
  BY <1>3 DEF Cat
<1>6. \A i \in 1..Len(u) : Cat(s, u)[Len(s) + i] = u[i]
  BY <1>3 DEF Cat
<1>7. ASSUME NEW i \in DOMAIN Cat(s, u), i \notin 1..Len(s) PROVE \E j \in 1..Len(u) : i = Len(s) + j
  <2>1. i - Len(s) \in 1..Len(u) /\ i = Len(s) + (i - Len(s))
    BY <1>4, <1>7
  <2> QED
    BY <2>1
<1>8. IsSeq(Cat(s, u))
  BY <1>4 DEF IsSeq
<1> QED
  BY <1>4, <1>5, <1>6, <1>7, <1>8

\* Sequences with the same elements are the same
LEMMA SameSeq ==
  ASSUME NEW s, NEW u, IsSeq(s), IsSeq(u), Len(s) = Len(u), \A i \in 1..Len(s) : s[i] = u[i]
  PROVE  s = u
<1>1. PICK S : s \in Seq(S)
  BY DEF IsSeq
<1>2. PICK T : u \in Seq(T)
  BY DEF IsSeq
<1> QED
  BY <1>1, <1>2

\* The tail of a concatenation
LEMMA TailOfCat ==
  ASSUME NEW s, NEW u, IsSeq(s), IsSeq(u), s # << >>
  PROVE  /\ Cat(s, u) # << >> /\ Cat(s, u)[1] = s[1]
         /\ Tail(Cat(s, u)) = Cat(Tail(s), u)
<1> DEFINE r == Cat(s, u)
           q == Tail(s)
           p == Cat(q, u)
<1>1. /\ Len(s) \in Nat /\ Len(s) > 0 /\ IsSeq(q) /\ Len(q) = Len(s) - 1
      /\ \A i \in 1..(Len(s) - 1) : q[i] = s[i + 1]
      /\ Len(u) \in Nat
  BY SeqFacts
<1> HIDE DEF q
<1>2. /\ IsSeq(r) /\ Len(r) = Len(s) + Len(u)
      /\ \A i \in 1..Len(s) : r[i] = s[i]
      /\ \A i \in 1..Len(u) : r[Len(s) + i] = u[i]
  BY CatParts
<1>3. /\ IsSeq(p) /\ Len(p) = Len(s) - 1 + Len(u)
      /\ \A i \in 1..(Len(s) - 1) : p[i] = q[i]
      /\ \A i \in 1..Len(u) : p[Len(s) - 1 + i] = u[i]
  <2> IsSeq(q)
    BY <1>1
  <2>1. /\ IsSeq(p) /\ Len(p) = Len(q) + Len(u)
        /\ \A i \in 1..Len(q) : p[i] = q[i]
        /\ \A i \in 1..Len(u) : p[Len(q) + i] = u[i]
    BY CatParts
  <2> HIDE DEF p
  <2>2. Len(q) = Len(s) - 1
    BY <1>1
  <2> QED
    BY <2>1, <2>2
<1> HIDE DEF r, p
<1>4. r # << >>
  <2>1. Len(<< >>) = 0
    OBVIOUS
  <2> QED
    BY <1>1, <1>2, <2>1
<1>5. /\ IsSeq(Tail(r)) /\ Len(Tail(r)) = Len(r) - 1
      /\ \A i \in 1..(Len(r) - 1) : Tail(r)[i] = r[i + 1]
  BY <1>2, <1>4, SeqFacts
<1>6. ASSUME NEW i \in 1..Len(p) PROVE Tail(r)[i] = p[i]
  <2>1. i \in 1..(Len(r) - 1) /\ Tail(r)[i] = r[i + 1]
    BY <1>1, <1>2, <1>3, <1>5
  <2>2. CASE i <= Len(s) - 1
    <3>1. i \in 1..(Len(s) - 1) /\ i + 1 \in 1..Len(s)
      BY <1>1, <1>3, <2>2
    <3> QED
      BY <1>1, <1>2, <1>3, <2>1, <3>1
  <2>3. CASE i > Len(s) - 1
    <3> DEFINE j == i - (Len(s) - 1)
    <3>1. j \in 1..Len(u) /\ i = Len(s) - 1 + j /\ i + 1 = Len(s) + j
      BY <1>1, <1>3, <2>3
    <3> HIDE DEF j
    <3>2. p[Len(s) - 1 + j] = u[j] /\ r[Len(s) + j] = u[j]
      BY <1>2, <1>3, <3>1
    <3> QED
      BY <2>1, <3>1, <3>2
  <2>4. i \in Int /\ Len(s) - 1 \in Int
    BY <1>1
  <2>5. i <= Len(s) - 1 \/ i > Len(s) - 1
    BY <2>4
  <2> QED
    BY <2>2, <2>3, <2>5
<1>7. Tail(r) = p
  <2>1. Len(Tail(r)) = Len(p)
    BY <1>1, <1>2, <1>3, <1>5
  <2> QED
    BY <1>3, <1>5, <1>6, <2>1, SameSeq
<1>8. r[1] = s[1]
  BY <1>1, <1>2
<1> QED
  BY <1>4, <1>7, <1>8 DEF r, p, q

\* Nothing before or behind a sequence
LEMMA CatEmpty == ASSUME NEW s, IsSeq(s) PROVE Cat(<< >>, s) = s /\ Cat(s, << >>) = s
BY DEF Cat, IsSeq

\* One element
LEMMA Single ==
  ASSUME NEW x
  PROVE  /\ IsSeq(<<x>>) /\ <<x>> # << >> /\ <<x>>[1] = x /\ Tail(<<x>>) = << >>
         /\ Len(<<x>>) = 1 /\ DOMAIN <<x>> = 1..1
<1>1. /\ <<x>> \in Seq({x}) /\ <<x>> # << >> /\ <<x>>[1] = x /\ Tail(<<x>>) = << >>
      /\ Len(<<x>>) = 1 /\ DOMAIN <<x>> = 1..1
  OBVIOUS
<1> QED
  BY <1>1 DEF IsSeq

\* Neither part has the end of a try block, neither has the whole
LEMMA NoEndTryCat ==
  ASSUME NEW s, NEW u, IsSeq(s), IsSeq(u), NoEndTry(s), NoEndTry(u)
  PROVE  NoEndTry(Cat(s, u))
<1>1. DOMAIN s = 1..Len(s) /\ DOMAIN u = 1..Len(u)
  BY SeqFacts
<1>2. /\ \A i \in 1..Len(s) : Cat(s, u)[i] = s[i]
      /\ \A i \in 1..Len(u) : Cat(s, u)[Len(s) + i] = u[i]
      /\ \A i \in DOMAIN Cat(s, u) : i \in 1..Len(s) \/ (\E j \in 1..Len(u) : i = Len(s) + j)
  BY CatParts
<1> QED
  BY <1>1, <1>2 DEF NoEndTry

-----------------------------------------------------------------------------
(* Rules for triples *)

\* More triples, more effects
LEMMA EffectMonotone ==
  ASSUME NEW R, NEW Q, R \subseteq Q, NEW c, NEW x, NEW a, NEW b, Effect(R, c, x, a, b)
  PROVE  Effect(Q, c, x, a, b)
BY DEF Effect

\* A member of a closed set is a triple, and so is what it goes on to
LEMMA Member ==
  ASSUME NEW c, NEW R, Closed(c, R), NEW s, NEW a, NEW b, <<s, a, b>> \in R
  PROVE  Triple(c, s, a, b)
BY DEF Triple

\* The union of closed sets is closed
LEMMA ClosedUnion ==
  ASSUME NEW c, NEW R, NEW Q, Closed(c, R), Closed(c, Q)
  PROVE  Closed(c, R \cup Q)
<1> SUFFICES ASSUME NEW s, NEW a, NEW b, <<s, a, b>> \in R \cup Q
             PROVE  /\ IsSeq(s) /\ NoEndTry(s) /\ a \in Vec /\ b \in Vec
                    /\ s = << >> => b = a
                    /\ s # << >> => \E m \in Vec : /\ Effect(R \cup Q, c, s[1], a, m)
                                                   /\ <<Tail(s), m, b>> \in R \cup Q
  BY DEF Closed
<1>1. R \subseteq R \cup Q /\ Q \subseteq R \cup Q
  OBVIOUS
<1>2. CASE <<s, a, b>> \in R
  <2>1. /\ IsSeq(s) /\ NoEndTry(s) /\ a \in Vec /\ b \in Vec
        /\ s = << >> => b = a
        /\ s # << >> => \E m \in Vec : Effect(R, c, s[1], a, m) /\ <<Tail(s), m, b>> \in R
    BY <1>2, ZenonT(40) DEF Closed
  <2>2. \A m : Effect(R, c, s[1], a, m) => Effect(R \cup Q, c, s[1], a, m)
    BY <1>1, EffectMonotone
  <2> QED
    BY <2>1, <2>2
<1>3. CASE <<s, a, b>> \in Q
  <2>1. /\ IsSeq(s) /\ NoEndTry(s) /\ a \in Vec /\ b \in Vec
        /\ s = << >> => b = a
        /\ s # << >> => \E m \in Vec : Effect(Q, c, s[1], a, m) /\ <<Tail(s), m, b>> \in Q
    BY <1>3 DEF Closed
  <2>2. \A m : Effect(Q, c, s[1], a, m) => Effect(R \cup Q, c, s[1], a, m)
    BY <1>1, EffectMonotone
  <2> QED
    BY <2>1, <2>2
<1> QED
  BY <1>2, <1>3

\* Taking a triple apart
LEMMA Facts ==
  ASSUME NEW c, NEW s, NEW a, NEW b, Triple(c, s, a, b)
  PROVE  /\ IsSeq(s) /\ NoEndTry(s) /\ a \in Vec /\ b \in Vec
         /\ s = << >> => b = a
BY DEF Triple, Closed

LEMMA Apart ==
  ASSUME NEW c, NEW s, NEW a, NEW b, Triple(c, s, a, b), s # << >>
  PROVE  \E R, m : /\ m \in Vec /\ Closed(c, R) /\ Effect(R, c, s[1], a, m)
                   /\ Triple(c, Tail(s), m, b)
<1>1. PICK R : Closed(c, R) /\ <<s, a, b>> \in R
  BY DEF Triple
<1>2. PICK m \in Vec : Effect(R, c, s[1], a, m) /\ <<Tail(s), m, b>> \in R
  BY <1>1 DEF Closed
<1>3. Triple(c, Tail(s), m, b)
  BY <1>1, <1>2, Member
<1> QED
  BY <1>1, <1>2, <1>3

\* Nothing does nothing
LEMMA Nothing == ASSUME NEW c, NEW a \in Vec PROVE Triple(c, << >>, a, a)
<1> DEFINE R == {<< << >>, a, a>>}
<1>1. IsSeq(<< >>) /\ NoEndTry(<< >>)
  <2>1. << >> \in Seq({}) /\ DOMAIN << >> = {}
    OBVIOUS
  <2> QED
    BY <2>1 DEF IsSeq, NoEndTry
<1>2. Closed(c, R)
  BY <1>1 DEF Closed
<1> QED
  BY <1>2 DEF Triple

\* One instruction more
LEMMA Before ==
  ASSUME NEW c, NEW R, Closed(c, R), NEW x, NEW s, NEW a \in Vec, NEW m \in Vec, NEW b,
         x.op # "end_try", Effect(R, c, x, a, m), Triple(c, s, m, b)
  PROVE  Triple(c, Cat(<<x>>, s), a, b)
<1> DEFINE y == <<x>>
           u == Cat(y, s)
<1>1. PICK Q : Closed(c, Q) /\ <<s, m, b>> \in Q
  BY DEF Triple
<1>2. IsSeq(s) /\ NoEndTry(s) /\ b \in Vec
  BY Facts
<1>3. IsSeq(y) /\ y # << >> /\ y[1] = x /\ Tail(y) = << >> /\ NoEndTry(y)
  <2>1. IsSeq(y) /\ y # << >> /\ y[1] = x /\ Tail(y) = << >> /\ DOMAIN y = 1..1
    BY Single
  <2> HIDE DEF y
  <2> QED
    BY <2>1 DEF NoEndTry
<1> HIDE DEF y
<1>4. u # << >> /\ u[1] = x /\ Tail(u) = s
  <2>1. u # << >> /\ u[1] = y[1] /\ Tail(u) = Cat(Tail(y), s)
    BY <1>2, <1>3, TailOfCat
  <2>2. Cat(<< >>, s) = s
    BY <1>2, CatEmpty
  <2> QED
    BY <1>3, <2>1, <2>2
<1>5. IsSeq(u)
  BY <1>2, <1>3, CatParts
<1>6. NoEndTry(u)
  BY <1>2, <1>3, NoEndTryCat
<1> HIDE DEF u
<1> DEFINE P == R \cup Q
           N == P \cup {<<u, a, b>>}
<1>8. Closed(c, P)
  BY <1>1, ClosedUnion
<1>9. P \subseteq N /\ R \subseteq N
  OBVIOUS
<1>10. Closed(c, N)
  <2> SUFFICES ASSUME NEW p, NEW d, NEW e, <<p, d, e>> \in N
               PROVE  /\ IsSeq(p) /\ NoEndTry(p) /\ d \in Vec /\ e \in Vec
                      /\ p = << >> => e = d
                      /\ p # << >> => \E n \in Vec : /\ Effect(N, c, p[1], d, n)
                                                     /\ <<Tail(p), n, e>> \in N
    BY DEF Closed
  <2>1. CASE <<p, d, e>> \in P
    <3>1. /\ IsSeq(p) /\ NoEndTry(p) /\ d \in Vec /\ e \in Vec
          /\ p = << >> => e = d
          /\ p # << >> => \E n \in Vec : Effect(P, c, p[1], d, n) /\ <<Tail(p), n, e>> \in P
      BY <1>8, <2>1 DEF Closed
    <3> HIDE DEF P
    <3>2. \A n : Effect(P, c, p[1], d, n) => Effect(N, c, p[1], d, n)
      BY <1>9, EffectMonotone
    <3> HIDE DEF N
    <3> QED
      BY <1>9, <3>1, <3>2
  <2>2. CASE p = u /\ d = a /\ e = b
    <3>1. Effect(N, c, x, a, m)
      <4> HIDE DEF N, P
      <4> QED
        BY <1>9, EffectMonotone
    <3>2. <<s, m, b>> \in N
      BY <1>1
    <3> HIDE DEF N, P
    <3> QED
      BY <1>2, <1>4, <1>5, <1>6, <2>2, <3>1, <3>2
  <2> QED
    BY <2>1, <2>2
<1> QED
  BY <1>10 DEF Triple, u, y

\* One instruction
LEMMA One ==
  ASSUME NEW c, NEW R, Closed(c, R), NEW x, NEW a \in Vec, NEW b \in Vec,
         x.op # "end_try", Effect(R, c, x, a, b)
  PROVE  Triple(c, <<x>>, a, b)
<1>1. Triple(c, << >>, b, b)
  BY Nothing
<1>2. Triple(c, Cat(<<x>>, << >>), a, b)
  BY <1>1, Before
<1>3. Cat(<<x>>, << >>) = <<x>>
  BY Single, CatEmpty
<1> QED
  BY <1>2, <1>3

\* One after the other
LEMMA Then ==
  ASSUME NEW c, NEW s, NEW u, NEW a, NEW m, NEW b, Triple(c, s, a, m), Triple(c, u, m, b)
  PROVE  Triple(c, Cat(s, u), a, b)
<1>1. PICK R : Closed(c, R) /\ <<s, a, m>> \in R
  BY DEF Triple
<1>2. PICK Q : Closed(c, Q) /\ <<u, m, b>> \in Q
  BY DEF Triple
<1>3. IsSeq(u) /\ NoEndTry(u) /\ m \in Vec /\ b \in Vec
  BY Facts
<1> DEFINE X == {<<Cat(p[1], u), p[2], b>> : p \in {q \in R : q[3] = m /\ \E i, j, k : q = <<i, j, k>>}}
           P == R \cup Q
           N == P \cup X
<1>4. Closed(c, P)
  BY <1>1, <1>2, ClosedUnion
<1>5. P \subseteq N /\ R \subseteq P /\ Q \subseteq P
  OBVIOUS
<1>6. \A p, d : <<p, d, m>> \in R => <<Cat(p, u), d, b>> \in X
  <2> TAKE p, d
  <2> HAVE <<p, d, m>> \in R
  <2>1. <<p, d, m>>[1] = p /\ <<p, d, m>>[2] = d /\ <<p, d, m>>[3] = m
    OBVIOUS
  <2>2. <<p, d, m>> \in {q \in R : q[3] = m /\ \E i, j, k : q = <<i, j, k>>}
    BY <2>1
  <2> QED
    BY <2>1, <2>2
<1>7. \A r, d, e : <<r, d, e>> \in X => e = b /\ \E p : <<p, d, m>> \in R /\ r = Cat(p, u)
  <2> TAKE r, d, e
  <2> HAVE <<r, d, e>> \in X
  <2>1. PICK q \in R : q[3] = m /\ (\E i, j, k : q = <<i, j, k>>) /\ <<r, d, e>> = <<Cat(q[1], u), q[2], b>>
    OBVIOUS
  <2>2. PICK i, j, k : q = <<i, j, k>>
    BY <2>1
  <2>3. q[1] = i /\ q[2] = j /\ q[3] = k
    BY <2>2
  <2>4. q = <<i, d, m>> /\ r = Cat(i, u) /\ e = b
    BY <2>1, <2>2, <2>3
  <2> QED
    BY <2>4
<1> HIDE DEF X, P
<1>8. Closed(c, N)
  <2> SUFFICES ASSUME NEW r, NEW d, NEW e, <<r, d, e>> \in N
               PROVE  /\ IsSeq(r) /\ NoEndTry(r) /\ d \in Vec /\ e \in Vec
                      /\ r = << >> => e = d
                      /\ r # << >> => \E n \in Vec : /\ Effect(N, c, r[1], d, n)
                                                     /\ <<Tail(r), n, e>> \in N
    BY DEF Closed
  <2>1. ASSUME <<r, d, e>> \in P
        PROVE  /\ IsSeq(r) /\ NoEndTry(r) /\ d \in Vec /\ e \in Vec
               /\ r = << >> => e = d
               /\ r # << >> => \E n \in Vec : /\ Effect(N, c, r[1], d, n)
                                              /\ <<Tail(r), n, e>> \in N
    <3>1. /\ IsSeq(r) /\ NoEndTry(r) /\ d \in Vec /\ e \in Vec
          /\ r = << >> => e = d
          /\ r # << >> => \E n \in Vec : Effect(P, c, r[1], d, n) /\ <<Tail(r), n, e>> \in P
      BY <1>4, <2>1 DEF Closed
    <3>2. \A n : Effect(P, c, r[1], d, n) => Effect(N, c, r[1], d, n)
      BY <1>5, EffectMonotone
    <3> HIDE DEF N
    <3> QED
      BY <1>5, <3>1, <3>2
  <2>2. ASSUME <<r, d, e>> \in X
        PROVE  /\ IsSeq(r) /\ NoEndTry(r) /\ d \in Vec /\ e \in Vec
               /\ r = << >> => e = d
               /\ r # << >> => \E n \in Vec : /\ Effect(N, c, r[1], d, n)
                                              /\ <<Tail(r), n, e>> \in N
    <3>1. PICK p : <<p, d, m>> \in R /\ r = Cat(p, u)
      BY <1>7, <2>2
    <3>2. e = b
      BY <1>7, <2>2
    <3>3. /\ IsSeq(p) /\ NoEndTry(p) /\ d \in Vec
          /\ p = << >> => m = d
          /\ p # << >> => \E n \in Vec : Effect(R, c, p[1], d, n) /\ <<Tail(p), n, m>> \in R
      BY <1>1, <3>1 DEF Closed
    <3>4. CASE p = << >>
      <4>1. r = u /\ d = m
        BY <1>3, <3>1, <3>3, <3>4, CatEmpty
      <4>2. <<r, d, e>> \in P
        BY <1>2, <1>5, <3>2, <4>1
      <4> QED
        BY <2>1, <4>2
    <3>5. CASE p # << >>
      <4>1. PICK n \in Vec : Effect(R, c, p[1], d, n) /\ <<Tail(p), n, m>> \in R
        BY <3>3, <3>5
      <4>2. r # << >> /\ r[1] = p[1] /\ Tail(r) = Cat(Tail(p), u)
        BY <1>3, <3>1, <3>3, <3>5, TailOfCat
      <4>3. <<Tail(r), n, e>> \in N
        BY <1>6, <3>2, <4>1, <4>2
      <4>4. Effect(N, c, r[1], d, n)
        <5>1. R \subseteq N
          BY <1>5
        <5> HIDE DEF N
        <5> QED
          BY <4>1, <4>2, <5>1, EffectMonotone
      <4>5. IsSeq(r)
        BY <1>3, <3>1, <3>3, CatParts
      <4>6. NoEndTry(r)
        BY <1>3, <3>1, <3>3, NoEndTryCat
      <4> HIDE DEF N
      <4> QED
        BY <1>3, <3>2, <3>3, <4>1, <4>2, <4>3, <4>4, <4>5, <4>6
    <3> QED
      BY <3>4, <3>5
  <2> QED
    BY <2>1, <2>2
<1>9. <<Cat(s, u), a, b>> \in N
  BY <1>1, <1>6
<1> HIDE DEF N
<1> QED
  BY <1>8, <1>9 DEF Triple

\* What is explained stays so when more fails, and nothing needs no explanation
LEMMA FitsMonotone ==
  ASSUME NEW c, NEW a, NEW f, NEW h, f \subseteq h, Fits(c, a, f) PROVE Fits(c, a, h)
BY DEF Fits

\* What leaves the objects alone
LEMMA Quiet ==
  ASSUME NEW c, NEW s, IsSeq(s), \A i \in DOMAIN s : s[i].op \in CalmOps,
         NEW a \in Vec, Fits(c, a, {})
  PROVE  Triple(c, s, a, a)
<1>1. PICK S : s \in Seq(S)
  BY DEF IsSeq
<1> DEFINE Q == {x \in S : x.op \in CalmOps}
           R == {<<u, a, a>> : u \in Seq(Q)}
<1>2. s \in Seq(Q)
  <2>1. Len(s) \in Nat /\ s \in [1..Len(s) -> S] /\ DOMAIN s = 1..Len(s)
    BY <1>1
  <2>2. s \in [1..Len(s) -> Q]
    BY <2>1
  <2> HIDE DEF Q
  <2> QED
    BY <2>1, <2>2
<1>3. ASSUME NEW x \in Q PROVE Effect(R, c, x, a, a) /\ x.op # "end_try"
  <2>1. Fits(c, a, {"open"})
    BY FitsMonotone
  <2>2. x.op \in CalmOps
    OBVIOUS
  <2> QED
    BY <2>1, <2>2 DEF Effect, CalmOps
<1> HIDE DEF Q
<1>4. Closed(c, R)
  <2> SUFFICES ASSUME NEW p, NEW d, NEW e, <<p, d, e>> \in R
               PROVE  /\ IsSeq(p) /\ NoEndTry(p) /\ d \in Vec /\ e \in Vec
                      /\ p = << >> => e = d
                      /\ p # << >> => \E n \in Vec : /\ Effect(R, c, p[1], d, n)
                                                     /\ <<Tail(p), n, e>> \in R
    BY DEF Closed
  <2>1. p \in Seq(Q) /\ d = a /\ e = a
    OBVIOUS
  <2>2. IsSeq(p) /\ NoEndTry(p)
    <3>1. IsSeq(p)
      BY <2>1 DEF IsSeq
    <3>2. \A i \in DOMAIN p : p[i] \in Q
      BY <2>1
    <3>3. \A x \in Q : x.op # "end_try"
      BY <1>3
    <3> QED
      BY <3>1, <3>2, <3>3 DEF NoEndTry
  <2>3. ASSUME p # << >> PROVE Effect(R, c, p[1], a, a) /\ <<Tail(p), a, a>> \in R
    <3>1. p[1] \in Q /\ Tail(p) \in Seq(Q)
      BY <2>1, <2>3
    <3>2. <<Tail(p), a, a>> \in R
      BY <3>1
    <3> QED
      BY <1>3, <3>1, <3>2
  <2> HIDE DEF R
  <2> QED
    BY <2>1, <2>2, <2>3
<1>5. <<s, a, a>> \in R
  BY <1>2
<1> HIDE DEF R
<1> QED
  BY <1>4, <1>5 DEF Triple

\* The scopes
LEMMA Scopes ==
  ASSUME NEW c, NEW s, NEW a, NEW b, Triple(c, s, a, b)
  PROVE  /\ \A ctx : Triple(c, <<WithSession(ctx, s)>>, a, b)
         /\ Fits(c, a, {}) => Triple(c, <<WithCtx(s)>>, a, b)
         /\ b = a => \A o : Triple(c, <<IfOpens(o, s)>>, a, a)
         /\ b = a => \A body : AllCalm(body) => Triple(c, <<Try(body, s)>>, a, a)
<1>1. PICK R : Closed(c, R) /\ <<s, a, b>> \in R
  BY DEF Triple
<1>2. a \in Vec /\ b \in Vec
  BY Facts
<1>3. ASSUME NEW ctx PROVE Triple(c, <<WithSession(ctx, s)>>, a, b)
  <2> DEFINE x == WithSession(ctx, s)
  <2>1. x.op = "session" /\ x.body = s
    BY DEF WithSession
  <2> HIDE DEF x
  <2>2. Effect(R, c, x, a, b) /\ x.op # "end_try"
    BY <1>1, <2>1 DEF Effect
  <2> QED
    BY <1>1, <1>2, <2>2, One DEF x
<1>4. ASSUME Fits(c, a, {}) PROVE Triple(c, <<WithCtx(s)>>, a, b)
  <2> DEFINE x == WithCtx(s)
  <2>1. x.op = "connect" /\ x.body = s
    BY DEF WithCtx
  <2> HIDE DEF x
  <2>2. Effect(R, c, x, a, b) /\ x.op # "end_try"
    BY <1>1, <1>4, <2>1 DEF Effect
  <2> QED
    BY <1>1, <1>2, <2>2, One DEF x
<1>5. ASSUME b = a, NEW o PROVE Triple(c, <<IfOpens(o, s)>>, a, a)
  <2> DEFINE x == IfOpens(o, s)
  <2>1. x.op = "if_opens" /\ x.body = s
    BY DEF IfOpens
  <2> HIDE DEF x
  <2>2. Effect(R, c, x, a, a) /\ x.op # "end_try"
    BY <1>1, <1>5, <2>1 DEF Effect
  <2> QED
    BY <1>1, <1>2, <2>2, One DEF x
<1>6. ASSUME b = a, NEW body, AllCalm(body) PROVE Triple(c, <<Try(body, s)>>, a, a)
  <2> DEFINE x == Try(body, s)
  <2>1. x.op = "try" /\ x.body = body /\ x.handler = s
    BY DEF Try
  <2> HIDE DEF x
  <2>2. Effect(R, c, x, a, a) /\ x.op # "end_try"
    BY <1>1, <1>6, <2>1 DEF Effect
  <2> QED
    BY <1>1, <1>2, <2>2, One DEF x
<1> QED
  BY <1>3, <1>4, <1>5, <1>6

\* What makes a key, what flushes one, and what stops the call
LEMMA Instructions ==
  ASSUME NEW c, NEW a \in Vec
  PROVE  /\ \A kind \in Kind : Fits(c, a, {}) =>
              /\ Triple(c, <<Create(g, kind)>>, a, Plus(a, kind))
              /\ Triple(c, <<Create(t, kind)>>, a, a)
         /\ \A kind \in Kind : Fits(c, a, {"flush"}) /\ a[kind] > 0 =>
              Triple(c, <<FlushObjectContext(g, kind)>>, a, Minus(a, kind))
         /\ \A b \in Vec : Fits(c, a, {}) =>
              Triple(c, <<Rethrow>>, a, b) /\ Triple(c, <<EvictControl("0")>>, a, b)
         /\ \A o : Fits(c, a, {"open"}) => Triple(c, <<HandleToEsys(o)>>, a, a)
         /\ Fits(c, a, {}) => Triple(c, <<Command>>, a, a)
         /\ \A ctx : Triple(c, <<CloseSession(ctx)>>, a, a)
         /\ Triple(c, <<CloseCtx>>, a, a)
<1> DEFINE R == {}
<1>1. Closed(c, R)
  BY DEF Closed
<1> HIDE DEF R
<1>2. \A kind \in Kind : Plus(a, kind) \in Vec /\ (a[kind] > 0 => Minus(a, kind) \in Vec)
  BY DEF Vec, Plus, Minus
<1>3. ASSUME NEW kind \in Kind, Fits(c, a, {})
      PROVE  /\ Triple(c, <<Create(g, kind)>>, a, Plus(a, kind))
             /\ Triple(c, <<Create(t, kind)>>, a, a)
  <2>1. Effect(R, c, Create(g, kind), a, Plus(a, kind)) /\ Create(g, kind).op # "end_try"
    BY <1>3 DEF Effect, Create
  <2>2. Effect(R, c, Create(t, kind), a, a) /\ Create(t, kind).op # "end_try"
    BY <1>3 DEF Effect, Create, g, t
  <2> QED
    BY <1>1, <1>2, <2>1, <2>2, One
<1>4. ASSUME NEW kind \in Kind, Fits(c, a, {"flush"}), a[kind] > 0
      PROVE  Triple(c, <<FlushObjectContext(g, kind)>>, a, Minus(a, kind))
  <2>1. /\ Effect(R, c, FlushObjectContext(g, kind), a, Minus(a, kind))
        /\ FlushObjectContext(g, kind).op # "end_try"
    BY <1>4 DEF Effect, FlushObjectContext
  <2> QED
    BY <1>1, <1>2, <1>4, <2>1, One
<1>5. ASSUME NEW b \in Vec, Fits(c, a, {})
      PROVE  Triple(c, <<Rethrow>>, a, b) /\ Triple(c, <<EvictControl("0")>>, a, b)
  <2>1. Effect(R, c, Rethrow, a, b) /\ Rethrow.op # "end_try"
    BY <1>5 DEF Effect, Rethrow
  <2>2. Effect(R, c, EvictControl("0"), a, b) /\ EvictControl("0").op # "end_try"
    BY <1>5 DEF Effect, EvictControl
  <2> QED
    BY <1>1, <2>1, <2>2, One
<1>6. ASSUME NEW o, Fits(c, a, {"open"}) PROVE Triple(c, <<HandleToEsys(o)>>, a, a)
  <2>1. Effect(R, c, HandleToEsys(o), a, a) /\ HandleToEsys(o).op # "end_try"
    BY <1>6 DEF Effect, HandleToEsys
  <2> QED
    BY <1>1, <2>1, One
<1>7. ASSUME Fits(c, a, {}) PROVE Triple(c, <<Command>>, a, a)
  <2>1. Effect(R, c, Command, a, a) /\ Command.op # "end_try"
    BY <1>7 DEF Effect, Command
  <2> QED
    BY <1>1, <2>1, One
<1>8. ASSUME NEW ctx PROVE Triple(c, <<CloseSession(ctx)>>, a, a)
  <2>1. Effect(R, c, CloseSession(ctx), a, a) /\ CloseSession(ctx).op # "end_try"
    BY DEF Effect, CloseSession
  <2> QED
    BY <1>1, <2>1, One
<1>9. Triple(c, <<CloseCtx>>, a, a)
  <2>1. Effect(R, c, CloseCtx, a, a) /\ CloseCtx.op # "end_try"
    BY DEF Effect, CloseCtx
  <2> QED
    BY <1>1, <2>1, One
<1> QED
  BY <1>3, <1>4, <1>5, <1>6, <1>7, <1>8, <1>9

-----------------------------------------------------------------------------
(* The invariant: what is left of a call balances what it has done *)

\* u is what follows position n of s
Behind(u, s, n) == IsSeq(u) /\ Len(u) = Len(s) - n /\ \A i \in 1..Len(u) : u[i] = s[i + n]

\* The call is outside of every try block
Running(c, s, v, r) == ~r /\ Triple(c, s, v, Kept(c))

\* It is in one: up to its end nothing changes, and both ways on from there
\* keep the balance
Trying(c, s, v, r) ==
  \E n \in DOMAIN s : \E u :
    /\ s[n].op = "end_try"
    /\ \A i \in DOMAIN s : i < n => Calm(s[i])
    /\ Triple(c, s[n].handler, v, v)
    /\ Behind(u, s, n) /\ Triple(c, u, v, Kept(c))
    /\ r => n = 1

\* It is left by an exception
Leaving(c, s, v, r, f) ==
  /\ r /\ Fits(c, v, f) /\ NoEndTry(s)
  /\ s # << >> => s[1].op \in {"close_session", "close_ctx"}

Balanced(c, s, v, r, f) ==
  v \in Vec /\ (Running(c, s, v, r) \/ Trying(c, s, v, r) \/ Leaving(c, s, v, r, f))

\* What is calm does not end a scope
LEMMA CalmIsNoStop == ASSUME NEW x, Calm(x) PROVE x.op \notin Stops
BY DEF Calm, CalmOps, Stops

\* Inside of a try block, a step forward
LEMMA TryingForward ==
  ASSUME NEW c, NEW s \in Seq(Instruction), s # << >>, NEW v, NEW r, Trying(c, s, v, r),
         s[1].op # "end_try"
  PROVE  ~r /\ Calm(s[1]) /\ Trying(c, Tail(s), v, FALSE)
<1>1. PICK n, u : /\ n \in DOMAIN s /\ s[n].op = "end_try"
                  /\ \A i \in DOMAIN s : i < n => Calm(s[i])
                  /\ Triple(c, s[n].handler, v, v)
                  /\ Behind(u, s, n) /\ Triple(c, u, v, Kept(c))
                  /\ r => n = 1
  BY DEF Trying
<1>2. Len(s) \in Nat \ {0} /\ DOMAIN s = 1..Len(s) /\ IsSeq(s)
  BY DEF IsSeq
<1> DEFINE q == Tail(s)
<1>3. /\ IsSeq(q) /\ Len(q) = Len(s) - 1 /\ DOMAIN q = 1..(Len(s) - 1)
      /\ \A i \in 1..(Len(s) - 1) : q[i] = s[i + 1]
  BY <1>2, SeqFacts
<1> HIDE DEF q
<1>4. n > 1 /\ n \in 1..Len(s)
  BY <1>1, <1>2
<1>5. n - 1 \in DOMAIN q /\ q[n - 1] = s[n]
  <2>1. n - 1 \in 1..(Len(s) - 1) /\ (n - 1) + 1 = n
    BY <1>2, <1>4
  <2> QED
    BY <1>3, <2>1
<1>6. ASSUME NEW i \in DOMAIN q, i < n - 1 PROVE Calm(q[i])
  <2>1. i + 1 \in DOMAIN s /\ i + 1 < n /\ q[i] = s[i + 1]
    BY <1>2, <1>3, <1>4, <1>6
  <2> QED
    BY <1>1, <2>1
<1>7. Behind(u, q, n - 1)
  <2>1. /\ IsSeq(u) /\ Len(u) = Len(s) - n /\ \A i \in 1..Len(u) : u[i] = s[i + n]
    BY <1>1 DEF Behind
  <2>2. Len(u) = Len(q) - (n - 1)
    BY <1>2, <1>3, <1>4, <2>1
  <2>3. ASSUME NEW i \in 1..Len(u) PROVE u[i] = q[i + (n - 1)]
    <3>1. /\ i + (n - 1) \in 1..(Len(s) - 1)
          /\ (i + (n - 1)) + 1 = i + n
      BY <1>2, <1>4, <2>1
    <3>2. q[i + (n - 1)] = s[i + n]
      BY <1>3, <3>1
    <3> QED
      BY <2>1, <3>2
  <2> QED
    BY <2>1, <2>2, <2>3 DEF Behind
<1>8. Trying(c, q, v, FALSE)
  BY <1>1, <1>5, <1>6, <1>7 DEF Trying
<1>9. ~r /\ Calm(s[1])
  BY <1>1, <1>2, <1>4
<1> QED
  BY <1>8, <1>9 DEF q

\* Inside of a try block, an exception: it gets as far as the end of the block
LEMMA TryingThrows ==
  ASSUME NEW c, NEW s \in Seq(Instruction), s # << >>, NEW v, NEW r, Trying(c, s, v, r),
         s[1].op # "end_try"
  PROVE  Trying(c, Unwind(Tail(s)), v, TRUE)
<1>1. PICK n, u : /\ n \in DOMAIN s /\ s[n].op = "end_try"
                  /\ \A i \in DOMAIN s : i < n => Calm(s[i])
                  /\ Triple(c, s[n].handler, v, v)
                  /\ Behind(u, s, n) /\ Triple(c, u, v, Kept(c))
  BY DEF Trying
<1>2. Len(s) \in Nat \ {0} /\ DOMAIN s = 1..Len(s)
  OBVIOUS
<1> DEFINE q == Unwind(Tail(s))
<1>3. PICK d \in 1..Len(s) : Rest(q, s, d) /\ (d < Len(s) => s[d + 1].op \in Stops)
  BY UnwindIsRest
<1> HIDE DEF q
<1>4. /\ q \in Seq(Instruction) /\ Len(q) = Len(s) - d /\ DOMAIN q = 1..Len(q)
      /\ \A i \in 1..Len(q) : q[i] = s[i + d]
      /\ \A j \in 2..d : s[j].op \notin Stops
  BY <1>3 DEF Rest
<1>5. n > 1 /\ n \in 1..Len(s)
  BY <1>1, <1>2
<1>6. n = d + 1
  <2>1. n > d
    <3>1. ASSUME n <= d PROVE FALSE
      <4>1. n \in 2..d /\ s[n].op \in Stops
        BY <1>1, <1>2, <1>3, <1>5, <3>1 DEF Stops
      <4> QED
        BY <1>4, <4>1
    <3> QED
      BY <1>2, <1>3, <1>5, <3>1
  <2>2. ASSUME d + 1 < n PROVE FALSE
    <3>1. d + 1 \in DOMAIN s /\ d < Len(s)
      BY <1>2, <1>3, <1>5, <2>2
    <3>2. Calm(s[d + 1]) /\ s[d + 1].op \in Stops
      BY <1>1, <1>3, <2>2, <3>1
    <3> QED
      BY <3>2, CalmIsNoStop
  <2> QED
    BY <1>2, <1>3, <1>5, <2>1, <2>2
<1>7. 1 \in DOMAIN q /\ q[1] = s[n] /\ \A i \in DOMAIN q : ~(i < 1)
  <2>1. 1 \in 1..Len(q) /\ 1 + d = n
    BY <1>2, <1>3, <1>4, <1>5, <1>6
  <2> QED
    BY <1>4, <2>1
<1>8. Behind(u, q, 1)
  <2>1. IsSeq(u) /\ Len(u) = Len(s) - n /\ \A i \in 1..Len(u) : u[i] = s[i + n]
    BY <1>1 DEF Behind
  <2>2. Len(u) = Len(q) - 1
    BY <1>2, <1>3, <1>4, <1>6, <2>1
  <2>3. ASSUME NEW i \in 1..Len(u) PROVE u[i] = q[i + 1]
    <3>1. i + 1 \in 1..Len(q) /\ (i + 1) + d = i + n
      BY <1>2, <1>3, <1>4, <1>5, <1>6, <2>2
    <3>2. q[i + 1] = s[i + n]
      BY <1>4, <3>1
    <3> QED
      BY <2>1, <3>2
  <2> QED
    BY <2>1, <2>2, <2>3 DEF Behind
<1>9. Trying(c, q, v, TRUE)
  BY <1>1, <1>7, <1>8 DEF Trying
<1> QED
  BY <1>9 DEF q

\* At the end of a try block: on with what follows, or with the handler
LEMMA TryingEnds ==
  ASSUME NEW c, NEW s \in Seq(Instruction), s # << >>, NEW v, NEW r, Trying(c, s, v, r),
         s[1].op = "end_try"
  PROVE  /\ Triple(c, Tail(s), v, Kept(c))
         /\ Triple(c, Cat(s[1].handler, Tail(s)), v, Kept(c))
<1>1. PICK n, u : /\ n \in DOMAIN s /\ s[n].op = "end_try"
                  /\ \A i \in DOMAIN s : i < n => Calm(s[i])
                  /\ Triple(c, s[n].handler, v, v)
                  /\ Behind(u, s, n) /\ Triple(c, u, v, Kept(c))
  BY DEF Trying
<1>2. Len(s) \in Nat \ {0} /\ DOMAIN s = 1..Len(s) /\ IsSeq(s)
  BY DEF IsSeq
<1>3. n = 1
  <2>1. ~Calm(s[1])
    BY CalmIsNoStop DEF Stops
  <2> QED
    BY <1>1, <1>2, <2>1
<1>4. u = Tail(s)
  <2> DEFINE q == Tail(s)
  <2>1. /\ IsSeq(q) /\ Len(q) = Len(s) - 1
        /\ \A i \in 1..(Len(s) - 1) : q[i] = s[i + 1]
    BY <1>2, SeqFacts
  <2>2. IsSeq(u) /\ Len(u) = Len(s) - 1 /\ \A i \in 1..Len(u) : u[i] = s[i + 1]
    BY <1>1, <1>3 DEF Behind
  <2> HIDE DEF q
  <2>3. u = q
    BY <2>1, <2>2, SameSeq
  <2> QED
    BY <2>3 DEF q
<1>5. Triple(c, Tail(s), v, Kept(c))
  BY <1>1, <1>4
<1>6. Triple(c, s[1].handler, v, v)
  BY <1>1, <1>3
<1> QED
  BY <1>5, <1>6, Then

-----------------------------------------------------------------------------
(* One step of each kind keeps the balance *)

\* Concatenation is associative
LEMMA CatAssociative ==
  ASSUME NEW a, NEW b, NEW d, IsSeq(a), IsSeq(b), IsSeq(d)
  PROVE  Cat(Cat(a, b), d) = Cat(a, Cat(b, d))
<1> DEFINE ab == Cat(a, b)
           bd == Cat(b, d)
           l == Cat(ab, d)
           r == Cat(a, bd)
<1>1. Len(a) \in Nat /\ Len(b) \in Nat /\ Len(d) \in Nat
  BY SeqFacts
<1>2. /\ IsSeq(ab) /\ Len(ab) = Len(a) + Len(b)
      /\ \A i \in 1..Len(a) : ab[i] = a[i]
      /\ \A i \in 1..Len(b) : ab[Len(a) + i] = b[i]
  BY CatParts
<1>3. /\ IsSeq(bd) /\ Len(bd) = Len(b) + Len(d)
      /\ \A i \in 1..Len(b) : bd[i] = b[i]
      /\ \A i \in 1..Len(d) : bd[Len(b) + i] = d[i]
  BY CatParts
<1> HIDE DEF ab, bd
<1>4. /\ IsSeq(l) /\ Len(l) = Len(ab) + Len(d)
      /\ \A i \in 1..Len(ab) : l[i] = ab[i]
      /\ \A i \in 1..Len(d) : l[Len(ab) + i] = d[i]
  <2> IsSeq(ab)
    BY <1>2
  <2> QED
    BY CatParts
<1>5. /\ IsSeq(r) /\ Len(r) = Len(a) + Len(bd)
      /\ \A i \in 1..Len(a) : r[i] = a[i]
      /\ \A i \in 1..Len(bd) : r[Len(a) + i] = bd[i]
  <2> IsSeq(bd)
    BY <1>3
  <2> QED
    BY CatParts
<1> HIDE DEF l, r
<1>6. ASSUME NEW i \in 1..Len(l) PROVE l[i] = r[i]
  <2>1. CASE i <= Len(a)
    <3>1. i \in 1..Len(a) /\ i \in 1..Len(ab)
      BY <1>1, <1>2, <2>1
    <3> QED
      BY <1>2, <1>4, <1>5, <3>1
  <2>2. CASE i > Len(a) /\ i <= Len(a) + Len(b)
    <3> DEFINE j == i - Len(a)
    <3>1. i = Len(a) + j /\ j \in 1..Len(b) /\ j \in 1..Len(bd) /\ i \in 1..Len(ab)
      BY <1>1, <1>2, <1>3, <2>2
    <3> HIDE DEF j
    <3>2. l[i] = ab[i] /\ ab[Len(a) + j] = b[j]
      BY <1>2, <1>4, <3>1
    <3>3. r[Len(a) + j] = bd[j] /\ bd[j] = b[j]
      BY <1>3, <1>5, <3>1
    <3> QED
      BY <3>1, <3>2, <3>3
  <2>3. CASE i > Len(a) + Len(b)
    <3> DEFINE j == i - Len(a) - Len(b)
    <3>1. /\ i = Len(ab) + j /\ i = Len(a) + (Len(b) + j)
          /\ j \in 1..Len(d) /\ Len(b) + j \in 1..Len(bd)
      BY <1>1, <1>2, <1>3, <1>4, <2>3
    <3> HIDE DEF j
    <3>2. l[Len(ab) + j] = d[j]
      BY <1>4, <3>1
    <3>3. r[Len(a) + (Len(b) + j)] = bd[Len(b) + j] /\ bd[Len(b) + j] = d[j]
      BY <1>3, <1>5, <3>1
    <3> QED
      BY <3>1, <3>2, <3>3
  <2>4. i \in Int
    OBVIOUS
  <2> QED
    BY <1>1, <2>1, <2>2, <2>3, <2>4
<1>7. Len(l) = Len(r)
  BY <1>1, <1>2, <1>3, <1>4, <1>5
<1>8. l = r
  BY <1>4, <1>5, <1>6, <1>7, SameSeq
<1> QED
  BY <1>8 DEF l, r, ab, bd

\* What is calm may be put in front
LEMMA CalmSplice ==
  ASSUME NEW c, NEW b, AllCalm(b), NEW q, IsSeq(q), NEW v, Trying(c, q, v, FALSE)
  PROVE  Trying(c, Cat(b, q), v, FALSE)
<1>1. PICK n, u : /\ n \in DOMAIN q /\ q[n].op = "end_try"
                  /\ \A i \in DOMAIN q : i < n => Calm(q[i])
                  /\ Triple(c, q[n].handler, v, v)
                  /\ Behind(u, q, n) /\ Triple(c, u, v, Kept(c))
  BY DEF Trying
<1> DEFINE r == Cat(b, q)
           k == Len(b)
<1>2. IsSeq(b) /\ \A i \in DOMAIN b : Calm(b[i])
  BY DEF AllCalm
<1>3. k \in Nat /\ Len(q) \in Nat /\ DOMAIN b = 1..k /\ DOMAIN q = 1..Len(q)
  BY <1>2, SeqFacts
<1> n \in 1..Len(q)
  BY <1>1, <1>3
<1>4. /\ Len(r) = k + Len(q) /\ DOMAIN r = 1..(k + Len(q))
      /\ \A i \in 1..k : r[i] = b[i]
      /\ \A i \in 1..Len(q) : r[k + i] = q[i]
      /\ \A i \in DOMAIN r : i \in 1..k \/ (\E j \in 1..Len(q) : i = k + j)
  BY <1>2, CatParts
<1> HIDE DEF r, k
<1>5. k + n \in DOMAIN r /\ r[k + n] = q[n]
  <2>1. r[k + n] = q[n]
    BY <1>4
  <2>2. k + n \in 1..(k + Len(q))
    BY <1>3
  <2> QED
    BY <1>4, <2>1, <2>2
<1>6. ASSUME NEW i \in DOMAIN r, i < k + n PROVE Calm(r[i])
  <2>1. CASE i \in 1..k
    BY <1>2, <1>3, <1>4, <2>1
  <2>2. CASE \E j \in 1..Len(q) : i = k + j
    <3>1. PICK j \in 1..Len(q) : i = k + j
      BY <2>2
    <3>2. j < n /\ j \in DOMAIN q /\ r[i] = q[j]
      BY <1>3, <1>4, <1>6, <3>1
    <3> QED
      BY <1>1, <3>2
  <2> QED
    BY <1>4, <2>1, <2>2
<1>7. Behind(u, r, k + n)
  <2>1. IsSeq(u) /\ Len(u) = Len(q) - n /\ \A i \in 1..Len(u) : u[i] = q[i + n]
    BY <1>1 DEF Behind
  <2>2. Len(u) = Len(r) - (k + n)
    BY <1>3, <1>4, <2>1
  <2>3. ASSUME NEW i \in 1..Len(u) PROVE u[i] = r[i + (k + n)]
    <3>1. i + n \in 1..Len(q) /\ i + (k + n) = k + (i + n)
      BY <1>3, <2>1
    <3> QED
      BY <1>4, <2>1, <3>1
  <2> QED
    BY <2>1, <2>2, <2>3 DEF Behind
<1>8. Trying(c, r, v, FALSE)
  BY <1>1, <1>5, <1>6, <1>7 DEF Trying
<1> QED
  BY <1>8 DEF r

\* An exception goes to the end of a scope
LEMMA UnwindLeaves ==
  ASSUME NEW s \in Seq(Instruction), s # << >>, NoEndTry(s)
  PROVE  /\ NoEndTry(Unwind(Tail(s)))
         /\ Unwind(Tail(s)) # << >> => Unwind(Tail(s))[1].op \in {"close_session", "close_ctx"}
<1> DEFINE q == Unwind(Tail(s))
<1>1. PICK d \in 1..Len(s) : Rest(q, s, d) /\ (d < Len(s) => s[d + 1].op \in Stops)
  BY UnwindIsRest
<1> HIDE DEF q
<1>2. /\ q \in Seq(Instruction) /\ Len(q) = Len(s) - d /\ DOMAIN q = 1..Len(q)
      /\ Len(s) \in Nat /\ DOMAIN s = 1..Len(s) /\ Len(q) \in Nat
  BY <1>1 DEF Rest
<1>3. \A i \in 1..Len(q) : q[i] = s[i + d] /\ i + d \in DOMAIN s
  BY <1>1, <1>2 DEF Rest
<1>4. NoEndTry(q)
  BY <1>2, <1>3 DEF NoEndTry
<1>5. ASSUME q # << >> PROVE q[1].op \in {"close_session", "close_ctx"}
  <2>1. Len(q) > 0
    BY <1>2, <1>5
  <2>2. 1 \in 1..Len(q) /\ 1 + d = d + 1 /\ d < Len(s)
    BY <1>1, <1>2, <2>1
  <2>3. q[1] = s[d + 1] /\ d + 1 \in DOMAIN s
    BY <1>3, <2>2
  <2> QED
    BY <1>1, <2>2, <2>3 DEF Stops, NoEndTry
<1> QED
  BY <1>4, <1>5 DEF q

\* A step forward
LEMMA GoesOn ==
  ASSUME NEW c, NEW s \in Seq(Instruction), s # << >>, NEW v, NEW r, NEW f,
         Balanced(c, s, v, r, f), s[1].op \in CalmOps \ {"rethrow"},
         s[1].op = "evict_control" => s[1].handle # "0"
  PROVE  ~r /\ Balanced(c, Tail(s), v, FALSE, f)
<1>1. CASE Running(c, s, v, r)
  <2>1. Triple(c, s, v, Kept(c)) /\ ~r
    BY <1>1 DEF Running
  <2>2. PICK R, m : m \in Vec /\ Closed(c, R) /\ Effect(R, c, s[1], v, m) /\ Triple(c, Tail(s), m, Kept(c))
    BY <2>1, Apart
  <2>3. m = v
    BY <2>2 DEF Effect, CalmOps
  <2> QED
    BY <2>1, <2>2, <2>3 DEF Balanced, Running
<1>2. CASE Trying(c, s, v, r)
  <2>1. s[1].op # "end_try"
    BY DEF CalmOps
  <2> QED
    BY <1>2, <2>1, TryingForward DEF Balanced
<1>3. ~Leaving(c, s, v, r, f)
  BY DEF Leaving, CalmOps
<1> QED
  BY <1>1, <1>2, <1>3 DEF Balanced

\* An exception
LEMMA Aborts ==
  ASSUME NEW c, NEW s \in Seq(Instruction), s # << >>, NEW v, NEW r, NEW f, NEW h,
         Balanced(c, s, v, r, f),
         s[1].op \in (CalmOps \ {"select"}) \cup {"connect", "create", "flush_object"},
         f \subseteq h, s[1].op = "open" => "open" \in h, s[1].op = "flush_object" => "flush" \in h
  PROVE  Balanced(c, Unwind(Tail(s)), v, TRUE, h)
<1>1. CASE Running(c, s, v, r)
  <2>1. Triple(c, s, v, Kept(c))
    BY <1>1 DEF Running
  <2>2. PICK R, m : m \in Vec /\ Closed(c, R) /\ Effect(R, c, s[1], v, m) /\ Triple(c, Tail(s), m, Kept(c))
    BY <2>1, Apart
  <2>3. \/ Fits(c, v, {})
        \/ s[1].op = "open" /\ Fits(c, v, {"open"})
        \/ s[1].op = "flush_object" /\ Fits(c, v, {"flush"})
    BY <2>2 DEF Effect, CalmOps
  <2>4. Fits(c, v, h)
    <3>1. /\ {} \subseteq h
          /\ s[1].op = "open" => {"open"} \subseteq h
          /\ s[1].op = "flush_object" => {"flush"} \subseteq h
      OBVIOUS
    <3> QED
      BY <2>3, <3>1, FitsMonotone
  <2>5. NoEndTry(s)
    BY <2>1, Facts
  <2> QED
    BY <2>4, <2>5, UnwindLeaves DEF Balanced, Leaving
<1>2. CASE Trying(c, s, v, r)
  <2>1. s[1].op # "end_try"
    BY DEF CalmOps
  <2> QED
    BY <1>2, <2>1, TryingThrows DEF Balanced
<1>3. ~Leaving(c, s, v, r, f)
  BY DEF Leaving, CalmOps
<1> QED
  BY <1>1, <1>2, <1>3 DEF Balanced

\* What is not calm is neither in a try block nor reached by an exception
LEMMA RunningHere ==
  ASSUME NEW c, NEW s \in Seq(Instruction), s # << >>, NEW v, NEW r, NEW f,
         Balanced(c, s, v, r, f), s[1].op \in {"create", "flush_object", "try", "session", "connect"}
  PROVE  /\ ~r /\ v \in Vec
         /\ \E R, m : /\ m \in Vec /\ Closed(c, R) /\ Effect(R, c, s[1], v, m)
                      /\ Triple(c, Tail(s), m, Kept(c))
<1>1. ~Trying(c, s, v, r)
  <2>1. ~Calm(s[1]) /\ s[1].op # "end_try"
    BY DEF Calm, CalmOps
  <2> QED
    BY <2>1, TryingForward
<1>2. ~Leaving(c, s, v, r, f)
  BY DEF Leaving
<1>3. ~r /\ v \in Vec /\ Triple(c, s, v, Kept(c))
  BY <1>1, <1>2 DEF Balanced, Running
<1> QED
  BY <1>3, Apart

\* A key is made
LEMMA Creates ==
  ASSUME NEW c, NEW s \in Seq(Instruction), s # << >>, NEW v, NEW r, NEW f,
         Balanced(c, s, v, r, f), s[1].op = "create"
  PROVE  /\ s[1].kind \in Kind
         /\ s[1].ctx = g => Balanced(c, Tail(s), Plus(v, s[1].kind), FALSE, f)
         /\ s[1].ctx # g => Balanced(c, Tail(s), v, FALSE, f)
<1>1. PICK R, m : m \in Vec /\ Closed(c, R) /\ Effect(R, c, s[1], v, m) /\ Triple(c, Tail(s), m, Kept(c))
  BY RunningHere
<1>2. s[1].kind \in Kind /\ m = IF s[1].ctx = g THEN Plus(v, s[1].kind) ELSE v
  BY <1>1 DEF Effect
<1> QED
  BY <1>1, <1>2 DEF Balanced, Running

\* A key is flushed: it is there, and it is one the call has made
LEMMA FlushesObject ==
  ASSUME NEW c, NEW s \in Seq(Instruction), s # << >>, NEW v, NEW r, NEW f,
         Balanced(c, s, v, r, f), s[1].op = "flush_object"
  PROVE  /\ s[1].kind \in Kind /\ s[1].ctx = g /\ v[s[1].kind] > 0
         /\ Balanced(c, Tail(s), Minus(v, s[1].kind), FALSE, f)
<1>1. PICK R, m : m \in Vec /\ Closed(c, R) /\ Effect(R, c, s[1], v, m) /\ Triple(c, Tail(s), m, Kept(c))
  BY RunningHere
<1>2. s[1].kind \in Kind /\ s[1].ctx = g /\ v[s[1].kind] > 0 /\ m = Minus(v, s[1].kind)
  BY <1>1 DEF Effect
<1> QED
  BY <1>1, <1>2 DEF Balanced, Running

\* A body is run, or passed over
LEMMA Branches ==
  ASSUME NEW c, NEW s \in Seq(Instruction), s # << >>, NEW v, NEW r, NEW f,
         Balanced(c, s, v, r, f), s[1].op = "if_opens"
  PROVE  /\ Balanced(c, Tail(s), v, FALSE, f)
         /\ Balanced(c, Cat(s[1].body, Tail(s)), v, FALSE, f)
<1>1. CASE Running(c, s, v, r)
  <2>1. Triple(c, s, v, Kept(c)) /\ v \in Vec
    BY <1>1 DEF Running, Balanced
  <2>2. PICK R, m : m \in Vec /\ Closed(c, R) /\ Effect(R, c, s[1], v, m) /\ Triple(c, Tail(s), m, Kept(c))
    BY <2>1, Apart
  <2>3. m = v /\ <<s[1].body, v, v>> \in R
    BY <2>2 DEF Effect
  <2>4. Triple(c, s[1].body, v, v)
    BY <2>2, <2>3, Member
  <2>5. Triple(c, Cat(s[1].body, Tail(s)), v, Kept(c))
    BY <2>2, <2>3, <2>4, Then
  <2> QED
    BY <2>1, <2>2, <2>3, <2>5 DEF Balanced, Running
<1>2. CASE Trying(c, s, v, r)
  <2>1. Calm(s[1]) /\ Trying(c, Tail(s), v, FALSE) /\ v \in Vec
    BY <1>2, TryingForward DEF Balanced
  <2>2. AllCalm(s[1].body)
    BY <2>1 DEF Calm, AllCalm, CalmOps
  <2>3. IsSeq(Tail(s))
    BY DEF IsSeq
  <2>4. Trying(c, Cat(s[1].body, Tail(s)), v, FALSE)
    BY <2>1, <2>2, <2>3, CalmSplice
  <2> QED
    BY <2>1, <2>4 DEF Balanced
<1>3. ~Leaving(c, s, v, r, f)
  BY DEF Leaving
<1> QED
  BY <1>1, <1>2, <1>3 DEF Balanced

\* A try block is entered
LEMMA Tries ==
  ASSUME NEW c, NEW s \in Seq(Instruction), s # << >>, NEW v, NEW r, NEW f,
         Balanced(c, s, v, r, f), s[1].op = "try"
  PROVE  Balanced(c, Cat(Cat(s[1].body, <<EndTry(s[1].handler)>>), Tail(s)), v, FALSE, f)
<1>1. PICK R, m : m \in Vec /\ Closed(c, R) /\ Effect(R, c, s[1], v, m) /\ Triple(c, Tail(s), m, Kept(c))
  BY RunningHere
<1>2. m = v /\ AllCalm(s[1].body) /\ <<s[1].handler, v, v>> \in R
  BY <1>1 DEF Effect
<1>3. Triple(c, s[1].handler, v, v) /\ v \in Vec
  BY <1>1, <1>2, Member
<1> DEFINE e == EndTry(s[1].handler)
           q == Tail(s)
           p == Cat(<<e>>, q)
<1>4. e.op = "end_try" /\ e.handler = s[1].handler
  BY DEF EndTry
<1>5. IsSeq(q) /\ Len(q) \in Nat
  BY <1>1, Facts, SeqFacts
<1> HIDE DEF e, q
<1>6. /\ IsSeq(p) /\ Len(p) = 1 + Len(q) /\ DOMAIN p = 1..(1 + Len(q))
      /\ p[1] = e /\ \A i \in 1..Len(q) : p[1 + i] = q[i]
  <2> DEFINE y == <<e>>
  <2>1. IsSeq(y) /\ Len(y) = 1 /\ y[1] = e
    BY Single
  <2> HIDE DEF y
  <2> IsSeq(y) /\ IsSeq(q)
    BY <1>5, <2>1
  <2>2. /\ IsSeq(Cat(y, q)) /\ Len(Cat(y, q)) = Len(y) + Len(q)
        /\ DOMAIN Cat(y, q) = 1..(Len(y) + Len(q))
        /\ \A i \in 1..Len(y) : Cat(y, q)[i] = y[i]
        /\ \A i \in 1..Len(q) : Cat(y, q)[Len(y) + i] = q[i]
    BY CatParts
  <2>3. p = Cat(y, q)
    BY DEF y
  <2> HIDE DEF p
  <2> QED
    BY <2>1, <2>2, <2>3
<1> HIDE DEF p
<1>7. Trying(c, p, v, FALSE)
  <2>1. 1 \in DOMAIN p /\ \A i \in DOMAIN p : ~(i < 1)
    BY <1>5, <1>6
  <2>2. Behind(q, p, 1)
    BY <1>5, <1>6 DEF Behind
  <2>3. Triple(c, q, v, Kept(c))
    BY <1>1, <1>2 DEF q
  <2> QED
    BY <1>3, <1>4, <1>6, <2>1, <2>2, <2>3 DEF Trying
<1>8. Trying(c, Cat(s[1].body, p), v, FALSE)
  BY <1>2, <1>6, <1>7, CalmSplice
<1>9. Cat(Cat(s[1].body, <<e>>), q) = Cat(s[1].body, p)
  <2>1. IsSeq(s[1].body) /\ IsSeq(<<e>>)
    BY <1>2, Single DEF AllCalm
  <2> QED
    BY <1>5, <2>1, CatAssociative DEF p
<1> QED
  BY <1>3, <1>8, <1>9 DEF Balanced, e, q

\* A try block is left, or its handler entered
LEMMA EndsTry ==
  ASSUME NEW c, NEW s \in Seq(Instruction), s # << >>, NEW v, NEW r, NEW f,
         Balanced(c, s, v, r, f), s[1].op = "end_try"
  PROVE  /\ Balanced(c, Tail(s), v, FALSE, f)
         /\ Balanced(c, Cat(s[1].handler, Tail(s)), v, FALSE, f)
<1>1. ~NoEndTry(s)
  BY DEF NoEndTry
<1>2. Trying(c, s, v, r) /\ v \in Vec
  BY <1>1, Facts DEF Balanced, Running, Leaving
<1> QED
  BY <1>2, TryingEnds DEF Balanced, Running

\* The scope of a session or of a connection is entered
LEMMA Enters ==
  ASSUME NEW c, NEW s \in Seq(Instruction), s # << >>, NEW v, NEW r, NEW f,
         Balanced(c, s, v, r, f), s[1].op \in {"session", "connect"}
  PROVE  /\ \A ctx : Balanced(c, Cat(Cat(s[1].body, <<CloseSession(ctx)>>), Tail(s)), v, FALSE, f)
         /\ Balanced(c, Cat(Cat(s[1].body, <<CloseCtx>>), Tail(s)), v, FALSE, f)
<1>1. PICK R, m : m \in Vec /\ Closed(c, R) /\ Effect(R, c, s[1], v, m) /\ Triple(c, Tail(s), m, Kept(c))
  BY RunningHere
<1>2. <<s[1].body, v, m>> \in R
  BY <1>1 DEF Effect
<1>3. Triple(c, s[1].body, v, m) /\ v \in Vec
  BY <1>1, <1>2, Member, RunningHere
<1>4. ASSUME NEW e, Triple(c, <<e>>, m, m)
      PROVE  Balanced(c, Cat(Cat(s[1].body, <<e>>), Tail(s)), v, FALSE, f)
  <2>1. Triple(c, Cat(s[1].body, <<e>>), v, m)
    BY <1>3, <1>4, Then
  <2>2. Triple(c, Cat(Cat(s[1].body, <<e>>), Tail(s)), v, Kept(c))
    BY <1>1, <2>1, Then
  <2> QED
    BY <1>3, <2>2 DEF Balanced, Running
<1>5. Triple(c, <<CloseCtx>>, m, m) /\ \A ctx : Triple(c, <<CloseSession(ctx)>>, m, m)
  <2> m \in Vec
    BY <1>1
  <2> QED
    BY Instructions
<1>6. ASSUME NEW ctx
      PROVE  Balanced(c, Cat(Cat(s[1].body, <<CloseSession(ctx)>>), Tail(s)), v, FALSE, f)
  BY <1>4, <1>5
<1>7. Balanced(c, Cat(Cat(s[1].body, <<CloseCtx>>), Tail(s)), v, FALSE, f)
  BY <1>4, <1>5
<1> QED
  BY <1>6, <1>7

\* A scope is left
LEMMA Leaves ==
  ASSUME NEW c, NEW s \in Seq(Instruction), s # << >>, NEW v, NEW r \in BOOLEAN, NEW f,
         Balanced(c, s, v, r, f), s[1].op \in {"close_session", "close_ctx"}
  PROVE  Balanced(c, IF r THEN Unwind(Tail(s)) ELSE Tail(s), v, r, f)
<1>1. ~Trying(c, s, v, r)
  <2>1. ~Calm(s[1]) /\ s[1].op # "end_try"
    BY DEF Calm, CalmOps
  <2> QED
    BY <2>1, TryingForward
<1>2. CASE Running(c, s, v, r)
  <2>1. Triple(c, s, v, Kept(c)) /\ ~r
    BY <1>2 DEF Running
  <2>2. PICK R, m : m \in Vec /\ Closed(c, R) /\ Effect(R, c, s[1], v, m) /\ Triple(c, Tail(s), m, Kept(c))
    BY <2>1, Apart
  <2>3. m = v
    BY <2>2 DEF Effect
  <2> QED
    BY <2>1, <2>2, <2>3 DEF Balanced, Running
<1>3. CASE Leaving(c, s, v, r, f)
  <2>1. r /\ Fits(c, v, f) /\ NoEndTry(s)
    BY <1>3 DEF Leaving
  <2>2. /\ NoEndTry(Unwind(Tail(s)))
        /\ Unwind(Tail(s)) # << >> => Unwind(Tail(s))[1].op \in {"close_session", "close_ctx"}
    BY <2>1, UnwindLeaves
  <2> QED
    BY <2>1, <2>2 DEF Balanced, Leaving
<1> QED
  BY <1>1, <1>2, <1>3 DEF Balanced

-----------------------------------------------------------------------------
(* The functions of the library have their triples *)

\* The vectors that occur
LEMMA Vectors ==
  ASSUME NEW e \in Nat, NEW k \in Nat, NEW l \in Nat
  PROVE  /\ V(e, k, l) \in Vec
         /\ V(e, k, l)["ephemeral"] = e /\ V(e, k, l)["ek"] = k /\ V(e, k, l)["loaded"] = l
         /\ Plus(V(e, k, l), "ephemeral") = V(e + 1, k, l)
         /\ Plus(V(e, k, l), "ek") = V(e, k + 1, l)
         /\ Plus(V(e, k, l), "loaded") = V(e, k, l + 1)
         /\ Minus(V(1, k, l), "ephemeral") = V(0, k, l)
         /\ Minus(V(e, 1, l), "ek") = V(e, 0, l)
<1>1. V(e, k, l) \in Vec /\ V(e, k, l)["ephemeral"] = e /\ V(e, k, l)["ek"] = k /\ V(e, k, l)["loaded"] = l
  BY DEF V, Vec, Kind
<1>2. Plus(V(e, k, l), "ephemeral") = V(e + 1, k, l)
  BY DEF V, Plus, Kind
<1>3. Plus(V(e, k, l), "ek") = V(e, k + 1, l)
  BY DEF V, Plus, Kind
<1>4. Plus(V(e, k, l), "loaded") = V(e, k, l + 1)
  BY DEF V, Plus, Kind
<1>5. Minus(V(1, k, l), "ephemeral") = V(0, k, l)
  <2> DEFINE m == Minus(V(1, k, l), "ephemeral")
  <2>1. /\ m = [kind \in Kind |-> m[kind]]
        /\ m["ephemeral"] = 0 /\ m["ek"] = k /\ m["loaded"] = l
    BY DEF V, Minus, Kind
  <2> HIDE DEF m
  <2>2. m = V(0, k, l)
    BY <2>1 DEF V, Kind
  <2> QED
    BY <2>2 DEF m
<1>6. Minus(V(e, 1, l), "ek") = V(e, 0, l)
  <2> DEFINE m == Minus(V(e, 1, l), "ek")
  <2>1. /\ m = [kind \in Kind |-> m[kind]]
        /\ m["ephemeral"] = e /\ m["ek"] = 0 /\ m["loaded"] = l
    BY DEF V, Minus, Kind
  <2> HIDE DEF m
  <2>2. m = V(e, 0, l)
    BY <2>1 DEF V, Kind
  <2> QED
    BY <2>2 DEF m
<1> QED
  BY <1>1, <1>2, <1>3, <1>4, <1>5, <1>6

Z == V(0, 0, 0)

\* Nothing needs no explanation
LEMMA ZeroFits == ASSUME NEW c, NEW f PROVE Z \in Vec /\ Fits(c, Z, f)
BY Vectors DEF Z, Fits

\* Sequences that leave the objects alone
QuietSeq(s) == IsSeq(s) /\ \A i \in DOMAIN s : s[i].op \in CalmOps

LEMMA QuietCat == ASSUME NEW s, NEW u, QuietSeq(s), QuietSeq(u) PROVE QuietSeq(Cat(s, u))
<1> IsSeq(s) /\ IsSeq(u)
  BY DEF QuietSeq
<1>1. DOMAIN s = 1..Len(s) /\ DOMAIN u = 1..Len(u)
  BY SeqFacts
<1>2. /\ IsSeq(Cat(s, u))
      /\ \A i \in 1..Len(s) : Cat(s, u)[i] = s[i]
      /\ \A i \in 1..Len(u) : Cat(s, u)[Len(s) + i] = u[i]
      /\ \A i \in DOMAIN Cat(s, u) : i \in 1..Len(s) \/ (\E j \in 1..Len(u) : i = Len(s) + j)
  BY CatParts
<1> QED
  BY <1>1, <1>2 DEF QuietSeq

LEMMA QuietTuples ==
  ASSUME NEW x, NEW y, NEW z, x.op \in CalmOps, y.op \in CalmOps, z.op \in CalmOps
  PROVE  QuietSeq(<<x>>) /\ QuietSeq(<<x, y>>) /\ QuietSeq(<<x, y, z>>)
<1>1. QuietSeq(<<x>>)
  <2> DEFINE s == <<x>>
  <2>1. s \in Seq({x}) /\ DOMAIN s = 1..1 /\ s[1] = x
    OBVIOUS
  <2> HIDE DEF s
  <2>2. QuietSeq(s)
    BY <2>1 DEF QuietSeq, IsSeq
  <2> QED
    BY <2>2 DEF s
<1>2. QuietSeq(<<x, y>>)
  <2> DEFINE s == <<x, y>>
  <2>1. s \in Seq({x, y}) /\ DOMAIN s = 1..2 /\ s[1] = x /\ s[2] = y
    OBVIOUS
  <2> HIDE DEF s
  <2>2. QuietSeq(s)
    BY <2>1 DEF QuietSeq, IsSeq
  <2> QED
    BY <2>2 DEF s
<1>3. QuietSeq(<<x, y, z>>)
  <2> DEFINE s == <<x, y, z>>
  <2>1. s \in Seq({x, y, z}) /\ DOMAIN s = 1..3 /\ s[1] = x /\ s[2] = y /\ s[3] = z
    OBVIOUS
  <2> HIDE DEF s
  <2>2. QuietSeq(s)
    BY <2>1 DEF QuietSeq, IsSeq
  <2> QED
    BY <2>2 DEF s
<1> QED
  BY <1>1, <1>2, <1>3

\* What is quiet is calm, and has its triple
LEMMA QuietTriple ==
  ASSUME NEW s, QuietSeq(s)
  PROVE  /\ AllCalm(s)
         /\ \A c : \A a \in Vec : Fits(c, a, {}) => Triple(c, s, a, a)
BY Quiet DEF QuietSeq, AllCalm, Calm

\* Instructions one after the other
LEMMA TupleTriples ==
  ASSUME NEW c, NEW a, NEW b, NEW x, NEW y, NEW m, Triple(c, <<x>>, a, m), Triple(c, <<y>>, m, b)
  PROVE  /\ Triple(c, <<x, y>>, a, b)
         /\ \A z, d : Triple(c, <<z>>, b, d) => Triple(c, <<x, y, z>>, a, d)
         /\ \A z, d, w, e : Triple(c, <<z>>, b, d) /\ Triple(c, <<w>>, d, e) =>
              Triple(c, <<x, y, z, w>>, a, e)
<1>1. /\ \A p, q : Cat(<<p>>, <<q>>) = <<p, q>>
      /\ \A p, q, z : Cat(<<p, q>>, <<z>>) = <<p, q, z>>
      /\ \A p, q, z, w : Cat(<<p, q, z>>, <<w>>) = <<p, q, z, w>>
  BY TupleConcat, Zenon DEF Cat
<1>2. Triple(c, <<x, y>>, a, b)
  <2>1. Triple(c, Cat(<<x>>, <<y>>), a, b)
    BY Then
  <2> QED
    BY <1>1, <2>1, Zenon
<1>3. ASSUME NEW z, NEW d, Triple(c, <<z>>, b, d) PROVE Triple(c, <<x, y, z>>, a, d)
  <2>1. Triple(c, Cat(<<x, y>>, <<z>>), a, d)
    BY <1>2, <1>3, Then
  <2> QED
    BY <1>1, <2>1, Zenon
<1>4. ASSUME NEW z, NEW d, NEW w, NEW e, Triple(c, <<z>>, b, d), Triple(c, <<w>>, d, e)
      PROVE  Triple(c, <<x, y, z, w>>, a, e)
  <2>1. Triple(c, Cat(<<x, y, z>>, <<w>>), a, e)
    BY <1>3, <1>4, Then
  <2> QED
    BY <1>1, <2>1, Zenon
<1> QED
  BY <1>2, <1>3, <1>4

\* The instructions that leave the objects alone
LEMMA QuietInstructions ==
  /\ Command.op \in CalmOps /\ [op |-> "select"].op \in CalmOps /\ Rethrow.op \in CalmOps
  /\ \A o : HandleToEsys(o).op \in CalmOps
  /\ \A ctx : Start(ctx).op \in CalmOps /\ Flush(ctx).op \in CalmOps
  /\ \A alg, until : PCR_Read(alg, until).op \in CalmOps
  /\ \A handle : EvictControl(handle).op \in CalmOps
  /\ GetPcrCount = Command /\ GeneratePcrDigest = Command /\ PolicySecret = Command
  /\ PolicyPcr = Command /\ PolicyCommandCode = Command /\ GetDigest = Command
  /\ PopulateEkPublicInput = Command /\ CheckAndMarshalEkPub = Command
BY DEF CalmOps, Command, Rethrow, HandleToEsys, Start, Flush, PCR_Read, EvictControl, GetPcrCount,
   GeneratePcrDigest, PolicySecret, PolicyPcr, PolicyCommandCode, GetDigest, PopulateEkPublicInput,
   CheckAndMarshalEkPub

\* The functions that only ask
LEMMA QuietFunctions ==
  /\ QuietSeq(<<Command>>) /\ QuietSeq(GetTssPcrSelection) /\ QuietSeq(NvRead)
  /\ \A o : QuietSeq(GetPublicObject(o))
  /\ \A ctx : QuietSeq(Restart(ctx))
  /\ \A alg : /\ QuietSeq(PopulateCurrentPcrs(alg)) /\ QuietSeq(TestUtil_PopulateCurrentPcrs(alg))
              /\ QuietSeq(GetPCRQuote(alg)) /\ QuietSeq(GetPCRValues(alg))
  /\ QuietSeq(GetTcgLog) /\ QuietSeq(GetVersion)
  /\ QuietSeq(UnpackAiKPubToRSA) /\ QuietSeq(UnpackPcrQuoteToRSA)
<1>1. QuietSeq(<<Command>>) /\ QuietSeq(GetTssPcrSelection) /\ QuietSeq(NvRead)
  BY QuietInstructions, QuietTuples DEF GetTssPcrSelection, NvRead
<1>2. \A o : QuietSeq(GetPublicObject(o))
  BY QuietInstructions, QuietTuples DEF GetPublicObject
<1>3. \A ctx : QuietSeq(Restart(ctx))
  BY QuietInstructions, QuietTuples DEF Restart
<1>4. ASSUME NEW alg
      PROVE  QuietSeq(PopulateCurrentPcrs(alg)) /\ QuietSeq(TestUtil_PopulateCurrentPcrs(alg))
  <2>1. /\ QuietSeq(<<PCR_Read(alg, "all_counted")>>)
        /\ QuietSeq(<<PCR_Read(alg, "mask_empty")>>)
    BY QuietInstructions, QuietTuples
  <2>2. /\ PopulateCurrentPcrs(alg) = Cat(GetTssPcrSelection, <<PCR_Read(alg, "mask_empty")>>)
        /\ TestUtil_PopulateCurrentPcrs(alg) = Cat(GetTssPcrSelection, <<PCR_Read(alg, "all_counted")>>)
    BY Zenon DEF Cat, PopulateCurrentPcrs, TestUtil_PopulateCurrentPcrs
  <2> QED
    BY <1>1, <2>1, <2>2, QuietCat
<1>5. ASSUME NEW alg PROVE QuietSeq(GetPCRQuote(alg)) /\ QuietSeq(GetPCRValues(alg))
  <2>1. QuietSeq(<<HandleToEsys("aik")>>)
    BY QuietInstructions, QuietTuples
  <2>2. GetPCRQuote(alg) = Cat(Cat(<<HandleToEsys("aik")>>, GetTssPcrSelection), <<Command>>)
    BY Zenon DEF Cat, GetPCRQuote
  <2>3. GetPCRValues(alg) = PopulateCurrentPcrs(alg)
    BY Zenon DEF GetPCRValues
  <2> QED
    BY <1>1, <1>4, <2>1, <2>2, <2>3, QuietCat
<1>6. /\ QuietSeq(GetTcgLog) /\ QuietSeq(GetVersion)
      /\ QuietSeq(UnpackAiKPubToRSA) /\ QuietSeq(UnpackPcrQuoteToRSA)
  BY <1>1, Zenon DEF GetTcgLog, GetVersion, UnpackAiKPubToRSA, UnpackPcrQuoteToRSA
<1> QED
  BY <1>1, <1>2, <1>3, <1>4, <1>5, <1>6

\* The ephemeral key
LEMMA CreateEphemeralKeyTriple == ASSUME NEW c PROVE Triple(c, CreateEphemeralKey(g), Z, V(1, 0, 0))
<1> DEFINE body == <<Start(g), PolicyPcr, GetDigest>>
<1>1. Z \in Vec /\ Fits(c, Z, {})
  BY ZeroFits
<1>2. QuietSeq(body)
  BY QuietInstructions, QuietTuples
<1> HIDE DEF body
<1>3. Triple(c, <<WithSession(g, body)>>, Z, Z)
  BY <1>1, <1>2, QuietTriple, Scopes
<1>4. QuietSeq(Cat(<<GeneratePcrDigest>>, GetTssPcrSelection))
  BY QuietFunctions, QuietInstructions, QuietCat
<1>5. Triple(c, Cat(<<GeneratePcrDigest>>, GetTssPcrSelection), Z, Z)
  BY <1>1, <1>4, QuietTriple
<1>6. Triple(c, Cat(Cat(<<GeneratePcrDigest>>, GetTssPcrSelection), <<WithSession(g, body)>>), Z, Z)
  BY <1>3, <1>5, Then
<1>7. Triple(c, <<Create(g, "ephemeral")>>, Z, V(1, 0, 0))
  <2>1. Plus(Z, "ephemeral") = V(1, 0, 0)
    <3>1. Plus(V(0, 0, 0), "ephemeral") = V(0 + 1, 0, 0)
      BY Vectors
    <3> QED
      BY <3>1 DEF Z
  <2>2. "ephemeral" \in Kind
    BY DEF Kind
  <2> QED
    BY <1>1, <2>1, <2>2, Instructions
<1>8. CreateEphemeralKey(g) =
        Cat(Cat(Cat(<<GeneratePcrDigest>>, GetTssPcrSelection), <<WithSession(g, body)>>),
            <<Create(g, "ephemeral")>>)
  BY Zenon DEF Cat, CreateEphemeralKey, GetEphemeralKeyPolicyDigest, body
<1> QED
  BY <1>6, <1>7, <1>8, Then

\* A key that is flushed and the exception thrown on
LEMMA FlushAndRethrow ==
  ASSUME NEW c, NEW kind \in Kind, NEW a \in Vec, a[kind] > 0, Minus(a, kind) = Z,
         Fits(c, a, {"flush"})
  PROVE  /\ Triple(c, <<FlushObjectContext(g, kind), Rethrow>>, a, a)
         /\ Triple(c, <<FlushObjectContext(g, kind)>>, a, Z)
<1>1. Triple(c, <<FlushObjectContext(g, kind)>>, a, Z)
  BY Instructions
<1>2. Triple(c, <<Rethrow>>, Z, a)
  BY ZeroFits, Instructions
<1> QED
  BY <1>1, <1>2, TupleTriples

\* The key is certified, and flushed whether that works or not
LEMMA CertifyTriple ==
  ASSUME NEW c, NEW kind \in Kind, NEW a \in Vec, a[kind] > 0, Minus(a, kind) = Z,
         Fits(c, a, {"flush"}), Fits(c, a, {"open"})
  PROVE  Triple(c, GetCertifiedKeyAndFlushHandle(kind), a, Z)
<1> DEFINE x == HandleToEsys("aik")
           y == Try(<<Command>>, <<FlushObjectContext(g, kind), Rethrow>>)
           z == FlushObjectContext(g, kind)
<1>1. Triple(c, <<x>>, a, a)
  BY Instructions
<1>2. Triple(c, <<y>>, a, a)
  BY FlushAndRethrow, QuietFunctions, QuietTriple, Scopes
<1>3. Triple(c, <<z>>, a, Z)
  BY FlushAndRethrow
<1>4. Triple(c, <<Command>>, Z, Z)
  BY ZeroFits, Instructions
<1>5. GetCertifiedKeyAndFlushHandle(kind) = <<x, y, z, Command>>
  BY Zenon DEF GetCertifiedKeyAndFlushHandle
<1> HIDE DEF x, y, z
<1>6. Triple(c, <<x, y, z, Command>>, a, Z)
  BY <1>1, <1>2, <1>3, <1>4, TupleTriples
<1> QED
  BY <1>5, <1>6

\* GetEphemeralKey and DecryptWithEphemeralKey
LEMMA EphemeralTriples ==
  /\ Triple("GetEphemeralKey", GetEphemeralKey, Z, Z)
  /\ Triple("DecryptWithEphemeralKey", DecryptWithEphemeralKey, Z, Z)
<1> DEFINE a == V(1, 0, 0)
<1>1. /\ a \in Vec /\ a["ephemeral"] = 1 /\ a["ek"] = 0 /\ a["loaded"] = 0
      /\ Minus(a, "ephemeral") = Z /\ "ephemeral" \in Kind
  BY Vectors DEF Z, Kind
<1> HIDE DEF a
<1>2. \A c : Fits(c, a, {"flush"})
  BY <1>1 DEF Fits
<1>3. Fits("GetEphemeralKey", a, {"open"})
  BY <1>1 DEF Fits
<1>4. \A c : Triple(c, CreateEphemeralKey(g), Z, a)
  BY CreateEphemeralKeyTriple DEF a
<1>5. Triple("GetEphemeralKey", GetEphemeralKey, Z, Z)
  <2>1. Triple("GetEphemeralKey", GetCertifiedKeyAndFlushHandle("ephemeral"), a, Z)
    BY <1>1, <1>2, <1>3, CertifyTriple
  <2>2. GetEphemeralKey = Cat(CreateEphemeralKey(g), GetCertifiedKeyAndFlushHandle("ephemeral"))
    BY Zenon DEF Cat, GetEphemeralKey
  <2> QED
    BY <1>4, <2>1, <2>2, Then
<1>6. Triple("DecryptWithEphemeralKey", DecryptWithEphemeralKey, Z, Z)
  <2> DEFINE c == "DecryptWithEphemeralKey"
             flush == FlushObjectContext(g, "ephemeral")
             policy == <<GeneratePcrDigest>> \o GetTssPcrSelection \o <<Start(g), PolicyPcr>>
             x == Try(policy, <<flush, Rethrow>>)
             y == Try(<<Command>>, <<flush, Rethrow>>)
  <2>1. QuietSeq(policy)
    <3>1. policy = Cat(Cat(<<GeneratePcrDigest>>, GetTssPcrSelection), <<Start(g), PolicyPcr>>)
      BY Zenon DEF Cat
    <3>2. QuietSeq(<<Start(g), PolicyPcr>>) /\ QuietSeq(<<GeneratePcrDigest>>)
      BY QuietInstructions, QuietTuples
    <3> HIDE DEF policy
    <3> QED
      BY <3>1, <3>2, QuietFunctions, QuietCat
  <2> HIDE DEF policy
  <2>2. Triple(c, <<flush, Rethrow>>, a, a) /\ Triple(c, <<flush>>, a, Z)
    BY <1>1, <1>2, FlushAndRethrow
  <2> HIDE DEF flush
  <2>3. Triple(c, <<x>>, a, a)
    BY <2>1, <2>2, QuietTriple, Scopes
  <2>4. Triple(c, <<y>>, a, a)
    BY <2>2, QuietFunctions, QuietTriple, Scopes
  <2> HIDE DEF x, y
  <2>5. Triple(c, <<x, y, flush>>, a, Z)
    BY <2>2, <2>3, <2>4, TupleTriples
  <2>6. Triple(c, <<WithSession(g, <<x, y, flush>>)>>, a, Z)
    BY <2>5, Scopes
  <2>7. DecryptWithEphemeralKey = Cat(CreateEphemeralKey(g), <<WithSession(g, <<x, y, flush>>)>>)
    BY Zenon DEF Cat, DecryptWithEphemeralKey, x, y, flush, policy
  <2> QED
    BY <1>4, <2>6, <2>7, Then
<1> QED
  BY <1>5, <1>6

\* The EK that is generated
LEMMA GenerateEkTriple ==
  ASSUME NEW c, NEW l \in Nat, Fits(c, V(0, 0, l), {})
  PROVE  /\ Triple(c, GenerateEk(g), V(0, 0, l), V(0, 1, l))
         /\ Triple(c, GenerateEkFromSpec(g), V(0, 0, l), V(0, 1, l))
<1> DEFINE a == V(0, 0, l)
<1>1. a \in Vec /\ Plus(a, "ek") = V(0, 1, l) /\ "ek" \in Kind
  <2>1. V(0, 0, l) \in Vec /\ Plus(V(0, 0, l), "ek") = V(0, 0 + 1, l)
    BY Vectors
  <2> QED
    BY <2>1 DEF Kind
<1> HIDE DEF a
<1>2. Fits(c, a, {})
  BY DEF a
<1>3. Triple(c, <<Create(g, "ek")>>, a, V(0, 1, l)) /\ Triple(c, <<Command>>, a, a)
  BY <1>1, <1>2, Instructions
<1>4. Triple(c, <<Command, Create(g, "ek")>>, a, V(0, 1, l))
  BY <1>3, TupleTriples
<1>5. GenerateEk(g) = <<Command, Create(g, "ek")>> /\ GenerateEkFromSpec(g) = <<Create(g, "ek")>>
  BY Zenon DEF GenerateEk, GenerateEkFromSpec, PopulateEkPublicInput
<1> QED
  BY <1>3, <1>4, <1>5 DEF a

\* GetEkPub and what uses it; the EK that is certified or only returned
LEMMA EkTriples ==
  /\ \A c \in {"GetEkPub", "ekpub", "generateek"} : Triple(c, GetEkPub, Z, Z)
  /\ Triple("generateek", process_create_ek, Z, Z)
  /\ \A c : Triple(c, RemovePersistentEk, Z, Z)
  /\ Triple("GetEkPubWithoutPersisting", GetEkPubWithoutPersisting, Z, V(0, 1, 0))
  /\ \A c \in {"GetEkPubWithCertification", "certifyek"} : Triple(c, GetEkPubWithCertification, Z, Z)
<1> DEFINE a == V(0, 1, 0)
<1>1. /\ a \in Vec /\ a["ephemeral"] = 0 /\ a["ek"] = 1 /\ a["loaded"] = 0
      /\ Minus(a, "ek") = Z /\ "ek" \in Kind
  BY Vectors DEF Z, Kind
<1>2. \A c : /\ Triple(c, GenerateEk(g), Z, a)
             /\ Triple(c, GenerateEkFromSpec(g), Z, a)
  BY ZeroFits, GenerateEkTriple DEF Z
<1> HIDE DEF a
<1>3. ASSUME NEW c \in {"GetEkPub", "ekpub", "generateek"} PROVE Triple(c, GetEkPub, Z, Z)
  <2> DEFINE h == GenerateAndPersistEk(g) \o <<CheckAndMarshalEkPub>>
  <2>1. Fits(c, a, {})
    BY <1>1 DEF Fits
  <2>2. Triple(c, <<EvictControl("0")>>, a, Z)
    BY <1>1, <2>1, ZeroFits, Instructions
  <2>3. Triple(c, Cat(GenerateEk(g), <<EvictControl("0")>>), Z, Z)
    BY <1>2, <2>2, Then
  <2>4. Triple(c, <<Command>>, Z, Z)
    BY ZeroFits, Instructions
  <2>5. Triple(c, Cat(Cat(GenerateEk(g), <<EvictControl("0")>>), <<Command>>), Z, Z)
    BY <2>3, <2>4, Then
  <2>6. h = Cat(Cat(GenerateEk(g), <<EvictControl("0")>>), <<Command>>)
    BY Zenon DEF Cat, GenerateAndPersistEk, CheckAndMarshalEkPub
  <2> HIDE DEF h
  <2>7. Triple(c, <<Try(GetPublicObject("ek"), h)>>, Z, Z)
    BY <2>5, <2>6, QuietFunctions, QuietTriple, Scopes
  <2>8. GetEkPub = <<Try(GetPublicObject("ek"), h)>>
    BY Zenon DEF GetEkPub, h
  <2> QED
    BY <2>7, <2>8
<1>4. ASSUME NEW c PROVE Triple(c, RemovePersistentEk, Z, Z) /\ AllCalm(RemovePersistentEk)
  <2> DEFINE b == <<EvictControl("persistent")>>
             x == IfOpens("ek", b)
  <2>1. QuietSeq(b)
    BY QuietInstructions, QuietTuples
  <2> HIDE DEF b
  <2>2. Triple(c, <<x>>, Z, Z)
    BY <2>1, ZeroFits, QuietTriple, Scopes
  <2>3. Calm(x)
    BY <2>1 DEF Calm, QuietSeq, IfOpens
  <2>4. RemovePersistentEk = <<x>>
    BY Zenon DEF RemovePersistentEk, b
  <2> HIDE DEF x
  <2>5. AllCalm(<<x>>)
    <3> DEFINE y == <<x>>
    <3>1. IsSeq(y) /\ y[1] = x /\ DOMAIN y = 1..1
      BY Single
    <3> HIDE DEF y
    <3>2. AllCalm(y)
      BY <2>3, <3>1 DEF AllCalm
    <3> QED
      BY <3>2 DEF y
  <2> QED
    BY <2>2, <2>4, <2>5
<1>5. Triple("generateek", process_create_ek, Z, Z)
  <2>1. Triple("generateek", << >>, Z, Z)
    BY ZeroFits, Nothing
  <2>2. Triple("generateek", <<Try(RemovePersistentEk, << >>)>>, Z, Z)
    BY <1>4, <2>1, Scopes
  <2>3. process_create_ek = Cat(<<Try(RemovePersistentEk, << >>)>>, GetEkPub)
    BY Zenon DEF Cat, process_create_ek
  <2> QED
    BY <1>3, <2>2, <2>3, Then
<1>6. Triple("GetEkPubWithoutPersisting", GetEkPubWithoutPersisting, Z, a)
  <2>1. Fits("GetEkPubWithoutPersisting", a, {})
    BY <1>1 DEF Fits
  <2>2. Triple("GetEkPubWithoutPersisting", <<Command>>, a, a)
    BY <1>1, <2>1, Instructions
  <2>3. GetEkPubWithoutPersisting = Cat(GenerateEk(g), <<Command>>)
    BY Zenon DEF Cat, GetEkPubWithoutPersisting, CheckAndMarshalEkPub
  <2> QED
    BY <1>2, <2>2, <2>3, Then
<1>7. ASSUME NEW c \in {"GetEkPubWithCertification", "certifyek"}
      PROVE  Triple(c, GetEkPubWithCertification, Z, Z)
  <2>1. Fits(c, a, {"open"}) /\ Fits(c, a, {"flush"})
    BY <1>1 DEF Fits
  <2>2. Triple(c, GetCertifiedKeyAndFlushHandle("ek"), a, Z)
    BY <1>1, <2>1, CertifyTriple
  <2>3. GetEkPubWithCertification = Cat(GenerateEkFromSpec(g), GetCertifiedKeyAndFlushHandle("ek"))
    BY Zenon DEF Cat, GetEkPubWithCertification
  <2> QED
    BY <1>2, <2>2, <2>3, Then
<1> QED
  BY <1>3, <1>4, <1>5, <1>6, <1>7 DEF a

\* What is unsealed stays loaded
LEMMA UnsealInternalTriple ==
  ASSUME NEW c, NEW k \in Nat, NEW l \in Nat, NEW usePcrAuth \in BOOLEAN,
         Fits(c, V(0, k, l), {}), Fits(c, V(0, k, l + 1), {})
  PROVE  Triple(c, UnsealInternal(usePcrAuth), V(0, k, l), V(0, k, l + 1))
<1> DEFINE a == V(0, k, l)
           b == V(0, k, l + 1)
           s1 == <<Start(g), PolicySecret, Command>>
           auth == IF usePcrAuth
                   THEN <<GeneratePcrDigest>> \o GetTssPcrSelection \o Restart(g) \o <<PolicyPcr>>
                   ELSE << >>
           load == <<PolicySecret, Create(g, "loaded")>>
           body == Cat(Cat(Cat(Cat(s1, Restart(g)), load), auth), <<Command>>)
<1>1. a \in Vec /\ b \in Vec /\ Plus(a, "loaded") = b /\ "loaded" \in Kind
  BY Vectors DEF Kind
<1> HIDE DEF a, b
<1>2. Fits(c, a, {}) /\ Fits(c, b, {})
  BY DEF a, b
<1>3. Triple(c, Cat(s1, Restart(g)), a, a)
  <2>1. QuietSeq(s1)
    BY QuietInstructions, QuietTuples
  <2> HIDE DEF s1
  <2>2. QuietSeq(Cat(s1, Restart(g)))
    BY <2>1, QuietFunctions, QuietCat
  <2> QED
    BY <1>1, <1>2, <2>2, QuietTriple
<1>4. Triple(c, load, a, b)
  <2>1. Triple(c, <<PolicySecret>>, a, a) /\ Triple(c, <<Create(g, "loaded")>>, a, b)
    BY <1>1, <1>2, Instructions DEF PolicySecret
  <2> QED
    BY <2>1, TupleTriples
<1>5. Triple(c, auth, b, b)
  <2>1. CASE usePcrAuth
    <3>1. auth = Cat(Cat(Cat(<<GeneratePcrDigest>>, GetTssPcrSelection), Restart(g)), <<PolicyPcr>>)
      BY <2>1, Zenon DEF Cat
    <3>2. QuietSeq(<<PolicyPcr>>) /\ QuietSeq(<<GeneratePcrDigest>>)
      BY QuietInstructions, QuietTuples
    <3> HIDE DEF auth
    <3>3. QuietSeq(auth)
      BY <3>1, <3>2, QuietFunctions, QuietCat
    <3> QED
      BY <1>1, <1>2, <3>3, QuietTriple
  <2>2. CASE ~usePcrAuth
    <3>1. auth = << >>
      BY <2>2
    <3> QED
      BY <1>1, <3>1, Nothing
  <2> QED
    BY <2>1, <2>2
<1>6. Triple(c, <<Command>>, a, a) /\ Triple(c, <<Command>>, b, b)
  BY <1>1, <1>2, Instructions
<1>7. UnsealInternal(usePcrAuth) = <<Command, WithSession(g, body)>>
  BY Zenon DEF Cat, UnsealInternal
<1> HIDE DEF s1, auth, load
<1>8. Triple(c, body, a, b)
  <2>1. Triple(c, Cat(Cat(s1, Restart(g)), load), a, b)
    BY <1>3, <1>4, Then
  <2>2. Triple(c, Cat(Cat(Cat(s1, Restart(g)), load), auth), a, b)
    BY <1>5, <2>1, Then
  <2> QED
    BY <1>6, <2>2, Then
<1> HIDE DEF body
<1>9. Triple(c, <<WithSession(g, body)>>, a, b)
  BY <1>8, Scopes
<1>10. Triple(c, <<Command, WithSession(g, body)>>, a, b)
  BY <1>6, <1>9, TupleTriples
<1> QED
  BY <1>7, <1>10 DEF a, b

\* Unseal and UnsealWithEkFromSpec, which flushes the EK it generates
LEMMA UnsealTriples ==
  ASSUME NEW c \in {"Unseal", "UnsealWithEkFromSpec", "unseal"}, NEW l \in Nat,
         NEW usePcrAuth \in BOOLEAN
  PROVE  /\ Triple(c, Unseal(usePcrAuth), V(0, 0, l), V(0, 0, l + 1))
         /\ c # "Unseal" =>
              Triple(c, UnsealWithEkFromSpec(usePcrAuth), V(0, 0, l), V(0, 0, l + 1))
<1>1. ASSUME NEW k \in Nat, NEW n \in Nat, k = 0 \/ c # "Unseal"
      PROVE  V(0, k, n) \in Vec /\ \A f : Fits(c, V(0, k, n), f)
  <2>1. /\ V(0, k, n) \in Vec /\ V(0, k, n)["ephemeral"] = 0 /\ V(0, k, n)["ek"] = k
        /\ V(0, k, n)["loaded"] = n
    BY Vectors
  <2> QED
    BY <1>1, <2>1 DEF Fits
<1>2. l + 1 \in Nat /\ 0 \in Nat /\ 1 \in Nat
  OBVIOUS
<1>3. Triple(c, Unseal(usePcrAuth), V(0, 0, l), V(0, 0, l + 1))
  <2>1. Triple(c, UnsealInternal(usePcrAuth), V(0, 0, l), V(0, 0, l + 1))
    BY <1>1, <1>2, UnsealInternalTriple
  <2>2. Triple(c, <<HandleToEsys("ek")>>, V(0, 0, l), V(0, 0, l))
    BY <1>1, <1>2, Instructions
  <2>3. Unseal(usePcrAuth) = Cat(<<HandleToEsys("ek")>>, UnsealInternal(usePcrAuth))
    BY Zenon DEF Cat, Unseal
  <2> QED
    BY <2>1, <2>2, <2>3, Then
<1>4. ASSUME c # "Unseal"
      PROVE  Triple(c, UnsealWithEkFromSpec(usePcrAuth), V(0, 0, l), V(0, 0, l + 1))
  <2>1. Triple(c, GenerateEkFromSpec(g), V(0, 0, l), V(0, 1, l))
    BY <1>1, <1>2, GenerateEkTriple
  <2>2. Triple(c, UnsealInternal(usePcrAuth), V(0, 1, l), V(0, 1, l + 1))
    BY <1>1, <1>2, <1>4, UnsealInternalTriple
  <2>3. Triple(c, <<FlushObjectContext(g, "ek")>>, V(0, 1, l + 1), V(0, 0, l + 1))
    <3> DEFINE a == V(0, 1, l + 1)
    <3>1. a["ek"] = 1 /\ Minus(a, "ek") = V(0, 0, l + 1) /\ "ek" \in Kind
      BY <1>2, Vectors DEF Kind
    <3>2. a \in Vec /\ Fits(c, a, {"flush"})
      BY <1>1, <1>2, <1>4
    <3> HIDE DEF a
    <3>3. Triple(c, <<FlushObjectContext(g, "ek")>>, a, V(0, 0, l + 1))
      BY <3>1, <3>2, Instructions
    <3> QED
      BY <3>3 DEF a
  <2>4. UnsealWithEkFromSpec(usePcrAuth) =
          Cat(Cat(GenerateEkFromSpec(g), UnsealInternal(usePcrAuth)), <<FlushObjectContext(g, "ek")>>)
    BY Zenon DEF Cat, UnsealWithEkFromSpec
  <2>5. Triple(c, Cat(GenerateEkFromSpec(g), UnsealInternal(usePcrAuth)), V(0, 0, l), V(0, 1, l + 1))
    BY <2>1, <2>2, Then
  <2> QED
    BY <2>3, <2>4, <2>5, Then
<1> QED
  BY <1>3, <1>4

\* Sealing works on the second connection
LEMMA SealTriple ==
  ASSUME NEW c, NEW a \in Vec, Fits(c, a, {}), NEW useStoredEk \in BOOLEAN
  PROVE  Triple(c, SealSeedToEk(useStoredEk), a, a)
<1> DEFINE ek == IF useStoredEk THEN <<HandleToEsys("ek")>> ELSE GenerateEkFromSpec(t)
           s1 == <<Start(t), PolicyCommandCode, GetDigest>>
           s2 == <<PolicySecret, Command>>
           load == <<PolicySecret, Create(t, "loaded")>>
           s3 == <<PolicyCommandCode, Command>>
           body == Cat(Cat(Cat(Cat(Cat(Cat(s1, Restart(t)), s2), Restart(t)), load), Restart(t)), s3)
<1>1. QuietSeq(s1) /\ QuietSeq(s2) /\ QuietSeq(s3) /\ QuietSeq(Restart(t))
  BY QuietInstructions, QuietTuples, QuietFunctions
<1>2. "loaded" \in Kind /\ "ek" \in Kind
  BY DEF Kind
<1>3. Triple(c, load, a, a)
  <2>1. Triple(c, <<PolicySecret>>, a, a) /\ Triple(c, <<Create(t, "loaded")>>, a, a)
    BY <1>2, Instructions DEF PolicySecret
  <2> QED
    BY <2>1, TupleTriples
<1>4. Triple(c, ek, a, a)
  <2>1. Triple(c, <<HandleToEsys("ek")>>, a, a)
    <3>1. Fits(c, a, {"open"})
      BY FitsMonotone
    <3> QED
      BY <3>1, Instructions
  <2>2. Triple(c, <<Create(t, "ek")>>, a, a)
    BY <1>2, Instructions
  <2> QED
    BY <2>1, <2>2 DEF GenerateEkFromSpec
<1>5. SealSeedToEk(useStoredEk) = Cat(Cat(ek, GetTssPcrSelection), <<WithSession(t, body)>>)
  BY Zenon DEF Cat, SealSeedToEk
<1> HIDE DEF ek, s1, s2, load, s3
<1>6. Triple(c, body, a, a)
  <2>1. Triple(c, Cat(Cat(Cat(s1, Restart(t)), s2), Restart(t)), a, a)
    BY <1>1, QuietCat, QuietTriple
  <2>2. Triple(c, Cat(Cat(Cat(Cat(s1, Restart(t)), s2), Restart(t)), load), a, a)
    BY <1>3, <2>1, Then
  <2>3. Triple(c, Restart(t), a, a) /\ Triple(c, s3, a, a)
    BY <1>1, QuietTriple
  <2>4. Triple(c, Cat(Cat(Cat(Cat(Cat(s1, Restart(t)), s2), Restart(t)), load), Restart(t)), a, a)
    BY <2>2, <2>3, Then
  <2> QED
    BY <2>3, <2>4, Then
<1> HIDE DEF body
<1>7. Triple(c, <<WithSession(t, body)>>, a, a)
  BY <1>6, Scopes
<1>8. Triple(c, GetTssPcrSelection, a, a)
  BY QuietFunctions, QuietTriple
<1>9. Triple(c, Cat(ek, GetTssPcrSelection), a, a)
  BY <1>4, <1>8, Then
<1> QED
  BY <1>5, <1>7, <1>9, Then

\* The test of sealing and unsealing
LEMMA ProcessUnsealTriple == Triple("unseal", process_unseal, Z, V(0, 0, 2))
<1> DEFINE c == "unseal"
           p == TestUtil_PopulateCurrentPcrs("sha256")
           seal1 == SealSeedToEk(TRUE)
           unseal1 == Unseal(FALSE)
           seal2 == SealSeedToEk(FALSE)
           unseal2 == UnsealWithEkFromSpec(FALSE)
           s == Cat(Cat(Cat(Cat(p, seal1), unseal1), seal2), unseal2)
<1>1. Z \in Vec /\ Fits(c, Z, {})
  BY ZeroFits
<1>2. Triple(c, p, Z, Z)
  BY <1>1, QuietFunctions, QuietTriple
<1>3. Triple(c, seal1, Z, Z)
  BY <1>1, SealTriple
<1>4. Triple(c, unseal1, Z, V(0, 0, 1)) /\ Triple(c, unseal2, V(0, 0, 1), V(0, 0, 2))
  <2>1. Triple(c, unseal1, V(0, 0, 0), V(0, 0, 0 + 1))
    BY UnsealTriples
  <2>2. Triple(c, unseal2, V(0, 0, 1), V(0, 0, 1 + 1))
    BY UnsealTriples
  <2>3. 0 + 1 = 1 /\ 1 + 1 = 2
    OBVIOUS
  <2>4. V(0, 0, 0 + 1) = V(0, 0, 1) /\ V(0, 0, 1 + 1) = V(0, 0, 2)
    BY Zenon, <2>3
  <2>5. Z = V(0, 0, 0)
    BY DEF Z
  <2> QED
    BY Zenon, <2>1, <2>2, <2>4, <2>5
<1>5. Triple(c, seal2, V(0, 0, 1), V(0, 0, 1))
  <2>1. V(0, 0, 1) \in Vec /\ V(0, 0, 1)["ephemeral"] = 0 /\ V(0, 0, 1)["ek"] = 0
    BY Vectors
  <2>2. Fits(c, V(0, 0, 1), {})
    BY <2>1 DEF Fits
  <2> QED
    BY <2>1, <2>2, SealTriple
<1>6. process_unseal = <<WithCtx(s)>>
  BY Zenon DEF Cat, process_unseal
<1> HIDE DEF c, p, seal1, unseal1, seal2, unseal2
<1>7. Triple(c, s, Z, V(0, 0, 2))
  <2>1. Triple(c, Cat(p, seal1), Z, Z)
    BY <1>2, <1>3, Then
  <2>2. Triple(c, Cat(Cat(p, seal1), unseal1), Z, V(0, 0, 1))
    BY <1>4, <2>1, Then
  <2>3. Triple(c, Cat(Cat(Cat(p, seal1), unseal1), seal2), Z, V(0, 0, 1))
    BY <1>5, <2>2, Then
  <2> QED
    BY <1>4, <2>3, Then
<1> HIDE DEF s
<1> QED
  BY <1>1, <1>6, <1>7, Scopes DEF c

\* What a call keeps when it succeeds
LEMMA KeptVectors ==
  /\ \A c : Kept(c) \in Vec
  /\ \A c : c \notin {"GetEkPubWithoutPersisting", "Unseal", "UnsealWithEkFromSpec", "unseal"} =>
       Kept(c) = Z
  /\ Kept("GetEkPubWithoutPersisting") = V(0, 1, 0)
  /\ Kept("Unseal") = V(0, 0, 1) /\ Kept("UnsealWithEkFromSpec") = V(0, 0, 1)
  /\ Kept("unseal") = V(0, 0, 2)
<1>1. \A c : Kept(c) \in Vec
  BY DEF Kept, KeptOnSuccess, Vec, Kind
<1>2. ASSUME NEW c, c \notin {"GetEkPubWithoutPersisting", "Unseal", "UnsealWithEkFromSpec", "unseal"}
      PROVE  Kept(c) = Z
  BY <1>2 DEF Kept, KeptOnSuccess, Z, V, Kind
<1>3. Kept("GetEkPubWithoutPersisting") = V(0, 1, 0)
  BY DEF Kept, KeptOnSuccess, V, Kind
<1>4. Kept("Unseal") = V(0, 0, 1) /\ Kept("UnsealWithEkFromSpec") = V(0, 0, 1)
  BY DEF Kept, KeptOnSuccess, V, Kind
<1>5. Kept("unseal") = V(0, 0, 2)
  BY DEF Kept, KeptOnSuccess, V, Kind
<1> QED
  BY <1>1, <1>2, <1>3, <1>4, <1>5

\* The tests that ask for the PCRs of every bank
LEMMA PcrTriples ==
  ASSUME NEW c PROVE Triple(c, process_get_pcrquote, Z, Z) /\ Triple(c, process_get_pcrvalues, Z, Z)
<1> DEFINE q == Cat(Cat(Cat(<<GetPcrCount>>, GetPCRQuote("sha1")), GetPCRQuote("sha256")),
                    GetPCRQuote("sha384"))
           v == Cat(Cat(Cat(<<GetPcrCount>>, GetPCRValues("sha1")), GetPCRValues("sha256")),
                    GetPCRValues("sha384"))
<1>1. Z \in Vec /\ Fits(c, Z, {})
  BY ZeroFits
<1>2. QuietSeq(<<GetPcrCount>>)
  BY QuietFunctions DEF GetPcrCount
<1>3. QuietSeq(q)
  BY <1>2, QuietFunctions, QuietCat
<1>4. QuietSeq(v)
  BY <1>2, QuietFunctions, QuietCat
<1>5. process_get_pcrquote = <<WithCtx(q)>> /\ process_get_pcrvalues = <<WithCtx(v)>>
  BY Zenon DEF Cat, process_get_pcrquote, process_get_pcrvalues
<1> HIDE DEF q, v
<1>6. Triple(c, q, Z, Z) /\ Triple(c, v, Z, Z)
  BY <1>1, <1>3, <1>4, QuietTriple
<1> QED
  BY <1>1, <1>5, <1>6, Scopes

\* Every operation of Tpm leaves what it is said to keep
LEMMA OperationTriples == \A name \in DOMAIN Tpm : Triple(name, Tpm[name], Z, Kept(name))
<1>1. \A c, s : QuietSeq(s) => Triple(c, s, Z, Z)
  BY ZeroFits, QuietTriple
<1>2. /\ QuietSeq(GetAIKCert) /\ QuietSeq(GetAIKPub) /\ QuietSeq(GetPCRQuote("sha256"))
      /\ QuietSeq(GetPCRValues("sha256")) /\ QuietSeq(GetTcgLog) /\ QuietSeq(GetEkNvCert)
      /\ QuietSeq(GetVersion) /\ QuietSeq(UnpackAiKPubToRSA) /\ QuietSeq(UnpackPcrQuoteToRSA)
      /\ QuietSeq(GetHCLReport)
  BY QuietFunctions DEF GetAIKCert, GetAIKPub, GetEkNvCert, GetHCLReport
<1>3. DOMAIN Tpm =
        {"GetAIKCert", "GetAIKPub", "GetPCRQuote", "GetPCRValues", "GetTcgLog", "GetEkNvCert",
         "GetVersion", "GetEkPubWithoutPersisting", "GetEkPub", "Unseal",
         "UnsealWithEkFromSpec", "RemovePersistentEk", "UnpackAiKPubToRSA",
         "UnpackPcrQuoteToRSA", "GetEphemeralKey", "DecryptWithEphemeralKey",
         "GetHCLReport", "GetEkPubWithCertification"}
  BY DEF Tpm
<1>4. ASSUME NEW name \in {"GetAIKCert", "GetAIKPub", "GetPCRQuote", "GetPCRValues", "GetTcgLog",
                          "GetEkNvCert", "GetVersion", "UnpackAiKPubToRSA", "UnpackPcrQuoteToRSA",
                          "GetHCLReport"}
      PROVE  Triple(name, Tpm[name], Z, Kept(name))
  <2>1. QuietSeq(Tpm[name])
    BY <1>2 DEF Tpm
  <2>2. Kept(name) = Z
    BY KeptVectors
  <2> QED
    BY <1>1, <2>1, <2>2
<1>5. ASSUME NEW name \in {"GetEkPub", "RemovePersistentEk", "GetEphemeralKey",
                          "DecryptWithEphemeralKey", "GetEkPubWithCertification"}
      PROVE  Triple(name, Tpm[name], Z, Kept(name))
  <2>1. Triple(name, Tpm[name], Z, Z)
    BY EkTriples, EphemeralTriples DEF Tpm
  <2>2. Kept(name) = Z
    BY KeptVectors
  <2> QED
    BY <2>1, <2>2
<1>6. ASSUME NEW name \in {"GetEkPubWithoutPersisting"}
      PROVE  Triple(name, Tpm[name], Z, Kept(name))
  BY EkTriples, KeptVectors DEF Tpm
<1>7. ASSUME NEW name \in {"Unseal", "UnsealWithEkFromSpec"}
      PROVE  Triple(name, Tpm[name], Z, Kept(name))
  <2>1. 0 \in Nat /\ 0 + 1 = 1 /\ Z = V(0, 0, 0)
    BY DEF Z
  <2>2. Triple("Unseal", Unseal(TRUE), V(0, 0, 0), V(0, 0, 0 + 1))
    BY UnsealTriples
  <2>3. Triple("UnsealWithEkFromSpec", UnsealWithEkFromSpec(TRUE), V(0, 0, 0), V(0, 0, 0 + 1))
    BY UnsealTriples
  <2>4. /\ Triple("Unseal", Unseal(TRUE), Z, V(0, 0, 1))
        /\ Triple("UnsealWithEkFromSpec", UnsealWithEkFromSpec(TRUE), Z, V(0, 0, 1))
    BY Zenon, <2>1, <2>2, <2>3
  <2>5. Kept(name) = V(0, 0, 1)
    BY KeptVectors
  <2>6. Tpm["Unseal"] = Unseal(TRUE) /\ Tpm["UnsealWithEkFromSpec"] = UnsealWithEkFromSpec(TRUE)
    BY DEF Tpm
  <2> QED
    BY <2>4, <2>5, <2>6
<1> QED
  BY <1>3, <1>4, <1>5, <1>6, <1>7

\* And every test
LEMMA TestTriples == \A name \in Test : Triple(name, g_tests[name], Z, Kept(name))
<1>1. \A c, s : QuietSeq(s) => Triple(c, s, Z, Z)
  BY ZeroFits, QuietTriple
<1>2. ASSUME NEW name \in {"tpmversion", "ekcert", "aikpub", "aikcert", "tcglog"}
      PROVE  Triple(name, g_tests[name], Z, Kept(name))
  <2>1. QuietSeq(GetVersion) /\ QuietSeq(GetEkNvCert) /\ QuietSeq(GetAIKPub) /\ QuietSeq(GetAIKCert)
        /\ QuietSeq(GetTcgLog)
    BY QuietFunctions DEF GetAIKCert, GetAIKPub, GetEkNvCert
  <2>2. QuietSeq(g_tests[name])
    BY <2>1 DEF g_tests, process_get_tpmversion, process_get_ekcert, process_get_aikpub,
       process_get_aikcert, process_get_tcglog
  <2>3. Kept(name) = Z
    BY KeptVectors
  <2> QED
    BY <1>1, <2>2, <2>3
<1>3. ASSUME NEW name \in {"ekpub", "generateek", "certifyek", "pcrquote", "pcrvalues"}
      PROVE  Triple(name, g_tests[name], Z, Kept(name))
  <2>1. Triple(name, g_tests[name], Z, Z)
    BY EkTriples, PcrTriples DEF g_tests, process_get_ekpub, process_get_certifiedek
  <2>2. Kept(name) = Z
    BY KeptVectors
  <2> QED
    BY <2>1, <2>2
<1>4. Triple("unseal", g_tests["unseal"], Z, Kept("unseal"))
  BY ProcessUnsealTriple, KeptVectors DEF g_tests
<1> QED
  BY <1>2, <1>3, <1>4 DEF Test

-----------------------------------------------------------------------------
(* The inductive invariant *)

Owed == process = "running" /\ call # "none" => Balanced(call, code, Extra, raised, failed)
ObjectsTyped == objects \in [Ctx -> [Kind -> 0..Slots]]

BalanceInv ==
  /\ TypeOK
  /\ process = "new" => call = "none"
  /\ Owed

\* The call at its next instruction
LEMMA Ready ==
  ASSUME Inv, BalanceInv, process = "running", code # << >>
  PROVE  /\ code \in Seq(Instruction) /\ Head(code) = code[1] /\ code[1] \in Instruction
         /\ << >> \o Tail(code) = Tail(code)
         /\ call # "none" /\ Balanced(call, code, Extra, raised, failed)
         /\ raised \in BOOLEAN
<1>1. code \in Seq(Instruction) /\ call # "none"
  BY DEF Inv, WellFormed
<1>2. Head(code) = code[1] /\ code[1] \in Instruction /\ << >> \o Tail(code) = Tail(code)
  BY <1>1
<1> QED
  BY <1>1, <1>2 DEF BalanceInv, Owed, TypeOK

\* A step that leaves the objects of the call's own connection alone
LEMMA Owing ==
  ASSUME call' = call, before' = before, objects'[g] = objects[g],
         Balanced(call, code', Extra, raised', failed')
  PROVE  Owed'
<1>1. Extra' = Extra
  BY DEF Extra
<1>2. Balanced(call', code', Extra', raised', failed')
  BY <1>1
<1> QED
  BY <1>2 DEF Owed

\* The connection an instruction names
LEMMA Contexts ==
  ASSUME NEW x \in Instruction, x.op \in {"create", "flush_object", "close_session"}
  PROVE  x.ctx \in Ctx
<1>1. g \in Ctx /\ t \in Ctx
  BY DEF g, t, Ctx
<1>2. ASSUME NEW C, C \subseteq Ctx, NEW y \in Plain(C), y.op \in {"create", "flush_object"}
      PROVE  y.ctx \in Ctx
  BY <1>2 DEF Plain
<1>3. CASE x.op \in {"create", "flush_object"}
  <2>1. \/ x \in Plain(Ctx) \/ x \in Plain({g}) \/ x \in Plain({t})
    BY <1>3 DEF Instruction, Outside, Function, Inside, Body, Policy, Conditional, OuterTry,
       InnerTry, TryEnd, Session, SessionEnd, Connection, CtxEnd
  <2> QED
    BY <1>1, <1>2, <1>3, <2>1
<1>4. CASE x.op = "close_session"
  BY <1>4, SessionEnds
<1> QED
  BY <1>3, <1>4

\* Requests that leave the objects alone
LEMMA RequestsOwe ==
  ASSUME Inv, BalanceInv, DoCommand \/ DoSelect \/ DoOpen \/ DoRethrow \/ DoEvictControl \/ DoStart \/ DoFlush
  PROVE  Owed' /\ ObjectsTyped'
<1>1. /\ process = "running" /\ code # << >>
      /\ UNCHANGED <<call, before, objects>>
  BY DEF DoCommand, DoSelect, DoOpen, DoRethrow, DoEvictControl, DoStart, DoFlush, At, Caller
<1>2. /\ code \in Seq(Instruction) /\ Head(code) = code[1] /\ << >> \o Tail(code) = Tail(code)
      /\ Balanced(call, code, Extra, raised, failed)
  BY <1>1, Ready
<1>3. \/ /\ Head(code).op \in CalmOps \ {"rethrow"} /\ Proceed(<< >>) /\ UNCHANGED failed
         /\ Head(code).op = "evict_control" => Head(code).handle # "0"
      \/ /\ Head(code).op \in CalmOps \ {"select"} /\ Throw /\ failed \subseteq failed'
         /\ Head(code).op = "open" => "open" \in failed'
  BY DEF DoCommand, DoSelect, DoOpen, DoRethrow, DoEvictControl, DoStart, DoFlush, At, ThrowFor, CalmOps
<1>4. ObjectsTyped'
  BY <1>1 DEF BalanceInv, TypeOK, ObjectsTyped
<1>5. CASE /\ Head(code).op \in CalmOps \ {"rethrow"} /\ Proceed(<< >>) /\ UNCHANGED failed
           /\ Head(code).op = "evict_control" => Head(code).handle # "0"
  <2>1. code' = Tail(code) /\ raised' = FALSE /\ failed' = failed
    BY <1>2, <1>5 DEF Proceed
  <2>2. Balanced(call, Tail(code), Extra, FALSE, failed)
    BY <1>1, <1>2, <1>5, GoesOn
  <2> QED
    BY <1>1, <1>4, <2>1, <2>2, Owing
<1>6. CASE /\ Head(code).op \in CalmOps \ {"select"} /\ Throw /\ failed \subseteq failed'
           /\ Head(code).op = "open" => "open" \in failed'
  <2>1. code' = Unwind(Tail(code)) /\ raised' = TRUE
    BY <1>6 DEF Throw
  <2>2. Head(code).op # "flush_object"
    BY <1>6 DEF CalmOps
  <2>3. Balanced(call, Unwind(Tail(code)), Extra, TRUE, failed')
    BY <1>1, <1>2, <1>6, <2>2, Aborts
  <2> QED
    BY <1>1, <1>4, <2>1, <2>3, Owing
<1> QED
  BY <1>3, <1>5, <1>6

\* Reading the PCRs, over and over
LEMMA PcrReadOwes == ASSUME Inv, BalanceInv, DoPcrRead PROVE Owed' /\ ObjectsTyped'
<1>1. /\ process = "running" /\ code # << >> /\ Head(code).op = "pcr_read"
      /\ UNCHANGED <<call, before, objects, failed>>
  BY DEF DoPcrRead, At, Caller
<1>2. /\ code \in Seq(Instruction) /\ Head(code) = code[1] /\ << >> \o Tail(code) = Tail(code)
      /\ Balanced(call, code, Extra, raised, failed)
  BY <1>1, Ready
<1>3. ObjectsTyped'
  BY <1>1 DEF BalanceInv, TypeOK, ObjectsTyped
<1>4. Head(code).op \in CalmOps \ {"rethrow", "select"}
  BY <1>1 DEF CalmOps
<1>5. ~raised /\ Balanced(call, Tail(code), Extra, FALSE, failed)
  BY <1>1, <1>2, <1>4, GoesOn
<1>6. Balanced(call, Unwind(Tail(code)), Extra, TRUE, failed)
  BY <1>1, <1>2, <1>4, Aborts
<1>7. \/ code' = code /\ raised' = FALSE
      \/ code' = Tail(code) /\ raised' = FALSE
      \/ code' = Unwind(Tail(code)) /\ raised' = TRUE
  <2>1. \/ code' = <<Head(code)>> \o Tail(code) /\ raised' = FALSE
        \/ code' = << >> \o Tail(code) /\ raised' = FALSE
        \/ code' = Unwind(Tail(code)) /\ raised' = TRUE
    BY DEF DoPcrRead, Proceed, Throw
  <2>2. <<Head(code)>> \o Tail(code) = code
    BY <1>1, <1>2
  <2> QED
    BY <1>2, <2>1, <2>2
<1>8. raised = FALSE
  BY <1>5 DEF BalanceInv, TypeOK
<1>9. Balanced(call, code', Extra, raised', failed')
  BY <1>1, <1>2, <1>5, <1>6, <1>7, <1>8
<1> QED
  BY <1>1, <1>3, <1>9, Owing

\* Scopes are entered, and handlers
LEMMA ScopesOwe ==
  ASSUME Inv, BalanceInv, DoIfOpens \/ DoTry \/ DoEndTry \/ DoSession \/ DoConnect
  PROVE  Owed' /\ ObjectsTyped'
<1>1. /\ process = "running" /\ code # << >>
      /\ UNCHANGED <<call, before, objects, failed>>
  BY DEF DoIfOpens, DoTry, DoEndTry, DoSession, DoConnect, At, Caller
<1>2. /\ code \in Seq(Instruction) /\ Head(code) = code[1] /\ << >> \o Tail(code) = Tail(code)
      /\ Balanced(call, code, Extra, raised, failed)
  BY <1>1, Ready
<1>3. ObjectsTyped'
  BY <1>1 DEF BalanceInv, TypeOK, ObjectsTyped
<1>4. ASSUME DoIfOpens PROVE Balanced(call, code', Extra, raised', failed')
  <2>1. /\ Head(code).op = "if_opens" /\ raised' = FALSE
        /\ code' = Cat(Head(code).body, Tail(code)) \/ code' = << >> \o Tail(code)
    BY <1>4 DEF DoIfOpens, At, Proceed, Cat
  <2> QED
    BY <1>1, <1>2, <2>1, Branches
<1>5. ASSUME DoTry PROVE Balanced(call, code', Extra, raised', failed')
  <2>1. /\ Head(code).op = "try" /\ raised' = FALSE
        /\ code' = Cat(Cat(Head(code).body, <<EndTry(Head(code).handler)>>), Tail(code))
    BY <1>5 DEF DoTry, At, Proceed, Cat
  <2> QED
    BY <1>1, <1>2, <2>1, Tries
<1>6. ASSUME DoEndTry PROVE Balanced(call, code', Extra, raised', failed')
  <2>1. /\ Head(code).op = "end_try" /\ raised' = FALSE
        /\ code' = Cat(Head(code).handler, Tail(code)) \/ code' = << >> \o Tail(code)
    BY <1>6 DEF DoEndTry, At, Proceed, Cat
  <2> QED
    BY <1>1, <1>2, <2>1, EndsTry
<1>7. ASSUME DoSession PROVE Balanced(call, code', Extra, raised', failed')
  <2>1. /\ Head(code).op = "session" /\ raised' = FALSE
        /\ code' = Cat(Cat(Head(code).body, <<CloseSession(Head(code).ctx)>>), Tail(code))
    BY <1>7 DEF DoSession, At, Proceed, Cat, EndSession
  <2> QED
    BY <1>1, <1>2, <2>1, Enters
<1>8. ASSUME DoConnect PROVE Balanced(call, code', Extra, raised', failed')
  <2>1. /\ Head(code).op = "connect"
        /\ \/ raised' = FALSE /\ code' = Cat(Cat(Head(code).body, <<CloseCtx>>), Tail(code))
           \/ raised' = TRUE /\ code' = Unwind(Tail(code))
    BY <1>8 DEF DoConnect, At, Proceed, Throw, Cat
  <2>2. Balanced(call, Cat(Cat(Head(code).body, <<CloseCtx>>), Tail(code)), Extra, FALSE, failed)
    BY <1>1, <1>2, <2>1, Enters
  <2>3. Balanced(call, Unwind(Tail(code)), Extra, TRUE, failed)
    BY <1>1, <1>2, <2>1, Aborts
  <2> QED
    BY <1>1, <2>1, <2>2, <2>3
<1> QED
  BY <1>1, <1>3, <1>4, <1>5, <1>6, <1>7, <1>8, Owing

\* Scopes are left, or the process ends in a destructor
LEMMA DestructorsOwe ==
  ASSUME Inv, BalanceInv, DoCloseSession \/ DoCloseCtx
  PROVE  Owed' /\ ObjectsTyped'
<1>1. /\ process = "running" /\ code # << >> /\ Head(code).op \in {"close_session", "close_ctx"}
      /\ UNCHANGED <<call, before, failed>>
  BY DEF DoCloseSession, DoCloseCtx, At, Caller
<1>2. /\ code \in Seq(Instruction) /\ Head(code) = code[1] /\ raised \in BOOLEAN
      /\ Balanced(call, code, Extra, raised, failed)
  BY <1>1, Ready
<1>3. Balanced(call, IF raised THEN Unwind(Tail(code)) ELSE Tail(code), Extra, raised, failed)
  BY <1>1, <1>2, Leaves
<1>4. None \in [Kind -> 0..Slots]
  BY ConstantsAssumption DEF None
<1>5. CASE Terminate
  <2>1. Owed'
    BY <1>5 DEF Terminate, Owed
  <2>2. ObjectsTyped'
    BY <1>4, <1>5 DEF Terminate, ObjectsTyped
  <2> QED
    BY <2>1, <2>2
<1>6. CASE GoOn /\ (objects' = objects \/ objects' = [objects EXCEPT ![t] = None])
  <2>1. code' = (IF raised THEN Unwind(Tail(code)) ELSE Tail(code)) /\ raised' = raised
    BY <1>6 DEF GoOn
  <2>2. objects'[g] = objects[g]
    <3>1. g # t /\ g \in Ctx /\ t \in Ctx
      BY DEF g, t, Ctx
    <3>2. DOMAIN objects = Ctx
      BY DEF Inv, ObjectsScoped
    <3> QED
      BY <1>6, <3>1, <3>2
  <2>3. ObjectsTyped'
    BY <1>4, <1>6 DEF BalanceInv, TypeOK, ObjectsTyped
  <2> QED
    BY <1>1, <1>3, <2>1, <2>2, <2>3, Owing
<1> QED
  BY <1>5, <1>6 DEF DoCloseSession, DoCloseCtx

\* Creating an object: there is room for it, and the call has one more
LEMMA CreateOwes == ASSUME Inv, BalanceInv, DoCreate PROVE Owed' /\ ObjectsTyped'
<1> DEFINE x == code[1]
<1>1. /\ process = "running" /\ code # << >> /\ Head(code).op = "create"
      /\ UNCHANGED <<call, before, failed>>
  BY DEF DoCreate, At, Caller
<1>2. /\ code \in Seq(Instruction) /\ Head(code) = x /\ x \in Instruction
      /\ << >> \o Tail(code) = Tail(code) /\ Balanced(call, code, Extra, raised, failed)
  BY <1>1, Ready
<1>3. objects \in [Ctx -> [Kind -> 0..Slots]] /\ before \in [Kind -> 0..Slots] /\ Slots \in Nat
  BY ConstantsAssumption DEF BalanceInv, TypeOK
<1>4. x.ctx \in Ctx
  BY <1>1, <1>2, Contexts
<1>5. /\ x.kind \in Kind
      /\ x.ctx = g => Balanced(call, Tail(code), Plus(Extra, x.kind), FALSE, failed)
      /\ x.ctx # g => Balanced(call, Tail(code), Extra, FALSE, failed)
  BY <1>1, <1>2, Creates
<1>6. CASE Throw /\ UNCHANGED objects
  <2>1. code' = Unwind(Tail(code)) /\ raised' = TRUE
    BY <1>6 DEF Throw
  <2>2. Balanced(call, Unwind(Tail(code)), Extra, TRUE, failed)
    BY <1>1, <1>2, Aborts
  <2> QED
    BY <1>1, <1>3, <1>6, <2>1, <2>2, Owing DEF ObjectsTyped
<1>7. CASE /\ Used(x.ctx) < Slots
           /\ objects' = [objects EXCEPT ![x.ctx][x.kind] = @ + 1]
           /\ Proceed(<< >>)
  <2>1. code' = Tail(code) /\ raised' = FALSE
    BY <1>2, <1>7 DEF Proceed
  <2> HIDE DEF x
  <2> DEFINE o == objects[x.ctx]
  <2>2. o \in [Kind -> 0..Slots] /\ objects' = [objects EXCEPT ![x.ctx] = [o EXCEPT ![x.kind] = @ + 1]]
    BY <1>3, <1>4, <1>7
  <2>3. o["ephemeral"] + o["ek"] + o["loaded"] < Slots
    BY <1>7 DEF Used
  <2> HIDE DEF o
  <2>4. o[x.kind] + 1 \in 0..Slots
    <3>1. o["ephemeral"] \in Nat /\ o["ek"] \in Nat /\ o["loaded"] \in Nat
      BY <1>3, <2>2 DEF Kind
    <3>2. x.kind = "ephemeral" \/ x.kind = "ek" \/ x.kind = "loaded"
      BY <1>5 DEF Kind
    <3>3. o[x.kind] \in Nat /\ o[x.kind] < Slots
      BY <1>3, <2>3, <3>1, <3>2
    <3> QED
      BY <1>3, <3>3
  <2>5. [o EXCEPT ![x.kind] = @ + 1] \in [Kind -> 0..Slots]
    BY <1>5, <2>2, <2>4
  <2>6. ObjectsTyped'
    BY <1>3, <1>4, <2>2, <2>5 DEF ObjectsTyped
  <2>7. CASE x.ctx = g
    <3>1. objects'[g] = [o EXCEPT ![x.kind] = @ + 1]
      BY <1>3, <1>4, <2>2, <2>7
    <3>2. Extra = [kind \in Kind |-> o[kind] - before[kind]]
      BY <2>7 DEF Extra, o
    <3>3. Extra' = [kind \in Kind |-> objects'[g][kind] - before[kind]]
      BY <1>1 DEF Extra
    <3>4. Extra' = Plus(Extra, x.kind)
      <4>1. ASSUME NEW kind \in Kind PROVE Extra'[kind] = Plus(Extra, x.kind)[kind]
        <5>1. o[kind] \in Int /\ before[kind] \in Int
          BY <1>3, <2>2
        <5>2. Extra'[kind] = (IF kind = x.kind THEN o[kind] + 1 ELSE o[kind]) - before[kind]
          BY <1>5, <2>2, <3>1, <3>3
        <5>3. Plus(Extra, x.kind)[kind] = IF kind = x.kind THEN o[kind] - before[kind] + 1
                                         ELSE o[kind] - before[kind]
          BY <1>5, <3>2 DEF Plus
        <5> QED
          BY <5>1, <5>2, <5>3
      <4>2. Plus(Extra, x.kind) = [kind \in Kind |-> Plus(Extra, x.kind)[kind]]
        BY <3>2 DEF Plus
      <4>3. Extra' = [kind \in Kind |-> Extra'[kind]]
        BY <3>3
      <4> QED
        BY <4>1, <4>2, <4>3
    <3>5. Balanced(call', code', Extra', raised', failed')
      BY <1>1, <1>5, <2>1, <2>7, <3>4
    <3> QED
      BY <2>6, <3>5 DEF Owed
  <2>8. CASE x.ctx # g
    <3>1. objects'[g] = objects[g]
      BY <1>3, <2>2, <2>8
    <3> QED
      BY <1>1, <1>5, <2>1, <2>6, <2>8, <3>1, Owing
  <2> QED
    BY <2>7, <2>8
<1> QED
  BY <1>2, <1>6, <1>7 DEF DoCreate

\* Flushing one: it is there, and the call made it
LEMMA FlushObjectOwes == ASSUME Inv, BalanceInv, DoFlushObject PROVE Owed' /\ ObjectsTyped'
<1> DEFINE x == code[1]
<1>1. /\ process = "running" /\ code # << >> /\ Head(code).op = "flush_object"
      /\ UNCHANGED <<call, before>>
  BY DEF DoFlushObject, At, Caller
<1>2. /\ code \in Seq(Instruction) /\ Head(code) = x
      /\ << >> \o Tail(code) = Tail(code) /\ Balanced(call, code, Extra, raised, failed)
  BY <1>1, Ready
<1>3. objects \in [Ctx -> [Kind -> 0..Slots]] /\ before \in [Kind -> 0..Slots] /\ Slots \in Nat
  BY ConstantsAssumption DEF BalanceInv, TypeOK
<1>4. /\ x.kind \in Kind /\ x.ctx = g /\ Extra[x.kind] > 0
      /\ Balanced(call, Tail(code), Minus(Extra, x.kind), FALSE, failed)
  BY <1>1, <1>2, FlushesObject
<1>5. CASE ThrowFor("flush") /\ UNCHANGED objects
  <2>1. code' = Unwind(Tail(code)) /\ raised' = TRUE /\ failed \subseteq failed' /\ "flush" \in failed'
    BY <1>5 DEF ThrowFor, Throw
  <2>2. Balanced(call, Unwind(Tail(code)), Extra, TRUE, failed')
    BY <1>1, <1>2, <2>1, Aborts
  <2> QED
    BY <1>1, <1>3, <1>5, <2>1, <2>2, Owing DEF ObjectsTyped
<1>6. CASE /\ objects' = [objects EXCEPT ![x.ctx][x.kind] = @ - 1]
           /\ Proceed(<< >>) /\ UNCHANGED failed
  <2>1. code' = Tail(code) /\ raised' = FALSE /\ failed' = failed
    BY <1>2, <1>6 DEF Proceed
  <2> HIDE DEF x
  <2> DEFINE o == objects[g]
  <2>2. o \in [Kind -> 0..Slots] /\ objects' = [objects EXCEPT ![g] = [o EXCEPT ![x.kind] = @ - 1]]
    BY <1>3, <1>4, <1>6 DEF g, Ctx
  <2>3. Extra = [kind \in Kind |-> o[kind] - before[kind]]
    BY DEF Extra
  <2> HIDE DEF o
  <2>4. o[x.kind] - 1 \in 0..Slots
    <3>1. o[x.kind] \in 0..Slots /\ before[x.kind] \in 0..Slots
      BY <1>3, <1>4, <2>2
    <3>2. o[x.kind] - before[x.kind] > 0
      BY <1>4, <2>3
    <3> QED
      BY <1>3, <3>1, <3>2
  <2>5. [o EXCEPT ![x.kind] = @ - 1] \in [Kind -> 0..Slots]
    BY <1>4, <2>2, <2>4
  <2>6. ObjectsTyped'
    BY <1>3, <2>2, <2>5 DEF ObjectsTyped
  <2>7. objects'[g] = [o EXCEPT ![x.kind] = @ - 1]
    BY <1>3, <2>2 DEF g, Ctx
  <2>8. Extra' = [kind \in Kind |-> objects'[g][kind] - before[kind]]
    BY <1>1 DEF Extra
  <2>9. Extra' = Minus(Extra, x.kind)
    <3>1. ASSUME NEW kind \in Kind PROVE Extra'[kind] = Minus(Extra, x.kind)[kind]
      <4>1. o[kind] \in Int /\ before[kind] \in Int
        BY <1>3, <2>2
      <4>2. Extra'[kind] = (IF kind = x.kind THEN o[kind] - 1 ELSE o[kind]) - before[kind]
        BY <1>4, <2>2, <2>7, <2>8
      <4>3. Minus(Extra, x.kind)[kind] = IF kind = x.kind THEN o[kind] - before[kind] - 1
                                         ELSE o[kind] - before[kind]
        BY <1>4, <2>3 DEF Minus
      <4> QED
        BY <4>1, <4>2, <4>3
    <3>2. Minus(Extra, x.kind) = [kind \in Kind |-> Minus(Extra, x.kind)[kind]]
      BY <2>3 DEF Minus
    <3>3. Extra' = [kind \in Kind |-> Extra'[kind]]
      BY <2>8
    <3> QED
      BY <3>1, <3>2, <3>3
  <2>10. Balanced(call', code', Extra', raised', failed')
    BY <1>1, <1>4, <2>1, <2>9
  <2> QED
    BY <2>6, <2>10 DEF Owed
<1> QED
  BY <1>2, <1>5, <1>6 DEF DoFlushObject

\* A call begins with nothing of its own
LEMMA BeginOwes ==
  ASSUME Inv, BalanceInv, NEW name, NEW script, Triple(name, script, Z, Kept(name)),
         Begin(name, script), UNCHANGED objects
  PROVE  Owed'
<1>1. objects \in [Ctx -> [Kind -> 0..Slots]] /\ g \in Ctx
  BY DEF BalanceInv, TypeOK, g, Ctx
<1>2. \A kind \in Kind : objects[g][kind] \in Int
  BY <1>1, ConstantsAssumption
<1>3. Extra' = [kind \in Kind |-> objects[g][kind] - objects[g][kind]]
  BY DEF Extra, Begin
<1>4. \A kind \in Kind : objects[g][kind] - objects[g][kind] = 0
  BY <1>2
<1>5. Extra' = Z
  BY <1>3, <1>4 DEF Z, V
<1>6. Z \in Vec
  BY ZeroFits
<1>7. Balanced(name, script, Z, FALSE, {})
  BY <1>6 DEF Balanced, Running
<1>8. call' = name /\ code' = script /\ raised' = FALSE /\ failed' = {}
  BY DEF Begin
<1>9. Balanced(call', code', Extra', raised', failed')
  BY <1>5, <1>7, <1>8
<1> QED
  BY <1>9 DEF Owed

\* The process
LEMMA ProcessOwes ==
  ASSUME Inv, BalanceInv, Connect \/ CallTpm \/ process_command \/ Continue \/ Return \/ main \/ Exited
  PROVE  Owed' /\ ObjectsTyped'
<1>1. objects \in [Ctx -> [Kind -> 0..Slots]]
  BY DEF BalanceInv, TypeOK
<1>2. CASE CallTpm
  <2>1. PICK name \in DOMAIN Tpm : Begin(name, Tpm[name])
    BY <1>2 DEF CallTpm
  <2>2. Triple(name, Tpm[name], Z, Kept(name))
    BY OperationTriples
  <2>3. objects' = objects
    BY <1>2 DEF CallTpm
  <2> DEFINE script == Tpm[name]
  <2>4. Triple(name, script, Z, Kept(name)) /\ Begin(name, script)
    BY <2>1, <2>2
  <2> HIDE DEF script
  <2>5. Owed'
    BY <2>3, <2>4, BeginOwes
  <2> QED
    BY <1>1, <2>3, <2>5 DEF ObjectsTyped
<1>3. CASE process_command
  <2> DEFINE name == Head(todo)
             script == g_tests[name]
  <2>1. mode # "library" /\ todo # << >> /\ Begin(name, script) /\ objects' = objects
    BY <1>3 DEF process_command
  <2>2. name \in Test
    <3>1. todo \in Seq(Test)
      BY <2>1 DEF Inv
    <3> QED
      BY <2>1, <3>1
  <2> HIDE DEF name
  <2>3. Triple(name, script, Z, Kept(name))
    BY <2>2, TestTriples
  <2> HIDE DEF script
  <2>4. Owed'
    BY <2>1, <2>3, BeginOwes
  <2> QED
    BY <1>1, <2>1, <2>4 DEF ObjectsTyped
<1>4. CASE main
  <2>1. process' # "running"
    BY <1>4 DEF main, ExitStatus
  <2>2. None \in [Kind -> 0..Slots]
    BY ConstantsAssumption DEF None
  <2> QED
    BY <1>4, <2>1, <2>2 DEF main, Owed, ObjectsTyped
<1>5. CASE Connect
  <2>1. call' = "none" /\ objects' = objects
    BY <1>5 DEF Connect, BalanceInv
  <2> QED
    BY <1>1, <2>1 DEF Owed, ObjectsTyped
<1>6. CASE Continue
  <2>1. call' = "none" /\ objects' = objects
    BY <1>6 DEF Continue, Idle
  <2> QED
    BY <1>1, <2>1 DEF Owed, ObjectsTyped
<1>7. CASE Return
  <2>1. call' = "none" /\ objects' = objects
    BY <1>7 DEF Return
  <2> QED
    BY <1>1, <2>1 DEF Owed, ObjectsTyped
<1>8. CASE Exited
  <2>1. process' = process /\ process # "running" /\ objects' = objects
    BY <1>8 DEF Exited, vars
  <2> QED
    BY <1>1, <2>1 DEF Owed, ObjectsTyped
<1> QED
  BY <1>2, <1>3, <1>4, <1>5, <1>6, <1>7, <1>8

-----------------------------------------------------------------------------
(* Types *)

\* TypeOK without the objects and the sessions
Types ==
  /\ mode \in Mode
  /\ raised \in BOOLEAN /\ succeeded \in BOOLEAN
  /\ persistent \subseteq {"ek", "aik"}
  /\ banks \in BankSets
  /\ unread \in 0..Pcrs /\ odd \in BOOLEAN
  /\ failed \subseteq {"open", "flush"}
  /\ process \in {"new", "running", "terminated", "0", "1"}

\* They hold after every step
LEMMA TypesStep == ASSUME Types, [Next]_vars PROVE Types'
<1>1. ASSUME DoCommand PROVE Types'
  BY <1>1 DEF DoCommand, Proceed, Throw, Caller, Types
<1>2. ASSUME DoSelect PROVE Types'
  <2>1. unread' \in 0..Pcrs
    BY <1>2, ConstantsAssumption DEF DoSelect
  <2> QED
    BY <1>2, <2>1 DEF DoSelect, Proceed, Caller, Types
<1>3. ASSUME DoOpen PROVE Types'
  BY <1>3 DEF DoOpen, Proceed, ThrowFor, Throw, Caller, Types
<1>4. ASSUME DoIfOpens PROVE Types'
  BY <1>4 DEF DoIfOpens, Proceed, Caller, Types
<1>5. ASSUME DoTry PROVE Types'
  BY <1>5 DEF DoTry, Proceed, Caller, Types
<1>6. ASSUME DoEndTry PROVE Types'
  BY <1>6 DEF DoEndTry, Proceed, Caller, Types
<1>7. ASSUME DoRethrow PROVE Types'
  BY <1>7 DEF DoRethrow, Throw, Caller, Types
<1>8. ASSUME DoCreate PROVE Types'
  BY <1>8 DEF DoCreate, Proceed, Throw, Caller, Types
<1>9. ASSUME DoFlushObject PROVE Types'
  BY <1>9 DEF DoFlushObject, Proceed, ThrowFor, Throw, Caller, Types
<1>10. ASSUME DoEvictControl PROVE Types'
  BY <1>10 DEF DoEvictControl, Proceed, Throw, Caller, Types
<1>11. ASSUME DoStart PROVE Types'
  BY <1>11 DEF DoStart, Proceed, Throw, Caller, Types
<1>12. ASSUME DoFlush PROVE Types'
  BY <1>12 DEF DoFlush, Proceed, Throw, Caller, Types
<1>13. ASSUME DoSession PROVE Types'
  BY <1>13 DEF DoSession, Proceed, Caller, Types
<1>14. ASSUME DoCloseSession PROVE Types'
  BY <1>14 DEF DoCloseSession, GoOn, Terminate, Caller, Types
<1>15. ASSUME DoConnect PROVE Types'
  BY <1>15 DEF DoConnect, Proceed, Throw, Caller, Types
<1>16. ASSUME DoCloseCtx PROVE Types'
  BY <1>16 DEF DoCloseCtx, GoOn, Caller, Types
<1>17. ASSUME DoPcrRead PROVE Types'
  <2>1. unread \in 0..Pcrs /\ Pcrs \in Nat
    BY ConstantsAssumption DEF Types
  <2>2. unread' \in 0..Pcrs
    <3>1. CASE UNCHANGED unread
      BY <2>1, <3>1
    <3>2. CASE \E n \in 0..unread : unread' = unread - n
      BY <2>1, <3>2
    <3>3. (UNCHANGED unread) \/ \E n \in 0..unread : unread' = unread - n
      <4>1. 0 \in 0..unread /\ 1..unread \subseteq 0..unread
        BY <2>1
      <4> QED
        BY <1>17, <4>1 DEF DoPcrRead
    <3> QED
      BY <3>1, <3>2, <3>3
  <2>3. raised' \in BOOLEAN /\ odd' \in BOOLEAN
    BY <1>17 DEF DoPcrRead, Proceed, Throw
  <2>4. UNCHANGED <<mode, succeeded, persistent, banks, failed, process>>
    BY <1>17 DEF DoPcrRead, Caller
  <2> QED
    BY <2>2, <2>3, <2>4 DEF Types
<1>18. ASSUME Connect \/ CallTpm \/ process_command \/ Continue PROVE Types'
  BY <1>18 DEF Connect, CallTpm, process_command, Continue, Begin, Types
<1>19. ASSUME Return PROVE Types'
  BY <1>19 DEF Return, Types
<1>20. ASSUME main PROVE Types'
  <2>1. process' \in {"0", "1"}
    BY <1>20 DEF main, ExitStatus
  <2> QED
    BY <1>20, <2>1 DEF main, Types
<1>21. ASSUME Exited \/ UNCHANGED vars PROVE Types'
  BY <1>21 DEF Exited, vars, Types
<1> QED
  BY <1>1, <1>2, <1>3, <1>4, <1>5, <1>6, <1>7, <1>8, <1>9, <1>10, <1>11, <1>12, <1>13, <1>14, <1>15, <1>16, <1>17, <1>18, <1>19, <1>20, <1>21 DEF Next, Step

-----------------------------------------------------------------------------
(* What the invariant says *)

\* The types with the objects and the sessions
LEMMA TypeOKParts ==
  ASSUME Types, ObjectsTyped, SessionsScoped, before \in [Kind -> 0..Slots]
  PROVE  TypeOK
<1>1. sessions \in [Ctx -> Nat] /\ session \in [Ctx -> BOOLEAN]
  BY DEF SessionsScoped
<1> QED
  BY <1>1 DEF Types, ObjectsTyped, TypeOK

\* Objects before a call
LEMMA BeforeTyped ==
  ASSUME TypeOK, [Next]_vars PROVE before' \in [Kind -> 0..Slots]
<1>1. before' = before \/ before' = objects[g]
  BY DEF Next, Step, DoCommand, DoSelect, DoOpen, DoIfOpens, DoTry, DoEndTry, DoRethrow, DoCreate,
     DoFlushObject, DoEvictControl, DoStart, DoFlush, DoSession, DoCloseSession, DoConnect,
     DoCloseCtx, DoPcrRead, Return, process_command, Continue, CallTpm, Connect, main, Exited, vars,
     Caller, Begin
<1>2. g \in Ctx
  BY DEF g, Ctx
<1> QED
  BY <1>1, <1>2 DEF TypeOK

\* The invariant holds at first
LEMMA InitBalanced == ASSUME Init PROVE BalanceInv
<1>1. None \in [Kind -> 0..Slots] /\ 0 \in 0..Pcrs
  BY ConstantsAssumption DEF None
<1>2. TypeOK
  BY <1>1 DEF Init, TypeOK
<1>3. Owed /\ call = "none"
  BY DEF Init, Owed
<1> QED
  BY <1>2, <1>3 DEF BalanceInv

\* Every step keeps it
LEMMA StepBalanced == ASSUME Inv, BalanceInv, [Next]_vars PROVE BalanceInv'
<1>1. Inv'
  BY StepPreserves
<1>2. Types'
  <2>1. Types
    BY DEF BalanceInv, TypeOK, Types
  <2> QED
    BY <2>1, TypesStep
<1>3. before' \in [Kind -> 0..Slots]
  BY BeforeTyped DEF BalanceInv
<1>4. Owed' /\ ObjectsTyped'
  <2>1. CASE UNCHANGED vars
    <3>1. Extra' = Extra
      BY <2>1 DEF vars, Extra
    <3> QED
      BY <2>1, <3>1 DEF vars, BalanceInv, TypeOK, Owed, ObjectsTyped
  <2> QED
    BY <2>1, RequestsOwe, PcrReadOwes, ScopesOwe, DestructorsOwe, CreateOwes, FlushObjectOwes,
       ProcessOwes DEF Next, Step
<1>5. TypeOK'
  BY <1>1, <1>2, <1>3, <1>4, TypeOKParts DEF Inv, TypeOK, Types, ObjectsTyped, SessionsScoped
<1>6. (process = "new" => call = "none")'
  BY DEF BalanceInv, Next, Step, DoCommand, DoSelect, DoOpen, DoIfOpens, DoTry, DoEndTry, DoRethrow,
     DoCreate, DoFlushObject, DoEvictControl, DoStart, DoFlush, DoSession, DoCloseSession, Terminate,
     DoConnect, DoCloseCtx, DoPcrRead, Return, Returned, process_command, Continue, CallTpm, Connect,
     main, Exited, vars, Caller, Idle, At, ExitStatus
<1> QED
  BY <1>4, <1>5, <1>6 DEF BalanceInv

\* The balance of a call: it holds wherever a call has got to
THEOREM Balance == Spec => [](Inv /\ BalanceInv)
<1>1. Init => Inv /\ BalanceInv
  BY InitEstablishes, InitBalanced
<1>2. Inv /\ BalanceInv /\ [Next]_vars => Inv' /\ BalanceInv'
  BY StepPreserves, StepBalanced
<1> QED
  BY <1>1, <1>2, PTL DEF Spec

\* The types; a connection never has more objects than there is room for, and
\* FlushObjectContext is called for an object that is there
THEOREM TypeCorrect == Spec => []TypeOK
<1>1. BalanceInv => TypeOK
  BY DEF BalanceInv
<1> QED
  BY <1>1, Balance, PTL

\* A call that returns without an exception leaves on its connection what
\* GenerateEk and UnsealInternal do not flush, and nothing else
THEOREM SuccessLeavesNoMore == Spec => []SuccessLeavesOnlyKnown
<1>1. ASSUME BalanceInv, Returned, ~raised PROVE Extra = Kept(call)
  <2>1. Balanced(call, code, Extra, raised, failed) /\ code = << >>
    BY <1>1 DEF BalanceInv, Owed, Returned
  <2>2. ~Leaving(call, code, Extra, raised, failed) /\ ~Trying(call, code, Extra, raised)
    BY <1>1, <2>1 DEF Leaving, Trying
  <2>3. Triple(call, << >>, Extra, Kept(call))
    BY <2>1, <2>2 DEF Balanced, Running
  <2> QED
    BY <2>3, Facts
<1>2. BalanceInv => SuccessLeavesOnlyKnown
  <2> SUFFICES ASSUME BalanceInv, Returned, ~raised, NEW kind \in Kind
               PROVE  Left(kind) = KeptOnSuccess(call, kind)
    BY DEF SuccessLeavesOnlyKnown
  <2>1. Extra[kind] = Kept(call)[kind]
    BY <1>1
  <2> QED
    BY <2>1 DEF Extra, Kept, Left
<1> QED
  BY <1>2, Balance, PTL

\* What a call that throws leaves is explained by what failed in it or by the
\* call it is
THEOREM FailureIsExplained == Spec => []FailureLeavesExplained
<1>1. ASSUME BalanceInv, Returned, raised PROVE Fits(call, Extra, failed)
  <2>1. Balanced(call, code, Extra, raised, failed) /\ code = << >>
    BY <1>1 DEF BalanceInv, Owed, Returned
  <2>2. ~Running(call, code, Extra, raised) /\ ~Trying(call, code, Extra, raised)
    BY <1>1, <2>1 DEF Running, Trying
  <2> QED
    BY <2>1, <2>2 DEF Balanced, Leaving
<1>2. \A kind \in Kind : Extra[kind] = Left(kind)
  BY DEF Extra, Left
<1>3. "ephemeral" \in Kind /\ "ek" \in Kind /\ "loaded" \in Kind
  BY DEF Kind
<1>4. BalanceInv => FailureLeavesExplained
  <2>1. /\ Extra["ephemeral"] = Left("ephemeral") /\ Extra["ek"] = Left("ek")
        /\ Extra["loaded"] = Left("loaded")
    BY <1>2, <1>3
  <2> QED
    BY <1>1, <2>1 DEF Fits, FailureLeavesExplained
<1> QED
  BY <1>4, Balance, PTL
=============================================================================
