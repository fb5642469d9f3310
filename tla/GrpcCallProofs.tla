---------------------------- MODULE GrpcCallProofs ----------------------------
(****************************************************************************)
(* Theorems about GrpcCall: a signed request is accepted once, for every    *)
(* chain of interceptors; and where no interceptor is in a chain twice, what *)
(* CallInv says of retries, identities, dead keys and records.              *)
(****************************************************************************)
EXTENDS GrpcCall, FiniteSets, SequenceTheorems, WellFoundedInduction, TLAPS

-----------------------------------------------------------------------------
(* The inductive invariant.                                                 *)

Names == Services \cup {""}
Signatures == {ComputeHMACSignature(u, v, t, n) : u \in Names, v \in Names, t \in Int, n \in Reqs}
Metadata ==
    [bearer : Names, key : Names, sig : {NoSig} \cup Signatures, ts : Int, nonce : {<<>>} \cup Reqs]
Credentials ==
    [type : CredTypes \cup {"none"}, subject : Names, perms : SUBSET KeyPerms]
Contexts == [id : Names \cup {NoIdentity}, cred : Credentials]
Ends == Codes \cup {"none", "started"}
Waits == {"idle", "outer", "invoke", "wait", "backoff", "done"}
Stages == {"none", "sent", "lost", "in", "validating", "done"}
ClientCalls ==
    [pc : Waits, k : 0..MaxRetries, kind : {"unary", "stream"}, method : Methods \cup {<<>>},
     cert : Certs \cup {NoCert}, user : Names, prov : SUBSET CredTypes, skew : Int, md : Metadata,
     deadline : {"none", "armed", "attempt"},
     res : Codes \cup {"none", "no token", "Unavailable", "DeadlineExceeded"}]
Whys == {"", "certificate", "service", "identity", "type", "key", "timestamp", "nonce", "signature",
         "caller", "acl", "permission"}
Requests ==
    [st : Stages, pos : Nat, ctxs : Seq(Contexts), res : Codes, why : Whys, md : Metadata,
     handled : BOOLEAN, panicked : BOOLEAN, overlap : SUBSET Reqs, stale : BOOLEAN]
KeyInfos == [registered : BOOLEAN, revoked : BOOLEAN, expires : Nat]

GTyped ==
    /\ conf \in Confs
    /\ call \in [Calls -> ClientCalls]
    /\ srv \in [Reqs -> Requests]
    /\ acl \in [Services -> AnyRule]
    /\ keys \in [Services -> KeyInfos]
    /\ nonces \in [Reqs -> Nat \cup {Absent}]
    /\ seen \in [Reqs -> [Observers -> Ends]]
    /\ now \in 0..MaxNow /\ admin \in 0..MaxAdmin

\* An attempt the client has not made yet.
Unsent(r) ==
    \/ r[2] > call[r[1]].k
    \/ r[2] = call[r[1]].k /\ call[r[1]].pc \in {"idle", "outer", "invoke"}

\* Where a request stands in its chain.
Placed(r) ==
    /\ srv[r].pos = Len(srv[r].ctxs)
    /\ srv[r].st \in {"none", "sent", "lost"} => srv[r].pos = 0
    /\ srv[r].st \in {"in", "validating", "done"} => srv[r].pos \in 1..(Len(Chain(r)) + 1)
    /\ srv[r].st # "done" => ~srv[r].handled /\ srv[r].why = ""
    /\ srv[r].handled => srv[r].pos = Len(Chain(r)) + 1

\* A nonce is there for a signature.
Signed(md) == md.sig # NoSig <=> md.nonce \in Reqs

\* The nonces a call sends: one of each attempt, or one of the call.
NonceOf(r) ==
    /\ Unsent(r) => srv[r].st = "none"
    /\ Signed(srv[r].md)
    /\ srv[r].st = "none" => srv[r].md.nonce = <<>>
    /\ PerAttempt("credential") => srv[r].md.nonce \in {<<>>, r}
    /\ ~PerAttempt("credential") /\ srv[r].st # "none" => srv[r].md = call[r[1]].md
CallNonce(c) ==
    /\ Signed(call[c].md)
    /\ call[c].md.nonce \in Reqs => call[c].md.nonce[1] = c
    /\ call[c].pc \in {"idle", "outer"} => call[c].k = 0
    /\ call[c].pc = "backoff" => call[c].k < MaxRetries

\* A request whose signature was accepted, and one between Exists and Store.
Accepted(r) == Passed(r, "credential") /\ Extract(srv[r].md) = "hmac" /\ ~Skipped(r)
Validating(r) ==
    srv[r].st = "validating" =>
        /\ srv[r].pos <= Len(Chain(r)) /\ Here(r) = "credential"
        /\ Extract(srv[r].md) = "hmac" /\ ~Skipped(r)
        /\ srv[r].md.ts <= now + Validity

\* The nonce of an accepted signature is kept for as long as its timestamp is good.
NonceKept(r) ==
    Accepted(r) =>
        \/ now > srv[r].md.ts + Validity
        \/ /\ nonces[srv[r].md.nonce] # Absent
           /\ srv[r].md.ts + Validity <= nonces[srv[r].md.nonce]

\* Two requests with one nonce got past Exists only together.
Claimed(r) == srv[r].st = "validating" \/ Accepted(r)
ClaimsOverlap ==
    \A r, q \in Reqs :
        r # q /\ srv[r].md.nonce = srv[q].md.nonce /\ Claimed(r) /\ Claimed(q)
        => r \in srv[q].overlap

GBase ==
    /\ GTyped
    /\ \A r \in Reqs : Placed(r) /\ NonceOf(r) /\ Validating(r)
    /\ \A c \in Calls : CallNonce(c)
GClaims == (\A r \in Reqs : NonceKept(r)) /\ ClaimsOverlap
GInv == GBase /\ GClaims

\* What else holds where no interceptor is in a chain twice: with a nonce for
\* every attempt only the attempt itself has stored it;
OwnNonce(r) ==
    PerAttempt("credential") =>
        /\ nonces[r] # Absent => srv[r].st = "done" \/ Passed(r, "credential")
        /\ srv[r].why # "nonce"

\* a key that is dead stays dead, and its requests do not pass;
DeadKey(r) ==
    srv[r].stale =>
        /\ Extract(srv[r].md) = "api_key" /\ KeyIsDead(srv[r].md.key)
        /\ ~Skipped(r) => ~Passed(r, "credential")

\* there is no credential before CredentialInterceptor, and the certificate's
\* name is compared with it there;
Compared(r) ==
    srv[r].ctxs # <<>> =>
        IF Passed(r, "credential")
        THEN conf.requireMatch /\ Precedes("mtls", "credential", Chain(r)) =>
                IdentityMatches(Ctx(r), Ctx(r).cred)
        ELSE Ctx(r).cred.subject = ""

\* and the end of a finished request is in every record it should be in.
EndRecorded(r) ==
    \A i \in 1..(Len(srv[r].ctxs) - 1) :
        LET o == Chain(r)[i]
        IN  srv[r].st = "done" /\ o \in Observers /\ (o = "metrics" \/ ~Skipped(r))
            => \/ seen[r][o] \in {srv[r].res, FromError(srv[r].res)}
               \/ srv[r].panicked /\ ~Precedes(o, "recovery", Chain(r))

OInv == \A r \in Reqs : OwnNonce(r) /\ DeadKey(r) /\ Compared(r) /\ EndRecorded(r)

-----------------------------------------------------------------------------
(* Constants, chains and metadata.                                          *)

LEMMA GBounds ==
    MaxRetries \in Nat /\ Validity \in Nat /\ MaxNow \in Nat /\ MaxAdmin \in Nat /\ KeyExpiry \in Nat
BY GrpcConstants

LEMMA RequestIs == \A r \in Reqs : r[1] \in Calls /\ r[2] \in 0..MaxRetries /\ r = <<r[1], r[2]>>
BY DEF Reqs

LEMMA EmptyIsNone == <<>> \notin Reqs
<1> SUFFICES ASSUME <<>> \in Reqs PROVE FALSE
    OBVIOUS
<1>1. PICK c \in Calls, k \in 0..MaxRetries : <<>> = <<c, k>>
    BY DEF Reqs
<1>2. Len(<<c, k>>) = 2
    OBVIOUS
<1> QED
    BY <1>1, <1>2, EmptySeq

LEMMA InputIs ==
    ASSUME conf \in Confs, NEW in \in conf.inputs
    PROVE  /\ in.kind \in {"unary", "stream"} /\ in.method \in Methods /\ in.cert \in Certs \cup {NoCert}
           /\ in.user \in Services /\ in.prov \in SUBSET CredTypes /\ in.skew \in Int
           /\ in.deadline \in {"none", "armed"}
BY GrpcConstants

LEMMA ChainIs ==
    ASSUME conf \in Confs, NEW r
    PROVE  Chain(r) \in Seq(Interceptors) /\ Len(Chain(r)) \in Nat
<1>1. conf.server \in Seq(Interceptors) /\ conf.stream \in Seq(Interceptors \ {"permission", "metrics"})
    BY GrpcConstants
<1>2. conf.stream \in Seq(Interceptors)
    BY <1>1
<1> QED
    BY <1>1, <1>2, LenProperties DEF Chain

LEMMA ChainOnce ==
    ASSUME conf \in Confs, OncePerChain, NEW r
    PROVE  \A i, j \in 1..Len(Chain(r)) : Chain(r)[i] = Chain(r)[j] => i = j
BY DEF OncePerChain, Chain

LEMMA CertIs ==
    ASSUME NEW cert \in Certs \cup {NoCert}, cert # NoCert
    PROVE  ParseCertificateIdentity(cert) \in Names
<1>1. Certs \subseteq [sa : Services \cup {""}, cn : Services \cup {""}]
    BY GrpcConstants
<1> QED
    BY <1>1 DEF ParseCertificateIdentity, Names

LEMMA RulesAre == InitialRules \subseteq [Services -> AnyRule] /\ Rules \subseteq AnyRule
BY GrpcConstants

\* A set of numbers has a least one.
LEMMA HasLeast == ASSUME NEW S, S \subseteq Nat, S # {} PROVE \E i \in S : \A j \in S : i <= j
<1> DEFINE R == OpToRel(<, Nat)
<1>1. IsWellFoundedOn(R, Nat)
    BY NatLessThanWellFounded
<1>2. \A x, y \in Nat : x < y => <<x, y>> \in R
    BY DEF OpToRel
<1> HIDE DEF R
<1>3. PICK i \in S : \A j \in S : ~(<<j, i>> \in R)
    BY <1>1, WFMin
<1>4. \A j \in S : ~(j < i)
    BY <1>2, <1>3
<1>5. \A j \in S : i <= j
    BY <1>4
<1> QED
    BY <1>5

\* The interceptor CallOn stops at is there.
NextGuard(chain, pos, j) ==
    /\ j \in (pos + 1)..(Len(chain) + 1)
    /\ j <= Len(chain) => chain[j] \in Guards
    /\ \A i \in (pos + 1)..(j - 1) : chain[i] \notin Guards

LEMMA NextGuardExists ==
    ASSUME NEW chain, Len(chain) \in Nat, NEW pos \in 0..Len(chain)
    PROVE  \E j \in (pos + 1)..(Len(chain) + 1) : NextGuard(chain, pos, j)
<1> DEFINE S == {j \in (pos + 1)..(Len(chain) + 1) : j <= Len(chain) => chain[j] \in Guards}
<1>1. Len(chain) + 1 \in S /\ S \subseteq Nat
    OBVIOUS
<1>2. PICK j \in S : \A i \in S : j <= i
    BY <1>1, HasLeast
<1>3. ASSUME NEW i \in (pos + 1)..(j - 1) PROVE chain[i] \notin Guards
  <2>1. i \notin S /\ i \in (pos + 1)..(Len(chain) + 1) /\ i <= Len(chain)
      BY <1>2
  <2> QED
      BY <2>1
<1> QED
    BY <1>2, <1>3 DEF NextGuard

\* What the client signs.
LEMMA SignatureIs ==
    ASSUME NEW u \in Names, NEW t \in Int, NEW n \in Reqs
    PROVE  ComputeHMACSignature(u, u, t, n) \in Signatures
BY DEF Signatures

LEMMA SignatureIsThere == NoSig \notin Signatures
<1> SUFFICES ASSUME NoSig \in Signatures PROVE FALSE
    OBVIOUS
<1>1. PICK u, v, t, n : NoSig = <<u, v, t, n>>
    BY DEF Signatures, ComputeHMACSignature
<1>2. Len(<<u, v, t, n>>) = 4
    OBVIOUS
<1> QED
    BY <1>1, <1>2, EmptySeq DEF NoSig

LEMMA NoMetadataIs == NoMetadata \in Metadata /\ Signed(NoMetadata) /\ NoMetadata.nonce = <<>>
<1>1. NoMetadata \in Metadata
    BY DEF NoMetadata, Metadata, Names
<1>2. NoMetadata.sig = NoSig /\ NoMetadata.nonce = <<>>
    BY DEF NoMetadata
<1> QED
    BY <1>1, <1>2, EmptyIsNone DEF Signed

LEMMA NewRequestIs ==
    /\ NewRequest \in Requests /\ NewRequest.st = "none" /\ NewRequest.pos = 0 /\ NewRequest.ctxs = <<>>
    /\ ~NewRequest.handled /\ NewRequest.why = "" /\ NewRequest.md = NoMetadata /\ ~NewRequest.stale
<1>1. NoMetadata \in Metadata
    BY NoMetadataIs
<1>2. <<>> \in Seq(Contexts)
    OBVIOUS
<1> HIDE DEF Requests
<1>3. \A a, b, c \in BOOLEAN :
         [st |-> "none", pos |-> 0, ctxs |-> <<>>, res |-> "OK", why |-> "", md |-> NoMetadata,
          handled |-> a, panicked |-> b, overlap |-> {}, stale |-> c] \in Requests
    BY <1>1, <1>2 DEF Requests, Stages, Codes, Whys
<1>4. FALSE \in BOOLEAN
    OBVIOUS
<1>5. NewRequest \in Requests
    BY <1>3, <1>4, Zenon DEF NewRequest
<1> QED
    BY <1>5 DEF NewRequest

LEMMA NewCallIs ==
    /\ NewCall \in ClientCalls /\ NewCall.pc = "idle" /\ NewCall.k = 0 /\ NewCall.md = NoMetadata
<1>1. NoMetadata \in Metadata
    BY NoMetadataIs
<1>2. 0 \in 0..MaxRetries
    BY GBounds
<1> QED
    BY <1>1, <1>2 DEF NewCall, ClientCalls, Waits, Names, Codes

\* The metadata of a call, signed if the call signs and then with a nonce of the
\* attempt.
LEMMA MetadataIs ==
    ASSUME GTyped, NEW c \in Calls
    PROVE  /\ GetMetadata(c) \in Metadata /\ Signed(GetMetadata(c))
           /\ GetMetadata(c).nonce \in {<<>>, <<c, call[c].k>>}
<1>1. call[c] \in ClientCalls /\ now \in Int
    BY DEF GTyped
<1>2. /\ call[c].user \in Names /\ call[c].prov \in SUBSET CredTypes /\ call[c].skew \in Int
      /\ call[c].k \in 0..MaxRetries
    BY <1>1 DEF ClientCalls
<1> DEFINE n == <<c, call[c].k>>
           t == now + call[c].skew
           u == call[c].user
           sig == ComputeHMACSignature(u, u, t, n)
<1>3. n \in Reqs /\ t \in Int
    BY <1>1, <1>2 DEF Reqs
<1>4. sig \in Signatures /\ sig # NoSig
    BY <1>2, <1>3, SignatureIs, SignatureIsThere
<1> HIDE DEF n, t, sig
<1> DEFINE b == IF "bearer" \in call[c].prov THEN u ELSE ""
           k == IF call[c].prov \cap {"hmac", "api_key"} # {} THEN u ELSE ""
<1>5. b \in Names /\ k \in Names
    BY <1>2 DEF Names
<1>6. CASE "hmac" \in call[c].prov
  <2>1. GetMetadata(c) = [bearer |-> b, key |-> k, sig |-> sig, ts |-> t, nonce |-> n]
      BY <1>6 DEF GetMetadata, n, t, sig
  <2> HIDE DEF b, k, u
  <2> DEFINE md == [bearer |-> b, key |-> k, sig |-> sig, ts |-> t, nonce |-> n]
  <2>2. md \in Metadata /\ md.sig = sig /\ md.nonce = n
      BY <1>3, <1>4, <1>5 DEF Metadata
  <2> QED
      BY <1>3, <1>4, <2>1, <2>2 DEF Signed, n
<1>7. CASE "hmac" \notin call[c].prov
  <2>1. GetMetadata(c) = [bearer |-> b, key |-> k, sig |-> NoSig, ts |-> 0, nonce |-> <<>>]
      BY <1>7 DEF GetMetadata
  <2> HIDE DEF b, k, u
  <2> DEFINE md == [bearer |-> b, key |-> k, sig |-> NoSig, ts |-> 0, nonce |-> <<>>]
  <2>2. md \in Metadata /\ md.sig = NoSig /\ md.nonce = <<>>
      BY <1>5 DEF Metadata
  <2> QED
      BY <2>1, <2>2, EmptyIsNone DEF Signed
<1> QED
    BY <1>6, <1>7

\* The fields of a request and of a call.
LEMMA RequestFields ==
    ASSUME NEW x \in Requests
    PROVE  /\ x.st \in Stages /\ x.pos \in Nat /\ x.ctxs \in Seq(Contexts) /\ Len(x.ctxs) \in Nat
           /\ x.res \in Codes /\ x.why \in Whys /\ x.md \in Metadata /\ x.handled \in BOOLEAN
           /\ x.panicked \in BOOLEAN /\ x.overlap \in SUBSET Reqs /\ x.stale \in BOOLEAN
BY LenProperties DEF Requests

LEMMA MetadataFields ==
    ASSUME NEW md \in Metadata
    PROVE  /\ md.bearer \in Names /\ md.key \in Names /\ md.ts \in Int /\ md.nonce \in {<<>>} \cup Reqs
           /\ md.sig \in {NoSig} \cup Signatures
BY DEF Metadata

LEMMA CallFields ==
    ASSUME NEW x \in ClientCalls
    PROVE  /\ x.pc \in Waits /\ x.k \in 0..MaxRetries /\ x.k \in Nat /\ x.md \in Metadata
           /\ x.deadline \in {"none", "armed", "attempt"} /\ x.cert \in Certs \cup {NoCert}
<1>1. x.k \in 0..MaxRetries
    BY DEF ClientCalls
<1>2. x.k \in Nat
    BY <1>1, GBounds
<1> QED
    BY <1>1, <1>2 DEF ClientCalls

\* Two requests with one nonce are of one call, and have all their metadata in
\* common; with a nonce per attempt there are no two.
LEMMA SameNonce ==
    ASSUME GTyped, \A r \in Reqs : NonceOf(r), \A c \in Calls : CallNonce(c),
           NEW r \in Reqs, NEW q \in Reqs, srv[r].md.nonce = srv[q].md.nonce, srv[r].md.nonce \in Reqs
    PROVE  r[1] = q[1] /\ srv[r].md = srv[q].md /\ (PerAttempt("credential") => r = q)
<1>1. NonceOf(r) /\ NonceOf(q) /\ r[1] \in Calls /\ q[1] \in Calls
    BY RequestIs
<1>2. CASE PerAttempt("credential")
  <2>1. r = q
      BY <1>1, <1>2, EmptyIsNone DEF NonceOf
  <2> QED
      BY <2>1
<1>3. CASE ~PerAttempt("credential")
  <2>1. srv[r].st # "none" /\ srv[q].st # "none"
      BY <1>1, EmptyIsNone DEF NonceOf
  <2>2. srv[r].md = call[r[1]].md /\ srv[q].md = call[q[1]].md
      BY <1>1, <1>3, <2>1 DEF NonceOf
  <2>3. call[r[1]].md.nonce[1] = r[1] /\ call[q[1]].md.nonce[1] = q[1]
      BY <1>1, <2>2 DEF CallNonce
  <2> QED
      BY <1>3, <2>2, <2>3
<1> QED
    BY <1>2, <1>3

\* The type of the metadata says which fields are there.
LEMMA ExtractIs ==
    ASSUME NEW md \in Metadata
    PROVE  /\ Extract(md) = "hmac" => md.sig # NoSig
           /\ Extract(md) = "api_key" => md.key \in Services
BY DEF Extract, Metadata, Names

\* A request that is left alone, in a call of the same kind and method.
LEMMA Untouched ==
    ASSUME conf' = conf, NEW q \in Reqs,
           call'[q[1]].kind = call[q[1]].kind, call'[q[1]].method = call[q[1]].method
    PROVE  Chain(q)' = Chain(q) /\ Skipped(q)' = Skipped(q)
BY DEF Chain, Skipped, Method

LEMMA SameWay ==
    ASSUME NEW q \in Reqs, Chain(q)' = Chain(q), Skipped(q)' = Skipped(q),
           srv'[q].ctxs = srv[q].ctxs, srv'[q].md = srv[q].md
    PROVE  /\ \A x : Passed(q, x)' = Passed(q, x)
           /\ Accepted(q)' = Accepted(q)
<1>1. \A x : Passed(q, x)' = Passed(q, x)
    BY DEF Passed
<1> QED
    BY <1>1 DEF Accepted

\* Nothing has been passed with no context.
LEMMA NothingPassed ==
    ASSUME NEW q \in Reqs, Placed(q), srv[q].pos = 0
    PROVE  (\A x : ~Passed(q, x)) /\ ~Accepted(q)
<1>1. Len(srv[q].ctxs) = 0
    BY DEF Placed
<1>2. 1..(Len(srv[q].ctxs) - 1) = {}
    BY <1>1
<1>3. \A x : ~Passed(q, x)
    BY <1>2 DEF Passed
<1> QED
    BY <1>3 DEF Accepted

-----------------------------------------------------------------------------
(* What the two kinds of server steps do to the request.                    *)

\* It goes on to the next interceptor, or to the handler, with a context.
Moved(r, ctx) ==
    /\ srv' \in [Reqs -> Requests] /\ \A q \in Reqs : q # r => srv'[q] = srv[q]
    /\ NextGuard(Chain(r), srv[r].pos, srv'[r].pos)
    /\ srv'[r].st = "in" /\ Len(srv'[r].ctxs) = srv'[r].pos /\ srv'[r].ctxs[srv'[r].pos] = ctx
    /\ srv'[r].md = srv[r].md /\ srv'[r].overlap = srv[r].overlap /\ srv'[r].stale = srv[r].stale
    /\ srv'[r].handled = srv[r].handled /\ srv'[r].why = srv[r].why
    /\ seen' = seen

\* It ends.
Ended(r) ==
    /\ srv' \in [Reqs -> Requests] /\ \A q \in Reqs : q # r => srv'[q] = srv[q]
    /\ srv'[r].st = "done" /\ srv'[r].pos = srv[r].pos /\ srv'[r].ctxs = srv[r].ctxs
    /\ srv'[r].md = srv[r].md /\ srv'[r].overlap = srv[r].overlap /\ srv'[r].stale = srv[r].stale
    /\ seen' \in [Reqs -> [Observers -> Ends]] /\ \A q \in Reqs : q # r => seen'[q] = seen[q]

\* It is refused, for a reason.
Refused(r, why) == Ended(r) /\ srv'[r].handled = srv[r].handled /\ srv'[r].why = why

LEMMA CallOnMoves ==
    ASSUME GTyped, NEW r \in Reqs, Placed(r), srv[r].pos \in 0..Len(Chain(r)), NEW ctx \in Contexts,
           CallOn(r, srv[r].pos, ctx), seen' = seen
    PROVE  Moved(r, ctx)
<1> DEFINE chain == Chain(r)
           pos == srv[r].pos
           next == CHOOSE j \in (pos + 1)..(Len(chain) + 1) :
                      /\ j <= Len(chain) => chain[j] \in Guards
                      /\ \A i \in (pos + 1)..(j - 1) : chain[i] \notin Guards
           cs == [i \in 1..next |-> IF i <= pos THEN srv[r].ctxs[i] ELSE ctx]
<1>1. srv \in [Reqs -> Requests] /\ srv[r] \in Requests /\ conf \in Confs
    BY DEF GTyped
<1>2. Len(chain) \in Nat
    BY <1>1, ChainIs
<1>3. NextGuard(chain, pos, next)
  <2>1. \E j \in (pos + 1)..(Len(chain) + 1) : NextGuard(chain, pos, j)
      BY <1>2, NextGuardExists
  <2> QED
      BY <2>1 DEF NextGuard
<1>4. srv' = [srv EXCEPT ![r].st = "in", ![r].pos = next, ![r].ctxs = cs]
    BY DEF CallOn
<1>5. pos \in Nat /\ next \in Nat /\ next >= pos + 1 /\ srv[r].ctxs \in Seq(Contexts) /\ Len(srv[r].ctxs) = pos
  <2>1. next \in (pos + 1)..(Len(chain) + 1)
      BY <1>3 DEF NextGuard
  <2>2. pos \in Nat /\ srv[r].ctxs \in Seq(Contexts)
      BY <1>1, RequestFields
  <2>3. Len(srv[r].ctxs) = pos
      BY DEF Placed
  <2> HIDE DEF pos, next
  <2> QED
      BY <1>2, <2>1, <2>2, <2>3
<1> HIDE DEF next, pos
<1>6. ASSUME NEW i \in 1..next PROVE (IF i <= pos THEN srv[r].ctxs[i] ELSE ctx) \in Contexts
  <2>1. i <= pos => srv[r].ctxs[i] \in Contexts
      BY <1>5, ElementOfSeq
  <2> QED
      BY <2>1
<1>7. cs \in Seq(Contexts) /\ Len(cs) = next
    BY <1>5, <1>6
<1>8. cs[next] = ctx
    BY <1>5
<1> HIDE DEF cs
<1> DEFINE x == [srv[r] EXCEPT !.st = "in", !.pos = next, !.ctxs = cs]
<1>9. x \in Requests /\ x.st = "in" /\ x.pos = next /\ x.ctxs = cs /\ x.md = srv[r].md
      /\ x.overlap = srv[r].overlap /\ x.stale = srv[r].stale /\ x.handled = srv[r].handled /\ x.why = srv[r].why
    BY <1>1, <1>5, <1>7 DEF Requests, Stages
<1>10. srv' = [srv EXCEPT ![r] = x]
    BY <1>1, <1>4
<1> HIDE DEF x
<1>11. srv' \in [Reqs -> Requests] /\ srv'[r] = x /\ \A q \in Reqs : q # r => srv'[q] = srv[q]
    BY <1>1, <1>9, <1>10
<1> QED
    BY <1>3, <1>7, <1>8, <1>9, <1>11 DEF Moved, pos

LEMMA ForwardMoves ==
    ASSUME GTyped, NEW r \in Reqs, Placed(r), srv[r].pos \in 0..Len(Chain(r)), NEW ctx \in Contexts,
           Forward(r, ctx)
    PROVE  Moved(r, ctx)
BY CallOnMoves DEF Forward

\* The result an observer, or the client, gets.
LEMMA RecoveryIs ==
    ASSUME NEW r, NEW i, NEW pos, NEW res \in Codes
    PROVE  RecoveryInterceptor(r, i, pos, res) \in Codes /\ (res # "panic" => RecoveryInterceptor(r, i, pos, res) = res)
BY DEF RecoveryInterceptor, Codes

LEMMA RecordedIs ==
    ASSUME NEW r, NEW o \in Observers, NEW res \in Codes
    PROVE  /\ Recorded(r, o, res) \in Ends
           /\ (o = "metrics" \/ ~Skipped(r)) /\ res # "panic" => Recorded(r, o, res) \in {res, FromError(res)}
BY DEF Recorded, Observers, Codes, Ends, LoggingInterceptor, UnaryServerLoggingInterceptor, AuditInterceptor,
       MetricsInterceptor, FromError

LEMMA UnwindEnds ==
    ASSUME GTyped, NEW r \in Reqs, NEW x \in Requests, NEW s, s = [srv EXCEPT ![r] = x], NEW res \in Codes,
           x.pos = srv[r].pos, x.ctxs = srv[r].ctxs, x.md = srv[r].md, x.overlap = srv[r].overlap,
           x.stale = srv[r].stale, Unwind(s, r, res)
    PROVE  /\ Ended(r) /\ srv'[r].handled = x.handled /\ srv'[r].why = x.why
           /\ srv'[r].panicked = x.panicked /\ srv'[r].res = RecoveryInterceptor(r, 0, srv[r].pos, res)
<1> DEFINE end == RecoveryInterceptor(r, 0, srv[r].pos, res)
           y == [x EXCEPT !.st = "done", !.res = end]
<1>1. srv \in [Reqs -> Requests] /\ end \in Codes
    BY RecoveryIs DEF GTyped
<1>2. srv' = [s EXCEPT ![r].st = "done", ![r].res = end]
    BY DEF Unwind
<1> HIDE DEF end
<1>3. s \in [Reqs -> Requests] /\ s[r] = x /\ \A q \in Reqs : q # r => s[q] = srv[q]
    BY <1>1
<1>4. srv' = [s EXCEPT ![r] = y]
    BY <1>2, <1>3
<1>5. y \in Requests /\ y.st = "done" /\ y.pos = x.pos /\ y.ctxs = x.ctxs /\ y.md = x.md /\ y.overlap = x.overlap
      /\ y.stale = x.stale /\ y.handled = x.handled /\ y.why = x.why /\ y.panicked = x.panicked /\ y.res = end
    BY <1>1 DEF Requests, Stages
<1> HIDE DEF y
<1>6. srv' \in [Reqs -> Requests] /\ srv'[r] = y /\ \A q \in Reqs : q # r => srv'[q] = srv[q]
    BY <1>3, <1>4, <1>5
<1>7. seen' \in [Reqs -> [Observers -> Ends]] /\ \A q \in Reqs : q # r => seen'[q] = seen[q]
  <2> DEFINE chain == Chain(r)
             Result(i) == RecoveryInterceptor(r, i, srv[r].pos, res)
             through(o) == {i \in 1..(srv[r].pos - 1) : chain[i] = o}
             f == [o \in Observers |-> IF through(o) = {} THEN "none"
                                       ELSE Recorded(r, o, Result(CHOOSE i \in through(o) : TRUE))]
  <2>1. seen' = [seen EXCEPT ![r] = f]
      BY DEF Unwind
  <2>2. ASSUME NEW o \in Observers
        PROVE  (IF through(o) = {} THEN "none" ELSE Recorded(r, o, Result(CHOOSE i \in through(o) : TRUE))) \in Ends
    <3> DEFINE i == CHOOSE i \in through(o) : TRUE
    <3>1. Recorded(r, o, Result(i)) \in Ends
        BY RecoveryIs, RecordedIs
    <3>2. "none" \in Ends
        BY DEF Ends
    <3> QED
        BY <3>1, <3>2
  <2>3. f \in [Observers -> Ends]
      BY <2>2
  <2> HIDE DEF f
  <2> QED
      BY <2>1, <2>3 DEF GTyped
<1> QED
    BY <1>5, <1>6, <1>7 DEF Ended, end

LEMMA RefuseRefuses ==
    ASSUME GTyped, NEW r \in Reqs, NEW code \in Codes, NEW why \in Whys, Refuse(r, code, why)
    PROVE  /\ Refused(r, why) /\ srv'[r].panicked = srv[r].panicked
           /\ srv'[r].res = RecoveryInterceptor(r, 0, srv[r].pos, code)
<1> DEFINE x == [srv[r] EXCEPT !.why = why]
           s == [srv EXCEPT ![r].why = why]
<1>1. srv \in [Reqs -> Requests]
    BY DEF GTyped
<1>2. x \in Requests /\ x.pos = srv[r].pos /\ x.ctxs = srv[r].ctxs /\ x.md = srv[r].md
      /\ x.overlap = srv[r].overlap /\ x.stale = srv[r].stale /\ x.handled = srv[r].handled
      /\ x.panicked = srv[r].panicked /\ x.why = why
    BY <1>1 DEF Requests
<1>3. s = [srv EXCEPT ![r] = x] /\ Unwind(s, r, code)
    BY <1>1 DEF Refuse
<1> HIDE DEF x, s
<1> QED
    BY <1>2, <1>3, UnwindEnds DEF Refused

LEMMA HandlerEnds ==
    ASSUME GTyped, NEW r \in Reqs, NEW res \in {"OK", "Unknown", "panic"}, Handler(r, res)
    PROVE  /\ Ended(r) /\ srv'[r].handled /\ srv'[r].why = srv[r].why /\ srv'[r].panicked = (res = "panic")
           /\ srv'[r].res = RecoveryInterceptor(r, 0, srv[r].pos, res)
<1> DEFINE p == res = "panic"
           x == [srv[r] EXCEPT !.handled = TRUE, !.panicked = p]
           s == [srv EXCEPT ![r].handled = TRUE, ![r].panicked = p]
<1>1. srv \in [Reqs -> Requests] /\ res \in Codes /\ p \in BOOLEAN
    BY DEF GTyped, Codes
<1>2. Unwind(s, r, res)
    BY DEF Handler
<1> HIDE DEF p
<1>3. s = [srv EXCEPT ![r] = x]
    BY <1>1
<1>4. x \in Requests /\ x.pos = srv[r].pos /\ x.ctxs = srv[r].ctxs /\ x.md = srv[r].md
      /\ x.overlap = srv[r].overlap /\ x.stale = srv[r].stale /\ x.why = srv[r].why
      /\ x.handled = TRUE /\ x.panicked = p
  <2>1. TRUE \in BOOLEAN /\ srv[r] \in Requests
      BY <1>1
  <2>2. ASSUME NEW h \in BOOLEAN
        PROVE  LET y == [srv[r] EXCEPT !.handled = h, !.panicked = p]
               IN  /\ y \in Requests /\ y.pos = srv[r].pos /\ y.ctxs = srv[r].ctxs /\ y.md = srv[r].md
                   /\ y.overlap = srv[r].overlap /\ y.stale = srv[r].stale /\ y.why = srv[r].why
                   /\ y.handled = h /\ y.panicked = p
    <3> DEFINE y == [srv[r] EXCEPT !.handled = h, !.panicked = p]
    <3>1. y \in Requests
        BY <1>1, <2>1 DEF Requests
    <3>2. /\ y.pos = srv[r].pos /\ y.ctxs = srv[r].ctxs /\ y.md = srv[r].md
          /\ y.overlap = srv[r].overlap /\ y.stale = srv[r].stale /\ y.why = srv[r].why
        BY <2>1 DEF Requests
    <3>3. y.handled = h /\ y.panicked = p
        BY <2>1 DEF Requests
    <3> QED
        BY <3>1, <3>2, <3>3
  <2> QED
      BY <2>1, <2>2, Zenon
<1> HIDE DEF x, s
<1> QED
    BY <1>1, <1>2, <1>3, <1>4, UnwindEnds DEF p

-----------------------------------------------------------------------------
(* Types, places and nonces after a step of the server.                     *)

ServerFrame == conf' = conf /\ call' = call /\ acl' = acl /\ keys' = keys /\ admin' = admin /\ now' = now

LEMMA SameCalls ==
    ASSUME ServerFrame, NEW q \in Reqs
    PROVE  /\ Chain(q)' = Chain(q) /\ Skipped(q)' = Skipped(q) /\ Unsent(q)' = Unsent(q)
           /\ \A x : PerAttempt(x)' = PerAttempt(x)
BY DEF ServerFrame, Chain, Skipped, Method, Unsent, PerAttempt

LEMMA OtherRequests ==
    ASSUME ServerFrame, NEW q \in Reqs, srv'[q] = srv[q], Placed(q), NonceOf(q), Validating(q)
    PROVE  Placed(q)' /\ NonceOf(q)' /\ Validating(q)'
<1>1. Chain(q)' = Chain(q) /\ Skipped(q)' = Skipped(q) /\ Unsent(q)' = Unsent(q)
      /\ PerAttempt("credential")' = PerAttempt("credential")
    BY SameCalls
<1>2. Placed(q)'
    BY <1>1 DEF Placed
<1>3. NonceOf(q)'
    BY <1>1 DEF NonceOf, ServerFrame, Signed
<1>4. Validating(q)'
    BY <1>1 DEF Validating, ServerFrame, Here
<1> QED
    BY <1>2, <1>3, <1>4

LEMMA ServerTyped ==
    ASSUME GTyped, ServerFrame, srv' \in [Reqs -> Requests], seen' \in [Reqs -> [Observers -> Ends]],
           nonces' \in [Reqs -> Nat \cup {Absent}]
    PROVE  GTyped'
BY DEF GTyped, ServerFrame

\* A request whose metadata stay, and which has been sent.
LEMMA KeepsNonce ==
    ASSUME ServerFrame, NEW r \in Reqs, NonceOf(r), srv'[r].md = srv[r].md, srv[r].st # "none", srv'[r].st # "none"
    PROVE  NonceOf(r)'
<1>1. Unsent(r)' = Unsent(r) /\ PerAttempt("credential")' = PerAttempt("credential") /\ call'[r[1]].md = call[r[1]].md
    BY SameCalls DEF ServerFrame
<1> QED
    BY <1>1 DEF NonceOf, Signed

LEMMA CallsStay ==
    ASSUME ServerFrame, \A c \in Calls : CallNonce(c)
    PROVE  \A c \in Calls : CallNonce(c)'
BY DEF ServerFrame, CallNonce, Signed

LEMMA MovedBase ==
    ASSUME GBase, ServerFrame, nonces' \in [Reqs -> Nat \cup {Absent}], NEW r \in Reqs, NEW ctx, Moved(r, ctx),
           srv[r].pos \in 0..Len(Chain(r)), srv[r].st \in {"sent", "in", "validating"}
    PROVE  GBase'
<1>1. GTyped'
    BY ServerTyped DEF GBase, GTyped, Moved
<1>2. ASSUME NEW q \in Reqs, q # r PROVE Placed(q)' /\ NonceOf(q)' /\ Validating(q)'
  <2>1. srv'[q] = srv[q] /\ Placed(q) /\ NonceOf(q) /\ Validating(q)
      BY <1>2 DEF GBase, Moved
  <2> QED
      BY <2>1, OtherRequests
<1>3. Chain(r)' = Chain(r)
    BY SameCalls
<1>4. Placed(r)'
  <2>1. srv'[r].pos = Len(srv'[r].ctxs) /\ srv'[r].st = "in" /\ ~srv'[r].handled /\ srv'[r].why = ""
      BY DEF Moved, GBase, Placed
  <2>2. srv'[r].pos \in (srv[r].pos + 1)..(Len(Chain(r)) + 1)
      BY DEF Moved, NextGuard
  <2>3. srv'[r].pos \in 1..(Len(Chain(r)) + 1)
    <3>1. Len(Chain(r)) \in Nat
        BY ChainIs DEF GBase, GTyped
    <3> QED
        BY <2>2, <3>1
  <2> QED
      BY <1>3, <2>1, <2>3 DEF Placed
<1>5. NonceOf(r)'
    BY KeepsNonce DEF Moved, GBase
<1>6. Validating(r)'
    BY DEF Moved, Validating
<1>7. \A c \in Calls : CallNonce(c)'
    BY CallsStay DEF GBase
<1> QED
    BY <1>1, <1>2, <1>4, <1>5, <1>6, <1>7 DEF GBase

LEMMA EndedBase ==
    ASSUME GBase, ServerFrame, nonces' \in [Reqs -> Nat \cup {Absent}], NEW r \in Reqs, Ended(r),
           srv[r].st \in {"in", "validating"}, srv'[r].handled => srv[r].pos = Len(Chain(r)) + 1
    PROVE  GBase'
<1>1. GTyped'
    BY ServerTyped DEF GBase, Ended
<1>2. ASSUME NEW q \in Reqs, q # r PROVE Placed(q)' /\ NonceOf(q)' /\ Validating(q)'
  <2>1. srv'[q] = srv[q] /\ Placed(q) /\ NonceOf(q) /\ Validating(q)
      BY <1>2 DEF GBase, Ended
  <2> QED
      BY <2>1, OtherRequests
<1>3. Chain(r)' = Chain(r)
    BY SameCalls
<1>4. Placed(r)'
    BY <1>3 DEF Placed, Ended, GBase
<1>5. NonceOf(r)'
    BY KeepsNonce DEF Ended, GBase
<1>6. Validating(r)'
    BY DEF Ended, Validating
<1>7. \A c \in Calls : CallNonce(c)'
    BY CallsStay DEF GBase
<1> QED
    BY <1>1, <1>2, <1>4, <1>5, <1>6, <1>7 DEF GBase

\* What has been passed after the step: what had been, and the interceptor the
\* request was at.
LEMMA MovedPassed ==
    ASSUME GBase, ServerFrame, NEW r \in Reqs, NEW ctx, Moved(r, ctx), srv[r].pos \in 0..Len(Chain(r)), NEW x \in Guards
    PROVE  Passed(r, x)' <=> Passed(r, x) \/ (srv[r].pos # 0 /\ Here(r) = x)
<1> DEFINE p == srv[r].pos
           n == srv'[r].pos
           chain == Chain(r)
<1>1. Chain(r)' = chain
    BY SameCalls
<1>2. Len(chain) \in Nat
    BY ChainIs DEF GBase, GTyped
<1>3. /\ n \in (p + 1)..(Len(chain) + 1) /\ \A i \in (p + 1)..(n - 1) : chain[i] \notin Guards
    BY DEF Moved, NextGuard
<1>4. Len(srv[r].ctxs) = p /\ Len(srv'[r].ctxs) = n
    BY DEF Moved, GBase, Placed
<1>5. Passed(r, x) <=> \E i \in 1..(p - 1) : i <= Len(chain) /\ chain[i] = x
    BY <1>4 DEF Passed
<1>6. Passed(r, x)' <=> \E i \in 1..(n - 1) : i <= Len(chain) /\ chain[i] = x
    BY <1>1, <1>4 DEF Passed
<1>7. Here(r) = chain[p]
    BY DEF Here
<1> HIDE DEF p, n, chain
<1>8. p \in 0..Len(chain)
    BY DEF p, chain
<1>9. ASSUME NEW i \in 1..(n - 1), chain[i] = x PROVE i \in 1..(p - 1) \/ (p # 0 /\ i = p)
  <2>1. i \notin (p + 1)..(n - 1)
      BY <1>3, <1>9
  <2> QED
      BY <1>2, <1>3, <1>8, <2>1
<1>10. (\E i \in 1..(p - 1) : i <= Len(chain) /\ chain[i] = x) => \E i \in 1..(n - 1) : i <= Len(chain) /\ chain[i] = x
    BY <1>2, <1>3, <1>8
<1>11. p # 0 /\ chain[p] = x => \E i \in 1..(n - 1) : i <= Len(chain) /\ chain[i] = x
    BY <1>2, <1>3, <1>8
<1>12. ASSUME NEW i \in 1..(n - 1), i <= Len(chain), chain[i] = x
       PROVE  (\E j \in 1..(p - 1) : j <= Len(chain) /\ chain[j] = x) \/ (p # 0 /\ chain[p] = x)
    BY <1>9, <1>12
<1> QED
    BY <1>5, <1>6, <1>7, <1>10, <1>11, <1>12 DEF p

-----------------------------------------------------------------------------
(* Nonces.                                                                  *)

\* Nobody new is accepted or validates.
LEMMA QuietClaims ==
    ASSUME GClaims, now' = now, nonces' = nonces,
           \A q \in Reqs : Accepted(q)' => Accepted(q),
           \A q \in Reqs : Claimed(q)' =>
               Claimed(q) /\ srv'[q].md = srv[q].md /\ srv[q].overlap \subseteq srv'[q].overlap
    PROVE  GClaims'
<1>1. ASSUME NEW r \in Reqs PROVE NonceKept(r)'
  <2>1. SUFFICES ASSUME Accepted(r)' PROVE NonceKept(r)'
      BY DEF NonceKept
  <2>2. Accepted(r) /\ srv'[r].md = srv[r].md
      BY <2>1 DEF Claimed
  <2>3. NonceKept(r)
      BY DEF GClaims
  <2> QED
      BY <2>2, <2>3 DEF NonceKept
<1>2. ClaimsOverlap'
  <2> SUFFICES ASSUME NEW r \in Reqs, NEW q \in Reqs, r # q, srv'[r].md.nonce = srv'[q].md.nonce,
                      Claimed(r)', Claimed(q)'
               PROVE  r \in srv'[q].overlap
      BY DEF ClaimsOverlap
  <2>1. r \in srv[q].overlap
      BY DEF GClaims, ClaimsOverlap
  <2> QED
      BY <2>1
<1> QED
    BY <1>1, <1>2 DEF GClaims

LEMMA EndedWay ==
    ASSUME ServerFrame, NEW r \in Reqs, Ended(r), NEW q \in Reqs
    PROVE  /\ Accepted(q)' = Accepted(q) /\ srv'[q].md = srv[q].md /\ srv'[q].overlap = srv[q].overlap
           /\ \A x : Passed(q, x)' = Passed(q, x)
           /\ Claimed(q)' => Claimed(q)
<1>1. Chain(q)' = Chain(q) /\ Skipped(q)' = Skipped(q)
    BY SameCalls
<1>2. /\ srv'[q].md = srv[q].md /\ srv'[q].overlap = srv[q].overlap /\ srv'[q].ctxs = srv[q].ctxs
      /\ srv'[q].st = "validating" => srv[q].st = "validating"
    BY DEF Ended
<1>3. Accepted(q)' = Accepted(q) /\ \A x : Passed(q, x)' = Passed(q, x)
    BY <1>1, <1>2, SameWay
<1> QED
    BY <1>2, <1>3 DEF Claimed

LEMMA EndedClaims ==
    ASSUME GClaims, ServerFrame, nonces' = nonces, NEW r \in Reqs, Ended(r)
    PROVE  GClaims'
<1>1. now' = now
    BY DEF ServerFrame
<1> QED
    BY <1>1, EndedWay, QuietClaims

\* Only CredentialInterceptor lets a signature pass.
LEMMA MovedWay ==
    ASSUME GBase, ServerFrame, NEW r \in Reqs, NEW ctx, Moved(r, ctx), srv[r].pos \in 0..Len(Chain(r)), NEW q \in Reqs
    PROVE  /\ srv'[q].md = srv[q].md /\ srv'[q].overlap = srv[q].overlap /\ Skipped(q)' = Skipped(q)
           /\ srv'[q].st = "validating" => q # r /\ srv[q].st = "validating"
           /\ Accepted(q)' =>
                 Accepted(q) \/ (q = r /\ srv[r].pos # 0 /\ Here(r) = "credential" /\ Extract(srv[r].md) = "hmac" /\ ~Skipped(r))
<1>1. Chain(q)' = Chain(q) /\ Skipped(q)' = Skipped(q)
    BY SameCalls
<1>2. /\ srv'[q].md = srv[q].md /\ srv'[q].overlap = srv[q].overlap
      /\ srv'[q].st = "validating" => q # r /\ srv[q].st = "validating"
    BY DEF Moved
<1>3. CASE q # r
  <2>1. srv'[q] = srv[q]
      BY <1>3 DEF Moved
  <2>2. Accepted(q)' = Accepted(q)
      BY <1>1, <2>1, SameWay
  <2> QED
      BY <1>1, <1>2, <2>2
<1>4. CASE q = r
  <2>1. "credential" \in Guards
      BY DEF Guards
  <2>2. Passed(r, "credential")' => Passed(r, "credential") \/ (srv[r].pos # 0 /\ Here(r) = "credential")
      BY <2>1, MovedPassed
  <2> QED
      BY <1>1, <1>2, <1>4, <2>2 DEF Accepted
<1> QED
    BY <1>3, <1>4

LEMMA MovedClaims ==
    ASSUME GBase, GClaims, ServerFrame, nonces' = nonces, NEW r \in Reqs, NEW ctx, Moved(r, ctx),
           srv[r].pos \in 0..Len(Chain(r)),
           srv[r].pos = 0 \/ Here(r) # "credential" \/ Extract(srv[r].md) # "hmac" \/ Skipped(r)
    PROVE  GClaims'
<1>1. now' = now
    BY DEF ServerFrame
<1>2. ASSUME NEW q \in Reqs
      PROVE  /\ Accepted(q)' => Accepted(q)
             /\ Claimed(q)' => Claimed(q) /\ srv'[q].md = srv[q].md /\ srv[q].overlap \subseteq srv'[q].overlap
  <2>1. /\ srv'[q].md = srv[q].md /\ srv'[q].overlap = srv[q].overlap
        /\ srv'[q].st = "validating" => srv[q].st = "validating"
      BY MovedWay
  <2>2. Accepted(q)' => Accepted(q)
      BY MovedWay
  <2> QED
      BY <2>1, <2>2 DEF Claimed
<1> QED
    BY <1>1, <1>2, QuietClaims

\* The signature's metadata.
LEMMA SignedFacts ==
    ASSUME GBase, NEW r \in Reqs, Extract(srv[r].md) = "hmac"
    PROVE  srv[r].md.nonce \in Reqs /\ srv[r].md.ts \in Int
<1>1. srv[r].md \in Metadata
    BY RequestFields DEF GBase, GTyped
<1>2. Signed(srv[r].md)
    BY DEF GBase, NonceOf
<1> QED
    BY <1>1, <1>2, ExtractIs, MetadataFields DEF Signed

\* Store: whoever has this nonce has this timestamp, which is not good for longer
\* than the nonce is kept.
LEMMA StoreClaims ==
    ASSUME GBase, GClaims, ServerFrame, NEW r \in Reqs, srv[r].st = "validating",
           nonces' = [nonces EXCEPT ![srv[r].md.nonce] = now + NonceTTL],
           \A q \in Reqs : srv'[q].md = srv[q].md /\ srv'[q].overlap = srv[q].overlap,
           \A q \in Reqs : Accepted(q)' => Accepted(q) \/ q = r,
           \A q \in Reqs : Claimed(q)' => Claimed(q)
    PROVE  GClaims' /\ nonces' \in [Reqs -> Nat \cup {Absent}]
<1> DEFINE n == srv[r].md.nonce
           t == srv[r].md.ts
<1>1. n \in Reqs /\ t \in Int /\ t <= now + Validity
    BY SignedFacts DEF GBase, Validating
<1>2. now \in Nat /\ Validity \in Nat /\ nonces \in [Reqs -> Nat \cup {Absent}]
    BY GBounds DEF GBase, GTyped
<1>3. nonces' \in [Reqs -> Nat \cup {Absent}] /\ nonces'[n] = now + 2 * Validity
    BY <1>1, <1>2 DEF NonceTTL
<1>4. nonces'[n] # Absent /\ t + Validity <= nonces'[n]
    BY <1>1, <1>2, <1>3 DEF Absent
<1>5. ASSUME NEW q \in Reqs PROVE NonceKept(q)'
  <2>1. SUFFICES ASSUME Accepted(q)' PROVE NonceKept(q)'
      BY DEF NonceKept
  <2>2. CASE srv[q].md.nonce = n
    <3>1. srv'[q].md = srv[r].md
        BY <1>1, <2>2, SameNonce DEF GBase
    <3> QED
        BY <1>4, <3>1 DEF NonceKept
  <2>3. CASE srv[q].md.nonce # n
    <3>1. Accepted(q) /\ NonceKept(q) /\ now' = now /\ srv'[q].md = srv[q].md
        BY <2>1, <2>3 DEF GClaims, ServerFrame
    <3>2. Extract(srv[q].md) = "hmac"
        BY <3>1 DEF Accepted
    <3>3. srv[q].md.nonce \in Reqs
        BY <3>2, SignedFacts
    <3>4. nonces'[srv[q].md.nonce] = nonces[srv[q].md.nonce]
        BY <1>2, <2>3, <3>3
    <3> QED
        BY <3>1, <3>4 DEF NonceKept
  <2> QED
      BY <2>2, <2>3
<1>6. ClaimsOverlap'
  <2> SUFFICES ASSUME NEW p \in Reqs, NEW q \in Reqs, p # q, srv'[p].md.nonce = srv'[q].md.nonce,
                      Claimed(p)', Claimed(q)'
               PROVE  p \in srv'[q].overlap
      BY DEF ClaimsOverlap
  <2>1. p \in srv[q].overlap
      BY DEF GClaims, ClaimsOverlap
  <2> QED
      BY <2>1
<1> QED
    BY <1>3, <1>5, <1>6 DEF GClaims

\* The answer of Exists, as CredentialInterceptor takes it.
Begun(r) ==
    LET busy == {q \in Reqs : srv[q].st = "validating"}
    IN  srv' = [q \in Reqs |->
                  IF q = r THEN [srv[r] EXCEPT !.st = "validating", !.overlap = busy]
                  ELSE IF q \in busy THEN [srv[q] EXCEPT !.overlap = @ \cup {r}] ELSE srv[q]]

LEMMA BegunFields ==
    ASSUME srv \in [Reqs -> Requests], NEW r \in Reqs, Begun(r), NEW q \in Reqs
    PROVE  /\ srv'[q] \in Requests /\ srv'[q].md = srv[q].md /\ srv'[q].ctxs = srv[q].ctxs
           /\ srv'[q].pos = srv[q].pos /\ srv'[q].handled = srv[q].handled /\ srv'[q].why = srv[q].why
           /\ srv'[q].res = srv[q].res /\ srv'[q].stale = srv[q].stale /\ srv'[q].panicked = srv[q].panicked
           /\ srv'[q].st = IF q = r THEN "validating" ELSE srv[q].st
           /\ IF q = r THEN srv'[q].overlap = {p \in Reqs : srv[p].st = "validating"}
              ELSE IF srv[q].st = "validating" THEN srv'[q].overlap = srv[q].overlap \cup {r}
              ELSE srv'[q].overlap = srv[q].overlap
<1> DEFINE busy == {p \in Reqs : srv[p].st = "validating"}
<1>1. srv[q] \in Requests /\ srv[r] \in Requests /\ busy \in SUBSET Reqs
    OBVIOUS
<1>2. q \in busy <=> srv[q].st = "validating"
    OBVIOUS
<1> HIDE DEF busy
<1>3. CASE q = r
  <2>1. srv'[q] = [srv[r] EXCEPT !.st = "validating", !.overlap = busy]
      BY <1>3 DEF busy, Begun
  <2>2. srv'[q].stale = srv[q].stale /\ srv'[q].panicked = srv[q].panicked /\ srv'[q].handled = srv[q].handled
      BY <1>1, <1>3, <2>1 DEF Requests
  <2>3. /\ srv'[q] \in Requests /\ srv'[q].md = srv[q].md /\ srv'[q].ctxs = srv[q].ctxs
        /\ srv'[q].pos = srv[q].pos /\ srv'[q].why = srv[q].why /\ srv'[q].res = srv[q].res
        /\ srv'[q].st = "validating" /\ srv'[q].overlap = busy
      BY <1>1, <1>3, <2>1 DEF Requests, Stages
  <2> QED
      BY <1>3, <2>2, <2>3 DEF busy
<1>4. CASE q # r /\ q \in busy
  <2>1. srv'[q] = [srv[q] EXCEPT !.overlap = @ \cup {r}]
      BY <1>4 DEF busy, Begun
  <2>2. srv'[q].stale = srv[q].stale /\ srv'[q].panicked = srv[q].panicked /\ srv'[q].handled = srv[q].handled
      BY <1>1, <2>1 DEF Requests
  <2>3. /\ srv'[q] \in Requests /\ srv'[q].md = srv[q].md /\ srv'[q].ctxs = srv[q].ctxs
        /\ srv'[q].pos = srv[q].pos /\ srv'[q].why = srv[q].why /\ srv'[q].res = srv[q].res
        /\ srv'[q].st = srv[q].st /\ srv'[q].overlap = srv[q].overlap \cup {r}
    <3>1. PICK more \in SUBSET Reqs : more = srv[q].overlap \cup {r}
        BY <1>1, RequestFields
    <3>2. srv'[q] = [srv[q] EXCEPT !.overlap = more]
        BY <2>1, <3>1
    <3> QED
        BY <1>1, <3>1, <3>2 DEF Requests
  <2> QED
      BY <1>2, <1>4, <2>2, <2>3
<1>5. CASE q # r /\ q \notin busy
  <2>1. srv'[q] = srv[q]
      BY <1>5 DEF busy, Begun
  <2> QED
      BY <1>1, <1>2, <1>5, <2>1
<1> QED
    BY <1>3, <1>4, <1>5

\* Exists has said no: nobody with this nonce has been accepted while its
\* timestamp is good, and those who validate are noted.
LEMMA StartsValidating ==
    ASSUME GBase, GClaims, ServerFrame, nonces' = nonces, seen' = seen, NEW r \in Reqs,
           At(r, "credential"), Extract(srv[r].md) = "hmac", ~Skipped(r),
           TimestampOK(srv[r].md.ts), nonces[srv[r].md.nonce] = Absent,
           Begun(r)
    PROVE  GBase' /\ GClaims' /\ \A q \in Reqs : Passed(q, "credential")' = Passed(q, "credential")
<1> DEFINE busy == {q \in Reqs : srv[q].st = "validating"}
<1>1. srv \in [Reqs -> Requests] /\ conf \in Confs /\ now \in 0..MaxNow /\ now' = now
    BY DEF GBase, GTyped, ServerFrame
<1>2. srv[r].md.nonce \in Reqs /\ srv[r].md.ts \in Int
    BY SignedFacts
<1>3. srv[r].st = "in"
    BY DEF At
<1> HIDE DEF busy
<1>4. ASSUME NEW q \in Reqs
      PROVE  /\ srv'[q] \in Requests /\ srv'[q].md = srv[q].md /\ srv'[q].ctxs = srv[q].ctxs
             /\ srv'[q].pos = srv[q].pos /\ srv'[q].handled = srv[q].handled /\ srv'[q].why = srv[q].why
             /\ srv'[q].st = IF q = r THEN "validating" ELSE srv[q].st
             /\ IF q = r THEN srv'[q].overlap = busy
                ELSE IF q \in busy THEN srv'[q].overlap = srv[q].overlap \cup {r}
                ELSE srv'[q].overlap = srv[q].overlap
    BY <1>1, BegunFields DEF busy
<1>5. srv' \in [Reqs -> Requests]
  <2>1. srv' = [q \in Reqs |-> srv'[q]]
      BY DEF Begun
  <2> QED
      BY <1>4, <2>1
<1>6. GTyped'
    BY <1>5, ServerTyped DEF GBase, GTyped
<1>7. ASSUME NEW q \in Reqs
      PROVE  /\ Chain(q)' = Chain(q) /\ Skipped(q)' = Skipped(q) /\ Accepted(q)' = Accepted(q)
             /\ Passed(q, "credential")' = Passed(q, "credential")
  <2>1. Chain(q)' = Chain(q) /\ Skipped(q)' = Skipped(q)
      BY SameCalls
  <2> QED
      BY <1>4, <2>1, SameWay
<1>8. ASSUME NEW q \in Reqs PROVE Placed(q)'
  <2>1. Placed(q) /\ Chain(q)' = Chain(q)
      BY <1>7 DEF GBase
  <2>2. /\ srv'[q].pos = srv[q].pos /\ srv'[q].ctxs = srv[q].ctxs /\ srv'[q].handled = srv[q].handled
        /\ srv'[q].why = srv[q].why
      BY <1>4
  <2>3. \/ srv'[q].st = srv[q].st
        \/ srv'[q].st = "validating" /\ srv[q].st = "in"
      BY <1>3, <1>4
  <2> QED
      BY <2>1, <2>2, <2>3 DEF Placed
<1>9. ASSUME NEW q \in Reqs PROVE NonceOf(q)'
  <2>1. /\ NonceOf(q) /\ Unsent(q)' = Unsent(q) /\ PerAttempt("credential")' = PerAttempt("credential")
        /\ call'[q[1]].md = call[q[1]].md /\ NonceOf(r)
      BY SameCalls DEF GBase, ServerFrame
  <2>2. srv'[q].md = srv[q].md /\ (srv'[q].st = "none" <=> srv[q].st = "none")
      BY <1>3, <1>4
  <2> QED
      BY <2>1, <2>2 DEF NonceOf, Signed
<1>10. srv[r].md.ts <= now + Validity /\ ~(now > srv[r].md.ts + Validity)
  <2> DEFINE t == srv[r].md.ts
  <2>1. t \in Int /\ now \in Int /\ Validity \in Int /\ now - t <= Validity /\ now - t >= -Validity
      BY <1>1, <1>2, GBounds DEF TimestampOK
  <2> HIDE DEF t
  <2>2. t <= now + Validity /\ ~(now > t + Validity)
      BY <2>1
  <2> QED
      BY <2>2 DEF t
<1>11. ASSUME NEW q \in Reqs PROVE Validating(q)'
  <2>1. Validating(q) /\ Chain(q)' = Chain(q) /\ Skipped(q)' = Skipped(q) /\ Here(q)' = Here(q)
      BY <1>4, <1>7 DEF GBase, Here
  <2>2. CASE q = r
    <3>1. srv[r].pos <= Len(Chain(r)) /\ Here(r) = "credential"
        BY DEF At
    <3> QED
        BY <1>1, <1>4, <1>10, <2>1, <2>2, <3>1 DEF Validating
  <2>3. CASE q # r
      BY <1>1, <1>4, <2>1, <2>3 DEF Validating
  <2> QED
      BY <2>2, <2>3
<1>12. GBase'
    BY <1>6, <1>8, <1>9, <1>11, CallsStay DEF GBase
<1>13. ASSUME NEW q \in Reqs PROVE NonceKept(q)'
  <2>1. NonceKept(q) /\ Accepted(q)' = Accepted(q) /\ srv'[q].md = srv[q].md
      BY <1>4, <1>7 DEF GClaims
  <2> QED
      BY <1>1, <2>1 DEF NonceKept
<1>14. ASSUME NEW q \in Reqs, srv[q].md.nonce = srv[r].md.nonce PROVE ~Accepted(q)
  <2>1. srv[q].md = srv[r].md
      BY <1>2, <1>14, SameNonce DEF GBase
  <2>2. NonceKept(q)
      BY DEF GClaims
  <2> QED
      BY <1>10, <2>1, <2>2 DEF NonceKept
<1>15. ClaimsOverlap'
  <2> SUFFICES ASSUME NEW p \in Reqs, NEW q \in Reqs, p # q, srv'[p].md.nonce = srv'[q].md.nonce,
                      Claimed(p)', Claimed(q)'
               PROVE  p \in srv'[q].overlap
      BY DEF ClaimsOverlap
  <2>1. srv[p].md.nonce = srv[q].md.nonce
      BY <1>4
  <2>2. CASE p = r
    <3>1. ~Accepted(q)' /\ srv'[q].st = srv[q].st
        BY <1>4, <1>7, <1>14, <2>1, <2>2
    <3>2. q \in busy
        BY <3>1 DEF Claimed, busy
    <3> QED
        BY <1>4, <2>2, <3>2
  <2>3. CASE q = r
    <3>1. ~Accepted(p)' /\ srv'[p].st = srv[p].st
        BY <1>4, <1>7, <1>14, <2>1, <2>3
    <3>2. p \in busy
        BY <3>1 DEF Claimed, busy
    <3> QED
        BY <1>4, <2>3, <3>2
  <2>4. CASE p # r /\ q # r
    <3>1. Claimed(p) /\ Claimed(q)
        BY <1>4, <1>7, <2>4 DEF Claimed
    <3>2. p \in srv[q].overlap
        BY <2>1, <3>1 DEF GClaims, ClaimsOverlap
    <3> QED
        BY <1>4, <2>4, <3>2
  <2> QED
      BY <2>2, <2>3, <2>4
<1> QED
    BY <1>7, <1>12, <1>13, <1>15 DEF GClaims

-----------------------------------------------------------------------------
(* The steps of the server, by what they do.                                *)

\* The context an interceptor passes on.
Admitted(r, ctx) == ctx.id = Ctx(r).id /\ (conf.requireMatch => IdentityMatches(Ctx(r), ctx.cred))
Passable(r, ctx) ==
    \/ At(r, "mtls") /\ ctx.cred = Ctx(r).cred
    \/ (At(r, "acl") \/ At(r, "permission")) /\ ctx = Ctx(r)
    \/ At(r, "credential") /\ ctx = Ctx(r) /\ (Skipped(r) \/ Extract(srv[r].md) = "none")
    \/ /\ At(r, "credential") /\ Extract(srv[r].md) \in {"bearer", "api_key"} /\ Admitted(r, ctx)
       /\ Extract(srv[r].md) = "api_key" => KeyOK(srv[r].md.key)

\* With no interceptor twice in the chain, the end is recorded.
Records(r) == OncePerChain => EndRecorded(r)'

EffArrive(r) == srv[r].st = "sent" /\ Moved(r, NewContext) /\ nonces' = nonces
EffPass(r) == nonces' = nonces /\ \E ctx \in Contexts : Moved(r, ctx) /\ Passable(r, ctx)
EffRefuse(r) ==
    /\ nonces' = nonces /\ srv[r].st \in {"in", "validating"} /\ Records(r)
    /\ \E why \in Whys :
          /\ Refused(r, why)
          /\ why = "nonce" =>
                At(r, "credential") /\ Extract(srv[r].md) = "hmac" /\ nonces[srv[r].md.nonce] # Absent
EffBegin(r) ==
    /\ nonces' = nonces /\ seen' = seen /\ At(r, "credential") /\ Extract(srv[r].md) = "hmac" /\ ~Skipped(r)
    /\ TimestampOK(srv[r].md.ts) /\ nonces[srv[r].md.nonce] = Absent /\ Begun(r)
EffStore(r) ==
    /\ srv[r].st = "validating" /\ nonces' = [nonces EXCEPT ![srv[r].md.nonce] = now + NonceTTL]
    /\ \/ \E ctx \in Contexts : Moved(r, ctx) /\ Admitted(r, ctx)
       \/ Refused(r, "identity") /\ Records(r)
EffHandle(r) ==
    /\ nonces' = nonces /\ srv[r].st = "in" /\ srv[r].pos = Len(Chain(r)) + 1
    /\ Ended(r) /\ srv'[r].handled /\ srv'[r].why = srv[r].why /\ Records(r)

LEMMA AtFacts ==
    ASSUME GBase, NEW r \in Reqs, NEW x, At(r, x)
    PROVE  /\ srv[r].pos \in 0..Len(Chain(r)) /\ srv[r].pos # 0 /\ srv[r].st = "in" /\ Here(r) = x
           /\ Ctx(r) \in Contexts /\ Placed(r)
<1>1. Placed(r) /\ srv[r] \in Requests /\ srv[r].st = "in" /\ srv[r].pos <= Len(Chain(r)) /\ Here(r) = x
    BY DEF GBase, GTyped, At
<1>2. srv[r].pos \in 1..(Len(Chain(r)) + 1) /\ srv[r].pos = Len(srv[r].ctxs)
    BY <1>1 DEF Placed
<1>3. Len(Chain(r)) \in Nat
    BY ChainIs DEF GBase, GTyped
<1>4. srv[r].ctxs \in Seq(Contexts)
    BY <1>1, RequestFields
<1>5. srv[r].pos \in 1..Len(srv[r].ctxs)
    BY <1>2, <1>3
<1>6. Ctx(r) \in Contexts
    BY <1>4, <1>5, ElementOfSeq DEF Ctx
<1>7. srv[r].pos \in 0..Len(Chain(r)) /\ srv[r].pos # 0
  <2> DEFINE p == srv[r].pos
  <2>1. p \in 1..(Len(Chain(r)) + 1) /\ p <= Len(Chain(r))
      BY <1>1, <1>2
  <2> HIDE DEF p
  <2>2. p \in 0..Len(Chain(r)) /\ p # 0
      BY <1>3, <2>1
  <2> QED
      BY <2>2 DEF p
<1> QED
    BY <1>1, <1>6, <1>7

LEMMA ValidatingFacts ==
    ASSUME GBase, NEW r \in Reqs, srv[r].st = "validating"
    PROVE  /\ srv[r].pos \in 0..Len(Chain(r)) /\ srv[r].pos # 0 /\ Here(r) = "credential"
           /\ Ctx(r) \in Contexts /\ Placed(r) /\ Extract(srv[r].md) = "hmac" /\ ~Skipped(r)
<1>1. /\ Placed(r) /\ srv[r] \in Requests /\ srv[r].pos <= Len(Chain(r)) /\ Here(r) = "credential"
      /\ Extract(srv[r].md) = "hmac" /\ ~Skipped(r)
    BY DEF GBase, GTyped, Validating
<1>2. srv[r].pos \in 1..(Len(Chain(r)) + 1) /\ srv[r].pos = Len(srv[r].ctxs)
    BY <1>1 DEF Placed
<1>3. Len(Chain(r)) \in Nat
    BY ChainIs DEF GBase, GTyped
<1>4. srv[r].ctxs \in Seq(Contexts)
    BY <1>1, RequestFields
<1>5. srv[r].pos \in 1..Len(srv[r].ctxs)
    BY <1>2, <1>3
<1>6. Ctx(r) \in Contexts
    BY <1>4, <1>5, ElementOfSeq DEF Ctx
<1>7. srv[r].pos \in 0..Len(Chain(r)) /\ srv[r].pos # 0
  <2> DEFINE p == srv[r].pos
  <2>1. p \in 1..(Len(Chain(r)) + 1) /\ p <= Len(Chain(r))
      BY <1>1, <1>2
  <2> HIDE DEF p
  <2>2. p \in 0..Len(Chain(r)) /\ p # 0
      BY <1>3, <2>1
  <2> QED
      BY <2>2 DEF p
<1> QED
    BY <1>1, <1>6, <1>7

\* The observers a request came through have seen its end.
LEMMA UnwindRecords ==
    ASSUME GBase, ServerFrame, OncePerChain, NEW r \in Reqs, NEW s, NEW res \in Codes, Unwind(s, r, res), Ended(r),
           srv[r].st \in {"in", "validating"},
           srv'[r].res = RecoveryInterceptor(r, 0, srv[r].pos, res),
           res = "panic" => srv'[r].panicked /\ srv[r].pos = Len(Chain(r)) + 1
    PROVE  EndRecorded(r)'
<1> DEFINE chain == Chain(r)
           pos == srv[r].pos
           Result(i) == RecoveryInterceptor(r, i, pos, res)
           through(o) == {i \in 1..(pos - 1) : chain[i] = o}
<1>1. Chain(r)' = chain /\ Skipped(r)' = Skipped(r)
    BY SameCalls
<1>2. Len(chain) \in Nat /\ conf \in Confs
    BY ChainIs DEF GBase, GTyped
<1>3. pos \in 1..(Len(chain) + 1) /\ Len(srv'[r].ctxs) = pos
    BY DEF GBase, Placed, Ended
<1>4. seen'[r] = [o \in Observers |-> IF through(o) = {} THEN "none"
                                       ELSE Recorded(r, o, Result(CHOOSE i \in through(o) : TRUE))]
    BY DEF Unwind, GBase, GTyped
<1>5. ASSUME NEW i \in 1..(pos - 1), chain[i] \in Observers, chain[i] = "metrics" \/ ~Skipped(r)
      PROVE  \/ seen'[r][chain[i]] \in {srv'[r].res, FromError(srv'[r].res)}
             \/ srv'[r].panicked /\ ~Precedes(chain[i], "recovery", chain)
  <2> DEFINE o == chain[i]
  <2>1. i \in 1..Len(chain) /\ pos - 1 <= Len(chain)
      BY <1>2, <1>3
  <2>2. \A j \in 1..Len(chain) : chain[j] = o => j = i
      BY <1>2, <2>1, ChainOnce
  <2>3. through(o) = {i}
    <3>1. \A j \in 1..(pos - 1) : j \in 1..Len(chain)
        BY <1>2, <1>3
    <3> HIDE DEF pos, chain
    <3> QED
        BY <2>2, <3>1
  <2>4. seen'[r][o] = Recorded(r, o, Result(i))
    <3>1. (CHOOSE j \in through(o) : TRUE) = i
        BY <2>3
    <3>2. through(o) # {}
        BY <2>3
    <3> HIDE DEF through, Result
    <3> QED
        BY <1>4, <1>5, <3>1, <3>2
  <2>5. CASE res # "panic"
    <3>1. Result(i) = res /\ srv'[r].res = res
        BY <2>5, RecoveryIs
    <3> HIDE DEF Result, o
    <3>2. Recorded(r, o, res) \in {res, FromError(res)}
        BY <1>5, <2>5, RecordedIs DEF o
    <3> QED
        BY <2>4, <3>1, <3>2 DEF o
  <2>6. CASE res = "panic" /\ ~Precedes(o, "recovery", chain)
      BY <2>6
  <2>7. CASE res = "panic" /\ Precedes(o, "recovery", chain)
    <3>1. PICK a, b \in 1..Len(chain) : a < b /\ chain[a] = o /\ chain[b] = "recovery"
        BY <2>7 DEF Precedes
    <3>2. a = i /\ pos = Len(chain) + 1
        BY <2>2, <2>7, <3>1
    <3>3. b \in (i + 1)..(pos - 1) /\ b \in (0 + 1)..(pos - 1)
        BY <1>2, <3>1, <3>2
    <3>4. Result(i) = "Internal" /\ srv'[r].res = "Internal"
        BY <2>7, <3>1, <3>3 DEF RecoveryInterceptor
    <3> HIDE DEF Result, o
    <3>5. Recorded(r, o, "Internal") \in {"Internal", FromError("Internal")}
        BY <1>5, RecordedIs DEF o, Codes
    <3> QED
        BY <2>4, <3>4, <3>5 DEF o
  <2> QED
      BY <2>5, <2>6, <2>7
<1> HIDE DEF chain, pos
<1> QED
    BY <1>1, <1>3, <1>5 DEF EndRecorded

\* An early return with an error.
LEMMA RefusedWell ==
    ASSUME GBase, ServerFrame, NEW r \in Reqs, srv[r].st \in {"in", "validating"},
           NEW code \in Codes, code # "panic", NEW why \in Whys, Refuse(r, code, why)
    PROVE  Refused(r, why) /\ Records(r)
<1>1. /\ Refused(r, why) /\ srv'[r].res = RecoveryInterceptor(r, 0, srv[r].pos, code)
    BY RefuseRefuses DEF GBase
<1>2. Ended(r)
    BY <1>1 DEF Refused
<1>3. \E s : Unwind(s, r, code)
    BY DEF Refuse
<1>4. PICK s : Unwind(s, r, code)
    BY <1>3
<1>5. Records(r)
    BY <1>1, <1>2, <1>4, UnwindRecords DEF Records
<1> QED
    BY <1>1, <1>5

LEMMA RefuseEffect ==
    ASSUME GBase, ServerFrame, nonces' = nonces, NEW r \in Reqs, srv[r].st \in {"in", "validating"},
           NEW code \in {"Unauthenticated", "PermissionDenied"}, NEW why \in Whys, Refuse(r, code, why),
           why = "nonce" =>
              At(r, "credential") /\ Extract(srv[r].md) = "hmac" /\ nonces[srv[r].md.nonce] # Absent
    PROVE  EffRefuse(r)
<1>1. code \in Codes /\ code # "panic"
    BY DEF Codes
<1>2. Refused(r, why) /\ Records(r)
    BY <1>1, RefusedWell
<1> QED
    BY <1>2 DEF EffRefuse

LEMMA PassEffect ==
    ASSUME GBase, ServerFrame, nonces' = nonces, NEW r \in Reqs, NEW x, At(r, x), NEW ctx \in Contexts,
           Forward(r, ctx), Passable(r, ctx)
    PROVE  EffPass(r)
<1>1. Moved(r, ctx)
    BY AtFacts, ForwardMoves DEF GBase
<1> QED
    BY <1>1 DEF EffPass

\* The end of CredentialInterceptor.
LEMMA AdmitEffect ==
    ASSUME GBase, ServerFrame, NEW r \in Reqs, Ctx(r) \in Contexts, srv[r].pos \in 0..Len(Chain(r)),
           srv[r].st \in {"in", "validating"}, NEW cred \in Credentials, Admit(r, cred)
    PROVE  \/ \E ctx \in Contexts : Forward(r, ctx) /\ Moved(r, ctx) /\ Admitted(r, ctx)
           \/ Refuse(r, "Unauthenticated", "identity") /\ Refused(r, "identity") /\ Records(r)
<1>1. CASE conf.requireMatch /\ ~IdentityMatches(Ctx(r), cred)
  <2>1. Refuse(r, "Unauthenticated", "identity")
      BY <1>1 DEF Admit
  <2>2. "Unauthenticated" \in Codes /\ "identity" \in Whys
      BY DEF Codes, Whys
  <2> QED
      BY <2>1, <2>2, RefusedWell
<1>2. CASE ~(conf.requireMatch /\ ~IdentityMatches(Ctx(r), cred))
  <2> DEFINE ctx == [Ctx(r) EXCEPT !.cred = cred]
  <2>1. ctx \in Contexts /\ ctx.id = Ctx(r).id /\ ctx.cred = cred
      BY DEF Contexts
  <2>2. Forward(r, ctx)
      BY <1>2 DEF Admit
  <2> HIDE DEF ctx
  <2>3. Moved(r, ctx)
      BY <2>1, <2>2, ForwardMoves DEF GBase
  <2>4. Admitted(r, ctx)
      BY <1>2, <2>1 DEF Admitted
  <2> QED
      BY <2>1, <2>2, <2>3, <2>4
<1> QED
    BY <1>1, <1>2

LEMMA NewContextIs == NewContext \in Contexts /\ NewContext.cred.subject = ""
BY DEF NewContext, Contexts, Credentials, Names

LEMMA ArriveEffect ==
    ASSUME GBase, NEW r \in Reqs, Arrive(r)
    PROVE  ServerFrame /\ EffArrive(r)
<1>1. ServerFrame /\ srv[r].st = "sent" /\ CallOn(r, 0, NewContext) /\ seen' = seen /\ nonces' = nonces
    BY DEF Arrive, ServerFrame, stores
<1>2. Placed(r) /\ srv[r].pos = 0
    BY <1>1 DEF GBase, Placed
<1>3. srv[r].pos \in 0..Len(Chain(r))
  <2>1. Len(Chain(r)) \in Nat
      BY ChainIs DEF GBase, GTyped
  <2> QED
      BY <1>2, <2>1
<1>4. Moved(r, NewContext)
    BY <1>1, <1>2, <1>3, NewContextIs, CallOnMoves DEF GBase
<1> QED
    BY <1>1, <1>4 DEF EffArrive

LEMMA HandlerEffect ==
    ASSUME GBase, NEW r \in Reqs, NEW res \in {"OK", "Unknown", "panic"}, Handler(r, res)
    PROVE  ServerFrame /\ EffHandle(r)
<1>1. ServerFrame /\ nonces' = nonces /\ srv[r].st = "in" /\ srv[r].pos > Len(Chain(r))
    BY DEF Handler, ServerFrame, stores
<1>2. srv[r].pos = Len(Chain(r)) + 1
  <2>1. srv[r].pos \in 1..(Len(Chain(r)) + 1) /\ Len(Chain(r)) \in Nat
      BY <1>1, ChainIs DEF GBase, GTyped, Placed
  <2> QED
      BY <1>1, <2>1
<1>3. /\ Ended(r) /\ srv'[r].handled /\ srv'[r].why = srv[r].why /\ srv'[r].panicked = (res = "panic")
      /\ srv'[r].res = RecoveryInterceptor(r, 0, srv[r].pos, res)
    BY HandlerEnds DEF GBase
<1>4. \E s : Unwind(s, r, res)
    BY DEF Handler
<1>5. PICK s : Unwind(s, r, res)
    BY <1>4
<1>6. res \in Codes
    BY DEF Codes
<1>7. Records(r)
    BY <1>1, <1>2, <1>3, <1>5, <1>6, UnwindRecords DEF Records
<1> QED
    BY <1>1, <1>2, <1>3, <1>7 DEF EffHandle

LEMMA MTLSEffect ==
    ASSUME GBase, NEW r \in Reqs, MTLSInterceptor(r)
    PROVE  ServerFrame /\ (EffPass(r) \/ EffRefuse(r))
<1> DEFINE cert == call[r[1]].cert
           name == ParseCertificateIdentity(cert)
<1>1. ServerFrame /\ nonces' = nonces /\ At(r, "mtls")
    BY DEF MTLSInterceptor, ServerFrame, stores
<1>2. Ctx(r) \in Contexts /\ srv[r].st \in {"in", "validating"}
    BY <1>1, AtFacts
<1>3. cert \in Certs \cup {NoCert}
    BY RequestIs, CallFields DEF GBase, GTyped
<1>4. "certificate" \in Whys /\ "service" \in Whys
    BY DEF Whys
<1>5. \/ Forward(r, Ctx(r))
      \/ Refuse(r, "Unauthenticated", "certificate")
      \/ Refuse(r, "Unauthenticated", "service")
      \/ cert # NoCert /\ Forward(r, [Ctx(r) EXCEPT !.id = name])
    BY DEF MTLSInterceptor
<1>6. CASE Forward(r, Ctx(r))
  <2>1. Passable(r, Ctx(r))
      BY <1>1 DEF Passable
  <2> QED
      BY <1>1, <1>2, <1>6, <2>1, PassEffect
<1>7. CASE Refuse(r, "Unauthenticated", "certificate")
    BY <1>1, <1>2, <1>4, <1>7, RefuseEffect
<1>8. CASE Refuse(r, "Unauthenticated", "service")
    BY <1>1, <1>2, <1>4, <1>8, RefuseEffect
<1>9. CASE cert # NoCert /\ Forward(r, [Ctx(r) EXCEPT !.id = name])
  <2>1. name \in Names
      BY <1>3, <1>9, CertIs
  <2> DEFINE ctx == [Ctx(r) EXCEPT !.id = name]
  <2> HIDE DEF name
  <2>2. ctx \in Contexts /\ ctx.cred = Ctx(r).cred
      BY <1>2, <2>1 DEF Contexts
  <2>3. Forward(r, ctx)
      BY <1>9 DEF name
  <2> HIDE DEF ctx
  <2>4. Passable(r, ctx)
      BY <1>1, <2>2 DEF Passable
  <2> QED
      BY <1>1, <2>2, <2>3, <2>4, PassEffect
<1> QED
    BY <1>1, <1>5, <1>6, <1>7, <1>8, <1>9

LEMMA ACLEffect ==
    ASSUME GBase, NEW r \in Reqs, ACLInterceptor(r) \/ PermissionInterceptor(r)
    PROVE  ServerFrame /\ (EffPass(r) \/ EffRefuse(r))
<1>1. ServerFrame /\ nonces' = nonces /\ (At(r, "acl") \/ At(r, "permission"))
    BY DEF ACLInterceptor, PermissionInterceptor, ServerFrame, stores
<1>2. Ctx(r) \in Contexts /\ srv[r].st \in {"in", "validating"}
    BY <1>1, AtFacts
<1>3. "caller" \in Whys /\ "acl" \in Whys /\ "permission" \in Whys
    BY DEF Whys
<1>4. \/ Forward(r, Ctx(r)) \/ Refuse(r, "Unauthenticated", "caller")
      \/ Refuse(r, "PermissionDenied", "acl") \/ Refuse(r, "PermissionDenied", "permission")
    BY DEF ACLInterceptor, PermissionInterceptor
<1>5. CASE Forward(r, Ctx(r))
  <2>1. Passable(r, Ctx(r))
      BY <1>1 DEF Passable
  <2> QED
      BY <1>1, <1>2, <1>5, <2>1, PassEffect
<1>6. CASE Refuse(r, "Unauthenticated", "caller")
    BY <1>1, <1>2, <1>3, <1>6, RefuseEffect
<1>7. CASE Refuse(r, "PermissionDenied", "acl")
    BY <1>1, <1>2, <1>3, <1>7, RefuseEffect
<1>8. CASE Refuse(r, "PermissionDenied", "permission")
    BY <1>1, <1>2, <1>3, <1>8, RefuseEffect
<1> QED
    BY <1>1, <1>4, <1>5, <1>6, <1>7, <1>8

LEMMA ValidatedIs ==
    ASSUME NEW md \in Metadata, NEW type \in CredTypes
    PROVE  Validated(type, md) \in Credentials
BY DEF Validated, Credentials, Metadata, CredTypes

LEMMA CredentialEffect ==
    ASSUME GBase, NEW r \in Reqs, CredentialInterceptor(r)
    PROVE  ServerFrame /\ (EffPass(r) \/ EffRefuse(r) \/ EffBegin(r))
<1> DEFINE md == srv[r].md
           type == Extract(md)
           skip == Skipped(r) \/ (type = "none" /\ conf.optional)
<1>1. ServerFrame /\ nonces' = nonces /\ At(r, "credential")
    BY DEF CredentialInterceptor, ServerFrame, stores
<1>2. Ctx(r) \in Contexts /\ srv[r].st \in {"in", "validating"} /\ srv[r].pos \in 0..Len(Chain(r))
    BY <1>1, AtFacts
<1>3. "type" \in Whys /\ "key" \in Whys /\ "timestamp" \in Whys /\ "nonce" \in Whys /\ "identity" \in Whys
    BY DEF Whys
<1>4. md \in Metadata
    BY RequestFields DEF GBase, GTyped
<1>5. \/ skip /\ Forward(r, Ctx(r))
      \/ Refuse(r, "Unauthenticated", "type")
      \/ type = "bearer" /\ Admit(r, Validated(type, md))
      \/ type = "api_key" /\ KeyOK(md.key) /\ Admit(r, Validated(type, md))
      \/ Refuse(r, "Unauthenticated", "key")
      \/ Refuse(r, "Unauthenticated", "timestamp")
      \/ type = "hmac" /\ nonces[md.nonce] # Absent /\ Refuse(r, "Unauthenticated", "nonce")
      \/ /\ ~skip /\ type = "hmac" /\ TimestampOK(md.ts) /\ nonces[md.nonce] = Absent /\ Begun(r)
         /\ seen' = seen
    BY DEF CredentialInterceptor, Begun
<1>6. CASE skip /\ Forward(r, Ctx(r))
  <2>1. Passable(r, Ctx(r))
      BY <1>1, <1>6 DEF Passable
  <2> QED
      BY <1>1, <1>2, <1>6, <2>1, PassEffect
<1>7. CASE Refuse(r, "Unauthenticated", "type")
    BY <1>1, <1>2, <1>3, <1>7, RefuseEffect
<1>8. CASE Refuse(r, "Unauthenticated", "key")
    BY <1>1, <1>2, <1>3, <1>8, RefuseEffect
<1>9. CASE Refuse(r, "Unauthenticated", "timestamp")
    BY <1>1, <1>2, <1>3, <1>9, RefuseEffect
<1>10. CASE type = "hmac" /\ nonces[md.nonce] # Absent /\ Refuse(r, "Unauthenticated", "nonce")
    BY <1>1, <1>2, <1>3, <1>10, RefuseEffect
<1>11. CASE type \in {"bearer", "api_key"} /\ (type = "api_key" => KeyOK(md.key)) /\ Admit(r, Validated(type, md))
  <2>1. Validated(type, md) \in Credentials
      BY <1>4, <1>11, ValidatedIs DEF CredTypes
  <2> DEFINE cred == Validated(type, md)
  <2> HIDE DEF cred
  <2>2. \/ \E ctx \in Contexts : Forward(r, ctx) /\ Moved(r, ctx) /\ Admitted(r, ctx)
        \/ Refuse(r, "Unauthenticated", "identity")
      BY <1>1, <1>2, <1>11, <2>1, AdmitEffect DEF cred
  <2>3. CASE \E ctx \in Contexts : Forward(r, ctx) /\ Moved(r, ctx) /\ Admitted(r, ctx)
    <3>1. PICK ctx \in Contexts : Moved(r, ctx) /\ Admitted(r, ctx)
        BY <2>3
    <3>2. Passable(r, ctx)
        BY <1>1, <1>11, <3>1 DEF Passable
    <3> QED
        BY <1>1, <3>1, <3>2 DEF EffPass
  <2>4. CASE Refuse(r, "Unauthenticated", "identity")
      BY <1>1, <1>2, <1>3, <2>4, RefuseEffect
  <2> QED
      BY <1>1, <2>2, <2>3, <2>4
<1>12. CASE /\ ~skip /\ type = "hmac" /\ TimestampOK(md.ts) /\ nonces[md.nonce] = Absent /\ Begun(r)
            /\ seen' = seen
    BY <1>1, <1>12 DEF EffBegin
<1> QED
    BY <1>1, <1>5, <1>6, <1>7, <1>8, <1>9, <1>10, <1>11, <1>12

LEMMA SignatureEffect ==
    ASSUME GBase, NEW r \in Reqs, ValidateSignature(r)
    PROVE  ServerFrame /\ (EffStore(r) \/ EffRefuse(r))
<1> DEFINE md == srv[r].md
           good == md.key \in HmacKeys /\ md.sig = ComputeHMACSignature(md.key, md.key, md.ts, md.nonce)
<1>1. ServerFrame /\ srv[r].st = "validating"
    BY DEF ValidateSignature, ServerFrame, stores
<1>2. Ctx(r) \in Contexts /\ srv[r].pos \in 0..Len(Chain(r))
    BY <1>1, ValidatingFacts
<1>3. CASE good
  <2>1. nonces' = [nonces EXCEPT ![md.nonce] = now + NonceTTL] /\ Admit(r, Validated("hmac", md))
      BY <1>3 DEF ValidateSignature
  <2>2. Validated("hmac", md) \in Credentials
      BY RequestFields, ValidatedIs DEF CredTypes, GBase, GTyped
  <2> DEFINE cred == Validated("hmac", md)
  <2> HIDE DEF cred
  <2>3. \/ \E ctx \in Contexts : Moved(r, ctx) /\ Admitted(r, ctx)
        \/ Refused(r, "identity") /\ Records(r)
      BY <1>1, <1>2, <2>1, <2>2, AdmitEffect DEF cred
  <2> QED
      BY <1>1, <2>1, <2>3 DEF EffStore
<1>4. CASE ~good
  <2>1. Refuse(r, "Unauthenticated", "signature") /\ nonces' = nonces
      BY <1>4 DEF ValidateSignature
  <2>2. "signature" \in Whys
      BY DEF Whys
  <2> QED
      BY <1>1, <2>1, <2>2, RefuseEffect
<1> QED
    BY <1>3, <1>4

\* Every step of the server keeps the invariant.
ServerEffect(r) ==
    EffArrive(r) \/ EffPass(r) \/ EffRefuse(r) \/ EffBegin(r) \/ EffStore(r) \/ EffHandle(r)

LEMMA ServerEffects ==
    ASSUME GBase, NEW r \in Reqs, ServerStep(r) \/ \E res \in {"OK", "Unknown", "panic"} : Handler(r, res)
    PROVE  ServerFrame /\ ServerEffect(r)
BY ArriveEffect, MTLSEffect, CredentialEffect, SignatureEffect, ACLEffect, HandlerEffect
   DEF ServerStep, ServerEffect

LEMMA ServerKeeps ==
    ASSUME GInv, NEW r \in Reqs, ServerFrame, ServerEffect(r)
    PROVE  GInv'
<1>1. GBase /\ GClaims /\ GTyped /\ Placed(r) /\ nonces \in [Reqs -> Nat \cup {Absent}]
    BY DEF GInv, GBase, GTyped
<1>2. CASE EffArrive(r)
  <2>1. srv[r].pos = 0 /\ srv[r].st = "sent" /\ Moved(r, NewContext) /\ nonces' = nonces
      BY <1>1, <1>2 DEF EffArrive, Placed
  <2>2. srv[r].pos \in 0..Len(Chain(r))
    <3>1. Len(Chain(r)) \in Nat
        BY <1>1, ChainIs DEF GTyped
    <3> QED
        BY <2>1, <3>1
  <2>3. GBase'
      BY <1>1, <2>1, <2>2, MovedBase
  <2>4. GClaims'
      BY <1>1, <2>1, <2>2, MovedClaims
  <2> QED
      BY <2>3, <2>4 DEF GInv
<1>3. CASE EffPass(r)
  <2>1. PICK ctx \in Contexts : Moved(r, ctx) /\ Passable(r, ctx)
      BY <1>3 DEF EffPass
  <2>2. PICK x \in Guards : At(r, x)
      BY <2>1 DEF Passable, Guards
  <2>3. srv[r].pos \in 0..Len(Chain(r)) /\ srv[r].st = "in" /\ Here(r) = x /\ nonces' = nonces
      BY <1>1, <1>3, <2>2, AtFacts DEF EffPass
  <2>4. Here(r) # "credential" \/ Extract(srv[r].md) # "hmac" \/ Skipped(r)
      BY <2>1, <2>3 DEF Passable, At
  <2>5. GBase'
      BY <1>1, <2>1, <2>3, MovedBase
  <2>6. GClaims'
      BY <1>1, <2>1, <2>3, <2>4, MovedClaims
  <2> QED
      BY <2>5, <2>6 DEF GInv
<1>4. CASE EffRefuse(r)
  <2>1. PICK why \in Whys : Refused(r, why)
      BY <1>4 DEF EffRefuse
  <2>2. Ended(r) /\ srv[r].st \in {"in", "validating"} /\ nonces' = nonces /\ ~srv'[r].handled
      BY <1>1, <1>4, <2>1 DEF EffRefuse, Refused, Placed
  <2>3. GBase'
      BY <1>1, <2>2, EndedBase
  <2>4. GClaims'
      BY <1>1, <2>2, EndedClaims
  <2> QED
      BY <2>3, <2>4 DEF GInv
<1>5. CASE EffBegin(r)
  <2>1. GBase' /\ GClaims'
      BY <1>1, <1>5, StartsValidating DEF EffBegin
  <2> QED
      BY <2>1 DEF GInv
<1>6. CASE EffStore(r)
  <2>1. srv[r].st = "validating" /\ nonces' = [nonces EXCEPT ![srv[r].md.nonce] = now + NonceTTL]
      BY <1>6 DEF EffStore
  <2>2. srv[r].pos \in 0..Len(Chain(r))
      BY <1>1, <2>1, ValidatingFacts
  <2>3. CASE \E ctx \in Contexts : Moved(r, ctx) /\ Admitted(r, ctx)
    <3>1. PICK ctx \in Contexts : Moved(r, ctx)
        BY <2>3
    <3>2. ASSUME NEW q \in Reqs
          PROVE  /\ srv'[q].md = srv[q].md /\ srv'[q].overlap = srv[q].overlap
                 /\ Accepted(q)' => Accepted(q) \/ q = r
                 /\ srv'[q].st = "validating" => srv[q].st = "validating"
        BY <1>1, <2>2, <3>1, MovedWay
    <3>3. \A q \in Reqs : Claimed(q)' => Claimed(q)
        BY <2>1, <3>2 DEF Claimed
    <3>4. GClaims' /\ nonces' \in [Reqs -> Nat \cup {Absent}]
        BY <1>1, <2>1, <3>2, <3>3, StoreClaims
    <3>5. GBase'
        BY <1>1, <2>1, <2>2, <3>1, <3>4, MovedBase
    <3> QED
        BY <3>4, <3>5 DEF GInv
  <2>4. CASE Refused(r, "identity")
    <3>1. Ended(r) /\ ~srv'[r].handled
        BY <1>1, <2>1, <2>4 DEF Refused, Placed
    <3>2. ASSUME NEW q \in Reqs
          PROVE  /\ srv'[q].md = srv[q].md /\ srv'[q].overlap = srv[q].overlap
                 /\ Accepted(q)' => Accepted(q)
                 /\ Claimed(q)' => Claimed(q)
        BY <3>1, EndedWay
    <3>3. GClaims' /\ nonces' \in [Reqs -> Nat \cup {Absent}]
        BY <1>1, <2>1, <3>2, StoreClaims
    <3>4. GBase'
        BY <1>1, <2>1, <3>1, <3>3, EndedBase
    <3> QED
        BY <3>3, <3>4 DEF GInv
  <2> QED
      BY <1>6, <2>3, <2>4 DEF EffStore
<1>7. CASE EffHandle(r)
  <2>1. Ended(r) /\ srv[r].st = "in" /\ srv[r].pos = Len(Chain(r)) + 1 /\ nonces' = nonces
      BY <1>7 DEF EffHandle
  <2>2. GBase'
      BY <1>1, <2>1, EndedBase
  <2>3. GClaims'
      BY <1>1, <2>1, EndedClaims
  <2> QED
      BY <2>2, <2>3 DEF GInv
<1> QED
    BY <1>2, <1>3, <1>4, <1>5, <1>6, <1>7 DEF ServerEffect

-----------------------------------------------------------------------------
(* The steps of the client.                                                 *)

ClientFrame ==
    /\ conf' = conf /\ acl' = acl /\ keys' = keys /\ admin' = admin /\ now' = now /\ nonces' = nonces
    /\ seen' = seen

\* A request of another call, or one of this call whose kind and method stay.
LEMMA RequestStays ==
    ASSUME GInv, ClientFrame, NEW q \in Reqs, srv'[q] = srv[q],
           call'[q[1]].kind = call[q[1]].kind, call'[q[1]].method = call[q[1]].method,
           call'[q[1]].md = call[q[1]].md, Unsent(q)' => Unsent(q)
    PROVE  /\ Placed(q)' /\ NonceOf(q)' /\ Validating(q)' /\ Accepted(q)' = Accepted(q)
           /\ Chain(q)' = Chain(q) /\ Skipped(q)' = Skipped(q)
           /\ \A x : Passed(q, x)' = Passed(q, x)
<1>1. Placed(q) /\ NonceOf(q) /\ Validating(q) /\ now' = now /\ conf' = conf
    BY DEF GInv, GBase, ClientFrame
<1>2. Chain(q)' = Chain(q) /\ Skipped(q)' = Skipped(q) /\ PerAttempt("credential")' = PerAttempt("credential")
    BY <1>1, Untouched DEF PerAttempt
<1>3. Placed(q)'
    BY <1>1, <1>2 DEF Placed
<1>4. NonceOf(q)'
    BY <1>1, <1>2 DEF NonceOf, Signed
<1>5. Validating(q)'
    BY <1>1, <1>2 DEF Validating, Here
<1> QED
    BY <1>2, <1>3, <1>4, <1>5, SameWay

\* A request that is not, or no longer, on its way.
LEMMA IdleRequest ==
    ASSUME GInv, ClientFrame, NEW q \in Reqs, srv[q].st \in {"none", "sent"}, srv'[q].st \in {srv[q].st, "lost"},
           srv'[q].pos = srv[q].pos, srv'[q].ctxs = srv[q].ctxs, srv'[q].md = srv[q].md,
           srv'[q].handled = srv[q].handled, srv'[q].why = srv[q].why,
           srv'[q].st = "lost" => srv[q].st = "sent" /\ call'[q[1]].md = call[q[1]].md,
           srv'[q].st = "sent" => call'[q[1]].md = call[q[1]].md,
           Unsent(q)' => Unsent(q)
    PROVE  /\ Placed(q)' /\ NonceOf(q)' /\ Validating(q)' /\ ~Accepted(q)' /\ ~Claimed(q)'
           /\ \A x : ~Passed(q, x)'
<1>1. Placed(q) /\ NonceOf(q) /\ conf' = conf
    BY DEF GInv, GBase, ClientFrame
<1>2. srv[q].pos = 0
    BY <1>1 DEF Placed
<1>3. Placed(q)'
    BY <1>1, <1>2 DEF Placed
<1>4. PerAttempt("credential")' = PerAttempt("credential")
    BY <1>1 DEF PerAttempt
<1>5. NonceOf(q)'
    BY <1>1, <1>4 DEF NonceOf, Signed
<1>6. Validating(q)'
    BY DEF Validating
<1>7. Len(srv'[q].ctxs) = 0
    BY <1>1, <1>2 DEF Placed
<1>8. 1..(Len(srv'[q].ctxs) - 1) = {}
    BY <1>7
<1>9. \A x : ~Passed(q, x)'
    BY <1>8 DEF Passed
<1> QED
    BY <1>3, <1>5, <1>6, <1>9 DEF Accepted, Claimed

\* A call goes on with its metadata; a request of it may be lost.
GoesOn(c, x) ==
    /\ call' = [call EXCEPT ![c] = x]
    /\ x.kind = call[c].kind /\ x.method = call[c].method /\ x.md = call[c].md
    /\ x.pc \notin {"idle", "outer"} /\ (x.pc = "backoff" => x.k < MaxRetries)
    /\ \/ x.k = call[c].k /\ (x.pc = "invoke" => call[c].pc = "invoke")
       \/ x.k = call[c].k + 1
    /\ \/ srv' = srv
       \/ \E r \in Reqs : srv[r].st = "sent" /\ srv' = [srv EXCEPT ![r].st = "lost"]

\* A request that is lost on its way.
Lost(q) ==
    /\ srv[q].st = "sent" /\ srv'[q].st = "lost" /\ srv'[q].pos = srv[q].pos
    /\ srv'[q].ctxs = srv[q].ctxs /\ srv'[q].md = srv[q].md /\ srv'[q].handled = srv[q].handled
    /\ srv'[q].why = srv[q].why /\ srv'[q].stale = srv[q].stale /\ srv'[q] \in Requests

LEMMA ClientGoesOn ==
    ASSUME GInv, ClientFrame, NEW c \in Calls, NEW x \in ClientCalls, GoesOn(c, x)
    PROVE  /\ GInv'
           /\ \A q \in Reqs : Skipped(q)' = Skipped(q) /\ Chain(q)' = Chain(q)
           /\ \A q \in Reqs : \A g : Passed(q, g)' = Passed(q, g)
           /\ \A q \in Reqs : srv'[q] = srv[q] \/ Lost(q)
<1>1. GBase /\ GClaims /\ GTyped /\ call \in [Calls -> ClientCalls] /\ srv \in [Reqs -> Requests] /\ conf' = conf
    BY DEF GInv, GBase, GTyped, ClientFrame
<1>2. call' \in [Calls -> ClientCalls] /\ call'[c] = x /\ \A d \in Calls : d # c => call'[d] = call[d]
    BY <1>1 DEF GoesOn
<1>0. /\ x.kind = call[c].kind /\ x.method = call[c].method /\ x.md = call[c].md
       /\ x.pc \notin {"idle", "outer"} /\ (x.pc = "backoff" => x.k < MaxRetries)
    BY DEF GoesOn
<1>3. ASSUME NEW q \in Reqs
      PROVE  /\ call'[q[1]].kind = call[q[1]].kind /\ call'[q[1]].method = call[q[1]].method
             /\ call'[q[1]].md = call[q[1]].md /\ (Unsent(q)' => Unsent(q))
  <2>1. q[1] \in Calls /\ q[2] \in 0..MaxRetries
      BY RequestIs
  <2>2. CASE q[1] # c
      BY <1>2, <2>1, <2>2 DEF Unsent
  <2>3. CASE q[1] = c
    <3>1. call[c].k \in Nat /\ x.k \in Nat
        BY <1>1, CallFields
    <3>2. CASE x.k = call[c].k /\ (x.pc = "invoke" => call[c].pc = "invoke")
        BY <1>2, <1>0, <2>3, <3>2 DEF Unsent
    <3>3. CASE x.k = call[c].k + 1
      <4>1. q[2] >= x.k => q[2] > call[c].k
          BY <2>1, <3>1, <3>3
      <4>2. Unsent(q)' => q[2] >= x.k
          BY <1>2, <2>1, <2>3, <3>1 DEF Unsent
      <4> QED
          BY <1>2, <1>0, <2>3, <4>1, <4>2 DEF Unsent
    <3> QED
        BY <3>2, <3>3 DEF GoesOn
  <2> QED
      BY <2>2, <2>3
<1>4. ASSUME NEW q \in Reqs
      PROVE  srv'[q] = srv[q] \/ Lost(q)
  <2>1. CASE \E r \in Reqs : srv[r].st = "sent" /\ srv' = [srv EXCEPT ![r].st = "lost"]
    <3>1. PICK r \in Reqs : srv[r].st = "sent" /\ srv' = [srv EXCEPT ![r].st = "lost"]
        BY <2>1
    <3>2. srv[q] \in Requests
        BY <1>1
    <3>3. CASE q # r
        BY <1>1, <3>1, <3>3
    <3>4. CASE q = r
      <4>1. srv'[q] = [srv[q] EXCEPT !.st = "lost"]
          BY <1>1, <3>1, <3>4
      <4>2. srv'[q] \in Requests /\ srv'[q].st = "lost"
          BY <3>2, <4>1 DEF Requests, Stages
      <4>3. /\ srv'[q].pos = srv[q].pos /\ srv'[q].ctxs = srv[q].ctxs /\ srv'[q].md = srv[q].md
            /\ srv'[q].why = srv[q].why
          BY <3>2, <4>1 DEF Requests
      <4>4. srv'[q].handled = srv[q].handled /\ srv'[q].stale = srv[q].stale
          BY <3>2, <4>1 DEF Requests
      <4> QED
          BY <3>1, <3>4, <4>2, <4>3, <4>4 DEF Lost
    <3> QED
        BY <3>3, <3>4
  <2> QED
      BY <2>1 DEF GoesOn
<1>5. srv' \in [Reqs -> Requests]
  <2>1. srv' = [q \in Reqs |-> srv'[q]]
      BY <1>1 DEF GoesOn
  <2>2. \A q \in Reqs : srv'[q] \in Requests
      BY <1>1, <1>4 DEF Lost
  <2> QED
      BY <2>1, <2>2
<1>6. ASSUME NEW q \in Reqs
      PROVE  /\ Placed(q)' /\ NonceOf(q)' /\ Validating(q)' /\ (Accepted(q)' => Accepted(q))
             /\ Claimed(q)' => Claimed(q) /\ srv'[q].md = srv[q].md /\ srv[q].overlap \subseteq srv'[q].overlap
             /\ \A g : Passed(q, g)' = Passed(q, g)
  <2>1. CASE srv'[q] = srv[q]
      BY <1>3, <2>1, RequestStays DEF Claimed
  <2>2. CASE srv'[q] # srv[q]
    <3>1. /\ srv[q].st = "sent" /\ srv'[q].st = "lost" /\ srv'[q].pos = srv[q].pos
          /\ srv'[q].ctxs = srv[q].ctxs /\ srv'[q].md = srv[q].md /\ srv'[q].handled = srv[q].handled
          /\ srv'[q].why = srv[q].why
        BY <1>4, <2>2 DEF Lost
    <3>2. /\ Placed(q)' /\ NonceOf(q)' /\ Validating(q)' /\ ~Accepted(q)' /\ ~Claimed(q)'
          /\ \A g : ~Passed(q, g)'
        BY <1>3, <3>1, IdleRequest
    <3>3. \A g : ~Passed(q, g)
        BY <1>1, <3>1, NothingPassed DEF GBase, Placed
    <3>4. \A g : Passed(q, g)' = Passed(q, g)
        BY <3>2, <3>3 DEF Passed
    <3> QED
        BY <3>2, <3>4
  <2> QED
      BY <2>1, <2>2
<1>7. ASSUME NEW d \in Calls PROVE CallNonce(d)'
  <2>1. CallNonce(d)
      BY <1>1 DEF GBase
  <2>2. CASE d # c
      BY <1>2, <2>1, <2>2 DEF CallNonce, Signed
  <2>3. CASE d = c
      BY <1>2, <1>0, <2>1, <2>3 DEF CallNonce, Signed
  <2> QED
      BY <2>2, <2>3
<1>8. GTyped'
    BY <1>1, <1>2, <1>5 DEF GTyped, ClientFrame
<1>9. GBase'
    BY <1>6, <1>7, <1>8 DEF GBase
<1>10. GClaims'
    BY <1>1, <1>6, QuietClaims DEF ClientFrame
<1>11. \A q \in Reqs : Skipped(q)' = Skipped(q) /\ Chain(q)' = Chain(q)
    BY <1>1, <1>3, Untouched
<1> QED
    BY <1>4, <1>6, <1>9, <1>10, <1>11 DEF GInv

\* A call begins: nothing of it has been sent.
Prepares(c, x) ==
    /\ call' = [call EXCEPT ![c] = x] /\ srv' = srv
    /\ call[c].pc \in {"idle", "outer"} /\ x.pc \in {"outer", "invoke"} /\ x.k = 0
    /\ Signed(x.md) /\ (x.md.nonce \in Reqs => x.md.nonce[1] = c)

LEMMA ClientPrepares ==
    ASSUME GInv, ClientFrame, NEW c \in Calls, NEW x \in ClientCalls, Prepares(c, x)
    PROVE  /\ GInv'
           /\ \A q \in Reqs : srv'[q] = srv[q]
           /\ \A q \in Reqs : \/ srv[q].pos = 0 /\ (\A g : ~Passed(q, g)') /\ (\A g : ~Passed(q, g))
                              \/ /\ Skipped(q)' = Skipped(q) /\ Chain(q)' = Chain(q)
                                 /\ \A g : Passed(q, g)' = Passed(q, g)
<1>1. GBase /\ GClaims /\ GTyped /\ call \in [Calls -> ClientCalls] /\ srv \in [Reqs -> Requests] /\ conf' = conf
      /\ srv' = srv
    BY DEF GInv, GBase, GTyped, ClientFrame, Prepares
<1>2. call' \in [Calls -> ClientCalls] /\ call'[c] = x /\ \A d \in Calls : d # c => call'[d] = call[d]
    BY <1>1 DEF Prepares
<1>3. call[c].k = 0 /\ call[c].pc \in {"idle", "outer"} /\ x.k = 0
    BY <1>1 DEF GBase, CallNonce, Prepares
<1>4. ASSUME NEW q \in Reqs, q[1] = c PROVE srv[q].st = "none" /\ (Unsent(q)' => Unsent(q))
  <2>1. q[2] \in 0..MaxRetries /\ MaxRetries \in Nat
      BY RequestIs, GBounds
  <2>2. q[2] > 0 \/ q[2] = 0
      BY <2>1
  <2>3. Unsent(q)
      BY <1>3, <1>4, <2>2 DEF Unsent
  <2> QED
      BY <1>1, <2>3 DEF GBase, NonceOf
<1>5. ASSUME NEW q \in Reqs
      PROVE  /\ Placed(q)' /\ NonceOf(q)' /\ Validating(q)' /\ (Accepted(q)' => Accepted(q))
             /\ Claimed(q)' => Claimed(q) /\ srv'[q].md = srv[q].md /\ srv[q].overlap \subseteq srv'[q].overlap
             /\ \/ srv[q].pos = 0 /\ (\A g : ~Passed(q, g)') /\ (\A g : ~Passed(q, g))
                \/ /\ Skipped(q)' = Skipped(q) /\ Chain(q)' = Chain(q)
                   /\ \A g : Passed(q, g)' = Passed(q, g)
  <2>1. CASE q[1] # c
    <3>1. call'[q[1]] = call[q[1]]
        BY <1>2, <2>1, RequestIs
    <3>2. Unsent(q)' => Unsent(q)
        BY <3>1 DEF Unsent
    <3> QED
        BY <1>1, <3>1, <3>2, RequestStays DEF Claimed
  <2>2. CASE q[1] = c
    <3>1. srv[q].st = "none" /\ (Unsent(q)' => Unsent(q)) /\ srv'[q] = srv[q]
        BY <1>1, <1>4, <2>2
    <3>2. /\ Placed(q)' /\ NonceOf(q)' /\ Validating(q)' /\ ~Accepted(q)' /\ ~Claimed(q)'
          /\ \A g : ~Passed(q, g)'
        BY <3>1, IdleRequest
    <3>3. srv[q].pos = 0 /\ \A g : ~Passed(q, g)
        BY <1>1, <3>1, NothingPassed DEF GBase, Placed
    <3> QED
        BY <3>2, <3>3
  <2> QED
      BY <2>1, <2>2
<1>6. ASSUME NEW d \in Calls PROVE CallNonce(d)'
  <2>1. CallNonce(d)
      BY <1>1 DEF GBase
  <2>2. CASE d # c
      BY <1>2, <2>1, <2>2 DEF CallNonce, Signed
  <2>3. CASE d = c
      BY <1>2, <2>3 DEF CallNonce, Signed, Prepares
  <2> QED
      BY <2>2, <2>3
<1>7. GTyped'
    BY <1>1, <1>2 DEF GTyped, ClientFrame
<1>8. GBase'
    BY <1>5, <1>6, <1>7 DEF GBase
<1>9. GClaims'
    BY <1>1, <1>5, QuietClaims DEF ClientFrame
<1> QED
    BY <1>1, <1>5, <1>8, <1>9 DEF GInv

\* An attempt is sent, as the first and only one of its number.
Sends(c, x, y) ==
    /\ call' = [call EXCEPT ![c] = x] /\ srv' = [srv EXCEPT ![<<c, call[c].k>>] = y]
    /\ call[c].pc = "invoke" /\ x.pc = "wait" /\ x.k = call[c].k
    /\ x.kind = call[c].kind /\ x.method = call[c].method /\ x.md = call[c].md
    /\ y.st = "sent" /\ y.pos = 0 /\ y.ctxs = <<>> /\ ~y.handled /\ y.why = "" /\ Signed(y.md)
    /\ IF PerAttempt("credential") THEN y.md.nonce \in {<<>>, <<c, call[c].k>>} ELSE y.md = call[c].md
    /\ y.stale => Extract(y.md) = "api_key" /\ KeyIsDead(y.md.key)

LEMMA ClientSends ==
    ASSUME GInv, ClientFrame, NEW c \in Calls, NEW x \in ClientCalls, NEW y \in Requests, Sends(c, x, y),
           NEW r \in Reqs, r = <<c, call[c].k>>
    PROVE  /\ GInv'
           /\ \A q \in Reqs : Skipped(q)' = Skipped(q) /\ Chain(q)' = Chain(q)
           /\ \A q \in Reqs : q # r => srv'[q] = srv[q] /\ \A g : Passed(q, g)' = Passed(q, g)
           /\ srv'[r] = y /\ (\A g : ~Passed(r, g)') /\ srv[r].st = "none" /\ \A g : ~Passed(r, g)
<1>1. GBase /\ GClaims /\ GTyped /\ call \in [Calls -> ClientCalls] /\ srv \in [Reqs -> Requests] /\ conf' = conf
    BY DEF GInv, GBase, GTyped, ClientFrame
<1>2. call' \in [Calls -> ClientCalls] /\ call'[c] = x /\ \A d \in Calls : d # c => call'[d] = call[d]
    BY <1>1 DEF Sends
<1>3. call[c].k \in 0..MaxRetries
    BY <1>1, CallFields
<1>4. r[1] = c /\ r[2] = call[c].k
    OBVIOUS
<1>5. /\ call[c].pc = "invoke" /\ x.pc = "wait" /\ x.k = call[c].k
      /\ x.kind = call[c].kind /\ x.method = call[c].method /\ x.md = call[c].md
    BY DEF Sends
<1>6. srv' = [srv EXCEPT ![r] = y]
    BY DEF Sends
<1>7. srv' \in [Reqs -> Requests] /\ srv'[r] = y /\ \A q \in Reqs : q # r => srv'[q] = srv[q]
    BY <1>1, <1>4, <1>6
<1>8. ASSUME NEW q \in Reqs
      PROVE  /\ call'[q[1]].kind = call[q[1]].kind /\ call'[q[1]].method = call[q[1]].method
             /\ call'[q[1]].md = call[q[1]].md /\ (Unsent(q)' => Unsent(q))
  <2>1. q[1] \in Calls
      BY RequestIs
  <2>2. CASE q[1] # c
      BY <1>2, <2>1, <2>2 DEF Unsent
  <2>3. CASE q[1] = c
      BY <1>2, <1>5, <2>3 DEF Unsent
  <2> QED
      BY <2>2, <2>3
<1>9. ASSUME NEW q \in Reqs, q # r
      PROVE  /\ Placed(q)' /\ NonceOf(q)' /\ Validating(q)' /\ Accepted(q)' = Accepted(q)
             /\ srv'[q] = srv[q] /\ \A g : Passed(q, g)' = Passed(q, g)
    BY <1>7, <1>8, <1>9, RequestStays
<1>10. /\ y.st = "sent" /\ y.pos = 0 /\ y.ctxs = <<>> /\ ~y.handled /\ y.why = "" /\ Signed(y.md)
       /\ IF PerAttempt("credential") THEN y.md.nonce \in {<<>>, r} ELSE y.md = call[c].md
    BY DEF Sends
<1>11. Placed(r)'
  <2>1. Len(y.ctxs) = 0
      BY <1>10
  <2> QED
      BY <1>7, <1>10, <2>1 DEF Placed
<1>12. ~Unsent(r)'
  <2>1. ~(r[2] > x.k)
    <3>1. r[2] \in Nat /\ r[2] = x.k
        BY <1>3, <1>4, <1>5
    <3> QED
        BY <3>1
  <2> QED
      BY <1>2, <1>4, <1>5, <2>1 DEF Unsent
<1>13. NonceOf(r)'
  <2>1. PerAttempt("credential")' = PerAttempt("credential") /\ call'[r[1]].md = call[c].md
      BY <1>1, <1>4, <1>8 DEF PerAttempt
  <2>2. Signed(y.md)'  = Signed(y.md)
      BY DEF Signed
  <2> QED
      BY <1>7, <1>10, <1>12, <2>1, <2>2 DEF NonceOf, Signed
<1>14. Validating(r)'
    BY <1>7, <1>10 DEF Validating
<1>15. \A g : ~Passed(r, g)'
  <2>1. Len(srv'[r].ctxs) = 0
      BY <1>7, <1>10
  <2>2. 1..(Len(srv'[r].ctxs) - 1) = {}
      BY <2>1
  <2> QED
      BY <2>2 DEF Passed
<1>16. ~Claimed(r)' /\ ~Accepted(r)'
    BY <1>7, <1>10, <1>15 DEF Claimed, Accepted
<1>17. srv[r].st = "none" /\ \A g : ~Passed(r, g)
  <2>1. Unsent(r)
      BY <1>4, <1>5 DEF Unsent
  <2>2. srv[r].st = "none" /\ Placed(r)
      BY <1>1, <1>4, <2>1 DEF GBase, NonceOf
  <2>3. srv[r].pos = 0
      BY <2>2 DEF Placed
  <2> QED
      BY <1>4, <2>2, <2>3, NothingPassed
<1>18. ASSUME NEW d \in Calls PROVE CallNonce(d)'
  <2>1. CallNonce(d)
      BY <1>1 DEF GBase
  <2>2. CASE d # c
      BY <1>2, <2>1, <2>2 DEF CallNonce, Signed
  <2>3. CASE d = c
      BY <1>2, <1>5, <2>1, <2>3 DEF CallNonce, Signed
  <2> QED
      BY <2>2, <2>3
<1>19. GTyped'
    BY <1>1, <1>2, <1>7 DEF GTyped, ClientFrame
<1>20. GBase'
    BY <1>4, <1>9, <1>11, <1>13, <1>14, <1>18, <1>19 DEF GBase
<1>21. ASSUME NEW q \in Reqs
       PROVE  /\ Accepted(q)' => Accepted(q)
              /\ Claimed(q)' => Claimed(q) /\ srv'[q].md = srv[q].md /\ srv[q].overlap \subseteq srv'[q].overlap
    BY <1>9, <1>16 DEF Claimed
<1>22. GClaims'
    BY <1>1, <1>21, QuietClaims DEF ClientFrame
<1>23. \A q \in Reqs : Skipped(q)' = Skipped(q) /\ Chain(q)' = Chain(q)
    BY <1>1, <1>8, Untouched
<1> QED
    BY <1>4, <1>7, <1>9, <1>15, <1>17, <1>20, <1>22, <1>23 DEF GInv

ClientEffect(c) ==
    \/ \E x \in ClientCalls : GoesOn(c, x) \/ Prepares(c, x)
    \/ \E x \in ClientCalls, y \in Requests : Sends(c, x, y)

Results == Codes \cup {"none", "no token", "Unavailable", "DeadlineExceeded"}
SrvStaysOrLoses ==
    srv' = srv \/ \E r \in Reqs : srv[r].st = "sent" /\ srv' = [srv EXCEPT ![r].st = "lost"]

LEMMA LosesOrStays ==
    ASSUME NEW r \in Reqs, srv' \in {srv, IF srv[r].st = "sent" THEN [srv EXCEPT ![r].st = "lost"] ELSE srv}
    PROVE  SrvStaysOrLoses
BY DEF SrvStaysOrLoses

\* A call with a new place, result or deadline.
LEMMA CallGoesOn ==
    ASSUME GInv, NEW c \in Calls, call[c].pc \notin {"idle"}, SrvStaysOrLoses,
           NEW pc \in {"done", "backoff", "invoke"}, NEW k \in 0..MaxRetries, NEW res \in Results,
           NEW d \in {"none", "armed", "attempt"},
           call' = [call EXCEPT ![c] = [call[c] EXCEPT !.pc = pc, !.k = k, !.res = res, !.deadline = d]],
           pc = "backoff" => k < MaxRetries,
           IF pc = "invoke" THEN k = call[c].k + 1 ELSE k = call[c].k
    PROVE  ClientEffect(c)
<1> DEFINE x == [call[c] EXCEPT !.pc = pc, !.k = k, !.res = res, !.deadline = d]
<1>1. call[c] \in ClientCalls
    BY DEF GInv, GBase, GTyped
<1>2. /\ x \in ClientCalls /\ x.pc = pc /\ x.k = k /\ x.kind = call[c].kind /\ x.method = call[c].method
      /\ x.md = call[c].md
  <2>1. pc \in Waits /\ res \in Codes \cup {"none", "no token", "Unavailable", "DeadlineExceeded"}
      BY DEF Waits, Results
  <2>2. x \in ClientCalls
      BY <1>1, <2>1 DEF ClientCalls
  <2>3. /\ x.pc = pc /\ x.k = k /\ x.kind = call[c].kind /\ x.method = call[c].method
        /\ x.md = call[c].md
      BY <1>1 DEF ClientCalls
  <2> QED
      BY <2>2, <2>3
<1>3. call' = [call EXCEPT ![c] = x]
    OBVIOUS
<1> HIDE DEF x
<1>4. GoesOn(c, x)
    BY <1>2, <1>3 DEF GoesOn, SrvStaysOrLoses
<1> QED
    BY <1>2, <1>4 DEF ClientEffect

LEMMA RetryEffect ==
    ASSUME GInv, NEW c \in Calls, call[c].pc \notin {"idle"}, SrvStaysOrLoses, NEW res \in Results,
           call' = ClientRetryInterceptor(c, res)
    PROVE  ClientEffect(c)
<1> DEFINE again == res # "OK" /\ Has(c, "retry") /\ res \in conf.retried /\ call[c].k < MaxRetries
           pc == IF again THEN "backoff" ELSE "done"
           d == IF call[c].deadline = "attempt" THEN "none" ELSE call[c].deadline
           k == call[c].k
<1>1. call \in [Calls -> ClientCalls] /\ call[c] \in ClientCalls
    BY DEF GInv, GBase, GTyped
<1>2. k \in 0..MaxRetries /\ call[c].deadline \in {"none", "armed", "attempt"}
    BY <1>1, CallFields
<1>3. d \in {"none", "armed", "attempt"} /\ pc \in {"done", "backoff", "invoke"} /\ pc # "invoke"
      /\ (pc = "backoff" => k < MaxRetries)
    BY <1>2
<1>4. call' = [call EXCEPT ![c].pc = pc, ![c].res = res, ![c].deadline = d]
    BY <1>1 DEF ClientRetryInterceptor
<1> HIDE DEF pc, d
<1>5. call' = [call EXCEPT ![c] = [call[c] EXCEPT !.pc = pc, !.k = k, !.res = res, !.deadline = d]]
  <2>1. [call[c] EXCEPT !.pc = pc, !.k = k, !.res = res, !.deadline = d]
        = [call[c] EXCEPT !.pc = pc, !.res = res, !.deadline = d]
      BY <1>1 DEF ClientCalls
  <2> QED
      BY <1>1, <1>4, <2>1
<1> QED
    BY <1>2, <1>3, <1>5, CallGoesOn

LEMMA DeadlineIs ==
    ASSUME GInv, NEW c \in Calls, NEW outer \in BOOLEAN
    PROVE  ClientTimeoutInterceptor(c, outer) \in {"none", "armed", "attempt"}
<1>1. call[c].deadline \in {"none", "armed", "attempt"}
    BY CallFields DEF GInv, GBase, GTyped
<1> QED
    BY <1>1 DEF ClientTimeoutInterceptor

LEMMA StartEffect ==
    ASSUME GInv, NEW c \in Calls, StartCall(c)
    PROVE  ClientFrame /\ ClientEffect(c)
<1>1. ClientFrame /\ call[c].pc = "idle" /\ srv' = srv
    BY DEF StartCall, ClientFrame, stores
<1>2. PICK in \in conf.inputs :
          call' = [call EXCEPT ![c] = [NewCall EXCEPT
                      !.pc = "outer", !.kind = in.kind, !.method = in.method, !.cert = in.cert,
                      !.user = in.user, !.prov = in.prov, !.skew = in.skew, !.deadline = in.deadline]]
    BY DEF StartCall
<1> DEFINE x == [NewCall EXCEPT
                      !.pc = "outer", !.kind = in.kind, !.method = in.method, !.cert = in.cert,
                      !.user = in.user, !.prov = in.prov, !.skew = in.skew, !.deadline = in.deadline]
<1>3. conf \in Confs
    BY DEF GInv, GBase, GTyped
<1>4. x \in ClientCalls /\ x.pc = "outer" /\ x.k = 0 /\ x.md = NoMetadata
  <2>1. /\ in.kind \in {"unary", "stream"} /\ in.method \in Methods /\ in.cert \in Certs \cup {NoCert}
        /\ in.user \in Services /\ in.prov \in SUBSET CredTypes /\ in.skew \in Int
        /\ in.deadline \in {"none", "armed"}
      BY <1>3, InputIs
  <2>2. NewCall \in ClientCalls /\ NewCall.k = 0 /\ NewCall.md = NoMetadata
      BY NewCallIs
  <2> QED
      BY <2>1, <2>2 DEF ClientCalls, Waits, Names
<1> HIDE DEF x
<1>5. Signed(x.md) /\ x.md.nonce \notin Reqs
    BY <1>4, NoMetadataIs, EmptyIsNone
<1>6. Prepares(c, x)
    BY <1>1, <1>2, <1>4, <1>5 DEF Prepares, x
<1> QED
    BY <1>1, <1>4, <1>6 DEF ClientEffect

LEMMA CredentialClientEffect ==
    ASSUME GInv, NEW c \in Calls, ClientCredentialInterceptor(c)
    PROVE  ClientFrame /\ ClientEffect(c)
<1>1. ClientFrame /\ call[c].pc = "outer" /\ srv' = srv
    BY DEF ClientCredentialInterceptor, ClientFrame, stores
<1>2. GTyped /\ CallNonce(c) /\ call \in [Calls -> ClientCalls] /\ call[c] \in ClientCalls
    BY DEF GInv, GBase, GTyped
<1>3. call[c].k \in 0..MaxRetries /\ call[c].md \in Metadata /\ call[c].k = 0
    BY <1>1, <1>2, CallFields DEF CallNonce
<1>4. CASE call' = [call EXCEPT ![c].pc = "done", ![c].res = "no token"]
  <2> DEFINE x == [call[c] EXCEPT !.pc = "done", !.res = "no token"]
  <2>1. /\ x \in ClientCalls /\ x.pc = "done" /\ x.k = call[c].k /\ x.kind = call[c].kind
        /\ x.method = call[c].method /\ x.md = call[c].md
      BY <1>2 DEF ClientCalls, Waits
  <2>2. call' = [call EXCEPT ![c] = x]
      BY <1>2, <1>4
  <2> HIDE DEF x
  <2>3. GoesOn(c, x)
      BY <1>1, <2>1, <2>2 DEF GoesOn
  <2> QED
      BY <1>1, <2>1, <2>3 DEF ClientEffect
<1>5. CASE call' = [call EXCEPT ![c].pc = "invoke", ![c].deadline = ClientTimeoutInterceptor(c, TRUE),
                               ![c].md = IF PerAttempt("credential") THEN @ ELSE GetMetadata(c)]
  <2> DEFINE d == ClientTimeoutInterceptor(c, TRUE)
             md == IF PerAttempt("credential") THEN call[c].md ELSE GetMetadata(c)
             x == [call[c] EXCEPT !.pc = "invoke", !.deadline = d, !.md = md]
  <2>1. d \in {"none", "armed", "attempt"}
      BY DeadlineIs
  <2>2. call' = [call EXCEPT ![c] = x]
      BY <1>2, <1>5
  <2>3. md \in Metadata /\ Signed(md) /\ (md.nonce \in Reqs => md.nonce[1] = c)
    <3>1. CASE PerAttempt("credential")
        BY <1>2, <1>3, <3>1 DEF CallNonce
    <3>2. CASE ~PerAttempt("credential")
      <4>1. md \in Metadata /\ Signed(md) /\ md.nonce \in {<<>>, <<c, call[c].k>>}
          BY <1>2, <3>2, MetadataIs
      <4>2. <<c, call[c].k>>[1] = c
          OBVIOUS
      <4> HIDE DEF md
      <4> QED
          BY <4>1, <4>2, EmptyIsNone
    <3> QED
        BY <3>1, <3>2
  <2> HIDE DEF d, md
  <2>4. x \in ClientCalls /\ x.pc = "invoke" /\ x.k = 0 /\ x.md = md
      BY <1>2, <1>3, <2>1, <2>3 DEF ClientCalls, Waits
  <2> HIDE DEF x
  <2>5. Prepares(c, x)
      BY <1>1, <2>2, <2>3, <2>4 DEF Prepares
  <2> QED
      BY <1>1, <2>4, <2>5 DEF ClientEffect
<1> QED
    BY <1>4, <1>5 DEF ClientCredentialInterceptor

LEMMA InvokeEffect ==
    ASSUME GInv, NEW c \in Calls, Invoke(c)
    PROVE  ClientFrame /\ ClientEffect(c)
<1> DEFINE r == <<c, call[c].k>>
           md == IF PerAttempt("credential") THEN GetMetadata(c) ELSE call[c].md
           dead == Extract(md) = "api_key" /\ KeyIsDead(md.key)
<1>1. ClientFrame /\ call[c].pc = "invoke"
    BY DEF Invoke, ClientFrame, stores
<1>2. GTyped /\ CallNonce(c) /\ call \in [Calls -> ClientCalls] /\ call[c] \in ClientCalls /\ srv \in [Reqs -> Requests]
    BY DEF GInv, GBase, GTyped
<1>3. r \in Reqs
    BY <1>2, CallFields DEF Reqs
<1>4. \/ /\ srv' = [srv EXCEPT ![r] = [NewRequest EXCEPT !.st = "sent", !.md = md, !.stale = dead]]
         /\ call' = [call EXCEPT ![c].pc = "wait", ![c].deadline = ClientTimeoutInterceptor(c, FALSE)]
      \/ call' = ClientRetryInterceptor(c, "no token") /\ srv' = srv
    BY DEF Invoke
<1>5. CASE call' = ClientRetryInterceptor(c, "no token") /\ srv' = srv
  <2>1. "no token" \in Results
      BY DEF Results
  <2> QED
      BY <1>1, <1>5, <2>1, RetryEffect DEF SrvStaysOrLoses
<1>6. CASE /\ srv' = [srv EXCEPT ![r] = [NewRequest EXCEPT !.st = "sent", !.md = md, !.stale = dead]]
           /\ call' = [call EXCEPT ![c].pc = "wait", ![c].deadline = ClientTimeoutInterceptor(c, FALSE)]
  <2> DEFINE d == ClientTimeoutInterceptor(c, FALSE)
             x == [call[c] EXCEPT !.pc = "wait", !.deadline = d]
             y == [NewRequest EXCEPT !.st = "sent", !.md = md, !.stale = dead]
  <2>1. d \in {"none", "armed", "attempt"}
      BY DeadlineIs
  <2>2. call' = [call EXCEPT ![c] = x]
      BY <1>2, <1>6
  <2>3. md \in Metadata /\ Signed(md)
        /\ IF PerAttempt("credential") THEN md.nonce \in {<<>>, r} ELSE md = call[c].md
      BY <1>2, MetadataIs, CallFields DEF CallNonce
  <2>4. srv' = [srv EXCEPT ![r] = y] /\ dead \in BOOLEAN
      BY <1>6
  <2>5. dead => Extract(md) = "api_key" /\ KeyIsDead(md.key)
      OBVIOUS
  <2> HIDE DEF d, md, dead
  <2>6. /\ x \in ClientCalls /\ x.pc = "wait" /\ x.k = call[c].k /\ x.kind = call[c].kind
        /\ x.method = call[c].method /\ x.md = call[c].md
      BY <1>2, <2>1 DEF ClientCalls, Waits
  <2>7. /\ y \in Requests /\ y.st = "sent" /\ y.pos = 0 /\ y.ctxs = <<>> /\ ~y.handled /\ y.why = ""
        /\ y.md = md /\ y.stale = dead
    <3>1. /\ NewRequest \in Requests /\ NewRequest.pos = 0 /\ NewRequest.ctxs = <<>>
          /\ ~NewRequest.handled /\ NewRequest.why = ""
        BY NewRequestIs
    <3> QED
        BY <2>3, <2>4, <3>1 DEF Requests, Stages
  <2> HIDE DEF x, y
  <2>8. Sends(c, x, y)
      BY <1>1, <2>2, <2>3, <2>4, <2>5, <2>6, <2>7 DEF Sends
  <2> QED
      BY <1>1, <2>6, <2>7, <2>8 DEF ClientEffect
<1> QED
    BY <1>4, <1>5, <1>6

LEMMA WaitEffect ==
    ASSUME GInv, NEW c \in Calls, Answered(c) \/ ConnectionFails(c) \/ DeadlineWaiting(c) \/ Backoff(c)
    PROVE  ClientFrame /\ ClientEffect(c)
<1> DEFINE r == <<c, call[c].k>>
<1>1. ClientFrame
    BY DEF Answered, ConnectionFails, DeadlineWaiting, Backoff, ClientFrame, stores
<1>2. call \in [Calls -> ClientCalls] /\ call[c] \in ClientCalls /\ srv \in [Reqs -> Requests] /\ CallNonce(c)
    BY DEF GInv, GBase, GTyped
<1>3. r \in Reqs
    BY <1>2, CallFields DEF Reqs
<1>4. "Unavailable" \in Results /\ "DeadlineExceeded" \in Results
    BY DEF Results
<1>5. call[c].k \in 0..MaxRetries /\ call[c].deadline \in {"none", "armed", "attempt"}
    BY <1>2, CallFields
<1> HIDE DEF r
<1>6. CASE Answered(c)
  <2>1. call[c].pc = "wait" /\ call' = ClientRetryInterceptor(c, srv[r].res) /\ srv' = srv
      BY <1>6 DEF Answered, r
  <2>2. srv[r].res \in Results
      BY <1>2, <1>3, RequestFields DEF Results
  <2> QED
      BY <1>1, <2>1, <2>2, RetryEffect DEF SrvStaysOrLoses
<1>7. CASE ConnectionFails(c)
  <2>1. /\ call[c].pc = "wait" /\ call' = ClientRetryInterceptor(c, "Unavailable")
        /\ srv' = IF srv[r].st = "sent" THEN [srv EXCEPT ![r].st = "lost"] ELSE srv
      BY <1>7 DEF ConnectionFails, r
  <2>2. SrvStaysOrLoses
      BY <1>3, <2>1 DEF SrvStaysOrLoses
  <2> QED
      BY <1>1, <1>4, <2>1, <2>2, RetryEffect
<1>8. ASSUME call' = [call EXCEPT ![c].pc = "done", ![c].res = "DeadlineExceeded"], call[c].pc # "idle", SrvStaysOrLoses
      PROVE  ClientEffect(c)
  <2>1. [call[c] EXCEPT !.pc = "done", !.k = call[c].k, !.res = "DeadlineExceeded", !.deadline = call[c].deadline]
        = [call[c] EXCEPT !.pc = "done", !.res = "DeadlineExceeded"]
      BY <1>2 DEF ClientCalls
  <2>2. call' = [call EXCEPT ![c] = [call[c] EXCEPT !.pc = "done", !.k = call[c].k, !.res = "DeadlineExceeded",
                                                     !.deadline = call[c].deadline]]
      BY <1>2, <1>8, <2>1
  <2> QED
      BY <1>4, <1>5, <1>8, <2>2, CallGoesOn
<1>9. CASE DeadlineWaiting(c)
  <2>1. /\ call[c].pc = "wait"
        /\ srv' \in {srv, IF srv[r].st = "sent" THEN [srv EXCEPT ![r].st = "lost"] ELSE srv}
        /\ \/ call' = ClientRetryInterceptor(c, "DeadlineExceeded")
           \/ call' = [call EXCEPT ![c].pc = "done", ![c].res = "DeadlineExceeded"]
      BY <1>9 DEF DeadlineWaiting, r
  <2>2. SrvStaysOrLoses
      BY <1>3, <2>1, LosesOrStays
  <2> QED
      BY <1>1, <1>4, <1>8, <2>1, <2>2, RetryEffect
<1>10. CASE Backoff(c)
  <2>1. /\ call[c].pc = "backoff" /\ srv' = srv
        /\ \/ call' = [call EXCEPT ![c].pc = "invoke", ![c].k = @ + 1]
           \/ call' = [call EXCEPT ![c].pc = "done", ![c].res = "DeadlineExceeded"]
      BY <1>10 DEF Backoff
  <2>2. CASE call' = [call EXCEPT ![c].pc = "invoke", ![c].k = @ + 1]
    <3> DEFINE k == call[c].k + 1
    <3>1. call[c].k < MaxRetries
        BY <1>2, <2>1 DEF CallNonce
    <3>2. k \in 0..MaxRetries
        BY <1>5, <3>1, GBounds
    <3> HIDE DEF k
    <3>3. call[c].res \in Results
        BY <1>2 DEF ClientCalls, Results
    <3>4. [call[c] EXCEPT !.pc = "invoke", !.k = k, !.res = call[c].res, !.deadline = call[c].deadline]
          = [call[c] EXCEPT !.pc = "invoke", !.k = k]
        BY <1>2 DEF ClientCalls
    <3>5. call' = [call EXCEPT ![c] = [call[c] EXCEPT !.pc = "invoke", !.k = k, !.res = call[c].res,
                                                       !.deadline = call[c].deadline]]
        BY <1>2, <2>2, <3>4 DEF k
    <3> QED
        BY <1>1, <1>5, <2>1, <3>2, <3>3, <3>5, CallGoesOn DEF SrvStaysOrLoses, k
  <2> QED
      BY <1>1, <1>8, <2>1, <2>2 DEF SrvStaysOrLoses
<1> QED
    BY <1>6, <1>7, <1>9, <1>10

LEMMA ClientEffects ==
    ASSUME GInv, NEW c \in Calls, StartCall(c) \/ ClientStep(c) \/ ConnectionFails(c)
    PROVE  ClientFrame /\ ClientEffect(c)
BY StartEffect, CredentialClientEffect, InvokeEffect, WaitEffect DEF ClientStep

LEMMA AttemptIs ==
    ASSUME GInv, NEW c \in Calls
    PROVE  <<c, call[c].k>> \in Reqs
BY CallFields DEF GInv, GBase, GTyped, Reqs

LEMMA ClientKeeps ==
    ASSUME GInv, NEW c \in Calls, ClientFrame, ClientEffect(c)
    PROVE  GInv'
BY AttemptIs, ClientGoesOn, ClientPrepares, ClientSends DEF ClientEffect

-----------------------------------------------------------------------------
(* Administration, time, and the whole.                                     *)

\* Rules and keys change.
AdminFrame ==
    /\ conf' = conf /\ call' = call /\ srv' = srv /\ nonces' = nonces /\ seen' = seen /\ now' = now
    /\ admin' \in 0..MaxAdmin /\ acl' \in [Services -> AnyRule] /\ keys' \in [Services -> KeyInfos]
    /\ \A k \in Services : keys'[k].expires = keys[k].expires /\ (keys[k].revoked => keys'[k].revoked)

LEMMA AdminEffect ==
    ASSUME GInv, NEW s \in Services,
           \/ \E rule \in Rules : AddServicePermission(s, rule)
           \/ RemoveServicePermission(s) \/ RegisterKey(s) \/ Revoke(s) \/ UpdateServiceMethods(s, {})
    PROVE  AdminFrame
<1>1. admin \in 0..MaxAdmin /\ acl \in [Services -> AnyRule] /\ keys \in [Services -> KeyInfos]
    BY DEF GInv, GBase, GTyped
<1>2. Administer => admin' \in 0..MaxAdmin
    BY <1>1, GBounds DEF Administer
<1>3. ASSUME NEW rule \in Rules, AddServicePermission(s, rule) PROVE AdminFrame
  <2>1. rule \in AnyRule
      BY RulesAre
  <2>2. acl' \in [Services -> AnyRule]
      BY <1>1, <1>3, <2>1 DEF AddServicePermission
  <2> QED
      BY <1>1, <1>2, <1>3, <2>2 DEF AddServicePermission, AdminFrame
<1>4. CASE RemoveServicePermission(s)
  <2>1. NoRule \in AnyRule
      BY DEF AnyRule
  <2>2. acl' \in [Services -> AnyRule]
      BY <1>1, <1>4, <2>1 DEF RemoveServicePermission
  <2> QED
      BY <1>1, <1>2, <1>4, <2>2 DEF RemoveServicePermission, AdminFrame
<1>5. CASE UpdateServiceMethods(s, {})
  <2>1. acl[s] \in [allowed : SUBSET Patterns, denied : SUBSET Patterns]
      BY <1>1, <1>5 DEF UpdateServiceMethods, AnyRule
  <2>2. [acl[s] EXCEPT !.allowed = {}] \in AnyRule
      BY <2>1 DEF AnyRule
  <2>3. acl' = [acl EXCEPT ![s] = [acl[s] EXCEPT !.allowed = {}]]
      BY <1>1, <1>5 DEF UpdateServiceMethods
  <2>4. acl' \in [Services -> AnyRule]
      BY <1>1, <2>2, <2>3
  <2> QED
      BY <1>1, <1>2, <1>5, <2>4 DEF UpdateServiceMethods, AdminFrame
<1>6. ASSUME NEW b \in BOOLEAN, NEW e \in BOOLEAN, NEW x, x = [keys[s] EXCEPT !.registered = b, !.revoked = e],
             keys' = [keys EXCEPT ![s] = x], keys[s].revoked => e
      PROVE  /\ keys' \in [Services -> KeyInfos]
             /\ \A k \in Services : keys'[k].expires = keys[k].expires /\ (keys[k].revoked => keys'[k].revoked)
  <2>1. keys[s] \in KeyInfos
      BY <1>1
  <2>2. x \in KeyInfos /\ x.expires = keys[s].expires /\ x.revoked = e
      BY <1>6, <2>1 DEF KeyInfos
  <2>3. \A k \in Services : k # s => keys'[k] = keys[k]
      BY <1>1, <1>6
  <2>4. keys'[s] = x /\ keys' \in [Services -> KeyInfos]
      BY <1>1, <1>6, <2>2
  <2> QED
      BY <1>6, <2>2, <2>3, <2>4
<1>7. \A b, e \in BOOLEAN :
         keys' = [keys EXCEPT ![s] = [keys[s] EXCEPT !.registered = b, !.revoked = e]] /\ (keys[s].revoked => e) =>
         /\ keys' \in [Services -> KeyInfos]
         /\ \A k \in Services : keys'[k].expires = keys[k].expires /\ (keys[k].revoked => keys'[k].revoked)
    BY <1>6, Zenon
<1>8. keys[s].registered \in BOOLEAN /\ keys[s].revoked \in BOOLEAN /\ TRUE \in BOOLEAN
    BY <1>1 DEF KeyInfos
<1>9. ASSUME NEW b \in BOOLEAN
      PROVE  /\ [keys[s] EXCEPT !.registered = b] = [keys[s] EXCEPT !.registered = b, !.revoked = keys[s].revoked]
             /\ [keys[s] EXCEPT !.revoked = b] = [keys[s] EXCEPT !.registered = keys[s].registered, !.revoked = b]
    BY <1>1, <1>8 DEF KeyInfos
<1>10. CASE RegisterKey(s)
  <2>1. keys' = [keys EXCEPT ![s].registered = TRUE]
      BY <1>10 DEF RegisterKey
  <2>2. keys' = [keys EXCEPT ![s] = [keys[s] EXCEPT !.registered = TRUE]]
      BY <1>1, <2>1
  <2>3. keys' = [keys EXCEPT ![s] = [keys[s] EXCEPT !.registered = TRUE, !.revoked = keys[s].revoked]]
      BY <1>8, <1>9, <2>2, Zenon
  <2>4. /\ keys' \in [Services -> KeyInfos]
        /\ \A k \in Services : keys'[k].expires = keys[k].expires /\ (keys[k].revoked => keys'[k].revoked)
      BY <1>7, <1>8, <2>3, Zenon
  <2> QED
      BY <1>1, <1>2, <1>10, <2>4 DEF RegisterKey, AdminFrame
<1>11. CASE Revoke(s)
  <2>1. keys' = [keys EXCEPT ![s].revoked = TRUE]
      BY <1>11 DEF Revoke
  <2>2. keys' = [keys EXCEPT ![s] = [keys[s] EXCEPT !.revoked = TRUE]]
      BY <1>1, <2>1
  <2>3. keys' = [keys EXCEPT ![s] = [keys[s] EXCEPT !.registered = keys[s].registered, !.revoked = TRUE]]
      BY <1>8, <1>9, <2>2, Zenon
  <2>4. /\ keys' \in [Services -> KeyInfos]
        /\ \A k \in Services : keys'[k].expires = keys[k].expires /\ (keys[k].revoked => keys'[k].revoked)
      BY <1>7, <1>8, <2>3, Zenon
  <2> QED
      BY <1>1, <1>2, <1>11, <2>4 DEF Revoke, AdminFrame
<1> QED
    BY <1>3, <1>4, <1>5, <1>10, <1>11

\* Nothing but the stores of rules and keys, the clock and the nonces changes.
Still == conf' = conf /\ call' = call /\ srv' = srv /\ seen' = seen

LEMMA StillRequests ==
    ASSUME Still
    PROVE  /\ \A q \in Reqs : Placed(q)' = Placed(q) /\ NonceOf(q)' = NonceOf(q)
           /\ \A q \in Reqs : Accepted(q)' = Accepted(q) /\ Claimed(q)' = Claimed(q)
           /\ \A q \in Reqs : Chain(q)' = Chain(q) /\ Skipped(q)' = Skipped(q) /\ Here(q)' = Here(q)
           /\ \A q \in Reqs : \A g : Passed(q, g)' = Passed(q, g)
           /\ \A c \in Calls : CallNonce(c)' = CallNonce(c)
<1>1. \A q \in Reqs : Chain(q)' = Chain(q) /\ Skipped(q)' = Skipped(q) /\ Here(q)' = Here(q)
    BY DEF Still, Chain, Skipped, Method, Here
<1>2. \A q \in Reqs : \A g : Passed(q, g)' = Passed(q, g)
    BY <1>1 DEF Still, Passed
<1>3. \A q \in Reqs : Accepted(q)' = Accepted(q) /\ Claimed(q)' = Claimed(q)
    BY <1>1, <1>2 DEF Still, Accepted, Claimed
<1>4. \A q \in Reqs : Placed(q)' = Placed(q)
    BY <1>1 DEF Still, Placed
<1>5. \A q \in Reqs : NonceOf(q)' = NonceOf(q)
    BY DEF Still, NonceOf, Unsent, Signed, PerAttempt
<1>6. \A c \in Calls : CallNonce(c)' = CallNonce(c)
    BY DEF Still, CallNonce, Signed
<1> QED
    BY <1>1, <1>2, <1>3, <1>4, <1>5, <1>6

LEMMA AdminKeeps == ASSUME GInv, AdminFrame PROVE GInv'
<1>1. Still /\ now' = now /\ nonces' = nonces /\ GBase /\ GClaims
    BY DEF AdminFrame, Still, GInv
<1>2. GTyped'
    BY <1>1 DEF AdminFrame, GBase, GTyped
<1>3. \A q \in Reqs : Placed(q)' /\ NonceOf(q)'
    BY <1>1, StillRequests DEF GBase
<1>4. \A q \in Reqs : Validating(q)'
    BY <1>1, StillRequests DEF GBase, Validating, Still
<1>5. \A c \in Calls : CallNonce(c)'
    BY <1>1, StillRequests DEF GBase
<1>6. GBase'
    BY <1>2, <1>3, <1>4, <1>5 DEF GBase
<1>7. GClaims'
    BY <1>1, StillRequests, QuietClaims DEF Still
<1> QED
    BY <1>6, <1>7 DEF GInv

LEMMA TickKeeps == ASSUME GInv, Tick PROVE GInv'
<1>1. Still /\ nonces' = nonces /\ now' = now + 1 /\ now < MaxNow /\ GBase /\ GClaims
    BY DEF Tick, Still, GInv
<1>2. now \in 0..MaxNow
    BY <1>1 DEF GBase, GTyped
<1>3. now \in Nat /\ now' \in 0..MaxNow /\ Validity \in Nat
    BY <1>1, <1>2, GBounds
<1>4. GTyped'
    BY <1>1, <1>3 DEF GBase, GTyped, Still, Tick, stores
<1>5. \A q \in Reqs : Placed(q)' /\ NonceOf(q)'
    BY <1>1, StillRequests DEF GBase
<1>6. ASSUME NEW q \in Reqs PROVE srv[q].md.ts \in Int
    BY <1>1, RequestFields, MetadataFields DEF GBase, GTyped
<1>7. ASSUME NEW q \in Reqs PROVE Validating(q)'
  <2>1. Validating(q) /\ Chain(q)' = Chain(q) /\ Skipped(q)' = Skipped(q) /\ Here(q)' = Here(q) /\ srv' = srv
      BY <1>1, StillRequests DEF GBase, Still
  <2>2. srv[q].md.ts <= now + Validity => srv[q].md.ts <= now' + Validity
      BY <1>1, <1>3, <1>6
  <2> QED
      BY <2>1, <2>2 DEF Validating
<1>8. GBase'
    BY <1>1, <1>4, <1>5, <1>7, StillRequests DEF GBase
<1>9. ASSUME NEW q \in Reqs PROVE NonceKept(q)'
  <2>1. NonceKept(q) /\ Accepted(q)' = Accepted(q) /\ srv' = srv
      BY <1>1, StillRequests DEF GClaims, Still
  <2>2. now > srv[q].md.ts + Validity => now' > srv[q].md.ts + Validity
      BY <1>1, <1>3, <1>6
  <2> QED
      BY <1>1, <2>1, <2>2 DEF NonceKept
<1>10. ClaimsOverlap'
    BY <1>1, StillRequests DEF GClaims, ClaimsOverlap, Still
<1> QED
    BY <1>8, <1>9, <1>10 DEF GInv, GClaims

LEMMA CleanupKeeps == ASSUME GInv, Cleanup PROVE GInv'
<1>1. Still /\ now' = now /\ GBase /\ GClaims
    BY DEF Cleanup, Still, GInv
<1>2. nonces' = [n \in Reqs |-> IF now > nonces[n] THEN Absent ELSE nonces[n]]
    BY DEF Cleanup
<1>3. nonces \in [Reqs -> Nat \cup {Absent}] /\ now \in 0..MaxNow
    BY <1>1 DEF GBase, GTyped
<1>4. nonces' \in [Reqs -> Nat \cup {Absent}]
    BY <1>2, <1>3
<1>5. GTyped'
    BY <1>1, <1>4 DEF GBase, GTyped, Still, Cleanup, stores
<1>6. \A q \in Reqs : Validating(q)'
    BY <1>1, StillRequests DEF GBase, Validating, Still
<1>7. GBase'
    BY <1>1, <1>5, <1>6, StillRequests DEF GBase
<1>8. ASSUME NEW q \in Reqs PROVE NonceKept(q)'
  <2>1. SUFFICES ASSUME Accepted(q)' PROVE NonceKept(q)'
      BY DEF NonceKept
  <2>2. NonceKept(q) /\ Accepted(q) /\ srv' = srv
      BY <1>1, <2>1, StillRequests DEF GClaims, Still
  <2>3. srv[q].md.nonce \in Reqs /\ srv[q].md.ts \in Int
      BY <1>1, <2>2, SignedFacts DEF Accepted
  <2> DEFINE n == srv[q].md.nonce
             t == srv[q].md.ts
  <2>4. now > t + Validity \/ (nonces[n] # Absent /\ t + Validity <= nonces[n])
      BY <2>2 DEF NonceKept
  <2>5. nonces'[n] = IF now > nonces[n] THEN Absent ELSE nonces[n]
      BY <1>2, <2>3
  <2>6. nonces[n] \in Nat \cup {Absent} /\ now \in Nat /\ Validity \in Nat
      BY <1>3, <2>3, GBounds
  <2> HIDE DEF n, t
  <2>7. now > t + Validity \/ (nonces'[n] # Absent /\ t + Validity <= nonces'[n])
    <3>1. t \in Int
        BY <2>3 DEF t
    <3>2. CASE now > nonces[n]
      <4>1. now > t + Validity \/ t + Validity <= nonces[n]
          BY <2>4
      <4>2. nonces[n] \in Int
          BY <2>6 DEF Absent
      <4> QED
          BY <2>6, <3>1, <3>2, <4>1, <4>2
    <3>3. CASE ~(now > nonces[n])
        BY <2>4, <2>5, <3>3
    <3> QED
        BY <3>2, <3>3
  <2> QED
      BY <1>1, <2>2, <2>7 DEF NonceKept, n, t
<1>9. ClaimsOverlap'
    BY <1>1, StillRequests DEF GClaims, ClaimsOverlap, Still
<1> QED
    BY <1>7, <1>8, <1>9 DEF GInv, GClaims

LEMMA GInvInit == ASSUME Init PROVE GInv
<1>1. /\ call = [c \in Calls |-> NewCall] /\ srv = [r \in Reqs |-> NewRequest] /\ conf \in Confs
      /\ acl \in InitialRules /\ nonces = [n \in Reqs |-> Absent]
      /\ seen = [r \in Reqs |-> [o \in Observers |-> "none"]] /\ now = 0 /\ admin = 0
    BY DEF Init
<1>2. GTyped
  <2>1. call \in [Calls -> ClientCalls] /\ srv \in [Reqs -> Requests]
      BY <1>1, NewCallIs, NewRequestIs
  <2>2. acl \in [Services -> AnyRule]
      BY <1>1, RulesAre
  <2>3. keys \in [Services -> KeyInfos]
    <3>1. \A b, e \in BOOLEAN : [registered |-> b, revoked |-> e, expires |-> KeyExpiry] \in KeyInfos
        BY GBounds DEF KeyInfos
    <3>2. FALSE \in BOOLEAN /\ \A s : (s \in HmacKeys) \in BOOLEAN
        OBVIOUS
    <3>3. \A s \in Services : [registered |-> s \in HmacKeys, revoked |-> FALSE, expires |-> KeyExpiry] \in KeyInfos
        BY <3>1, <3>2, Zenon
    <3> QED
        BY <3>3, Zenon DEF Init
  <2>4. seen \in [Reqs -> [Observers -> Ends]] /\ nonces \in [Reqs -> Nat \cup {Absent}]
      BY <1>1 DEF Ends
  <2>5. now \in 0..MaxNow /\ admin \in 0..MaxAdmin
      BY <1>1, GBounds
  <2> QED
      BY <1>1, <2>1, <2>2, <2>3, <2>4, <2>5 DEF GTyped
<1>3. ASSUME NEW r \in Reqs PROVE Placed(r) /\ NonceOf(r) /\ Validating(r) /\ ~Accepted(r) /\ ~Claimed(r)
  <2>1. /\ srv[r].st = "none" /\ srv[r].pos = 0 /\ srv[r].ctxs = <<>> /\ ~srv[r].handled /\ srv[r].why = ""
        /\ srv[r].md = NoMetadata
      BY <1>1, NewRequestIs
  <2>2. Len(srv[r].ctxs) = 0
      BY <2>1
  <2>3. Placed(r)
      BY <2>1, <2>2 DEF Placed
  <2>4. NonceOf(r)
      BY <2>1, NoMetadataIs DEF NonceOf
  <2>5. ~Accepted(r)
      BY <2>1, <2>3, NothingPassed
  <2> QED
      BY <2>1, <2>3, <2>4, <2>5 DEF Validating, Claimed
<1>4. ASSUME NEW c \in Calls PROVE CallNonce(c)
  <2>1. call[c].pc = "idle" /\ call[c].k = 0 /\ call[c].md = NoMetadata
      BY <1>1, NewCallIs
  <2> QED
      BY <2>1, NoMetadataIs, EmptyIsNone DEF CallNonce
<1> QED
    BY <1>2, <1>3, <1>4 DEF GInv, GBase, GClaims, NonceKept, ClaimsOverlap

LEMMA GInvStep == ASSUME GInv, [Next]_vars PROVE GInv'
<1>1. ASSUME NEW c \in Calls, StartCall(c) \/ ClientStep(c) \/ ConnectionFails(c) PROVE GInv'
    BY <1>1, ClientEffects, ClientKeeps
<1>2. ASSUME NEW r \in Reqs, ServerStep(r) \/ \E res \in {"OK", "Unknown", "panic"} : Handler(r, res) PROVE GInv'
    BY <1>2, ServerEffects, ServerKeeps DEF GInv
<1>3. ASSUME NEW s \in Services,
             \/ \E rule \in Rules : AddServicePermission(s, rule)
             \/ RemoveServicePermission(s) \/ RegisterKey(s) \/ Revoke(s) \/ UpdateServiceMethods(s, {})
      PROVE  GInv'
    BY <1>3, AdminEffect, AdminKeeps
<1>4. CASE UNCHANGED vars
  <2>1. AdminFrame
      BY <1>4 DEF vars, AdminFrame, GInv, GBase, GTyped
  <2> QED
      BY <2>1, AdminKeeps
<1> QED
    BY <1>1, <1>2, <1>3, <1>4, TickKeeps, CleanupKeeps DEF Next

\* For every chain of interceptors, clock skew, retry and administration: two
\* requests with one nonce pass by their signature only if their validations
\* overlapped, because a nonce is kept for as long as its timestamp is good.
THEOREM SignedOnce == Spec => []NonceUsedOnce
<1>1. GInv => NonceUsedOnce
  <2> SUFFICES ASSUME GInv, NEW r \in Reqs, NEW q \in Reqs, r # q, srv[r].md.nonce = srv[q].md.nonce,
                      Extract(srv[r].md) = "hmac", Passed(r, "credential"), Passed(q, "credential"), ~Skipped(r)
               PROVE  r \in srv[q].overlap
      BY DEF NonceUsedOnce
  <2>1. srv[r].md.nonce \in Reqs
      BY SignedFacts DEF GInv
  <2>2. r[1] = q[1] /\ srv[r].md = srv[q].md
      BY <2>1, SameNonce DEF GInv, GBase
  <2>3. Accepted(r) /\ Accepted(q)
      BY <2>2 DEF Accepted, Skipped, Method
  <2> QED
      BY <2>3 DEF GInv, GClaims, ClaimsOverlap, Claimed
<1> QED
    BY <1>1, GInvInit, GInvStep, PTL DEF Spec

-----------------------------------------------------------------------------
(* Chains with every interceptor once.                                      *)

Own(r) == OwnNonce(r) /\ DeadKey(r) /\ Compared(r) /\ EndRecorded(r)

\* An interceptor that is at work has not been passed.
LEMMA NotPassed ==
    ASSUME GBase, OncePerChain, NEW r \in Reqs, srv[r].pos \in 0..Len(Chain(r)), srv[r].pos # 0
    PROVE  ~Passed(r, Here(r))
<1> SUFFICES ASSUME Passed(r, Here(r)) PROVE FALSE
    OBVIOUS
<1>1. PICK i \in 1..(Len(srv[r].ctxs) - 1) : i <= Len(Chain(r)) /\ Chain(r)[i] = Here(r)
    BY DEF Passed
<1>2. Len(srv[r].ctxs) = srv[r].pos /\ Len(Chain(r)) \in Nat /\ conf \in Confs
    BY ChainIs DEF GBase, GTyped, Placed
<1>3. i \in 1..Len(Chain(r)) /\ srv[r].pos \in 1..Len(Chain(r)) /\ i # srv[r].pos
    BY <1>1, <1>2
<1>4. Chain(r)[i] = Chain(r)[srv[r].pos]
    BY <1>1 DEF Here
<1> QED
    BY <1>2, <1>3, <1>4, ChainOnce

\* A dead key stays dead.
KeysStayDead == \A k \in Services : KeyIsDead(k) => KeyIsDead(k)'

\* A request none of whose parts that Own speaks of changes.
Quiet(q) ==
    /\ srv'[q].ctxs = srv[q].ctxs /\ srv'[q].pos = srv[q].pos /\ srv'[q].md = srv[q].md
    /\ srv'[q].stale = srv[q].stale /\ srv'[q].why = srv[q].why
    /\ srv'[q].st = "done" <=> srv[q].st = "done"
    /\ srv'[q].st = "done" =>
          srv'[q].res = srv[q].res /\ srv'[q].panicked = srv[q].panicked /\ seen'[q] = seen[q]
    /\ PerAttempt("credential") /\ nonces'[q] # Absent => nonces[q] # Absent

\* Its call may still begin.
SameOrIdle(q) ==
    \/ Skipped(q)' = Skipped(q) /\ Chain(q)' = Chain(q)
    \/ srv[q].pos = 0 /\ (\A g : ~Passed(q, g)') /\ (\A g : ~Passed(q, g))

LEMMA QuietKeeps ==
    ASSUME GBase, KeysStayDead, conf' = conf, NEW q \in Reqs, Own(q), Quiet(q), SameOrIdle(q)
    PROVE  Own(q)'
<1>1. /\ srv'[q].ctxs = srv[q].ctxs /\ srv'[q].pos = srv[q].pos /\ srv'[q].md = srv[q].md
      /\ srv'[q].stale = srv[q].stale /\ srv'[q].why = srv[q].why
    BY DEF Quiet
<1>2. PerAttempt("credential")' = PerAttempt("credential")
    BY DEF PerAttempt
<1>3. Placed(q) /\ srv[q].md \in Metadata
    BY RequestFields DEF GBase, GTyped
<1>4. Passed(q, "credential")' = Passed(q, "credential")
  <2>1. CASE Chain(q)' = Chain(q)
      BY <1>1, <2>1 DEF Passed
  <2>2. CASE (\A g : ~Passed(q, g)') /\ (\A g : ~Passed(q, g))
      BY <2>2 DEF Passed
  <2> QED
      BY <2>1, <2>2 DEF SameOrIdle
<1>5. OwnNonce(q)'
    BY <1>1, <1>2, <1>4 DEF Own, OwnNonce, Quiet
<1>6. Extract(srv[q].md)' = Extract(srv[q].md)
    BY <1>1 DEF Extract
<1>7. DeadKey(q)'
  <2>1. SUFFICES ASSUME srv'[q].stale PROVE DeadKey(q)'
      BY DEF DeadKey
  <2>2. /\ Extract(srv[q].md) = "api_key" /\ KeyIsDead(srv[q].md.key)
        /\ ~Skipped(q) => ~Passed(q, "credential")
      BY <1>1, <2>1 DEF Own, DeadKey
  <2>3. KeyIsDead(srv[q].md.key)'
    <3>1. srv[q].md.key \in Services
        BY <1>3, <2>2, ExtractIs
    <3>2. PICK k \in Services : k = srv[q].md.key
        BY <3>1
    <3>3. KeyIsDead(k)' /\ srv'[q].md.key = k
        BY <1>1, <2>2, <3>2 DEF KeysStayDead
    <3> QED
        BY <3>3 DEF KeyIsDead
  <2>4. ~Skipped(q)' => ~Passed(q, "credential")'
      BY <1>4, <2>2 DEF SameOrIdle
  <2> QED
      BY <1>6, <2>2, <2>3, <2>4 DEF DeadKey
<1>8. CASE srv[q].pos = 0
  <2>1. Len(srv[q].ctxs) = 0 /\ srv[q].ctxs \in Seq(Contexts)
      BY <1>3, <1>8, RequestFields DEF Placed, GBase, GTyped
  <2>2. srv'[q].ctxs = <<>> /\ 1..(Len(srv'[q].ctxs) - 1) = {}
      BY <1>1, <2>1, EmptySeq
  <2>3. Compared(q)' /\ EndRecorded(q)'
      BY <2>2 DEF Compared, EndRecorded
  <2> QED
      BY <1>5, <1>7, <2>3 DEF Own
<1>9. CASE srv[q].pos # 0
  <2>1. Skipped(q)' = Skipped(q) /\ Chain(q)' = Chain(q)
      BY <1>9 DEF SameOrIdle
  <2>2. Ctx(q)' = Ctx(q)
      BY <1>1 DEF Ctx
  <2>3. Compared(q)'
      BY <1>1, <1>4, <2>1, <2>2 DEF Own, Compared, IdentityMatches
  <2>4. EndRecorded(q)'
    <3> SUFFICES ASSUME srv'[q].st = "done" PROVE EndRecorded(q)'
        BY DEF EndRecorded
    <3>1. /\ srv[q].st = "done" /\ srv'[q].res = srv[q].res /\ srv'[q].panicked = srv[q].panicked
          /\ seen'[q] = seen[q]
        BY DEF Quiet
    <3> QED
        BY <1>1, <2>1, <3>1 DEF Own, EndRecorded, FromError, Precedes
  <2> QED
      BY <1>5, <1>7, <2>3, <2>4 DEF Own
<1> QED
    BY <1>8, <1>9

\* The request that ends.
LEMMA EndedRest ==
    ASSUME ServerFrame, OncePerChain, NEW r \in Reqs, Own(r), Ended(r), Records(r)
    PROVE  DeadKey(r)' /\ Compared(r)' /\ EndRecorded(r)'
<1>1. /\ srv'[r].pos = srv[r].pos /\ srv'[r].ctxs = srv[r].ctxs
      /\ srv'[r].md = srv[r].md /\ srv'[r].stale = srv[r].stale
    BY DEF Ended
<1>2. Chain(r)' = Chain(r) /\ Skipped(r)' = Skipped(r) /\ Passed(r, "credential")' = Passed(r, "credential")
    BY SameCalls, EndedWay
<1>3. DeadKey(r)'
    BY <1>1, <1>2 DEF Own, DeadKey, KeyIsDead, ServerFrame, Extract
<1>4. Ctx(r)' = Ctx(r) /\ conf' = conf
    BY <1>1 DEF Ctx, ServerFrame
<1>5. Compared(r)'
    BY <1>1, <1>2, <1>4 DEF Own, Compared, IdentityMatches
<1>6. EndRecorded(r)'
    BY DEF Records
<1> QED
    BY <1>3, <1>5, <1>6

LEMMA EndedOwn ==
    ASSUME ServerFrame, OncePerChain, NEW r \in Reqs, Own(r), Ended(r), Records(r), srv'[r].why # "nonce"
    PROVE  Own(r)'
<1>1. OwnNonce(r)'
    BY DEF OwnNonce, Ended
<1> QED
    BY <1>1, EndedRest DEF Own

\* The request that goes on: what CredentialInterceptor lets pass.
LEMMA MovedOwn ==
    ASSUME GBase, ServerFrame, NEW r \in Reqs, Own(r), NEW ctx, Moved(r, ctx), srv[r].st # "done",
           srv[r].pos \in 0..Len(Chain(r)),
           nonces'[r] # Absent /\ PerAttempt("credential") =>
              nonces[r] # Absent \/ (srv[r].pos # 0 /\ Here(r) = "credential"),
           srv[r].pos # 0 /\ Here(r) = "credential" /\ srv[r].stale => Skipped(r),
           Compared(r)'
    PROVE  Own(r)'
<1>1. /\ srv'[r].st = "in" /\ srv'[r].md = srv[r].md /\ srv'[r].stale = srv[r].stale /\ srv'[r].why = srv[r].why
    BY DEF Moved
<1>2. Skipped(r)' = Skipped(r) /\ PerAttempt("credential")' = PerAttempt("credential")
    BY SameCalls
<1>3. Passed(r, "credential")' <=> Passed(r, "credential") \/ (srv[r].pos # 0 /\ Here(r) = "credential")
    BY MovedPassed DEF Guards
<1>4. OwnNonce(r)'
    BY <1>1, <1>2, <1>3 DEF Own, OwnNonce
<1>5. DeadKey(r)'
  <2>1. SUFFICES ASSUME srv'[r].stale PROVE DeadKey(r)'
      BY DEF DeadKey
  <2>2. /\ Extract(srv[r].md) = "api_key" /\ KeyIsDead(srv[r].md.key)
        /\ ~Skipped(r) => ~Passed(r, "credential")
      BY <1>1, <2>1 DEF Own, DeadKey
  <2>3. Extract(srv[r].md)' = "api_key" /\ KeyIsDead(srv[r].md.key)'
      BY <1>1, <2>2 DEF Extract, KeyIsDead, ServerFrame
  <2>4. ~Skipped(r)' => ~Passed(r, "credential")'
      BY <1>1, <1>2, <1>3, <2>1, <2>2
  <2> QED
      BY <2>3, <2>4 DEF DeadKey
<1>6. EndRecorded(r)'
    BY <1>1 DEF EndRecorded
<1> QED
    BY <1>4, <1>5, <1>6 DEF Own

\* A key that is good is not dead.
LEMMA GoodIsNotDead ==
    ASSUME GTyped, NEW k \in Services, KeyOK(k)
    PROVE  ~KeyIsDead(k)
<1>1. keys[k].expires \in Nat /\ now \in 0..MaxNow
    BY DEF GTyped, KeyInfos
<1> QED
    BY <1>1 DEF KeyOK, KeyIsDead

\* Who has been through mTLS before the credential cannot come there after it.
LEMMA MtlsFirst ==
    ASSUME GBase, OncePerChain, NEW r \in Reqs, srv[r].pos \in 0..Len(Chain(r)), srv[r].pos # 0, Here(r) = "mtls",
           Precedes("mtls", "credential", Chain(r))
    PROVE  ~Passed(r, "credential")
<1> SUFFICES ASSUME Passed(r, "credential") PROVE FALSE
    OBVIOUS
<1>1. PICK k \in 1..(Len(srv[r].ctxs) - 1) : k <= Len(Chain(r)) /\ Chain(r)[k] = "credential"
    BY DEF Passed
<1>2. PICK i, j \in 1..Len(Chain(r)) : i < j /\ Chain(r)[i] = "mtls" /\ Chain(r)[j] = "credential"
    BY DEF Precedes
<1>3. Len(srv[r].ctxs) = srv[r].pos /\ Len(Chain(r)) \in Nat /\ conf \in Confs
    BY ChainIs DEF GBase, GTyped, Placed
<1>4. k \in 1..Len(Chain(r)) /\ srv[r].pos \in 1..Len(Chain(r)) /\ k < srv[r].pos
    BY <1>1, <1>3
<1>5. k = j
    BY <1>1, <1>2, <1>3, <1>4, ChainOnce
<1>6. Chain(r)[srv[r].pos] = "mtls"
    BY DEF Here
<1>7. i = srv[r].pos
    BY <1>2, <1>3, <1>4, <1>6, ChainOnce
<1> QED
    BY <1>2, <1>4, <1>5, <1>7

\* The context a request goes on with.
LEMMA MovedCompared ==
    ASSUME GBase, ServerFrame, OncePerChain, NEW r \in Reqs, Compared(r), NEW ctx \in Contexts, Moved(r, ctx),
           srv[r].pos \in 0..Len(Chain(r)), srv[r].pos # 0,
           \/ Here(r) = "mtls" /\ ctx.cred = Ctx(r).cred
           \/ Here(r) \in {"acl", "permission", "credential"} /\ ctx = Ctx(r)
           \/ Here(r) = "credential" /\ Admitted(r, ctx)
    PROVE  Compared(r)'
<1>1. /\ srv'[r].ctxs[srv'[r].pos] = ctx /\ Chain(r)' = Chain(r) /\ conf' = conf
    BY SameCalls DEF Moved, ServerFrame
<1>2. Ctx(r)' = ctx
    BY <1>1 DEF Ctx
<1>3. Passed(r, "credential")' <=> Passed(r, "credential") \/ Here(r) = "credential"
    BY MovedPassed DEF Guards
<1>4. srv[r].ctxs # <<>>
  <2>1. Len(srv[r].ctxs) = srv[r].pos
      BY DEF GBase, Placed
  <2> QED
      BY <2>1, EmptySeq
<1>5. Here(r) = "credential" => ~Passed(r, "credential")
    BY NotPassed
<1> DEFINE Match == conf.requireMatch /\ Precedes("mtls", "credential", Chain(r)) => IdentityMatches(ctx, ctx.cred)
<1>6. IF Passed(r, "credential")' THEN Match ELSE ctx.cred.subject = ""
  <2>1. CASE Here(r) = "mtls" /\ ctx.cred = Ctx(r).cred
    <3>1. conf.requireMatch /\ Precedes("mtls", "credential", Chain(r)) => ~Passed(r, "credential")
        BY <2>1, MtlsFirst
    <3> QED
        BY <1>3, <1>4, <2>1, <3>1 DEF Compared
  <2>2. CASE Here(r) \in {"acl", "permission"} /\ ctx = Ctx(r)
      BY <1>3, <1>4, <2>2 DEF Compared
  <2>3. CASE Here(r) = "credential" /\ ctx = Ctx(r)
      BY <1>3, <1>4, <1>5, <2>3 DEF Compared, IdentityMatches
  <2>4. CASE Here(r) = "credential" /\ Admitted(r, ctx)
      BY <1>3, <2>4 DEF Admitted, IdentityMatches
  <2> QED
      BY <2>1, <2>2, <2>3, <2>4
<1>7. Precedes("mtls", "credential", Chain(r))' = Precedes("mtls", "credential", Chain(r))
    BY <1>1 DEF Precedes
<1>8. IdentityMatches(Ctx(r), Ctx(r).cred)' = IdentityMatches(ctx, ctx.cred)
    BY <1>2 DEF IdentityMatches
<1> QED
    BY <1>1, <1>2, <1>6, <1>7, <1>8 DEF Compared

\* A request that is not the one of the step.
LEMMA OthersQuiet ==
    ASSUME GBase, ServerFrame, NEW r \in Reqs, NEW q \in Reqs, q # r, srv'[q] = srv[q], seen'[q] = seen[q], Own(q),
           \/ nonces' = nonces
           \/ srv[r].st = "validating" /\ nonces' = [nonces EXCEPT ![srv[r].md.nonce] = now + NonceTTL]
    PROVE  Own(q)'
<1>1. PerAttempt("credential") /\ nonces'[q] # Absent => nonces[q] # Absent
  <2>1. CASE srv[r].st = "validating" /\ nonces' = [nonces EXCEPT ![srv[r].md.nonce] = now + NonceTTL]
    <3> SUFFICES ASSUME PerAttempt("credential") PROVE nonces'[q] = nonces[q]
        OBVIOUS
    <3>1. srv[r].md.nonce \in Reqs
        BY <2>1, ValidatingFacts, SignedFacts
    <3>2. srv[r].md.nonce = r
        BY <3>1, EmptyIsNone DEF GBase, NonceOf
    <3> QED
        BY <2>1, <3>2 DEF GBase, GTyped
  <2> QED
      BY <2>1
<1>2. Quiet(q)
    BY <1>1 DEF Quiet
<1>3. SameOrIdle(q)
    BY SameCalls DEF SameOrIdle
<1>4. KeysStayDead /\ conf' = conf
    BY DEF KeysStayDead, KeyIsDead, ServerFrame
<1> QED
    BY <1>2, <1>3, <1>4, QuietKeeps

LEMMA ServerOwn ==
    ASSUME GInv, OInv, OncePerChain, NEW r \in Reqs, ServerFrame, ServerEffect(r)
    PROVE  OInv'
<1>1. GBase /\ GTyped /\ Placed(r) /\ \A q \in Reqs : Own(q)
    BY DEF GInv, GBase, OInv, Own
<1>2. ASSUME NEW ctx, Moved(r, ctx), Own(r)', \/ nonces' = nonces
                                               \/ /\ srv[r].st = "validating"
                                                  /\ nonces' = [nonces EXCEPT ![srv[r].md.nonce] = now + NonceTTL]
      PROVE  OInv'
  <2>1. \A q \in Reqs : q # r => srv'[q] = srv[q] /\ seen'[q] = seen[q]
      BY <1>2 DEF Moved
  <2>2. \A q \in Reqs : Own(q)'
      BY <1>1, <1>2, <2>1, OthersQuiet
  <2> QED
      BY <2>2 DEF OInv, Own
<1>3. ASSUME Ended(r), Records(r), srv'[r].why # "nonce",
             \/ nonces' = nonces
             \/ srv[r].st = "validating" /\ nonces' = [nonces EXCEPT ![srv[r].md.nonce] = now + NonceTTL]
      PROVE  OInv'
  <2>1. \A q \in Reqs : q # r => srv'[q] = srv[q] /\ seen'[q] = seen[q]
      BY <1>3 DEF Ended
  <2>2. Own(r)'
      BY <1>1, <1>3, EndedOwn
  <2>3. \A q \in Reqs : Own(q)'
      BY <1>1, <1>3, <2>1, <2>2, OthersQuiet
  <2> QED
      BY <2>3 DEF OInv, Own
<1>4. CASE EffArrive(r)
  <2>1. srv[r].pos = 0 /\ srv[r].st = "sent" /\ Moved(r, NewContext) /\ nonces' = nonces
      BY <1>1, <1>4 DEF EffArrive, Placed
  <2>2. srv[r].pos \in 0..Len(Chain(r))
    <3>1. Len(Chain(r)) \in Nat
        BY <1>1, ChainIs DEF GTyped
    <3> QED
        BY <2>1, <3>1
  <2>3. ~Passed(r, "credential")'
    <3>1. ~Passed(r, "credential")
        BY <1>1, <2>1, NothingPassed
    <3> QED
        BY <1>1, <2>1, <2>2, <3>1, MovedPassed DEF Guards
  <2>4. Ctx(r)' = NewContext
      BY <2>1 DEF Moved, Ctx
  <2>5. Compared(r)'
      BY <2>3, <2>4, NewContextIs DEF Compared
  <2>6. Own(r)'
      BY <1>1, <2>1, <2>2, <2>5, MovedOwn
  <2> QED
      BY <1>2, <2>1, <2>6
<1>5. CASE EffPass(r)
  <2>1. PICK ctx \in Contexts : Moved(r, ctx) /\ Passable(r, ctx)
      BY <1>5 DEF EffPass
  <2>2. PICK x \in Guards : At(r, x)
      BY <2>1 DEF Passable, Guards
  <2>3. srv[r].pos \in 0..Len(Chain(r)) /\ srv[r].pos # 0 /\ srv[r].st = "in" /\ nonces' = nonces
      BY <1>1, <1>5, <2>2, AtFacts DEF EffPass
  <2>4. Compared(r)'
    <3>1. \/ Here(r) = "mtls" /\ ctx.cred = Ctx(r).cred
          \/ Here(r) \in {"acl", "permission", "credential"} /\ ctx = Ctx(r)
          \/ Here(r) = "credential" /\ Admitted(r, ctx)
        BY <2>1 DEF Passable, At
    <3> QED
        BY <1>1, <2>1, <2>3, <3>1, MovedCompared DEF Own
  <2>5. Here(r) = "credential" /\ srv[r].stale => Skipped(r)
    <3> SUFFICES ASSUME Here(r) = "credential", srv[r].stale, ~Skipped(r) PROVE FALSE
        OBVIOUS
    <3>1. Extract(srv[r].md) = "api_key" /\ KeyIsDead(srv[r].md.key)
        BY <1>1 DEF Own, DeadKey
    <3>2. KeyOK(srv[r].md.key)
        BY <2>1, <3>1 DEF Passable, At
    <3>3. srv[r].md.key \in Services
        BY <1>1, <3>1, RequestFields, ExtractIs DEF GTyped
    <3> QED
        BY <1>1, <3>1, <3>2, <3>3, GoodIsNotDead
  <2>6. Own(r)'
      BY <1>1, <2>1, <2>3, <2>4, <2>5, MovedOwn
  <2> QED
      BY <1>2, <2>1, <2>3, <2>6
<1>6. CASE EffRefuse(r)
  <2>1. PICK why \in Whys :
           /\ Refused(r, why)
           /\ why = "nonce" =>
                 At(r, "credential") /\ Extract(srv[r].md) = "hmac" /\ nonces[srv[r].md.nonce] # Absent
      BY <1>6 DEF EffRefuse
  <2>2. Ended(r) /\ srv'[r].why = why /\ Records(r) /\ nonces' = nonces
      BY <1>6, <2>1 DEF EffRefuse, Refused
  <2>3. CASE why # "nonce"
      BY <1>3, <2>2, <2>3
  <2>4. CASE why = "nonce" /\ PerAttempt("credential")
    <3>1. At(r, "credential") /\ Extract(srv[r].md) = "hmac" /\ nonces[srv[r].md.nonce] # Absent
        BY <2>1, <2>4
    <3>2. srv[r].md.nonce \in Reqs
        BY <1>1, <3>1, SignedFacts
    <3>3. srv[r].md.nonce = r
        BY <1>1, <2>4, <3>2, EmptyIsNone DEF GBase, NonceOf
    <3>4. /\ srv[r].st = "in" /\ srv[r].pos \in 0..Len(Chain(r)) /\ srv[r].pos # 0
          /\ Here(r) = "credential"
        BY <1>1, <3>1, AtFacts
    <3>5. ~Passed(r, "credential")
        BY <1>1, <3>4, NotPassed
    <3> QED
        BY <1>1, <2>4, <3>1, <3>3, <3>4, <3>5 DEF Own, OwnNonce
  <2>5. CASE ~PerAttempt("credential")
    <3>1. ~PerAttempt("credential")'
        BY <2>5, SameCalls
    <3>2. OwnNonce(r)'
        BY <3>1 DEF OwnNonce
    <3>3. Own(r)'
        BY <1>1, <2>2, <3>2, EndedRest DEF Own
    <3>4. \A q \in Reqs : q # r => srv'[q] = srv[q] /\ seen'[q] = seen[q]
        BY <2>2 DEF Ended
    <3>5. \A q \in Reqs : Own(q)'
        BY <1>1, <2>2, <3>3, <3>4, OthersQuiet
    <3> QED
        BY <3>5 DEF OInv, Own
  <2> QED
      BY <2>3, <2>4, <2>5
<1>7. CASE EffBegin(r)
  <2>1. nonces' = nonces /\ seen' = seen /\ Begun(r) /\ srv[r].st = "in" /\ srv \in [Reqs -> Requests]
      BY <1>1, <1>7 DEF EffBegin, At, GTyped
  <2>2. ASSUME NEW q \in Reqs PROVE Own(q)'
    <3>1. /\ srv'[q].ctxs = srv[q].ctxs /\ srv'[q].pos = srv[q].pos /\ srv'[q].md = srv[q].md
          /\ srv'[q].why = srv[q].why /\ (srv'[q].st = "done" <=> srv[q].st = "done")
          /\ srv'[q].res = srv[q].res
        BY <2>1, BegunFields
    <3>2. srv'[q].stale = srv[q].stale /\ srv'[q].panicked = srv[q].panicked
        BY <2>1, BegunFields
    <3>3. Quiet(q)
        BY <2>1, <3>1, <3>2 DEF Quiet
    <3>4. SameOrIdle(q)
        BY SameCalls DEF SameOrIdle
    <3>5. KeysStayDead /\ conf' = conf
        BY DEF KeysStayDead, KeyIsDead, ServerFrame
    <3> QED
        BY <1>1, <3>3, <3>4, <3>5, QuietKeeps
  <2> QED
      BY <2>2 DEF OInv, Own
<1>8. CASE EffStore(r)
  <2>1. srv[r].st = "validating" /\ nonces' = [nonces EXCEPT ![srv[r].md.nonce] = now + NonceTTL]
      BY <1>8 DEF EffStore
  <2>2. /\ srv[r].pos \in 0..Len(Chain(r)) /\ srv[r].pos # 0 /\ Here(r) = "credential"
        /\ Extract(srv[r].md) = "hmac"
      BY <1>1, <2>1, ValidatingFacts
  <2>3. CASE \E ctx \in Contexts : Moved(r, ctx) /\ Admitted(r, ctx)
    <3>1. PICK ctx \in Contexts : Moved(r, ctx) /\ Admitted(r, ctx)
        BY <2>3
    <3>2. Compared(r)'
        BY <1>1, <2>2, <3>1, MovedCompared DEF Own
    <3>3. ~srv[r].stale
        BY <1>1, <2>2 DEF Own, DeadKey
    <3>4. Own(r)'
        BY <1>1, <2>1, <2>2, <3>1, <3>2, <3>3, MovedOwn
    <3> QED
        BY <1>2, <2>1, <3>1, <3>4
  <2>4. CASE Refused(r, "identity") /\ Records(r)
    <3>1. Ended(r) /\ srv'[r].why # "nonce"
        BY <2>4 DEF Refused
    <3> QED
        BY <1>3, <2>1, <2>4, <3>1
  <2> QED
      BY <1>8, <2>3, <2>4 DEF EffStore
<1>9. CASE EffHandle(r)
  <2>1. Ended(r) /\ Records(r) /\ nonces' = nonces /\ srv'[r].why = srv[r].why /\ srv[r].st = "in"
      BY <1>9 DEF EffHandle
  <2>2. srv'[r].why # "nonce"
      BY <1>1, <2>1 DEF Placed
  <2> QED
      BY <1>3, <2>1, <2>2
<1> QED
    BY <1>4, <1>5, <1>6, <1>7, <1>8, <1>9 DEF ServerEffect

LEMMA ClientOwn ==
    ASSUME GInv, OInv, NEW c \in Calls, ClientFrame, ClientEffect(c)
    PROVE  OInv'
<1>1. GBase /\ srv \in [Reqs -> Requests] /\ \A q \in Reqs : Own(q)
    BY DEF GInv, GBase, GTyped, OInv, Own
<1>2. KeysStayDead /\ conf' = conf /\ nonces' = nonces /\ seen' = seen
    BY DEF KeysStayDead, KeyIsDead, ClientFrame
<1>3. ASSUME NEW q \in Reqs, srv'[q] = srv[q] \/ Lost(q), SameOrIdle(q) PROVE Own(q)'
  <2>1. Quiet(q)
    <3>1. CASE srv'[q] = srv[q]
        BY <1>2, <3>1 DEF Quiet
    <3>2. CASE Lost(q)
        BY <1>2, <3>2 DEF Quiet, Lost
    <3> QED
        BY <1>3, <3>1, <3>2
  <2> QED
      BY <1>1, <1>2, <1>3, <2>1, QuietKeeps
<1>4. ASSUME NEW x \in ClientCalls, GoesOn(c, x) PROVE \A q \in Reqs : Own(q)'
    BY <1>3, <1>4, ClientGoesOn DEF SameOrIdle
<1>5. ASSUME NEW x \in ClientCalls, Prepares(c, x) PROVE \A q \in Reqs : Own(q)'
    BY <1>3, <1>5, ClientPrepares DEF SameOrIdle
<1>6. ASSUME NEW x \in ClientCalls, NEW y \in Requests, Sends(c, x, y) PROVE \A q \in Reqs : Own(q)'
  <2>1. PICK r \in Reqs : r = <<c, call[c].k>>
      BY AttemptIs
  <2>2. /\ \A q \in Reqs : Skipped(q)' = Skipped(q) /\ Chain(q)' = Chain(q)
        /\ \A q \in Reqs : q # r => srv'[q] = srv[q]
        /\ srv'[r] = y /\ (\A g : ~Passed(r, g)') /\ srv[r].st = "none" /\ \A g : ~Passed(r, g)
      BY <1>6, <2>1, ClientSends
  <2>3. ASSUME NEW q \in Reqs, q # r PROVE Own(q)'
      BY <1>3, <2>2, <2>3 DEF SameOrIdle
  <2>4. y.st = "sent" /\ y.pos = 0 /\ y.ctxs = <<>> /\ y.why = ""
      BY <1>6 DEF Sends
  <2>5. OwnNonce(r)'
    <3>1. PerAttempt("credential") => nonces[r] = Absent
        BY <1>1, <2>2 DEF Own, OwnNonce
    <3>2. PerAttempt("credential")' = PerAttempt("credential")
        BY <1>2 DEF PerAttempt
    <3> QED
        BY <1>2, <2>2, <2>4, <3>1, <3>2 DEF OwnNonce
  <2>6. DeadKey(r)'
    <3>1. y.stale => Extract(y.md) = "api_key" /\ KeyIsDead(y.md.key)
        BY <1>6 DEF Sends
    <3> QED
        BY <2>2, <3>1 DEF DeadKey, KeyIsDead, ClientFrame, Extract
  <2>7. Compared(r)' /\ EndRecorded(r)'
      BY <2>2, <2>4 DEF Compared, EndRecorded
  <2>8. Own(r)'
      BY <2>5, <2>6, <2>7 DEF Own
  <2> QED
      BY <2>3, <2>8
<1>7. \A q \in Reqs : Own(q)'
    BY <1>4, <1>5, <1>6 DEF ClientEffect
<1> QED
    BY <1>7 DEF OInv, Own

LEMMA StillOwn ==
    ASSUME GInv, OInv, Still, KeysStayDead, \A q \in Reqs : nonces'[q] # Absent => nonces[q] # Absent
    PROVE  OInv'
<1>1. ASSUME NEW q \in Reqs PROVE Own(q)'
  <2>1. Quiet(q)
      BY DEF Quiet, Still
  <2>2. SameOrIdle(q)
      BY StillRequests DEF SameOrIdle
  <2>3. Own(q) /\ GBase /\ conf' = conf
      BY DEF OInv, Own, GInv, Still
  <2> QED
      BY <2>1, <2>2, <2>3, QuietKeeps
<1> QED
    BY <1>1 DEF OInv, Own

LEMMA OInvInit == ASSUME Init PROVE OInv
<1> SUFFICES ASSUME NEW r \in Reqs PROVE Own(r)
    BY DEF OInv, Own
<1>1. srv[r] = NewRequest /\ nonces[r] = Absent
    BY DEF Init
<1>2. srv[r].ctxs = <<>> /\ srv[r].why = "" /\ srv[r].st = "none" /\ ~srv[r].stale
    BY <1>1, NewRequestIs
<1> QED
    BY <1>1, <1>2 DEF Own, OwnNonce, DeadKey, Compared, EndRecorded

LEMMA OInvStep == ASSUME OncePerChain, GInv, OInv, [Next]_vars PROVE OInv'
<1>1. ASSUME NEW c \in Calls, StartCall(c) \/ ClientStep(c) \/ ConnectionFails(c) PROVE OInv'
    BY <1>1, ClientEffects, ClientOwn
<1>2. ASSUME NEW r \in Reqs, ServerStep(r) \/ \E res \in {"OK", "Unknown", "panic"} : Handler(r, res) PROVE OInv'
    BY <1>2, ServerEffects, ServerOwn DEF GInv
<1>3. ASSUME AdminFrame PROVE OInv'
  <2>1. Still /\ nonces' = nonces
      BY <1>3 DEF AdminFrame, Still
  <2>2. KeysStayDead
      BY <1>3 DEF KeysStayDead, KeyIsDead, AdminFrame
  <2> QED
      BY <2>1, <2>2, StillOwn
<1>4. ASSUME NEW s \in Services,
             \/ \E rule \in Rules : AddServicePermission(s, rule)
             \/ RemoveServicePermission(s) \/ RegisterKey(s) \/ Revoke(s) \/ UpdateServiceMethods(s, {})
      PROVE  OInv'
    BY <1>3, <1>4, AdminEffect
<1>5. CASE UNCHANGED vars
  <2>1. AdminFrame
      BY <1>5 DEF vars, AdminFrame, GInv, GBase, GTyped
  <2> QED
      BY <1>3, <2>1
<1>6. CASE Tick
  <2>1. Still /\ nonces' = nonces /\ now' = now + 1 /\ keys' = keys
      BY <1>6 DEF Tick, Still, stores
  <2>2. now \in 0..MaxNow /\ \A k \in Services : keys[k].expires \in Nat
      BY DEF GInv, GBase, GTyped, KeyInfos
  <2>3. \A k \in Services : now > keys[k].expires => now + 1 > keys[k].expires
      BY <2>2
  <2>4. KeysStayDead
      BY <2>1, <2>3 DEF KeysStayDead, KeyIsDead
  <2> QED
      BY <2>1, <2>4, StillOwn
<1>7. CASE Cleanup
  <2>1. Still /\ now' = now /\ keys' = keys
      BY <1>7 DEF Cleanup, Still, stores
  <2>2. \A q \in Reqs : nonces'[q] # Absent => nonces[q] # Absent
      BY <1>7 DEF Cleanup
  <2>3. KeysStayDead
      BY <2>1 DEF KeysStayDead, KeyIsDead
  <2> QED
      BY <2>1, <2>2, <2>3, StillOwn
<1> QED
    BY <1>1, <1>2, <1>4, <1>5, <1>6, <1>7 DEF Next

\* What every handled request has passed.
LEMMA HandledPassed ==
    ASSUME GBase, NEW r \in Reqs, srv[r].handled, NEW x, NEW j \in 1..Len(Chain(r)), Chain(r)[j] = x
    PROVE  Passed(r, x)
<1>1. srv[r].pos = Len(Chain(r)) + 1 /\ Len(srv[r].ctxs) = srv[r].pos /\ Len(Chain(r)) \in Nat
    BY ChainIs DEF GBase, GTyped, Placed
<1>2. j \in 1..(Len(srv[r].ctxs) - 1) /\ j <= Len(Chain(r))
    BY <1>1
<1> QED
    BY <1>2 DEF Passed

\* In every configuration that has no interceptor twice in a chain: no attempt
\* of a client that signs each one is taken for a replay, a handler sees one
\* identity, a request sent with a dead key reaches no handler, and each
\* observer records the end that the client sees.
THEOREM CallHolds == ASSUME OncePerChain PROVE Spec => []CallInv
<1>1. GInv /\ OInv => CallInv
  <2> SUFFICES ASSUME GInv, OInv PROVE CallInv
      OBVIOUS
  <2>1. GBase /\ GTyped /\ \A r \in Reqs : Own(r) /\ Placed(r)
      BY DEF GInv, GBase, OInv, Own
  <2>2. TypeOK
    <3>1. \A c \in Calls : /\ call[c].pc \in Waits /\ call[c].k \in 0..MaxRetries
                           /\ call[c].deadline \in {"none", "armed", "attempt"}
        BY <2>1, CallFields DEF GTyped
    <3>2. \A r \in Reqs : srv[r].st \in Stages /\ srv[r].res \in Codes /\ srv[r].pos = Len(srv[r].ctxs)
        BY <2>1, RequestFields DEF GTyped, Placed
    <3> QED
        BY <2>1, <3>1, <3>2 DEF TypeOK, GTyped, Waits, Stages, KeyInfos
  <2>3. RetryIsNoReplay
      BY <2>1 DEF RetryIsNoReplay, Own, OwnNonce
  <2>4. IdentityAgrees
    <3> SUFFICES ASSUME NEW r \in Reqs, srv[r].handled, conf.requireMatch, Precedes("mtls", "credential", Chain(r))
                 PROVE  LET ctx == srv[r].ctxs[Len(srv[r].ctxs)]
                        IN  ctx.id = NoIdentity \/ ctx.cred.subject = "" \/ ctx.id = ctx.cred.subject
        BY DEF IdentityAgrees
    <3>1. PICK j \in 1..Len(Chain(r)) : Chain(r)[j] = "credential"
        BY DEF Precedes
    <3>2. Passed(r, "credential")
        BY <2>1, <3>1, HandledPassed
    <3>3. srv[r].ctxs # <<>> /\ Ctx(r) = srv[r].ctxs[Len(srv[r].ctxs)]
      <4>1. srv[r].pos = Len(srv[r].ctxs) /\ srv[r].pos = Len(Chain(r)) + 1 /\ Len(Chain(r)) \in Nat
          BY <2>1, ChainIs DEF Placed, GTyped
      <4>2. Len(srv[r].ctxs) # 0
          BY <4>1
      <4> QED
          BY <4>1, <4>2, EmptySeq DEF Ctx
    <3> QED
        BY <2>1, <3>2, <3>3 DEF Own, Compared, IdentityMatches
  <2>5. RevokedIsRefused
      BY <2>1, HandledPassed DEF RevokedIsRefused, Own, DeadKey
  <2>6. EndIsRecorded
      BY <2>1 DEF EndIsRecorded, Own, EndRecorded
  <2> QED
      BY <2>2, <2>3, <2>4, <2>5, <2>6 DEF CallInv
<1>2. GInv /\ OInv /\ [Next]_vars => (GInv /\ OInv)'
    BY GInvStep, OInvStep
<1>3. Init => GInv /\ OInv
    BY GInvInit, OInvInit
<1> QED
    BY <1>1, <1>2, <1>3, PTL DEF Spec
====
