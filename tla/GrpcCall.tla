------------------------------ MODULE GrpcCall ------------------------------
(****************************************************************************)
(* A gRPC call through the interceptors of both sides: on the client the    *)
(* timeout, retry and credential interceptors, on the server any chain of   *)
(* recovery, request id, logging, mTLS, credential, ACL, permission,        *)
(* metrics and audit, over the ACL, the API keys and the nonces they share. *)
(*                                                                          *)
(* An interceptor is a step on the way in and, if it does something after   *)
(* its handler returns, a step on the way out; its context is the one it    *)
(* was given, not the one it passes on.  Unary and stream variants are one  *)
(* operator: where they differ the operator asks for the kind of the call.  *)
(* A signature is the tuple of what is signed; log texts are left out.      *)
(****************************************************************************)
EXTENDS Integers, Sequences, FiniteSets

CONSTANTS
    Calls, MaxRetries,
    Methods,         \* full method names: <<service, method>>
    SkipMethods,     \* DefaultSkipMethods and what the options add
    Services,        \* service names, which HMAC also uses as access keys
    Certs,           \* client certificates: [sa, cn], "" where it has none
    Confs,           \* how both sides are built: [server, stream, client, retried,
                     \* allowedServices, optional, requireMatch, useCred, defaultAllow], and the
                     \* calls made, inputs, whose skew is the client's clock minus the server's
    Validators,      \* the types registered with the CompositeValidator
    HmacKeys,        \* access keys the secret store has
    Patterns,        \* method patterns of the rules: <<service, method or "*">>
    Rules,           \* ServicePermissions: [allowed, denied]
    InitialRules,    \* rules NewServiceACL is given
    RequiredPerms,   \* method -> permissions registered for it
    KeyPerms,        \* permissions of the API keys
    KeyExpiry,       \* and when they expire, 0 for never
    Validity,        \* HMACValidator.TimestampValidity
    MaxNow, MaxAdmin

VARIABLES
    conf,    \* the interceptors and options both sides were built with
    call,    \* call -> the client's side of it
    srv,     \* attempt -> the server's side of it
    acl,     \* ServiceACL.rules
    keys,    \* InMemoryAPIKeyStore: service -> its key's info
    nonces,  \* InMemoryNonceStore: nonce -> expiry
    seen,    \* attempt -> what each observing interceptor has recorded
    metrics, \* AuthMetrics.serviceMetrics
    now,     \* clock of the server
    admin    \* changes of rules and keys so far

stores == <<acl, keys, admin>>
vars == <<conf, call, srv, acl, keys, nonces, seen, metrics, now, admin>>

Reqs == Calls \X (0..MaxRetries)       \* attempts, and the nonces made for them
Absent == -1
NoRule == [allowed |-> {}, denied |-> {"absent"}]
AnyRule == {NoRule} \cup [allowed : SUBSET Patterns, denied : SUBSET Patterns]
NoCert == [sa |-> "none", cn |-> "none"]
NoSig == <<>>
NoIdentity == "no identity"            \* the context holds no ServiceIdentity
NewContext == [id |-> NoIdentity, cred |-> [type |-> "none", subject |-> "", perms |-> {}]]
CredTypes == {"bearer", "hmac", "api_key"}
Observers == {"logging", "logger", "audit", "metrics"}
Guards == {"mtls", "credential", "acl", "permission"}
Interceptors == Observers \cup Guards \cup {"recovery", "request_id"}
ASSUME GrpcConstants ==
    /\ MaxRetries \in Nat /\ Validity \in Nat /\ MaxNow \in Nat /\ MaxAdmin \in Nat
    /\ KeyExpiry \in Nat
    /\ InitialRules \subseteq [Services -> AnyRule]
    /\ SkipMethods \subseteq Methods
    /\ HmacKeys \subseteq Services /\ "" \notin Services
    /\ Rules \subseteq AnyRule
    /\ RequiredPerms \in [Methods -> SUBSET KeyPerms]
    /\ \A cf \in Confs :
          /\ cf.server \in Seq(Interceptors)
          /\ cf.stream \in Seq(Interceptors \ {"permission", "metrics"})
          /\ \E i \in 1..Len(cf.server) : cf.server[i] = "recovery"
          /\ \E i \in 1..Len(cf.stream) : cf.stream[i] = "recovery"
          /\ cf.inputs \subseteq [kind : {"unary", "stream"}, method : Methods, cert : Certs \cup {NoCert},
                                  user : Services, prov : SUBSET CredTypes, skew : Int,
                                  deadline : {"none", "armed"}]
          /\ {cf.client[i] : i \in 1..Len(cf.client)} = {"timeout", "retry", "credential"}
    /\ Certs \subseteq [sa : Services \cup {""}, cn : Services \cup {""}]

Codes == {"OK", "Unknown", "Internal", "Unauthenticated", "PermissionDenied", "panic"}

NoMetadata == [bearer |-> "", key |-> "", sig |-> NoSig, ts |-> 0, nonce |-> <<>>]
NewRequest == [st |-> "none", pos |-> 0, ctxs |-> <<>>, res |-> "OK", why |-> "", md |-> NoMetadata,
               handled |-> FALSE, panicked |-> FALSE, overlap |-> {}, stale |-> FALSE]
NewCall == [pc |-> "idle", k |-> 0, kind |-> "unary", method |-> <<>>, cert |-> NoCert, user |-> "",
            prov |-> {}, skew |-> 0, md |-> NoMetadata, deadline |-> "none", res |-> "none"]

Precedes(a, b, chain) ==
    \E i, j \in 1..Len(chain) : i < j /\ chain[i] = a /\ chain[j] = b

\* MetadataCredentialExtractor.Extract: bearer before signature before key.
Extract(md) ==
    IF md.bearer # "" THEN "bearer" ELSE IF md.sig # NoSig THEN "hmac"
    ELSE IF md.key # "" THEN "api_key" ELSE "none"

\* A key that will not be accepted again.
KeyIsDead(k) == keys[k].revoked \/ (keys[k].expires # 0 /\ now > keys[k].expires)

-----------------------------------------------------------------------------
(* The client.                                                              *)

\* What is signed with the secret.  Access keys and nonces have a fixed width,
\* so the concatenation in the code tells the parts apart.
ComputeHMACSignature(accessKey, secretKey, ts, nonce) == <<accessKey, secretKey, ts, nonce>>

\* Faulty variant: the nonce is made once per call.
GetMetadataOneNonce(c) ==
    LET u == call[c].user
        n == <<c, 0>>
        t == now + call[c].skew
    IN  [bearer |-> IF "bearer" \in call[c].prov THEN u ELSE "",
         key    |-> IF call[c].prov \cap {"hmac", "api_key"} # {} THEN u ELSE "",
         sig    |-> IF "hmac" \in call[c].prov THEN ComputeHMACSignature(u, u, t, n) ELSE NoSig,
         ts     |-> IF "hmac" \in call[c].prov THEN t ELSE 0,
         nonce  |-> IF "hmac" \in call[c].prov THEN n ELSE <<>>]

\* ClientCredentialProvider.GetMetadata of the providers of the call, the nonce
\* being new for every use.
GetMetadata(c) ==
    LET u == call[c].user
        n == <<c, call[c].k>>
        t == now + call[c].skew
    IN  [bearer |-> IF "bearer" \in call[c].prov THEN u ELSE "",
         key    |-> IF call[c].prov \cap {"hmac", "api_key"} # {} THEN u ELSE "",
         sig    |-> IF "hmac" \in call[c].prov THEN ComputeHMACSignature(u, u, t, n) ELSE NoSig,
         ts     |-> IF "hmac" \in call[c].prov THEN t ELSE 0,
         nonce  |-> IF "hmac" \in call[c].prov THEN n ELSE <<>>]

\* The interceptors a stream has: timeout and retry are unary only.
Has(c, x) == call[c].kind = "unary" \/ x = "credential"
PerAttempt(x) == Precedes("retry", x, conf.client)

StartCall(c) ==
    /\ call[c].pc = "idle"
    /\ \E in \in conf.inputs :
          call' = [call EXCEPT ![c] = [NewCall EXCEPT
                      !.pc = "outer", !.kind = in.kind, !.method = in.method, !.cert = in.cert,
                      !.user = in.user, !.prov = in.prov, !.skew = in.skew, !.deadline = in.deadline]]
    /\ UNCHANGED <<conf, srv, stores, nonces, seen, metrics, now>>

\* Faulty variant: it extends only a deadline that is there.
TimeoutOnlyIfSet(c, outer) == call[c].deadline

\* ClientTimeoutInterceptor: a deadline only where the context has none.
ClientTimeoutInterceptor(c, outer) ==
    IF Has(c, "timeout") /\ call[c].deadline = "none" /\ (outer <=> ~PerAttempt("timeout"))
    THEN IF outer THEN "armed" ELSE "attempt"
    ELSE call[c].deadline

\* The outer interceptors.  A credential interceptor outside the retry asks for
\* the metadata once; a token that cannot be had fails the call.
ClientCredentialInterceptor(c) ==
    /\ call[c].pc = "outer"
    /\ \/ call' = [call EXCEPT ![c].pc = "invoke", ![c].deadline = ClientTimeoutInterceptor(c, TRUE),
                               ![c].md = IF PerAttempt("credential") THEN @ ELSE GetMetadata(c)]
       \/ /\ "bearer" \in call[c].prov /\ ~PerAttempt("credential")
          /\ call' = [call EXCEPT ![c].pc = "done", ![c].res = "no token"]
    /\ UNCHANGED <<conf, srv, stores, nonces, seen, metrics, now>>

\* The rest of an iteration of ClientRetryInterceptor, once the attempt has
\* answered: without a ShouldRetry every error is tried again.
ClientRetryInterceptor(c, res) ==
    LET again == res # "OK" /\ Has(c, "retry") /\ res \in conf.retried /\ call[c].k < MaxRetries
    IN  [call EXCEPT ![c].pc = IF again THEN "backoff" ELSE "done",
                     ![c].res = res,
                     ![c].deadline = IF @ = "attempt" THEN "none" ELSE @]

\* One attempt: the inner interceptors and the sending.
Invoke(c) ==
    /\ call[c].pc = "invoke"
    /\ \/ LET r  == <<c, call[c].k>>
              md == IF PerAttempt("credential") THEN GetMetadata(c) ELSE call[c].md
          IN  /\ srv' = [srv EXCEPT ![r] = [NewRequest EXCEPT
                    !.st = "sent", !.md = md,
                    !.stale = Extract(md) = "api_key" /\ KeyIsDead(md.key)]]
              /\ call' = [call EXCEPT ![c].pc = "wait", ![c].deadline = ClientTimeoutInterceptor(c, FALSE)]
       \/ /\ "bearer" \in call[c].prov /\ PerAttempt("credential")
          /\ call' = ClientRetryInterceptor(c, "no token")
          /\ UNCHANGED srv
    /\ UNCHANGED <<conf, stores, nonces, seen, metrics, now>>

\* The answer arrives.
Answered(c) ==
    LET r == <<c, call[c].k>>
    IN  /\ call[c].pc = "wait" /\ srv[r].st = "done"
        /\ call' = ClientRetryInterceptor(c, srv[r].res)
        /\ UNCHANGED <<conf, srv, stores, nonces, seen, metrics, now>>

\* The connection fails: the request or its answer is lost.
ConnectionFails(c) ==
    LET r == <<c, call[c].k>>
    IN  /\ call[c].pc = "wait"
        /\ call' = ClientRetryInterceptor(c, "Unavailable")
        /\ srv' = IF srv[r].st = "sent" THEN [srv EXCEPT ![r].st = "lost"] ELSE srv
        /\ UNCHANGED <<conf, stores, nonces, seen, metrics, now>>

\* The deadline passes while the client waits: the server goes on, unless the
\* request never left.  A deadline of the whole call also ends the retrying.
DeadlineWaiting(c) ==
    LET r == <<c, call[c].k>>
    IN  /\ call[c].pc = "wait" /\ call[c].deadline \in {"armed", "attempt"}
        /\ call' = IF call[c].deadline = "attempt" THEN ClientRetryInterceptor(c, "DeadlineExceeded")
                   ELSE [call EXCEPT ![c].pc = "done", ![c].res = "DeadlineExceeded"]
        /\ srv' \in {srv, IF srv[r].st = "sent" THEN [srv EXCEPT ![r].st = "lost"] ELSE srv}
        /\ UNCHANGED <<conf, stores, nonces, seen, metrics, now>>

\* The wait between two attempts: the timer, or the end of the context.
Backoff(c) ==
    /\ call[c].pc = "backoff"
    /\ \/ call' = [call EXCEPT ![c].pc = "invoke", ![c].k = @ + 1]
       \/ /\ call[c].deadline = "armed"
          /\ call' = [call EXCEPT ![c].pc = "done", ![c].res = "DeadlineExceeded"]
    /\ UNCHANGED <<conf, srv, stores, nonces, seen, metrics, now>>

-----------------------------------------------------------------------------
(* The server: the chain.                                                   *)

\* A server has a chain for either kind; permission and metrics have no stream
\* variant.
Chain(r) == IF call[r[1]].kind = "unary" THEN conf.server ELSE conf.stream

Here(r) == Chain(r)[srv[r].pos]
At(r, x) == srv[r].st = "in" /\ srv[r].pos <= Len(Chain(r)) /\ Here(r) = x
Ctx(r) == srv[r].ctxs[srv[r].pos]
Method(r) == call[r[1]].method

\* SkipMethodMatcher.Match of the method of the call.
Skipped(r) == Method(r) \in SkipMethods

\* handler(ctx, req) of the interceptor at pos, on to the next one that asks for
\* more than its own call.  The others (RequestIDInterceptor, which adds an id
\* to the context, recovery and the observers) are passed in the same step.
CallOn(r, pos, ctx) ==
    LET chain == Chain(r)
        next == CHOOSE j \in (pos + 1)..(Len(chain) + 1) :
                   /\ j <= Len(chain) => chain[j] \in Guards
                   /\ \A i \in (pos + 1)..(j - 1) : chain[i] \notin Guards
    IN  srv' = [srv EXCEPT ![r].st = "in", ![r].pos = next,
                           ![r].ctxs = [i \in 1..next |-> IF i <= pos THEN @[i] ELSE ctx]]

Forward(r, ctx) == CallOn(r, srv[r].pos, ctx) /\ UNCHANGED <<seen, metrics>>

\* RecoveryInterceptor makes a status of a panic: what the interceptor at i gets
\* back when the one at pos, or the handler, ends with res.
RecoveryInterceptor(r, i, pos, res) ==
    IF res = "panic" /\ \E j \in (i + 1)..(pos - 1) : Chain(r)[j] = "recovery" THEN "Internal" ELSE res

\* status.FromError: an error without a status counts as Internal, where
\* status.Convert and gRPC itself say Unknown.
FromError(res) == IF res = "Unknown" THEN "Internal" ELSE res

\* What the observers record.  None defers it: a panic passes them by, and the
\* loggers have then recorded the start only.
LoggingInterceptor(res) == IF res = "panic" THEN "started" ELSE FromError(res)
UnaryServerLoggingInterceptor(res) == IF res = "panic" THEN "started" ELSE res
AuditInterceptor(res) == IF res = "panic" THEN "none" ELSE FromError(res)
MetricsInterceptor(res) == IF res = "panic" THEN "none" ELSE res

Recorded(r, o, res) ==
    IF o # "metrics" /\ Skipped(r) THEN "none"
    ELSE CASE o = "logging" -> LoggingInterceptor(res)
           [] o = "logger"  -> UnaryServerLoggingInterceptor(res)
           [] o = "audit"   -> AuditInterceptor(res)
           [] o = "metrics" -> MetricsInterceptor(res)

\* RecordServiceRequest, under the service that the interceptor's context names.
RecordServiceRequest(ctx, res) ==
    LET s == IF ctx.id = NoIdentity THEN "unknown" ELSE ctx.id
    IN  IF res = "OK" THEN [metrics EXCEPT ![s].success = @ + 1]
        ELSE [metrics EXCEPT ![s].failure = @ + 1]

\* The way back from the interceptor at pos, or from the handler, which ends
\* with res: the rest of every interceptor it came through, innermost first.
Unwind(s, r, res) ==
    LET pos == srv[r].pos
        chain == Chain(r)
        Result(i) == RecoveryInterceptor(r, i, pos, res)
        through(o) == {i \in 1..(pos - 1) : chain[i] = o}
    IN  /\ srv' = [s EXCEPT ![r].st = "done", ![r].res = Result(0)]
        /\ seen' = [seen EXCEPT ![r] = [o \in Observers |->
                       IF through(o) = {} THEN "none"
                       ELSE Recorded(r, o, Result(CHOOSE i \in through(o) : TRUE))]]
        /\ metrics' = IF \E i \in through("metrics") : Result(i) # "panic"
                      THEN LET i == CHOOSE i \in through("metrics") : TRUE
                           IN  RecordServiceRequest(srv[r].ctxs[i], Result(i))
                      ELSE metrics

\* An early return with an error.
Refuse(r, code, why) ==
    Unwind([srv EXCEPT ![r].why = why], r, code)

Arrive(r) ==
    /\ srv[r].st = "sent"
    /\ CallOn(r, 0, NewContext)
    /\ UNCHANGED <<conf, call, stores, nonces, seen, metrics, now>>

\* The handler answers, fails with an error that has no status, or panics.
Handler(r, res) ==
    /\ srv[r].st = "in" /\ srv[r].pos > Len(Chain(r))
    /\ Unwind([srv EXCEPT ![r].handled = TRUE, ![r].panicked = res = "panic"], r, res)
    /\ UNCHANGED <<conf, call, stores, nonces, now>>

-----------------------------------------------------------------------------
(* The server: who calls, and may it.                                       *)

\* ParseCertificateIdentity: the SPIFFE service account, else the common name.
ParseCertificateIdentity(cert) == IF cert.sa # "" THEN cert.sa ELSE cert.cn

MTLSInterceptor(r) ==
    LET cert == call[r[1]].cert
        name == ParseCertificateIdentity(cert)
    IN  /\ At(r, "mtls")
        /\ \/ Skipped(r) /\ Forward(r, Ctx(r))
           \/ ~Skipped(r) /\ cert = NoCert /\ Refuse(r, "Unauthenticated", "certificate")
           \/ /\ ~Skipped(r) /\ cert # NoCert /\ name \notin conf.allowedServices
              /\ Refuse(r, "Unauthenticated", "service")
           \/ /\ ~Skipped(r) /\ cert # NoCert /\ name \in conf.allowedServices
              /\ Forward(r, [Ctx(r) EXCEPT !.id = name])
        /\ UNCHANGED <<conf, call, stores, nonces, now>>

\* validateIdentityMatch: only where both sides have something to compare.
IdentityMatches(ctx, cred) ==
    ctx.id = NoIdentity \/ cred.subject = "" \/ ctx.id = cred.subject

\* The end of CredentialInterceptor for a validated credential.
Admit(r, cred) ==
    IF conf.requireMatch /\ ~IdentityMatches(Ctx(r), cred)
    THEN Refuse(r, "Unauthenticated", "identity")
    ELSE Forward(r, [Ctx(r) EXCEPT !.cred = cred])

\* The clock checks of HMACValidator.Validate.
TimestampOK(ts) == now - ts <= Validity /\ now - ts >= -Validity

\* InMemoryAPIKeyStore.Get and the checks of APIKeyValidator.Validate.
KeyOK(k) ==
    /\ keys[k].registered /\ ~keys[k].revoked
    /\ keys[k].expires = 0 \/ now <= keys[k].expires

\* A bearer token is validated by code of the application; a signature in two
\* steps, of which this is the first.
Validated(type, md) ==
    IF type = "bearer" THEN [type |-> "bearer", subject |-> md.bearer, perms |-> {}]
    ELSE IF type = "api_key" THEN [type |-> "api_key", subject |-> md.key, perms |-> KeyPerms]
    ELSE [type |-> "hmac", subject |-> md.key, perms |-> {}]

\* CredentialInterceptor: to its end for tokens and keys; for signatures the
\* part of HMACValidator.Validate up to the answer of NonceStore.Exists.
CredentialInterceptor(r) ==
    LET md   == srv[r].md
        type == Extract(md)
        busy == {q \in Reqs : srv[q].st = "validating"}
        skip == Skipped(r) \/ (type = "none" /\ conf.optional)
    IN  /\ At(r, "credential")
        /\ \/ skip /\ Forward(r, Ctx(r))
           \/ ~skip /\ type \notin Validators /\ Refuse(r, "Unauthenticated", "type")
           \/ ~skip /\ type \in Validators \cap {"bearer"} /\ Admit(r, Validated(type, md))
           \/ /\ ~skip /\ type \in Validators \cap {"api_key"}
              /\ IF KeyOK(md.key) THEN Admit(r, Validated(type, md))
                 ELSE Refuse(r, "Unauthenticated", "key")
           \/ /\ ~skip /\ type \in Validators \cap {"hmac"}
              /\ IF ~TimestampOK(md.ts) THEN Refuse(r, "Unauthenticated", "timestamp")
                 ELSE IF nonces[md.nonce] # Absent THEN Refuse(r, "Unauthenticated", "nonce")
                 ELSE /\ srv' = [q \in Reqs |->
                           IF q = r THEN [srv[r] EXCEPT !.st = "validating", !.overlap = busy]
                           ELSE IF q \in busy THEN [srv[q] EXCEPT !.overlap = @ \cup {r}] ELSE srv[q]]
                      /\ UNCHANGED <<seen, metrics>>
        /\ UNCHANGED <<conf, call, stores, nonces, now>>

\* Faulty variant: as long as a timestamp is valid.
NonceTTLShort == Validity

\* How long a nonce is kept.
NonceTTL == 2 * Validity

\* The rest of HMACValidator.Validate: secret, signature, NonceStore.Store.
ValidateSignature(r) ==
    LET md   == srv[r].md
        good == md.key \in HmacKeys /\ md.sig = ComputeHMACSignature(md.key, md.key, md.ts, md.nonce)
    IN  /\ srv[r].st = "validating"
        /\ IF good
           THEN /\ nonces' = [nonces EXCEPT ![md.nonce] = now + NonceTTL]
                /\ Admit(r, Validated("hmac", md))
           ELSE Refuse(r, "Unauthenticated", "signature") /\ UNCHANGED nonces
        /\ UNCHANGED <<conf, call, stores, now>>

\* MatchMethod: the exact name or a wildcard for the methods of a service.
MatchMethod(m, pattern) == m = pattern \/ (pattern[2] = "*" /\ pattern[1] = m[1])

\* CheckAccess: no rule, then the denied, then the allowed methods.
CheckAccess(s, m) ==
    IF s \notin Services \/ acl[s] = NoRule THEN conf.defaultAllow
    ELSE /\ \A p \in acl[s].denied : ~MatchMethod(m, p)
         /\ \E p \in acl[s].allowed : MatchMethod(m, p)

\* Whom an ACL decision is about: the certificate's name, else the credential's.
Caller(ctx) ==
    IF ctx.id \notin {NoIdentity, ""} THEN ctx.id ELSE IF conf.useCred THEN ctx.cred.subject ELSE ""

ACLInterceptor(r) ==
    LET s == Caller(Ctx(r))
    IN  /\ At(r, "acl")
        /\ \/ Skipped(r) /\ Forward(r, Ctx(r))
           \/ ~Skipped(r) /\ s = "" /\ Refuse(r, "Unauthenticated", "caller")
           \/ /\ ~Skipped(r) /\ s # "" /\ ~CheckAccess(s, Method(r))
              /\ Refuse(r, "PermissionDenied", "acl")
           \/ ~Skipped(r) /\ s # "" /\ CheckAccess(s, Method(r)) /\ Forward(r, Ctx(r))
        /\ UNCHANGED <<conf, call, stores, nonces, now>>

\* PermissionInterceptor and MethodPermissionChecker.Check: of skipped methods too.
PermissionInterceptor(r) ==
    /\ At(r, "permission")
    /\ IF RequiredPerms[Method(r)] \subseteq Ctx(r).cred.perms THEN Forward(r, Ctx(r))
       ELSE Refuse(r, "PermissionDenied", "permission")
    /\ UNCHANGED <<conf, call, stores, nonces, now>>

-----------------------------------------------------------------------------
(* Administration and time.                                                 *)

Administer == admin < MaxAdmin /\ admin' = admin + 1

\* AddServicePermission replaces the rule, whatever its Enabled says.
AddServicePermission(s, rule) ==
    /\ Administer
    /\ acl' = [acl EXCEPT ![s] = rule]
    /\ UNCHANGED <<conf, call, srv, keys, nonces, seen, metrics, now>>

RemoveServicePermission(s) ==
    /\ Administer
    /\ acl' = [acl EXCEPT ![s] = NoRule]
    /\ UNCHANGED <<conf, call, srv, keys, nonces, seen, metrics, now>>

\* UpdateServiceMethods fails without a rule.
UpdateServiceMethods(s, ms) ==
    /\ Administer /\ acl[s] # NoRule
    /\ acl' = [acl EXCEPT ![s].allowed = ms]
    /\ UNCHANGED <<conf, call, srv, keys, nonces, seen, metrics, now>>

\* InMemoryAPIKeyStore.Register.  A key is registered once: after a Revoke the
\* application makes a new one.
RegisterKey(k) ==
    /\ Administer /\ ~keys[k].registered
    /\ keys' = [keys EXCEPT ![k].registered = TRUE]
    /\ UNCHANGED <<conf, call, srv, acl, nonces, seen, metrics, now>>

Revoke(k) ==
    /\ Administer /\ keys[k].registered
    /\ keys' = [keys EXCEPT ![k].revoked = TRUE]
    /\ UNCHANGED <<conf, call, srv, acl, nonces, seen, metrics, now>>

Tick ==
    /\ now < MaxNow /\ now' = now + 1
    /\ UNCHANGED <<conf, call, srv, stores, nonces, seen, metrics>>

\* One round of InMemoryNonceStore.cleanup.
Cleanup ==
    /\ \E n \in Reqs : nonces[n] # Absent /\ now > nonces[n]
    /\ nonces' = [n \in Reqs |-> IF now > nonces[n] THEN Absent ELSE nonces[n]]
    /\ UNCHANGED <<conf, call, srv, stores, seen, metrics, now>>

-----------------------------------------------------------------------------
Init ==
    /\ conf \in Confs
    /\ call = [c \in Calls |-> NewCall]
    /\ srv = [r \in Reqs |-> NewRequest]
    /\ acl \in InitialRules
    /\ keys = [s \in Services |-> [registered |-> s \in HmacKeys, revoked |-> FALSE,
                                   expires |-> KeyExpiry]]
    /\ nonces = [n \in Reqs |-> Absent]
    /\ seen = [r \in Reqs |-> [o \in Observers |-> "none"]]
    /\ metrics = [s \in Services \cup {"", "unknown"} |-> [success |-> 0, failure |-> 0]]
    /\ now = 0 /\ admin = 0

ClientStep(c) ==
    \/ ClientCredentialInterceptor(c) \/ Invoke(c) \/ Answered(c) \/ DeadlineWaiting(c) \/ Backoff(c)

ServerStep(r) ==
    \/ Arrive(r) \/ MTLSInterceptor(r) \/ CredentialInterceptor(r) \/ ValidateSignature(r)
    \/ ACLInterceptor(r) \/ PermissionInterceptor(r)

Next ==
    \/ \E c \in Calls : StartCall(c) \/ ClientStep(c) \/ ConnectionFails(c)
    \/ \E r \in Reqs : ServerStep(r) \/ \E res \in {"OK", "Unknown", "panic"} : Handler(r, res)
    \/ \E s \in Services :
          \/ \E rule \in Rules : AddServicePermission(s, rule)
          \/ RemoveServicePermission(s) \/ RegisterKey(s) \/ Revoke(s)
          \/ UpdateServiceMethods(s, {})
    \/ Tick \/ Cleanup

Spec == Init /\ [][Next]_vars

\* The client and the interceptors run on; a handler need not return, nor the
\* network deliver, nor a clock or an administrator move.
FairSpec ==
    Spec /\ (\A c \in Calls : WF_vars(ClientStep(c))) /\ (\A r \in Reqs : WF_vars(ServerStep(r)))

-----------------------------------------------------------------------------
(* Properties.                                                              *)

\* Every variable has its type.
TypeOK ==
    /\ conf \in Confs
    /\ \A c \in Calls :
          /\ call[c].pc \in {"idle", "outer", "invoke", "wait", "backoff", "done"}
          /\ call[c].k \in 0..MaxRetries
          /\ call[c].deadline \in {"none", "armed", "attempt"}
    /\ \A r \in Reqs :
          /\ srv[r].st \in {"none", "sent", "lost", "in", "validating", "done"}
          /\ srv[r].res \in Codes
          /\ srv[r].pos = Len(srv[r].ctxs)
    /\ acl \in [Services -> AnyRule]
    /\ keys \in [Services -> [registered : BOOLEAN, revoked : BOOLEAN, expires : Nat]]
    /\ nonces \in [Reqs -> Nat \cup {Absent}]
    /\ now \in 0..MaxNow /\ admin \in 0..MaxAdmin

Passed(r, x) ==
    \E i \in 1..(Len(srv[r].ctxs) - 1) : i <= Len(Chain(r)) /\ Chain(r)[i] = x

\* No interceptor is in a chain twice.
OncePerChain ==
    \A cf \in Confs :
        /\ \A i, j \in 1..Len(cf.server) : cf.server[i] = cf.server[j] => i = j
        /\ \A i, j \in 1..Len(cf.stream) : cf.stream[i] = cf.stream[j] => i = j

\* HMACValidator keeps a nonce for as long as its timestamp can be accepted:
\* two requests with one nonce both pass by their signature only if their
\* validations overlapped, the second asking Exists before the first called
\* Store.
NonceUsedOnce ==
    \A r, q \in Reqs :
        /\ r # q /\ srv[r].md.nonce = srv[q].md.nonce /\ Extract(srv[r].md) = "hmac"
        /\ Passed(r, "credential") /\ Passed(q, "credential") /\ ~Skipped(r)
        => r \in srv[q].overlap

\* A retry outside the credential interceptor signs every attempt with a nonce
\* of its own: no attempt of the client is taken for a replay of another.
RetryIsNoReplay ==
    PerAttempt("credential") => \A r \in Reqs : srv[r].why # "nonce"

\* If mTLS is checked before the credential, a handler never sees a certificate
\* of one service with a credential of another.
IdentityAgrees ==
    \A r \in Reqs :
        srv[r].handled /\ conf.requireMatch /\ Precedes("mtls", "credential", Chain(r))
        => LET ctx == srv[r].ctxs[Len(srv[r].ctxs)]
           IN  ctx.id = NoIdentity \/ ctx.cred.subject = "" \/ ctx.id = ctx.cred.subject

\* A request sent after its API key was revoked or had expired reaches no
\* handler, whatever the order of the interceptors.
RevokedIsRefused ==
    \A r \in Reqs :
        srv[r].stale /\ ~Skipped(r) /\ (\E i \in 1..Len(Chain(r)) : Chain(r)[i] = "credential")
        => ~srv[r].handled

\* Every observer a finished request came through has recorded the end the
\* client sees, an error without a status as Internal; except for a panic that
\* only a recovery placed outside the observer caught.
EndIsRecorded ==
    \A r \in Reqs : \A i \in 1..(Len(srv[r].ctxs) - 1) :
        LET o == Chain(r)[i]
        IN  srv[r].st = "done" /\ o \in Observers /\ (o = "metrics" \/ ~Skipped(r))
            => \/ seen[r][o] \in {srv[r].res, FromError(srv[r].res)}
               \/ srv[r].panicked /\ ~Precedes(o, "recovery", Chain(r))

\* A unary call ends: the timeout interceptor gives a deadline to every context
\* without one, so neither a handler that hangs nor a lost answer holds it.
CallReturns ==
    \A c \in Calls : (call[c].pc = "outer" /\ call[c].kind = "unary") ~> (call[c].pc = "done")

\* What holds of every call and request: types, replays, identities, revoked
\* keys and the records of the observers.
CallInv == TypeOK /\ RetryIsNoReplay /\ IdentityAgrees /\ RevokedIsRefused /\ EndIsRecorded
=============================================================================
