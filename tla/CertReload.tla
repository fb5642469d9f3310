----------------------------- MODULE CertReload -----------------------------
(****************************************************************************)
(* The mTLS material of a gRPC server: a TLSConfigBuilder that loads the    *)
(* certificate, its key and the CA pool from files, the goroutines of       *)
(* StartAutoReload, the transport credentials a server was given, and the   *)
(* handshakes of clients with credentials of their own.                     *)
(*                                                                          *)
(* A certificate is the number of its generation.  An operator replaces the *)
(* files one after another while they are read one after another.  DNS      *)
(* names and common names are sequences of labels.                          *)
(****************************************************************************)
EXTENDS Integers, Sequences, FiniteSets

CONSTANTS
    MaxGen,          \* generations of certificates that are installed
    IssuerOf,        \* generation -> the CA that issued it
    Loaders,         \* goroutines of StartAutoReload, one for each time it is called
    RequireClientCert, EnableAutoReload,
    AllowedCNs, AllowedOUs, AllowedDNSSANs,
    Peers            \* credentials of clients: [cert, roots, insecure, cn, ous, sans]

VARIABLES
    crDisk,     \* the files: [cert, key, cas]
    crBuilt,    \* TLSConfigBuilder.tlsConfig
    crLoader,   \* loader -> what it has read so far
    crServing,  \* the tls.Config inside the server's TransportCredentials
    crStop,     \* stopCh
    crPeer      \* peer -> the identity the server has admitted it with

crVars == <<crDisk, crBuilt, crLoader, crServing, crStop, crPeer>>

New == "new"                       \* the goroutine that runs NewTLSConfigBuilder
Broken == 0                        \* a file that is half written
NoTLS == [pair |-> Broken, cas |-> {}]
Idle == [pc |-> "idle", cert |-> Broken, pair |-> Broken]
CAs == {IssuerOf[g] : g \in 1..MaxGen}

ASSUME CertConstants ==
    /\ MaxGen \in Nat \ {0} /\ DOMAIN IssuerOf = 1..MaxGen
    /\ New \notin Loaders
    /\ \A p \in Peers :
          p.cert \in 1..MaxGen /\ p.roots \subseteq CAs /\ p.sans \in Seq(Seq(STRING))
    /\ AllowedDNSSANs \subseteq Seq(STRING)

-----------------------------------------------------------------------------
(* Names.                                                                   *)

IsWild(pattern) == Len(pattern) > 1 /\ pattern[1] = "*"

\* MatchDNSSAN: the name itself, or a wildcard for one or more labels in front.
MatchDNSSAN(actual, pattern) ==
    \/ actual = pattern
    \/ /\ IsWild(pattern) /\ Len(actual) >= Len(pattern)
       /\ SubSeq(actual, Len(actual) - Len(pattern) + 2, Len(actual)) = Tail(pattern)

\* ParseServiceFromCN, else ParseServiceFromDNS of the first name: the service
\* and its namespace.
ParseCertIdentity(p) ==
    LET n == Len(p.cn)
    IN  CASE n >= 3 /\ p.cn[n] = "svc" -> <<p.cn[1], p.cn[2]>>
          [] n = 2 /\ p.cn[n] = "svc"  -> <<p.cn[1], "default">>
          [] n > 0 /\ p.cn[n] # "svc"  -> <<p.cn, "default">>
          [] n = 0 /\ p.sans # <<>>    -> <<p.sans[1][1], "default">>
          [] OTHER                     -> <<"", "default">>

-----------------------------------------------------------------------------
(* Loading.                                                                 *)

\* tls.LoadX509KeyPair and buildTLSConfig, file by file.  Any error leaves the
\* configuration as it is.
Begins(l) ==
    /\ crLoader[l].pc = "idle"
    /\ IF l = New THEN crBuilt = NoTLS
       ELSE EnableAutoReload /\ crBuilt # NoTLS

ReadCert(l) ==
    /\ Begins(l)
    /\ crLoader' = [crLoader EXCEPT ![l] = [@ EXCEPT !.pc = "key", !.cert = crDisk.cert]]
    /\ UNCHANGED <<crDisk, crBuilt, crServing, crStop, crPeer>>

\* The goroutine goes back to its ticker; NewTLSConfigBuilder returns the error,
\* and its caller may try again.
Unread(l) == [crLoader EXCEPT ![l] = Idle]

\* Faulty variant: certificate and key are not compared.
ReadKeyUnchecked(l) ==
    /\ crLoader[l].pc = "key"
    /\ crLoader' = [crLoader EXCEPT ![l].pc = "ca", ![l].pair = crDisk.key]
    /\ UNCHANGED <<crDisk, crBuilt, crServing, crStop, crPeer>>

\* Faulty variant: the goroutine ends with the error.
UnreadGivesUp(l) == [crLoader EXCEPT ![l] = [Idle EXCEPT !.pc = IF l = New THEN "idle" ELSE "gone"]]

\* Faulty variant: a failed reload ends the loop.
ReadKeyOrLeave(l) ==
    /\ crLoader[l].pc = "key"
    /\ IF crDisk.key # Broken /\ crDisk.key = crLoader[l].cert
       THEN crLoader' = [crLoader EXCEPT ![l].pc = "ca", ![l].pair = crDisk.key]
       ELSE crLoader' = UnreadGivesUp(l)
    /\ UNCHANGED <<crDisk, crBuilt, crServing, crStop, crPeer>>

\* The key must be the certificate's.
ReadKey(l) ==
    /\ crLoader[l].pc = "key"
    /\ IF crDisk.key # Broken /\ crDisk.key = crLoader[l].cert
       THEN crLoader' = [crLoader EXCEPT ![l].pc = "ca", ![l].pair = crDisk.key]
       ELSE crLoader' = Unread(l)
    /\ UNCHANGED <<crDisk, crBuilt, crServing, crStop, crPeer>>

\* loadCACertPool of the file and the directory, and the assignment under the
\* mutex.  A CAFile that holds no certificate is an error.
loadCACertPool(l) ==
    /\ crLoader[l].pc = "ca"
    /\ crBuilt' = IF crDisk.cas = {} THEN crBuilt ELSE [pair |-> crLoader[l].pair, cas |-> crDisk.cas]
    /\ crLoader' = Unread(l)
    /\ UNCHANGED <<crDisk, crServing, crStop, crPeer>>

\* The select of the goroutine: with stopCh closed it may still take a tick.
Leaves(l) ==
    /\ l # New /\ crStop = "closed" /\ crLoader[l].pc = "idle"
    /\ crLoader' = [crLoader EXCEPT ![l].pc = "gone"]
    /\ UNCHANGED <<crDisk, crBuilt, crServing, crStop, crPeer>>

\* Stop closes the channel, and panics if it is closed.
StopReload ==
    /\ crBuilt # NoTLS /\ crStop \in {"open", "closed"}
    /\ crStop' = IF crStop = "open" THEN "closed" ELSE "panic"
    /\ UNCHANGED <<crDisk, crBuilt, crLoader, crServing, crPeer>>

-----------------------------------------------------------------------------
(* The server and its clients.                                              *)

\* TransportCredentials: the configuration is cloned into the credentials.
TransportCredentials ==
    /\ crBuilt # NoTLS /\ crServing = NoTLS
    /\ crServing' = crBuilt
    /\ UNCHANGED <<crDisk, crBuilt, crLoader, crStop, crPeer>>

\* verifyPeerCertificate: every list that is not empty has to be met.
verifyPeerCertificate(p) ==
    /\ AllowedCNs # {} => p.cn \in AllowedCNs
    /\ AllowedOUs # {} => \E ou \in p.ous : ou \in AllowedOUs
    /\ AllowedDNSSANs # {} =>
          \E i \in 1..Len(p.sans), pattern \in AllowedDNSSANs : MatchDNSSAN(p.sans[i], pattern)

\* NewClientCredentials: without a CA file only if the server is not verified.
ClientCreds(p) == p.insecure \/ p.roots # {}

Handshake(p) ==
    /\ crServing # NoTLS /\ ClientCreds(p)
    /\ p.insecure \/ IssuerOf[crServing.pair] \in p.roots
    /\ RequireClientCert => IssuerOf[p.cert] \in crServing.cas /\ verifyPeerCertificate(p)
    /\ crPeer' = [crPeer EXCEPT ![p] = IF RequireClientCert THEN ParseCertIdentity(p) ELSE <<"", "">>]
    /\ UNCHANGED <<crDisk, crBuilt, crLoader, crServing, crStop>>

-----------------------------------------------------------------------------
(* The operator: files are replaced one at a time, or found half written.   *)

Install(file) ==
    /\ crDisk[file] < MaxGen
    /\ crDisk' = [crDisk EXCEPT ![file] = crDisk[file] + 1]
    /\ UNCHANGED <<crBuilt, crLoader, crServing, crStop, crPeer>>

InstallCAs ==
    /\ crDisk.cas # CAs
    /\ \E cas \in {{}, CAs} : crDisk' = [crDisk EXCEPT !.cas = cas]
    /\ UNCHANGED <<crBuilt, crLoader, crServing, crStop, crPeer>>

CertInit ==
    /\ crDisk = [cert |-> 1, key |-> Broken, cas |-> {IssuerOf[1]}]
    /\ crBuilt = NoTLS /\ crServing = NoTLS /\ crStop = "open"
    /\ crLoader = [l \in Loaders \cup {New} |-> Idle]
    /\ crPeer = [p \in Peers |-> <<>>]

Loading(l) == ReadCert(l) \/ ReadKey(l) \/ loadCACertPool(l)

CertNext ==
    \/ \E l \in Loaders \cup {New} : Loading(l) \/ Leaves(l)
    \/ \E p \in Peers : Handshake(p)
    \/ \E f \in {"cert", "key"} : Install(f)
    \/ InstallCAs \/ TransportCredentials \/ StopReload

\* The goroutines run on: the ticker ticks, and files can be read.
CertFair == \A l \in Loaders \cup {New} : WF_crVars(Loading(l))

CertSpec == CertInit /\ [][CertNext]_crVars /\ CertFair

-----------------------------------------------------------------------------
(* Properties.                                                              *)

\* Every variable has its type: the pair of a configuration is one generation,
\* so that buildTLSConfig never publishes half of a rotation.
CertTypeOK ==
    /\ crDisk \in [cert : 0..MaxGen, key : 0..MaxGen, cas : SUBSET CAs]
    /\ \A c \in {crBuilt, crServing} : c = NoTLS \/ (c.pair \in 1..MaxGen /\ c.cas # {})
    /\ \A l \in Loaders \cup {New} :
          /\ crLoader[l].pc \in {"idle", "key", "ca", "gone"}
          /\ crLoader[l].pc = "ca" => crLoader[l].pair = crLoader[l].cert
    /\ crStop \in {"open", "closed", "panic"}

\* A client is admitted only if each list that verifyPeerCertificate has is met
\* by its certificate, and by a name below the wildcard, never the parent itself.
AdmittedIsAllowed ==
    \A p \in Peers : crPeer[p] # <<>> /\ RequireClientCert =>
        /\ AllowedCNs # {} => p.cn \in AllowedCNs
        /\ AllowedOUs # {} => p.ous \cap AllowedOUs # {}
        /\ AllowedDNSSANs # {} =>
              \E i \in 1..Len(p.sans), w \in AllowedDNSSANs :
                 p.sans[i] = w \/ (IsWild(w) /\ \E k \in 1..(Len(p.sans[i]) - 1) :
                                      SubSeq(p.sans[i], k + 1, Len(p.sans[i])) = Tail(w))

\* What the files hold, once certificate and key belong together.
OnDisk == [pair |-> crDisk.cert, cas |-> crDisk.cas]
Reloading == crBuilt # NoTLS /\ crStop = "open" /\ crDisk.cert = crDisk.key /\ crDisk.cas # {}

\* While auto reload runs, the builder ends with what the files hold, whatever
\* it read while they were being replaced and whichever goroutine came last.
BuilderCatchesUp ==
    EnableAutoReload => ((<>[]Reloading) => <>[](crBuilt = OnDisk))

\* "Certificates are reloaded automatically": so does the server that has taken
\* its transport credentials from the builder.
ServerCatchesUp ==
    EnableAutoReload => ((<>[](Reloading /\ crServing # NoTLS)) => <>[](crServing = OnDisk))

\* What holds of certificates at every time: no published half of a rotation, no
\* peer admitted against a list.
CertInv == CertTypeOK /\ AdmittedIsAllowed
=============================================================================
