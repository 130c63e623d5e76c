------------------------------- MODULE CaCache -------------------------------
(***************************************************************************)
(* The cache of CA certificates and revocation lists (caCache): verify reads *)
(* the certificates of the intermediate CA and of the root, checks the chain *)
(* and looks a certificate and its issuer up in their revocation lists.      *)
(* A lookup reads under the read lock; what is missing or old is fetched     *)
(* under the write lock, after another look.  The servers are external.      *)
(***************************************************************************)
EXTENDS Naturals, Sequences

CONSTANTS
  Threads,
  Leaves,          \* certificates: [issuers, chains, lists]
  InterLists,      \* the lists of the intermediate CA's certificate
  Prefixed,        \* the URLs that start with interPrefix
  CrlCacheDuration, CaMaxTime

ASSUME CaAssumption ==
  /\ CrlCacheDuration \in Nat \ {0} /\ CaMaxTime \in Nat
  /\ \A l \in Leaves : l.issuers \in Seq(STRING) /\ l.chains \in BOOLEAN /\ l.lists \in Seq(STRING)
  /\ InterLists \in Seq(STRING)
  /\ "none" \notin Threads

RootCertURL == "root"
Never == CaMaxTime + 1

VARIABLES
  caNow,
  revokedAt,       \* when a list came to name the certificate it is read for
  caCerts,         \* the URLs of certs
  caCrls,          \* [known, revoked, fetchedAt] for each list
  caHolder,        \* who holds the write lock
  caThread,
  caPast           \* whether a cached certificate was fetched, or time passed during a fetch

caVars == <<caNow, revokedAt, caCerts, caCrls, caHolder, caThread, caPast>>

NoThread == "none"
CaIdle == [pc |-> "idle", todo |-> <<>>, leaf |-> 0, start |-> 0, got |-> FALSE]
ListURLs == (UNION {{l.lists[i] : i \in DOMAIN l.lists} : l \in Leaves}) \cup {InterLists[i] : i \in DOMAIN InterLists}

CaInit ==
  /\ caNow = 0
  /\ revokedAt = [u \in ListURLs |-> Never]
  /\ caCerts = {}
  /\ caCrls = [u \in ListURLs |-> [known |-> FALSE, revoked |-> FALSE, fetchedAt |-> 0]]
  /\ caHolder = NoThread
  /\ caThread = [t \in Threads |-> CaIdle]
  /\ caPast = [twice |-> FALSE, slow |-> FALSE]

CaTick ==
  /\ caNow < CaMaxTime
  /\ caNow' = caNow + 1
  /\ caPast' = [caPast EXCEPT !.slow = @ \/ \E t \in Threads : caThread[t].pc = "store"]
  /\ UNCHANGED <<revokedAt, caCerts, caCrls, caHolder, caThread>>

Revoke(u) ==
  /\ revokedAt[u] = Never
  /\ revokedAt' = [revokedAt EXCEPT ![u] = caNow]
  /\ UNCHANGED <<caNow, caCerts, caCrls, caHolder, caThread, caPast>>

-----------------------------------------------------------------------------
CertLookup(u) == [kind |-> "cert", url |-> u]
CrlLookup(u) == [kind |-> "crl", url |-> u]
Chain == [kind |-> "chain", url |-> ""]
CrlLookups(lists) == [i \in DOMAIN lists |-> CrlLookup(lists[i])]

\* The first issuer that starts with the prefix, if any.
InterCertURL(leaf) ==
  LET those == SelectSeq(leaf.issuers, LAMBDA u : u \in Prefixed) IN SubSeq(those, 1, IF those = <<>> THEN 0 ELSE 1)

\* The steps of verify.  No issuer of ours, or a certificate without lists, is an error.
VerifySteps(leaf) ==
  LET inter == InterCertURL(leaf) IN
  IF inter = <<>> THEN <<>>
  ELSE <<CertLookup(inter[1]), CertLookup(RootCertURL), Chain>> \o CrlLookups(leaf.lists)
         \o (IF leaf.lists = <<>> THEN <<>> ELSE CrlLookups(InterLists))

VerifyCert(t, leaf) ==
  /\ caThread[t].pc = "idle"
  /\ caThread' = [caThread EXCEPT ![t] =
       [CaIdle EXCEPT !.pc = IF VerifySteps(leaf) = <<>> THEN "error" ELSE "read",
                      !.todo = VerifySteps(leaf), !.leaf = leaf, !.start = caNow]]
  /\ UNCHANGED <<caNow, revokedAt, caCerts, caCrls, caHolder, caPast>>

This(t) == Head(caThread[t].todo)

\* What checkCRLs makes of a list, and verify of a certificate: go on, or end.
\* Leaves without lists pass the chain and then fail.
Ends(t, pc) == [caThread EXCEPT ![t] = [@ EXCEPT !.pc = pc, !.todo = <<>>]]
After(t, revoked) ==
  LET rest == Tail(caThread[t].todo) IN
  IF revoked \/ (rest = <<>> /\ (caThread[t].leaf.lists = <<>> \/ InterLists = <<>>)) THEN Ends(t, "error")
  ELSE IF rest = <<>> THEN Ends(t, "ok")
  ELSE [caThread EXCEPT ![t] = [@ EXCEPT !.pc = "read", !.todo = rest]]

\* Mutant: the age of a list is not looked at.
CachedEver(step) == IF step.kind = "cert" THEN step.url \in caCerts ELSE caCrls[step.url].known

Cached(step) ==
  IF step.kind = "cert" THEN step.url \in caCerts
  ELSE caCrls[step.url].known /\ caNow - caCrls[step.url].fetchedAt < CrlCacheDuration

CheckChain(t) ==
  /\ caThread[t].pc = "read" /\ This(t).kind = "chain"
  /\ caThread' = IF caThread[t].leaf.chains THEN After(t, FALSE) ELSE Ends(t, "error")
  /\ UNCHANGED <<caNow, revokedAt, caCerts, caCrls, caHolder, caPast>>

\* getCert and getCRL under the read lock, and again under the write lock.
Read(t) ==
  /\ caThread[t].pc = "read" /\ This(t).kind # "chain" /\ caHolder = NoThread
  /\ caThread' = IF Cached(This(t)) THEN After(t, This(t).kind = "crl" /\ caCrls[This(t).url].revoked)
                 ELSE [caThread EXCEPT ![t].pc = "lock"]
  /\ UNCHANGED <<caNow, revokedAt, caCerts, caCrls, caHolder, caPast>>

Lock(t) ==
  /\ caThread[t].pc = "lock" /\ caHolder = NoThread
  /\ IF Cached(This(t))
     THEN /\ caThread' = After(t, This(t).kind = "crl" /\ caCrls[This(t).url].revoked)
          /\ UNCHANGED caHolder
     ELSE /\ caThread' = [caThread EXCEPT ![t].pc = "fetch"]
          /\ caHolder' = t
  /\ UNCHANGED <<caNow, revokedAt, caCerts, caCrls, caPast>>

\* fetchCert and fetchCRL, and the check of the signature of a list; an error lets go
\* of the lock.
Fetch(t) ==
  /\ caThread[t].pc = "fetch"
  /\ \/ /\ caThread' = [caThread EXCEPT ![t] = [@ EXCEPT !.pc = "store",
                          !.got = This(t).kind = "crl" /\ revokedAt[This(t).url] <= caNow]]
        /\ UNCHANGED caHolder
     \/ /\ caThread' = Ends(t, "error")
        /\ caHolder' = NoThread
  /\ UNCHANGED <<caNow, revokedAt, caCerts, caCrls, caPast>>

Store(t) ==
  /\ caThread[t].pc = "store"
  /\ IF This(t).kind = "cert"
     THEN /\ caCerts' = caCerts \cup {This(t).url}
          /\ caPast' = [caPast EXCEPT !.twice = @ \/ This(t).url \in caCerts]
          /\ UNCHANGED caCrls
     ELSE /\ caCrls' = [caCrls EXCEPT ![This(t).url] = [known |-> TRUE, revoked |-> caThread[t].got, fetchedAt |-> caNow]]
          /\ UNCHANGED <<caCerts, caPast>>
  /\ caThread' = After(t, This(t).kind = "crl" /\ caThread[t].got)
  /\ caHolder' = NoThread
  /\ UNCHANGED <<caNow, revokedAt>>

CaNext ==
  \/ CaTick \/ \E u \in ListURLs : Revoke(u)
  \/ \E t \in Threads : CheckChain(t) \/ Read(t) \/ Lock(t) \/ Fetch(t) \/ Store(t) \/ \E l \in Leaves : VerifyCert(t, l)

CaSpec == CaInit /\ [][CaNext]_caVars

-----------------------------------------------------------------------------
(* Properties.                                                              *)

\* No certificate is fetched twice, however many threads miss it at once.
FetchedOnce == ~caPast.twice

\* A certificate that verify accepts was in none of its lists, and its issuer in none
\* of its own, CrlCacheDuration before verify was called, unless time passed while a
\* list was fetched: its age counts from the end of the fetch.
RevocationIsSeen ==
  \A t \in Threads : caThread[t].pc = "ok" =>
    \/ caPast.slow
    \/ \A u \in {caThread[t].leaf.lists[i] : i \in DOMAIN caThread[t].leaf.lists} \cup {InterLists[i] : i \in DOMAIN InterLists} :
         revokedAt[u] + CrlCacheDuration > caThread[t].start

\* The write lock is held by a thread that fetches, and by nobody else: no error
\* keeps it.
LockIsReleased ==
  \A t \in Threads : caHolder = t <=> caThread[t].pc \in {"fetch", "store"}

\* The cache gives every thread certificates and lists that are young enough, with
\* one fetch for a certificate, and never keeps its lock.
CaCacheIsSafe == FetchedOnce /\ RevocationIsSeen /\ LockIsReleased
=============================================================================
