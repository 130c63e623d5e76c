--------------------------- MODULE CaCacheProofs ---------------------------
(***************************************************************************)
(* The CA cache for any number of threads, certificates and lists: the     *)
(* double-checked locking of getCert and getCRL, and the age of what a     *)
(* verification has seen.                                                  *)
(***************************************************************************)
EXTENDS CaCache, TLAPS, SequenceTheorems

\* The URLs that lookups are about.
URLs == ListURLs \cup {RootCertURL, ""} \cup {InterCertURL(l)[1] : l \in Leaves}
Steps == [kind : {"cert", "crl", "chain"}, url : URLs]
Locking == {"fetch", "store"}
Working == {"read", "lock"} \cup Locking
ListsOf(leaf) == {leaf.lists[i] : i \in DOMAIN leaf.lists} \cup {InterLists[i] : i \in DOMAIN InterLists}
ThreadStates ==
  [pc : {"idle", "ok", "error"} \cup Working, todo : Seq(Steps), leaf : Leaves \cup {0}, start : Nat, got : BOOLEAN]

\* A verification looks in lists that there are, and was not started in the future.
WorkOK(th) ==
  /\ th.pc \in Working \cup {"ok"} => th.leaf \in Leaves /\ th.start <= caNow
  /\ th.pc \in Working => /\ th.todo # <<>>
                          /\ \A i \in DOMAIN th.todo : th.todo[i].kind = "crl" => th.todo[i].url \in ListURLs
  /\ th.pc = "ok" => th.todo = <<>> /\ th.leaf.lists # <<>>

\* Every list is still to be looked in, or named nobody when a copy young enough was made.
SeenOK(th) ==
  th.pc \in Working \cup {"ok"} /\ th.leaf.lists # <<>> /\ ~caPast.slow =>
    \A u \in ListsOf(th.leaf) : \/ \E i \in DOMAIN th.todo : th.todo[i] = CrlLookup(u)
                                \/ revokedAt[u] + CrlCacheDuration > th.start

\* The lock is for certificates and lists; what is fetched under it is not there; what
\* was fetched is current.
FetchOK(th) ==
  /\ th.pc \in {"lock"} \cup Locking => Head(th.todo).kind # "chain"
  /\ th.pc \in Locking /\ Head(th.todo).kind = "cert" => Head(th.todo).url \notin caCerts
  /\ th.pc = "store" /\ Head(th.todo).kind = "crl" /\ ~th.got /\ ~caPast.slow => revokedAt[Head(th.todo).url] >= caNow

CrlsOK ==
  ~caPast.slow => \A u \in ListURLs : caCrls[u].known =>
    /\ caCrls[u].fetchedAt <= caNow
    /\ ~caCrls[u].revoked => revokedAt[u] >= caCrls[u].fetchedAt

CaTypeOK ==
  /\ caNow \in 0 .. CaMaxTime
  /\ revokedAt \in [ListURLs -> 0 .. Never]
  /\ caCrls \in [ListURLs -> [known : BOOLEAN, revoked : BOOLEAN, fetchedAt : 0 .. CaMaxTime]]
  /\ caHolder \in Threads \cup {NoThread}
  /\ caThread \in [Threads -> ThreadStates]
  /\ caPast \in [twice : BOOLEAN, slow : BOOLEAN]

\* The inductive invariant.
CaInv ==
  /\ CaTypeOK /\ LockIsReleased /\ FetchedOnce /\ CrlsOK
  /\ \A t \in Threads : WorkOK(caThread[t]) /\ SeenOK(caThread[t]) /\ FetchOK(caThread[t])

\* The lists of a certificate, as lookups.
LEMMA Lookups ==
  ASSUME NEW lists \in Seq(STRING), {lists[i] : i \in DOMAIN lists} \subseteq ListURLs
  PROVE  /\ CrlLookups(lists) \in Seq(Steps)
         /\ Len(CrlLookups(lists)) = Len(lists)
         /\ \A i \in DOMAIN lists : CrlLookups(lists)[i] = CrlLookup(lists[i])
         /\ \A i \in DOMAIN CrlLookups(lists) : CrlLookups(lists)[i].url \in ListURLs
<1>1. DOMAIN lists = 1 .. Len(lists) /\ Len(lists) \in Nat
  BY LenProperties
<1>2. \A i \in 1 .. Len(lists) : CrlLookup(lists[i]) \in Steps /\ CrlLookup(lists[i]).url \in ListURLs
  BY <1>1 DEF CrlLookup, Steps, URLs
<1>3. CrlLookups(lists) = [i \in 1 .. Len(lists) |-> CrlLookup(lists[i])]
  BY <1>1 DEF CrlLookups
<1>4. CrlLookups(lists) \in [1 .. Len(lists) -> Steps]
  BY <1>2, <1>3
<1>5. CrlLookups(lists) \in Seq(Steps)
  BY <1>1, <1>4, IsASeq
<1>6. Len(CrlLookups(lists)) = Len(lists)
  BY <1>1, <1>3, <1>5, LenProperties
<1> QED
  BY <1>1, <1>2, <1>3, <1>5, <1>6

\* Where the elements of three lists are in their concatenation.
LEMMA ThreeParts ==
  ASSUME NEW S, NEW a \in Seq(S), NEW b \in Seq(S), NEW c \in Seq(S), NEW all, all = a \o b \o c
  PROVE  /\ all \in Seq(S) /\ Len(all) = Len(a) + Len(b) + Len(c)
         /\ \A i \in 1 .. Len(a) : all[i] = a[i]
         /\ \A i \in 1 .. Len(b) : all[i + Len(a)] = b[i]
         /\ \A i \in 1 .. Len(c) : all[i + Len(a) + Len(b)] = c[i]
<1> DEFINE ab == a \o b
<1>1. /\ ab \in Seq(S) /\ Len(ab) = Len(a) + Len(b)
      /\ \A i \in 1 .. Len(a) + Len(b) : ab[i] = IF i <= Len(a) THEN a[i] ELSE b[i - Len(a)]
  BY ConcatProperties
<1>2. all = ab \o c
  OBVIOUS
<1> HIDE DEF ab
<1>3. /\ all \in Seq(S) /\ Len(all) = Len(ab) + Len(c)
      /\ \A i \in 1 .. Len(ab) + Len(c) : all[i] = IF i <= Len(ab) THEN ab[i] ELSE c[i - Len(ab)]
  <2>1. /\ ab \o c \in Seq(S) /\ Len(ab \o c) = Len(ab) + Len(c)
        /\ \A i \in 1 .. Len(ab) + Len(c) : (ab \o c)[i] = IF i <= Len(ab) THEN ab[i] ELSE c[i - Len(ab)]
    BY <1>1, ConcatProperties
  <2> QED
    BY <1>2, <2>1, Zenon
<1>4. Len(a) \in Nat /\ Len(b) \in Nat /\ Len(c) \in Nat
  BY LenProperties
<1>5. \A i \in 1 .. Len(a) : all[i] = a[i]
  BY <1>1, <1>3, <1>4
<1>6. ASSUME NEW i \in 1 .. Len(b) PROVE all[i + Len(a)] = b[i]
  <2>1. i + Len(a) \in 1 .. Len(ab) /\ ~(i + Len(a) <= Len(a)) /\ i + Len(a) - Len(a) = i
    BY <1>1, <1>4
  <2> QED
    BY <1>1, <1>3, <1>4, <2>1
<1>7. ASSUME NEW i \in 1 .. Len(c) PROVE all[i + Len(a) + Len(b)] = c[i]
  <2>1. /\ i + Len(a) + Len(b) \in 1 .. Len(ab) + Len(c) /\ ~(i + Len(a) + Len(b) <= Len(ab))
        /\ i + Len(a) + Len(b) - Len(ab) = i
    BY <1>1, <1>4
  <2> QED
    BY <1>3, <2>1
<1> QED
  BY <1>1, <1>3, <1>4, <1>5, <1>6, <1>7

\* VerifySteps looks the certificate and its issuer up in every list they have.
LEMMA StepsOfVerify ==
  ASSUME NEW leaf \in Leaves
  PROVE  /\ VerifySteps(leaf) \in Seq(Steps)
         /\ \A i \in DOMAIN VerifySteps(leaf) :
              VerifySteps(leaf)[i].kind = "crl" => VerifySteps(leaf)[i].url \in ListURLs
         /\ VerifySteps(leaf) # <<>> /\ leaf.lists # <<>> =>
              \A u \in ListsOf(leaf) : \E i \in DOMAIN VerifySteps(leaf) : VerifySteps(leaf)[i] = CrlLookup(u)
<1> DEFINE first == <<CertLookup(InterCertURL(leaf)[1]), CertLookup(RootCertURL), Chain>>
           own == CrlLookups(leaf.lists)
           inter == IF leaf.lists = <<>> THEN <<>> ELSE CrlLookups(InterLists)
<1>1. ListsOf(leaf) \subseteq ListURLs
  BY DEF ListsOf, ListURLs
<1>2. /\ own \in Seq(Steps) /\ Len(own) = Len(leaf.lists)
      /\ \A i \in DOMAIN leaf.lists : own[i] = CrlLookup(leaf.lists[i])
      /\ \A i \in DOMAIN own : own[i].url \in ListURLs
  BY <1>1, Lookups, CaAssumption DEF ListsOf
<1>3. /\ CrlLookups(InterLists) \in Seq(Steps) /\ Len(CrlLookups(InterLists)) = Len(InterLists)
      /\ \A i \in DOMAIN InterLists : CrlLookups(InterLists)[i] = CrlLookup(InterLists[i])
      /\ \A i \in DOMAIN CrlLookups(InterLists) : CrlLookups(InterLists)[i].url \in ListURLs
  BY <1>1, Lookups, CaAssumption DEF ListsOf
<1>4. inter \in Seq(Steps) /\ \A i \in DOMAIN inter : inter[i].url \in ListURLs
  BY <1>3
<1>5. first \in Seq(Steps) /\ Len(first) = 3 /\ \A i \in 1 .. 3 : first[i].kind # "crl"
  <2>1. CertLookup(InterCertURL(leaf)[1]) \in Steps /\ CertLookup(InterCertURL(leaf)[1]).kind = "cert"
    BY DEF Steps, URLs, CertLookup
  <2>2. CertLookup(RootCertURL) \in Steps /\ CertLookup(RootCertURL).kind = "cert"
    BY DEF Steps, URLs, CertLookup
  <2>3. Chain \in Steps /\ Chain.kind = "chain"
    BY DEF Steps, URLs, Chain
  <2> QED
    BY <2>1, <2>2, <2>3
<1>6. CASE InterCertURL(leaf) = <<>>
  <2>1. VerifySteps(leaf) = <<>>
    BY <1>6 DEF VerifySteps
  <2> QED
    BY <2>1
<1>7. CASE InterCertURL(leaf) # <<>>
  <2>1. VerifySteps(leaf) = first \o own \o inter
    BY <1>7 DEF VerifySteps
  <2> HIDE DEF first, own, inter
  <2>2. /\ VerifySteps(leaf) \in Seq(Steps)
        /\ Len(VerifySteps(leaf)) = 3 + Len(own) + Len(inter)
        /\ \A i \in 1 .. 3 : VerifySteps(leaf)[i] = first[i]
        /\ \A i \in 1 .. Len(own) : VerifySteps(leaf)[i + 3] = own[i]
        /\ \A i \in 1 .. Len(inter) : VerifySteps(leaf)[i + 3 + Len(own)] = inter[i]
    <3>1. /\ VerifySteps(leaf) \in Seq(Steps)
          /\ Len(VerifySteps(leaf)) = Len(first) + Len(own) + Len(inter)
          /\ \A i \in 1 .. Len(first) : VerifySteps(leaf)[i] = first[i]
          /\ \A i \in 1 .. Len(own) : VerifySteps(leaf)[i + Len(first)] = own[i]
          /\ \A i \in 1 .. Len(inter) : VerifySteps(leaf)[i + Len(first) + Len(own)] = inter[i]
      <4>1. first \in Seq(Steps) /\ own \in Seq(Steps) /\ inter \in Seq(Steps)
        BY <1>2, <1>4, <1>5
      <4> DEFINE all == VerifySteps(leaf)
      <4>2. all = first \o own \o inter
        BY <2>1
      <4> HIDE DEF all
      <4>3. /\ all \in Seq(Steps) /\ Len(all) = Len(first) + Len(own) + Len(inter)
            /\ \A i \in 1 .. Len(first) : all[i] = first[i]
            /\ \A i \in 1 .. Len(own) : all[i + Len(first)] = own[i]
            /\ \A i \in 1 .. Len(inter) : all[i + Len(first) + Len(own)] = inter[i]
        BY <4>1, <4>2, ThreeParts
      <4> QED
        BY <4>3 DEF all
    <3> QED
      BY <1>5, <3>1, Zenon
  <2>3. /\ Len(own) \in Nat /\ DOMAIN own = 1 .. Len(own)
        /\ Len(inter) \in Nat /\ DOMAIN inter = 1 .. Len(inter)
        /\ DOMAIN VerifySteps(leaf) = 1 .. 3 + Len(own) + Len(inter)
    BY <1>2, <1>4, <2>2, LenProperties
  <2>4. \A i \in DOMAIN own : i + 3 \in DOMAIN VerifySteps(leaf) /\ VerifySteps(leaf)[i + 3] = own[i]
    BY <2>2, <2>3
  <2>5. \A i \in DOMAIN inter : /\ i + 3 + Len(own) \in DOMAIN VerifySteps(leaf)
                                /\ VerifySteps(leaf)[i + 3 + Len(own)] = inter[i]
    BY <2>2, <2>3
  <2>6. ASSUME leaf.lists # <<>>, NEW u \in ListsOf(leaf)
        PROVE  \E i \in DOMAIN VerifySteps(leaf) : VerifySteps(leaf)[i] = CrlLookup(u)
    <3>1. CASE \E i \in DOMAIN leaf.lists : u = leaf.lists[i]
      <4>1. DOMAIN own = DOMAIN leaf.lists
        BY <1>2, CaAssumption
      <4> QED
        BY <1>2, <2>4, <3>1, <4>1
    <3>2. CASE \E i \in DOMAIN InterLists : u = InterLists[i]
      <4>1. inter = CrlLookups(InterLists) /\ DOMAIN inter = DOMAIN InterLists
        BY <1>3, <2>6, CaAssumption DEF inter
      <4> QED
        BY <1>3, <2>5, <3>2, <4>1
    <3> QED
      BY <2>6, <3>1, <3>2 DEF ListsOf
  <2>7. ASSUME NEW i \in DOMAIN VerifySteps(leaf), VerifySteps(leaf)[i].kind = "crl"
        PROVE  VerifySteps(leaf)[i].url \in ListURLs
    <3>1. i \in 1 .. 3 \/ i - 3 \in 1 .. Len(own) \/ i - 3 - Len(own) \in 1 .. Len(inter)
      BY <2>3
    <3>2. CASE i \in 1 .. 3
      BY <1>5, <2>2, <2>7, <3>2
    <3>3. CASE i - 3 \in 1 .. Len(own)
      <4>1. (i - 3) + 3 = i
        BY <2>3
      <4> QED
        BY <1>2, <2>2, <2>3, <3>3, <4>1
    <3>4. CASE i - 3 - Len(own) \in 1 .. Len(inter)
      <4>1. (i - 3 - Len(own)) + 3 + Len(own) = i
        BY <2>3
      <4> QED
        BY <1>4, <2>2, <2>3, <3>4, <4>1
    <3> QED
      BY <3>1, <3>2, <3>3, <3>4
  <2> QED
    BY <2>2, <2>6, <2>7
<1> QED
  BY <1>6, <1>7

\* When a step of a verification is done: the next one, or the end.
LEMMA StepDone ==
  ASSUME CaInv, NEW t \in Threads, caThread[t].pc \in Working, NEW revoked \in BOOLEAN,
         This(t).kind = "crl" /\ ~revoked /\ ~caPast.slow => revokedAt[This(t).url] + CrlCacheDuration > caThread[t].start
  PROVE  \E new \in ThreadStates :
           /\ After(t, revoked) = [caThread EXCEPT ![t] = new]
           /\ new.pc \in {"read", "ok", "error"} /\ WorkOK(new) /\ SeenOK(new) /\ FetchOK(new)
<1> DEFINE th == caThread[t]
           rest == Tail(th.todo)
           ends == revoked \/ (rest = <<>> /\ (th.leaf.lists = <<>> \/ InterLists = <<>>))
           new == IF ends THEN [th EXCEPT !.pc = "error", !.todo = <<>>]
                  ELSE IF rest = <<>> THEN [th EXCEPT !.pc = "ok", !.todo = <<>>]
                  ELSE [th EXCEPT !.pc = "read", !.todo = rest]
<1>1. th \in ThreadStates /\ WorkOK(th) /\ SeenOK(th)
  BY DEF CaInv, CaTypeOK
<1>2. th.todo \in Seq(Steps) /\ th.todo # <<>> /\ th.leaf \in Leaves
  BY <1>1 DEF WorkOK, ThreadStates
<1>3. /\ rest \in Seq(Steps) /\ Len(rest) = Len(th.todo) - 1 /\ Len(th.todo) \in Nat \ {0}
      /\ \A i \in 1 .. Len(rest) : rest[i] = th.todo[i + 1]
      /\ DOMAIN th.todo = 1 .. Len(th.todo) /\ DOMAIN rest = 1 .. Len(rest)
      /\ This(t) = th.todo[1]
  BY <1>2 DEF This
<1>4. After(t, revoked) = [caThread EXCEPT ![t] = new]
  BY DEF After, Ends
<1>0. <<>> \in Seq(Steps)
  OBVIOUS
<1>5. /\ new \in ThreadStates
      /\ new.leaf = th.leaf /\ new.start = th.start
      /\ \/ ends /\ new.pc = "error"
         \/ ~ends /\ rest = <<>> /\ new.pc = "ok" /\ new.todo = <<>>
         \/ ~ends /\ rest # <<>> /\ new.pc = "read" /\ new.todo = rest
  <2>1. CASE ends
    <3>1. new = [th EXCEPT !.pc = "error", !.todo = <<>>]
      BY <2>1
    <3> HIDE DEF ends, new
    <3> QED
      BY <1>0, <1>1, <2>1, <3>1 DEF ThreadStates
  <2>2. CASE ~ends /\ rest = <<>>
    <3>1. new = [th EXCEPT !.pc = "ok", !.todo = <<>>]
      BY <2>2
    <3> HIDE DEF ends, new
    <3> QED
      BY <1>0, <1>1, <2>2, <3>1 DEF ThreadStates
  <2>3. CASE ~ends /\ rest # <<>>
    <3>1. new = [th EXCEPT !.pc = "read", !.todo = rest]
      BY <2>3
    <3> HIDE DEF ends, new
    <3> QED
      BY <1>1, <1>3, <2>3, <3>1 DEF ThreadStates, Working
  <2> QED
    BY <2>1, <2>2, <2>3
<1> HIDE DEF new
<1>6. WorkOK(new)
  <2>1. CASE ends
    BY <1>5, <2>1 DEF WorkOK, Working, Locking
  <2>2. CASE ~ends /\ rest = <<>>
    <3>1. new.pc = "ok" /\ new.todo = <<>> /\ th.leaf.lists # <<>>
      BY <1>5, <2>2
    <3> QED
      BY <1>1, <1>5, <3>1 DEF WorkOK, Working, Locking
  <2>3. CASE ~ends /\ rest # <<>>
    <3>1. new.pc = "read" /\ new.todo = rest /\ new.leaf = th.leaf /\ new.start = th.start
      BY <1>5, <2>3
    <3>2. th.leaf \in Leaves /\ th.start <= caNow
      BY <1>1 DEF WorkOK
    <3>3. \A i \in DOMAIN rest : rest[i].kind = "crl" => rest[i].url \in ListURLs
      <4>1. \A i \in DOMAIN th.todo : th.todo[i].kind = "crl" => th.todo[i].url \in ListURLs
        BY <1>1 DEF WorkOK
      <4>2. \A i \in DOMAIN rest : i + 1 \in DOMAIN th.todo /\ rest[i] = th.todo[i + 1]
        BY <1>3
      <4> QED
        BY <4>1, <4>2
    <3> HIDE DEF rest, th
    <3> QED
      BY <2>3, <3>1, <3>2, <3>3 DEF WorkOK, Working, Locking
  <2> QED
    BY <2>1, <2>2, <2>3
<1>7. SeenOK(new)
  <2> SUFFICES ASSUME new.pc \in {"read", "ok"}, th.leaf.lists # <<>>, ~caPast.slow, NEW u \in ListsOf(th.leaf)
               PROVE  \/ \E i \in DOMAIN new.todo : new.todo[i] = CrlLookup(u)
                      \/ revokedAt[u] + CrlCacheDuration > th.start
    BY <1>5 DEF SeenOK, Working, Locking
  <2>1. ~revoked /\ new.todo = rest
    BY <1>5
  <2>2. CASE revokedAt[u] + CrlCacheDuration > th.start
    BY <2>2
  <2>3. CASE \E i \in DOMAIN th.todo : th.todo[i] = CrlLookup(u)
    <3>1. PICK i \in DOMAIN th.todo : th.todo[i] = CrlLookup(u)
      BY <2>3
    <3>2. CASE i = 1
      BY <1>3, <2>1, <3>1, <3>2 DEF CrlLookup
    <3>3. CASE i # 1
      <4>1. i - 1 \in DOMAIN rest /\ rest[i - 1] = th.todo[i]
        BY <1>3, <3>3
      <4> QED
        BY <2>1, <3>1, <4>1
    <3> QED
      BY <3>2, <3>3
  <2> QED
    BY <1>1, <2>2, <2>3 DEF SeenOK
<1>8. new.pc \in {"read", "ok", "error"}
  BY <1>5
<1>9. FetchOK(new)
  BY <1>8 DEF FetchOK, Locking
<1> QED
  BY <1>4, <1>5, <1>6, <1>7, <1>8, <1>9

\* A verification that ends in an error has nothing left to keep.
LEMMA EndsInError ==
  ASSUME CaInv, NEW t \in Threads
  PROVE  \E new \in ThreadStates :
           /\ Ends(t, "error") = [caThread EXCEPT ![t] = new]
           /\ new.pc = "error" /\ WorkOK(new) /\ SeenOK(new) /\ FetchOK(new)
<1> DEFINE th == caThread[t]
           new == [th EXCEPT !.pc = "error", !.todo = <<>>]
<1>1. th \in ThreadStates /\ <<>> \in Seq(Steps)
  BY DEF CaInv, CaTypeOK
<1>2. Ends(t, "error") = [caThread EXCEPT ![t] = new]
  BY DEF Ends
<1> HIDE DEF th
<1>3. new \in ThreadStates /\ new.pc = "error"
  BY <1>1 DEF ThreadStates
<1> HIDE DEF new
<1>4. WorkOK(new) /\ SeenOK(new) /\ FetchOK(new)
  BY <1>3 DEF WorkOK, SeenOK, FetchOK, Working, Locking
<1> QED
  BY <1>2, <1>3, <1>4

\* The step of one thread that leaves what is cached alone.
LEMMA ThreadMoves ==
  ASSUME CaInv, NEW t \in Threads, NEW new \in ThreadStates, WorkOK(new), SeenOK(new), FetchOK(new),
         caThread' = [caThread EXCEPT ![t] = new],
         UNCHANGED <<caNow, revokedAt, caCerts, caCrls, caPast>>,
         \/ caHolder' = caHolder /\ (new.pc \in Locking <=> caThread[t].pc \in Locking)
         \/ caHolder = NoThread /\ caHolder' = t /\ new.pc \in Locking
         \/ caThread[t].pc \in Locking /\ caHolder' = NoThread /\ new.pc \notin Locking
  PROVE  CaInv'
<1>1. CaTypeOK' /\ caThread'[t] = new /\ \A s \in Threads \ {t} : caThread'[s] = caThread[s]
  BY DEF CaInv, CaTypeOK
<1>2. LockIsReleased'
  <2>1. \A s \in Threads : caHolder = s <=> caThread[s].pc \in Locking
    BY DEF CaInv, LockIsReleased, Locking
  <2>2. \A s \in Threads : s # NoThread
    BY CaAssumption DEF NoThread
  <2>3. \A s \in Threads : caHolder' = s <=> caThread'[s].pc \in Locking
    BY <1>1, <2>1, <2>2
  <2> QED
    BY <2>3 DEF LockIsReleased, Locking
<1>3. FetchedOnce' /\ CrlsOK'
  BY DEF CaInv, FetchedOnce, CrlsOK
<1>4. ASSUME NEW s \in Threads PROVE (WorkOK(caThread[s]) /\ SeenOK(caThread[s]) /\ FetchOK(caThread[s]))'
  <2>1. PICK th \in ThreadStates : th = caThread'[s] /\ WorkOK(th) /\ SeenOK(th) /\ FetchOK(th)
    BY <1>1 DEF CaInv, CaTypeOK
  <2>2. WorkOK(th)' /\ SeenOK(th)' /\ FetchOK(th)'
    BY <2>1 DEF WorkOK, SeenOK, FetchOK
  <2> QED
    BY <2>1, <2>2 DEF WorkOK, SeenOK, FetchOK
<1> QED
  BY <1>1, <1>2, <1>3, <1>4 DEF CaInv

\* What a thread finds in the cache is young enough.
LEMMA CachedIsYoung ==
  ASSUME CaInv, NEW t \in Threads, caThread[t].pc \in Working, This(t).kind # "chain", Cached(This(t))
  PROVE  This(t).kind = "crl" /\ ~caCrls[This(t).url].revoked /\ ~caPast.slow =>
           revokedAt[This(t).url] + CrlCacheDuration > caThread[t].start
<1> SUFFICES ASSUME This(t).kind = "crl", ~caCrls[This(t).url].revoked, ~caPast.slow
             PROVE  revokedAt[This(t).url] + CrlCacheDuration > caThread[t].start
  OBVIOUS
<1> DEFINE u == This(t).url
<1>1. u \in ListURLs
  <2>1. caThread[t].todo \in Seq(Steps) /\ WorkOK(caThread[t])
    BY DEF CaInv, CaTypeOK, ThreadStates
  <2>2. 1 \in DOMAIN caThread[t].todo /\ This(t) = caThread[t].todo[1]
    BY <2>1 DEF WorkOK, This
  <2> QED
    BY <2>1, <2>2 DEF WorkOK
<1>2. caCrls[u].known /\ caNow - caCrls[u].fetchedAt < CrlCacheDuration
  BY DEF Cached
<1> HIDE DEF u
<1>3. caCrls[u].fetchedAt \in Nat /\ revokedAt[u] \in Nat /\ caNow \in Nat /\ caThread[t].start \in Nat
  BY <1>1, CaAssumption DEF CaInv, CaTypeOK, ThreadStates, Never
<1>4. caCrls[u].fetchedAt <= caNow /\ revokedAt[u] >= caCrls[u].fetchedAt
  BY <1>1, <1>2 DEF CaInv, CrlsOK, u
<1>5. caThread[t].start <= caNow
  BY DEF CaInv, WorkOK
<1>6. revokedAt[u] + CrlCacheDuration > caThread[t].start
  BY <1>2, <1>3, <1>4, <1>5, CaAssumption
<1> QED
  BY <1>6 DEF u

\* The cache starts empty, and every thread idle, with the invariant.
LEMMA InitHolds == CaInit => CaInv
<1> SUFFICES ASSUME CaInit PROVE CaInv
  OBVIOUS
<1>1. CaIdle \in ThreadStates /\ CaIdle.pc = "idle"
  BY DEF CaIdle, ThreadStates, Steps
<1>2. CaTypeOK
  BY <1>1, CaAssumption DEF CaInit, CaTypeOK, Never
<1>3. \A t \in Threads : caThread[t] = CaIdle
  BY DEF CaInit
<1>4. LockIsReleased /\ FetchedOnce /\ CrlsOK
  BY <1>1, <1>3, CaAssumption DEF CaInit, LockIsReleased, FetchedOnce, CrlsOK, NoThread
<1>5. WorkOK(CaIdle) /\ SeenOK(CaIdle) /\ FetchOK(CaIdle)
  BY <1>1 DEF WorkOK, SeenOK, FetchOK, Working, Locking
<1> QED
  BY <1>2, <1>3, <1>4, <1>5 DEF CaInv

\* Time passes: a list gets older, which takes nothing from what threads have seen,
\* and a fetch that it passes during is noted as slow.
LEMMA TickHolds == CaInv /\ CaTick => CaInv'
<1> SUFFICES ASSUME CaInv, CaTick PROVE CaInv'
  OBVIOUS
<1>1. CaTypeOK' /\ caNow \in Nat /\ caNow' = caNow + 1
  <2>1. caNow \in 0 .. CaMaxTime /\ caNow' = caNow + 1 /\ caNow' \in 0 .. CaMaxTime
    BY CaAssumption DEF CaInv, CaTypeOK, CaTick
  <2>2. PICK b \in BOOLEAN : b = (caPast.slow \/ \E t \in Threads : caThread[t].pc = "store")
    OBVIOUS
  <2>3. caPast' = [caPast EXCEPT !.slow = b]
    BY <2>2 DEF CaTick
  <2>4. caPast' \in [twice : BOOLEAN, slow : BOOLEAN]
    BY <2>3 DEF CaInv, CaTypeOK
  <2> QED
    BY <2>1, <2>4 DEF CaInv, CaTypeOK, CaTick
<1>2. caPast'.twice = caPast.twice /\ (caPast'.slow <=> caPast.slow \/ \E t \in Threads : caThread[t].pc = "store")
  BY DEF CaInv, CaTypeOK, CaTick
<1>3. LockIsReleased' /\ FetchedOnce'
  BY <1>2 DEF CaInv, LockIsReleased, FetchedOnce, CaTick
<1>4. CrlsOK'
  BY <1>1, <1>2, CaAssumption DEF CaInv, CaTypeOK, CrlsOK, CaTick
<1>5. ASSUME NEW t \in Threads PROVE (WorkOK(caThread[t]) /\ SeenOK(caThread[t]) /\ FetchOK(caThread[t]))'
  <2>1. caThread[t] \in ThreadStates /\ WorkOK(caThread[t]) /\ SeenOK(caThread[t]) /\ FetchOK(caThread[t])
    BY DEF CaInv, CaTypeOK
  <2>2. caThread'[t] = caThread[t] /\ caThread[t].start \in Nat
    BY <2>1 DEF CaTick, ThreadStates
  <2>3. WorkOK(caThread[t])'
    BY <1>1, <2>1, <2>2 DEF WorkOK
  <2>4. SeenOK(caThread[t])'
    BY <1>2, <2>1, <2>2 DEF SeenOK, CaTick
  <2>5. FetchOK(caThread[t])'
    BY <1>2, <2>1, <2>2 DEF FetchOK, CaTick
  <2> QED
    BY <2>3, <2>4, <2>5
<1> QED
  BY <1>1, <1>3, <1>4, <1>5 DEF CaInv

\* A list comes to name a certificate now: what was seen before stays true of the past.
LEMMA RevokeHolds == ASSUME CaInv, NEW u \in ListURLs, Revoke(u) PROVE CaInv'
<1>1. CaTypeOK' /\ caNow \in Nat
  BY CaAssumption DEF CaInv, CaTypeOK, Revoke, Never
<1>2. LockIsReleased' /\ FetchedOnce'
  BY DEF CaInv, LockIsReleased, FetchedOnce, Revoke
<1>3. /\ \A v \in ListURLs : revokedAt'[v] = revokedAt[v] \/ revokedAt'[v] = caNow
      /\ \A v \in ListURLs : revokedAt[v] \in Nat
  BY CaAssumption DEF CaInv, CaTypeOK, Revoke, Never
<1>4. CrlsOK'
  BY <1>1, <1>3 DEF CaInv, CaTypeOK, CrlsOK, Revoke
<1>5. ASSUME NEW t \in Threads PROVE (WorkOK(caThread[t]) /\ SeenOK(caThread[t]) /\ FetchOK(caThread[t]))'
  <2>1. PICK th \in ThreadStates : th = caThread[t] /\ WorkOK(th) /\ SeenOK(th) /\ FetchOK(th)
    BY DEF CaInv, CaTypeOK
  <2>2. /\ caThread'[t] = th /\ caNow' = caNow /\ caCerts' = caCerts /\ caPast' = caPast
        /\ th.start \in Nat /\ th.todo \in Seq(Steps)
    BY <2>1 DEF Revoke, ThreadStates
  <2>3. WorkOK(th)'
    BY <2>1, <2>2 DEF WorkOK
  <2>4. SeenOK(th)'
    <3> SUFFICES ASSUME th.pc \in Working \cup {"ok"}, th.leaf.lists # <<>>, ~caPast.slow, NEW v \in ListsOf(th.leaf),
                        ~(\E i \in DOMAIN th.todo : th.todo[i] = CrlLookup(v))
                 PROVE  revokedAt'[v] + CrlCacheDuration > th.start
      BY <2>2 DEF SeenOK
    <3>1. v \in ListURLs /\ th.start <= caNow
      BY <2>1 DEF WorkOK, ListsOf, ListURLs
    <3>2. revokedAt[v] + CrlCacheDuration > th.start
      BY <2>1 DEF SeenOK
    <3> QED
      BY <1>1, <1>3, <2>2, <3>1, <3>2, CaAssumption
  <2>5. FetchOK(th)'
    <3> SUFFICES ASSUME th.pc = "store", Head(th.todo).kind = "crl", ~th.got, ~caPast.slow
                 PROVE  revokedAt'[Head(th.todo).url] >= caNow
      BY <2>1, <2>2 DEF FetchOK
    <3>1. Head(th.todo).url \in ListURLs
      BY <2>1, <2>2 DEF WorkOK, Working, Locking
    <3> QED
      BY <1>1, <1>3, <2>1, <3>1 DEF FetchOK
  <2> QED
    BY <2>2, <2>3, <2>4, <2>5 DEF WorkOK, SeenOK, FetchOK
<1> QED
  BY <1>1, <1>2, <1>4, <1>5 DEF CaInv

\* verify starts with the steps of its certificate, none of them done.
LEMMA VerifyHolds == ASSUME CaInv, NEW t \in Threads, NEW leaf \in Leaves, VerifyCert(t, leaf) PROVE CaInv'
<1> DEFINE steps == VerifySteps(leaf)
<1>1. PICK new : new = [CaIdle EXCEPT !.pc = IF steps = <<>> THEN "error" ELSE "read",
                                      !.todo = steps, !.leaf = leaf, !.start = caNow]
  OBVIOUS
<1>2. caNow \in Nat
  BY CaAssumption DEF CaInv, CaTypeOK
<1>3. /\ steps \in Seq(Steps)
      /\ \A i \in DOMAIN steps : steps[i].kind = "crl" => steps[i].url \in ListURLs
      /\ steps # <<>> /\ leaf.lists # <<>> => \A u \in ListsOf(leaf) : \E i \in DOMAIN steps : steps[i] = CrlLookup(u)
  BY StepsOfVerify
<1> HIDE DEF steps
<1>4. /\ new.pc = (IF steps = <<>> THEN "error" ELSE "read")
      /\ new.todo = steps /\ new.leaf = leaf /\ new.start = caNow /\ new \in ThreadStates
  BY <1>1, <1>2, <1>3 DEF CaIdle, ThreadStates, Working
<1>5. WorkOK(new) /\ SeenOK(new) /\ FetchOK(new)
  BY <1>2, <1>3, <1>4 DEF WorkOK, SeenOK, FetchOK, Working, Locking
<1>6. caThread' = [caThread EXCEPT ![t] = new] /\ UNCHANGED <<caNow, revokedAt, caCerts, caCrls, caPast>> /\ caHolder' = caHolder
  BY <1>1 DEF VerifyCert, steps
<1>7. new.pc \notin Locking /\ caThread[t].pc \notin Locking
  BY <1>4 DEF Locking, VerifyCert
<1> QED
  BY <1>4, <1>5, <1>6, <1>7, ThreadMoves

\* The check of the chain looks at no list.
LEMMA ChainHolds == ASSUME CaInv, NEW t \in Threads, CheckChain(t) PROVE CaInv'
<1>1. caThread[t].pc = "read" /\ This(t).kind = "chain" /\ UNCHANGED <<caNow, revokedAt, caCerts, caCrls, caPast, caHolder>>
  BY DEF CheckChain
<1>2. caThread[t].pc \in Working /\ caThread[t].pc \notin Locking
  BY <1>1 DEF Working, Locking
<1>3. PICK new \in ThreadStates : /\ caThread' = [caThread EXCEPT ![t] = new] /\ new.pc \in {"read", "ok", "error"}
                                  /\ WorkOK(new) /\ SeenOK(new) /\ FetchOK(new)
  BY <1>1, <1>2, StepDone, EndsInError DEF CheckChain
<1>4. new.pc \notin Locking
  BY <1>3 DEF Locking
<1> QED
  BY <1>1, <1>2, <1>3, <1>4, ThreadMoves

\* The step of a thread that found what it looked for.
LEMMA FoundHolds ==
  ASSUME CaInv, NEW t \in Threads, caThread[t].pc \in {"read", "lock"}, This(t).kind # "chain", Cached(This(t)),
         caThread' = After(t, This(t).kind = "crl" /\ caCrls[This(t).url].revoked),
         UNCHANGED <<caNow, revokedAt, caCerts, caCrls, caPast, caHolder>>
  PROVE  CaInv'
<1>1. PICK revoked \in BOOLEAN : revoked = (This(t).kind = "crl" /\ caCrls[This(t).url].revoked)
  OBVIOUS
<1>2. caThread[t].pc \in Working /\ caThread[t].pc \notin Locking
  BY DEF Working, Locking
<1>3. This(t).kind = "crl" /\ ~revoked /\ ~caPast.slow => revokedAt[This(t).url] + CrlCacheDuration > caThread[t].start
  BY <1>1, <1>2, CachedIsYoung
<1>4. PICK new \in ThreadStates : /\ After(t, revoked) = [caThread EXCEPT ![t] = new] /\ new.pc \in {"read", "ok", "error"}
                                  /\ WorkOK(new) /\ SeenOK(new) /\ FetchOK(new)
  BY <1>2, <1>3, StepDone
<1>5. caThread' = [caThread EXCEPT ![t] = new] /\ new.pc \notin Locking
  BY <1>1, <1>4 DEF Locking
<1> QED
  BY <1>2, <1>4, <1>5, ThreadMoves

\* A thread that goes on to the lock, or to fetch with it.
LEMMA GoesOn ==
  ASSUME CaInv, NEW t \in Threads, caThread[t].pc \in {"read", "lock"}, This(t).kind # "chain", ~Cached(This(t)),
         NEW pc \in {"lock", "fetch"}
  PROVE  \E new \in ThreadStates : /\ [caThread EXCEPT ![t].pc = pc] = [caThread EXCEPT ![t] = new]
                                   /\ new.pc = pc /\ WorkOK(new) /\ SeenOK(new) /\ FetchOK(new)
<1> DEFINE th == caThread[t]
           new == [th EXCEPT !.pc = pc]
<1>1. th \in ThreadStates /\ WorkOK(th) /\ SeenOK(th) /\ th.pc \in Working
  BY DEF CaInv, CaTypeOK, Working
<1>2. [caThread EXCEPT ![t].pc = pc] = [caThread EXCEPT ![t] = new]
  OBVIOUS
<1>3. Head(th.todo).kind # "chain" /\ (Head(th.todo).kind = "cert" => Head(th.todo).url \notin caCerts)
  BY DEF This, Cached
<1> HIDE DEF th
<1>4. new \in ThreadStates /\ new.pc = pc /\ new.todo = th.todo /\ new.leaf = th.leaf /\ new.start = th.start
  BY <1>1 DEF ThreadStates, Working, Locking
<1> HIDE DEF new
<1>5. WorkOK(new)
  BY <1>1, <1>4 DEF WorkOK, Working, Locking
<1>6. SeenOK(new)
  BY <1>1, <1>4 DEF SeenOK
<1>7. FetchOK(new)
  BY <1>3, <1>4 DEF FetchOK
<1> QED
  BY <1>2, <1>4, <1>5, <1>6, <1>7

\* A lookup under the read lock: what is cached and young is used, the rest waits for the write lock.
LEMMA ReadHolds == ASSUME CaInv, NEW t \in Threads, Read(t) PROVE CaInv'
<1>1. caThread[t].pc = "read" /\ This(t).kind # "chain" /\ UNCHANGED <<caNow, revokedAt, caCerts, caCrls, caPast, caHolder>>
  BY DEF Read
<1>2. CASE Cached(This(t))
  BY <1>1, <1>2, FoundHolds DEF Read
<1>3. CASE ~Cached(This(t))
  <2>1. caThread' = [caThread EXCEPT ![t].pc = "lock"]
    BY <1>3 DEF Read
  <2>2. PICK new \in ThreadStates : /\ caThread' = [caThread EXCEPT ![t] = new]
                                    /\ new.pc = "lock" /\ WorkOK(new) /\ SeenOK(new) /\ FetchOK(new)
    BY <1>1, <1>3, <2>1, GoesOn
  <2>3. new.pc \notin Locking /\ caThread[t].pc \notin Locking
    BY <1>1, <2>2 DEF Locking
  <2> QED
    BY <1>1, <2>2, <2>3, ThreadMoves
<1> QED
  BY <1>2, <1>3

\* The second look, under the write lock; only a thread that still misses keeps the lock.
LEMMA LockHolds == ASSUME CaInv, NEW t \in Threads, Lock(t) PROVE CaInv'
<1>1. /\ caThread[t].pc = "lock" /\ caHolder = NoThread
      /\ UNCHANGED <<caNow, revokedAt, caCerts, caCrls, caPast>>
  BY DEF Lock
<1>2. This(t).kind # "chain"
  BY <1>1 DEF CaInv, FetchOK, This
<1>3. CASE Cached(This(t))
  BY <1>1, <1>2, <1>3, FoundHolds DEF Lock
<1>4. CASE ~Cached(This(t))
  <2>1. caThread' = [caThread EXCEPT ![t].pc = "fetch"] /\ caHolder' = t
    BY <1>4 DEF Lock
  <2>2. PICK new \in ThreadStates : /\ caThread' = [caThread EXCEPT ![t] = new]
                                    /\ new.pc = "fetch" /\ WorkOK(new) /\ SeenOK(new) /\ FetchOK(new)
    BY <1>1, <1>2, <1>4, <2>1, GoesOn
  <2>3. new.pc \in Locking
    BY <2>2 DEF Locking
  <2> QED
    BY <1>1, <2>1, <2>2, <2>3, ThreadMoves
<1> QED
  BY <1>3, <1>4

\* A fetch reads a list as it is now, or fails and lets go of the lock.
LEMMA FetchHolds == ASSUME CaInv, NEW t \in Threads, Fetch(t) PROVE CaInv'
<1> DEFINE th == caThread[t]
<1>1. th.pc = "fetch" /\ th.pc \in Locking /\ UNCHANGED <<caNow, revokedAt, caCerts, caCrls, caPast>>
  BY DEF Fetch, Locking
<1>2. CASE caThread' = Ends(t, "error") /\ caHolder' = NoThread
  <2>1. PICK new \in ThreadStates : /\ Ends(t, "error") = [caThread EXCEPT ![t] = new]
                                    /\ new.pc = "error" /\ WorkOK(new) /\ SeenOK(new) /\ FetchOK(new)
    BY EndsInError
  <2>2. new.pc \notin Locking
    BY <2>1 DEF Locking
  <2> QED
    BY <1>1, <1>2, <2>1, <2>2, ThreadMoves
<1>3. CASE caHolder' = caHolder /\ caThread' = [caThread EXCEPT ![t] = [@ EXCEPT !.pc = "store",
                                      !.got = This(t).kind = "crl" /\ revokedAt[This(t).url] <= caNow]]
  <2>1. PICK got \in BOOLEAN : got = (This(t).kind = "crl" /\ revokedAt[This(t).url] <= caNow)
    OBVIOUS
  <2>2. PICK new : new = [th EXCEPT !.pc = "store", !.got = got]
    OBVIOUS
  <2>3. caThread' = [caThread EXCEPT ![t] = new]
    BY <1>3, <2>1, <2>2
  <2>4. th \in ThreadStates /\ WorkOK(th) /\ SeenOK(th) /\ FetchOK(th) /\ This(t) = Head(th.todo)
    BY DEF CaInv, CaTypeOK, This
  <2>5. /\ new \in ThreadStates /\ new.pc = "store" /\ new.todo = th.todo /\ new.leaf = th.leaf
        /\ new.start = th.start /\ new.got = got
    BY <2>2, <2>4 DEF ThreadStates, Working, Locking
  <2>6. WorkOK(new)
    BY <1>1, <2>4, <2>5 DEF WorkOK, Working, Locking
  <2>7. SeenOK(new)
    BY <1>1, <2>4, <2>5 DEF SeenOK, Working, Locking
  <2>8. FetchOK(new)
    <3>1. Head(th.todo).kind = "crl" => Head(th.todo).url \in ListURLs
      BY <1>1, <2>4 DEF WorkOK, Working, Locking, ThreadStates
    <3>2. ASSUME Head(th.todo).kind = "crl", ~got PROVE revokedAt[Head(th.todo).url] >= caNow
      <4>1. revokedAt[Head(th.todo).url] \in Nat /\ caNow \in Nat
        BY <3>1, <3>2, CaAssumption DEF CaInv, CaTypeOK, Never
      <4>2. ~(revokedAt[Head(th.todo).url] <= caNow)
        BY <2>1, <2>4, <3>2
      <4> QED
        BY <4>1, <4>2
    <3> QED
      BY <1>1, <2>4, <2>5, <3>2 DEF FetchOK, Locking
  <2>9. new.pc \in Locking
    BY <2>5 DEF Locking
  <2> HIDE DEF th
  <2> QED
    BY <1>1, <1>3, <2>3, <2>5, <2>6, <2>7, <2>8, <2>9, ThreadMoves DEF th
<1> QED
  BY <1>2, <1>3 DEF Fetch

\* What was fetched is cached with the time of now; the lock is free afterwards, and a
\* certificate that is cached was not fetched, since nobody else held the lock meanwhile.
LEMMA StoreHolds == ASSUME CaInv, NEW t \in Threads, Store(t) PROVE CaInv'
<1> DEFINE th == caThread[t]
           step == This(t)
<1>1. th.pc = "store" /\ th \in ThreadStates /\ WorkOK(th) /\ FetchOK(th) /\ step = Head(th.todo)
  BY DEF Store, CaInv, CaTypeOK, This
<1>2. step \in Steps /\ step.kind \in {"cert", "crl"} /\ (step.kind = "crl" => step.url \in ListURLs)
  <2>1. th.todo \in Seq(Steps) /\ th.todo # <<>> /\ step = th.todo[1] /\ 1 \in DOMAIN th.todo
    BY <1>1 DEF WorkOK, ThreadStates, Working, Locking
  <2>2. step \in Steps /\ (step.kind = "crl" => step.url \in ListURLs)
    BY <1>1, <2>1 DEF WorkOK, Working, Locking
  <2>3. step.kind # "chain"
    BY <1>1 DEF FetchOK, Locking
  <2> QED
    BY <2>2, <2>3 DEF Steps
<1>3. /\ step.kind = "cert" => step.url \notin caCerts
      /\ step.kind = "crl" /\ ~th.got /\ ~caPast.slow => revokedAt[step.url] >= caNow
  BY <1>1 DEF FetchOK, Locking
<1>4. caHolder' = NoThread /\ caNow' = caNow /\ revokedAt' = revokedAt
  BY DEF Store
<1>5. caNow \in 0 .. CaMaxTime /\ caNow \in Nat /\ th.start \in Nat /\ th.start <= caNow /\ th.got \in BOOLEAN
  BY <1>1, CaAssumption DEF CaInv, CaTypeOK, ThreadStates, WorkOK, Working, Locking
<1>6. /\ step.kind = "cert" => caCrls' = caCrls /\ caPast' = [caPast EXCEPT !.twice = @ \/ step.url \in caCerts]
      /\ step.kind = "crl" => /\ caCrls' = [caCrls EXCEPT ![step.url] = [known |-> TRUE, revoked |-> th.got, fetchedAt |-> caNow]]
                              /\ caPast' = caPast
  BY DEF Store
<1>7. caPast' = caPast
  BY <1>2, <1>3, <1>6 DEF CaInv, CaTypeOK
<1>8. PICK new \in ThreadStates : /\ caThread' = [caThread EXCEPT ![t] = new] /\ new.pc \in {"read", "ok", "error"}
                                  /\ WorkOK(new) /\ SeenOK(new) /\ FetchOK(new)
  <2>1. PICK revoked \in BOOLEAN : revoked = (step.kind = "crl" /\ th.got)
    OBVIOUS
  <2>2. step.kind = "crl" /\ ~revoked /\ ~caPast.slow => revokedAt[step.url] + CrlCacheDuration > th.start
    BY <1>2, <1>3, <1>5, <2>1, CaAssumption DEF CaInv, CaTypeOK, Never
  <2>3. PICK new \in ThreadStates : /\ After(t, revoked) = [caThread EXCEPT ![t] = new] /\ new.pc \in {"read", "ok", "error"}
                                    /\ WorkOK(new) /\ SeenOK(new) /\ FetchOK(new)
    BY <1>1, <2>2, StepDone DEF Working, Locking
  <2>4. caThread' = After(t, revoked)
    BY <2>1 DEF Store
  <2> QED
    BY <2>3, <2>4
<1>9. caThread'[t] = new /\ \A s \in Threads \ {t} : caThread'[s] = caThread[s] /\ caThread[s].pc \notin Locking
  <2>1. caHolder = t
    BY <1>1 DEF CaInv, LockIsReleased
  <2> QED
    BY <1>8, <2>1 DEF CaInv, CaTypeOK, LockIsReleased, Locking
<1> HIDE DEF th, step
<1>10. caCrls' \in [ListURLs -> [known : BOOLEAN, revoked : BOOLEAN, fetchedAt : 0 .. CaMaxTime]]
  <2>1. caCrls \in [ListURLs -> [known : BOOLEAN, revoked : BOOLEAN, fetchedAt : 0 .. CaMaxTime]]
    BY DEF CaInv, CaTypeOK
  <2>2. [known |-> TRUE, revoked |-> th.got, fetchedAt |-> caNow] \in [known : BOOLEAN, revoked : BOOLEAN, fetchedAt : 0 .. CaMaxTime]
    BY <1>5
  <2> QED
    BY <1>2, <1>6, <2>1, <2>2
<1>11. CaTypeOK'
  BY <1>4, <1>7, <1>8, <1>10 DEF CaInv, CaTypeOK
<1>12. LockIsReleased' /\ FetchedOnce'
  <2>1. \A s \in Threads : caThread'[s].pc \notin Locking /\ s # NoThread
    BY <1>8, <1>9, CaAssumption DEF Locking, NoThread
  <2> QED
    BY <1>4, <1>7, <2>1 DEF CaInv, LockIsReleased, FetchedOnce, Locking
<1>13. CrlsOK'
  <2> SUFFICES ASSUME ~caPast.slow, NEW u \in ListURLs, caCrls'[u].known
               PROVE  caCrls'[u].fetchedAt <= caNow /\ (~caCrls'[u].revoked => revokedAt[u] >= caCrls'[u].fetchedAt)
    BY <1>4, <1>7 DEF CrlsOK
  <2>1. CASE caCrls'[u] = caCrls[u]
    BY <2>1 DEF CaInv, CrlsOK
  <2>2. CASE step.kind = "crl" /\ u = step.url
    <3>1. caCrls'[u] = [known |-> TRUE, revoked |-> th.got, fetchedAt |-> caNow]
      BY <1>6, <2>2 DEF CaInv, CaTypeOK
    <3> QED
      BY <1>3, <1>5, <2>2, <3>1
  <2> QED
    BY <1>2, <1>6, <2>1, <2>2 DEF CaInv, CaTypeOK
<1>14. ASSUME NEW s \in Threads PROVE (WorkOK(caThread[s]) /\ SeenOK(caThread[s]) /\ FetchOK(caThread[s]))'
  <2>1. PICK r \in ThreadStates : r = caThread'[s] /\ WorkOK(r) /\ SeenOK(r) /\ FetchOK(r) /\ r.pc \notin Locking
    BY <1>8, <1>9 DEF CaInv, CaTypeOK, Locking
  <2>2. WorkOK(r)' /\ SeenOK(r)'
    BY <1>4, <1>7, <2>1 DEF WorkOK, SeenOK
  <2>3. FetchOK(r)'
    BY <2>1 DEF FetchOK, Locking
  <2> QED
    BY <2>1, <2>2, <2>3 DEF WorkOK, SeenOK, FetchOK
<1> QED
  BY <1>11, <1>12, <1>13, <1>14 DEF CaInv

\* What verify accepts was in none of its lists a cache's lifetime earlier.
LEMMA InvariantIsSafe == CaInv => CaCacheIsSafe
<1> SUFFICES ASSUME CaInv, NEW t \in Threads, caThread[t].pc = "ok", ~caPast.slow, NEW u \in ListsOf(caThread[t].leaf)
             PROVE  revokedAt[u] + CrlCacheDuration > caThread[t].start
  BY DEF CaInv, CaCacheIsSafe, RevocationIsSeen, ListsOf
<1>1. caThread[t].todo = <<>> /\ caThread[t].leaf.lists # <<>> /\ SeenOK(caThread[t])
  BY DEF CaInv, WorkOK
<1> QED
  BY <1>1 DEF SeenOK

\* For any threads, certificates and lists: no certificate is fetched twice, what verify
\* accepts was in none of its lists CrlCacheDuration before, and the lock is let go of.
THEOREM CacheSafe == CaSpec => []CaCacheIsSafe
<1>1. CaInv /\ [CaNext]_caVars => CaInv'
  <2> SUFFICES ASSUME CaInv, [CaNext]_caVars PROVE CaInv'
    OBVIOUS
  <2>1. CASE CaTick
    BY <2>1, TickHolds
  <2>2. ASSUME NEW u \in ListURLs, Revoke(u) PROVE CaInv'
    BY <2>2, RevokeHolds
  <2>3. ASSUME NEW t \in Threads, CheckChain(t) \/ Read(t) \/ Lock(t) \/ Fetch(t) \/ Store(t) PROVE CaInv'
    BY <2>3, ChainHolds, ReadHolds, LockHolds, FetchHolds, StoreHolds
  <2>4. ASSUME NEW t \in Threads, NEW l \in Leaves, VerifyCert(t, l) PROVE CaInv'
    BY <2>4, VerifyHolds
  <2>5. CASE UNCHANGED caVars
    BY <2>5 DEF CaInv, CaTypeOK, LockIsReleased, FetchedOnce, CrlsOK, WorkOK, SeenOK, FetchOK, caVars
  <2> QED
    BY <2>1, <2>2, <2>3, <2>4, <2>5 DEF CaNext
<1> QED
  BY <1>1, InitHolds, InvariantIsSafe, PTL DEF CaSpec
=============================================================================
