-------------------------- MODULE TokenSourceProofs --------------------------
(***************************************************************************)
(* The shared token source for any number of requests, tokens and processes: *)
(* where a token may be while it travels from the command to the memory and  *)
(* the kubeconfig, and what the expiry beside it says.                       *)
(***************************************************************************)
EXTENDS TokenSource, TLAPS, SequenceTheorems

Pairs == [token : Nat, expiry : Nat]
RequestStates ==
  [pc : {"new", "cached", "fetch", "update", "persist", "send", "reset", "done"}, pair : Pairs, at : Nat, fresh : BOOLEAN]

SrcTypeOK ==
  /\ clock \in Nat
  /\ config \in [cmd : BOOLEAN, path : STRING, scopes : STRING, saved : Pairs]
  /\ memory \in Pairs
  /\ requests \in [Requests -> RequestStates]
  /\ issued \in Seq(Nat)
  /\ refused \subseteq 1 .. Len(issued)
  /\ forgotten \subseteq 1 .. Len(issued)

\* The token was issued, and an expiry that is known is its own.
PairOK(p) == p.token <= Len(issued) /\ (p.token # 0 /\ p.expiry # 0 => p.expiry = issued[p.token])

\* What a request knows of its token.
RequestOK(q) ==
  /\ PairOK(q.pair)
  /\ q.pc \in {"update", "persist"} => q.fresh /\ q.pair.token # 0 /\ q.pair.token \notin forgotten
  /\ q.pc = "reset" => q.pair.token \in refused
  /\ q.pc = "send" /\ ~q.fresh => issued[q.pair.token] >= q.at + Skew /\ q.pair.token # 0

\* Until update, only the request that fetched a token has it.
Fetching(r) == requests[r].pc = "update"
OnlyFetcher ==
  \A r \in Requests : Fetching(r) =>
    /\ requests[r].pair.token \notin {memory.token, config.saved.token}
    /\ \A q \in Requests \ {r} : requests[q].pair.token # requests[r].pair.token

\* The inductive invariant.
SrcInv ==
  /\ SrcTypeOK
  /\ PairOK(memory) /\ PairOK(config.saved)
  /\ \A r \in Requests : RequestOK(requests[r])
  /\ OnlyFetcher
  /\ RefusedIsForgotten

\* A source starts with what the configuration saved, and with no request.
LEMMA SrcInitHolds == SrcInit => SrcInv
<1> SUFFICES ASSUME SrcInit PROVE SrcInv
  OBVIOUS
<1>1. NoPair \in Pairs /\ NoPair.token = 0 /\ NoRequest \in RequestStates /\ NoRequest.pc = "new" /\ NoRequest.pair = NoPair
  BY DEF NoPair, Pairs, NoRequest, RequestStates
<1>2. config \in [cmd : BOOLEAN, path : STRING, scopes : STRING, saved : {NoPair}]
  BY SourceAssumption DEF SrcInit, NoPair
<1>3. config.saved = NoPair /\ memory = NoPair
  BY <1>2 DEF SrcInit, NewSource, NoPair
<1>4. SrcTypeOK
  BY <1>1, <1>2, <1>3 DEF SrcInit, SrcTypeOK
<1>5. \A r \in Requests : requests[r] = NoRequest
  BY DEF SrcInit
<1>6. PairOK(NoPair)
  BY <1>1, <1>4 DEF PairOK, SrcTypeOK
<1>7. RequestOK(NoRequest)
  BY <1>1, <1>6 DEF RequestOK
<1>8. OnlyFetcher /\ RefusedIsForgotten
  BY <1>1, <1>5 DEF OnlyFetcher, Fetching, RefusedIsForgotten, SrcInit
<1> QED
  BY <1>3, <1>4, <1>5, <1>6, <1>7, <1>8 DEF SrcInv

\* The step of one request that issues and forgets nothing.
LEMMA RequestMoves ==
  ASSUME SrcInv, NEW r \in Requests, NEW new \in RequestStates, RequestOK(new),
         requests' = [requests EXCEPT ![r] = new],
         UNCHANGED <<clock, config, memory, issued, refused, forgotten>>,
         new.pc # "update", new.pair \in {NoPair, memory, requests[r].pair}
  PROVE  SrcInv'
<1>1. SrcTypeOK' /\ requests'[r] = new /\ \A q \in Requests \ {r} : requests'[q] = requests[q]
  BY DEF SrcInv, SrcTypeOK
<1>2. PairOK(memory)' /\ PairOK(config.saved)' /\ RefusedIsForgotten'
  BY DEF SrcInv, PairOK, RefusedIsForgotten
<1>3. ASSUME NEW q \in Requests PROVE RequestOK(requests[q])'
  BY <1>1 DEF SrcInv, RequestOK, PairOK
<1>4. OnlyFetcher'
  <2> SUFFICES ASSUME NEW s \in Requests, requests'[s].pc = "update"
               PROVE  /\ requests'[s].pair.token \notin {memory.token, config.saved.token}
                      /\ \A q \in Requests \ {s} : requests'[q].pair.token # requests'[s].pair.token
    BY DEF OnlyFetcher, Fetching
  <2>1. s # r /\ requests'[s] = requests[s] /\ Fetching(s)
    BY <1>1 DEF Fetching
  <2>2. /\ requests[s].pair.token \notin {memory.token, config.saved.token}
        /\ \A q \in Requests \ {s} : requests[q].pair.token # requests[s].pair.token
    BY <2>1 DEF SrcInv, OnlyFetcher
  <2>3. requests[s].pair.token # 0
    BY <2>1, <2>2 DEF SrcInv, RequestOK
  <2> QED
    BY <1>1, <2>1, <2>2, <2>3 DEF NoPair
<1> QED
  BY <1>1, <1>2, <1>3, <1>4 DEF SrcInv

\* A request that is over has forgotten its token.
LEMMA Done ==
  ASSUME SrcInv
  PROVE  /\ [NoRequest EXCEPT !.pc = "done"] \in RequestStates /\ RequestOK([NoRequest EXCEPT !.pc = "done"])
         /\ [NoRequest EXCEPT !.pc = "done"].pc = "done" /\ [NoRequest EXCEPT !.pc = "done"].pair = NoPair
<1>1. NoPair \in Pairs /\ NoPair.token = 0
  BY DEF NoPair, Pairs
<1>2. PairOK(NoPair)
  BY <1>1 DEF SrcInv, SrcTypeOK, PairOK
<1>3. PICK new : new = [NoRequest EXCEPT !.pc = "done"]
  OBVIOUS
<1>4. new \in RequestStates /\ new.pc = "done" /\ new.pair = NoPair
  BY <1>1, <1>3 DEF NoRequest, RequestStates
<1>5. RequestOK(new)
  BY <1>2, <1>4 DEF RequestOK
<1> QED
  BY <1>3, <1>4, <1>5

\* A new process reads the saved pair, and knows of no request.
LEMMA NewProviderHolds == ASSUME SrcInv, NewProvider PROVE SrcInv'
<1>1. memory' = config.saved /\ UNCHANGED <<clock, config, issued, refused, forgotten>> /\ requests' = [r \in Requests |-> NoRequest]
  BY DEF NewProvider, NewSource, SrcInv, SrcTypeOK, Pairs
<1>2. NoRequest \in RequestStates /\ RequestOK(NoRequest) /\ NoRequest.pc = "new"
  <2>1. NoPair \in Pairs /\ NoPair.token = 0
    BY DEF NoPair, Pairs
  <2>2. PairOK(NoPair)
    BY <2>1 DEF SrcInv, SrcTypeOK, PairOK
  <2>3. NoRequest \in RequestStates /\ NoRequest.pc = "new" /\ NoRequest.pair = NoPair
    BY <2>1 DEF NoRequest, RequestStates
  <2> QED
    BY <2>2, <2>3 DEF RequestOK
<1>3. SrcTypeOK' /\ RefusedIsForgotten'
  BY <1>1, <1>2 DEF SrcInv, SrcTypeOK, RefusedIsForgotten
<1>4. PairOK(memory)' /\ PairOK(config.saved)'
  BY <1>1 DEF SrcInv, PairOK
<1>5. \A r \in Requests : RequestOK(requests[r])'
  BY <1>1, <1>2 DEF RequestOK, PairOK
<1>6. OnlyFetcher'
  BY <1>1, <1>2 DEF OnlyFetcher, Fetching
<1> QED
  BY <1>3, <1>4, <1>5, <1>6 DEF SrcInv

\* A request starts, or goes straight through with its own authorization.
LEMMA BeginHolds == ASSUME SrcInv, NEW r \in Requests, BeginRequest(r) PROVE SrcInv'
<1>1. UNCHANGED <<clock, config, memory, issued, refused, forgotten>>
  BY DEF BeginRequest
<1>2. CASE requests' = [requests EXCEPT ![r] = [requests[r] EXCEPT !.pc = "cached"]]
  <2>1. PICK new : new = [requests[r] EXCEPT !.pc = "cached"]
    OBVIOUS
  <2>2. new \in RequestStates /\ new.pair = requests[r].pair /\ new.pc = "cached"
    BY <2>1 DEF SrcInv, SrcTypeOK, RequestStates
  <2>3. RequestOK(new)
    BY <2>2 DEF SrcInv, RequestOK
  <2> QED
    BY <1>1, <1>2, <2>1, <2>2, <2>3, RequestMoves
<1>3. CASE requests' = [requests EXCEPT ![r] = [NoRequest EXCEPT !.pc = "done"]]
  BY <1>1, <1>3, Done, RequestMoves
<1> QED
  BY <1>2, <1>3 DEF BeginRequest, ToRequest

\* The pair in memory is current, so what ReadMemory takes from it lives for Skew.
LEMMA ReadHolds == ASSUME SrcInv, NEW r \in Requests, ReadMemory(r) PROVE SrcInv'
<1>1. UNCHANGED <<clock, config, memory, issued, refused, forgotten>>
  BY DEF ReadMemory
<1>2. PICK new : new = [requests[r] EXCEPT !.pair = memory, !.at = clock, !.pc = IF ValidPair(memory) THEN "send" ELSE "fetch"]
  OBVIOUS
<1>3. requests' = [requests EXCEPT ![r] = new]
  BY <1>2 DEF ReadMemory, ToRequest
<1>4. /\ new \in RequestStates /\ new.pair = memory /\ new.at = clock
      /\ new.pc = IF ValidPair(memory) THEN "send" ELSE "fetch"
  BY <1>2 DEF SrcInv, SrcTypeOK, RequestStates
<1>5. RequestOK(new)
  <2>1. PairOK(memory) /\ memory \in Pairs /\ clock \in Nat
    BY DEF SrcInv, SrcTypeOK
  <2>2. CASE ValidPair(memory)
    <3>1. memory.token # 0 /\ issued[memory.token] = memory.expiry /\ clock + Skew <= memory.expiry
      BY <2>1, <2>2 DEF ValidPair, PairOK
    <3>2. issued[memory.token] >= clock + Skew
      BY <2>1, <3>1, ClockAssumption DEF Pairs
    <3> QED
      BY <1>4, <2>1, <2>2, <3>1, <3>2 DEF RequestOK
  <2>3. CASE ~ValidPair(memory)
    BY <1>4, <2>1, <2>3 DEF RequestOK
  <2> QED
    BY <2>2, <2>3
<1> QED
  BY <1>1, <1>3, <1>4, <1>5, RequestMoves

\* A request is sent with its token; an answer of 401 makes it reset the saved one.
LEMMA SendHolds == ASSUME SrcInv, NEW r \in Requests, SendRequest(r) PROVE SrcInv'
<1>1. UNCHANGED <<clock, config, memory, issued, refused, forgotten>>
  BY DEF SendRequest
<1>2. CASE requests[r].pair.token \in refused
  <2>1. PICK new : new = [requests[r] EXCEPT !.pc = "reset"]
    OBVIOUS
  <2>2. new \in RequestStates /\ new.pair = requests[r].pair /\ new.pc = "reset"
    BY <2>1 DEF SrcInv, SrcTypeOK, RequestStates
  <2>3. RequestOK(new)
    BY <1>2, <2>2 DEF SrcInv, RequestOK
  <2>4. requests' = [requests EXCEPT ![r] = new]
    BY <1>2, <2>1 DEF SendRequest, ToRequest
  <2> QED
    BY <1>1, <2>2, <2>3, <2>4, RequestMoves
<1>3. CASE requests[r].pair.token \notin refused
  BY <1>1, <1>3, Done, RequestMoves DEF SendRequest, ToRequest
<1> QED
  BY <1>2, <1>3

\* A new token: until its update, no other pair holds it.
LEMMA FetchHolds == ASSUME SrcInv, NEW r \in Requests, FetchToken(r) PROVE SrcInv'
<1>1. UNCHANGED <<clock, config, memory, refused, forgotten>>
  BY DEF FetchToken
<1>2. CASE requests' = [requests EXCEPT ![r] = [NoRequest EXCEPT !.pc = "done"]] /\ issued' = issued
  BY <1>1, <1>2, Done, RequestMoves
<1>3. ASSUME NEW life \in Lives \ {0}, NEW readable \in BOOLEAN, issued' = Append(issued, Expiry(life)),
             requests' = [requests EXCEPT ![r] = [requests[r] EXCEPT
               !.pair = [token |-> Len(issued) + 1, expiry |-> IF readable THEN Expiry(life) ELSE 0],
               !.fresh = TRUE, !.pc = "update"]]
      PROVE  SrcInv'
  <2> DEFINE t == Len(issued) + 1
  <2>1. PICK pair : pair = [token |-> t, expiry |-> IF readable THEN Expiry(life) ELSE 0]
    OBVIOUS
  <2>2. PICK new : new = [requests[r] EXCEPT !.pair = pair, !.fresh = TRUE, !.pc = "update"]
    OBVIOUS
  <2>3. Expiry(life) \in Nat /\ issued \in Seq(Nat)
    BY ClockAssumption DEF Expiry, SrcInv, SrcTypeOK
  <2>4. /\ issued' \in Seq(Nat) /\ Len(issued') = t /\ t \in Nat /\ Len(issued) \in Nat
        /\ issued'[t] = Expiry(life) /\ \A i \in 1 .. Len(issued) : issued'[i] = issued[i]
    BY <1>3, <2>3
  <2> HIDE DEF t
  <2>5. pair \in Pairs /\ pair.token = t /\ (pair.expiry # 0 => pair.expiry = Expiry(life))
    BY <2>1, <2>3, <2>4 DEF Pairs
  <2>6. /\ new \in RequestStates /\ new.pc = "update" /\ new.pair = pair /\ new.fresh
    BY <2>2, <2>5 DEF SrcInv, SrcTypeOK, RequestStates
  <2>7. requests' = [requests EXCEPT ![r] = new]
    BY <1>3, <2>1, <2>2 DEF t
  <2>8. requests'[r] = new /\ \A q \in Requests \ {r} : requests'[q] = requests[q]
    BY <2>7 DEF SrcInv, SrcTypeOK
  <2>9. t = Len(issued) + 1
    BY DEF t
  <2>10. 1 .. Len(issued) \subseteq 1 .. t
    BY <2>4, <2>9
  <2>11. SrcTypeOK'
    BY <1>1, <2>4, <2>6, <2>7, <2>10 DEF SrcInv, SrcTypeOK
  <2>12. ASSUME NEW p \in Pairs, PairOK(p) PROVE PairOK(p)'
    <3>1. p.token \in Nat /\ p.token <= Len(issued)
      BY <2>12 DEF PairOK, Pairs
    <3>2. p.token # 0 => issued'[p.token] = issued[p.token]
      BY <2>4, <3>1
    <3> QED
      BY <2>4, <2>9, <2>12, <3>1, <3>2 DEF PairOK
  <2>13. PairOK(memory)' /\ PairOK(config.saved)' /\ RefusedIsForgotten'
    <3>1. memory \in Pairs /\ config.saved \in Pairs /\ PairOK(memory) /\ PairOK(config.saved)
      BY DEF SrcInv, SrcTypeOK
    <3>2. PICK a, b \in Pairs : a = memory /\ b = config.saved
      BY <3>1
    <3>3. PairOK(a)' /\ PairOK(b)'
      BY <2>12, <3>1, <3>2
    <3> QED
      BY <1>1, <3>2, <3>3 DEF SrcInv, PairOK, RefusedIsForgotten
  <2>14. ASSUME NEW q \in Requests PROVE RequestOK(requests[q])'
    <3>1. CASE q = r
      <4>1. PairOK(pair)'
        BY <2>4, <2>5 DEF PairOK
      <4>2. t # 0 /\ t \notin forgotten
        BY <2>4, <2>9 DEF SrcInv, SrcTypeOK
      <4>3. RequestOK(new)'
        BY <1>1, <2>5, <2>6, <4>1, <4>2 DEF RequestOK, PairOK
      <4> QED
        BY <2>8, <3>1, <4>3 DEF RequestOK, PairOK
    <3>2. CASE q # r
      <4>1. PICK old \in RequestStates : old = requests[q] /\ RequestOK(old)
        BY DEF SrcInv, SrcTypeOK
      <4>2. old.pair \in Pairs /\ PairOK(old.pair)
        BY <4>1 DEF RequestStates, RequestOK
      <4>3. PairOK(old.pair)'
        BY <2>12, <4>2
      <4>4. old.pair.token # 0 => issued'[old.pair.token] = issued[old.pair.token]
        BY <2>4, <4>2 DEF Pairs, PairOK
      <4>5. RequestOK(old)'
        BY <1>1, <4>1, <4>3, <4>4 DEF RequestOK
      <4> QED
        BY <2>8, <3>2, <4>1, <4>5 DEF RequestOK, PairOK
    <3> QED
      BY <3>1, <3>2
  <2>15. OnlyFetcher'
    <3>1. /\ memory.token # t /\ config.saved.token # t
          /\ \A q \in Requests : requests[q].pair.token # t
      BY <2>4, <2>9 DEF SrcInv, SrcTypeOK, PairOK, RequestOK, Pairs, RequestStates
    <3> QED
      BY <1>1, <2>5, <2>6, <2>8, <3>1 DEF SrcInv, OnlyFetcher, Fetching
  <2> QED
    BY <2>11, <2>13, <2>14, <2>15 DEF SrcInv
<1> QED
  BY <1>2, <1>3 DEF FetchToken, ToRequest, SrcInv, SrcTypeOK

\* The fetched token comes into memory, and may be read by everyone.
LEMMA UpdateHolds == ASSUME SrcInv, NEW r \in Requests, UpdateSource(r) PROVE SrcInv'
<1> DEFINE pair == requests[r].pair
<1>1. UNCHANGED <<clock, config, issued, refused, forgotten>> /\ memory' = pair /\ Fetching(r)
  BY DEF UpdateSource, Fetching
<1>2. PICK new : new = [requests[r] EXCEPT !.pc = "persist"]
  OBVIOUS
<1>3. requests' = [requests EXCEPT ![r] = new]
  BY <1>2 DEF UpdateSource, ToRequest
<1>4. new \in RequestStates /\ new.pc = "persist" /\ new.pair = pair /\ new.fresh = requests[r].fresh /\ pair \in Pairs
  BY <1>2 DEF SrcInv, SrcTypeOK, RequestStates
<1>5. RequestOK(new) /\ PairOK(pair)
  BY <1>1, <1>4 DEF SrcInv, RequestOK, Fetching
<1>6. requests'[r] = new /\ \A q \in Requests \ {r} : requests'[q] = requests[q]
  BY <1>3 DEF SrcInv, SrcTypeOK
<1>7. SrcTypeOK' /\ RefusedIsForgotten'
  BY <1>1, <1>3, <1>4 DEF SrcInv, SrcTypeOK, RefusedIsForgotten
<1>8. PairOK(memory)' /\ PairOK(config.saved)'
  BY <1>1, <1>5 DEF SrcInv, PairOK
<1>9. ASSUME NEW q \in Requests PROVE RequestOK(requests[q])'
  BY <1>1, <1>4, <1>5, <1>6 DEF SrcInv, RequestOK, PairOK
<1>10. OnlyFetcher'
  <2> SUFFICES ASSUME NEW s \in Requests, requests'[s].pc = "update"
               PROVE  /\ requests'[s].pair.token \notin {memory'.token, config'.saved.token}
                      /\ \A q \in Requests \ {s} : requests'[q].pair.token # requests'[s].pair.token
    BY DEF OnlyFetcher, Fetching
  <2>1. s # r /\ requests'[s] = requests[s] /\ Fetching(s)
    BY <1>4, <1>6 DEF Fetching
  <2> QED
    BY <1>1, <1>4, <1>6, <2>1 DEF SrcInv, OnlyFetcher
<1> QED
  BY <1>7, <1>8, <1>9, <1>10 DEF SrcInv

\* Only a token that nobody has seen refused is persisted.
LEMMA PersistHolds == ASSUME SrcInv, NEW r \in Requests, PersistToken(r) PROVE SrcInv'
<1> DEFINE pair == requests[r].pair
<1>1. UNCHANGED <<clock, memory, issued, refused, forgotten>> /\ requests[r].pc = "persist"
  BY DEF PersistToken
<1>2. PICK new : new = [requests[r] EXCEPT !.pc = "send"]
  OBVIOUS
<1>3. requests' = [requests EXCEPT ![r] = new]
  BY <1>2 DEF PersistToken, ToRequest
<1>4. new \in RequestStates /\ new.pc = "send" /\ new.pair = pair /\ new.fresh = requests[r].fresh /\ pair \in Pairs
  BY <1>2 DEF SrcInv, SrcTypeOK, RequestStates
<1>5. RequestOK(new) /\ PairOK(pair) /\ pair.token \notin forgotten
  BY <1>1, <1>4 DEF SrcInv, RequestOK
<1>6. CASE config' = config
  BY <1>1, <1>3, <1>4, <1>5, <1>6, RequestMoves
<1>7. CASE config' = [config EXCEPT !.saved = pair]
  <2>1. config'.saved = pair /\ config' \in [cmd : BOOLEAN, path : STRING, scopes : STRING, saved : Pairs]
    BY <1>4, <1>7 DEF SrcInv, SrcTypeOK
  <2>2. requests'[r] = new /\ \A q \in Requests \ {r} : requests'[q] = requests[q]
    BY <1>3 DEF SrcInv, SrcTypeOK
  <2>3. SrcTypeOK'
    BY <1>1, <1>3, <1>4, <2>1 DEF SrcInv, SrcTypeOK
  <2>4. PairOK(memory)' /\ PairOK(config.saved)' /\ RefusedIsForgotten'
    BY <1>1, <1>5, <2>1 DEF SrcInv, PairOK, RefusedIsForgotten
  <2>5. ASSUME NEW q \in Requests PROVE RequestOK(requests[q])'
    BY <1>1, <1>5, <2>2 DEF SrcInv, RequestOK, PairOK
  <2>6. OnlyFetcher'
    <3> SUFFICES ASSUME NEW s \in Requests, requests'[s].pc = "update"
                 PROVE  /\ requests'[s].pair.token \notin {memory'.token, config'.saved.token}
                        /\ \A q \in Requests \ {s} : requests'[q].pair.token # requests'[s].pair.token
      BY DEF OnlyFetcher, Fetching
    <3>1. s # r /\ requests'[s] = requests[s] /\ Fetching(s)
      BY <1>4, <2>2 DEF Fetching
    <3> QED
      BY <1>1, <1>4, <2>1, <2>2, <3>1 DEF SrcInv, OnlyFetcher
  <2> QED
    BY <2>3, <2>4, <2>5, <2>6 DEF SrcInv
<1> QED
  BY <1>6, <1>7 DEF PersistToken

\* Forgetting: the token is in no hands from which it could be persisted again.
LEMMA ResetHolds == ASSUME SrcInv, NEW r \in Requests, ResetCache(r) PROVE SrcInv'
<1> DEFINE t == requests[r].pair.token
<1>1. UNCHANGED <<clock, memory, issued, refused>> /\ requests[r].pc = "reset"
  BY DEF ResetCache
<1>2. PICK new : new = [NoRequest EXCEPT !.pc = "done"]
  OBVIOUS
<1>3. requests' = [requests EXCEPT ![r] = new]
  BY <1>2 DEF ResetCache, ToRequest
<1>4. new \in RequestStates /\ RequestOK(new) /\ new.pc = "done" /\ new.pair = NoPair
  BY <1>2, Done
<1>5. CASE config' = config /\ forgotten' = forgotten
  BY <1>1, <1>3, <1>4, <1>5, RequestMoves
<1>6. CASE config' = BaseCache /\ forgotten' = IF BeingPersisted(t) THEN forgotten ELSE forgotten \cup {t}
  <2>1. NoPair \in Pairs /\ NoPair.token = 0
    BY DEF NoPair, Pairs
  <2>2. config'.saved = NoPair /\ config' \in [cmd : BOOLEAN, path : STRING, scopes : STRING, saved : Pairs]
    BY <1>6, <2>1 DEF SrcInv, SrcTypeOK, BaseCache
  <2>3. requests'[r] = new /\ \A q \in Requests \ {r} : requests'[q] = requests[q]
    BY <1>3 DEF SrcInv, SrcTypeOK
  <2>4. t \in refused /\ t \in 1 .. Len(issued) /\ Len(issued) \in Nat
    <3>1. t \in refused
      BY <1>1 DEF SrcInv, RequestOK
    <3>2. refused \subseteq 1 .. Len(issued) /\ Len(issued) \in Nat
      BY DEF SrcInv, SrcTypeOK
    <3> QED
      BY <3>1, <3>2
  <2>5. forgotten' \subseteq 1 .. Len(issued) /\ 0 \notin forgotten'
    <3>1. forgotten \subseteq 1 .. Len(issued) /\ forgotten' \subseteq forgotten \cup {t}
      BY <1>6 DEF SrcInv, SrcTypeOK
    <3> HIDE DEF t
    <3>2. forgotten' \subseteq 1 .. Len(issued)
      BY <2>4, <3>1
    <3> QED
      BY <2>4, <3>2
  <2>6. SrcTypeOK'
    BY <1>1, <1>3, <1>4, <2>2, <2>5 DEF SrcInv, SrcTypeOK
  <2>7. PairOK(NoPair)
    BY <2>1, <2>4 DEF PairOK
  <2>8. PairOK(memory)' /\ PairOK(config.saved)' /\ RefusedIsForgotten'
    BY <1>1, <2>1, <2>2, <2>5, <2>7 DEF SrcInv, PairOK, RefusedIsForgotten
  <2>9. ASSUME NEW q \in Requests \ {r}, requests[q].pc \in {"update", "persist"}
        PROVE  requests[q].pair.token \notin forgotten'
    <3>1. requests[q].pair.token \notin forgotten
      BY <2>9 DEF SrcInv, RequestOK
    <3>2. CASE requests[q].pc = "persist"
      BY <1>6, <2>9, <3>1, <3>2 DEF BeingPersisted
    <3>3. CASE requests[q].pc = "update"
      BY <1>6, <2>9, <3>1, <3>3 DEF SrcInv, OnlyFetcher, Fetching
    <3> QED
      BY <2>9, <3>2, <3>3
  <2>10. ASSUME NEW q \in Requests PROVE RequestOK(requests[q])'
    <3>1. CASE q = r
      BY <1>1, <1>4, <2>3, <2>5, <3>1 DEF RequestOK, PairOK
    <3>2. CASE q # r
      BY <1>1, <2>3, <2>9, <3>2 DEF SrcInv, RequestOK, PairOK
    <3> QED
      BY <3>1, <3>2
  <2>11. OnlyFetcher'
    <3> SUFFICES ASSUME NEW s \in Requests, requests'[s].pc = "update"
                 PROVE  /\ requests'[s].pair.token \notin {memory'.token, config'.saved.token}
                        /\ \A q \in Requests \ {s} : requests'[q].pair.token # requests'[s].pair.token
      BY DEF OnlyFetcher, Fetching
    <3>1. s # r /\ requests'[s] = requests[s] /\ Fetching(s)
      BY <1>4, <2>3 DEF Fetching
    <3>2. requests[s].pair.token # 0
      BY <3>1 DEF SrcInv, RequestOK, Fetching
    <3> QED
      BY <1>1, <1>4, <2>1, <2>2, <2>3, <3>1, <3>2 DEF SrcInv, OnlyFetcher
  <2> QED
    BY <2>6, <2>8, <2>10, <2>11 DEF SrcInv
<1> QED
  BY <1>5, <1>6 DEF ResetCache

\* The clock and the cluster's refusals.
LEMMA RevokeHolds == ASSUME SrcInv, NEW t \in DOMAIN issued, Revoke(t) PROVE SrcInv'
<1>1. UNCHANGED <<clock, config, memory, requests, issued, forgotten>> /\ refused' = refused \cup {t}
  BY DEF Revoke
<1>2. DOMAIN issued = 1 .. Len(issued)
  BY DEF SrcInv, SrcTypeOK
<1>3. SrcTypeOK'
  BY <1>1, <1>2 DEF SrcInv, SrcTypeOK
<1>4. \A r \in Requests : RequestOK(requests[r])'
  BY <1>1 DEF SrcInv, RequestOK, PairOK
<1> QED
  BY <1>1, <1>3, <1>4 DEF SrcInv, PairOK, OnlyFetcher, Fetching, RefusedIsForgotten

\* Time passes, which changes no pair.
LEMMA ClockHolds == ASSUME SrcInv, SrcTick PROVE SrcInv'
<1>1. SrcTypeOK'
  BY DEF SrcInv, SrcTypeOK, SrcTick, Tick
<1>2. \A r \in Requests : RequestOK(requests[r])'
  BY DEF SrcInv, RequestOK, PairOK, SrcTick
<1> QED
  BY <1>1, <1>2 DEF SrcInv, PairOK, OnlyFetcher, Fetching, RefusedIsForgotten, SrcTick

\* For any requests, tokens and processes: what a request takes from the memory lives for
\* Skew, and a token recorded as refused is not in the kubeconfig.
THEOREM SourceSafe == SrcSpec => []SourceIsSafe
<1>1. SrcInv /\ [SrcNext]_<<clock, srcVars>> => SrcInv'
  <2> SUFFICES ASSUME SrcInv, [SrcNext]_<<clock, srcVars>> PROVE SrcInv'
    OBVIOUS
  <2>1. ASSUME NEW r \in Requests,
               \/ BeginRequest(r) \/ ReadMemory(r) \/ FetchToken(r) \/ UpdateSource(r)
               \/ PersistToken(r) \/ SendRequest(r) \/ ResetCache(r)
        PROVE  SrcInv'
    BY <2>1, BeginHolds, ReadHolds, FetchHolds, UpdateHolds, PersistHolds, SendHolds, ResetHolds
  <2>2. ASSUME NEW t \in DOMAIN issued, Revoke(t) PROVE SrcInv'
    BY <2>2, RevokeHolds
  <2>3. CASE UNCHANGED <<clock, srcVars>>
    BY <2>3 DEF SrcInv, SrcTypeOK, PairOK, RequestOK, OnlyFetcher, Fetching, RefusedIsForgotten, srcVars
  <2> QED
    BY <2>1, <2>2, <2>3, NewProviderHolds, ClockHolds DEF SrcNext
<1>2. SrcInv => SourceIsSafe
  BY DEF SrcInv, RequestOK, SourceIsSafe, SharedTokenLives
<1> QED
  BY <1>1, <1>2, SrcInitHolds, PTL DEF SrcSpec
=============================================================================
