----------------------------- MODULE TokenSource -----------------------------
(***************************************************************************)
(* The gcp client authentication plugin inside a client program: requests  *)
(* of several goroutines share one cachedTokenSource, whose token is also  *)
(* persisted in the kubeconfig, where the next process finds it.           *)
(***************************************************************************)
EXTENDS TokenClock, Sequences

CONSTANTS Requests,      \* the goroutines that send requests
          SourceConfigs, \* configurations of the provider
          MaxTokens,     \* tokens issued
          MaxSrcFaults,  \* commands and writes that fail
          MaxProcesses

ASSUME SourceAssumption ==
  \A c \in SourceConfigs : c \in [cmd : BOOLEAN, path : STRING, scopes : STRING, saved : {[token |-> 0, expiry |-> 0]}]

VARIABLES config,     \* the provider's configuration in the kubeconfig
          memory,     \* accessToken and expiry of the cachedTokenSource
          requests,
          issued,     \* the expiry of each token issued so far
          refused,    \* tokens the cluster refuses
          forgotten,  \* tokens whose refusal has been recorded in the kubeconfig
          srcBudget

srcVars == <<config, memory, requests, issued, refused, forgotten, srcBudget>>

NoPair == [token |-> 0, expiry |-> 0]
NoRequest == [pc |-> "new", pair |-> NoPair, at |-> 0, fresh |-> FALSE]

\* tokenSource: a command needs a path and takes no scopes.
SourceFails(c) == c.cmd /\ (c.path = "" \/ c.scopes # "")

\* newCachedTokenSource starts from the persisted pair; an expiry that cannot be
\* parsed is the zero time.
NewSource(c) == [token |-> c.saved.token, expiry |-> c.saved.expiry]

SrcInit ==
  /\ clock = 1
  /\ config \in SourceConfigs
  /\ memory = NewSource(config)
  /\ requests = [r \in Requests |-> NoRequest]
  /\ issued = <<>>
  /\ refused = {} /\ forgotten = {}
  /\ srcBudget = [faults |-> 0, processes |-> 1]

SrcFault == /\ srcBudget.faults < MaxSrcFaults
            /\ srcBudget' = [srcBudget EXCEPT !.faults = @ + 1]
ToRequest(r, changes) == requests' = [requests EXCEPT ![r] = changes]

\* newGCPAuthProvider
NewProvider ==
  /\ \A r \in Requests : requests[r].pc \in {"new", "done"}
  /\ srcBudget.processes < MaxProcesses
  /\ srcBudget' = [srcBudget EXCEPT !.processes = @ + 1]
  /\ memory' = NewSource(config)
  /\ requests' = [r \in Requests |-> NoRequest]
  /\ UNCHANGED <<clock, config, issued, refused, forgotten>>

\* RoundTrip: a request with its own authorization goes straight through.
BeginRequest(r) ==
  /\ requests[r].pc = "new" /\ ~SourceFails(config)
  /\ \/ ToRequest(r, [requests[r] EXCEPT !.pc = "cached"])
     \/ ToRequest(r, [NoRequest EXCEPT !.pc = "done"])
  /\ UNCHANGED <<clock, config, memory, issued, refused, forgotten, srcBudget>>

\* tok.Valid() && !tok.Expiry.IsZero()
ValidPair(p) == p.token # 0 /\ p.expiry # 0 /\ clock + Skew <= p.expiry

\* cachedToken, under the lock
ReadMemory(r) ==
  /\ requests[r].pc = "cached"
  /\ ToRequest(r, [requests[r] EXCEPT !.pair = memory, !.at = clock,
                                 !.pc = IF ValidPair(memory) THEN "send" ELSE "fetch"])
  /\ UNCHANGED <<clock, config, memory, issued, refused, forgotten, srcBudget>>

\* commandTokenSource.Token or the default source, outside the lock: an expiry that
\* cannot be parsed is the zero time, any other problem an error.
FetchToken(r) ==
  /\ requests[r].pc = "fetch" /\ Len(issued) < MaxTokens
  /\ UNCHANGED <<clock, config, memory, refused, forgotten>>
  /\ \/ \E life \in Lives \ {0}, readable \in {TRUE, ~config.cmd} :
          LET t == Len(issued) + 1
          IN /\ issued' = Append(issued, Expiry(life))
             /\ ToRequest(r, [requests[r] EXCEPT !.pair = [token |-> t, expiry |-> IF readable THEN Expiry(life) ELSE 0],
                                            !.fresh = TRUE, !.pc = "update"])
             /\ UNCHANGED srcBudget
     \/ SrcFault /\ ToRequest(r, [NoRequest EXCEPT !.pc = "done"]) /\ UNCHANGED issued

\* update, under the lock
UpdateSource(r) ==
  /\ requests[r].pc = "update"
  /\ memory' = requests[r].pair
  /\ ToRequest(r, [requests[r] EXCEPT !.pc = "persist"])
  /\ UNCHANGED <<clock, config, issued, refused, forgotten, srcBudget>>

\* Persist: an error is only logged.
PersistToken(r) ==
  /\ requests[r].pc = "persist"
  /\ \/ config' = [config EXCEPT !.saved = requests[r].pair] /\ UNCHANGED srcBudget
     \/ SrcFault /\ UNCHANGED config
  /\ ToRequest(r, [requests[r] EXCEPT !.pc = "send"])
  /\ UNCHANGED <<clock, memory, issued, refused, forgotten>>

\* The cluster refuses a token from now on.
Revoke(t) ==
  /\ t \notin refused
  /\ refused' = refused \cup {t}
  /\ UNCHANGED <<clock, config, memory, requests, issued, forgotten, srcBudget>>

\* The response: after a 401 the persisted token is removed.
SendRequest(r) ==
  /\ requests[r].pc = "send"
  /\ ToRequest(r, IF requests[r].pair.token \in refused THEN [requests[r] EXCEPT !.pc = "reset"]
                                                  ELSE [NoRequest EXCEPT !.pc = "done"])
  /\ UNCHANGED <<clock, config, memory, issued, refused, forgotten, srcBudget>>

\* Mutant: the token is left in the configuration.
BaseCacheKeeps == config

\* baseCache: the configuration without the token and its expiry.
BaseCache == [config EXCEPT !.saved = NoPair]

BeingPersisted(t) == \E q \in Requests : requests[q].pc = "persist" /\ requests[q].pair.token = t

\* The error of this Persist is not looked at.
ResetCache(r) ==
  LET t == requests[r].pair.token
  IN /\ requests[r].pc = "reset"
     /\ UNCHANGED <<clock, memory, issued, refused>>
     /\ \/ /\ config' = BaseCache
           /\ forgotten' = IF BeingPersisted(t) THEN forgotten ELSE forgotten \cup {t}
           /\ UNCHANGED srcBudget
        \/ SrcFault /\ UNCHANGED <<config, forgotten>>
     /\ ToRequest(r, [NoRequest EXCEPT !.pc = "done"])

SrcTick == Tick /\ UNCHANGED <<config, memory, requests, issued, refused, forgotten, srcBudget>>

SrcNext == \/ NewProvider \/ SrcTick
           \/ \E t \in DOMAIN issued : Revoke(t)
           \/ \E r \in Requests : \/ BeginRequest(r) \/ ReadMemory(r) \/ FetchToken(r) \/ UpdateSource(r)
                                   \/ PersistToken(r) \/ SendRequest(r) \/ ResetCache(r)

SrcSpec == SrcInit /\ [][SrcNext]_<<clock, srcVars>>

-----------------------------------------------------------------------------
\* A request that takes its token from memory takes one that really had ten seconds
\* left, whoever fetched it, in this process or in an earlier one, and whether or not
\* its expiry could be read: a token of unknown expiry is never used twice.
SharedTokenLives ==
  \A r \in Requests :
    requests[r].pc = "send" /\ ~requests[r].fresh =>
      issued[requests[r].pair.token] >= requests[r].at + Skew

\* A token for which the cluster answered 401 does not come back into the kubeconfig,
\* for the next process to start with, unless the request that fetched it was about to
\* persist it when the refusal was recorded.
RefusedIsForgotten == config.saved.token \notin forgotten

\* The shared source gives no request a token that is about to expire, and the next
\* process none that was refused.
SourceIsSafe == SharedTokenLives /\ RefusedIsForgotten
=============================================================================
