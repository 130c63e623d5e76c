---------------------------- MODULE RegistryAuth ----------------------------
(***************************************************************************)
(* Credentials for image registries: auth-provider-gcp, which kubelet      *)
(* starts for an image, the providers of pkg/gcpcredential it chooses from *)
(* and the reading and caching of docker configurations in                 *)
(* pkg/credentialconfig.  A configuration is a function from registries to *)
(* passwords; a password is the time at which the metadata server issued   *)
(* it.                                                                     *)
(***************************************************************************)
EXTENDS TokenClock, Sequences, FiniteSets

CONSTANTS AuthScenes,   \* metadata, files, the calls of each caller
          Registries,   \* containerRegistryUrls
          CfgLifetime   \* Lifetime of the CachingDockerConfigProvider

VARIABLES meta,      \* what the metadata server says
          files,     \* along the search paths: is there a usable config.json, or .dockercfg
          authCalls,     \* the callers
          cfgCache,  \* cacheDockerConfig and expiration
          cfgLock,   \* mu
          authBudget

authVars == <<meta, files, authCalls, cfgCache, cfgLock, authBudget>>

EmptyConfig == <<>>
NoAuthCall(todo) == [todo |-> todo, pc |-> "new", i |-> 0, token |-> 0, config |-> EmptyConfig,
                 end |-> 0, at |-> 0, hit |-> FALSE, still |-> TRUE]

AuthInit(s) ==
  /\ clock = 1
  /\ meta = s.meta
  /\ files = s.files
  /\ authCalls = [c \in DOMAIN s.calls |-> NoAuthCall(s.calls[c])]
  /\ cfgCache = [config |-> EmptyConfig, expiration |-> 0, end |-> 0]
  /\ cfgLock = ""
  /\ authBudget = [faults |-> s.faults, changes |-> s.changes]

AuthJob(c) == Head(authCalls[c].todo)
SetCall(c, changes) == authCalls' = [authCalls EXCEPT ![c] = changes]
AuthFault == authBudget.faults > 0 /\ authBudget' = [authBudget EXCEPT !.faults = @ - 1]
CallAt(c, pc) == authCalls[c].pc = pc

-----------------------------------------------------------------------------
\* providerFromFlow
FlowPc(flow) == CASE flow = "gcr" -> "token" [] flow = "dockercfg" -> "key"
                  [] flow = "dockercfg-url" -> "url" [] OTHER -> "failed"

\* A call of Enabled, of ReadDockerConfigFile, of the caching provider or of get-credentials.
BeginCall(c) ==
  /\ CallAt(c, "new") /\ authCalls[c].todo # <<>>
  /\ SetCall(c, [NoAuthCall(authCalls[c].todo) EXCEPT
               !.i = 1,
               !.pc = CASE AuthJob(c).op = "enabled" -> "accounts"
                        [] AuthJob(c).op = "file" -> "json"
                        [] AuthJob(c).op = "cached" -> "lock"
                        [] AuthJob(c).op = "get" -> FlowPc(AuthJob(c).flow)])
  /\ UNCHANGED <<clock, meta, files, cfgCache, cfgLock, authBudget>>

\* CachingDockerConfigProvider.Provide holds the lock while it refreshes.
LockCache(c) ==
  /\ CallAt(c, "lock") /\ cfgLock = ""
  /\ IF clock < cfgCache.expiration
     THEN /\ SetCall(c, [authCalls[c] EXCEPT !.config = cfgCache.config, !.end = cfgCache.end, !.at = clock,
                                     !.hit = TRUE, !.pc = "done"])
          /\ UNCHANGED cfgLock
     ELSE SetCall(c, [authCalls[c] EXCEPT !.pc = FlowPc(AuthJob(c).flow)]) /\ cfgLock' = c
  /\ UNCHANGED <<clock, meta, files, cfgCache, authBudget>>

ShouldCache(config) == meta.cacheAll \/ config # EmptyConfig

StoredConfig(config) == IF ShouldCache(config)
                  THEN [config |-> config, expiration |-> clock + CfgLifetime, end |-> clock]
                  ELSE cfgCache

\* What becomes of the configuration a provider gives: it is cached, or GetResponse
\* makes a response of it if its environment variables can be read.
Provided(c, config) ==
  IF AuthJob(c).op = "cached"
  THEN /\ cfgCache' = StoredConfig(config) /\ cfgLock' = ""
       /\ SetCall(c, [authCalls[c] EXCEPT !.config = config, !.end = clock, !.at = clock, !.pc = "done"])
  ELSE /\ UNCHANGED <<cfgCache, cfgLock>>
       /\ SetCall(c, [authCalls[c] EXCEPT !.config = config, !.pc = IF meta.envOk THEN "done" ELSE "failed"])

\* ReadURL fails or answers.
ReadUrl(c, pc, ok, failed) ==
  /\ CallAt(c, pc)
  /\ \/ ok /\ UNCHANGED authBudget
     \/ failed /\ AuthFault
  /\ UNCHANGED <<clock, meta, files>>

\* Mutant: the failure is logged and the email read.
TokenFailureIgnored(c) ==
  SetCall(c, [authCalls[c] EXCEPT !.pc = "email"]) /\ UNCHANGED <<cfgCache, cfgLock>>

\* ContainerRegistryProvider.Provide reads the token,
TokenFails(c) == Provided(c, EmptyConfig)

ReadToken(c) ==
  ReadUrl(c, "token",
          /\ SetCall(c, [authCalls[c] EXCEPT !.token = clock, !.pc = "email"])
          /\ UNCHANGED <<cfgCache, cfgLock>>,
          TokenFails(c))

\* then the address of the account, and makes an entry for each registry.
ReadEmail(c) ==
  ReadUrl(c, "email", Provided(c, [r \in Registries |-> authCalls[c].token]), Provided(c, EmptyConfig))

\* DockerConfigKeyProvider.Provide: a failing ReadURL is not reported by
\* ReadDockerConfigFileFromURL, whose result is then nil; contents that are no
\* configuration are an error.
OfContents(contents) == IF contents = "config" THEN [r \in Registries |-> clock] ELSE EmptyConfig
ReadKey(c) == ReadUrl(c, "key", Provided(c, OfContents(meta.dockercfg)), Provided(c, EmptyConfig))

\* DockerConfigURLKeyProvider.Provide
ReadUrlKey(c) ==
  ReadUrl(c, "url",
          IF meta.url = "http" THEN SetCall(c, [authCalls[c] EXCEPT !.pc = "target"]) /\ UNCHANGED <<cfgCache, cfgLock>>
                               ELSE Provided(c, EmptyConfig),
          Provided(c, EmptyConfig))
ReadTarget(c) == ReadUrl(c, "target", Provided(c, OfContents(meta.target)), Provided(c, EmptyConfig))

-----------------------------------------------------------------------------

\* runWithBackoff: until it succeeds.
RetryUrl(c) == UNCHANGED authCalls

\* ContainerRegistryProvider.Enabled
ListAccounts(c) ==
  /\ ReadUrl(c, "accounts",
             SetCall(c, [authCalls[c] EXCEPT !.pc = IF meta.account THEN "scopes" ELSE "done"]), RetryUrl(c))
  /\ UNCHANGED <<cfgCache, cfgLock>>
ListScopes(c) ==
  /\ ReadUrl(c, "scopes",
             SetCall(c, [authCalls[c] EXCEPT !.hit = meta.scopes \cap {"storage", "cloud-platform"} # {}, !.pc = "done"]),
             RetryUrl(c))
  /\ UNCHANGED <<cfgCache, cfgLock>>

-----------------------------------------------------------------------------

\* The next path; after the last config.json the first .dockercfg; then an error.
NextFile(c, kind) ==
  SetCall(c, IF authCalls[c].i < Len(files[kind]) THEN [authCalls[c] EXCEPT !.i = @ + 1]
         ELSE IF kind = "json" THEN [authCalls[c] EXCEPT !.i = 1, !.pc = "legacy"]
         ELSE [authCalls[c] EXCEPT !.pc = "failed"])

\* ReadDockerConfigFile
SearchFile(c, kind) ==
  /\ CallAt(c, kind)
  /\ IF files[kind][authCalls[c].i] THEN SetCall(c, [authCalls[c] EXCEPT !.config = <<kind, authCalls[c].i>>, !.pc = "done"])
                                ELSE NextFile(c, kind)
  /\ UNCHANGED <<clock, meta, files, cfgCache, cfgLock, authBudget>>

-----------------------------------------------------------------------------
EndCall(c) ==
  /\ authCalls[c].pc \in {"done", "failed"}
  /\ SetCall(c, NoAuthCall(Tail(authCalls[c].todo)))
  /\ UNCHANGED <<clock, meta, files, cfgCache, cfgLock, authBudget>>

\* A file appears, disappears, becomes readable or unreadable.
ChangeFile(kind, i) ==
  /\ authBudget.changes > 0
  /\ authBudget' = [authBudget EXCEPT !.changes = @ - 1]
  /\ files' = [files EXCEPT ![kind][i] = ~@]
  /\ authCalls' = [c \in DOMAIN authCalls |-> [authCalls[c] EXCEPT !.still = FALSE]]
  /\ UNCHANGED <<clock, meta, cfgCache, cfgLock>>

AuthTick == Tick /\ UNCHANGED <<meta, files, authCalls, cfgCache, cfgLock, authBudget>>

AuthNext ==
  \/ AuthTick
  \/ \E kind \in DOMAIN files : \E i \in DOMAIN files[kind] : ChangeFile(kind, i)
  \/ \E c \in DOMAIN authCalls :
       \/ BeginCall(c) \/ LockCache(c) \/ EndCall(c)
       \/ ReadToken(c) \/ ReadEmail(c) \/ ReadKey(c) \/ ReadUrlKey(c) \/ ReadTarget(c)
       \/ ListAccounts(c) \/ ListScopes(c)
       \/ SearchFile(c, "json") \/ SearchFile(c, "legacy")

-----------------------------------------------------------------------------
\* A response either gives nothing or gives, for every registry alike, a password that
\* the metadata server issued: one request of two failing leaves no half-made entry.
CredentialsAreWhole ==
  \A c \in DOMAIN authCalls :
    CallAt(c, "done") /\ AuthJob(c).op \in {"get", "cached"} =>
      \/ authCalls[c].config = EmptyConfig
      \/ \E t \in 1 .. clock : authCalls[c].config = [r \in Registries |-> t]

\* The caching provider never answers from its cache with a configuration that was
\* obtained longer ago than its lifetime, nor with one it was told not to keep, even
\* when refreshes fail in between.
CachedConfigIsYoung ==
  \A c \in DOMAIN authCalls :
    CallAt(c, "done") /\ AuthJob(c).op = "cached" /\ authCalls[c].hit =>
      authCalls[c].at < authCalls[c].end + CfgLifetime /\ ShouldCache(authCalls[c].config)

\* Enabled answers what the metadata server says of the default account and its
\* scopes, whatever requests failed on the way.
EnabledIsTrue ==
  \A c \in DOMAIN authCalls :
    CallAt(c, "done") /\ AuthJob(c).op = "enabled" =>
      (authCalls[c].hit <=> meta.account /\ meta.scopes \cap {"storage", "cloud-platform"} # {})

\* If the files did not change meanwhile, the configuration read is the one of the first
\* usable config.json, or else of the first usable .dockercfg; a search fails only if
\* there is none.
FirstUsableFileWins ==
  LET Place(p) == p[2] + (IF p[1] = "json" THEN 0 ELSE Len(files["json"]))
      Usable == UNION {{<<k, i>> : i \in {j \in DOMAIN files[k] : files[k][j]}} : k \in DOMAIN files}
  IN \A c \in DOMAIN authCalls :
       authCalls[c].pc \in {"done", "failed"} /\ AuthJob(c).op = "file" /\ authCalls[c].still =>
         IF CallAt(c, "done") THEN /\ authCalls[c].config \in Usable
                               /\ \A p \in Usable : Place(authCalls[c].config) <= Place(p)
                          ELSE Usable = {}

\* What the providers of registry credentials answer is whole, young and true,
\* whatever requests and files fail on the way.
RegistryAnswersAreTrue == CredentialsAreWhole /\ CachedConfigIsYoung /\ EnabledIsTrue /\ FirstUsableFileWins
=============================================================================
