----------------------------- MODULE AuthPlugin -----------------------------
(***************************************************************************)
(* gke-gcloud-auth-plugin.  kubectl starts one process per command, so     *)
(* several may run at the same time; they share the cache file beside the  *)
(* kubeconfig.  A token is the record of what it was issued for; the       *)
(* context in it is the one that was current when it was issued, which no  *)
(* code reads.                                                             *)
(***************************************************************************)
EXTENDS TokenClock, FiniteSets

CONSTANTS PluginRuns,    \* the processes
          PluginFlags,   \* what each may be started with
          Contexts,      \* contexts of the kubeconfig
          DefaultTries,  \* retry.DefaultBackoff: attempts at a default token
          MaxPlugFaults,  \* calls that fail, and files that are damaged
          MaxSwitches    \* changes of the current context

VARIABLES context,    \* current-context of the kubeconfig
          cacheFile,  \* gke_gcloud_auth_plugin_cache
          runs,       \* the processes
          plugBudget

plugVars == <<context, cacheFile, runs, plugBudget>>

NoToken == [args |-> {}, context |-> "", expiry |-> 0]
\* What a file that is missing or cannot be parsed is to its reader.
NoEntry == [context |-> "", token |-> NoToken, args |-> {<<"none", "">>}, moved |-> FALSE]

NoRun(r) == [flags |-> CHOOSE f \in PluginFlags[r] : TRUE, pc |-> "new", entry |-> NoEntry, tries |-> 0,
             token |-> NoToken, cached |-> "", at |-> 0, missed |-> FALSE, moved |-> FALSE]

\* The flags of a process choose its token provider.
ProviderKind(f) == IF f.edge THEN "edge" ELSE IF f.default THEN "default" ELSE "gcloud"

UseCache(f) == CASE ProviderKind(f) = "gcloud" -> ~f.env
                 [] ProviderKind(f) = "edge" -> TRUE
                 [] ProviderKind(f) = "default" -> FALSE

\* getExtraArgs: the arguments that say which token is meant.
Given(args) == {a \in args : a[2] # ""}
ExtraArgs(f) ==
  CASE ProviderKind(f) = "gcloud" ->
         Given({<<"project", f.project>>, <<"account", f.account>>, <<"impersonate", f.impersonate>>})
    [] ProviderKind(f) = "edge" ->
         Given({<<"cluster", f.cluster>>, <<"project", f.project>>, <<"location", f.location>>,
                <<"format", "json">>, <<"impersonate", f.impersonate>>})
    [] ProviderKind(f) = "default" -> {}

\* getGcloudArgs
GcloudArgs(f) ==
  CASE ProviderKind(f) = "gcloud" -> {<<"command", "config-helper">>, <<"format", "json">>} \cup ExtraArgs(f)
    [] ProviderKind(f) = "edge" -> {<<"command", "print-access-token">>} \cup ExtraArgs(f)
    [] ProviderKind(f) = "default" -> {}

PlugInit ==
  /\ clock = 1
  /\ context \in Contexts
  /\ cacheFile = NoEntry
  /\ runs = [r \in PluginRuns |-> NoRun(r)]
  /\ plugBudget = [faults |-> 0, switches |-> 0]

PlugFault == /\ plugBudget.faults < MaxPlugFaults
             /\ plugBudget' = [plugBudget EXCEPT !.faults = @ + 1]

-----------------------------------------------------------------------------
\* Mutant: a token is used to its very end.
LivesToTheEnd(c) == ~ clock > c.token.expiry

\* The cached token is still valid for ten seconds.
StillValid(c) == ~ clock + Skew > c.token.expiry

\* Mutant: the arguments are not compared.
SameContext(c, f) == c.context = context

SameContextAndArgs(c, f) == c.context = context /\ c.args = ExtraArgs(f)

\* Bookkeeping for the properties: a process has missed the cache when at some moment
\* the file had nothing for it; the context has moved since its token was issued.
Answers(file, ctx, now, f) == /\ file.token # NoToken /\ now + Skew <= file.token.expiry
                              /\ file.context = ctx /\ file.token.args = GcloudArgs(f)
Noted(old, file, ctx, now) ==
  [q \in PluginRuns |->
     IF old[q].pc \in {"new", "printed", "failed"} THEN old[q]
     ELSE [old[q] EXCEPT !.missed = @ \/ ~Answers(file, ctx, now, old[q].flags), !.moved = @ \/ ctx # context]]

RunStep(r, changes) == runs' = [runs EXCEPT ![r] = changes]

\* main: the flags are checked; accessToken looks into the cache or asks for a token.
StartPlugin(r) ==
  \E f \in PluginFlags[r] :
    /\ runs[r].pc = "new"
    /\ RunStep(r, [NoRun(r) EXCEPT !.flags = f,
                             !.pc = IF f.edge /\ "" \in {f.project, f.location, f.cluster} THEN "failed"
                                    ELSE IF UseCache(f) THEN "cache" ELSE "token",
                             !.missed = ~Answers(cacheFile, context, clock, f)])
    /\ UNCHANGED <<clock, context, cacheFile, plugBudget>>

\* getCachedGcloudAccessToken: the file is read and the expiry compared.
ReadCache(r) ==
  /\ runs[r].pc = "cache"
  /\ RunStep(r, IF cacheFile.token # NoToken /\ StillValid(cacheFile)
                THEN [runs[r] EXCEPT !.entry = cacheFile, !.at = clock, !.pc = "context"]
                ELSE [runs[r] EXCEPT !.pc = "token"])
  /\ UNCHANGED <<clock, context, cacheFile, plugBudget>>

\* Then the kubeconfig is read, which may fail, and context and arguments are compared.
CheckContext(r) ==
  LET c == runs[r].entry
      f == runs[r].flags
  IN /\ runs[r].pc = "context"
     /\ UNCHANGED <<clock, context, cacheFile>>
     /\ \/ /\ RunStep(r, IF SameContextAndArgs(c, f)
                      THEN [runs[r] EXCEPT !.token = c.token, !.cached = context, !.pc = "printed"]
                      ELSE [runs[r] EXCEPT !.entry = NoEntry, !.at = 0, !.pc = "token"])
           /\ UNCHANGED plugBudget
        \/ /\ PlugFault
           /\ RunStep(r, [runs[r] EXCEPT !.entry = NoEntry, !.at = 0, !.missed = TRUE, !.pc = "token"])

-----------------------------------------------------------------------------
\* gcloud, or the default credentials, issue a token for the arguments.  The token
\* of the environment has no expiry.
IssuedToken(f, life) ==
  [args |-> GcloudArgs(f), context |-> context,
   expiry |-> IF ProviderKind(f) = "gcloud" /\ f.env THEN 0 ELSE Expiry(life)]

\* token(): the default credentials are tried again, the others once.
GetToken(r) ==
  /\ runs[r].pc = "token"
  /\ UNCHANGED <<clock, context, cacheFile>>
  /\ \/ \E life \in Lives :
          LET t == IssuedToken(runs[r].flags, life)
          IN /\ RunStep(r, [runs[r] EXCEPT !.token = t, !.moved = FALSE,
                           !.pc = IF UseCache(runs[r].flags) /\ t.expiry # 0 THEN "config" ELSE "printed"])
             /\ UNCHANGED plugBudget
     \/ /\ ~(ProviderKind(runs[r].flags) = "gcloud" /\ runs[r].flags.env)
        /\ PlugFault
        /\ RunStep(r, IF ProviderKind(runs[r].flags) = "default" /\ runs[r].tries + 1 < DefaultTries
                   THEN [runs[r] EXCEPT !.tries = @ + 1]
                   ELSE [runs[r] EXCEPT !.pc = "failed"])

\* writeGcloudAccessTokenToCache reads the kubeconfig again.
NewEntry(r) ==
  [context |-> context, token |-> runs[r].token, args |-> ExtraArgs(runs[r].flags), moved |-> runs[r].moved]

MakeEntry(r) ==
  /\ runs[r].pc = "config"
  /\ UNCHANGED <<clock, context, cacheFile>>
  /\ \/ RunStep(r, [runs[r] EXCEPT !.entry = NewEntry(r), !.pc = "write"]) /\ UNCHANGED plugBudget
     \/ PlugFault /\ RunStep(r, [runs[r] EXCEPT !.pc = "printed"])

\* writeCacheFile replaces the file at once or not at all; an error is only logged.
WriteCacheFile(r) ==
  /\ runs[r].pc = "write"
  /\ UNCHANGED <<clock, context>>
  /\ \/ cacheFile' = runs[r].entry /\ UNCHANGED plugBudget
     \/ PlugFault /\ UNCHANGED cacheFile
  /\ runs' = Noted([runs EXCEPT ![r].pc = "printed", ![r].entry = NoEntry], cacheFile', context, clock)

-----------------------------------------------------------------------------
\* The world outside.
UseContext ==
  /\ plugBudget.switches < MaxSwitches
  /\ plugBudget' = [plugBudget EXCEPT !.switches = @ + 1]
  /\ context' \in Contexts \ {context}
  /\ runs' = Noted(runs, cacheFile, context', clock)
  /\ UNCHANGED <<clock, cacheFile>>

LoseFile == /\ PlugFault /\ cacheFile # NoEntry
            /\ cacheFile' = NoEntry
            /\ runs' = Noted(runs, NoEntry, context, clock)
            /\ UNCHANGED <<clock, context>>

PlugTick == /\ Tick /\ UNCHANGED <<context, cacheFile, plugBudget>>
            /\ runs' = Noted(runs, cacheFile, context, clock')

PlugNext == \/ UseContext \/ LoseFile \/ PlugTick
            \/ \E r \in PluginRuns : \/ StartPlugin(r) \/ ReadCache(r) \/ CheckContext(r)
                                     \/ GetToken(r) \/ MakeEntry(r) \/ WriteCacheFile(r)

-----------------------------------------------------------------------------
FromCache(r) == runs[r].pc = "printed" /\ runs[r].cached # ""

\* A process that prints a token of the cache prints one that was issued for its own
\* account, project and cluster, that had ten seconds left when the cache was looked
\* at, and that was issued in the context the process is in, unless the context was
\* changed while the writer waited for the token: the kubeconfig is read afterwards.
CachedTokenFits ==
  \A r \in PluginRuns :
    FromCache(r) => /\ runs[r].token.args = GcloudArgs(runs[r].flags)
                    /\ runs[r].token.expiry >= runs[r].at + Skew
                    /\ runs[r].entry.moved \/ runs[r].token.context = runs[r].cached

\* A process asks gcloud for a new token only if at some moment since it started the
\* file did not answer it: what one process writes, the next one with the same
\* arguments and context finds.
CacheIsUsed ==
  \A r \in PluginRuns :
    runs[r].pc = "token" /\ UseCache(runs[r].flags) => runs[r].missed

\* The cache file gives a process neither a token that does not fit it nor a reason
\* to ask for one that is there.
PluginCacheWorks == CachedTokenFits /\ CacheIsUsed
=============================================================================
