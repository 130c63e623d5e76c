------------------------------ MODULE MCParts ------------------------------
(***************************************************************************)
(* TLC instances of the parts that share no state with the others: the     *)
(* CidrSet and its address arithmetic, the start of the controllers, and   *)
(* the credential helpers.  A behaviour is about one of them, chosen at    *)
(* the start.                                                              *)
(***************************************************************************)
EXTENDS CidrSet, CidrBlocks, IpamStartup, AuthPlugin, TokenSource, RegistryAuth, TLC

VARIABLE part

-----------------------------------------------------------------------------
\* Processes of the plugin with other accounts and other providers.
Flags(account) == [edge |-> FALSE, default |-> FALSE, env |-> FALSE, project |-> "", account |-> account,
                   impersonate |-> "", cluster |-> "", location |-> ""]
MCPluginFlags ==
  [r \in PluginRuns |->
     {Flags(""), Flags("me")}
     \cup IF r = "r1" THEN {[Flags("") EXCEPT !.env = TRUE], [Flags("") EXCEPT !.default = TRUE],
                            [Flags("") EXCEPT !.edge = TRUE, !.project = "p", !.cluster = "c", !.location = "l"]}
          ELSE {}]
\* A source that runs a command, and one that is misconfigured.
Source(cmd, scopes) == [cmd |-> cmd, path |-> IF cmd THEN "gcloud" ELSE "", scopes |-> scopes, saved |-> NoPair]
MCSourceConfigs == {Source(TRUE, ""), Source(TRUE, "storage")}
\* Calls for registry credentials with good and bad metadata, and searches for files.
Get(flow) == [op |-> "get", flow |-> flow]
Cached(flow) == [op |-> "cached", flow |-> flow]
AskFor(op) == [op |-> op, flow |-> ""]
Metadata == [account |-> TRUE, scopes |-> {"storage"}, dockercfg |-> "config", url |-> "http", target |-> "config",
             cacheAll |-> FALSE, envOk |-> TRUE]
AuthScene(m, json, first, second, changes) ==
  [meta |-> m, files |-> [json |-> json, legacy |-> <<FALSE, TRUE>>], faults |-> 1, changes |-> changes,
   calls |-> ("c1" :> first) @@ ("c2" :> second)]
MCAuthScenes ==
  {AuthScene([Metadata EXCEPT !.cacheAll = all, !.url = IF all THEN "gs" ELSE "http"], <<>>, <<Cached("gcr"), Cached(flow)>>, <<Cached(flow)>>, 0) :
     all \in BOOLEAN, flow \in {"gcr", "dockercfg", "dockercfg-url"}}
  \cup {AuthScene(m, <<>>, <<AskFor("enabled")>>, <<Get("gcr"), Get("dockercfg"), Get("dockercfg-url"), Get("other")>>, 0) :
          m \in {Metadata, [Metadata EXCEPT !.envOk = FALSE, !.dockercfg = "garbage", !.target = "garbage"],
                 [Metadata EXCEPT !.url = "gs", !.scopes = {"other"}], [Metadata EXCEPT !.account = FALSE]}}
  \cup {AuthScene(Metadata, json, <<AskFor("file")>>, <<AskFor("file")>>, 2) : json \in {<<FALSE, FALSE>>, <<FALSE, TRUE>>}}

\* Command lines: every list of cluster ranges with every mask flag, every list of service ranges.
Line(clusters, masks, services, type) ==
  [allocate |-> TRUE, gnp |-> type = "CloudAllocator", type |-> type, clusters |-> clusters, services |-> services,
   mask |-> masks[1], mask4 |-> masks[2], mask6 |-> masks[3]]
V4 == Net(4, 14)
V6 == Net(6, 48)
S4 == Net(4, 20)
S6 == Net(6, 60)
Types == {"RangeAllocator", "CloudAllocator", "IPAMFromCluster", "IPAMFromCloud", "Other"}
MCBootFlags ==
  {Line(c, m, <<S4>>, t) :
     c \in {<<Unset>>, <<V4, Malformed>>, <<V4>>, <<V6>>, <<V4, V6>>, <<V6, V4>>, <<V4, V4>>, <<V4, V6, V4>>},
     m \in {<<0, 0, 0>>, <<24, 0, 0>>, <<12, 0, 0>>, <<0, 14, 40>>, <<24, 26, 0>>}, t \in Types}
  \cup {Line(c, <<0, 0, 66>>, s, t) :
          c \in {<<V4>>, <<V6>>, <<V4, V6>>}, t \in Types,
          s \in {<<Unset>>, <<Malformed>>, <<V4>>, <<S6>>, <<S4, S6>>, <<S6, S4>>, <<S4, S4>>, <<Malformed, S6>>,
                 <<S4, S6, S4>>}}
  \cup {[Line(<<V4>>, <<0, 0, 0>>, <<S4>>, "RangeAllocator") EXCEPT !.allocate = FALSE]}

-----------------------------------------------------------------------------
setVars == <<cs, reply, waiting>>
tokenVars == <<clock, plugVars, srcVars, authVars>>

\* One part moves; the others rest in one of their initial states.
RestBlocks == CHOOSE s \in NewCIDRSets : TRUE
RestFlags == Line(<<V4>>, <<0, 0, 0>>, <<S4>>, "RangeAllocator")
RestAuth == AuthScene(Metadata, <<>>, <<>>, <<>>, 0)
MCInit ==
  /\ part \in {"set", "blocks", "start-up", "auth plugin", "token source", "registry"}
  /\ ObservedInit
  /\ BlocksInit /\ (part = "blocks" \/ set = RestBlocks)
  /\ BootInit /\ (part = "start-up" \/ (flags = RestFlags /\ nodes = [n \in BootNodes |-> "gone"]))
  /\ PlugInit /\ context = "k1"
  /\ SrcInit /\ (part = "token source" \/ config = Source(TRUE, ""))
  /\ IF part = "registry" THEN \E s \in AuthScenes : AuthInit(s) ELSE AuthInit(RestAuth)

MCNext ==
  /\ UNCHANGED part
  /\ \/ part = "set" /\ ObservedNext /\ UNCHANGED <<blockVars, bootVars, tokenVars>>
     \/ part = "blocks" /\ BlocksNext /\ UNCHANGED <<setVars, bootVars, tokenVars>>
     \/ part = "start-up" /\ BootNext /\ UNCHANGED <<setVars, blockVars, tokenVars>>
     \/ part = "auth plugin" /\ PlugNext /\ UNCHANGED <<setVars, blockVars, bootVars, srcVars, authVars>>
     \/ part = "token source" /\ SrcNext /\ UNCHANGED <<setVars, blockVars, bootVars, plugVars, authVars>>
     \/ part = "registry" /\ AuthNext /\ UNCHANGED <<setVars, blockVars, bootVars, plugVars, srcVars>>

MCSpec == MCInit /\ [][MCNext]_<<part, setVars, blockVars, bootVars, tokenVars>>
=============================================================================
