---------------------------- MODULE ToolExposure ----------------------------
(***************************************************************************)
(* Which tools of the wallet agent the host gets to see, and which of its   *)
(* calls get past the registry: the tools/list and tools/call handlers of   *)
(* server.ts, ToolMirror, the bridge to the tool registry, its resolver,    *)
(* and CallInterceptor.plan.                                                *)
(*                                                                          *)
(* The two handlers decide by different ways over the same cached list of   *)
(* descriptors: tools/list goes through all of them and looks their schema  *)
(* up by name in a Map, tools/call looks for the first one of that name.    *)
(* The cache is filled by the one connect and outlives the connection.      *)
(*                                                                          *)
(* A call that is admitted goes on in GuardedPipeline.                      *)
(***************************************************************************)
EXTENDS Naturals, Sequences

CONSTANTS
  Calls,         \* tools/call requests of the host
  Names,         \* tool names, of the wallet agent or made up by the host
  Registered,    \* names in WALLET_AGENT_REGISTRY
  DefaultAllow,  \* those of them with default_decision "allow"
  Unsupported,   \* names in UNSUPPORTED_CAPABILITIES
  KeyNames,      \* names that speak of key material
  DangerNames,   \* names that match DANGEROUS_TOOL_PATTERNS
  MetaNames,     \* compass_status, compass_audit_events
  MaxTools,      \* bound: descriptors in the upstream's list
  None           \* no tool

ASSUME NamesAreSorted ==
  /\ DefaultAllow \subseteq Registered
  /\ Registered \cup Unsupported \cup KeyNames \cup DangerNames \cup MetaNames
       \subseteq Names
  /\ Registered \cap MetaNames = {}
  /\ None \notin Names
  /\ MaxTools \in Nat

VARIABLES
  guarded,    \* whether the guarded runner could be built
  link,       \* "starting", "up", "failed" (connect did not succeed), "closed"
  tools,      \* toolDescriptors of the UpstreamClient
  hostTools,  \* the tools/list answer the host works with
  asked,      \* per call: the tool it names
  answer      \* per call: "none", "meta", "admitted" or the error code

vars == <<guarded, link, tools, hostTools, asked, answer>>

(* An input schema: hashing to what the registry holds for the tool's name, *)
(* or not, and then with or without fields that speak of key material or    *)
(* match a dangerous pattern.                                               *)
Schemas == {"registered", "drifted", "keyFields", "dangerFields"}

(* What withInputSchemaHash keeps of a tool in the upstream's list. *)
Descriptor == [name : Names, schema : Schemas]

(* The codes a call is refused with on account of the registry. *)
RegistryRefusals == {"UNSUPPORTED_TOOL", "PRIVATE_KEY_MANAGEMENT_BLOCKED",
                     "DANGEROUS_TOOL_BLOCKED", "UNMAPPED_TOOL", "SCHEMA_DRIFT"}

(* createPolicySourceConfig and main: the runner needs an RPC URL and a     *)
(* policy address that is well-formed; without it the proxy falls back.     *)
BuildsRunner(address, hasRpcUrl) == hasRpcUrl /\ address = "wellFormed"

Init ==
  /\ \E address \in {"unset", "malformed", "wellFormed"}, hasRpcUrl \in BOOLEAN :
       guarded = BuildsRunner(address, hasRpcUrl)
  /\ link = "starting"
  /\ tools = <<>>
  /\ hostTools = {}
  /\ asked = [c \in Calls |-> None]
  /\ answer = [c \in Calls |-> "none"]

-----------------------------------------------------------------------------
(* The registry. *)

(* classifyBlockedTool, its first half. *)
SpeaksOfKeys(name, schema) == name \in KeyNames \/ schema = "keyFields"

(* resolveToolDescriptor: "visible" or the reason why not.  A tool without  *)
(* a schema has schema "absent".                                            *)
Resolve(name, schema) ==
  IF name \in Unsupported THEN "UNSUPPORTED_TOOL"
  ELSE IF SpeaksOfKeys(name, schema) THEN "PRIVATE_KEY_MANAGEMENT_BLOCKED"
  ELSE IF name \notin Registered
    THEN IF name \in DangerNames \/ schema = "dangerFields"
           THEN "DANGEROUS_TOOL_BLOCKED" ELSE "UNMAPPED_TOOL"
  ELSE IF schema # "registered" THEN "SCHEMA_DRIFT"
  ELSE "visible"

-----------------------------------------------------------------------------
(* tools/list. *)

(* Mutant: every visible tool is exposed, policy contract or not. *)
ExposedAlways(i) ==
  Resolve(tools[i].name, tools[i].schema) = "visible"

(* Mutant: the policy-free rule stays in force when a policy gates calls. *)
ExposedByDefaultOnly(i) ==
  /\ Resolve(tools[i].name, tools[i].schema) = "visible"
  /\ tools[i].name \in DefaultAllow

(* The descriptors that survive filterHostExposedTools. *)
Exposed(i) ==
  /\ Resolve(tools[i].name, tools[i].schema) = "visible"
  /\ guarded \/ tools[i].name \in DefaultAllow

(* descriptorByName: the last descriptor of a name wins. *)
LastOf(name) ==
  CHOOSE i \in DOMAIN tools :
    /\ tools[i].name = name
    /\ \A j \in DOMAIN tools : tools[j].name = name => j <= i

(* Mutant: the list is what the upstream sent. *)
HostListUnfiltered == {tools[i] : i \in DOMAIN tools}

(* ToolMirror.exposedTools: the host is shown the schema under that name. *)
HostList ==
  {[name |-> tools[i].name, schema |-> tools[LastOf(tools[i].name)].schema] :
     i \in {j \in DOMAIN tools : Exposed(j)}}

(* The handler of tools/list.  When its audit event cannot be written the   *)
(* host gets an error and keeps the list it has.                            *)
ServeList ==
  /\ link # "starting"
  /\ hostTools' = HostList
  /\ UNCHANGED <<guarded, link, tools, asked, answer>>

-----------------------------------------------------------------------------
(* tools/call. *)

Connected == link = "up"

(* getUpstreamToolDescriptor: the first descriptor of that name. *)
Described(name) == \E i \in DOMAIN tools : tools[i].name = name
FirstOf(name) ==
  CHOOSE i \in DOMAIN tools :
    /\ tools[i].name = name
    /\ \A j \in DOMAIN tools : tools[j].name = name => i <= j

(* Mutant: a tool without a descriptor is simply drifted. *)
ResolveForCallNoOutage(name) ==
  Resolve(name, IF Described(name) THEN tools[FirstOf(name)].schema ELSE "absent")

(* Mutant: during an outage every unknown name is waved through. *)
ResolveForCallWaves(name) ==
  IF Described(name) THEN Resolve(name, tools[FirstOf(name)].schema)
  ELSE IF ~Connected THEN "visible"
  ELSE Resolve(name, "absent")

(* resolveToolForCall: without a connection a registered tool that has no   *)
(* descriptor counts as visible, so that the call is refused as unavailable *)
(* and not as drifted.                                                      *)
ResolveForCall(name) ==
  IF Described(name) THEN Resolve(name, tools[FirstOf(name)].schema)
  ELSE IF ~Connected /\ Resolve(name, "absent") = "SCHEMA_DRIFT" THEN "visible"
  ELSE Resolve(name, "absent")

(* CallInterceptor.plan lets the call through. *)
PlanForwards(name) ==
  /\ ResolveForCall(name) = "visible"
  /\ guarded \/ name \in DefaultAllow

(* The end of the handler for what it answers without awaiting anything. *)
Answers(c, name, result) ==
  /\ link # "starting"
  /\ answer[c] = "none"
  /\ asked' = [asked EXCEPT ![c] = name]
  /\ answer' = [answer EXCEPT ![c] = result]
  /\ UNCHANGED <<guarded, link, tools, hostTools>>

(* server.ts answers the meta tools itself. *)
CallMeta(c, name) ==
  /\ name \in MetaNames
  /\ Answers(c, name, "meta")

(* The arguments are no object or too large: refused before anything else.  *)
CallMalformed(c, name) ==
  /\ name \notin MetaNames
  /\ Answers(c, name, "MISSING_REQUIRED_EVIDENCE")

CallRefusedByRegistry(c, name) ==
  /\ name \notin MetaNames
  /\ ResolveForCall(name) # "visible"
  /\ Answers(c, name, ResolveForCall(name))

CallRefusedByDefault(c, name) ==
  /\ name \notin MetaNames
  /\ ResolveForCall(name) = "visible"
  /\ ~PlanForwards(name)
  /\ Answers(c, name, "POLICY_BLOCKED")

CallUnavailable(c, name) ==
  /\ name \notin MetaNames
  /\ PlanForwards(name)
  /\ ~Connected
  /\ Answers(c, name, "UPSTREAM_UNAVAILABLE")

CallAdmitted(c, name) ==
  /\ name \notin MetaNames
  /\ PlanForwards(name)
  /\ Connected
  /\ Answers(c, name, "admitted")

(* An event of the call cannot be written: server.ts answers for it. *)
CallUnaudited(c, name) ==
  /\ name \notin MetaNames
  /\ Answers(c, name, "INTERNAL_ERROR")

-----------------------------------------------------------------------------
(* The connection. *)

(* The one connect lists the upstream's tools, whatever they are.  main     *)
(* serves the host only after it.                                           *)
Connect ==
  /\ link = "starting"
  /\ \E n \in 0 .. MaxTools : tools' \in [1 .. n -> Descriptor]
  /\ link' = "up"
  /\ UNCHANGED <<guarded, hostTools, asked, answer>>

ConnectFails ==
  /\ link = "starting"
  /\ link' = "failed"
  /\ UNCHANGED <<guarded, tools, hostTools, asked, answer>>

(* shutdown ends the connection and keeps the descriptors. *)
Shutdown ==
  /\ link = "up"
  /\ link' = "closed"
  /\ UNCHANGED <<guarded, tools, hostTools, asked, answer>>

Call(c, name) ==
  \/ CallMeta(c, name)
  \/ CallMalformed(c, name)
  \/ CallRefusedByRegistry(c, name)
  \/ CallRefusedByDefault(c, name)
  \/ CallUnavailable(c, name)
  \/ CallAdmitted(c, name)
  \/ CallUnaudited(c, name)

Next ==
  \/ Connect
  \/ ConnectFails
  \/ Shutdown
  \/ ServeList
  \/ \E c \in Calls, name \in Names : Call(c, name)

Spec == Init /\ [][Next]_vars

-----------------------------------------------------------------------------
(* Properties. *)

(* Every variable keeps its shape. *)
TypeOK ==
  /\ guarded \in BOOLEAN
  /\ link \in {"starting", "up", "failed", "closed"}
  /\ tools \in Seq(Descriptor)
  /\ hostTools \subseteq Descriptor
  /\ asked \in [Calls -> Names \cup {None}]
  /\ answer \in [Calls -> RegistryRefusals \cup
                   {"none", "meta", "admitted", "POLICY_BLOCKED", "INTERNAL_ERROR",
                    "UPSTREAM_UNAVAILABLE", "MISSING_REQUIRED_EVIDENCE"}]

UniqueNames == \A i, j \in DOMAIN tools : tools[i].name = tools[j].name => i = j

(* Nothing gets past the registry that tools/list would not show: the two   *)
(* ways to a decision never let a hidden tool be called, even if the        *)
(* upstream lists a name twice (toolSemanticsBridge.ts:84-97, :106-131).    *)
AdmittedIsExposed ==
  \A c \in Calls :
    answer[c] = "admitted" =>
      \E i \in DOMAIN tools : tools[i].name = asked[c] /\ Exposed(i)

(* And the other way round: a tool the host has been shown is not refused   *)
(* by the registry or the default decision later on, whatever has happened  *)
(* to the connection since.  Needs a list without duplicates: of two        *)
(* descriptors of one name the list takes any, the call the first.          *)
ListedIsCallable ==
  [][UniqueNames =>
       \A c \in Calls :
         answer[c] # answer'[c] /\ (\E d \in hostTools : d.name = asked'[c])
           => answer'[c] \notin RegistryRefusals \cup {"POLICY_BLOCKED"}]_vars

(* The schema the host is shown is the one the registry was written for,    *)
(* again if no name is listed twice (otherwise the Map holds the last).     *)
ShownAsRegistered ==
  UniqueNames =>
    \A d \in hostTools : d.name \in Registered /\ d.schema = "registered"

(* Connected or not, only registered tools get as far as the connection,    *)
(* and without a policy contract only default-allow ones: the exception for *)
(* outages makes no other name pass (toolSemanticsBridge.ts:117-128).       *)
OutageWidensNothing ==
  \A c \in Calls :
    answer[c] \in {"admitted", "UPSTREAM_UNAVAILABLE"} =>
      /\ asked[c] \in Registered
      /\ ~guarded => asked[c] \in DefaultAllow

(* A host is told of schema drift only if the upstream's own list says so:  *)
(* not while no list has been fetched.  A list that lacks a registered tool *)
(* says so too.                                                             *)
DriftIsReported ==
  \A c \in Calls :
    answer[c] = "SCHEMA_DRIFT" =>
      /\ link \in {"up", "closed"}
      /\ \A i \in DOMAIN tools :
           tools[i].name = asked[c] /\ tools[i].schema = "registered"
             => \E j \in 1 .. i : tools[j].name = asked[c] /\ tools[j].schema # "registered"

=============================================================================
