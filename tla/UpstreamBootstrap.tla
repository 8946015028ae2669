-------------------------- MODULE UpstreamBootstrap --------------------------
(***************************************************************************)
(* UpstreamClient.connect: handshake and tool list, then the bootstrap of   *)
(* the chain and of the operator's signer on the wallet agent, before main  *)
(* serves the host; then the host's own chain calls and the shutdown.       *)
(*                                                                          *)
(* Each await races an answer with a timer.  A request whose timer fired    *)
(* may still be carried out, and a tool that refuses answers with isError,  *)
(* which does not reject the call.                                          *)
(*                                                                          *)
(* Left out: main's own audit records (if one throws the process exits) and *)
(* the captured stderr.                                                     *)
(***************************************************************************)
EXTENDS Naturals, Sequences

CONSTANTS
  HostAdds,      \* add_custom_chain calls of the host that pass the gates
  HostSwitches   \* and its switch_chain calls

ChainOps  == <<"add_custom_chain", "switch_chain">>
SignerOps == <<"import_private_key", "set_wallet_type">>
Ops(block) == IF block = "chain" THEN ChainOps ELSE SignerOps

BootstrapOps == {"add_custom_chain", "switch_chain",
                 "import_private_key", "set_wallet_type"}
HostCalls == HostAdds \cup HostSwitches
Requests == BootstrapOps \cup HostCalls

EnvNames == {"COMPASS_UPSTREAM_SIGNER_KEY", "MONAD_DEPLOYER_PRIVATE_KEY"}

ASSUME HostCallsAreOthers == HostCalls \cap BootstrapOps = {}

VARIABLES
  env,        \* env[n]: the variable n of the proxy's environment
  guarded,    \* the guarded pipeline is configured
  phase,      \* where connect is
  block,      \* bootstrapMonadChain: the try block it is in (0 outside)
  step,       \* and the call of that block it awaits
  tools,      \* the cached tool list
  connected,  \* UpstreamState.connected
  completed,  \* the flags chainReady and signerProvisioned that are set
  serving,    \* main has started the host-facing server
  status,     \* status[r]: what became of request r
  wallet,     \* the wallet agent's wallet
  network,    \* the chain it is on
  alive       \* its process runs

client == <<phase, block, step, tools, connected, completed>>
agent  == <<wallet, network, alive>>
config == <<env, guarded>>
vars == <<env, guarded, phase, block, step, tools, connected, completed, serving,
          status, wallet, network, alive>>

-----------------------------------------------------------------------------
(* What the environment says of the signer. *)

(* bootstrapMonadChain: one || the other, where "" counts as missing. *)
HasSigner == \E n \in EnvNames : env[n] = "set"

(* buildUpstreamEnv: one ?? the other, where "" counts as given, and is then *)
(* not passed on.                                                            *)
UpstreamHasKey ==
  \/ env["COMPASS_UPSTREAM_SIGNER_KEY"] = "set"
  \/ /\ env["COMPASS_UPSTREAM_SIGNER_KEY"] = "unset"
     /\ env["MONAD_DEPLOYER_PRIVATE_KEY"] = "set"

(* Mutant: the signer is imported before the chain is configured. *)
BlocksSignerFirst == IF HasSigner THEN <<"signer", "chain">> ELSE <<"chain">>

(* The try blocks of bootstrapMonadChain, in order. *)
Blocks == IF HasSigner THEN <<"chain", "signer">> ELSE <<"chain">>

Init ==
  /\ env \in [EnvNames -> {"unset", "empty", "set"}]
  /\ guarded \in BOOLEAN
  /\ phase = "new"
  /\ block = 0
  /\ step = 0
  /\ tools = "none"
  /\ connected = FALSE
  /\ completed = {}
  /\ serving = FALSE
  /\ status = [r \in Requests |-> "unsent"]
  /\ wallet = "mock"
  /\ network = "default"
  /\ alive \in BOOLEAN

-----------------------------------------------------------------------------
(* connect. *)

Send(r) == status' = [status EXCEPT ![r] = "sent"]

(* The transport is created and the handshake sent. *)
Start ==
  /\ phase = "new"
  /\ phase' = "handshake"
  /\ UNCHANGED <<config, block, step, tools, connected, completed, serving,
                 status, agent>>

ShakeHands ==
  /\ phase = "handshake"
  /\ alive
  /\ phase' = "listing"
  /\ UNCHANGED <<config, block, step, tools, connected, completed, serving,
                 status, agent>>

(* Enters try block b of the bootstrap, or leaves the last one. *)
Enter(b) ==
  IF b <= Len(Blocks)
    THEN /\ phase' = "bootstrap"
         /\ block' = b
         /\ step' = 1
         /\ Send(Ops(Blocks[b])[1])
    ELSE /\ phase' = "returned"
         /\ block' = 0
         /\ step' = 0
         /\ UNCHANGED status

(* The tool list is here: connected, and the bootstrap begins. *)
ListTools ==
  /\ phase = "listing"
  /\ alive
  /\ tools' = "listed"
  /\ connected' = TRUE
  /\ Enter(1)
  /\ UNCHANGED <<config, completed, serving, agent>>

(* Mutant: nothing races the handshake and the listing. *)
ConnectFailsWithoutTimer ==
  /\ phase \in {"new", "handshake", "listing"}
  /\ ~alive
  /\ connected' = FALSE
  /\ phase' = "returned"
  /\ UNCHANGED <<config, block, step, tools, completed, serving, status, agent>>

(* The factory throws, an await rejects or its timer fires: the catch block. *)
ConnectFails ==
  /\ phase \in {"new", "handshake", "listing"}
  /\ connected' = FALSE
  /\ phase' = "returned"
  /\ UNCHANGED <<config, block, step, tools, completed, serving, status, agent>>

Awaited == Ops(Blocks[block])[step]

(* The awaited call resolves, with a result or with isError. *)
Resolved ==
  /\ phase = "bootstrap"
  /\ status[Awaited] \in {"ok", "refused"}
  /\ IF step < Len(Ops(Blocks[block]))
       THEN /\ step' = step + 1
            /\ Send(Ops(Blocks[block])[step + 1])
            /\ UNCHANGED <<phase, block, completed>>
       ELSE /\ completed' = completed \cup {Blocks[block]}
            /\ Enter(block + 1)
  /\ UNCHANGED <<config, tools, connected, serving, agent>>

(* Mutant: each call has a try block of its own. *)
RejectedGoesOn ==
  /\ phase = "bootstrap"
  /\ IF step < Len(Ops(Blocks[block]))
       THEN /\ step' = step + 1
            /\ Send(Ops(Blocks[block])[step + 1])
            /\ UNCHANGED <<phase, block, completed>>
       ELSE Enter(block + 1) /\ UNCHANGED completed
  /\ UNCHANGED <<config, tools, connected, serving, agent>>

(* Mutant: the flag is set in a finally block. *)
RejectedSetsFlag ==
  /\ phase = "bootstrap"
  /\ completed' = completed \cup {Blocks[block]}
  /\ Enter(block + 1)
  /\ UNCHANGED <<config, tools, connected, serving, agent>>

(* It rejects: an error, a closed connection, the timer.  The rest of the   *)
(* block is skipped, its flag stays FALSE.                                  *)
Rejected ==
  /\ phase = "bootstrap"
  /\ Enter(block + 1)
  /\ UNCHANGED <<config, tools, connected, completed, serving, agent>>

-----------------------------------------------------------------------------
(* main. *)

Serve ==
  /\ ~serving
  /\ phase = "returned"
  /\ serving' = TRUE
  /\ UNCHANGED <<config, client, status, agent>>

(* The host's call has passed the gates.  Chain management is default-block, *)
(* so only the guarded pipeline ever forwards it.                            *)
HostChainCall(h) ==
  /\ serving
  /\ guarded
  /\ connected
  /\ status[h] = "unsent"
  /\ Send(h)
  /\ UNCHANGED <<config, client, serving, agent>>

(* SIGINT: the transport is closed, which ends the wallet agent. *)
Shutdown ==
  /\ serving
  /\ connected' = FALSE
  /\ alive' = FALSE
  /\ UNCHANGED <<config, phase, block, step, tools, completed, serving, status,
                 wallet, network>>

-----------------------------------------------------------------------------
(* The wallet agent, as upstreamClient.ts:174-207 describes it. *)

ChainCall(r) == r \in {"add_custom_chain", "switch_chain"} \cup HostCalls

(* import_private_key reads the key from the agent's own environment. *)
CanExecute(r) ==
  /\ r = "import_private_key" => UpstreamHasKey
  /\ r = "set_wallet_type" => wallet # "mock"

(* Both chain tools reset the wallet to mock. *)
Execute(r) ==
  /\ alive
  /\ status[r] = "sent"
  /\ CanExecute(r)
  /\ status' = [status EXCEPT ![r] = "ok"]
  /\ wallet' = CASE ChainCall(r)             -> "mock"
                 [] r = "import_private_key" -> "imported"
                 [] r = "set_wallet_type"    -> "privateKey"
  /\ network' = IF r \in {"switch_chain"} \cup HostSwitches THEN "monad" ELSE network
  /\ UNCHANGED <<config, client, serving, alive>>

Refuse(r) ==
  /\ alive
  /\ status[r] = "sent"
  /\ status' = [status EXCEPT ![r] = "refused"]
  /\ UNCHANGED <<config, client, serving, agent>>

Die ==
  /\ alive
  /\ alive' = FALSE
  /\ UNCHANGED <<config, client, serving, status, wallet, network>>

-----------------------------------------------------------------------------
Connecting == Start \/ ShakeHands \/ ListTools \/ ConnectFails

Bootstrapping == Resolved \/ Rejected

Next ==
  \/ Connecting
  \/ Bootstrapping
  \/ Serve
  \/ Shutdown
  \/ Die
  \/ \E r \in Requests : Execute(r) \/ Refuse(r)
  \/ \E h \in HostCalls : HostChainCall(h)

Spec == Init /\ [][Next]_vars

(* Timers end every await of connect (connectTimeoutMs) and of the bootstrap *)
(* (callTimeoutMs).  The wallet agent owes nothing.                          *)
Fairness ==
  /\ WF_vars(Start)
  /\ WF_vars(ConnectFails)
  /\ WF_vars(Bootstrapping)
  /\ WF_vars(Serve)

FairSpec == Spec /\ Fairness

-----------------------------------------------------------------------------
(* Properties. *)

(* Every variable keeps its shape. *)
TypeOK ==
  /\ env \in [EnvNames -> {"unset", "empty", "set"}]
  /\ guarded \in BOOLEAN
  /\ phase \in {"new", "handshake", "listing", "bootstrap", "returned"}
  /\ block \in 0 .. Len(Blocks)
  /\ step \in 0 .. 2
  /\ block = 0 <=> phase # "bootstrap"
  /\ step = 0 <=> phase # "bootstrap"
  /\ tools \in {"none", "listed"}
  /\ connected \in BOOLEAN
  /\ completed \subseteq {"chain", "signer"}
  /\ serving \in BOOLEAN
  /\ status \in [Requests -> {"unsent", "sent", "ok", "refused"}]
  /\ wallet \in {"mock", "imported", "privateKey"}
  /\ network \in {"default", "monad"}
  /\ alive \in BOOLEAN

(* When both flags are set, no tool refused and the host has not touched    *)
(* the chain, the agent is on Monad and signs with the operator's key,      *)
(* although each chain call resets the wallet (upstreamClient.ts:177).      *)
QuietBootstrapProvisions ==
  /\ completed = {"chain", "signer"}
  /\ \A op \in BootstrapOps : status[op] = "ok"
  /\ \A h \in HostCalls : status[h] # "ok"
  => network = "monad" /\ wallet = "privateKey"

(* A flag is set only after all calls of its block were answered, and the   *)
(* signer's only when there is one to provision.                            *)
FlagsAreEarned ==
  /\ \A b \in completed : \A i \in DOMAIN Ops(b) :
       status[Ops(b)[i]] \in {"ok", "refused"}
  /\ "signer" \in completed => HasSigner

(* The operator's wallet, once selected, is lost only to a call of the host *)
(* or to a chain call the bootstrap had given up on.                        *)
SignerLostOnlyToLateOrHostCalls ==
  [][wallet = "privateKey" /\ wallet' # "privateKey" =>
       \/ \E h \in HostCalls : status[h] = "sent" /\ status'[h] = "ok"
       \/ "chain" \notin completed]_vars

(* connected is set before the bootstrap (upstreamClient.ts:119), but no    *)
(* call of the host falls into it.                                          *)
HostWaitsForBootstrap ==
  (\E h \in HostCalls : status[h] # "unsent") => phase = "returned"

(* Whatever the wallet agent does or fails to do, the host is served.       *)
HostIsServed == <>serving

=============================================================================
