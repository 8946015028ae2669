----------------------- MODULE UpstreamBootstrapProofs -----------------------
(***************************************************************************)
(* What holds of the bootstrap of the wallet agent, whatever it answers,    *)
(* however late, and whatever chain calls the host makes.                   *)
(*                                                                          *)
(* The wallet a host ends up signing with depends on the order in which     *)
(* four requests were carried out, of which any may have been given up on   *)
(* and still be carried out later.  BootInv says which requests are still   *)
(* unsent and which are answered at each point of the bootstrap (SentInv),  *)
(* what a flag stands for (EarnedInv), and from that what the wallet and    *)
(* the network are (AgentInv).                                              *)
(***************************************************************************)
EXTENDS UpstreamBootstrap, TLAPS

Unsent(r)   == status[r] = "unsent"
Answered(r) == status[r] \in {"ok", "refused"}

(* Requests leave one by one, in order, each once the one before it in its  *)
(* block is answered.                                                       *)
SentInv ==
  /\ phase \in {"new", "handshake", "listing"} =>
       completed = {} /\ \A op \in BootstrapOps : Unsent(op)
  /\ phase = "bootstrap" /\ block = 1 =>
       completed = {} /\ Unsent("import_private_key") /\ Unsent("set_wallet_type")
  /\ phase = "bootstrap" /\ block = 1 /\ step = 1 => Unsent("switch_chain")
  /\ phase = "bootstrap" /\ block = 1 /\ step = 2 => Answered("add_custom_chain")
  /\ phase = "bootstrap" /\ block = 2 => completed \subseteq {"chain"}
  /\ phase = "bootstrap" /\ block = 2 /\ step = 1 => Unsent("set_wallet_type")
  /\ phase = "bootstrap" /\ block = 2 /\ step = 2 => Answered("import_private_key")
  /\ ~ Unsent("set_wallet_type") => Answered("import_private_key")

(* A flag stands for answers to both calls of its block.                    *)
EarnedInv ==
  /\ "chain" \in completed => Answered("add_custom_chain") /\ Answered("switch_chain")
  /\ "signer" \in completed =>
       HasSigner /\ Answered("import_private_key") /\ Answered("set_wallet_type")

(* The wallet is the operator's only if it was selected, and stays so       *)
(* unless a chain call is carried out afterwards.                           *)
AgentInv ==
  /\ wallet = "privateKey" => status["set_wallet_type"] = "ok"
  /\ status["set_wallet_type"] = "ok" /\ "chain" \in completed
     /\ (\A h \in HostCalls : status[h] # "ok") => wallet = "privateKey"
  /\ status["switch_chain"] = "ok" => network = "monad"

HostInv ==
  /\ serving => phase = "returned"
  /\ HostWaitsForBootstrap

BootInv == TypeOK /\ SentInv /\ EarnedInv /\ AgentInv /\ HostInv

-----------------------------------------------------------------------------
(* The blocks. *)

(* Where a bootstrap can be.                                                *)
LEMMA BlockNames ==
  /\ Blocks[1] = "chain"
  /\ Len(Blocks) = IF HasSigner THEN 2 ELSE 1
  /\ HasSigner => Blocks[2] = "signer"
BY DEF Blocks

(* The calls of a block.                                                    *)
LEMMA OpNames ==
  /\ Ops("chain") = ChainOps /\ Ops("signer") = SignerOps
  /\ Len(ChainOps) = 2 /\ Len(SignerOps) = 2
  /\ ChainOps[1] = "add_custom_chain" /\ ChainOps[2] = "switch_chain"
  /\ SignerOps[1] = "import_private_key" /\ SignerOps[2] = "set_wallet_type"
BY DEF Ops, ChainOps, SignerOps

(* The positions a bootstrap can be in.                                     *)
LEMMA Positions ==
  ASSUME TypeOK, phase = "bootstrap"
  PROVE  /\ block = 1 \/ (block = 2 /\ HasSigner)
         /\ step \in {1, 2}
PROOF
  <1>1. block \in 0 .. Len(Blocks) /\ block # 0 /\ step \in 0 .. 2 /\ step # 0
    BY DEF TypeOK
  <1>2. Len(Blocks) = IF HasSigner THEN 2 ELSE 1
    BY BlockNames
  <1> QED
    BY <1>1, <1>2

(* Entering a block sends its first call; there may be no such block.       *)
LEMMA EnterEffect ==
  ASSUME NEW b \in {1, 2, 3}, Enter(b)
  PROVE  \/ /\ b = 1 /\ phase' = "bootstrap" /\ block' = 1 /\ step' = 1
            /\ status' = [status EXCEPT !["add_custom_chain"] = "sent"]
         \/ /\ b = 2 /\ HasSigner /\ phase' = "bootstrap" /\ block' = 2 /\ step' = 1
            /\ status' = [status EXCEPT !["import_private_key"] = "sent"]
         \/ /\ b = 3 \/ (b = 2 /\ ~ HasSigner)
            /\ phase' = "returned" /\ block' = 0 /\ step' = 0 /\ status' = status
PROOF
  <1>1. Len(Blocks) = IF HasSigner THEN 2 ELSE 1
    BY BlockNames
  <1>2. CASE b = 1
    <2>1. b <= Len(Blocks)
      BY <1>1, <1>2
    <2> QED
      BY <1>2, <2>1, BlockNames, OpNames DEF Enter, Send
  <1>3. CASE b = 2 /\ HasSigner
    <2>1. b <= Len(Blocks)
      BY <1>1, <1>3
    <2> QED
      BY <1>3, <2>1, BlockNames, OpNames DEF Enter, Send
  <1>4. CASE b = 3 \/ (b = 2 /\ ~ HasSigner)
    <2>1. ~ (b <= Len(Blocks))
      BY <1>1, <1>4
    <2> QED
      BY <1>4, <2>1 DEF Enter
  <1> QED
    BY <1>2, <1>3, <1>4

(* The four calls are four, and no host makes them.                         *)
LEMMA OpsAreRequests ==
  /\ BootstrapOps \subseteq Requests /\ HostCalls \subseteq Requests
  /\ \A h \in HostCalls : /\ h # "add_custom_chain" /\ h # "switch_chain"
                          /\ h # "import_private_key" /\ h # "set_wallet_type"
BY HostCallsAreOthers DEF BootstrapOps, Requests

-----------------------------------------------------------------------------
(* The steps. *)

LEMMA BootInit == Init => BootInv
PROOF
  <1> SUFFICES ASSUME Init PROVE BootInv
    OBVIOUS
  <1>1. 0 \in 0 .. Len(Blocks)
    BY BlockNames
  <1>2. TypeOK
    <2>1. block = 0 /\ step = 0 /\ phase = "new" /\ completed = {}
      BY DEF Init
    <2>2. /\ block \in 0 .. Len(Blocks) /\ step \in 0 .. 2
          /\ (block = 0 <=> phase # "bootstrap") /\ (step = 0 <=> phase # "bootstrap")
      BY <1>1, <2>1
    <2> QED
      BY <2>1, <2>2 DEF Init, TypeOK
  <1>3. \A r \in Requests : Unsent(r)
    BY DEF Init, Unsent
  <1>4. Unsent("set_wallet_type") /\ Unsent("switch_chain")
    BY <1>3, OpsAreRequests DEF BootstrapOps
  <1>5. SentInv /\ EarnedInv /\ AgentInv /\ HostInv
    BY <1>3, <1>4, OpsAreRequests
       DEF Init, SentInv, EarnedInv, AgentInv, HostInv, HostWaitsForBootstrap, Unsent
  <1> QED
    BY <1>2, <1>5 DEF BootInv

(* The way to the tool list, short of it.                                   *)
LEMMA ConnectingPreserves ==
  ASSUME BootInv, Start \/ ShakeHands \/ ConnectFails
  PROVE  BootInv'
PROOF
  <1>1. /\ phase \in {"new", "handshake", "listing"}
        /\ phase' \in {"handshake", "listing", "returned"}
        /\ connected' \in BOOLEAN
        /\ env' = env /\ guarded' = guarded /\ block' = block /\ step' = step
        /\ tools' = tools /\ completed' = completed /\ serving' = serving
        /\ status' = status /\ wallet' = wallet /\ network' = network /\ alive' = alive
    BY DEF Start, ShakeHands, ConnectFails, config, agent, BootInv, TypeOK
  <1>2. TypeOK'
    BY <1>1 DEF BootInv, TypeOK, Blocks, HasSigner
  <1>3. SentInv'
    BY <1>1 DEF BootInv, SentInv, Unsent, Answered
  <1>4. EarnedInv' /\ AgentInv' /\ HostInv'
    BY <1>1 DEF BootInv, EarnedInv, AgentInv, HostInv, HostWaitsForBootstrap, HasSigner,
       Answered
  <1> QED
    BY <1>2, <1>3, <1>4 DEF BootInv

(* The host is served, calls, leaves; the wallet agent dies.                *)
LEMMA AroundPreserves ==
  ASSUME BootInv, Serve \/ Shutdown \/ Die \/ UNCHANGED vars
  PROVE  BootInv'
PROOF
  <1>1. /\ phase' = phase /\ env' = env /\ guarded' = guarded /\ block' = block
        /\ step' = step /\ tools' = tools /\ completed' = completed
        /\ status' = status /\ wallet' = wallet /\ network' = network
        /\ connected' \in BOOLEAN /\ alive' \in BOOLEAN /\ serving' \in BOOLEAN
        /\ serving' => phase = "returned"
    <2>1. serving \in BOOLEAN /\ connected \in BOOLEAN /\ alive \in BOOLEAN
          /\ (serving => phase = "returned")
      BY DEF BootInv, TypeOK, HostInv
    <2>2. CASE Serve
      BY <2>1, <2>2 DEF Serve, config, client, agent
    <2>3. CASE Shutdown
      BY <2>1, <2>3 DEF Shutdown, config
    <2>4. CASE Die
      BY <2>1, <2>4 DEF Die, config, client
    <2>5. CASE UNCHANGED vars
      BY <2>1, <2>5 DEF vars
    <2> QED
      BY <2>2, <2>3, <2>4, <2>5
  <1>2. TypeOK'
    BY <1>1 DEF BootInv, TypeOK, Blocks, HasSigner
  <1>3. SentInv'
    BY <1>1 DEF BootInv, SentInv, Unsent, Answered
  <1>4. EarnedInv' /\ AgentInv' /\ HostInv'
    BY <1>1 DEF BootInv, EarnedInv, AgentInv, HostInv, HostWaitsForBootstrap, HasSigner,
       Answered
  <1> QED
    BY <1>2, <1>3, <1>4 DEF BootInv

(* The tool list is here: the first call leaves.                            *)
LEMMA ListToolsPreserves ==
  ASSUME BootInv, ListTools
  PROVE  BootInv'
PROOF
  <1>1. /\ phase = "listing" /\ tools' = "listed" /\ connected' = TRUE
        /\ env' = env /\ guarded' = guarded /\ completed' = completed /\ serving' = serving
        /\ wallet' = wallet /\ network' = network /\ alive' = alive
        /\ Enter(1)
    BY DEF ListTools, config, agent
  <1>2. /\ phase' = "bootstrap" /\ block' = 1 /\ step' = 1
        /\ status' = [status EXCEPT !["add_custom_chain"] = "sent"]
    BY <1>1, EnterEffect
  <1>3. TypeOK
    BY DEF BootInv
  <1>4. \A r \in Requests : r # "add_custom_chain" => status'[r] = status[r]
    BY <1>2, <1>3 DEF TypeOK
  <1>5. status' \in [Requests -> {"unsent", "sent", "ok", "refused"}]
    BY <1>2, <1>3 DEF TypeOK
  <1>6. 1 \in 0 .. Len(Blocks)'
    BY <1>1, BlockNames DEF Blocks, HasSigner
  <1>7. TypeOK'
    BY <1>1, <1>2, <1>3, <1>5, <1>6 DEF TypeOK
  <1>8. /\ completed = {}
        /\ Unsent("switch_chain") /\ Unsent("import_private_key") /\ Unsent("set_wallet_type")
    BY <1>1 DEF BootInv, SentInv, BootstrapOps
  <1>9. /\ status'["switch_chain"] = "unsent" /\ status'["import_private_key"] = "unsent"
        /\ status'["set_wallet_type"] = "unsent"
    BY <1>4, <1>8, OpsAreRequests DEF BootstrapOps, Unsent
  <1>10. SentInv'
    BY <1>1, <1>2, <1>8, <1>9 DEF SentInv, Unsent, Answered
  <1>11. EarnedInv' /\ AgentInv'
    BY <1>1, <1>8, <1>9 DEF EarnedInv, AgentInv, BootInv, Unsent
  <1>12. HostInv'
    BY <1>1, <1>2, <1>4, OpsAreRequests DEF BootInv, HostInv, HostWaitsForBootstrap
  <1> QED
    BY <1>7, <1>10, <1>11, <1>12 DEF BootInv

(* A call of the host leaves, after the bootstrap.                          *)
LEMMA HostChainCallPreserves ==
  ASSUME BootInv, NEW h \in HostCalls, HostChainCall(h)
  PROVE  BootInv'
PROOF
  <1>1. /\ serving /\ status[h] = "unsent" /\ status' = [status EXCEPT ![h] = "sent"]
        /\ env' = env /\ guarded' = guarded /\ phase' = phase /\ block' = block
        /\ step' = step /\ tools' = tools /\ connected' = connected
        /\ completed' = completed /\ serving' = serving
        /\ wallet' = wallet /\ network' = network /\ alive' = alive
    BY DEF HostChainCall, Send, config, client, agent
  <1>2. TypeOK
    BY DEF BootInv
  <1>3. \A r \in Requests : r # h => status'[r] = status[r]
    BY <1>1, <1>2 DEF TypeOK
  <1>4. \A op \in BootstrapOps : status'[op] = status[op]
    BY <1>3, HostCallsAreOthers DEF Requests
  <1>5. TypeOK'
    <2>1. status' \in [Requests -> {"unsent", "sent", "ok", "refused"}]
      BY <1>1, <1>2 DEF TypeOK
    <2> QED
      BY <1>1, <1>2, <2>1 DEF TypeOK, Blocks, HasSigner
  <1>6. phase = "returned"
    BY <1>1 DEF BootInv, HostInv
  <1>7. SentInv' /\ EarnedInv'
    BY <1>1, <1>4, <1>6
       DEF BootInv, SentInv, EarnedInv, HasSigner, Unsent, Answered, BootstrapOps
  <1>8. AgentInv'
    <2>1. \A g \in HostCalls : status[g] = "ok" => status'[g] = "ok"
      BY <1>1, <1>3, OpsAreRequests
    <2> QED
      BY <1>1, <1>4, <2>1 DEF BootInv, AgentInv, BootstrapOps
  <1>9. HostInv'
    BY <1>1, <1>6 DEF HostInv, HostWaitsForBootstrap
  <1> QED
    BY <1>5, <1>7, <1>8, <1>9 DEF BootInv

(* The awaited call is the one the position names.                          *)
LEMMA AwaitedOp ==
  ASSUME TypeOK, phase = "bootstrap"
  PROVE  /\ block = 1 /\ step = 1 => Awaited = "add_custom_chain"
         /\ block = 1 /\ step = 2 => Awaited = "switch_chain"
         /\ block = 2 /\ step = 1 => Awaited = "import_private_key"
         /\ block = 2 /\ step = 2 => Awaited = "set_wallet_type"
PROOF
  <1>1. block = 2 => HasSigner
    BY Positions
  <1> QED
    BY <1>1, BlockNames, OpNames DEF Awaited

(* The two ways out of an await that do not end the block's part: what they *)
(* have in common.                                                          *)
LEMMA ResolvedEffect ==
  ASSUME BootInv, Resolved
  PROVE  /\ phase = "bootstrap"
         /\ env' = env /\ guarded' = guarded /\ tools' = tools /\ connected' = connected
         /\ serving' = serving /\ wallet' = wallet /\ network' = network /\ alive' = alive
         /\ \/ /\ block = 1 /\ step = 1 /\ Answered("add_custom_chain")
               /\ phase' = phase /\ block' = 1 /\ step' = 2 /\ completed' = completed
               /\ status' = [status EXCEPT !["switch_chain"] = "sent"]
            \/ /\ block = 2 /\ step = 1 /\ HasSigner /\ Answered("import_private_key")
               /\ phase' = phase /\ block' = 2 /\ step' = 2 /\ completed' = completed
               /\ status' = [status EXCEPT !["set_wallet_type"] = "sent"]
            \/ /\ block = 1 /\ step = 2 /\ Answered("switch_chain")
               /\ completed' = completed \cup {"chain"} /\ Enter(2)
            \/ /\ block = 2 /\ step = 2 /\ HasSigner /\ Answered("set_wallet_type")
               /\ completed' = completed \cup {"signer"} /\ Enter(3)
PROOF
  <1>1. TypeOK /\ phase = "bootstrap"
    BY DEF BootInv, Resolved
  <1>2. /\ block = 1 \/ (block = 2 /\ HasSigner)
        /\ step \in {1, 2}
    BY <1>1, Positions
  <1>3. Answered(Awaited)
    BY DEF Resolved, Answered
  <1>4. Blocks[block] = (IF block = 1 THEN "chain" ELSE "signer")
    BY <1>2, BlockNames
  <1>5. Len(Ops(Blocks[block])) = 2
    BY <1>2, <1>4, OpNames
  <1>6. CASE step = 1
    <2>1. /\ step' = 2 /\ Send(Ops(Blocks[block])[2])
          /\ phase' = phase /\ block' = block /\ completed' = completed
      BY <1>5, <1>6 DEF Resolved
    <2>2. Ops(Blocks[block])[2] = IF block = 1 THEN "switch_chain" ELSE "set_wallet_type"
      BY <1>2, <1>4, OpNames
    <2> QED
      BY <1>1, <1>2, <1>3, <1>6, <2>1, <2>2, AwaitedOp DEF Send, Resolved, config, agent
  <1>7. CASE step = 2
    <2>1. completed' = completed \cup {Blocks[block]} /\ Enter(block + 1)
      BY <1>5, <1>7 DEF Resolved
    <2> QED
      BY <1>1, <1>2, <1>3, <1>4, <1>7, <2>1, AwaitedOp DEF Resolved, config, agent
  <1> QED
    BY <1>2, <1>6, <1>7

(* The second call of a block leaves.                                       *)
LEMMA NextCallPreserves ==
  ASSUME BootInv, phase = "bootstrap", phase' = phase, step = 1, step' = 2, block' = block,
         completed' = completed, env' = env, guarded' = guarded, tools' = tools,
         connected' = connected, serving' = serving, wallet' = wallet, network' = network,
         alive' = alive,
         \/ /\ block = 1 /\ Answered("add_custom_chain")
            /\ status' = [status EXCEPT !["switch_chain"] = "sent"]
         \/ /\ block = 2 /\ Answered("import_private_key")
            /\ status' = [status EXCEPT !["set_wallet_type"] = "sent"]
  PROVE  BootInv'
PROOF
  <1>1. TypeOK
    BY DEF BootInv
  <1>2. PICK op \in {"switch_chain", "set_wallet_type"} :
          /\ status' = [status EXCEPT ![op] = "sent"]
          /\ op = "switch_chain" => block = 1 /\ Answered("add_custom_chain")
          /\ op = "set_wallet_type" => block = 2 /\ Answered("import_private_key")
    OBVIOUS
  <1>3. op \in Requests /\ status'[op] = "sent"
        /\ \A r \in Requests : r # op => status'[r] = status[r]
    BY <1>1, <1>2, OpsAreRequests DEF TypeOK, BootstrapOps
  <1>4. TypeOK'
    <2>1. status' \in [Requests -> {"unsent", "sent", "ok", "refused"}]
      BY <1>1, <1>2 DEF TypeOK
    <2>2. step' \in 0 .. 2 /\ (block' = 0 <=> phase' # "bootstrap")
          /\ (step' = 0 <=> phase' # "bootstrap")
      BY <1>1 DEF TypeOK
    <2> QED
      BY <1>1, <2>1, <2>2 DEF TypeOK, Blocks, HasSigner
  <1>5. /\ status'["add_custom_chain"] = status["add_custom_chain"]
        /\ status'["import_private_key"] = status["import_private_key"]
        /\ op # "switch_chain" => status'["switch_chain"] = status["switch_chain"]
        /\ op # "set_wallet_type" => status'["set_wallet_type"] = status["set_wallet_type"]
        /\ \A h \in HostCalls : status'[h] = status[h]
    BY <1>2, <1>3, OpsAreRequests DEF BootstrapOps
  <1>6. SentInv'
    BY <1>2, <1>5 DEF BootInv, SentInv, Unsent, Answered
  <1>7. EarnedInv'
    <2>1. op = "switch_chain" => completed = {}
      BY <1>2 DEF BootInv, SentInv
    <2>2. op = "set_wallet_type" => "signer" \notin completed
      BY <1>2 DEF BootInv, SentInv
    <2> QED
      BY <1>2, <1>5, <2>1, <2>2 DEF BootInv, EarnedInv, HasSigner, Answered
  <1>8. AgentInv'
    <2>1. wallet # "privateKey" \/ op # "set_wallet_type"
      BY <1>2 DEF BootInv, AgentInv, SentInv, Unsent
    <2> QED
      BY <1>2, <1>3, <1>5, <2>1 DEF BootInv, AgentInv
  <1>9. HostInv'
    BY <1>5 DEF BootInv, HostInv, HostWaitsForBootstrap
  <1> QED
    BY <1>4, <1>6, <1>7, <1>8, <1>9 DEF BootInv

(* A block is left, with its flag or without.                               *)
LEMMA LeaveBlockPreserves ==
  ASSUME BootInv, phase = "bootstrap", Enter(block + 1),
         env' = env, guarded' = guarded, tools' = tools, connected' = connected,
         serving' = serving, wallet' = wallet, network' = network, alive' = alive,
         \/ completed' = completed
         \/ /\ block = 1 /\ completed' = completed \cup {"chain"}
            /\ Answered("add_custom_chain") /\ Answered("switch_chain")
         \/ /\ block = 2 /\ completed' = completed \cup {"signer"}
            /\ Answered("import_private_key") /\ Answered("set_wallet_type")
  PROVE  BootInv'
PROOF
  <1>1. TypeOK
    BY DEF BootInv
  <1>2. block = 1 \/ (block = 2 /\ HasSigner)
    BY <1>1, Positions
  <1>3. block + 1 \in {2, 3}
    BY <1>2
  <1>4. \/ /\ block = 1 /\ HasSigner /\ phase' = "bootstrap" /\ block' = 2 /\ step' = 1
           /\ status' = [status EXCEPT !["import_private_key"] = "sent"]
        \/ phase' = "returned" /\ block' = 0 /\ step' = 0 /\ status' = status
    BY <1>2, <1>3, EnterEffect
  <1>5. completed \subseteq {"chain"} /\ (block = 1 => completed = {})
        /\ (block = 1 => Unsent("import_private_key") /\ Unsent("set_wallet_type"))
    BY <1>2 DEF BootInv, SentInv
  <1>6. /\ \A r \in Requests : r # "import_private_key" => status'[r] = status[r]
        /\ block = 2 => status' = status
    BY <1>1, <1>4 DEF TypeOK
  <1>7. /\ status'["add_custom_chain"] = status["add_custom_chain"]
        /\ status'["switch_chain"] = status["switch_chain"]
        /\ status'["set_wallet_type"] = status["set_wallet_type"]
        /\ \A h \in HostCalls : status'[h] = status[h]
    BY <1>6, OpsAreRequests DEF BootstrapOps
  <1>8. TypeOK'
    <2>1. status' \in [Requests -> {"unsent", "sent", "ok", "refused"}]
      BY <1>1, <1>4 DEF TypeOK
    <2>2. Len(Blocks)' = IF HasSigner THEN 2 ELSE 1
      BY BlockNames DEF Blocks, HasSigner
    <2>3. /\ block' \in 0 .. Len(Blocks)' /\ step' \in 0 .. 2
          /\ (block' = 0 <=> phase' # "bootstrap") /\ (step' = 0 <=> phase' # "bootstrap")
          /\ phase' \in {"bootstrap", "returned"}
      BY <1>4, <2>2
    <2>4. completed' \subseteq {"chain", "signer"}
      BY <1>5
    <2> QED
      BY <1>1, <2>1, <2>3, <2>4 DEF TypeOK
  <1>9. SentInv'
    <2>1. completed' \subseteq {"chain"} \/ phase' = "returned"
      <3>1. CASE block = 1
        <4>1. completed' = completed \/ completed' = completed \cup {"chain"}
          BY <3>1
        <4> QED
          BY <1>5, <4>1
      <3>2. CASE block = 2
        BY <1>4, <3>2
      <3> QED
        BY <1>2, <3>1, <3>2
    <2>2. ~ Unsent("set_wallet_type")' => Answered("import_private_key")'
      <3>1. CASE block = 1
        BY <1>5, <1>7, <3>1 DEF Unsent
      <3>2. CASE block = 2
        BY <1>6, <3>2 DEF BootInv, SentInv, Unsent, Answered
      <3> QED
        BY <1>2, <3>1, <3>2
    <2>3. phase' = "bootstrap" => block' = 2 /\ step' = 1 /\ Unsent("set_wallet_type")'
      BY <1>4, <1>5, <1>7 DEF Unsent
    <2> QED
      BY <1>4, <2>1, <2>2, <2>3 DEF SentInv
  <1>10. EarnedInv'
    BY <1>2, <1>5, <1>6, <1>7 DEF BootInv, EarnedInv, HasSigner, Answered
  <1>11. AgentInv'
    <2>1. block = 1 => status["set_wallet_type"] = "unsent"
      BY <1>5 DEF Unsent
    <2>2. "chain" \in completed' /\ block = 2 => "chain" \in completed
      OBVIOUS
    <2> QED
      BY <1>2, <1>7, <2>1, <2>2 DEF BootInv, AgentInv
  <1>12. HostInv'
    BY <1>7 DEF BootInv, HostInv, HostWaitsForBootstrap
  <1> QED
    BY <1>8, <1>9, <1>10, <1>11, <1>12 DEF BootInv

(* The awaited call of the bootstrap is over.                               *)
LEMMA BootstrappingPreserves ==
  ASSUME BootInv, Bootstrapping
  PROVE  BootInv'
PROOF
  <1>1. CASE Rejected
    <2>1. /\ phase = "bootstrap" /\ Enter(block + 1) /\ completed' = completed
          /\ env' = env /\ guarded' = guarded /\ tools' = tools /\ connected' = connected
          /\ serving' = serving /\ wallet' = wallet /\ network' = network /\ alive' = alive
      BY <1>1 DEF Rejected, config, agent
    <2> QED
      BY <2>1, LeaveBlockPreserves
  <1>2. CASE Resolved
    <2>1. /\ phase = "bootstrap"
          /\ env' = env /\ guarded' = guarded /\ tools' = tools /\ connected' = connected
          /\ serving' = serving /\ wallet' = wallet /\ network' = network /\ alive' = alive
      BY <1>2, ResolvedEffect
    <2>2. CASE step = 1
      BY <1>2, <2>1, <2>2, ResolvedEffect, NextCallPreserves
    <2>3. CASE step # 1
      <3>1. \/ /\ block = 1 /\ step = 2 /\ Answered("switch_chain")
               /\ completed' = completed \cup {"chain"} /\ Enter(2)
            \/ /\ block = 2 /\ step = 2 /\ Answered("set_wallet_type")
               /\ completed' = completed \cup {"signer"} /\ Enter(3)
        BY <1>2, <2>3, ResolvedEffect
      <3>2. /\ block = 1 => Answered("add_custom_chain")
            /\ block = 2 => Answered("import_private_key")
        BY <2>1, <3>1 DEF BootInv, SentInv
      <3>3. Enter(block + 1)
        BY <3>1
      <3> QED
        BY <2>1, <3>1, <3>2, <3>3, LeaveBlockPreserves
    <2> QED
      BY <2>2, <2>3
  <1> QED
    BY <1>1, <1>2 DEF Bootstrapping

(* The wallet agent carries a request out, or refuses it.                   *)
LEMMA AgentPreserves ==
  ASSUME BootInv, NEW r \in Requests, Execute(r) \/ Refuse(r)
  PROVE  BootInv'
PROOF
  <1>1. /\ env' = env /\ guarded' = guarded /\ phase' = phase /\ block' = block
        /\ step' = step /\ tools' = tools /\ connected' = connected
        /\ completed' = completed /\ serving' = serving /\ alive' = alive
        /\ status[r] = "sent"
        /\ \/ Execute(r) /\ status' = [status EXCEPT ![r] = "ok"]
           \/ /\ status' = [status EXCEPT ![r] = "refused"]
              /\ wallet' = wallet /\ network' = network
    BY DEF Execute, Refuse, config, client, agent
  <1>2. TypeOK
    BY DEF BootInv
  <1>3. /\ status' \in [Requests -> {"unsent", "sent", "ok", "refused"}]
        /\ status'[r] \in {"ok", "refused"}
        /\ \A q \in Requests : q # r => status'[q] = status[q]
    BY <1>1, <1>2 DEF TypeOK
  <1>4. \A q \in Requests : /\ status'[q] = "unsent" <=> status[q] = "unsent"
                            /\ status[q] = "ok" => status'[q] = "ok"
                            /\ status[q] = "refused" => status'[q] = "refused"
    BY <1>1, <1>3
  <1>5. /\ wallet' \in {"mock", "imported", "privateKey"}
        /\ network' \in {"default", "monad"}
        /\ network = "monad" => network' = "monad"
    <2>1. CASE Execute(r)
      <3>1. \/ ChainCall(r) \/ r = "import_private_key" \/ r = "set_wallet_type"
        BY DEF ChainCall, Requests, BootstrapOps
      <3> QED
        BY <1>2, <2>1, <3>1 DEF Execute, TypeOK
    <2> QED
      BY <1>1, <1>2, <2>1 DEF TypeOK
  <1>6. TypeOK'
    BY <1>1, <1>2, <1>3, <1>5 DEF TypeOK, Blocks, HasSigner
  <1>7. "add_custom_chain" \in Requests /\ "switch_chain" \in Requests
        /\ "import_private_key" \in Requests /\ "set_wallet_type" \in Requests
    BY OpsAreRequests DEF BootstrapOps
  <1>8. SentInv'
    BY <1>1, <1>4, <1>7, OpsAreRequests DEF BootInv, SentInv, Unsent, Answered
  <1>9. EarnedInv'
    BY <1>1, <1>4, <1>7 DEF BootInv, EarnedInv, HasSigner, Answered
  <1>10. AgentInv'
    <2>1. status'["switch_chain"] = "ok" => network' = "monad"
      <3>1. CASE r = "switch_chain" /\ Execute(r)
        BY <3>1 DEF Execute
      <3>2. CASE r = "switch_chain" /\ ~ Execute(r)
        BY <1>1, <1>2, <1>7, <3>2 DEF TypeOK
      <3>3. CASE r # "switch_chain"
        BY <1>3, <1>5, <1>7, <3>3 DEF BootInv, AgentInv
      <3> QED
        BY <3>1, <3>2, <3>3
    <2>2. wallet' = "privateKey" => status'["set_wallet_type"] = "ok"
      <3>1. CASE Execute(r) /\ r = "set_wallet_type"
        BY <1>2, <1>7, <3>1 DEF Execute, TypeOK
      <3>2. CASE Execute(r) /\ r # "set_wallet_type"
        <4>1. ChainCall(r) \/ r = "import_private_key"
          BY <3>2 DEF ChainCall, Requests, BootstrapOps
        <4>2. wallet' # "privateKey"
          BY <3>2, <4>1 DEF Execute
        <4> QED
          BY <4>2
      <3>3. CASE ~ Execute(r)
        BY <1>1, <1>4, <1>7, <3>3 DEF BootInv, AgentInv
      <3> QED
        BY <3>1, <3>2, <3>3
    <2>3. ASSUME status'["set_wallet_type"] = "ok", "chain" \in completed',
                 \A h \in HostCalls : status'[h] # "ok"
          PROVE  wallet' = "privateKey"
      <3>1. CASE r = "set_wallet_type"
        <4>1. Execute(r)
          BY <1>1, <1>2, <1>7, <2>3, <3>1 DEF TypeOK
        <4> QED
          BY <3>1, <4>1, OpsAreRequests DEF Execute, ChainCall
      <3>2. CASE r # "set_wallet_type"
        <4>1. /\ status["set_wallet_type"] = "ok" /\ "chain" \in completed
              /\ \A h \in HostCalls : status[h] # "ok"
          BY <1>1, <1>3, <1>4, <1>7, <2>3, <3>2, OpsAreRequests
        <4>2. wallet = "privateKey"
          BY <4>1 DEF BootInv, AgentInv
        <4>3. /\ Answered("add_custom_chain") /\ Answered("switch_chain")
              /\ Answered("import_private_key")
          BY <4>1 DEF BootInv, EarnedInv, SentInv, Unsent
        <4>4. r \in HostCalls
          BY <1>1, <3>2, <4>3 DEF Answered, Requests, BootstrapOps
        <4>5. ~ Execute(r)
          BY <1>2, <2>3, <4>4 DEF Execute, TypeOK
        <4> QED
          BY <1>1, <4>2, <4>5
      <3> QED
        BY <3>1, <3>2
    <2> QED
      BY <2>1, <2>2, <2>3 DEF AgentInv
  <1>11. HostInv'
    BY <1>1, <1>4, OpsAreRequests DEF BootInv, HostInv, HostWaitsForBootstrap
  <1> QED
    BY <1>6, <1>8, <1>9, <1>10, <1>11 DEF BootInv

(* The inductive invariant of the bootstrap.                                *)
THEOREM BootInvariance == Spec => []BootInv
PROOF
  <1>1. BootInv /\ [Next]_vars => BootInv'
    BY ConnectingPreserves, ListToolsPreserves, BootstrappingPreserves, AroundPreserves,
       HostChainCallPreserves, AgentPreserves DEF Next, Connecting
  <1> QED
    BY BootInit, <1>1, PTL DEF Spec

-----------------------------------------------------------------------------
(* What follows from it. *)

(* Every variable keeps its shape.                                          *)
THEOREM BootstrapTypeCorrect == Spec => []TypeOK
PROOF
  <1>1. BootInv => TypeOK
    BY DEF BootInv
  <1> QED
    BY <1>1, BootInvariance, PTL

(* A flag is set only once its block was answered, and the signer's only    *)
(* when there is a signer.                                                  *)
THEOREM FlagsAreEarnedHolds == Spec => []FlagsAreEarned
PROOF
  <1>1. BootInv => FlagsAreEarned
    <2> SUFFICES ASSUME BootInv PROVE FlagsAreEarned
      OBVIOUS
    <2>1. completed \subseteq {"chain", "signer"}
      BY DEF BootInv, TypeOK
    <2>2. /\ DOMAIN Ops("chain") = {1, 2} /\ DOMAIN Ops("signer") = {1, 2}
      BY DEF Ops, ChainOps, SignerOps
    <2>3. ASSUME NEW b \in completed, NEW i \in DOMAIN Ops(b)
          PROVE  status[Ops(b)[i]] \in {"ok", "refused"}
      BY <2>1, <2>2, OpNames DEF BootInv, EarnedInv, Answered
    <2>4. "signer" \in completed => HasSigner
      BY DEF BootInv, EarnedInv
    <2> QED
      BY <2>3, <2>4 DEF FlagsAreEarned
  <1> QED
    BY <1>1, BootInvariance, PTL

(* The signer and the chain are what a bootstrap without a refusal leaves.  *)
THEOREM QuietBootstrapHolds == Spec => []QuietBootstrapProvisions
PROOF
  <1>1. BootInv => QuietBootstrapProvisions
    BY DEF BootInv, AgentInv, QuietBootstrapProvisions, BootstrapOps
  <1> QED
    BY <1>1, BootInvariance, PTL

(* No call of the host falls into the bootstrap.                            *)
THEOREM HostWaits == Spec => []HostWaitsForBootstrap
PROOF
  <1>1. BootInv => HostWaitsForBootstrap
    BY DEF BootInv, HostInv
  <1> QED
    BY <1>1, BootInvariance, PTL

(* Once selected, the operator's wallet is lost only to a chain call of the *)
(* host or one the bootstrap had given up on.                               *)
THEOREM SignerLostHolds == Spec => SignerLostOnlyToLateOrHostCalls
PROOF
  <1>1. BootInv /\ [Next]_vars =>
          [wallet = "privateKey" /\ wallet' # "privateKey" =>
             \/ \E h \in HostCalls : status[h] = "sent" /\ status'[h] = "ok"
             \/ "chain" \notin completed]_vars
    <2> SUFFICES ASSUME BootInv, Next, wallet = "privateKey", wallet' # "privateKey",
                        "chain" \in completed
                 PROVE  \E h \in HostCalls : status[h] = "sent" /\ status'[h] = "ok"
      OBVIOUS
    <2>1. PICK r \in Requests : Execute(r)
      BY DEF Next, Connecting, Start, ShakeHands, ListTools, ConnectFails, Bootstrapping,
         Resolved, Rejected, Serve, Shutdown, Die, Refuse, HostChainCall, agent
    <2>2. status[r] = "sent" /\ status'[r] = "ok"
      BY <2>1 DEF BootInv, TypeOK, Execute
    <2>3. status["set_wallet_type"] = "ok"
      BY DEF BootInv, AgentInv
    <2>4. /\ Answered("add_custom_chain") /\ Answered("switch_chain")
          /\ Answered("import_private_key")
      BY <2>3 DEF BootInv, EarnedInv, SentInv, Unsent
    <2>5. r \in HostCalls
      BY <2>2, <2>3, <2>4 DEF Answered, Requests, BootstrapOps
    <2> QED
      BY <2>2, <2>5
  <1> QED
    BY <1>1, BootInvariance, PTL DEF Spec, SignerLostOnlyToLateOrHostCalls

=============================================================================
