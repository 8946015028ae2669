----------------------------- MODULE RiskPolicy -----------------------------
(***************************************************************************)
(* The deterministic verdict on one call in the guarded pipeline: what the  *)
(* runner simulates, what extractEvidence takes from the arguments, and the *)
(* checks of assessRisk against a policy snapshot.                          *)
(*                                                                          *)
(* They read the same arguments in different ways.  A host may give an      *)
(* amount as value, amount, amount_atomic and amount_wei: the runner looks  *)
(* for value first, extractEvidence for amount first, and what the caps are *)
(* compared with is an amount_atomic before all others.  toWeiHex takes an  *)
(* amount for MON or for wei by its size and accepts fractions and any      *)
(* spelling BigInt does; amountBigInt knows canonical decimals only and has *)
(* no opinion on the rest; the chain is taken from the runner's context.    *)
(***************************************************************************)
EXTENDS Naturals, Sequences

CONSTANTS
  Requests,     \* calls with their arguments, see Request
  Policies,     \* snapshots, see Snapshot
  Addresses,    \* recipients, tokens, spenders
  Unit,         \* wei of one MON, 10^18
  SmallAmount,  \* integers below it are taken for MON, 10^9
  Uint256Max,
  Monad,        \* chain 10143
  OtherChain,
  None

(* An amount as the host spells it: a canonical decimal n; a decimal with a *)
(* fraction, n and a half; another spelling of n that BigInt accepts        *)
(* ("007", "0x7"); "uint256.max"; or a word like "max".                     *)
Amount == [form : {"canonical", "fraction", "spelled", "uint256.max", "word"}, n : Nat]

(* The arguments of the registered write, signature and chain tools, and    *)
(* those a host may add to them: extractEvidence spreads all arguments into *)
(* the evidence.  A field that is missing is None; one that is given is a   *)
(* nonempty string.                                                         *)
Request == [tool : {"send_transaction", "transfer_token", "approve_token",
                    "sign_typed_data", "switch_chain"},
            to : Addresses \cup {None}, token : Addresses \cup {None},
            spender : Addresses \cup {None},
            value : Amount \cup {None}, amount : Amount \cup {None},
            amount_atomic : Amount \cup {None}, amount_wei : Amount \cup {None},
            chain : {Monad, OtherChain, None}, ruled : BOOLEAN]

SpenderLimit == [token : Addresses, spender : Addresses, max : 0 .. Uint256Max, enabled : BOOLEAN]

(* The part of a PolicySnapshot the checks read. *)
Snapshot == [tools : SUBSET {"send_transaction", "transfer_token", "approve_token",
                             "sign_typed_data", "switch_chain"},
             recipients : SUBSET Addresses, tokens : SUBSET Addresses,
             native : 0 .. Uint256Max, erc20 : 0 .. Uint256Max, spenders : Seq(SpenderLimit)]

ASSUME AmountConstants ==
  /\ Unit \in Nat /\ SmallAmount \in Nat /\ Uint256Max \in Nat
  /\ 0 < SmallAmount /\ SmallAmount <= Unit
ASSUME InputsAreShaped == Requests \subseteq Request /\ Policies \subseteq Snapshot
ASSUME ChainsAreDistinct == Monad # OtherChain /\ None \notin {Monad, OtherChain}
ASSUME NoneIsNoInput == None \notin Addresses \cup Amount /\ None \notin Nat

VARIABLES
  call,       \* the request
  policy,     \* the snapshot it is judged by
  sim,        \* status of its simulation, "none" if there was none
  simulated,  \* the value in wei that was simulated, or None
  verdict     \* "none", "allow" or the reason it is blocked for

vars == <<call, policy, sim, simulated, verdict>>

MutationTools == {"send_transaction", "transfer_token", "approve_token",
                  "sign_typed_data"}
Executes(r) == r.tool \in {"send_transaction", "transfer_token"}
Approves(r) == r.tool = "approve_token"
Signs(r)    == r.tool = "sign_typed_data"

-----------------------------------------------------------------------------
(* Which of the amounts of a call is read. *)

(* a ?? b, and a || b too, since a given argument is never empty.           *)
OrElse(a, b) == IF a # None THEN a ELSE b

(* The amount the runner has simulated.                                     *)
SimulatedAmount(r) == OrElse(r.value, r.amount)

(* evidence.amount_atomic and evidence.amount_wei: the host's, unless       *)
(* extractEvidence puts the amount of the call in their place.              *)
EvidenceAtomic(r) ==
  CASE Executes(r) /\ r.token # None -> OrElse(OrElse(r.amount, r.value), r.amount_atomic)
    [] Approves(r) -> OrElse(r.amount, r.amount_atomic)
    [] OTHER -> r.amount_atomic
EvidenceWei(r) ==
  IF Executes(r) /\ r.token = None
    THEN OrElse(OrElse(r.amount, r.value), r.amount_wei) ELSE r.amount_wei

(* The amount assessRisk compares with the caps.                            *)
JudgedAmount(r) == OrElse(EvidenceAtomic(r), OrElse(EvidenceWei(r), r.amount))

-----------------------------------------------------------------------------
(* How it is read. *)

(* Mutant: small integers are those up to the limit, inclusive. *)
ToWeiInclusive(a) ==
  CASE a = None -> None
    [] a # None /\ a.form \in {"canonical", "spelled"} ->
         IF a.n <= SmallAmount THEN a.n * Unit ELSE a.n
    [] a # None /\ a.form = "fraction" -> a.n * Unit + Unit \div 2
    [] OTHER -> None

(* toWeiHex. *)
ToWei(a) ==
  CASE a = None -> None
    [] a # None /\ a.form \in {"canonical", "spelled"} ->
         IF a.n < SmallAmount THEN a.n * Unit ELSE a.n
    [] a # None /\ a.form = "fraction" -> a.n * Unit + Unit \div 2
    [] OTHER -> None

(* amountBigInt: null for everything but canonical decimals. *)
AmountBigInt(a) ==
  CASE a = None -> None
    [] a # None /\ a.form = "canonical" -> a.n
    [] a # None /\ a.form = "uint256.max" -> Uint256Max
    [] OTHER -> None

(* The chain extractEvidence finds: the context of the runner is fixed, and *)
(* goes before what the call asks for.                                      *)
ContextChain == Monad
EvidenceChain(r) ==
  IF ContextChain # None THEN ContextChain
  ELSE IF r.chain # None THEN r.chain ELSE Monad

-----------------------------------------------------------------------------
(* assessRisk. *)

(* The evidence has an amount of one kind or another.                       *)
HasAmount(r) ==
  \E a \in {r.amount, EvidenceAtomic(r), EvidenceWei(r)} : a # None

HasRequiredFields(r) ==
  CASE r.tool = "send_transaction" -> None \notin {r.to, r.value}
    [] r.tool = "transfer_token" -> None \notin {r.token, r.to} /\ HasAmount(r)
    [] r.tool = "approve_token" -> None \notin {r.token, r.spender} /\ HasAmount(r)
    [] r.tool = "switch_chain" -> r.chain # None
    [] OTHER -> TRUE

(* Mutant: the caps of native and token transfers are swapped. *)
CapSwapped(r, p) == IF Executes(r) /\ r.token = None THEN p.erc20 ELSE p.native

(* The cap an amount is compared with. *)
Cap(r, p) == IF Executes(r) /\ r.token = None THEN p.native ELSE p.erc20

(* An amount that is none is over no limit. *)
Over(amount, limit) == amount # None /\ amount > limit

(* The check of unlimited approvals does not look at amount_wei.            *)
Unlimited(r) ==
  LET a == OrElse(EvidenceAtomic(r), r.amount)
  IN  /\ a # None
      /\ \/ a.form = "uint256.max"
         \/ a.form = "canonical" /\ a.n = Uint256Max

(* Mutant: entries are found whether enabled or not. *)
EntriesEvenDisabled(r, p) ==
  {i \in DOMAIN p.spenders :
     p.spenders[i].token = r.token /\ p.spenders[i].spender = r.spender}

(* The entries that match an approval; find takes the first. *)
Entries(r, p) ==
  {i \in DOMAIN p.spenders :
     /\ p.spenders[i].enabled
     /\ p.spenders[i].token = r.token
     /\ p.spenders[i].spender = r.spender}

OverLimit(r, p) ==
  \E i \in Entries(r, p) :
    /\ \A j \in Entries(r, p) : i <= j
    /\ Over(AmountBigInt(JudgedAmount(r)), p.spenders[i].max)

(* The checks in their order: code, level, and whether it is found. *)
Checks(r, p, status) == <<
  [code |-> "POLICY_RPC_CHAIN_MISMATCH", level |-> "critical",
   found |-> EvidenceChain(r) # Monad],
  [code |-> "POLICY_TOOL_NOT_ALLOWED", level |-> "high",
   found |-> r.tool \notin p.tools],
  [code |-> "MISSING_REQUIRED_EVIDENCE", level |-> "high",
   found |-> ~HasRequiredFields(r)],
  [code |-> "SIMULATION_UNAVAILABLE", level |-> "high",
   found |-> r.tool \in MutationTools /\ status \in {"none", "unavailable"}],
  [code |-> "SIMULATION_FAILED", level |-> "high",
   found |-> r.tool \in MutationTools /\ status = "failed"],
  [code |-> "POLICY_RECIPIENT_NOT_ALLOWED", level |-> "high",
   found |-> Executes(r) /\ r.to # None /\ r.to \notin p.recipients],
  [code |-> "POLICY_TOKEN_NOT_ALLOWED", level |-> "high",
   found |-> r.token # None /\ r.token \notin p.tokens],
  [code |-> "POLICY_AMOUNT_OVER_CAP", level |-> "high",
   found |-> Over(AmountBigInt(JudgedAmount(r)), Cap(r, p))],
  [code |-> "POLICY_UNLIMITED_APPROVAL_BLOCKED", level |-> "critical",
   found |-> Approves(r) /\ Unlimited(r)],
  [code |-> "POLICY_SPENDER_NOT_ALLOWED", level |-> "high",
   found |-> Approves(r) /\ Entries(r, p) = {}],
  [code |-> "POLICY_AMOUNT_OVER_CAP", level |-> "high",
   found |-> Approves(r) /\ OverLimit(r, p)],
  [code |-> "POLICY_TYPED_DATA_NOT_ALLOWED", level |-> "high",
   found |-> Signs(r) /\ ~r.ruled] >>

Findings(r, p, status) ==
  {i \in DOMAIN Checks(r, p, status) : Checks(r, p, status)[i].found}
Critical(r, p, status) ==
  {i \in Findings(r, p, status) : Checks(r, p, status)[i].level = "critical"}

First(S) == CHOOSE i \in S : \A j \in S : i <= j

(* evaluatePolicy: allow, or the first of the most severe findings. *)
Verdict(r, p, status) ==
  IF Findings(r, p, status) = {} THEN "allow"
  ELSE IF Critical(r, p, status) # {}
    THEN Checks(r, p, status)[First(Critical(r, p, status))].code
    ELSE Checks(r, p, status)[First(Findings(r, p, status))].code

-----------------------------------------------------------------------------
Statuses == {"success", "failed", "unavailable"}

Init ==
  /\ call \in Requests
  /\ policy \in Policies
  /\ sim = "none"
  /\ simulated = None
  /\ verdict = "none"

(* The runner has mutations simulated, with the value it has worked out.    *)
Simulate ==
  /\ verdict = "none"
  /\ call.tool \in MutationTools
  /\ sim = "none"
  /\ sim' \in Statuses
  /\ simulated' = ToWei(SimulatedAmount(call))
  /\ UNCHANGED <<call, policy, verdict>>

Judge ==
  /\ verdict = "none"
  /\ call.tool \in MutationTools => sim # "none"
  /\ verdict' = Verdict(call, policy, sim)
  /\ UNCHANGED <<call, policy, sim, simulated>>

Next == Simulate \/ Judge

Spec == Init /\ [][Next]_vars

-----------------------------------------------------------------------------
(* Properties. *)

(* Every variable keeps its shape. *)
TypeOK ==
  /\ call \in Requests
  /\ policy \in Policies
  /\ sim \in Statuses \cup {"none"}
  /\ simulated \in Nat \cup {None}
  /\ verdict \in {"none", "allow"} \cup
       {Checks(call, policy, sim)[i].code : i \in DOMAIN Checks(call, policy, sim)}

Allowed == verdict = "allow"
Canonical(a) == a # None /\ a.form = "canonical"

(* The amount the wallet agent moves or approves.                           *)
Moved(r) == IF r.tool = "send_transaction" THEN r.value ELSE r.amount

(* No other field of the call is read before the one the tool moves.        *)
Unshadowed(r) ==
  IF r.tool = "send_transaction"
    THEN r.amount = None /\ (r.token = None => r.amount_atomic = None)
    ELSE r.value = None

(* A transfer that is allowed goes to a listed recipient.  If it is one of  *)
(* a token and its amount a canonical decimal, the token is listed and the  *)
(* amount within the cap of tokens, whatever else the call carries.  A      *)
(* canonical value of send_transaction is within the cap of MON, or of      *)
(* tokens when the call names a token, as long as no other field stands in  *)
(* front of it: the caps see amount, and without a token amount_atomic,     *)
(* instead of a value they come with (evidenceExtractors.js:29,59-62,       *)
(* riskChecks.js:48).  Other spellings are under no cap.                    *)
TransfersAreCapped ==
  Allowed /\ Executes(call) =>
    /\ call.to \in policy.recipients
    /\ call.token # None => call.token \in policy.tokens
    /\ Canonical(Moved(call)) /\ (call.tool = "send_transaction" => Unshadowed(call))
         => Moved(call).n <= IF call.token = None THEN policy.native ELSE policy.erc20

(* An approval that is allowed, with an amount the checks can read, is of a *)
(* listed token, finite, within the cap, and within the limit of an enabled *)
(* entry for this very token and spender: whatever further amounts the call *)
(* carries and whatever other entries the list holds (riskChecks.js:48-62). *)
(* An amount spelled in another way (a word, a hexadecimal number) is       *)
(* approved without a limit; nothing is promised of it.                     *)
ApprovalsAreBounded ==
  Allowed /\ Approves(call) /\ AmountBigInt(call.amount) # None =>
    LET n == AmountBigInt(call.amount)
    IN  /\ call.token \in policy.tokens
        /\ n < Uint256Max /\ n <= policy.erc20
        /\ \E i \in DOMAIN policy.spenders :
             /\ policy.spenders[i].enabled
             /\ policy.spenders[i].token = call.token
             /\ policy.spenders[i].spender = call.spender
             /\ n <= policy.spenders[i].max

(* What was simulated is what the caps judged, as long as the amount that   *)
(* is moved is a canonical decimal and no other field is read before it:    *)
(* the runner looks for value first (guardedPipeline.ts:65), the evidence   *)
(* for amount (evidenceExtractors.js:59).  Below SmallAmount the simulation *)
(* takes for MON what the caps take for wei (guardedPipeline.ts:31-33).     *)
SimulatedAsJudged ==
  /\ Allowed /\ (Executes(call) \/ Approves(call))
  /\ Canonical(Moved(call)) /\ Unshadowed(call)
  => LET n == AmountBigInt(JudgedAmount(call))
     IN  simulated = IF n < SmallAmount THEN n * Unit ELSE n

-----------------------------------------------------------------------------
(* What the specification of wave 5 says, and the code does not keep. *)

(* switch_chain is allowed only when the target is chain 10143.             *)
SwitchesToMonadOnly ==
  Allowed /\ call.tool = "switch_chain" => call.chain = Monad

=============================================================================
