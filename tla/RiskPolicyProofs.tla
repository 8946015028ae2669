-------------------------- MODULE RiskPolicyProofs --------------------------
(***************************************************************************)
(* What a verdict "allow" is worth for every request, every policy and      *)
(* every size of the constants.                                             *)
(*                                                                          *)
(* evaluatePolicy allows exactly when no check finds anything: AllowIsClean *)
(* says so once, whatever order the findings are ranked in.  JudgedInv then *)
(* keeps, in every reachable state, that an allowed call is one for which   *)
(* no check found anything and whose simulated value is that of its         *)
(* arguments; the caps and limits follow check by check.                    *)
(***************************************************************************)
EXTENDS RiskPolicy, WellFoundedInduction, TLAPS

(* First picks the least of a nonempty set of naturals.                     *)
LEMMA LeastElement ==
  ASSUME NEW S, S \subseteq Nat, S # {}
  PROVE  First(S) \in S /\ \A y \in S : First(S) <= y
PROOF
  <1>1. PICK x \in S : \A y \in S : ~ (<<y, x>> \in OpToRel(<, Nat))
    BY WFMin, NatLessThanWellFounded
  <1>2. ASSUME NEW y \in S PROVE x <= y
    <2>1. x \in Nat /\ y \in Nat
      OBVIOUS
    <2>2. ~ (y < x)
      BY <1>1, <2>1 DEF OpToRel
    <2> QED
      BY <2>1, <2>2
  <1> QED
    BY <1>2 DEF First

(* There are twelve checks, and none of them reports "allow".               *)
LEMMA ChecksShape ==
  ASSUME NEW r, NEW p, NEW s
  PROVE  /\ DOMAIN Checks(r, p, s) = 1 .. 12
         /\ \A i \in 1 .. 12 : Checks(r, p, s)[i].code # "allow"
BY DEF Checks

(* evaluatePolicy allows a call only if no check finds anything.            *)
LEMMA AllowIsClean ==
  ASSUME NEW r, NEW p, NEW s, Verdict(r, p, s) = "allow"
  PROVE  Findings(r, p, s) = {}
PROOF
  <1> SUFFICES ASSUME Findings(r, p, s) # {} PROVE FALSE
    OBVIOUS
  <1>1. Findings(r, p, s) \subseteq 1 .. 12 /\ Critical(r, p, s) \subseteq Findings(r, p, s)
    BY ChecksShape DEF Findings, Critical
  <1>2. CASE Critical(r, p, s) # {}
    <2>1. First(Critical(r, p, s)) \in 1 .. 12
      BY <1>1, <1>2, LeastElement
    <2> QED
      BY <1>2, <2>1, ChecksShape DEF Verdict
  <1>3. CASE Critical(r, p, s) = {}
    <2>1. First(Findings(r, p, s)) \in 1 .. 12
      BY <1>1, LeastElement
    <2> QED
      BY <1>3, <2>1, ChecksShape DEF Verdict
  <1> QED
    BY <1>2, <1>3

(* What the absence of findings means, check by check.                      *)
LEMMA CleanChecks ==
  ASSUME NEW r, NEW p, NEW s, Findings(r, p, s) = {}
  PROVE  /\ HasRequiredFields(r)
         /\ r.tool \in MutationTools => s \notin {"none", "unavailable", "failed"}
         /\ Executes(r) /\ r.to # None => r.to \in p.recipients
         /\ r.token # None => r.token \in p.tokens
         /\ ~ Over(AmountBigInt(JudgedAmount(r)), Cap(r, p))
         /\ Approves(r) => /\ ~ Unlimited(r)
                           /\ Entries(r, p) # {}
                           /\ ~ OverLimit(r, p)
PROOF
  <1>1. \A i \in 1 .. 12 : ~ Checks(r, p, s)[i].found
    BY ChecksShape DEF Findings
  <1>2. ~ Checks(r, p, s)[3].found /\ ~ Checks(r, p, s)[4].found /\ ~ Checks(r, p, s)[5].found
    BY <1>1
  <1>3. ~ Checks(r, p, s)[6].found /\ ~ Checks(r, p, s)[7].found /\ ~ Checks(r, p, s)[8].found
    BY <1>1
  <1>4. ~ Checks(r, p, s)[9].found /\ ~ Checks(r, p, s)[10].found /\ ~ Checks(r, p, s)[11].found
    BY <1>1
  <1>5. HasRequiredFields(r)
    BY <1>2 DEF Checks
  <1>6. r.tool \in MutationTools => s \notin {"none", "unavailable", "failed"}
    BY <1>2 DEF Checks
  <1>7. Executes(r) /\ r.to # None => r.to \in p.recipients
    BY <1>3 DEF Checks
  <1>8. r.token # None => r.token \in p.tokens
    BY <1>3 DEF Checks
  <1>9. ~ Over(AmountBigInt(JudgedAmount(r)), Cap(r, p))
    BY <1>3 DEF Checks
  <1>10. Approves(r) => ~ Unlimited(r)
    BY <1>4 DEF Checks
  <1>11. Approves(r) => Entries(r, p) # {}
    BY <1>4 DEF Checks
  <1>12. Approves(r) => ~ OverLimit(r, p)
    BY <1>4 DEF Checks
  <1> QED
    BY <1>5, <1>6, <1>7, <1>8, <1>9, <1>10, <1>11, <1>12

(* The amount that is simulated and the one that is judged are amounts of   *)
(* the call, or none.                                                       *)
LEMMA ReadAmounts ==
  ASSUME NEW r \in Request
  PROVE  /\ SimulatedAmount(r) \in Amount \cup {None}
         /\ JudgedAmount(r) \in Amount \cup {None}
PROOF
  <1>1. /\ r.value \in Amount \cup {None} /\ r.amount \in Amount \cup {None}
        /\ r.amount_atomic \in Amount \cup {None}
        /\ r.amount_wei \in Amount \cup {None}
    BY DEF Request
  <1>2. EvidenceAtomic(r) \in Amount \cup {None}
    BY <1>1 DEF EvidenceAtomic, OrElse
  <1>3. EvidenceWei(r) \in Amount \cup {None}
    BY <1>1 DEF EvidenceWei, OrElse
  <1> QED
    BY <1>1, <1>2, <1>3 DEF SimulatedAmount, JudgedAmount, OrElse

(* A simulated value is a number of wei or none.                            *)
LEMMA ToWeiShape ==
  ASSUME NEW a \in Amount \cup {None}
  PROVE  ToWei(a) \in Nat \cup {None}
PROOF
  <1>1. CASE a = None
    BY <1>1 DEF ToWei
  <1>2. CASE a # None
    <2>1. a.n \in Nat
      BY <1>2 DEF Amount
    <2>2. a.n * Unit \in Nat /\ Unit \div 2 \in Nat
      BY <2>1, AmountConstants
    <2>3. a.n * Unit + Unit \div 2 \in Nat
      BY <2>2
    <2>4. ToWei(a) \in {a.n * Unit, a.n, a.n * Unit + Unit \div 2, None}
      BY <1>2 DEF ToWei
    <2> QED
      BY <2>1, <2>2, <2>3, <2>4
  <1> QED
    BY <1>1, <1>2

-----------------------------------------------------------------------------
(* The inductive invariant. *)

(* An allowed call is clean.                                                *)
CleanInv == Allowed => Findings(call, policy, sim) = {}

(* A call was simulated with the value of its arguments, or not yet.        *)
SimInv == sim # "none" => simulated = ToWei(SimulatedAmount(call))

JudgedInv == TypeOK /\ CleanInv /\ SimInv

(* The invariant holds initially.                                           *)
LEMMA JudgedInit == Init => JudgedInv
BY DEF Init, JudgedInv, TypeOK, CleanInv, SimInv, Allowed

(* A simulation leaves the verdict open.                                    *)
LEMMA SimulatePreserves == JudgedInv /\ Simulate => JudgedInv'
PROOF
  <1> SUFFICES ASSUME JudgedInv, Simulate PROVE JudgedInv'
    OBVIOUS
  <1>1. SimulatedAmount(call) \in Amount \cup {None}
    BY InputsAreShaped, ReadAmounts DEF JudgedInv, TypeOK
  <1>2. simulated' = ToWei(SimulatedAmount(call)) /\ simulated' \in Nat \cup {None}
    BY <1>1, ToWeiShape DEF Simulate
  <1>3. verdict' = "none" /\ call' = call /\ policy' = policy
    BY DEF Simulate
  <1>4. sim' \in Statuses
    BY DEF Simulate
  <1>5. TypeOK'
    BY <1>2, <1>3, <1>4 DEF JudgedInv, TypeOK
  <1>6. CleanInv'
    BY <1>3 DEF CleanInv, Allowed
  <1>7. SimInv'
    BY <1>2, <1>3 DEF SimInv
  <1> QED
    BY <1>5, <1>6, <1>7 DEF JudgedInv

(* A verdict is "allow" or the code of a check.                             *)
LEMMA VerdictShape ==
  ASSUME NEW r, NEW p, NEW s
  PROVE  Verdict(r, p, s) \in
           {"none", "allow"} \cup {Checks(r, p, s)[i].code : i \in DOMAIN Checks(r, p, s)}
PROOF
  <1>1. Findings(r, p, s) \subseteq 1 .. 12 /\ Critical(r, p, s) \subseteq 1 .. 12
    BY ChecksShape DEF Findings, Critical
  <1>2. CASE Findings(r, p, s) = {}
    BY <1>2 DEF Verdict
  <1>3. CASE Findings(r, p, s) # {} /\ Critical(r, p, s) # {}
    <2>1. First(Critical(r, p, s)) \in DOMAIN Checks(r, p, s)
      BY <1>1, <1>3, LeastElement, ChecksShape
    <2> QED
      BY <1>3, <2>1 DEF Verdict
  <1>4. CASE Findings(r, p, s) # {} /\ Critical(r, p, s) = {}
    <2>1. First(Findings(r, p, s)) \in DOMAIN Checks(r, p, s)
      BY <1>1, <1>4, LeastElement, ChecksShape
    <2> QED
      BY <1>4, <2>1 DEF Verdict
  <1> QED
    BY <1>2, <1>3, <1>4

(* The verdict is given once, on what has been simulated.                   *)
LEMMA JudgePreserves == JudgedInv /\ Judge => JudgedInv'
PROOF
  <1> SUFFICES ASSUME JudgedInv, Judge PROVE JudgedInv'
    OBVIOUS
  <1>1. /\ call' = call /\ policy' = policy /\ sim' = sim /\ simulated' = simulated
        /\ verdict' = Verdict(call, policy, sim)
    BY DEF Judge
  <1>2. TypeOK'
    BY <1>1, VerdictShape DEF JudgedInv, TypeOK
  <1>3. CleanInv'
    BY <1>1, AllowIsClean DEF CleanInv, Allowed
  <1>4. SimInv'
    BY <1>1 DEF JudgedInv, SimInv
  <1> QED
    BY <1>2, <1>3, <1>4 DEF JudgedInv

(* The inductive invariant: an allowed call is one no check objected to.    *)
THEOREM JudgedInvariance == Spec => []JudgedInv
PROOF
  <1>1. JudgedInv /\ UNCHANGED vars => JudgedInv'
    BY DEF vars, JudgedInv, TypeOK, CleanInv, SimInv, Allowed
  <1>2. JudgedInv /\ [Next]_vars => JudgedInv'
    BY <1>1, SimulatePreserves, JudgePreserves DEF Next
  <1> QED
    BY JudgedInit, <1>2, PTL DEF Spec

(* Every variable keeps its shape: a simulated value is a number of wei,    *)
(* and a verdict is "allow" or the code of one of the checks.               *)
THEOREM RiskTypeCorrect == Spec => []TypeOK
PROOF
  <1>1. JudgedInv => TypeOK
    BY DEF JudgedInv
  <1> QED
    BY <1>1, JudgedInvariance, PTL

-----------------------------------------------------------------------------
(* The caps. *)

(* What amountBigInt makes of an amount can be compared.                    *)
LEMMA AmountShape ==
  ASSUME NEW a \in Amount \cup {None}
  PROVE  AmountBigInt(a) \in Nat \cup {None}
PROOF
  <1>1. CASE a = None
    BY <1>1 DEF AmountBigInt
  <1>2. CASE a # None
    <2>1. a \in Amount /\ a.n \in Nat
      BY <1>2 DEF Amount
    <2> QED
      BY <1>2, <2>1, AmountConstants DEF AmountBigInt
  <1> QED
    BY <1>1, <1>2

(* What JudgedInv knows of the call and its policy.                         *)
LEMMA CallShape ==
  ASSUME JudgedInv
  PROVE  /\ call \in Request /\ policy \in Snapshot
         /\ Canonical(Moved(call)) =>
              /\ AmountBigInt(Moved(call)) = Moved(call).n
              /\ Moved(call).n \in Nat
PROOF
  <1>1. call \in Request /\ policy \in Snapshot
    BY InputsAreShaped DEF JudgedInv, TypeOK
  <1>2. Moved(call) \in Amount \cup {None}
    BY <1>1 DEF Request, Moved
  <1>3. ASSUME Canonical(Moved(call))
        PROVE  AmountBigInt(Moved(call)) = Moved(call).n /\ Moved(call).n \in Nat
    <2>1. Moved(call) \in Amount /\ Moved(call) # None
      BY <1>2, <1>3 DEF Canonical
    <2> QED
      BY <1>3, <2>1 DEF Amount, Canonical, AmountBigInt
  <1> QED
    BY <1>1, <1>3

(* The limits of a policy are naturals.                                     *)
LEMMA LimitsShape ==
  ASSUME NEW p \in Snapshot
  PROVE  /\ p.native \in Nat /\ p.erc20 \in Nat /\ p.erc20 <= Uint256Max
         /\ \A r : Cap(r, p) \in Nat
         /\ p.spenders \in Seq(SpenderLimit)
         /\ \A i \in DOMAIN p.spenders : p.spenders[i].max \in Nat
PROOF
  <1>1. p.native \in 0 .. Uint256Max /\ p.erc20 \in 0 .. Uint256Max
    BY DEF Snapshot
  <1>2. p.native \in Nat /\ p.erc20 \in Nat /\ p.erc20 <= Uint256Max
    BY <1>1, AmountConstants
  <1>3. \A r : Cap(r, p) \in Nat
    BY <1>2 DEF Cap
  <1>4. p.spenders \in Seq(SpenderLimit)
    BY DEF Snapshot
  <1>5. ASSUME NEW i \in DOMAIN p.spenders PROVE p.spenders[i].max \in Nat
    <2>1. p.spenders[i] \in SpenderLimit
      BY <1>4
    <2>2. p.spenders[i].max \in 0 .. Uint256Max
      BY <2>1 DEF SpenderLimit
    <2> QED
      BY <2>2, AmountConstants
  <1> QED
    BY <1>2, <1>3, <1>4, <1>5

(* Of the amounts a call carries, the one its tool moves is the one judged: *)
(* always for transfers and approvals of tokens, and for send_transaction   *)
(* if nothing stands in front of its value.                                 *)
LEMMA MovedIsJudged ==
  ASSUME NEW r, Executes(r) \/ Approves(r), Moved(r) # None,
         r.tool = "send_transaction" => Unshadowed(r),
         r.tool = "transfer_token" => r.token # None
  PROVE  JudgedAmount(r) = Moved(r)
PROOF
  <1>1. CASE r.tool = "send_transaction"
    <2>1. r.amount = None /\ Moved(r) = r.value /\ Executes(r) /\ ~ Approves(r)
      BY <1>1 DEF Unshadowed, Moved, Executes, Approves
    <2>2. CASE r.token = None
      BY <1>1, <2>1, <2>2 DEF Unshadowed, JudgedAmount, EvidenceAtomic, EvidenceWei, OrElse
    <2>3. CASE r.token # None
      BY <2>1, <2>3 DEF JudgedAmount, EvidenceAtomic, OrElse
    <2> QED
      BY <2>2, <2>3
  <1>2. CASE r.tool = "transfer_token"
    <2>1. r.token # None /\ Moved(r) = r.amount /\ Executes(r)
      BY <1>2 DEF Moved, Executes
    <2> QED
      BY <2>1 DEF JudgedAmount, EvidenceAtomic, OrElse
  <1>3. CASE r.tool = "approve_token"
    <2>1. Moved(r) = r.amount /\ Approves(r) /\ ~ Executes(r)
      BY <1>3 DEF Moved, Approves, Executes
    <2> QED
      BY <2>1 DEF JudgedAmount, EvidenceAtomic, OrElse
  <1> QED
    BY <1>1, <1>2, <1>3 DEF Executes, Approves

(* A transfer that is allowed goes to a listed recipient, of a listed token *)
(* if it names one; and a canonical amount that nothing stands in front of  *)
(* is within the cap of what it moves.                                      *)
THEOREM TransfersAreCappedHolds == Spec => []TransfersAreCapped
PROOF
  <1>1. JudgedInv => TransfersAreCapped
    <2> SUFFICES ASSUME JudgedInv, Allowed, Executes(call)
                 PROVE  /\ call.to \in policy.recipients
                        /\ call.token # None => call.token \in policy.tokens
                        /\ /\ Canonical(Moved(call))
                           /\ call.tool = "send_transaction" => Unshadowed(call)
                           => Moved(call).n <= IF call.token = None
                                                 THEN policy.native ELSE policy.erc20
      BY DEF TransfersAreCapped
    <2>1. Findings(call, policy, sim) = {}
      BY DEF JudgedInv, CleanInv
    <2>2. /\ HasRequiredFields(call)
          /\ call.to # None => call.to \in policy.recipients
          /\ call.token # None => call.token \in policy.tokens
          /\ ~ Over(AmountBigInt(JudgedAmount(call)), Cap(call, policy))
      BY <2>1, CleanChecks
    <2>3. call.to # None /\ (call.tool = "transfer_token" => call.token # None)
      BY <2>2 DEF HasRequiredFields, Executes
    <2>4. ASSUME Canonical(Moved(call)), call.tool = "send_transaction" => Unshadowed(call)
          PROVE  Moved(call).n <= IF call.token = None
                                    THEN policy.native ELSE policy.erc20
      <3>1. JudgedAmount(call) = Moved(call)
        BY <2>3, <2>4, MovedIsJudged DEF Canonical
      <3>2. AmountBigInt(Moved(call)) = Moved(call).n /\ Moved(call).n \in Nat
        BY <2>4, CallShape
      <3>3. Cap(call, policy) \in Nat
        BY CallShape, LimitsShape
      <3>4. Moved(call).n # None
        \* the amount is compared only if there is one
        BY <3>2, NoneIsNoInput
      <3>5. Moved(call).n <= Cap(call, policy)
        BY <2>2, <3>1, <3>2, <3>3, <3>4 DEF Over
      <3> QED
        BY <3>5 DEF Cap
    <2> QED
      BY <2>2, <2>3, <2>4
  <1> QED
    BY <1>1, JudgedInvariance, PTL

(* Of the entries that match an approval, the first bounds it: an approval  *)
(* over no limit is within the limit of an enabled entry for its own token  *)
(* and spender.                                                             *)
LEMMA FirstEntryBounds ==
  ASSUME NEW r \in Request, NEW p \in Snapshot, NEW n \in Nat,
         AmountBigInt(JudgedAmount(r)) = n, Entries(r, p) # {}, ~ OverLimit(r, p)
  PROVE  n <= p.spenders[First(Entries(r, p))].max
PROOF
  <1>1. Entries(r, p) \subseteq Nat /\ Entries(r, p) \subseteq DOMAIN p.spenders
    BY LimitsShape DEF Entries
  <1>2. /\ First(Entries(r, p)) \in Entries(r, p)
        /\ \A j \in Entries(r, p) : First(Entries(r, p)) <= j
    BY <1>1, LeastElement
  <1>3. p.spenders[First(Entries(r, p))].max \in Nat
    BY <1>1, <1>2, LimitsShape
  <1>4. ~ Over(n, p.spenders[First(Entries(r, p))].max)
    BY <1>2 DEF OverLimit
  <1>5. n # None
    BY NoneIsNoInput
  <1> QED
    BY <1>3, <1>4, <1>5 DEF Over

(* An approval that is allowed, with an amount the checks can read, is of a *)
(* listed token, finite, within the cap, and within the limit of an enabled *)
(* entry for its token and spender.                                         *)
THEOREM ApprovalsAreBoundedHolds == Spec => []ApprovalsAreBounded
PROOF
  <1>1. JudgedInv => ApprovalsAreBounded
    <2> DEFINE n == AmountBigInt(call.amount)
               i == First(Entries(call, policy))
    <2> SUFFICES ASSUME JudgedInv, Allowed, Approves(call), n # None
                 PROVE  /\ call.token \in policy.tokens
                        /\ n < Uint256Max /\ n <= policy.erc20
                        /\ \E k \in DOMAIN policy.spenders :
                             /\ policy.spenders[k].enabled
                             /\ policy.spenders[k].token = call.token
                             /\ policy.spenders[k].spender = call.spender
                             /\ n <= policy.spenders[k].max
      BY DEF ApprovalsAreBounded
    <2>1. Findings(call, policy, sim) = {}
      BY DEF JudgedInv, CleanInv
    <2>2. /\ HasRequiredFields(call)
          /\ call.token # None => call.token \in policy.tokens
          /\ ~ Over(AmountBigInt(JudgedAmount(call)), Cap(call, policy))
          /\ ~ Unlimited(call)
          /\ Entries(call, policy) # {}
          /\ ~ OverLimit(call, policy)
      BY <2>1, CleanChecks
    <2>3. call \in Request /\ policy \in Snapshot
      BY CallShape
    <2>4. call.amount \in Amount /\ n \in Nat
      <3>1. call.amount \in Amount \cup {None}
        BY <2>3 DEF Request
      <3>2. call.amount # None
        BY DEF AmountBigInt
      <3> QED
        BY <3>1, <3>2, AmountShape
    <2>5. JudgedAmount(call) = call.amount /\ call.amount # None
      <3>1. call.tool = "approve_token" /\ Moved(call) = call.amount
        BY DEF Approves, Moved
      <3>2. call.amount # None
        BY DEF AmountBigInt
      <3> QED
        BY <3>1, <3>2, MovedIsJudged
    <2>6. call.token \in policy.tokens
      BY <2>2 DEF HasRequiredFields, Approves
    <2>7. n <= policy.erc20
      <3>1. Cap(call, policy) = policy.erc20 /\ policy.erc20 \in Nat
        BY <2>3, LimitsShape DEF Cap, Executes, Approves
      <3> QED
        BY <2>2, <2>4, <2>5, <3>1 DEF Over
    <2>8. n # Uint256Max
      <3>1. EvidenceAtomic(call) = call.amount
        BY <2>5 DEF EvidenceAtomic, Executes, Approves, OrElse
      <3>2. /\ call.amount.form # "uint256.max"
            /\ call.amount.form = "canonical" => call.amount.n # Uint256Max
        BY <2>2, <2>5, <3>1 DEF Unlimited, OrElse
      <3>3. call.amount.form = "canonical" /\ n = call.amount.n
        BY <2>5, <3>2 DEF AmountBigInt
      <3> QED
        BY <3>2, <3>3
    <2>9. n < Uint256Max
      <3>1. policy.erc20 \in Nat /\ policy.erc20 <= Uint256Max /\ Uint256Max \in Nat
        BY <2>3, LimitsShape, AmountConstants
      <3> HIDE DEF n
      <3> QED
        BY <2>4, <2>7, <2>8, <3>1
    <2>10. i \in Entries(call, policy)
      <3>1. Entries(call, policy) \subseteq Nat
        BY <2>3, LimitsShape DEF Entries
      <3> QED
        BY <2>2, <3>1, LeastElement
    <2>11. /\ i \in DOMAIN policy.spenders
           /\ policy.spenders[i].enabled
           /\ policy.spenders[i].token = call.token
           /\ policy.spenders[i].spender = call.spender
      BY <2>10 DEF Entries
    <2>12. n <= policy.spenders[i].max
      BY <2>2, <2>3, <2>4, <2>5, FirstEntryBounds
    <2> HIDE DEF i, n
    <2> QED
      BY <2>6, <2>7, <2>9, <2>11, <2>12
  <1> QED
    BY <1>1, JudgedInvariance, PTL

(* What was simulated for an allowed transfer or approval, of a canonical   *)
(* amount that no other field is read before, is the amount the caps        *)
(* judged, unless it is below SmallAmount: then it is that many MON.        *)
THEOREM SimulatedAsJudgedHolds == Spec => []SimulatedAsJudged
PROOF
  <1>1. JudgedInv => SimulatedAsJudged
    <2> DEFINE n == AmountBigInt(JudgedAmount(call))
    <2> SUFFICES ASSUME JudgedInv, Allowed, Executes(call) \/ Approves(call),
                        Canonical(Moved(call)), Unshadowed(call)
                 PROVE  simulated = IF n < SmallAmount THEN n * Unit ELSE n
      BY DEF SimulatedAsJudged
    <2>1. Findings(call, policy, sim) = {}
      BY DEF JudgedInv, CleanInv
    <2>2. sim # "none"
      BY <2>1, CleanChecks DEF Executes, Approves, MutationTools
    <2>3. simulated = ToWei(SimulatedAmount(call))
      BY <2>2 DEF JudgedInv, SimInv
    <2>4. SimulatedAmount(call) = Moved(call)
      BY DEF SimulatedAmount, Moved, Unshadowed, Canonical, OrElse
    <2>5. JudgedAmount(call) = Moved(call)
      <3>1. call.tool = "transfer_token" => call.token # None
        BY <2>1, CleanChecks DEF HasRequiredFields
      <3> QED
        BY <3>1, MovedIsJudged DEF Canonical
    <2>6. n = Moved(call).n
      BY <2>5, CallShape
    <2>7. ToWei(Moved(call)) = IF Moved(call).n < SmallAmount
                                 THEN Moved(call).n * Unit ELSE Moved(call).n
      BY DEF ToWei, Canonical
    <2> QED
      BY <2>3, <2>4, <2>6, <2>7
  <1> QED
    BY <1>1, JudgedInvariance, PTL

-----------------------------------------------------------------------------
(* A tighter policy. *)

(* No two enabled entries are for one token and spender.                    *)
OneEntryEach(p) ==
  \A i, j \in DOMAIN p.spenders :
    /\ p.spenders[i].enabled /\ p.spenders[j].enabled
    /\ p.spenders[i].token = p.spenders[j].token
    /\ p.spenders[i].spender = p.spenders[j].spender
    => i = j

(* q takes from the lists of p, lowers its limits and disables its entries. *)
Tighter(q, p) ==
  /\ q.tools \subseteq p.tools
  /\ q.recipients \subseteq p.recipients
  /\ q.tokens \subseteq p.tokens
  /\ q.native <= p.native /\ q.erc20 <= p.erc20
  /\ DOMAIN q.spenders = DOMAIN p.spenders
  /\ \A i \in DOMAIN p.spenders :
       /\ q.spenders[i].token = p.spenders[i].token
       /\ q.spenders[i].spender = p.spenders[i].spender
       /\ q.spenders[i].enabled => p.spenders[i].enabled
       /\ q.spenders[i].max <= p.spenders[i].max

(* Over the higher limit is over the lower one.                             *)
LEMMA OverLower ==
  ASSUME NEW a \in Nat \cup {None}, NEW m \in Nat, NEW n \in Nat, m <= n, Over(a, n)
  PROVE  Over(a, m)
BY DEF Over

(* An approval over its limit in p has none in q, or is over it there too:  *)
(* the entry that counts is the same.                                       *)
LEMMA OverLimitStays ==
  ASSUME NEW r \in Request, NEW p \in Snapshot, NEW q \in Snapshot,
         Tighter(q, p), OneEntryEach(p), OverLimit(r, p)
  PROVE  Entries(r, q) = {} \/ OverLimit(r, q)
PROOF
  <1>1. PICK i \in Entries(r, p) : Over(AmountBigInt(JudgedAmount(r)), p.spenders[i].max)
    BY DEF OverLimit
  <1>2. \A j \in Entries(r, p) : j = i
    BY <1>1 DEF Entries, OneEntryEach
  <1>3. Entries(r, q) \subseteq Entries(r, p)
    BY DEF Entries, Tighter
  <1>4. SUFFICES ASSUME i \in Entries(r, q), \A j \in Entries(r, q) : j = i
                 PROVE  OverLimit(r, q)
    BY <1>2, <1>3
  <1>5. i \in DOMAIN p.spenders /\ DOMAIN q.spenders = DOMAIN p.spenders /\ i \in Nat
    BY <1>1 DEF Entries, Tighter, Snapshot
  <1>6. /\ q.spenders[i].max \in Nat /\ p.spenders[i].max \in Nat
        /\ q.spenders[i].max <= p.spenders[i].max
    BY <1>5, LimitsShape DEF Tighter
  <1>7. AmountBigInt(JudgedAmount(r)) \in Nat \cup {None}
    BY ReadAmounts, AmountShape
  <1>8. Over(AmountBigInt(JudgedAmount(r)), q.spenders[i].max)
    BY <1>1, <1>6, <1>7, OverLower
  <1>9. \A j \in Entries(r, q) : i <= j
    BY <1>4, <1>5
  <1> QED
    BY <1>4, <1>8, <1>9 DEF OverLimit

(***************************************************************************)
(* An owner who tightens the policy (takes from the lists, lowers the       *)
(* limits, disables entries) never lets a call through that was blocked     *)
(* before.  The hypothesis on the spender list is needed: assessRisk takes  *)
(* the first enabled entry for a pair, so disabling one would uncover the   *)
(* next.  Every policy the live proxy judges by fulfils it, since           *)
(* validatePolicySnapshot refuses a list that repeats a pair                *)
(* (policySnapshot.js:96-97).                                               *)
(***************************************************************************)
THEOREM TighteningNeverAllows ==
  ASSUME NEW r \in Request, NEW p \in Snapshot, NEW q \in Snapshot, NEW s,
         Tighter(q, p), OneEntryEach(p), Verdict(r, q, s) = "allow"
  PROVE  Verdict(r, p, s) = "allow"
PROOF
  <1>1. Findings(r, q, s) = {}
    BY AllowIsClean
  <1>2. \A i \in 1 .. 12 : ~ Checks(r, q, s)[i].found
    BY <1>1, ChecksShape DEF Findings
  <1>3. Over(AmountBigInt(JudgedAmount(r)), Cap(r, p))
          => Over(AmountBigInt(JudgedAmount(r)), Cap(r, q))
    <2>1. AmountBigInt(JudgedAmount(r)) \in Nat \cup {None}
      BY ReadAmounts, AmountShape
    <2>2. Cap(r, p) \in Nat /\ Cap(r, q) \in Nat /\ Cap(r, q) <= Cap(r, p)
      BY LimitsShape DEF Tighter, Cap
    <2> QED
      BY <2>1, <2>2, OverLower
  <1>4. Entries(r, p) = {} => Entries(r, q) = {}
    BY DEF Entries, Tighter
  <1>5. \A i \in 1 .. 12 : ~ Checks(r, p, s)[i].found
    <2>1. ~ Checks(r, p, s)[1].found /\ ~ Checks(r, p, s)[2].found
      BY <1>2 DEF Checks, Tighter
    <2>2. /\ ~ Checks(r, p, s)[3].found /\ ~ Checks(r, p, s)[4].found
          /\ ~ Checks(r, p, s)[5].found /\ ~ Checks(r, p, s)[9].found
          /\ ~ Checks(r, p, s)[12].found
      BY <1>2 DEF Checks
    <2>3. ~ Checks(r, p, s)[6].found /\ ~ Checks(r, p, s)[7].found
      BY <1>2 DEF Checks, Tighter
    <2>4. ~ Checks(r, p, s)[8].found
      BY <1>2, <1>3 DEF Checks
    <2>5. ~ Checks(r, p, s)[10].found
      BY <1>2, <1>4 DEF Checks
    <2>6. ~ Checks(r, p, s)[11].found
      BY <1>2, OverLimitStays DEF Checks
    <2> QED
      BY <2>1, <2>2, <2>3, <2>4, <2>5, <2>6
  <1>6. Findings(r, p, s) = {}
    BY <1>5, ChecksShape DEF Findings
  <1> QED
    BY <1>6 DEF Verdict

=============================================================================
