# Compass in TLA+

A verification development for Compass, the MCP proxy that stands between a
host (an LLM client) and the Wallet Agent on Monad Testnet, and decides for
every `tools/call` whether it may reach the wallet. It contains TLA+ modules of
the parts that carry that decision, TLC configurations that check them on small
instances, and TLAPS proofs of every safety property the passing
configurations check, for all values of the constants.

## The system

A host's call goes through these parts, in this order:

    host -> server.ts -> CallInterceptor -> guardedPipeline (runner)
            -> buildSimulationEvidence            (JSON-RPC: eth_call, eth_estimateGas)
            -> coverToolCall: consent gate, evidence
            -> guardedForward
                 -> fetchPolicySnapshot           (JSON-RPC: the CompassPolicy contract)
                 -> evaluatePolicy / assessRisk   (pure)
                 -> finalSafetyReview             (LLM, may only veto)
                 -> IdempotencyStore.runOnce      (executions and approvals)
                 -> UpstreamClient.callTool       (the wallet agent)
            -> AuditLog.record, answer to the host

Everything in the proxy runs on one JavaScript thread; interleaving happens at
awaits. The policy contract, its owner, the wallet agent and the LLM act on
their own.

| component | state | operations | what is hard | what makes it correct |
|---|---|---|---|---|
| Idempotency store `idempotency/idempotencyStore.js` | `_map`: key to pending / done / failed | `runOnce` | calls interleaving around the await, order of promise reactions, timeouts of forwards that still happen, restarts | a key executes at most once, all its calls agree, none is left waiting |
| Policy contract `contracts/src/CompassPolicy.sol` | owner, version, flags, caps; every list as array and as mapping | `updatePolicy`, `setFrozen`, `transferOwnership`, pagers | mappings reset by walking arrays, a mapping doubling as duplicate check | arrays and mappings agree, a version names one policy |
| Policy source `policy-source/` | one read in progress | `fetchPolicySnapshot`, `readPaged` | dozens of requests against a contract that changes meanwhile | an undisturbed read is exact, a frozen policy is never accepted, the read ends |
| Interceptor and runner `mcp/proxy/callInterceptor.ts`, `guardedPipeline.ts` | the calls in progress, audit events | `plan`, `handleUpstreamCall`, `run` | many early returns, each with its event; failing log writes | one terminal event, a truthful log, every call answered |
| Guarded forward, consent gate `guarded-forward/`, `action-coverage/` | none of its own | `guardedForward`, `coverToolCall` | the policy may change between its read and the forward | nothing is forwarded that has not passed every gate |
| Upstream client `mcp/proxy/upstreamClient.ts` | connected, tool list, chain and signer flags | `connect`, `callTool`, `shutdown`, bootstrap | shutdown between check and use, late execution after a timeout | only sends over a live connection |
| Risk and policy evaluation `risk/`, `policy/` | none | `assessRisk`, `evaluatePolicy`; `toWeiHex` of the runner | an amount may come in four fields, and each reader looks for them in an order and reads spellings in a way of its own | what is allowed is within the caps, and is what was simulated |
| Tool registry and exposure `tool-semantics/`, `toolMirror.ts`, `toolSemanticsBridge.ts`, `server.ts` | the registry (constant), the cached descriptors | tools/list, tools/call, `resolveToolForCall`, `filterHostExposedTools` | two ways to one decision, duplicate names, schema drift, no list while disconnected | what is callable is what is listed, and both are registered |
| Policy lifecycle `policy-contract-lifecycle/` | none of its own | `coverPolicyUpdate` | the policy a call works with is out of date, a forward without a timer, transactions that land later or never | only what passed every gate is sent, once for all who ask the same |
| Simulation, LLM review `monad-rpc/`, `llm/` | none | `buildSimulationEvidence`, `finalSafetyReview` | failures and timeouts | anything but success blocks |
| Audit log `back/services/audit/auditLog.ts` | the file | `record`, `tail` | a write that throws | see the interceptor |
| Digest, safe errors, redaction, meta tools, entry point, dashboard | | | pure functions, formatting, start-up, a static page | |

## The modules

| module | models | state and actions |
|---|---|---|
| `AtMostOnce` | the promise of the store | per key the executions, per call the verdicts and answers, as sets, so that a second one would show: `Execute`, `Decide`, `Answer`, `Refuse` |
| `IdempotencyStore` | `runOnce` | the map, and per call its program counter, the promise it created, the calls suspended on it. `RunOnceMalformed/Fresh/Join/Settled` are the branches up to the first await, `StartForward` the microtask that calls `fn`, `SettleForward` its end, `OwnerResumes` and `JoinerResumes` the code behind the awaits |
| `StoreRestart` | the store and the life of the process | adds `Restart`: the map and the suspended calls are gone, started forwards are not. `RunsIn`, `VerdictsIn` and `AnsweredIn` are what process `e` did, the state of its own `AtMostOnce` |
| `CompassPolicy` | the contract | one action per transaction that succeeds; `ClearedAllowed`, `StorableList`, `StorableEntries`, `EntriesAfter` are its loops; `Page` the pager |
| `PolicySource` | `fetchPolicySnapshot` over `CompassPolicy` | one action per request; `Transaction` is any step of the contract between two requests |
| `Gatekeeper` | the promise of the guarded pipeline to the owner of the policy and to the host | which calls passed, were sent, were executed, and what was told: `Ask`, `AskUnguarded`, `Pass`, `Send`, `Execute`, `Tell`, and the owner's `Publish` |
| `GuardedPipeline` | the way of a call from the interceptor to the wallet agent and back | composes the store (`INSTANCE IdempotencyStore`, one key per request) with the handler of each call, the versions of the policy, the connection and the audit log. One action per stretch between two awaits. `Passed`, `Sent` and `Executed` map its state to `Gatekeeper` |
| `UpstreamBootstrap` | `UpstreamClient.connect`, `bootstrapMonadChain`, `shutdown`, and `main` around them | the awaits of `connect`, the two try blocks of the bootstrap with a position in them, the two flags; `Resolved` and `Rejected` are how an awaited call ends, `Execute` and `Refuse` what the wallet agent does, whether or not anybody still waits |
| `ToolExposure` | the handlers of tools/list and tools/call up to the interceptor, the registry's resolver, `ToolMirror` | the cached descriptors, the list the host works with, per call the name and the answer. `Resolve` is the resolver; `HostList` and `ResolveForCall` are the two ways to it; one action per answer of the call handler, `Connect`, `ConnectFails` and `Shutdown` of the connection |
| `RiskPolicy` | the deterministic verdict: `extractEvidence`, `toWeiHex`, `amountBigInt`, `assessRisk`, `evaluatePolicy` | a call is simulated (`Simulate`) and judged (`Judge`); the rest is operators, one per check |
| `PolicyLifecycle` | `coverPolicyUpdate` over `IdempotencyStore` and a contract | `ReadPolicy` is the caller's, `Cover` the gates up to the first await, `ReviewPasses` and `ReviewBlocks` what follows the LLM, `ReturnForward` and `FinishAudit` what follows the forward; `TransactionLands` and `OwnerActs` are the chain's |
| `MC*` | instances for TLC | constants, a stuttering step once everything is over |
| `*Proofs` | the theorems of nine of the modules, in eight files | |

How they fit. A call's name is resolved in `ToolExposure`; what it answers
`admitted` is a request with exposure `visible` in `GuardedPipeline`, the other
refusals are its requests `malformed` and `drifted`. `GuardedPipeline` takes a
policy part by part, each part as the set of the requests it lets through;
`RiskPolicy` is how a verdict comes about for one request and one snapshot. Where
`GuardedPipeline` reads each part of the policy in one step,
`PolicySource` reads it page by page from the `CompassPolicy` it extends.
`GuardedPipeline` and `PolicyLifecycle` both instantiate `IdempotencyStore`.

Granularity. A call of `runOnce` is identified with the promise it may create,
so that "one promise per key" is a theorem and not a consequence of the
encoding. Reactions registered on one promise run in the order of their
registration; this is the sequence `waiters[p]`. A Solidity transaction that
reverts is no step. `GuardedPipeline` reads the policy as
`fetchPolicySnapshot` does: the identity, the caps, the flags, and then the
lists, side by side and each at a time of its own. So a decision may rest on
parts of several versions, and a call may be let through that no version lets
through; `Gatekeeper` promises what is left, that every part was in force while
the call was under way. One step stands for the pages of one list, since a
request needs one entry of it: the page with that entry is as the list was when
the page was read. `owner()`, whose answer no decision looks at, is left out
there. `PolicySource` reads page by page.

Data. A request is a record of what the pure checks will find in it (its class,
whether it is visible in the registry, whether its fields are there). A policy
is a freeze flag, the set of requests within its caps, and for each of its lists
the set of requests that need nothing the list lacks. The
idempotency key is a hash of the tool and of its canonical arguments: the
request itself stands for it. Hash collisions are left out.

A tool is a name of some sort (registered, unsupported, about keys, dangerous,
made up) and its schema one of four: the registered one, or another that is
harmless, has key fields or has dangerous fields. The hash comparison is
equality, the regular expressions are membership. An amount is a natural number
and the way it is spelled, since its readers differ in the spellings they
accept. A call may carry a `value`, an `amount`, an `amount_atomic` and an
`amount_wei`, whatever its tool, since `extractEvidence` spreads the arguments
into the evidence: `SimulatedAmount` is what the runner picks from them,
`JudgedAmount` what `assessRisk` does, `Moved` what the wallet agent's tool is
about. An argument that is given is a nonempty string; a recipient under another
name than `to` is left out.

`upstream[c] = "executed"` means that the wallet agent has handled the request;
an answer with `isError` is a result like any other for the proxy, which does
not look at it.

## The runs

Every property of a passing run has a mutant: a definition next to the
original, marked as such, that contains a plausible bug and that the property
detects.

| run | instance | shows |
|---|---|---|
| `IdempotencyStore` | 4 calls, 2 keys, 2 results, 1 failure | `AtMostOncePerKey`, `OutcomeAgreement`, `ReusedFlagIsTruthful`, `CommittedBeforeAnswered`, `SettledEntryIsFinal`, every call is answered, and refinement of `AtMostOnce` |
| `StoreRestart` | 4 calls, 1 key, 1 restart | what is left of it across a restart: a key executes once per process, a call is answered by its own process, it is answered or its process died, and each process implements `AtMostOnce` |
| `CompassPolicy` | lists up to 2 (and one too long), 3 versions, two owners | arrays and mappings agree (`MembershipMatchesList`), looking an entry up finds what a reader of the array finds (`LookupsAgree`), versions identify policies |
| `PolicySource` | lists up to 3, pages of 2, three lists, 3 versions | an undisturbed read is exact and is refused only for a visible reason, a contract frozen throughout is refused, the read ends |
| `GuardedPipeline` | 2 calls out of 6 kinds of request, 2 lists, 2 policy versions, with and without a policy contract, writes of the log may fail | only cleared calls reach the wallet agent, a freeze stops everything received later, one terminal event per call, the log does not lie, and refinement of `Gatekeeper` |
| `GuardedRetries` | 3 calls for one approval | the wallet agent is asked once; every call is answered |
| `UpstreamBootstrap` | every setting of the two key variables, two chain calls of the host, timeouts with late execution, refusals, a wallet agent that dies | an undisturbed bootstrap ends on Monad with the operator's signer, flags are earned, the signer is lost only to late or host calls, the host is served in the end |
| `ToolExposure` | a tool of every sort, every list of up to 2 descriptors, duplicates included, one call, with and without a policy contract | what is admitted is exposed and what was listed stays callable, the host is shown registered schemas, an outage widens nothing, drift is reported on evidence only |
| `RiskPolicy` | every tool, 12 amounts around the caps and limits, each with up to three more in the other fields, 96 policies | allowed transfers are capped, approvals bounded, and what was simulated is what was judged, as far as each holds |
| `PolicyLifecycle` | 2 calls out of 8 proposals, two accounts, 3 versions, callers with a store and an audit writer and callers with neither | nothing unguarded is sent, once per intent, "allow" rests on a transaction, only an open forward holds a call back |

Two runs show where the code does something other than the project's documents
say; each checks one property stating the document's sentence.

| run | document | code |
|---|---|---|
| `GuardedTornRead` | the record's version identifies the policy that governed the decision (wave-4 `guarded-forward-record-audit/spec.md:21`) | the version is read first, caps, flags and lists later, at no fixed block |
| `RiskPolicyChain` | `switch_chain` is allowed only to chain 10143 (wave-5 `chain-management-coverage/spec.md:27`) | the chain compared with 10143 is the runner's constant 10143, not the one the call asks for (`guardedPipeline.ts:86`, `evidenceExtractors.js:25`) |

More differences are visible in the models. No run is there to refute the
document's sentence; the property in brackets says what the code does keep.

- No second execution for a key (wave-4 `idempotency/spec.md:21`): the map is
  in memory only, so a retry after a restart executes again
  (`AtMostOncePerProcess`).
- The contract rejects duplicate keys (wave-3 `design.md:302`): a disabled
  spender entry may be followed by another with the same key, and the proxy
  then refuses the whole policy (`LookupsAgree`, `QuietReadIsExact`).
- Every outcome has its audit event (wave-4
  `call-interceptor-pipeline/spec.md:49`): the event is written after the
  forward; if that fails the call is logged as an upstream error, or not at all
  (`OneTerminalEvent`, whose last case this is).
- The signer is imported after the chain is configured, else it gets reset
  (`upstreamClient.ts:177`): the import goes on when a chain call has timed
  out, and that call may still be carried out
  (`SignerLostOnlyToLateOrHostCalls`).
- A call with missing evidence is blocked before any policy read (wave-4
  `call-interceptor-pipeline/spec.md:24`): `guardedForward` reads the policy
  first (`guardedForward.js:75`). The call is blocked either way.
- Amounts are bounded by the caps (wave-3 `design.md:506`), and recipient, token
  and amount of an execution are validated (wave-5
  `transaction-execution-coverage/spec.md:37`): an amount that is no canonical
  decimal is null to the checks and skips the caps (`riskChecks.js:48`); and the
  caps see `amount`, or without a token a host's `amount_atomic`, in the place
  of the `value` that `send_transaction` moves. Hence the two preconditions of
  `TransfersAreCapped`; a transfer of a token needs only the first.
- Unknown amounts of approvals are blocked (wave-5
  `token-allowance-coverage/spec.md:11`): an amount like `max` or `0xff` is
  neither found unlimited nor compared with a limit. `ApprovalsAreBounded` is
  about the amounts the checks can read.
- The value simulated is the one judged: the runner simulates `value` before
  `amount`, the evidence takes `amount` before `value`, and an integer below
  10^9 is simulated as so many MON but judged as so many wei. These are the
  precondition and the exception of `SimulatedAsJudged`.

Bounds. `MaxRestarts`, `MaxVersion`, `MaxLength`, `PageSize`, `MaxTools`, the
number of calls and the sets of requests, proposals and policies are the only
bounds. Two calls show every race of one handler with
another; the store needs an owner, a joiner, a later call and one on another
key, hence four; a retry of a retry needs three. One policy change during a
read is enough to tear it, the third version lets a list shrink and grow again.
Lists of three with pages of two give a full page, a partial one and an empty
rest. The two policies of `GuardedPipeline` are an open one and a frozen one;
neither lets one of the requests through, but the caps and the first list of
the one together with the second list of the other do, so that a torn read has
every outcome. Two lists are enough for their reads to be apart; what is
simulated and then forwarded directly (a signature) is a transfer up to the
review and a balance from there on, so that it is not among the requests.
Two descriptors are enough to list one name twice with two schemas, or two
names of different sorts. In `RiskPolicy` a MON has 6 wei and amounts below 4 are
small, so that one amount lies on each side of every limit and cap; 2^256 - 1
is 100, which is a cap and a limit too, so that it is the check of unlimited
approvals that finds it. A further amount is missing or within every limit, so
that one standing in front of the amount that counts would hide it. The
spender lists have an enabled entry, a disabled one, one without a limit to
speak of, and two for different spenders.
In `PolicyLifecycle` the two calls may have the same intent or not, one proposal
is there for every gate that refuses, and the third version lets both
transactions land, or the owner get in between.
`GuardedPipeline` uses symmetry of the calls and checks safety only; the
runs with liveness use none.

Fairness. Promise reactions and microtasks always run. A forward ends because
the MCP client races it against `callTimeoutMs` (30 s); simulation requests and
the LLM have timers of 15 s (`jsonRpcTransport.js`, `azureClient.js`); policy
requests have viem's; `connect` and each call of the bootstrap have theirs
(`withTimeout`, the SDK's `timeout`). So every handler step is weakly fair, with failure among
its outcomes. Nothing is assumed of the host, the owner of the contract, the
wallet agent (`UpstreamExecutes` may never happen), the connection or restarts.
`ReadEnds` assumes that requests are served or fail, and holds even if the owner
shortens the lists under the reader: every turn of the loop advances the cursor
or stops. In `PolicyLifecycle` the forward is awaited without a timer and is
not fair either: `OnlyAnOpenForwardHoldsACall` is what remains of liveness.

`main` awaits `connect` before it serves the host, so `Connect` needs all calls
idle. A failed connect is the behaviour in which it never happens. `Shutdown`
is the assignment at the end of `UpstreamClient.shutdown`; the process exits
soon after, so that what calls do from then on is more than the code can do.

## What is proved

Every theorem holds for all values of the constants that satisfy the named
assumptions of the modules: any number of calls, any set of keys, requests and
policies, any bound. None of the properties is inductive as it stands; each
proof module defines the inductive invariant it needs and derives the
properties from it.

`IdempotencyStoreProofs`, from `NoneIsNothing` and `OutcomesAreDistinct`:

- `StoreInvariance`: that a second `fn` cannot start needs to know that a key
  whose entry is absent has no promise at all, that a pending entry names the
  call whose promise it is, and that a promise that has not been committed has
  its owner first in line. `StoreInv` relates the map to the promises, and the
  promises to the queues of calls suspended on them.
- From it the four invariants of the run and, for steps, `SettledEntryIsFinal`.
- `Refinement`: `Spec => ImplementsAtMostOnce`. The starts of `fn` map to
  `Execute`, their settling to `Decide`, returning or throwing to `Answer` or
  `Refuse`, everything else to stuttering. The mapping collects, per key, every
  promise that started and every outcome; that these sets have at most one
  element is part of what is proved.

`StoreRestartProofs`, on top of it and from `MaxRestartsIsNat`:

- `RestartInvariance`: the whole state has no invariant like the store's, since
  a key may have a promise in every process. But seen from inside the running
  process (`RunningStore`: calls of processes that are gone are masked out) a
  step of that process is a step of the store, a forward left by a dead process
  settles unseen, and a restart is the initial state. So the lemmas about the
  store's steps apply to `RunningStore`; what is new is that the calls of dead
  processes are finished or lost, and at most a forward of theirs is running.
- From it `AtMostOncePerProcessHolds`, `AnsweredByOwnProcessHolds`, and
  `EachProcessRefines`: over the whole behaviour, every process implements
  `AtMostOnce`, and no step of one process shows in another. `ProcessRefinement`
  says it of one process in the usual form, `RestartSpec => InProcess(e)!Spec`.

`PolicySourceProofs`, its first part, about `CompassPolicy` and from
`CandidatesArePolicies` and `ContractConstants`:

- `PolicyInvariance`: arrays and mappings agree. The lookup of keyed entries
  needs one fact more than the property says: the entry stored under a key
  carries that key. Lemmas say what the loops over the arrays leave behind.
- From it `MembershipMatchesList`, `LookupsAgree`, `VersionIdentifiesPolicy`,
  that the lists are sets, and `EnabledOnce`: nothing is stored under a key after
  an enabled entry, so the first enabled entry for a key is the only one.

`PolicySourceProofs`, its second part, from `SourceConstants` as well:

- `ContractHolds`: the contract under the reader is `CompassPolicy`, so its
  theorems hold there.
- `ReadInvariance`: as long as the version has not changed, every list has been
  read as far as the cursor says and the counts are the lengths; so no page can
  stall, and adjacent pages concatenate to the array. A freeze that lasts is
  found in the identity or in the flags, whatever the rest turns into.
- From it `QuietReadIsExact`, `FrozenIsRefused` and type correctness.

`GuardedPipelineProofs`, from `PipelineConstants`:

- `StoreDriven`: `Spec => Store!Spec`, the composition uses the store as the
  store allows. Hence `StoreInvariantHolds` by instantiating the theorem of
  `IdempotencyStoreProofs`.
- `PipelineInvariance`: on top of it, what is true of a call at each stage. The
  link between the two is that a call has a promise, or waits on one, only if
  it was cleared for that very request, and that what is sent is a promise that
  has started or a direct forward.
- From it the four invariants of the run `GuardedPipeline`, type correctness,
  `AtMostOneForwardPerIntent`, and two properties that are proved and that no run
  checks: `RefusedNeverContacts` (a refusal leaves nothing behind
  in the store) and `SendsOnlyWhileConnected`.
- `StoreKeepsItsPromise`: the pipeline as a whole implements `AtMostOnce` on its
  requests, by `StoreDriven` and the store's own refinement.
- `GatekeeperImplemented`: `Spec => ImplementsGatekeeper`. The end of a review
  that finds the call safe maps to `Pass`, the start of a forward to `Send`, what
  the wallet agent does to `Execute`, an answer to `Tell`; reading, reviewing and
  logging stutter. The invariant above says of a call what holds now; the
  refinement needs what it went through (`TraceInv`): a verdict is given
  once, whoever waits has not been answered, and there are versions in the order
  of the reads (`CapsRead`, `ListsRead`): one that was not frozen for the
  identity, one with the request in its caps, one that was not frozen for the
  flags, and for every list that has been read one that had what the request
  needs. The result
  a joiner is told is an execution of the call whose promise it joined.

`PolicyLifecycleProofs`, from `LifecycleConstants` and `NoneIsNoIntent`, in the
same way: `StoreDriven`, `LifeInvariance`, and from them `NothingUnguarded`,
`OneTransactionPerIntent`, `AllowedWasForwarded`, `RecordedPriorIsPast` (proved
only) and `StoreKeepsItsPromise`.

`UpstreamBootstrapProofs`, from `HostCallsAreOthers`: `BootInvariance` relates the
position of the bootstrap to what each of its calls has done or may still do.
From it `FlagsAreEarned`, `QuietBootstrapProvisions`,
`SignerLostOnlyToLateOrHostCalls` and `HostWaitsForBootstrap` (proved only).

`ToolExposureProofs`, from `NamesAreSorted`: `ExposureInvariance`, that every
answer and every tool shown is explained by the descriptors, which a shutdown
keeps; from it the four invariants and `ListedIsCallable`.

`RiskPolicyProofs`, from `AmountConstants`, `InputsAreShaped`,
`ChainsAreDistinct` and `NoneIsNoInput`: `JudgedInvariance`, that an allowed call
is one no check objected to and was simulated with the amount the runner picked.
The three properties follow check by check, with `MovedIsJudged`: the amount
that is moved is the one compared with the caps, for transfers and approvals of
tokens always, for `send_transaction` if nothing stands in front of its value.
They hold for every cap and every amount within their preconditions, and say
nothing of other spellings. `TighteningNeverAllows` compares two policies: one that takes from the lists,
lowers limits or caps or disables entries allows no call that the other blocks.
It needs `OneEntryEach`, at most one enabled entry of the looser policy per
token and spender, and is false without: `assessRisk` takes the first enabled
entry, so disabling it would uncover the next. Every policy the live proxy judges
by has it: `validatePolicySnapshot` refuses a list that repeats a pair
(`policySnapshot.js:96`), and the contract stores no two enabled entries of a
key in the first place (`EnabledOnceHolds`).

The type invariants of `ToolExposure`, `RiskPolicy`, `PolicyLifecycle`,
`UpstreamBootstrap`, `IdempotencyStore`, `CompassPolicy`, `PolicySource`,
`GuardedPipeline` and `StoreRestart` are theorems and not listed in a run.

Only model-checked: the liveness properties, which the prover does not reach
(`EveryCallIsAnswered`, `ReadEnds`, `HostIsServed`, `AnsweredOrLost`,
`OnlyAnOpenForwardHoldsACall`). Each rests on fairness and on an argument about
what is enabled. Of the pure functions nothing is proved by induction over data;
they are written without recursion, over sets and functions.

## What is not modelled

- The gas cap, which the live pipeline never feeds; the text of arguments; the
  canonical form behind the digest and the hashes of schemas.
- The content of LLM contexts, safe errors and redaction, the record's fields.
- The buffer of captured stderr, the meta tools' answers, reading the audit log
  back.
- The policy cache, which the live proxy does not construct.
- `auditWriter` of the guarded forward, which the live pipeline never passes.
- The evidence taken from the arguments of read-only tools.
- The dashboard (a static page) and the deployment scripts.

## Plan

Everything planned has been built, in this order: the store and its refinement,
the contract, the policy read, the composed pipeline, the bootstrap of the
upstream, the exposure of tools, the risk checks, the policy lifecycle, the
proofs of all of them, and the pipeline's abstract specification `Gatekeeper`
with its refinement. What would come next:

1. An abstract specification of the policy read: one atomic read of the
   contract when no transaction intervenes, refined by `PolicySource`.
2. The same for `PolicyLifecycle`: the updates an owner has cleared, each sent
   once.
3. `RiskPolicy`'s verdict as the set of requests that a policy of `Gatekeeper`
   permits, so that `TighteningNeverAllows` speaks of whole behaviours.
4. The policy cache, should the proxy begin to use it: a stale policy that is
   still within its time.
5. The redaction of secrets before anything is logged or sent to the LLM.
