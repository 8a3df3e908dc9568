# A formal model of the Steady State DeFi protocol

TLA+ specifications of the contracts of this repository and of the TypeScript
tools that deploy, verify, test and call them, the TLC configurations that
check them on small instances, and proofs of theorems about them that the TLA+
proof system (TLAPS) checks for every size.

The protocol is a market for cover. *Insureds* (policies of projects) ask
*insurers* (index pools) for coverage; *investors* put collateral into the
pools; the coverage is allocated to insureds round by round; insureds stream
premium to the insurers, and the premium of investors is turned into tokens by
the premium fund. Everything that changes state is a transaction on one chain:
transactions are atomic and run one after the other, in an order nobody
controls. What is hard is not parallelism inside a call but

* the *order of calls* of many independent actors, over a long life of a pool;
* *lazy bookkeeping*: loops are cut by a limit in gas and finished by later
  calls, totals are adjusted later, premium is integrated only when something
  changes; a value may be stale when it is read;
* *two contracts with a record of one relation*, which call back into each
  other inside a transaction;
* *integer arithmetic*: shares and premium are rounded, and somebody must not
  lose by it;
* *reverts*: a failed check takes the whole transaction back, so a condition
  that cannot be met any more locks money up.

The tools are another kind of program: single processes without memory but a
JSON file, which talk to a chain and to a block explorer. Hard for them are

* *kills*: a process ends between two transactions, or between a transaction
  and the note about it, and the next run has to find out what is there;
* *an outside that answers late, wrongly, or not at all*: transactions that are
  sent and never mined, an explorer that is busy, a provider that times out;
* *several processes*, or administrators, at work on one file or one market.

## 1. Inventory

### The contracts

All paths are below `src/contracts`.

#### Weighted rounds engine - `insurer/WeightedRoundsBase.sol`, `insurer/Rounds.sol`

State: a one-way list of *batches* of identical *rounds* (full ones, one
partial, open and ready ones, an empty one at the head); for every insured a
log of *demand slots* (first batch, number of rounds, units per round, rate),
the place its reconcile got to and its collected units; the partial state
(batch, full rounds, coverage of the round in progress); premium accumulators
of the pool and of each insured, and time-weighted integrals for the partial
batch; sets of insureds with more demand, by batch.
Operations: add demand; add coverage; reconcile (collect) coverage; cancel
demand; cancel coverage; apply adjustments to totals; find a pull candidate.
Hard: one insured's demand is split, merged and cancelled in batches that other
insureds' logs name; every loop has a limit; totals before a batch are lazy.
Correct when: logs and batches describe one and the same demand; coverage is
neither created nor lost; insureds collect in sum what the pool covered, in
whatever pieces; nobody exceeds its share; premium paid covers premium out.

#### Weighted pool configuration - `insurer/WeightedPoolConfig.sol`

State: pool parameters. Operations: the strategies of the engine - how many
rounds a new batch has, how many units a round takes and from whom, when a
batch is split - and the approval of an insured's parameters on joining.
Correct when: the strategies keep the hard limits for every legal parameter.

#### Join protocol - `insurer/InsurerJoinBase.sol`, `insurer/JoinablePoolExtension.sol`, `insurer/WeightedPoolAccessControl.sol`, `insured/InsuredJoinBase.sol`

State: at the insurer a member status by insured; at the insured an account
status by insurer, which is also an index into two lists. Operations: request,
withdraw, decide, end. They call each other back in a transaction
(`joinPool` -> `requestJoin` -> `joinProcessed` -> `pullCoverageDemand` ->
`addCoverageDemand`). Hard: a decision races a withdrawal and a new request; a
failure of `joinProcessed(false)` is swallowed; either side can end the
membership. Correct when: the two records agree and only members have demand.

#### Insured pool - `insured/InsuredPoolBase.sol`, `InsuredPoolMonoRateBase.sol`, `InsuredBalancesBase.sol`, `PremiumCollectorBase.sol`, `libraries/Balances.sol`

State: rate and amount of premium by insurer and in total, demand left to
place, coverage received. Operations: place demand, reconcile with insurers,
collect premium, cancel all coverage. Hard: premium is streamed by the demand
that was placed and corrected later to what was covered. Correct when: the
total is the sum over the insurers and nothing is charged twice.

#### Index pools - `insurer/ImperpetualPool*.sol`, `PerpetualPool*.sol`, `WeightedPool*.sol`, `DirectPoolBase.sol`

State: shares of investors, excess coverage, given advances and drawdown on
top of the engine. Operations: invest (mint), reconcile, pay-out and
settlement on cancellation, draw down; demand is auto-pulled from insureds in
the middle of an investment. Correct when: the value of the pool is covered by
its collateral, and an operation of one actor does not change what the shares
of another are worth but by rounding.

#### Premium fund and balancer - `premium/PremiumFundBase.sol`, `premium/BalancerLib2.sol`

State: for every insurer (actuary) its assets with accumulated amount, rate and
value, the premium sources by asset, totals. Operations: rate changes reported
by the insurer, sync, replenish from a source, swap one or several assets for
premium value, fees. Hard: external calls to a source inside a swap; totals of
assets synchronised at different times; a price that rises when an asset is
short. Correct when: totals are the sums over the assets and nobody takes more
value than was accrued.

#### Collateral - `funds/CollateralFundBase.sol`, `funds/CollateralCurrency.sol`, `currency/*`

State: collateral tokens with holders of three kinds (plain, restricted,
managed), sub-balances, borrowed amounts by strategy. Operations: deposit and
withdraw at a guarded price, transfer, open and close sub-balances, borrow and
repay, distribute yield. Correct when: supply is the sum of the balances, own
and given parts add up, and borrowing never exceeds what is lent.

#### Governance - `access/*`, `tools/SafeOwnable.sol`, `governance/*`, `tools/upgradeability/*`

State: role masks, singletons, holders of roles, a temporary admin with an
expiry, an owner with a hand-over in two steps; applications and claims with a
state; proxies and their implementations; revisions of initializers.
Operations: grant and revoke, set and protect an address, calls with roles that
are lent to the caller for one call, in batches through a helper. Hard: a role
is kept twice, by address and by role; a call that runs with lent roles may
call back; the temporary admin may be thrown out in the middle of it. Correct
when: the masks and the lists of the roles agree; nobody keeps a right that was
revoked, lent or expired; an application or a claim goes through its states in
order; an initializer runs once for each revision.

#### Pricing - `pricing/*`

State: price sources, cross prices, back-up sources, safety bands, fuses.
Correct when: no price outside its band is used after a fuse blew.

Token base classes, pure math, the read-only front end helper, mocks and
interfaces carry no protocol state of their own.

### The tools

Paths are below `src`.

#### Deployment - `tasks/deploy/*`, `helpers/deploy-db.ts`, `helpers/factory-wrapper.ts`, `helpers/deploy-helpers.ts`

State: the file (named contracts, instances, proxies, notes of the explorer);
the chain; the locals of a step, of which `newDeploy` decides what is looked up
first. Operations: the task `deploy-full` runs ten steps of lookups, deployments
and set-up transactions, then an access test and a smoke test, and gives its
rights back; it starts from nothing or goes on with the file. The file is
written before a contract is mined, and after a proxy is. Hard: a kill at any
point, lost transactions, and the hour after which anyone may take the
temporary administrator out. Correct when: file and chain agree; a contract is
never deployed twice; success is announced for a complete market only; a
repeated run finishes the work.

#### Verification of contracts - `tasks/tools/verify-all.ts`, `helpers/contract-verification.ts`

State: the notes in the file; what the explorer knows. Operations: select the
contracts of a batch or a filter; send the source of a contract; have a proxy
recognised, by a request that is polled or by a web form in three pages; note or
report the result. Hard: tries that run out while the explorer still accepts;
two processes that read and write the file as a whole; a proxy that was upgraded
since. Correct when: no note is false, every failure is reported, and what can
be verified is noted in the end.

#### Access test - `tasks/deploy/full/97-access-test.ts`, `helpers/access-verify/*`

State: a queue of contracts, the catalog of expected refusals. Operations: a
stranger calls every function that is not a view, at every contract and proxy
and through the interfaces of their delegates. Hard: a name is looked up in two
forms and in lists that differ for implementations and proxies. Correct when:
it fails when a stranger gets in, and passes otherwise; on two networks it is
skipped, and says nothing.

#### Call commands - `tasks/tools/call-cmd.ts`, `tasks/subtasks/call-cmd.ts`

State: none but the file; the access controller changes under it. Operations:
cut the command line, resolve objects, roles and functions, send one call or a
batch with roles. Correct when: what was written is called, with the roles it
was written with.

`PROJECT.json` lists every component with its status, and under `hazards` each
place where one of this can go wrong, with the properties that cover it.

## 2. Modules

| module | models |
| --- | --- |
| `WeightedPoolConfig` | the strategies of `WeightedPoolConfig.sol`, pure operators over the pool parameters |
| `WeightedRounds` | the engine with those strategies, as `WeightedPoolExtension`, `JoinablePoolExtension` and `WeightedPoolBase` call it |
| `WeightedRoundsProperties` | what the engine promises |
| `MCWeightedRounds` | constants and restricted specifications for TLC |
| `JoinProtocol` | both sides of a membership and the transactions between them, with the properties |
| `MCJoinProtocol` | names for TLC |
| `PremiumFund` | the premium fund with the balancer of an actuary |
| `PremiumFundProperties` | what the fund promises to insureds, investors and the treasury |
| `MCPremiumFund` | constants and restricted specifications for TLC |
| `SafeOwnable` | the ownership of a contract |
| `AccessController` | the access controller and its helper, with the ownership |
| `AccessControllerProperties` | what it promises |
| `DeployDb` | the file of the tools: what a write makes of it, and lookups |
| `DeploySteps` | the steps of a full deployment as a script |
| `SetupContracts` | the chain as the tools meet it: which transaction is accepted, and what it does |
| `Deployment` | the process, the mempool and the faults, over the three before |
| `SetupPlan` | the abstract specification of a deployment |
| `DeploymentProperties` | what a deployment promises, and the refinement of `SetupPlan` |
| `VerifyAll`, `VerifyAllProperties` | the workers of `verify:all-contracts`, and what they promise |
| `CallCmd` | `call-cmd` on top of `AccessController`, with the properties |
| `AccessCheck` | the access test, with the properties |
| `MCDeployment`, `MCVerifyAll`, `MCCallCmd`, `MCAccessCheck` | constants for TLC |
| `WeightedRoundsProofs`, `CollectionProofs` (what insureds collect from the engine), `JoinProtocolProofs`, `PremiumFundProofs`, `CallCmdProofs` (with the access controller), `DeploymentProofs`, `TaskProofs` (verification of contracts and access test) | theorems |
| `FoldLemmas` | lemmas about sums over a set and loops over a sequence, for the proofs |

### WeightedRounds

Variables are the storage slots of `WeightedRoundsBase.sol:56-113`, by name
(`_batches` is `batches`, and so on; the deprecated and unused ones are left
out), and two more: `now` is `block.timestamp`, `allocated` is a history
variable, the coverage that callers put in and did not get back.

Each operation of the engine is an operator from a storage record to an
outcome: new storage, results, and `panic`, which is TRUE when a
`Sanity.require` or a checked subtraction fails. Actions are the entry points
that the pools offer (`addCoverageDemand`, `addCoverage`,
`receiveDemandedCoverage`, `cancelCoverageDemand`, `cancelCoverage`,
`applyPendingAdjustments`, `pullDemandCandidate`, and `Tick` for time); an
action takes a step only if nothing panics, as a revert changes nothing, and
`SanityHolds` says that the panics are out of reach where nothing is cancelled, and
`WholeBatchesCancellable` that they are for certain cancellations. The check of the
insured's `minPremiumRate` (`WeightedRoundsBase.sol:161`) is left out: it refuses a rate
before anything is read or changed.
Writing operations as operators lets a property call one: "a reconcile from
scratch would find the same coverage" is `ReconcileIsIncremental`.

A Solidity loop is `Iterate(step, frame, n)`: the frame holds the local
variables of the function, the step is the body, and the loop limit is one of
them; where a `while` loop is bounded by the list, the number of batches bounds
the iteration.

Left out: integer widths and the caps at 2^24 rounds; gas; the choice of the
loop limit by kind of call (any limit of the configuration may occur); the
views for totals and rate bands; the loop in `pullDemand` that calls insureds
(its search for candidates is in). An insured that lost its coverage does not
come back, as in `JoinProtocol`.

### JoinProtocol

Variables: `status` (insurer's record), `accountStatus`, `genericInsurers`,
`charteredInsurers` (insured's record), `cancelledInsureds` (rates were
cancelled) and `demanded` (insureds with demand or coverage at an insurer). An
action is a whole transaction with its callbacks. A governor that is a contract
answers any status (`Governed`); otherwise the decision comes by
`approveJoiner`. Whether demand is placed on acceptance is a free choice, as is
the lack of approved parameters, which rejects an accepted insured. Approved
applications and access rights are preconditions of the callers.
`STATUS_MAX` is 65535 in the code and small in the run, so that the index does
reach its limit.

### PremiumFund

One actuary (insurer) with its sources (insureds) and assets; actuaries share
nothing in the fund but the records of the tokens. Variables: `state` and
`suspended`, `knownTokens`, `tokenActuaries` (who takes part), `sourceToken`,
`activeSources`, `nextReplenish`, `sourceBalances` (sources), `totalBalance`,
`balances`, `configs` (the balancer, by token), `collectedFees`; by the names of
`PremiumFundBase.sol:36-91` and `BalancerLib2.sol:76-106`. Four more: `held`
(tokens the fund owns at the ERC20 contract), `takenFees` (a history variable),
`allocated` (what the actuary has allocated to a source, so that it reports what
an actuary would) and `formerSources`.

The code works on copies of the total and of the balance in memory, which are
stored by some paths and dropped by others, and on storage for everything else.
A *frame* has both, and the functions of the balancer are operators from a frame
to a frame: `replenish` is `_replenishAsset` with the callback `_replenishFn`
and the collection from the source, `rateReplenished` is what `replenishAsset`
and `_premiumAllocationUpdated` do with the result, `swapped` is `_swapAsset`.
`saveFrame` is `_save`. `SwapAsset` and `SwapAssets` store what their code
stores. A checked subtraction that fails sets `reverted`, and then the action
takes no step.

Actions: `RegisterActuary`, `UnregisterActuary`, `PauseActuary`, `PauseToken`,
`PauseAsset`, `SetAssetConfig`, `CollectFees` (administration);
`RegisterSource`, `UpdateAllocation`, `FinishAllocation`, `UnregisterSource`
(the actuary); `SyncAsset`, `SwapAsset`, `SwapAssets`, `SwapCollateral` (users).
A source pays what it is asked, a part, or nothing, on each call.

The actuary is assumed to report no less than its last report and the last rate
make, which is what `WeightedRounds` accrues; `late` is what it reports above
that. An insured becomes a source once (`MembershipIsFinal` of `JoinProtocol`).
Left out: the price curve and the balancing factor (`_calcAmount`,
`_calcScale`), so a swap gives out any amount and takes any fee, and the point
of starvation is any of a set; the user's balance at the insurer
(`burnPremium`); an instruction for collateral in a batch, which changes no
total; approvals; widths of integers.

### AccessController

Variables by the storage of `AccessControllerBase.sol:37-52`: `masks`
(`_masks`), `mode` and `single` (`_singlets`, the two fields), `multi`
(`_multilets`), `singletons`, `temp` (the temporary administrator; `expired`
stands for the block time against `_expiresAt`), and `own` from `SafeOwnable`. A function of the contract is an action with the
sender as its parameter.

A batch of calls with roles is one transaction but is modelled step by step:
`BeginCalls`, then `LendRoles` and `CallReturns` for each call, then
`BatchEnds`; `BatchReverts` puts back the state saved at the beginning. `call`
holds the batch. What a contract may do while it is called is what anybody may:
of the functions of the controller only `renounceTemporaryAdmin` is open to all
(`CallBack`), and it can change the very masks that the batch will write back.
`callWithRoles` of one contract, which itself receives the roles, is the same
with `direct`. Temporary administrators and owners are external accounts. A
batch names contracts by address, as `call-cmd` does, never by `callFlag`.

### Deployment

The three modules below it are without variables. `DeployDb` has one operator
for each write of the file, and where the code writes twice there are two of
them (`AddInstance`, `AddNamed`). `SetupContracts` describes the chain by which
addresses have code and by a set of facts <<item, contract, argument>>; it says
which transaction the contracts accept (a role set once, no default
implementation of an old revision, roles of the administrator) and what an
accepted one changes, with the copy of the default configuration that a new
actuary gets (`WithActuary`). `DeploySteps` is the text of the steps: a
sequence of instructions such as "deploy unless the file names it", "skip what
follows if this fact is on the chain", "send", with the local `newDeploy` that
lets a step leave lookups out.

`Deployment` runs the script. `proc` is the process, `pc` its place in the
script, and an instruction that is not atomic goes through phases: a contract
is sent, recorded, named, and waited for (`DeploySend`, `DeployRecord`,
`DeployName`, `ReceiptOk`), and the process may be killed between any two. A
transaction goes into `mempool` and is mined in order, whether its process
still lives or not; a node that estimates on its pending state may let a
transaction through that will revert. Faults are `Crash`, `Drop` (the nodes
forget what was sent; the nonces, and with them addresses, are taken again) and
`Seize` (after an hour somebody renounces the administrator); the operator
starts again (`StartIncremental`, `StartClean`) or kills a process that waits
for ever (`Abandon`). `97-access-test.ts` and `98-smoke-test.ts` are one step
each with the condition under which they pass; the first has its own module.

`SetupPlan` is the promise: goals are reached in order, but for contracts, which
may be deployed ahead of their time, and never lost, success is announced when
all are reached, and only a start from nothing takes anything back.
`DeploymentProperties` maps the goals to the instructions whose effect is on
the chain and in the file (`Plan == INSTANCE SetupPlan WITH done <- Done`) and
checks `PlanSpec`: every step of the process, the network and the faults reaches
a goal, or announces, or starts over, or changes nothing of the plan.

### VerifyAll

`db` is the file, `explorer` what the explorer has, `worker` the processes, one
record each with a phase. An action is one request with its answer, or one
access to the file. A request whose answer is bad or lost may have had its
effect, and both outcomes are in the action. `ReadFile` and `WriteFile` are
separate because `setVerifiedToJsonDb` writes back the copy it read. `AddEntry`
counts as the code counts, with its mistake in the batches (section 5).

### CallCmd

`tool` is the invocation, with the line it was given (for the properties only)
and the calls it found. `PrepareArgs` cuts the line with the two cursors of the
code; `FindByName`, `FindByRole` and `CallOf` resolve a command. Between the
resolution and the transaction, and before and after, administrators take any
step of `AccessController`; the batch then runs as modelled there. A function is
a record of what it demands, how many arguments it has and whether it is a view.

### AccessCheck

The initial state chooses the deployment: its network, whether there is a second
account to call with, which implementation a proxy has on record, which factories
the program knows, how every contract answers a stranger, and whether `checkAll`
is set. The task starts in one of three ways: `SkipTest` returns at once on kovan
and arbitrum_testnet (`97-access-test.ts:18-24`), `NoStranger` throws without a second
account (`:28-31`), and `StartTest` begins. `deploy-full.ts` goes on (`GoesOn`) when the
task has returned, so also when it was skipped: on those two networks, for which
`package.json` has scripts (`:68`, `:54`), a deployment goes on with any hole, and what is
said below of holes is said of the other networks. `queue` and `pos` are the
loops of the task; delegates of a contract go in front of the rest. `Exception`,
`ExpectedReverts` and `IsExpectedError` are the judgement of an answer.

## 3. Runs

Deadlock is not checked: a chain without transactions is a legal state, a task
that has ended stays so, and the bounds end every behaviour.

| run | instance | what it shows |
| --- | --- | --- |
| `Rounds_Allocation` | two insureds with shares of 100% and 60%, rounds of 1 to 3 units, batches of 2 rounds and at most 4 of them, loop limits 1 and unlimited (about 75 thousand states) | the structure stays sound while demand, coverage and reconciles come in any order and stop anywhere, and what was covered or collected is never taken back |
| `Rounds_Cancellation` | two insureds with rates 1 and 2, demand by 3 units up to 6 of the one and 3 of the other, cancellation of demand up to any end of a batch, then of coverage, between allocations (about 242 thousand states) | coverage is conserved, the logs stay right, and demand can be taken back up to any end of a batch |
| `Rounds_Premium` | two rates, four timestamps, repeated reconciles under limits, pulling (about 92 thousand states) | premium is integrated in order, incremental reconciles are exact, insureds pay what the pool accrues |
| `Join` | an insured, three chartered insurers and a generic one, two with a contract as governor, index limit reached (9720 states) | the two records agree under every order of calls |
| `Fund_Sources` | two sources of one token, rates 1 and 2, three timestamps, premium up to 2 (about 275 thousand states) | rates add up in three places, the total covers what there is and what is due, and nobody is charged twice, while sources come, fail and leave |
| `Fund_Swaps` | two tokens with a source each, swaps alone and in batches of two, fees, one pause at a time (about 187 thousand states) | the total stays sufficient and no asset claims tokens that were not received |
| `Deploy` | the full script with one asset, one pool, all optional parts, the strict summary, and one fault (15,242 states) | file and chain agree wherever a run is cut, the deployment implements the plan, and it is announced in the end or comes to a known dead end |
| `Verify` | an instance and two proxies, one of them upgraded since; a worker for all and one for a proxy and an unlisted contract; two faults (14,099 states) | no note is false, every failure is reported, and all that can be verified is noted in the end |
| `CallCmd` | 13 command lines with and without `--roles`, two accounts, two contracts, four roles of all kinds, four transactions and invocations (69,961 states) | exactly the commands that were written are called, roles are lent for one call, masks and holders agree |
| `AccessCheck` | three networks, of which two skip the test, with and without a second account; a contract with a delegate, its proxy and a public contract, up to two improper answers, lost calls, an unknown factory (89,056 states) | where it is supported the test fails on every hole; it passes a proper deployment |

Why the bounds are enough. `UnitSize` is 2 and coverage comes by 1 and 3, so
that a round can be half covered, be filled exactly, and overflow into the
next round and batch. Demand of 4 units at 2 rounds a batch and up to 3 units a
round lets one insured span two batches, share both with the other, and find a
batch full for it. Four batches let a split happen before, in and after the
partial batch. The loop limits 1 and 9 stop at every step or at none. The
smallest advance is 4 units and the largest 8, twice as much, so appending is
refused, allowed, and limited. For membership one insured is enough, since
insureds share no state but the insurer's map; the proofs do not need the
bound. In the fund two sources of one token are enough to pull in turn, to
fail one after the other, and to have the last one leave; two timestamps after
the first let a source be pulled between two reports. Two tokens, or one token
twice, are what a batch can mix up. Prices are one in the passing runs: with
other prices amounts are rounded half up, the total is exact only up to a
rounding for each pull, and `NonPaymentTolerated` fails (below).
`Fund_Sources` leaves pauses and fees to `Fund_Swaps`, which leaves the removal
of sources to `Fund_Sources`.

In `Deploy` one fault at any point of a run, followed by any number of runs and
starts from nothing, already reaches each dead end; two faults were checked as
well (`MaxFaults = 2`, which takes longer) and add none. A second pool or asset
repeats instructions that are there. In `Verify` the limits of 20 polls
and 10 requests are 1 and 2 of the model: they have to be used up within the
faults of an execution, of which two are enough for a request that fails for
good, or for an overlap of the two workers and a kill. `CallCmd` gives the
administrators three steps around a batch: enough to grant a role, lend it, and
renounce the administrator in the call. In `AccessCheck` two improper answers
are enough for one to hide behind another.

In `Rounds_Cancellation` demand is cancelled only up to an end of a batch, or of the
covered rounds (`WholeCuts`). An amount that ends inside a batch makes the call revert in the
code, which is the subject of `MCWeightedRounds_V_CancelDemand` and would leave
nothing to follow. The steps cancel the exact number of units; `WholeBatchesCancellable`
tries, in every state, all amounts that are rounded up to it, amounts beyond the
open demand, and every loop limit that reaches the slot. Six units in calls of three make
logs of two slots and batches that both insureds share; the second insured demands at
most three, which is enough to share, split and stay. Each has a rate of its own, since
an insured can change its rate only while it has no demand
(`InsuredPoolMonoRateBase.sol:24-27`); two rates in one log are outside the property
(`HasOneRate`), and so is the underflow of `LooksTooFar` (both in section 5).

The run cancels coverage of an insured only after its open demand
and only when the partial round is shared with units that stay and its coverage
does not fit them, or the insured has nothing in it; the cases left out are
exactly those of the discrepancies below, and are the subject of the
configurations `MCWeightedRounds_V_...`.

One more configuration passes, `MCWeightedRounds_Closed.cfg` (about 185 thousand
states): coverage is added under loop limits of 1 and 2 turns and unlimited, which
end a call before a batch is filled, between filling and closing it, and after
it, and demand comes only when a filled batch is closed. Then coverage is conserved, and the
insureds together can collect what the pool has covered. Its specification
`ClosedSpec` is `AllocationSpec` with the condition `FilledIsClosed` on adding
demand: it leaves out exactly the demand that `Rounds_V_Unclosed` is about.

Fairness. The contracts have none: every action is started by an outside actor
that owes nothing, so no liveness property of them would be honest. What must
remain *possible* is stated as a safety property (`WholeBatchesCancellable`). The
tools are programs that run:

* `Deployment`: the process goes on (`WF` of `Work`), the chain mines what it
  has (`Mine`), the operator kills a process whose transaction will never be
  mined (`Abandon`) and starts an ended deployment again (`StartIncremental`).
  Starts from nothing are not assumed in the specification; `CleanStartHelps`
  has them as its premise. Faults are never owed, and their number is bounded.
* `VerifyAll`: a worker goes on (`Work(w)`) and is started as long as something
  of its list is not noted (`Start(w)`). Requests fail only with a fault, so
  they succeed when the faults are used up.
* `AccessCheck`: the task goes on (`Next`); calls return or time out.

`DoneOrDeadEnd` names four states out of which no incremental run finds (the
hazards in `PROJECT.json` have their lines): `RolesMissing` (killed between the
two transactions of step 01), `DefaultsMissing` (killed in step 02),
`CodeMissing` (the transaction of a recorded contract was lost), `EntryUnknown`
(killed between two writes of the file, with `--strict`). `CleanStartHelps`
shows that a start from nothing leads out of them.

Properties are shown to bite by definitions named `Faulty...`, which stand next
to the definition they distort; `PROJECT.json` pairs each property with one.

## 4. Proofs

`JoinProtocolProofs` proves, for every set of insureds and insurers, every
choice of chartered and governed ones and every `STATUS_MAX` of at least 3
(`JoinAssumption`), the invariants `TypeOK`, `MembershipAgreed`,
`IndexLocatesInsurer` and `DemandOfMembersOnly`, and the action property
`MembershipIsFinal`.

The four are inductive only together, which is `IInv`. Adding an insurer to a
list must not disturb the places of others: the insurer is not yet in a list
because its account has no index (`IndexLocatesInsurer` backwards), it has no
index because its status is neither Accepted nor Declined
(`MembershipAgreed`), and it has that status because the account was free or
pending. Indices stay clear of the codes because of the length bound in
`TypeOK`. The proof has one lemma for each transaction, and three lemmas for
the kinds of change they share (acceptance, a change of an unlisted insurer,
leaving).

`PremiumFundProofs` proves of the premium fund, for any finite sets of sources
and tokens, any rates, payments, fees, starvation points and bounds
(`FundAssumption`), that the invariant `FundInv` holds (`FundInvariant`), and
from it

* `FundTyped`: `FundTypeOK`;
* `RatesAlwaysAddUp`: the rate of the total is the sum of the rates of the
  tokens, the rate of a token the sum of the rates of its sources, and nobody
  else has a rate (`RatesAddUp`);
* `TokensWereReceived`: no token claims more than the fund got
  (`TokensReceived`);
* `NeverOvercharged`: what a source has been charged and what is due of it is
  never more than what the actuary allocated to it (`NotOvercharged`);
* at par (`AtPar == Prices = {WAD}`, the prices of the runs):
  `AlwaysPricedAtPar` (`PricedWhenHeld`) and `TotalCoversAtPar`
  (`TotalCoversSupply`). With other prices these two are false, since amounts
  are rounded half up: at `WAD = 2` and a price of 1 (a half), a source that
  owes 1 is asked for two tokens; if it pays one of them, the other is rounded
  up to 1, so the one that is held was worth 0, which becomes its price.

Of `FundInv` the first part, `RatesInv`, is closed by itself: the types
(`FundTypeOK`, and `AllocatedOK` for the history variable), `RatesAddUp`,
`ActiveOK`, and `TotalRateOK`. `ActiveOK` says that a token lists a source once
and only its own sources; a removal cuts the list at an index that it finds by
search, and takes the rate off once. `TotalRateOK`, the total rate is the sum
over *all* sources, is what makes the total grow as fast as the supply, and
follows from the rest only because lists of two tokens have no source in
common. `ChargesOK` is `NotOvercharged` together with the order of the rates - a
source never streams faster than the actuary allocates, or the next tick would
overcharge it - and with empty records of a source that was never registered,
or the first report would find an old charge. At par, `HeldAtPar` says that
tokens have the price of one, so that a value is an amount and `Covered` can
compare the total with the tokens and the supply.

The operators of the module go from a frame to a frame, and actions put several
in a row. So each has lemmas on what it leaves alone, on rates, on charges, and
at par on `Surplus` - what the total has on top of the tokens and of all that
is due, which no pull changes. `Continues` collects them for any number of pulls in a
row, with the rates of the other tokens as a constant; `FundInv` of the next
state is then read off the frame that the action stores. `replenish` and a
batch loop over sequences (`FoldLeft`), and totals are sums over sets
(`SumFunctionOnSet`). `FoldLemmas` has what is needed of both: a sum changes
with one summand, in whatever order it is taken, a fold has a value for each
part of what it runs over, and a loop one after each of its steps (`LoopIsDefined`,
`LoopSteps`, for any function that takes the step). These are inductions over data; the provers cannot
use a rule that takes an operator, so the property is given as a set, the step
as a function, and the rule (`SubsetInduction`, `UpToInduction`) is proved by
well-foundedness of the subsets of a finite set.

`CallCmdProofs` proves, for any accounts, contracts, roles of each
kind, masks and batches (`AccountsAssumption`, `RolesAssumption`,
`BatchesAssumption`), of the controller itself (`ACSpec`):

* `TypeCorrect`, and `HoldersAgree`: between transactions the mask of an address
  and the holders of a role tell the same (`HoldersMatchMasks`);
* `HelperIsClean`: the helper, which everybody with a batch shares, holds
  nothing between calls;
* `KindsApart`: a role has a single holder or a set of them, never both;
* `OwnershipIsHeld` and `RenouncedForGood`, of the ownership;
* the action properties `OfficeEndsClean` (`OfficeLeavesNothing`) and
  `ProtectedIsKept` (`ProtectedStays`).

The invariant `IInv` is `BooksInv /\ CallInv /\ MasksInv /\ OwnershipHeld`. That
masks and holders agree is not inductive, for in a call the mask of one address
has roles that no list knows: `MasksInv` says that all other masks agree, and
that this one is what it was (`call.old`), which agrees, plus what was lent. The
old mask must agree at the *return* of the call, after a call-back may have
renounced the temporary administrator; it does because an administrator is an
account, and the address with the lent roles is a contract or the helper.
`CallInv` says that the state saved for a revert agreed too and has the same
singlets as now. `BooksInv` has the types, the two kinds apart, and that the
helper is in no list of holders. The lemmas on `Revoke` are shared by the five
actions that revoke. One lemma per action, then `NextIInv`.

The second half of `CallCmdProofs` carries this over to the composition: `RolesAreLent`
(`LentForOneCall`), `HoldersAgreeStill` (`HoldersMatchMasks`), `OfficeEndsCleanStill`
and `ProtectedIsKeptStill` hold of `CallCmd`'s `Spec`, in which the batches are not given but found in the file and on the
chain when a line is run. The link is `ToolInv`: what the tool is about to send
is a sequence of calls. It is found in one state and sent in a later one, which
does no harm because `Calls` depends on nothing that changes. `CallAssumption` says
of the lines only that they are sequences of tokens whose words name what can be
called.

`CommandsAreCalled` (`CalledAsWritten`) compares the loop of `prepareArgs` with what
a line means: the commands are the pairs of neighbouring separators (`Written`),
and the place of one is the number of commands that end no later (`Place`). The
two do not agree on every line. A separator at the cursor `j` is skipped without
moving `j`, and is then taken for the word of the next command; so the invariant
of the loop (`CutInv`) speaks of lines whose words so far are words: the commands
up to the last separator before `j` are cut as written, and no separator that
was passed is left but perhaps the one at `j` itself, where the line ends or is
going to be refused. `CutAtKeeps` is the step, `CutIsWritten` what follows for a
whole line; `Parsed`, which refuses a command whose word is none, is the guard that
makes it hold. `LineInv` then keeps it until the batch has ended.

`TaskProofs` proves of the access test (`CheckSpec`), for any file, interfaces, catalog of
exceptions and answers, `GoesOnWhenClosed`: when a deployment goes on after the test, on
a network that supports it, no call was lost, and no function that is neither a view
nor public lets a stranger through, of all that is reached from the file; and
`ProperFailsOnlyByLoss`: with a second account to call with, a proper deployment is
held up only when a call was lost. These are the safety cores of
`HolesAreFound` and `ProperPasses`; that the test ends is shown by TLC. The
invariant `ClosedInv` says of each contract that is reached that it is closed, or
below one that is still in the queue, or that the task has met an unknown factory
and will fail. What is below a factory is the smallest set that has the delegates
of all in it, so when a contract is done it takes `BelowDelegates`, that what
is below it is itself or below a delegate, which the model puts in the queue. The
assumptions are about the catalog (`CatalogAssumption`): no contract reverts with
a message of the provider; functions are listed by short names, with the types
only to let everyone call them; what an implementation refuses in its own way
is not public. The catalog of the repository is so (`contracts-access.ts`: all its
names are short, and `implOverride` has nothing but initializers).

Of the verification of contracts it proves, for any number of workers, any lists and any bounds of
retries and faults (`VerifyAssumption`), `NotesAreTrue` (`VerifiedIsTrue`),
`SummaryTellsAll` (`SummaryIsComplete`) and `FirstProxyIsVerified`. Workers write the file from copies they
read earlier, so `VerifiedIsTrue` is not inductive: `IInv` says of every copy that
a worker holds (`PlaceInv`) what the property says of the file, and it stays true
because the explorer only learns (`Learns`) and notes say nothing but `TRUE`. A
lost update can thus remove a note, never forge one. `ReportInv` says of every
place *behind* a worker that it is accepted or in the summary, and `CountInv`
bounds the retries.

`FirstProxyIsVerified` (`FirstProxyHasSource`) is about the mode `auto`, in which
a process has the explorer verify the source of the first proxy it meets and
leaves the others to be recognised by their equal code. Nothing says that the
processes meet the same one, their lists being filtered and cut into batches.
The argument is about those lists: `addEntry` keeps the order of the file, so the
first proxy of the *file*, in whatever list it is, has no proxy before it
(`FirstComesFirst`). This is an induction over the fold `ListOf` (`AddsByStep`
gives the value of the loop after each entry, from `LoopSteps`; `AddsKeep`
is the induction). So a process that comes to it has not used up its mode
(`SourceInv`: a mode that is used up has a proxy behind it), asks for its source,
and goes on only when the explorer has it; and every copy of the file that a
process holds says no more than that (`SInv`). `VerifyAssumption` has what this
needs of the input: the file lists an address once, and `proxy` is one of the
three modes, as `min` stands for any other word. That lists hold addresses of
contracts is a consequence (`ListFacts`), not an assumption.

`DeploymentProofs` proves of deployments, for any script and any number of kills,
losses and seizures:

* `FileAgrees` (`FileMatchesChain`): what the file names is there, with the right
  kind, or about to be mined until the network has lost a transaction, and a
  role of the access controller points to what the file names for it;
* `NamesAreKept` (`NeverRedeployed`): a name keeps its address, and is deployed
  once;
* `AddressesAreFresh`: each contract has its address for itself, and no pending
  deployment goes to the address of a contract or of another deployment, in whatever
  order transactions are sent, lost, and followed by others with their nonces;
* `ReachedIsKept`: what a deployment has reached, a contract, a proxy, a role or a
  setting, is undone by no later transaction, run or fault, short of a start from
  nothing.

`ScriptAssumption` says what a script must be: instructions of the seven forms;
what a lookup skips is in the script; a name is that of a contract or that of a
proxy, always of one implementation; and a role is always given to one name. TLC
evaluates it on the script of `DeploySteps`. Both properties speak of states of
rest and say nothing of a run that is in the middle of something, which is what
`IInv` adds, one part for each actor. `PlaceInv` is the process: one that is to
write a name has found before that the file does not have it - no other process
writes in between, but a kill may come at any point - and what it is about to
name as a proxy is there. `AwaitInv` is the mempool: no more than one
transaction is awaited, and it is the one that the instruction sent; so the
receipt that comes is that of this proxy, whatever an earlier run left pending.
`RoleInv` extends the property of the roles to what is pending: a role that an
old run sent goes to the contract that the file named then and names still. A
role may even be sent with no address for an argument, when its contract has no
name yet; it is refused on the chain, since nothing is there. `DeployInv` is the
address of a contract, which follows from a nonce: pending deployments go to
different addresses, where nothing is, below the next one. It ends with the
first transaction that is lost, since its nonce, and so its address, is taken
again, and the file goes on naming it: the dead end `CodeMissing`. Proxies are
out of this: the catalog gives them addresses -1, -2, ... (`ProxiesInRow`), so the
next one is free, and no deployment overwrites one. The lemmas are one for each
action, over three that many of them share (`LocalStep`, `SubmitStep`, `NameStep`).

`AddressesAreFresh` takes the address part of `IInv` over to executions in which
transactions were lost. Their nonces are free again, so `LostInv` says of each that nothing
is at its address, that no pending deployment goes there, and that all are different;
the next deployment takes the first of them, or the next nonce (`SubmitFresh`,
`DeployFresh`), and losing one more adds all that were sent after it (`DropFresh`, `LostTail`).

`ReachedIsKept` says that progress is never lost, which the restarts of the task
rely on: a step that finds its goal reached goes on. It holds step by step (`Established`
stays): facts on the chain are only added, but for the credentials that are given back
(`tempAdmin`, `adminRoles`) and the settings that name one address and take the next in
its place (`borrowManager`, `distributor`), which `Replaceable` leaves out. A role
names one address as well, and a later call does replace it: but with the same contract,
since the pending calls were sent with what the file named, and names are kept (`RoleInv`,
`NamesStand`). A setting whose argument the file does not name yet is left out too
(`Steady`), as what is to be set is not known before.

That the detailed deployment follows the plan is shown by TLC, since it depends
on what each step of the script establishes, as do `NothingHalfDone` and
`FailsOnlyAfterFaults`.

`WeightedRoundsProofs` proves of the engine, for any insureds, pool parameters,
shares, units, amounts and loop limits (`PoolParamsAssumption`,
`RoundsAssumption`) and for all behaviours in which nothing is cancelled
(`AllocationSpec`), the invariant `RoundsInv` (`EngineInvariant`), and from it

* `ListStaysWellFormed` (`ListWellFormed`): the batches make one list without
  cycles, the full ones, the partial one, the open ones, and at its end an empty
  one; the partial round is in its batch, and `firstOpenBatchNo` is on the list;
* `FullBatchesStay` (`FullBatchesFrozen`, the part of `NothingTakenBack` about
  batches): no call changes a full batch, which is what lets an insured be
  reconciled later, from where it was;
* `CoverageIsAllPlaced` (`CoverageAllPlaced`): what a call of
  `internalAddCoverage` takes is in the rounds it leaves, whatever splits, closed
  batches and turns of the loop it took, and also where the loop limit ended it;
* `LogsStayMatched` (`LogsMatchBatches`): every slot of every demand log ends with
  a batch, and the batches from the partial one on ask, in each round, for the
  units and the premium rates that the logs of all insureds put there;
* `DemandStaysRecorded` (`DemandMatchesLog`): moreover the demand of an insured
  is what its log adds up to.

and `CollectionProofs`, which goes on from there:

* `NothingIsTakenBack` (`NothingTakenBack`): no call changes a full batch, and no
  call takes coverage from what an insured can collect, so what is covered stays
  covered whatever is added, closed or split later;
* `NoneCollectsMore`: collecting fails for no insured, and none collects more than
  it demanded;
* `CollectingIsIncremental`: an insured that collects in many calls, under any loop
  limits, comes to the same coverage as one that collects all at once;
* `ReconcilingIsIncremental` (`ReconcileIsIncremental`): and to exactly the same premium,
  although a premium is rounded and integrated from time mark to time mark;
* `CoverageIsConserved` (`CoverageConserved`): the coverage that investors put in is at
  all times what the rounds count, *provided* demand comes only when a filled batch has
  been closed (`ClosedSpec`); the run `Rounds_V_Unclosed` shows that coverage drops out of
  the count otherwise;
* `NothingFails` (`SanityHolds`): no call that adds demand or coverage or collects
  fails by a `Sanity.require` or a checked subtraction, whatever units, amounts and
  loop limits it gets, *provided* two of the smallest batches may be open,
  `minRounds <= maxRounds / 2`. The configuration `MCWeightedRounds_V_Append`
  shows that it fails without.

`ListWellFormed` reads the list by its links, one turn after the other, and
cannot be inductive: it says nothing of a batch from which a link goes. `EngineStore`
says the same of a set `L` of *live* batches. `Linked` has a successor in `L`
for each batch but the last, which is empty; one predecessor at most; a full
batch before each full batch; and `Reached`: a set that has the first batch and
with each batch its successor is `L`, which rules out a second list or a cycle on
the side. `PartialPlaced` and `FirstOpenPlaced` say where the cursors are, and
`InsuredsIn` that an insured goes on at a live batch. `L` is not all batches ever
created: `internalAddCoverageDemand` writes the batch in hand only if
`updateBatch` is set (`WeightedRoundsBase.sol:255`), so a turn that creates a
batch and then adds no unit, for instance because the share of the insured is
used up, leaves one which no link reaches (`DroppedKeepsStore`). TLC checked this invariant, with a bound on `L`, on two
instances (156,416 and 285,678 states) before the proof was begun.

A loop is `Iterate(step, frame, n)`; `LoopFrames` is the sequence of its frames,
for which a lemma for each of the five loops (`CoverageLoopRuns`, `DemandLoopRuns`,
`PullLoopRuns`, `ChainLoopRuns`, `SpanLoopRuns`) shows that it ends with the value of the loop, and
`UpToInduction` carries what a turn keeps to the last frame. In
the middle of a turn the batch in hand is in the frame and not yet in the storage,
and the storage without it may lack a link. So what a turn keeps (`DemandMid`,
`CoverageKept`) is said of the storage as it would be *with* that batch, and for
the demand loop of the one without it also, since both may be what the call
leaves. The
changes of the list are lemmas of their own, whatever operation makes them:
`PutKeepsStore` (a batch is rewritten), `InsertKeepsStore` (a batch is added after
another), `DroppedKeepsStore`, `PartialDivided` (the partial batch is split off its
filled rounds), `MovedKeeps` (the partial round goes on to the next batch that is
not full). `ListWellFormed` follows at the end: reading `batchCount + 1` links from the
first batch must run out of batches, because `Linked` lets no batch be read
twice and there are no more than `batchCount`.

`LogsStayMatched` and `DemandStaysRecorded` need more, `LogsInv` (`LogsInvariant`), and are about the
difficulty that a split is made for one insured while the logs of the others, which
name a batch and count rounds, are left alone. What a slot means then depends on
all batches behind its first one, so a property that reads it by the links
(`SlotSpan`) is of no use in a proof. `Described` gives each batch a *place*, the
number of rounds in front of it: `Placed` has the next batch where the rounds of
this one end, and no two batches overlap; a slot covers the places from that of its
first batch on (`Covers`), and some batch begins where it ends (`SlotPlaced`); and a
batch asks for the sum of the slots that cover its place (`Asked`). An
operation then does one of three things, each a lemma: it divides a batch, which gives
a place to the new one and moves no other (`DividedIsDescribed`); it appends rounds at
the end, which is a division of the empty last batch; or it puts units in a batch and
into a slot, a new one or a longer one (`AddedIsDescribed`, `NewSlotAdded`,
`LongerSlotAdded`). The slot in hand in the middle of `internalAddCoverageDemand`
counts as if it were stored (`LogOf`, `LogGood`), as does the batch. A batch that was
dropped loses its place, which the description permits since it only has to place
the batches that are linked (`LiveArePlaced`). Adding coverage keeps all of that
because it writes nothing but totals and states (`ShapesKept`). `SpanOfSlot` says at
the end that reading a slot by the links finds the batches it covers, in no more than
`batchCount` turns, as each turn finds another one. TLC checked
this invariant too, on the runs `Rounds_Allocation` and `Rounds_Premium`.

`CollectionProofs` is about `internalGetCoveredDemand`, which goes along the log
of one insured, slot after slot, and within a slot from full batch to full batch,
stops at any point, and goes on there in a later call, when batches behind
that point were split, closed or filled. The inductive invariant is `CoverInv`
(`CoverInvariant`): `LogsInv`, and what each insured has stored is `CoveredAs` its
log tells now. That is a statement about a *walk* through a slot: `Walked` has the
points (a batch, and the rounds of the slot in front of it) which one comes to from
the start of the slot over full batches, as the least such set, without a count of
turns. The slots in front of the stored index are walked to their end (`SlotDone`),
the stored batch is a point of the walk of the slot at the index (`SlotBegun`), and the
stored units are those of these slots and rounds. So a collection from a stored point ends at
the point where one from the beginning ends: the walk is ordered (`WalkOrder`), since each point
has its place, and stops at one point only. That point depends on full batches and the partial
round alone. A later call leaves both alone or moves them on (`Frozen`,
`Advanced`), appends to a log or makes its last slot longer (`LogGrows`), and so the walk in the
new storage comes at least as far (`WalkedFrozen`, `CollectedGrows`). The rest is
that each operation does no more than that: `AddDemandGoesOn` and `AddCoverageGoesOn` (with
`AheadGood`, carried through its loop), put together in `StepTakesNothing`.

The premium needs more than the coverage, because the *order* in which batches are
added to it counts: `calcPremium` rounds, and starts from the time and rate that the
premium was left with. `PremiumWay` is therefore the way of a collection without any
limit from the beginning of the log, one batch or one end of a slot at a time
(`PremiumMove`), with the premium as part of each point, and `Paid` says that a point is
on it. The invariant `PremInv` (`PremiumInvariant`) has, for each insured, that the
stored index, batch, rounds and premium are such a point (`PaidAs`). A way stops at one
point only (`StopsMeet`), so collecting from the stored point and collecting from the
beginning end with one premium, to which both add that of the partial batch
(`CollectingIsPaid`, `StopTotal`). And a later call leaves the way up to that point as it
was (`PaidFrozen`): it changes no full batch, and no time mark of one either, since
`updateTimeMark` writes that of the batch being filled and a split makes a mark of its
own (`MarksOn`, part of `TakesNothing`). The proof bounds neither rates nor times.

In the invariants so far a step that fails is not followed further: a call that
panics takes no step, so all that is shown of a frame with `panic` is that it keeps it.
`NothingFails` adds what keeps `panic` FALSE, `Safe`, to `CoverInv` (`SafeInv`). Two
hazards are in it. `closeFullBatch` takes the rounds of a batch from `openRounds`
(`WeightedRoundsBase.sol:969`), a count which splits, appends and closed batches
write at other places: `Lined` gives each batch the number of
rounds in front of it, and the rounds from the partial batch on end within the open ones, so
that the batch it closes is among them. And coverage must never be in a
batch that is not ready (`:905`), nor a ready batch be without units
(`:941-943`): `PartReady` and `InLine` say so. The batch in hand in the middle of a
turn is said to be in line with the storage without it (`HandSafe`, `CoverageSafe`),
and the open rounds are counted in the frame until they are stored. `LinePut`, `LineSplit`
and `LineAppended` are the three changes of the line, and there is a lemma for
each step of the loops (`AppendIsSafe`, `AddToBatchIsSafe`, `CloseIsSafe`,
`FillIsSafe` and so on). Of `findBatchToAppend` it takes that splitting off the
vacant rounds of the partial batch has rounds to split (`PartialLeftIsSafe`), of
`internalBatchAppend` that it never comes to zero rounds (`AppendWithinLimit`).

Counts of units and loop limits are positive in
`RoundsAssumption`, as the functions return at once for none, rates are natural
numbers and there are finitely many insureds, over whom one sums; and
nothing is cancelled, since cancelling takes coverage back, reopens batches, and
leaves the units of insureds that left in the batches they had covered.

`CoverageAllPlaced` is stated of the calls that add coverage, under any interleaving
with demand. That `CoverageConserved` is an invariant needs also that adding *demand* leaves what
the rounds count, and the attempt to prove this found the case in which it does not
(`Rounds_V_Unclosed`). Where the filled batch is closed it does: the count is made of the
units before the partial batch and, when it has full rounds, of its units per round
(`CountsAs`), and a batch with full rounds is never the batch in hand, because
`findBatchToAppend` sets its other rounds apart in a *new* batch, whose total it computes
from this one (`PartialLeftCounts`). So the demand loop, which rewrites totals and units of
the batches it goes through, keeps `CountKept` and `HandCounts` from turn to turn
(`DemandLoopKeepsCount`). No more is needed of the storage than `RoundsInv`.

Of the strategies of `WeightedPoolConfig` it proves, for all
parameters that `internalSetPoolParams` accepts:

* `ShareIsHardLimit`: adding up to the limit keeps the insured within its share
  of all units, from the point on where rounds have the units they need. The
  code promises "a hard limit"; before that point the limit is one of the total
  the batch will have.
* `LimitsAreOrdered`: the limits of a round are in order and positive.
* `AppendWithinLimit`: appending never fails its `Sanity.require` and keeps the
  open rounds within the limit *provided* `minRounds <= maxRounds / 2`. Without
  it the assertion does fail; see below.

Only model-checked: the other properties of `WeightedRounds`: its types
(`TypeOK`), the shares over several batches (`ShareLimited`), that the insureds
together collect what the pool has covered (`CollectedMatchesPool`, of which
`NoneCollectsMore` proves the part about each insured), that demand can be cancelled up
to an end of a batch (`WholeBatchesCancellable`), that insureds pay what the pool accrues
(`PremiumCoversFullBatches`, a sum over insureds of rounded amounts), and all that
cancelling does, the list, the logs and the coverage included. Further the fund away from par; liveness
(`DoneOrDeadEnd`, `CleanStartHelps`, `EventuallyVerified`, `HolesAreFound`,
`ProperPasses`), which the prover does not reach; `NothingHalfDone`,
`FailsOnlyAfterFaults` and the refinement of `SetupPlan`, which depend on the
script.

## 5. Where the code differs from what it says

Runs that must find a violation; each has an entry in `PROJECT.json`.

| run | statement | what happens |
| --- | --- | --- |
| `Rounds_V_Unclosed` | what the insureds can collect adds up to what the pool has covered (`weighted-rounds.cov.spec.ts:101`) | when the loop limit ends adding coverage between filling a batch and closing it (`:1005`), as the default limit of 31 does on the sixteenth batch, later demand closes it and moves the partial round to the next batch without its total (`:332`), and the pool counts less coverage for good |
| `Verify_V_Batches` | batches `0 <= n < total` (`verify-all.ts:24`, `:25`) cover the file | `addEntry` (`:89-92`) counts the entries it takes, so batch 0 takes one entry and the others none |

More configurations that show others; run `tlc` on the MC module with them
(`MCWeightedRounds`, `MCJoinProtocol`, `MCPremiumFund`). TLC reports the
property as violated; of several in one
configuration each is violated when it is the only one (TLC stops at the first).

| configuration | statement |
| --- | --- |
| `MCWeightedRounds_V_Append` | the assertion at `WeightedPoolConfig.sol:86`, with `minRounds > maxRounds / 2`: of at most 5 rounds the smallest batch has 4 |
| `MCWeightedRounds_V_CancelDemand`: `DemandCanBeCancelled` | demand is cancelled by any amount (`cancelCoverageDemand` of the insured takes one), and a batch in which it ends can be split (`:1323`): the split keeps the cancelled rounds in front of it, and the call reverts (`:1324`) |
| `MCWeightedRounds_V_CancelDemand`: `DemandMatchesLog` | `demandedUnits` follows the log when more is cancelled than asked for (`WeightedRoundsBase.sol:1327`) |
| `MCWeightedRounds_V_RoundUp` | the pool pays out no more than it gets (`:710`), for a partial batch |
| `MCWeightedRounds_V_StaleTotal` | totals before a ready batch are exact (`Rounds.sol:96`); what follows for the coverage is the subject of `Rounds_V_Unclosed` |
| `MCWeightedRounds_V_Reopened` | a ready batch without units has no rounds (`:941-943`): cancellation leaves rounds without units in a ready batch, and the next coverage fails or divides by zero |
| `MCWeightedRounds_V_CancelCoverage`: `LogsMatchBatches` | coverage with demand left cannot be cancelled (`coverage-cancel.cov.spec.ts:359-361`): an insured with one slot passes the check, and its units stay in later batches (`:1545`) |
| `MCWeightedRounds_V_CancelCoverage`: `CoverageConserved` | the excess is "the amount of coverage from the partial round" (`WeightedRoundsBase.sol:1518`): when the coverage of the partial round fits the units that stay, the capacity of the round is returned though nothing was taken (`:1629`), and the same coverage counts twice |
| `MCJoinProtocol_V_Stuck` | `cancelCoverage` iterates through all insurers (`InsuredPoolBase.sol:236`): after one insurer cancelled on its own, it always reverts |
| `MCPremiumFund_V_Swaps`: `FeesBacked` | fees can be taken out (`PremiumFundBase.sol:71`, `BalancerLib2.sol:23`): a fee is booked (`:717`) and taken from no balance, so users and the treasury claim the same tokens |
| `MCPremiumFund_V_Swaps`: `TotalNotInflated` | the total is that of the sources (`BalancerLib2.sol:88`): a batch of swaps adds the accrual again for each instruction (`PremiumFundBase.sol:921`) |
| `MCJoinProtocol_V_Late` | an insured that cancelled its coverage has no insurer: a request made before is accepted after |
| `MCPremiumFund_V_Swaps`: `PauseIsLiftedByAdmin` | only an administrator lifts a pause (`PremiumFundBase.sol:210`, `:218`): a source that registers gives the asset the default configuration, and the flag is lost (`:277`) |
| `MCPremiumFund_V_Swaps`: `TokensAccounted` | a swap below the minimum does nothing (`IPremiumFund.sol:51`): tokens that it pulled are in the fund and in no balance (`BalancerLib2.sol:283`) |
| `MCPremiumFund_V_NonPayment` | a source that cannot pay is tolerated (`:555`): with a price above one the amount is rounded half up, and `requiredValue - amount.wadMul(price)` underflows (`:503`) |
| `MCPremiumFund_V_SameBlock` | a rate is stopped when the source failed (`:415`): a second report in a block asks nobody and stops it |

Noticed while modelling the engine and the fund, without a run of its own:
`_latestBatchNo` is not the head of the list (`WeightedRoundsBase.sol:70`) after
a split of the last batch (`:199`, `:213`); `_openRounds` counts rounds of a
batch that a split closed (`:332`); `_firstOpenBatchNo` is not the first open
batch after a cancellation reopened one (`:1396`); rounds stay without units
when the only insured of the partial round leaves (`:1624`); the bands of
cancelled rates may not be enough for what was cancelled (`:1233`, `:1179`), so a
cancellation through two rates of a log reverts, as one would be with an insured that has
several; the part of a round is cancelled as a round, and when that ends a whole slot and the
loop limit lets the search go on, `unitCount - cancelledUnits` underflows (`:1238`) and the call
reverts, though it "can cancel more or less units than requested" (`:1125`); a
finished asset is revived by a source that reports later and the flag stays
(`BalancerLib2.sol:689`); a token keeps an actuary without sources, because
the result of removing the last one is not looked at (`PremiumFundBase.sol:453`).

Noticed in the access controller and the tools: `setProtection` on an unused role
makes it a singlet (`AccessControllerBase.sol:334`) that is missing in
`_singletons`, "mask of all roles being singletons" (`:45`), so it can be lent;
step 08 sends the drawdown configuration on every run, because it looks for it
with another price than the fund stores; the branch of step 01 for a configured
owner always throws; of the access test, `checkAll` is always false, because
`failfast` is the whole object of arguments (`97-access-test.ts:15-16`), and on kovan and
arbitrum_testnet it returns without looking at anything (`:18-24`) and the deployment goes on; with
`checkAll` an error of a contract still ends the test before the next contract,
an upgraded proxy is checked with the interface that was recorded, and a call
that ends at an address without code counts as a refusal by an implementation;
the web form of the verification sets the time of its last call before it sleeps
and so paces itself less than it means to (`contract-verification.ts:234`); two
processes that write notes at a time lose one of them, which only another run
makes good; a proxy in mode `min` is noted though the explorer may not have its
source; the roles by which `call-cmd` finds an object may be stale when the
transaction is executed.

Noticed while reading, outside the modules so far: `DirectPoolBase` marks the
insured Accepted inside `internalInitiateJoin` (`:206`), so the generic code
sees no change and never calls `joinProcessed`; `DirectPoolBase` credits the
premium of the receiver of a transfer to the sender (`:198`); after
`cancelJoin` the account of the insured stays pending for ever, so it cannot
ask that insurer again; demand may be placed after `cancelCoverage`, and a
request made before it may be accepted after it (`InsuredPoolBase.sol:93`);
`_addPremiumSource` looks at the balance of the source where that of the token
was meant (`PremiumFundBase.sol:314`), so its assertion says nothing; a swap of
an asset with automatic replenishment reverts when it has no source; the
reports of an insurer that is no longer registered revert, and with them the
reconciles and cancellations of its insureds; `_changeRate` finds `applyFrom` by
the difference of the rates and not by the new rate (`BalancerLib2.sol:571`).

## 6. Plan

Done, all with proofs, in this order: `WeightedPoolConfig`,
`WeightedRounds`, `JoinProtocol`, `PremiumFund`; then the tools: `Deployment`
with its plan, `VerifyAll`, `AccessCheck`; `AccessController` with `SafeOwnable`
and `CallCmd` on top of it. To come:

1. `InsuredPool` (`InsuredBalancesBase`, `InsuredPoolBase`, mono-rate): premium
   by insurer and in total, reconcile, and an abstract *coverage ledger* in
   which coverage is asked, given and cancelled, that both sides refine.
2. `ImperpetualPool` over the ledger: excess, advance, pay-out, drawdown,
   shares; then `PerpetualPool` and `DirectPool`.
3. `CollateralCurrency` (`InvestmentCurrencyBase`, `CollateralCurrency`,
   `BorrowBalancesBase`, `ReinvestManagerBase`): an abstract ledger of own and
   given balances, refined by the packed one; proof of the refinement.
4. `ProxyCatalog` with `VersionedInitializable`, upgrades included, and
   `ApprovalCatalog` (proofs).
5. `CollateralFund`, `Pricing` with `FuseBox`.
6. Proofs about the engine, from the list, the logs and what is collected on: the
   insureds together collect what the pool has covered, and pay what it accrues; the
   list and the logs under cancellation.

## 7. Not modelled

* The contracts of the plan above; interfaces, mocks, the front end helper and
  ERC20 boilerplate for good. External tokens, lending pools and oracles will be
  modelled by what the contracts rely on.
* Of the deployment: errors of the node when a transaction is sent. One of them in
  `99-finalize.ts` would be swallowed (`deploy-full.ts:117-127`): success would be announced
  with the roles of the temporary administrator not given back. A kill between the two
  writes of the file after a proxy (`templates.ts:73-79`), which leaves `needsSync` unset, a
  mark that nothing in the model reads. That the default globals of step 08 are set:
  their transaction is sent and mined, reordered and lost as others are, but the plan has
  no goal for them, so no property tells a deployment that was announced without them
  (pools copy the defaults when they are registered, and only another run of the step
  would set them). Networks on which the access test is skipped: in the states of
  `Deploy` the test never fails, so nothing that run shows rests on it. Further the
  parameter `skip`, the branch of step 01 for a
  configured owner (it throws), gaps between nonces, the sync of proxies with a
  node that lags (`ProxySync`, `waitForProxy`), the verification after the
  deployment (it is the other task), price sources one by one, and pool
  configurations.
* Of the verification: times between requests, and the text of pages.
* Of the calls: the values of arguments, the estimation of gas, and `callFlag`
  of a batch.
* Of the access test: the catalog itself, which is data; the model has a small one
  with each kind of entry.
* Configuration data, wallets, output, the development deployment, and the test
  suites, which were read for the behaviour they expect.

## 8. Running

```
tlc -workers 2 -config MCWeightedRounds_Allocation.cfg MCWeightedRounds
tlc -workers 2 -config MCJoinProtocol.cfg MCJoinProtocol
tlc -workers 2 -config MCPremiumFund_Sources.cfg MCPremiumFund
tlc -workers 2 -config MCDeployment.cfg MCDeployment
tlc -workers 2 -config MCVerifyAll.cfg MCVerifyAll
tlc -workers 2 -config MCCallCmd.cfg MCCallCmd
tlc -workers 2 -config MCAccessCheck.cfg MCAccessCheck
tlapm JoinProtocolProofs.tla
tlapm FoldLemmas.tla
tlapm PremiumFundProofs.tla
tlapm WeightedRoundsProofs.tla
tlapm CollectionProofs.tla
tlapm CallCmdProofs.tla
tlapm TaskProofs.tla
tlapm DeploymentProofs.tla
```
