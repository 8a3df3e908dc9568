----------------------------- MODULE DeploySteps -----------------------------
(***************************************************************************)
(* The steps of a full deployment, tasks/deploy/full/01 to 10, as a script *)
(* of instructions.  Module Deployment runs the script; here is what the   *)
(* steps do, in which order, and which check lets a later run leave a part *)
(* out.  The network configuration (helpers/config) is a set of constants. *)
(*                                                                         *)
(* An instruction of the script is a record:                               *)
(*                                                                         *)
(*   begin     a task starts: its local newDeploy is false                 *)
(*   deploy    getOrDeploy of a contract by its name                       *)
(*   proxy     findOrDeployProxyFromCatalog                                *)
(*   assign    assignRole of a singleton role of the access controller     *)
(*   default   the lookup at the head of addImpl                           *)
(*   unless    a lookup on the chain that skips what is already done       *)
(*   send      a transaction to a contract, waited for or not              *)
(*                                                                         *)
(* "marks" tells that the instruction binds newDeploy of its task, "gated" *)
(* that a lookup is made only when newDeploy is false.                     *)
(***************************************************************************)
EXTENDS Naturals, Sequences

CONSTANTS
    EmergencyAdmins,   \* cfg.EmergencyAdmins, a sequence
    Assets,            \* the assets of cfg.CollateralFund.assets, a sequence
    HasRanges,         \* a price feed of the configuration has a priceRange
    HasGlobals,        \* cfg.PremiumFund has globalConstSP or globalFactorSP
    PoolCount          \* the number of cfg.IndexPools

None == "none"     \* the transaction has no address argument that matters

Begin(step) == <<[op |-> "begin", step |-> step]>>

Deploy(name, marks) == <<[op |-> "deploy", name |-> name, marks |-> marks]>>

\* inCcy: the context of the implementation is the collateral currency.
Proxy(name, impl, inCcy, marks) ==
    <<[op |-> "proxy", name |-> name, impl |-> impl, inCcy |-> inCcy, marks |-> marks]>>

Assign(role, name) == <<[op |-> "assign", role |-> role, name |-> name]>>

Send(item, on, arg) ==
    <<[op |-> "send", item |-> item, on |-> on, arg |-> arg, wait |-> TRUE]>>

\* A transaction whose receipt the step does not wait for.
SendOnly(item, on, arg) ==
    <<[op |-> "send", item |-> item, on |-> on, arg |-> arg, wait |-> FALSE]>>

\* The body runs unless <<item, on, arg>> is found on the chain.
Unless(item, on, arg, body) ==
    <<[op |-> "unless", item |-> item, on |-> on, arg |-> arg,
       gated |-> TRUE, skip |-> Len(body)]>> \o body

UnlessAlways(item, on, arg, body) ==
    <<[op |-> "unless", item |-> item, on |-> on, arg |-> arg,
       gated |-> FALSE, skip |-> Len(body)]>> \o body

\* Concatenation of Body(1), ..., Body(n), n being small.
ForEach(n, Body(_)) ==
    LET all[i \in 0..n] == IF i = 0 THEN <<>> ELSE all[i - 1] \o Body(i) IN all[n]

-----------------------------------------------------------------------------

\* 01-access-controller.ts: the deployer makes itself the administrator
TemporaryAdmin ==
    Deploy("AccessController", TRUE)
    \o Unless("tempAdmin", "AccessController", None,
              Send("tempAdmin", "AccessController", None)
              \o Send("adminRoles", "AccessController", None))

EmergencyAdminGrants ==
    ForEach(Len(EmergencyAdmins),
            LAMBDA i : UnlessAlways(EmergencyAdmins[i], "AccessController", None,
                           Send(EmergencyAdmins[i], "AccessController", None)))

\* 01-access-controller.ts, without a configured owner (:33-57)
AccessControllerStep == Begin(1) \o TemporaryAdmin \o EmergencyAdminGrants

\* addImpl of 02-proxy-catalog.ts
AddImpl(impl) ==
    <<[op |-> "default", impl |-> impl, skip |-> 3]>>
    \o Deploy(impl, FALSE)
    \o Send("authentic", "ProxyCatalog", impl)
    \o Send("default", "ProxyCatalog", impl)

\* 02-proxy-catalog.ts
ProxyCatalogStep ==
    Begin(2) \o Deploy("ProxyCatalog", TRUE)
    \o Assign("PROXY_FACTORY", "ProxyCatalog")
    \o AddImpl("ApprovalCatalogV1")
    \o AddImpl("OracleRouterV1")
    \o AddImpl("CollateralCurrencyV1")
    \o Proxy("COLLATERAL_CCY", "CollateralCurrencyV1", FALSE, FALSE)
    \o AddImpl("CollateralFundV1")
    \o AddImpl("ReinvestorV1")
    \o AddImpl("PremiumFundV1")
    \o AddImpl("InsuredPoolV1")
    \o Deploy("ImperpetualPoolExtension", FALSE)
    \o Deploy("JoinablePoolExtension", FALSE)
    \o AddImpl("ImperpetualPoolV1")
    \o Send("access", "ProxyCatalog", None)

\* 03-price-oracle.ts
PriceOracleStep ==
    Begin(3) \o Proxy("ORACLE_ROUTER", "OracleRouterV1", FALSE, TRUE)
    \o Assign("PRICE_ROUTER", "ORACLE_ROUTER")
    \o UnlessAlways("prices", "ORACLE_ROUTER", None, Send("prices", "ORACLE_ROUTER", None))
    \o (IF HasRanges THEN Send("ranges", "ORACLE_ROUTER", None) ELSE <<>>)

\* 04-reinvestor.ts
ReinvestorStep ==
    Begin(4)
    \o UnlessAlways("borrowManager", "COLLATERAL_CCY", "REINVESTOR",
                    Proxy("REINVESTOR", "ReinvestorV1", TRUE, FALSE)
                    \o Send("borrowManager", "COLLATERAL_CCY", "REINVESTOR"))
    \o Deploy("AaveStrategy", TRUE)
    \o Unless("strategy", "REINVESTOR", "AaveStrategy",
              Send("strategy", "REINVESTOR", "AaveStrategy"))

\* 06-approval-catalog.ts
ApprovalCatalogStep ==
    Begin(6) \o Proxy("APPROVAL_CATALOG", "ApprovalCatalogV1", FALSE, TRUE)
    \o Assign("APPROVAL_CATALOG", "APPROVAL_CATALOG")

\* 07-collateral-fund.ts
CollateralFundStep ==
    Begin(7) \o Proxy("COLLATERAL_FUND", "CollateralFundV1", TRUE, TRUE)
    \o Unless("liquidityProvider", "COLLATERAL_CCY", "COLLATERAL_FUND",
              Send("fundListing", "AccessController", "COLLATERAL_FUND")
              \o Send("liquidityProvider", "COLLATERAL_CCY", "COLLATERAL_FUND"))
    \o ForEach(Len(Assets),
               LAMBDA i : Unless(Assets[i], "COLLATERAL_FUND", None,
                              Send(Assets[i], "COLLATERAL_FUND", None)))

(***************************************************************************)
(* 08-premium-fund.ts.  The configuration of the drawdown asset is sent on *)
(* every run: setAssetConfig stores it with a price of one, the step looks *)
(* for it with a price of zero and never finds it.                         *)
(***************************************************************************)
PremiumFundStep ==
    Begin(8) \o Proxy("PREMIUM_FUND", "PremiumFundV1", TRUE, TRUE)
    \o Unless("premiumConfig", "PREMIUM_FUND", None, Send("premiumConfig", "PREMIUM_FUND", None))
    \o Send("drawdownConfig", "PREMIUM_FUND", None)
    \o (IF HasGlobals
        THEN Unless("globals", "PREMIUM_FUND", None, SendOnly("globals", "PREMIUM_FUND", None))
        ELSE <<>>)

PoolName(i) == <<"IMPERPETUAL_INDEX_POOL-1", "IMPERPETUAL_INDEX_POOL-2">>[i]

\* A variant that registers a pool as an insurer before it is an actuary.
FaultyIndexPoolsStep ==
    Begin(9)
    \o ForEach(PoolCount,
         LAMBDA i :
           Proxy(PoolName(i), "ImperpetualPoolV1", TRUE, TRUE)
           \o Unless("insurer", "COLLATERAL_CCY", PoolName(i),
                Send("poolListing", "AccessController", PoolName(i))
                \o Send("insurer", "COLLATERAL_CCY", PoolName(i))
                \o Unless("actuary", "PREMIUM_FUND", PoolName(i),
                       Send("distributor", PoolName(i), "PREMIUM_FUND")
                       \o Send("actuary", "PREMIUM_FUND", PoolName(i)))))

\* 09-index-pools.ts
IndexPoolsStep ==
    Begin(9)
    \o ForEach(PoolCount,
         LAMBDA i :
           Proxy(PoolName(i), "ImperpetualPoolV1", TRUE, TRUE)
           \o Unless("insurer", "COLLATERAL_CCY", PoolName(i),
                Unless("actuary", "PREMIUM_FUND", PoolName(i),
                       Send("distributor", PoolName(i), "PREMIUM_FUND")
                       \o Send("actuary", "PREMIUM_FUND", PoolName(i)))
                \o Send("poolListing", "AccessController", PoolName(i))
                \o Send("insurer", "COLLATERAL_CCY", PoolName(i))))

\* 10-front-helper.ts
FrontHelperStep ==
    Begin(10) \o Deploy("FrontHelper", TRUE) \o Assign("DATA_HELPER", "FrontHelper")

\* The order in which getDeploySteps('full') returns the steps.
FullScript ==
    AccessControllerStep \o ProxyCatalogStep \o PriceOracleStep \o ReinvestorStep
    \o ApprovalCatalogStep \o CollateralFundStep \o PremiumFundStep
    \o IndexPoolsStep \o FrontHelperStep
=============================================================================
