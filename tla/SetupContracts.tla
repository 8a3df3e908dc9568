--------------------------- MODULE SetupContracts ---------------------------
(***************************************************************************)
(* The chain as the deployment tools meet it: which addresses have code,   *)
(* what the set-up transactions have established, and when a contract      *)
(* refuses one.  A chain is a record                                       *)
(*                                                                         *)
(*   code     address -> [kind, ac, impl], the contract at the address,    *)
(*            its access controller and, for a proxy, its implementation   *)
(*   facts    set of <<item, contract, argument>> that were established    *)
(*   deploys  the number of contracts the deployer has sent, from which    *)
(*            the address of the next one follows                          *)
(*                                                                         *)
(* Contracts have positive addresses and proxies, which the catalog        *)
(* creates, negative ones.  The deployer owns every access controller.     *)
(***************************************************************************)
EXTENDS DeployDb, Integers

CONSTANTS
    AssetItems     \* names of the assets of the collateral fund

(***************************************************************************)
(* A transaction: op is deploy, proxy or send; what the factory or the     *)
(* item; awaited tells that the process waits for the receipt.             *)
(***************************************************************************)
Tx(op, what, on, arg, awaited) ==
    [op |-> op, what |-> what, on |-> on, arg |-> arg, awaited |-> awaited]

EmptyChain == [code |-> <<>>, facts |-> {}, deploys |-> 0]

HasCode(c, addr) == addr \in DOMAIN c.code

Fact(c, item, on, arg) == <<item, on, arg>> \in c.facts

ArgsOf(c, item, on) == {f[3] : f \in {g \in c.facts : g[1] = item /\ g[2] = on}}

\* The roles of the deployer that step 01 grants on an access controller.
HasAdminRoles(c, ac) == Fact(c, "adminRoles", ac, NoAddr)

\* _defaultImpls of the proxy catalog for the type that the factory implements
DefaultImpl(c, catalog, factory) ==
    {a \in ArgsOf(c, "default", catalog) : c.code[a].kind = factory}

SingletonRoles == {"PROXY_FACTORY", "DATA_HELPER", "PRICE_ROUTER", "APPROVAL_CATALOG"}
ProtectedRoles == {"PRICE_ROUTER", "APPROVAL_CATALOG"}

\* The functions with aclHas or onlyOracleAdmin that the deployer calls.
RoleItems == {"prices", "ranges", "strategy", "liquidityProvider", "premiumConfig",
              "drawdownConfig", "globals", "distributor", "actuary", "insurer"}
             \cup AssetItems

(***************************************************************************)
(* The requirements of the function a transaction calls.  A call to an     *)
(* address without code succeeds and does nothing.                         *)
(***************************************************************************)
AcceptsSetAddress(c, role, ac, addr) ==
    /\ HasCode(c, addr)
    /\ role \in ProtectedRoles => ArgsOf(c, role, ac) = {}

AcceptsSetDefault(c, catalog, impl) ==
    /\ Fact(c, "authentic", catalog, impl)
    /\ HasCode(c, impl)
    /\ DefaultImpl(c, catalog, c.code[impl].kind) = {}   \* else not a new revision

AcceptsSend(c, tx) ==
    HasCode(c, tx.on) =>
        /\ tx.what \in RoleItems => HasAdminRoles(c, c.code[tx.on].ac)
        /\ tx.what \in SingletonRoles => AcceptsSetAddress(c, tx.what, tx.on, tx.arg)
        /\ tx.what = "default" => AcceptsSetDefault(c, tx.on, tx.arg)
        /\ tx.what \in {"strategy", "liquidityProvider", "insurer"} => HasCode(c, tx.arg)
        /\ tx.what \in AssetItems \cup {"actuary"} => ~Fact(c, tx.what, tx.on, tx.arg)

AcceptsCreateProxy(c, tx) == HasCode(c, tx.on) /\ DefaultImpl(c, tx.on, tx.what) # {}

Accepts(c, tx) ==
    CASE tx.op = "deploy" -> TRUE
      [] tx.op = "proxy"  -> AcceptsCreateProxy(c, tx)
      [] tx.op = "send"   -> AcceptsSend(c, tx)

-----------------------------------------------------------------------------

\* _revokeAllRoles of the temporary administrator, which is then cleared
WithoutAdmin(c, ac) ==
    [c EXCEPT !.facts = @ \ {<<"tempAdmin", ac, NoAddr>>, <<"adminRoles", ac, NoAddr>>}]

WithFact(c, item, on, arg) == [c EXCEPT !.facts = @ \cup {<<item, on, arg>>}]

\* A single address is kept: the previous one is replaced.
WithSingle(c, item, on, arg) ==
    [c EXCEPT !.facts = {f \in @ : f[1] # item \/ f[2] # on} \cup {<<item, on, arg>>}]

(***************************************************************************)
(* registerPremiumActuary copies the default configuration to the actuary: *)
(* what is not set yet is missing from the copy.                           *)
(***************************************************************************)
WithActuary(c, fund, actuary) ==
    [c EXCEPT !.facts = @ \cup {<<"actuary", fund, actuary>>}
        \cup {<<item, fund, actuary>> :
                 item \in {i \in {"premiumConfig", "drawdownConfig", "globals"} :
                              Fact(c, i, fund, NoAddr)}}]

ApplySend(c, tx) ==
    IF ~HasCode(c, tx.on) THEN c
    ELSE CASE tx.what = "tempAdmin" -> WithFact(WithoutAdmin(c, tx.on), "tempAdmin", tx.on, NoAddr)
           [] tx.what = "renounce"  -> WithoutAdmin(c, tx.on)
           [] tx.what = "actuary"   -> WithActuary(c, tx.on, tx.arg)
           [] tx.what \in SingletonRoles \cup {"borrowManager", "distributor"}
                                    -> WithSingle(c, tx.what, tx.on, tx.arg)
           [] OTHER                 -> WithFact(c, tx.what, tx.on, tx.arg)

ProxyAddr(c) == -(1 + Cardinality({a \in DOMAIN c.code : a < 0}))

NewCode(c, addr, kind, ac, impl) ==
    [c EXCEPT !.code = Put(@, addr, [kind |-> kind, ac |-> ac, impl |-> impl])]

(***************************************************************************)
(* The chain after an accepted transaction.  A deployment names the access *)
(* controller of the new contract; the controller itself names none.       *)
(***************************************************************************)
ApplyDeploy(c, tx) ==
    NewCode(c, tx.on, tx.what, IF tx.arg = NoAddr THEN tx.on ELSE tx.arg, NoAddr)

ApplyCreateProxy(c, tx) ==
    LET impl == CHOOSE a \in DefaultImpl(c, tx.on, tx.what) : TRUE
    IN  NewCode(c, ProxyAddr(c), tx.what, c.code[tx.on].ac, impl)

Apply(c, tx) ==
    CASE tx.op = "deploy" -> ApplyDeploy(c, tx)
      [] tx.op = "proxy"  -> ApplyCreateProxy(c, tx)
      [] tx.op = "send"   -> ApplySend(c, tx)
=============================================================================
