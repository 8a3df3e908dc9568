----------------------------- MODULE Deployment -----------------------------
(***************************************************************************)
(* The task deploy-full: a process that runs a script of set-up steps      *)
(* against a chain, records in a file what it deployed, tests the result,  *)
(* and gives its administrator roles back.  It can be killed at any point  *)
(* and started again, incrementally (the file is kept, and every step      *)
(* looks first for what is already there) or from nothing.                 *)
(*                                                                         *)
(*   db         the file, which survives the process (module DeployDb)     *)
(*   chain      the contracts (module SetupContracts)                      *)
(*   mempool    transactions sent and not mined; they survive the process  *)
(*   lost       the nonces of transactions that were lost, which the next  *)
(*              ones take again: for a deployment the address that follows *)
(*              from the nonce, for another transaction none               *)
(*   proc       the process: its phase, its place in the script and the    *)
(*              locals of the running step                                 *)
(*   announced  the last start from nothing was followed by a run that     *)
(*              exited with success                                        *)
(*   faults     counters that bound the faults of an execution, and of the *)
(*              starts from nothing that followed a run                    *)
(***************************************************************************)
EXTENDS SetupContracts, Sequences

CONSTANTS
    Script,        \* the instructions of the steps, see module DeploySteps
    Strict,        \* the flag --strict
    MaxFaults      \* bound of the faults of an execution

\* The instructions as DeploySteps explains them.
Instructions ==
    [op : {"begin"}, step : Nat]
    \cup [op : {"deploy"}, name : STRING, marks : BOOLEAN]
    \cup [op : {"proxy"}, name : STRING, impl : STRING, inCcy : BOOLEAN, marks : BOOLEAN]
    \cup [op : {"assign"}, role : SingletonRoles, name : STRING]
    \cup [op : {"default"}, impl : STRING, skip : Nat]
    \cup [op : {"unless"}, item : STRING, on : STRING, arg : STRING, gated : BOOLEAN, skip : Nat]
    \cup [op : {"send"}, item : STRING \ SingletonRoles, on : STRING, arg : STRING, wait : BOOLEAN]

(***************************************************************************)
(* A name stands for a contract or for a proxy of one implementation, and  *)
(* a role for one name; what is skipped is in the script.                  *)
(***************************************************************************)
ASSUME ScriptAssumption ==
    /\ NoAddr = 0
    /\ Script \in Seq(Instructions)
    /\ \A i \in 1..Len(Script) :
          Script[i].op \in {"default", "unless"} => i + Script[i].skip <= Len(Script)
    /\ \A i, j \in 1..Len(Script) :
          /\ Script[i].op = "deploy" /\ Script[j].op = "proxy" => Script[i].name # Script[j].name
          /\ Script[i].op = "proxy" /\ Script[j].op = "proxy" /\ Script[i].name = Script[j].name
                => Script[i].impl = Script[j].impl
          /\ Script[i].op = "assign" /\ Script[j].op = "assign" /\ Script[i].role = Script[j].role
                => Script[i].name = Script[j].name

VARIABLES db, chain, mempool, lost, proc, announced, faults

vars == <<db, chain, mempool, lost, proc, announced, faults>>

AC == "AccessController"
Catalog == "ProxyCatalog"
Currency == "COLLATERAL_CCY"

Phases == {"off", "run", "recording", "naming", "waiting", "namingProxy",
           "access", "smoke", "summary", "finalize", "finalizing", "exit"}

NoReceipt == [status |-> "none", addr |-> NoAddr]

Off(result) ==
    [phase |-> "off", pc |-> 1, newDeploy |-> FALSE, renounce |-> FALSE,
     result |-> result, receipt |-> NoReceipt, addr |-> NoAddr]

Init ==
    /\ db = EmptyDb
    /\ chain = EmptyChain
    /\ mempool = <<>>
    /\ lost = <<>>
    /\ proc = Off("none")
    /\ announced = FALSE
    /\ faults = [crashes |-> 0, drops |-> 0, seizures |-> 0, cleans |-> 0]

-----------------------------------------------------------------------------
(* Helpers of the process.                                                 *)

\* The address a name of the script stands for, none when it is not in the file.
Resolve(name) == AddrOf(db, name)

At(op) == proc.phase = "run" /\ proc.pc <= Len(Script) /\ Script[proc.pc].op = op

Cur == Script[proc.pc]

\* The next instruction; newDeploy is bound when the instruction says so.
Next1(p, new) ==
    [p EXCEPT !.phase = "run", !.pc = @ + 1, !.receipt = NoReceipt, !.addr = NoAddr,
              !.newDeploy = IF "marks" \in DOMAIN Cur /\ Cur.marks THEN new ELSE @]

Advance(p) == [p EXCEPT !.phase = "run", !.pc = @ + 1, !.receipt = NoReceipt]

SkipTo(p, n) == [p EXCEPT !.pc = @ + n]

\* An exception that leaves the steps; with --secure the roles are renounced.
Throw(p) ==
    IF p.renounce THEN [Off("failed") EXCEPT !.phase = "finalize"] ELSE Off("failed")

NewTx(op, what, on, arg) == Tx(op, what, on, arg, TRUE)

\* A transaction takes the first nonce that is free.
Submit(tx, p, phase) ==
    /\ mempool' = Append(mempool, tx)
    /\ lost' = IF lost = <<>> THEN <<>> ELSE Tail(lost)
    /\ proc' = [p EXCEPT !.phase = phase, !.receipt = NoReceipt]

\* A transaction the node would refuse now is not sent: gas estimation throws.
Refused(tx) == ~Accepts(chain, tx)

SendAndWait(tx) ==
    /\ \/ ~Refused(tx) /\ Submit(tx, proc, "waiting")
       \/ Refused(tx) /\ proc' = Throw(proc) /\ UNCHANGED <<mempool, lost>>
       \* the node estimates on its pending state
       \/ Refused(tx) /\ mempool # <<>> /\ Submit(tx, proc, "waiting")
    /\ UNCHANGED <<db, chain, announced, faults>>

Step(p) == proc' = p /\ UNCHANGED <<db, chain, mempool, lost, announced, faults>>

-----------------------------------------------------------------------------
(* The start of the task and of a step.                                    *)

Started(renounce) ==
    [Off("none") EXCEPT !.phase = "run", !.renounce = renounce]

StartIncremental ==
    /\ proc.phase = "off"
    /\ Step(Started(FALSE))

\* A variant that starts from nothing without cleanupJsonDb.
FaultyStartClean ==
    /\ proc.phase = "off" /\ proc.result # "success"
    /\ \E secure \in BOOLEAN : Step(Started(secure))

(***************************************************************************)
(* A start from nothing empties the file: at first, or instead of another  *)
(* incremental run when one was killed or failed.  Nothing names the older *)
(* contracts any more, so the model forgets them and what is still sent to *)
(* them, and counts addresses anew.                                        *)
(***************************************************************************)
StartClean ==
    /\ proc.phase = "off" /\ proc.result # "success"
    /\ \E secure \in BOOLEAN : proc' = Started(secure)
    /\ db' = EmptyDb
    /\ chain' = EmptyChain
    /\ mempool' = <<>> /\ lost' = <<>>
    /\ announced' = FALSE
    /\ faults' = [faults EXCEPT !.cleans = IF proc.result = "none" THEN @ ELSE @ + 1]

BeginStep ==
    /\ At("begin")
    /\ Step([Advance(proc) EXCEPT !.newDeploy = FALSE])

-----------------------------------------------------------------------------
(* getOrDeploy: a contract that the file names is attached, another one is *)
(* deployed and written to the file before it is mined.                    *)

DeployFound ==
    /\ At("deploy")
    /\ Has(db, Cur.name)
    /\ Step(Next1(proc, FALSE))

\* A variant that predicts the address from the nonce of the transaction before.
FaultyNextAddress == IF chain.deploys = 0 THEN 1 ELSE chain.deploys

\* The address of a contract follows from the nonce of its deployment.
NextAddress ==
    IF lost # <<>> /\ Head(lost) # NoAddr THEN Head(lost) ELSE chain.deploys + 1

\* A variant that does not look into the file.
FaultyDeploySend ==
    /\ At("deploy")
    /\ Submit(NewTx("deploy", Cur.name, NextAddress, Resolve(AC)),
              [proc EXCEPT !.addr = NextAddress], "recording")
    /\ chain' = [chain EXCEPT !.deploys = IF NextAddress > @ THEN NextAddress ELSE @]
    /\ UNCHANGED <<db, announced, faults>>

DeploySend ==
    /\ At("deploy")
    /\ ~Has(db, Cur.name)
    /\ Submit(NewTx("deploy", Cur.name, NextAddress, Resolve(AC)),
              [proc EXCEPT !.addr = NextAddress], "recording")
    /\ chain' = [chain EXCEPT !.deploys = IF NextAddress > @ THEN NextAddress ELSE @]
    /\ UNCHANGED <<db, announced, faults>>

\* addContractToJsonDb, first write; a receipt may be there already
DeployRecord ==
    /\ proc.phase = "recording"
    /\ db' = AddInstance(db, Cur.name, proc.addr)
    /\ proc' = [proc EXCEPT !.phase = "naming"]
    /\ UNCHANGED <<chain, mempool, lost, announced, faults>>

\* addContractToJsonDb, second write
DeployName ==
    /\ proc.phase = "naming"
    /\ db' = AddNamed(db, Cur.name, proc.addr)
    /\ proc' = [proc EXCEPT !.phase = "waiting"]
    /\ UNCHANGED <<chain, mempool, lost, announced, faults>>

-----------------------------------------------------------------------------
(* findOrDeployProxyFromCatalog: the proxy is written to the file when the *)
(* transaction that created it is mined.                                   *)

ProxyFound ==
    /\ At("proxy")
    /\ Has(db, Cur.name)
    /\ Step(Next1(proc, FALSE))

ProxySend ==
    /\ At("proxy")
    /\ ~Has(db, Cur.name)
    /\ IF Has(db, Catalog) /\ (Cur.inCcy => Has(db, Currency))
       THEN SendAndWait(NewTx("proxy", Cur.impl, Resolve(Catalog), NoAddr))
       ELSE Step(Throw(proc))

\* addProxyToJsonDb and setExternalNeedsSync, two writes of the file: a kill between
\* them would leave needsSync unset, which nothing here reads.
ProxyRecord ==
    /\ proc.phase = "waiting" /\ Cur.op = "proxy" /\ proc.receipt.status = "ok"
    /\ LET addr == proc.receipt.addr IN
         /\ db' = SetNeedsSync(AddProxy(db, Cur.name, addr, chain.code[addr].impl, Cur.impl),
                               addr, TRUE)
         /\ proc' = [proc EXCEPT !.phase = "namingProxy", !.addr = addr]
    /\ UNCHANGED <<chain, mempool, lost, announced, faults>>

\* addNamedToJsonDb
ProxyName ==
    /\ proc.phase = "namingProxy"
    /\ db' = AddNamed(db, Cur.name, proc.addr)
    /\ proc' = Next1(proc, TRUE)
    /\ UNCHANGED <<chain, mempool, lost, announced, faults>>

-----------------------------------------------------------------------------
(* assignRole, the lookups, and the other transactions of the steps.  A    *)
(* lookup at an address that is unknown or has no code throws.             *)

Readable(name) == HasCode(chain, Resolve(name))

Holder(role) == IF proc.newDeploy THEN {} ELSE ArgsOf(chain, role, Resolve(AC))

\* A variant that takes a role that is set for a mismatch.
FaultyAssignRole ==
    /\ At("assign")
    /\ IF ~Has(db, AC) \/ (~proc.newDeploy /\ ~Readable(AC)) \/ Holder(Cur.role) # {}
       THEN Step(Throw(proc))
       ELSE SendAndWait(NewTx("send", Cur.role, Resolve(AC), Resolve(Cur.name)))

AssignRole ==
    /\ At("assign")
    /\ IF ~Has(db, AC) \/ (~proc.newDeploy /\ ~Readable(AC)) THEN Step(Throw(proc))
       ELSE IF Holder(Cur.role) = {}
       THEN SendAndWait(NewTx("send", Cur.role, Resolve(AC), Resolve(Cur.name)))
       ELSE IF Holder(Cur.role) = {Resolve(Cur.name)}
       THEN Step(Advance(proc))
       ELSE Step(Throw(proc))        \* Deployed address mismatched

\* A variant that asks a catalog it has just deployed as well.
FaultyLookupDefault ==
    /\ At("default")
    /\ IF Readable(Catalog) /\ DefaultImpl(chain, Resolve(Catalog), Cur.impl) # {}
       THEN Step(SkipTo(proc, 1 + Cur.skip))
       ELSE Step(Throw(proc))

\* addImpl: getDefaultImplementation reverts when there is none
LookupDefault ==
    /\ At("default")
    /\ IF proc.newDeploy THEN Step(Advance(proc))
       ELSE IF Readable(Catalog) /\ DefaultImpl(chain, Resolve(Catalog), Cur.impl) # {}
       THEN Step(SkipTo(proc, 1 + Cur.skip))
       ELSE Step(Throw(proc))

Lookup ==
    /\ At("unless")
    /\ IF Cur.gated /\ proc.newDeploy THEN Step(Advance(proc))
       ELSE IF ~Readable(Cur.on) THEN Step(Throw(proc))
       ELSE IF Fact(chain, Cur.item, Resolve(Cur.on), Resolve(Cur.arg))
       THEN Step(SkipTo(proc, 1 + Cur.skip))
       ELSE Step(Advance(proc))

SendCall ==
    /\ At("send") /\ Cur.wait
    /\ IF Has(db, Cur.on)
       THEN SendAndWait(NewTx("send", Cur.item, Resolve(Cur.on), Resolve(Cur.arg)))
       ELSE Step(Throw(proc))

\* The transaction of 08-premium-fund.ts whose receipt nobody waits for.
SendCallOnly ==
    /\ At("send") /\ ~Cur.wait
    /\ LET tx == Tx("send", Cur.item, Resolve(Cur.on), Resolve(Cur.arg), FALSE) IN
         \/ Refused(tx) /\ proc' = Throw(proc) /\ UNCHANGED <<mempool, lost>>
         \* as above, the node may estimate on its pending state
         \/ (~Refused(tx) \/ mempool # <<>>) /\ Submit(tx, Advance(proc), "run")
    /\ UNCHANGED <<db, chain, announced, faults>>

-----------------------------------------------------------------------------
(* The receipt of the transaction the process waits for.                   *)

ReceiptOk ==
    /\ proc.phase = "waiting" /\ Cur.op # "proxy" /\ proc.receipt.status = "ok"
    /\ Step(Next1(proc, TRUE))

\* A variant that does not look at the status of the receipt.
FaultyReceiptReverted ==
    /\ proc.phase = "waiting" /\ proc.receipt.status = "reverted"
    /\ Step(Next1(proc, TRUE))

ReceiptReverted ==
    /\ proc.phase = "waiting" /\ proc.receipt.status = "reverted"
    /\ Step(Throw(proc))

-----------------------------------------------------------------------------
(* The tests after the steps, the summary, and the finalization.           *)

StepsDone ==
    /\ proc.phase = "run" /\ proc.pc > Len(Script)
    /\ Step([proc EXCEPT !.phase = "access"])

(***************************************************************************)
(* 97-access-test.ts calls every recorded contract, and every proxy whose  *)
(* implementation it finds among the recorded contracts.  Module           *)
(* AccessCheck models what is checked of one contract.                     *)
(***************************************************************************)
AccessTestPasses ==
    /\ \A a \in DOMAIN db.instance : HasCode(chain, a)
    /\ \A a \in DOMAIN db.external :
          HasCode(chain, a) /\ db.external[a].impl \in DOMAIN db.instance

AccessTest ==
    /\ proc.phase = "access"
    /\ Step(IF AccessTestPasses THEN [proc EXCEPT !.phase = "smoke"] ELSE Throw(proc))

(***************************************************************************)
(* 98-smoke-test.ts finds the contracts through the access controller: its *)
(* funds, their assets and prices, and its insurers.                       *)
(***************************************************************************)
SmokeTestPasses ==
    LET ac == Resolve(AC)
        routers == ArgsOf(chain, "PRICE_ROUTER", ac)
        funds == ArgsOf(chain, "fundListing", ac)
    IN  /\ \E dh \in ArgsOf(chain, "DATA_HELPER", ac) : HasCode(chain, dh)
        /\ funds # {} /\ ArgsOf(chain, "poolListing", ac) # {}
        /\ \A fund \in funds : \E asset \in AssetItems : Fact(chain, asset, fund, NoAddr)
        /\ \E router \in routers : Fact(chain, "prices", router, NoAddr)

SmokeTest ==
    /\ proc.phase = "smoke"
    /\ Step(IF SmokeTestPasses THEN [proc EXCEPT !.phase = "summary"] ELSE Throw(proc))

Summary ==
    /\ proc.phase = "summary"
    /\ Step(IF Strict /\ HasWarnings(db) THEN Throw(proc)
            ELSE [Off("success") EXCEPT !.phase = "finalize"])

\* 99-finalize.ts
FinalizeSend ==
    /\ proc.phase = "finalize"
    /\ IF Has(db, AC)
       THEN Submit(NewTx("send", "renounce", Resolve(AC), NoAddr), proc, "finalizing")
       ELSE proc' = [proc EXCEPT !.phase = "exit"] /\ UNCHANGED <<mempool, lost>>
    /\ UNCHANGED <<db, chain, announced, faults>>

(***************************************************************************)
(* The task ends, with success or with exit(1).  An error of               *)
(* 99-finalize.ts is logged and changes nothing of the result: a renounce  *)
(* that is reverted, or lost with the process waiting, is modelled, but    *)
(* not an error of the node when it is sent.                               *)
(***************************************************************************)
Exit ==
    /\ proc.phase = "exit" \/ (proc.phase = "finalizing" /\ proc.receipt.status # "none")
    /\ proc' = Off(proc.result)
    /\ announced' = (announced \/ proc.result = "success")
    /\ UNCHANGED <<db, chain, mempool, lost, faults>>

-----------------------------------------------------------------------------
(* The chain.                                                              *)

ReceiptOf(tx, ok) ==
    [status |-> IF ok THEN "ok" ELSE "reverted",
     addr |-> IF ok /\ tx.op = "proxy" THEN ProxyAddr(chain) ELSE NoAddr]

Mine ==
    /\ mempool # <<>>
    /\ LET tx == Head(mempool)
           ok == Accepts(chain, tx)
       IN  /\ chain' = IF ok THEN Apply(chain, tx) ELSE chain
           /\ proc' = IF tx.awaited THEN [proc EXCEPT !.receipt = ReceiptOf(tx, ok)] ELSE proc
    /\ mempool' = Tail(mempool)
    /\ UNCHANGED <<db, lost, announced, faults>>

\* Nobody waits for the transactions of a process that has ended.
Orphaned(txs) == [i \in DOMAIN txs |-> [txs[i] EXCEPT !.awaited = FALSE]]

-----------------------------------------------------------------------------
(* Faults.                                                                 *)

FaultCount == faults.crashes + faults.drops + faults.seizures

\* The process is killed.
Crash ==
    /\ proc.phase # "off"
    /\ FaultCount < MaxFaults
    /\ faults' = [faults EXCEPT !.crashes = @ + 1]
    /\ proc' = Off("killed")
    /\ mempool' = Orphaned(mempool)
    /\ UNCHANGED <<db, chain, lost, announced>>

AddressesOf(txs) ==
    [i \in DOMAIN txs |-> IF txs[i].op = "deploy" THEN txs[i].on ELSE NoAddr]

\* Only a nonce from which an address followed matters.
Reusable(addrs) == IF \A i \in DOMAIN addrs : addrs[i] = NoAddr THEN <<>> ELSE addrs

\* The nodes forget the transactions that were sent and not mined.
Drop ==
    /\ mempool # <<>>
    /\ FaultCount < MaxFaults
    /\ faults' = [faults EXCEPT !.drops = @ + 1]
    /\ mempool' = <<>>
    /\ lost' = Reusable(AddressesOf(mempool) \o lost)
    /\ UNCHANGED <<db, chain, proc, announced>>

\* The operator kills a process whose transaction will never be mined.
Hanging ==
    /\ proc.phase \in {"waiting", "finalizing"}
    /\ proc.receipt.status = "none" /\ mempool = <<>>

Abandon ==
    /\ Hanging
    /\ Step(Off("killed"))

\* After an hour anyone may renounce the temporary administrator.
Seize ==
    /\ FaultCount < MaxFaults
    /\ \E a \in DOMAIN chain.code :
         /\ Fact(chain, "tempAdmin", a, NoAddr)
         /\ chain' = WithoutAdmin(chain, a)
    /\ faults' = [faults EXCEPT !.seizures = @ + 1]
    /\ UNCHANGED <<db, mempool, lost, proc, announced>>

-----------------------------------------------------------------------------

\* What the process does once it is started.
Work ==
    \/ BeginStep
    \/ DeployFound \/ DeploySend \/ DeployRecord \/ DeployName
    \/ ProxyFound \/ ProxySend \/ ProxyRecord \/ ProxyName
    \/ AssignRole \/ LookupDefault \/ Lookup \/ SendCall \/ SendCallOnly
    \/ ReceiptOk \/ ReceiptReverted
    \/ StepsDone \/ AccessTest \/ SmokeTest \/ Summary
    \/ FinalizeSend \/ Exit

Next ==
    \/ Work
    \/ Mine
    \/ StartIncremental \/ StartClean \/ Abandon
    \/ Crash \/ Drop \/ Seize

(***************************************************************************)
(* The process runs, the chain mines, and the operator kills a process     *)
(* that hangs and starts an ended deployment again, incrementally.  Faults *)
(* and starts from nothing are never owed.                                 *)
(***************************************************************************)
Fairness ==
    /\ WF_vars(Work)
    /\ WF_vars(Mine)
    /\ WF_vars(Abandon)
    /\ WF_vars(StartIncremental)

Spec == Init /\ [][Next]_vars

FairSpec == Spec /\ Fairness
=============================================================================
