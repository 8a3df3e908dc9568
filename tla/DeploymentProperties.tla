------------------------ MODULE DeploymentProperties ------------------------
(***************************************************************************)
(* What is checked of a deployment: see module Deployment.                 *)
(***************************************************************************)
EXTENDS Deployment

TypeOK ==
    /\ proc.phase \in Phases
    /\ proc.pc \in 1..(Len(Script) + 1)
    /\ proc.newDeploy \in BOOLEAN /\ proc.renounce \in BOOLEAN
    /\ proc.result \in {"none", "failed", "killed", "success"}
    /\ proc.receipt.status \in {"none", "ok", "reverted"}
    /\ announced \in BOOLEAN
    /\ \A n \in DOMAIN db.named :
          db.named[n].address \in Int \ {NoAddr} /\ db.named[n].count \in Nat \ {0}
    /\ \A a \in DOMAIN db.instance : a > 0
    /\ \A a \in DOMAIN db.external : a < 0
    /\ \A a \in DOMAIN chain.code : a \in Int \ {NoAddr}
    /\ Cardinality({i \in DOMAIN mempool : mempool[i].awaited}) <= 1

Instrs == 1..Len(Script)

(***************************************************************************)
(* What instruction i is there for, at the addresses that the file names.  *)
(***************************************************************************)
Established(i) ==
    LET in == Script[i] IN
      CASE in.op = "deploy" ->
              /\ Has(db, in.name) /\ HasCode(chain, Resolve(in.name))
              /\ chain.code[Resolve(in.name)].kind = in.name
        [] in.op = "proxy" -> Has(db, in.name)
        [] in.op = "assign" ->
              Has(db, in.name) /\ Fact(chain, in.role, Resolve(AC), Resolve(in.name))
        [] in.op = "send" ->
              Has(db, in.on) /\ Fact(chain, in.item, Resolve(in.on), Resolve(in.arg))

\* The administrator's own credentials are taken back in the end, and nobody
\* waits for the transaction that sets the globals.
Lasting(in) ==
    \/ in.op \in {"deploy", "proxy", "assign"}
    \/ in.op = "send" /\ in.wait /\ in.item \notin {"tempAdmin", "adminRoles"}

Goals == {i \in Instrs : Lasting(Script[i])}

Done == {i \in Goals : Established(i)}

\* A contract is deployed whatever else is missing.
Free == {i \in Goals : Script[i].op = "deploy"}

-----------------------------------------------------------------------------
(* Safety.                                                                 *)

(***************************************************************************)
(* A name of the file, which is written before the contract is mined,      *)
(* stands for a contract of that kind, or for one that is still to be      *)
(* mined, unless the network lost the transaction.                         *)
(***************************************************************************)
RecordedIsDeployed ==
    \A i \in Instrs :
       LET in == Script[i] IN
         in.op \in {"deploy", "proxy"} /\ Has(db, in.name) =>
            LET a == Resolve(in.name)
                kind == IF in.op = "deploy" THEN in.name ELSE in.impl
            IN  \/ HasCode(chain, a) /\ chain.code[a].kind = kind
                \/ in.op = "deploy" /\ faults.drops > 0
                \/ /\ ~HasCode(chain, a)
                   /\ \E k \in DOMAIN mempool : mempool[k].on = a /\ mempool[k].what = kind

(***************************************************************************)
(* The singleton roles of the access controller, two of which can be set   *)
(* only once, never point to a contract that the file does not name for    *)
(* them: a second run finds its own contracts, never "Deployed address     *)
(* mismatched" (templates.ts:113).                                         *)
(***************************************************************************)
RolesPointToRecorded ==
    \A i \in Instrs :
       Script[i].op = "assign" =>
          ArgsOf(chain, Script[i].role, Resolve(AC)) \subseteq {Resolve(Script[i].name)}

(***************************************************************************)
(* The file and the chain tell the same, however a run was cut short.      *)
(***************************************************************************)
FileMatchesChain == TypeOK /\ RecordedIsDeployed /\ RolesPointToRecorded

(***************************************************************************)
(* An insurer that the currency knows (its users can find it and it may    *)
(* issue shares) is an actuary of the recorded premium fund, sends its     *)
(* premium there, is listed, and got its copy of both default token        *)
(* configurations, which registerPremiumActuary takes only once.           *)
(***************************************************************************)
InsurerIsConfigured ==
    \A pool \in ArgsOf(chain, "insurer", Resolve(Currency)) :
       LET fund == Resolve("PREMIUM_FUND") IN
         /\ \A item \in {"actuary", "premiumConfig", "drawdownConfig"} :
               Fact(chain, item, fund, pool)
         /\ ArgsOf(chain, "distributor", pool) = {fund}
         /\ Fact(chain, "poolListing", Resolve(AC), pool)

(***************************************************************************)
(* A run that ends with success leaves every contract and setting in place *)
(* and has given the administrator's credentials back, and an announced    *)
(* deployment stays complete.                                              *)
(***************************************************************************)
SuccessIsComplete ==
    /\ announced => Done = Goals
    /\ proc.result = "success" => Done = Goals
    /\ proc.phase = "off" /\ proc.result = "success" =>
          /\ ~Fact(chain, "tempAdmin", Resolve(AC), NoAddr)
          /\ ~HasAdminRoles(chain, Resolve(AC))

(***************************************************************************)
(* Nothing that users rely on is half done: neither an insurer that can be *)
(* found nor a deployment that was announced.                              *)
(***************************************************************************)
NothingHalfDone == InsurerIsConfigured /\ SuccessIsComplete

(***************************************************************************)
(* Nothing but a fault makes a run fail: no order of the steps, no repeat  *)
(* of a deployment and no message of the chain that comes late does.       *)
(***************************************************************************)
FailsOnlyAfterFaults ==
    proc.result = "failed" => FaultCount > 0

-----------------------------------------------------------------------------
(* Action properties.                                                      *)

(***************************************************************************)
(* Once a name is recorded it keeps its address and is never deployed a    *)
(* second time: what deploy-test-incremental.ts checks after every prefix  *)
(* of the steps, here after any run that was cut short anywhere.           *)
(***************************************************************************)
NeverRedeployed ==
    [][ \/ db' = EmptyDb
        \/ \A n \in DOMAIN db.named :
              n \in DOMAIN db'.named /\ db'.named[n] = db.named[n] ]_vars

-----------------------------------------------------------------------------
(* The plan: what the deployment implements.                               *)

Plan == INSTANCE SetupPlan WITH done <- Done

PlanSpec == Plan!PlanSpec

-----------------------------------------------------------------------------
(* Liveness.                                                               *)

Pending(item) == \E k \in DOMAIN mempool : mempool[k].what = item

(***************************************************************************)
(* States that no incremental run repairs.                                 *)
(*                                                                         *)
(* The process was killed between its two transactions of step 01: later   *)
(* runs find themselves the temporary administrator and never ask for the  *)
(* roles.                                                                  *)
(***************************************************************************)
RolesMissing ==
    /\ Fact(chain, "tempAdmin", Resolve(AC), NoAddr)
    /\ ~HasAdminRoles(chain, Resolve(AC))
    /\ ~Pending("adminRoles")

(***************************************************************************)
(* The process was killed in step 02: later runs ask the catalog for every *)
(* default implementation, which reverts when there is none.               *)
(***************************************************************************)
DefaultsMissing ==
    /\ Has(db, Catalog)
    /\ \E i \in Instrs :
          Script[i].op = "default" /\ DefaultImpl(chain, Resolve(Catalog), Script[i].impl) = {}

\* The file lists a contract whose transaction was lost.
CodeMissing ==
    \E a \in DOMAIN db.instance :
       ~HasCode(chain, a) /\ ~\E k \in DOMAIN mempool : mempool[k].on = a

\* The process was killed between two writes of the file.
EntryUnknown == Strict /\ HasWarnings(db)

DeadEnd == proc.phase = "off" /\
    (RolesMissing \/ DefaultsMissing \/ CodeMissing \/ EntryUnknown)

(***************************************************************************)
(* A deployment that is started again whenever it ended, and never from    *)
(* nothing, is announced, or it comes to one of the four dead ends.        *)
(***************************************************************************)
DoneOrDeadEnd == [](faults.cleans = 0) => <>(announced \/ DeadEnd)

(***************************************************************************)
(* A start from nothing leads out of every dead end: when the operator     *)
(* comes back to it as long as the deployment is not complete, the         *)
(* deployment is announced.                                                *)
(***************************************************************************)
CleanStartHelps == SF_vars(StartClean) => <>announced
=============================================================================
