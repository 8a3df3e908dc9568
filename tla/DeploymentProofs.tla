-------------------------- MODULE DeploymentProofs --------------------------
(***************************************************************************)
(* Proofs about deployments, for any script of instructions and any number *)
(* of faults: however often a run is killed, loses its transactions or     *)
(* starts again, the file and the chain tell the same, and nothing is      *)
(* deployed twice.                                                         *)
(***************************************************************************)
EXTENDS DeploymentProperties, FiniteSetTheorems, TLAPS

-----------------------------------------------------------------------------
(* The types.                                                              *)

Addresses == Int \ {NoAddr}

\* The provers do not know that a literal is in STRING.
Whats == STRING \cup SingletonRoles \cup {"renounce"}

Txs == [op : {"deploy", "proxy", "send"}, what : Whats, on : Int, arg : Int, awaited : BOOLEAN]

Receipts == [status : {"none", "ok", "reverted"}, addr : Int]

Processes ==
    [phase : Phases, pc : 1..(Len(Script) + 1), newDeploy : BOOLEAN, renounce : BOOLEAN,
     result : {"none", "failed", "killed", "success"}, receipt : Receipts, addr : Int]

NameRecords == [address : Addresses, count : Nat \ {0}]

\* A file d.
FileOK(d) ==
    /\ d = [named |-> d.named, instance |-> d.instance, external |-> d.external, verified |-> d.verified]
    /\ d.named = [n \in DOMAIN d.named |-> d.named[n]] /\ \A n \in DOMAIN d.named : d.named[n] \in NameRecords
    /\ \A a \in DOMAIN d.instance : a \in Int /\ a > 0
    /\ \A a \in DOMAIN d.external : a \in Int /\ a < 0

\* The proxies of a chain c are at -1, -2, ... -n.
ProxiesInRow(c) == \E n \in Nat : {a \in DOMAIN c.code : a < 0} = (-n)..(-1)

ChainOK(c) ==
    /\ c = [code |-> c.code, facts |-> c.facts, deploys |-> c.deploys]
    /\ DOMAIN c.code \subseteq Addresses /\ c.deploys \in Nat
    /\ ProxiesInRow(c)

FaultsOK ==
    /\ faults = [crashes |-> faults.crashes, drops |-> faults.drops, seizures |-> faults.seizures,
                 cleans |-> faults.cleans]
    /\ faults.drops \in Nat

\* Deployments go to addresses of contracts.
MempoolOK(txs) == txs \in Seq(Txs) /\ \A k \in DOMAIN txs : txs[k].op = "deploy" => txs[k].on > 0

TypesInv ==
    /\ FileOK(db) /\ ChainOK(chain) /\ MempoolOK(mempool) /\ lost \in Seq(Nat)
    /\ proc \in Processes /\ announced \in BOOLEAN /\ FaultsOK

-----------------------------------------------------------------------------
(* The inductive invariant.  Its parts name the process p, the file d, the *)
(* chain c and the transactions txs they speak of.                         *)

InScript(p) == p.pc <= Len(Script)
In(p) == Script[p.pc]

\* There is a contract or proxy of a kind at a.
IsA(c, a, kind) == HasCode(c, a) /\ c.code[a].kind = kind

\* What the phase of a process tells of the instruction it is at.
PlaceInv(p, d, c) ==
    /\ p.phase \in {"recording", "naming"} =>
          /\ InScript(p) /\ In(p).op = "deploy" /\ ~Has(d, In(p).name) /\ p.addr > 0
    /\ p.phase = "waiting" =>
          /\ InScript(p) /\ In(p).op \in {"deploy", "proxy", "assign", "send"}
          /\ In(p).op = "proxy" => ~Has(d, In(p).name)
          /\ In(p).op = "proxy" /\ p.receipt.status = "ok" =>
                p.receipt.addr < 0 /\ IsA(c, p.receipt.addr, In(p).impl)
    /\ p.phase = "namingProxy" =>
          /\ InScript(p) /\ In(p).op = "proxy" /\ ~Has(d, In(p).name)
          /\ p.addr < 0 /\ IsA(c, p.addr, In(p).impl)

\* A process waits for one transaction at a time.
AwaitInv(p, txs) ==
    \A k \in DOMAIN txs : txs[k].awaited =>
       /\ p.phase \in {"recording", "naming", "waiting", "finalizing"} /\ p.receipt.status = "none"
       /\ p.phase = "waiting" /\ In(p).op = "proxy" => txs[k].op = "proxy" /\ txs[k].what = In(p).impl
       /\ \A j \in DOMAIN txs : txs[j].awaited => j = k

\* A proxy that the file names is there.
ProxyInv(d, c) ==
    \A i \in Instrs : Script[i].op = "proxy" /\ Has(d, Script[i].name) =>
       AddrOf(d, Script[i].name) < 0 /\ IsA(c, AddrOf(d, Script[i].name), Script[i].impl)

\* The argument a of a role is the contract that the file names for it.
Rightly(d, role, a) ==
    \A i \in Instrs : Script[i].op = "assign" /\ Script[i].role = role => a = AddrOf(d, Script[i].name)

\* A role that is set, or will be, is one of the recorded access controller.
RoleInv(d, c, txs) ==
    /\ \A f \in c.facts : f[2] \in DOMAIN c.code
    /\ \A f \in c.facts : f[1] \in SingletonRoles =>
          Has(d, AC) /\ f[2] = AddrOf(d, AC) /\ f[3] # NoAddr /\ Rightly(d, f[1], f[3])
    /\ \A k \in DOMAIN txs : txs[k].op = "send" /\ txs[k].what \in SingletonRoles =>
          Has(d, AC) /\ txs[k].on = AddrOf(d, AC) /\ (txs[k].arg # NoAddr => Rightly(d, txs[k].what, txs[k].arg))

\* A contract of a kind is at a, or about to be.
Backed(c, txs, a, kind) ==
    \/ IsA(c, a, kind)
    \/ \E k \in DOMAIN txs : txs[k].op = "deploy" /\ txs[k].on = a /\ txs[k].what = kind

\* Pending deployments go to addresses of their own.
FreshInv(c, txs) ==
    /\ \A a \in DOMAIN c.code : a <= c.deploys
    /\ \A k \in DOMAIN txs : txs[k].op = "deploy" =>
          /\ txs[k].on <= c.deploys /\ ~HasCode(c, txs[k].on)
          /\ \A j \in DOMAIN txs : txs[j].op = "deploy" /\ txs[j].on = txs[k].on => j = k

\* A contract that the file names, or is about to name, is backed.
NamedInv(d, c, txs, p) ==
    /\ \A i \in Instrs : Script[i].op = "deploy" /\ Has(d, Script[i].name) =>
          Backed(c, txs, AddrOf(d, Script[i].name), Script[i].name)
    /\ p.phase \in {"recording", "naming"} => Backed(c, txs, p.addr, In(p).name)

\* Until the network loses a transaction.
DeployInv == faults.drops = 0 => lost = <<>> /\ FreshInv(chain, mempool) /\ NamedInv(db, chain, mempool, proc)

IInv ==
    /\ TypesInv
    /\ PlaceInv(proc, db, chain) /\ AwaitInv(proc, mempool)
    /\ ProxyInv(db, chain) /\ RoleInv(db, chain, mempool) /\ DeployInv

-----------------------------------------------------------------------------
(* Instructions and processes.                                             *)

\* The length of the script.
LEMMA ScriptLength == Len(Script) \in Nat
BY ScriptAssumption

\* The address of nothing is 0, and the receipt of nothing has it.
LEMMA NoAddrIsZero == NoAddr = 0 /\ NoReceipt \in Receipts /\ NoReceipt.status = "none"
BY ScriptAssumption DEF NoReceipt, Receipts

\* The fields of an instruction.
LEMMA InstrTypes ==
    ASSUME NEW i \in Instrs
    PROVE  /\ Script[i] \in Instructions
           /\ Script[i].op \in {"begin", "deploy", "proxy", "assign", "default", "unless", "send"}
           /\ Script[i].op = "deploy" => Script[i].name \in STRING
           /\ Script[i].op = "proxy" => Script[i].name \in STRING /\ Script[i].impl \in STRING
           /\ Script[i].op = "assign" => Script[i].role \in SingletonRoles /\ Script[i].name \in STRING
           /\ Script[i].op \in {"default", "unless"} => Script[i].skip \in Nat /\ i + Script[i].skip <= Len(Script)
           /\ Script[i].op = "send" => Script[i].item \in STRING \ SingletonRoles /\ Script[i].wait \in BOOLEAN
<1>1. Script[i] \in Instructions
  BY ScriptAssumption DEF Instrs
<1>2. Script[i].op \in {"begin", "deploy", "proxy", "assign", "default", "unless", "send"}
  BY <1>1 DEF Instructions
<1>3. Script[i].op = "deploy" => Script[i].name \in STRING
  BY <1>1 DEF Instructions
<1>4. Script[i].op = "proxy" => Script[i].name \in STRING /\ Script[i].impl \in STRING
  BY <1>1 DEF Instructions
<1>5. Script[i].op = "assign" => Script[i].role \in SingletonRoles /\ Script[i].name \in STRING
  BY <1>1 DEF Instructions
<1>6. Script[i].op \in {"default", "unless"} => Script[i].skip \in Nat
  BY <1>1 DEF Instructions
<1>7. Script[i].op = "send" => Script[i].item \in STRING \ SingletonRoles /\ Script[i].wait \in BOOLEAN
  BY <1>1 DEF Instructions
<1>8. Script[i].op \in {"default", "unless"} => i + Script[i].skip <= Len(Script)
  BY ScriptAssumption DEF Instrs
<1> QED
  BY <1>1, <1>2, <1>3, <1>4, <1>5, <1>6, <1>7, <1>8

\* A process that has ended, with any result.
LEMMA OffType ==
    ASSUME NEW result \in {"none", "failed", "killed", "success"}
    PROVE  Off(result) \in Processes /\ Off(result).phase = "off"
BY ScriptLength, NoAddrIsZero DEF Off, Processes, Phases

\* The places of a process, by phases of which nothing need be known.
Moving == {"recording", "naming", "waiting", "namingProxy"}

\* A process that an exception has ended, or sent to give its roles back.
LEMMA ThrowType ==
    ASSUME NEW p \in Processes
    PROVE  Throw(p) \in Processes /\ Throw(p).phase \notin Moving
<1>1. Off("failed") \in Processes /\ Off("failed").phase = "off"
  BY OffType
<1>2. [Off("failed") EXCEPT !.phase = "finalize"] \in Processes
  BY <1>1 DEF Processes, Phases
<1>3. [Off("failed") EXCEPT !.phase = "finalize"].phase = "finalize"
  BY <1>1 DEF Processes
<1> QED
  BY <1>1, <1>2, <1>3 DEF Throw, Moving

\* A process that was just started.
LEMMA StartedType ==
    ASSUME NEW renounce \in BOOLEAN
    PROVE  Started(renounce) \in Processes /\ Started(renounce).phase = "run"
<1>1. Off("none") \in Processes
  BY OffType
<1> QED
  BY <1>1 DEF Started, Processes, Phases

\* The next instruction, and one that is some instructions away.
LEMMA NextType ==
    ASSUME NEW p \in Processes, p.pc <= Len(Script), NEW new \in BOOLEAN
    PROVE  /\ Next1(p, new) \in Processes /\ Next1(p, new).phase = "run"
           /\ Advance(p) \in Processes /\ Advance(p).phase = "run"
<1>1. p.pc + 1 \in 1..(Len(Script) + 1)
  BY ScriptLength DEF Processes
<1>2. NoReceipt \in Receipts /\ NoAddr \in Int /\ "run" \in Phases
  BY NoAddrIsZero DEF Phases
<1>3. PICK b \in BOOLEAN : b = IF "marks" \in DOMAIN Cur /\ Cur.marks THEN new ELSE p.newDeploy
  BY DEF Processes
<1>4. Next1(p, new) = [p EXCEPT !.phase = "run", !.pc = p.pc + 1, !.receipt = NoReceipt, !.addr = NoAddr, !.newDeploy = b]
  BY <1>3 DEF Next1, Processes
<1>5. Next1(p, new) \in Processes /\ Next1(p, new).phase = "run"
  BY <1>1, <1>2, <1>4 DEF Processes
<1>6. Advance(p) \in Processes /\ Advance(p).phase = "run"
  BY <1>1, <1>2 DEF Advance, Processes
<1> QED
  BY <1>5, <1>6

\* An instruction that a lookup has made superfluous, and the ones with it, are left out.
LEMMA SkipType ==
    ASSUME NEW p \in Processes, NEW n \in Nat, p.pc + n <= Len(Script) + 1
    PROVE  SkipTo(p, n) \in Processes /\ SkipTo(p, n).phase = p.phase
<1>1. p.pc + n \in 1..(Len(Script) + 1)
  BY ScriptLength DEF Processes
<1> QED
  BY <1>1 DEF SkipTo, Processes

\* Which addresses names stand for.
LEMMA AddrTypes ==
    ASSUME NEW d, FileOK(d), NEW name
    PROVE  /\ AddrOf(d, name) \in Int
           /\ Has(d, name) <=> name \in DOMAIN d.named
BY NoAddrIsZero DEF FileOK, AddrOf, Has, NameRecords, Addresses

-----------------------------------------------------------------------------
(* Steps of the process that change nothing else.                          *)

Quiet == \A k \in DOMAIN mempool : ~mempool[k].awaited

\* Nobody waits in a phase without a transaction, after the receipt, or when all is mined.
LEMMA WhenQuiet ==
    ASSUME IInv, \/ proc.phase \notin {"recording", "naming", "waiting", "finalizing"}
                 \/ proc.receipt.status # "none"
                 \/ mempool = <<>>
    PROVE  Quiet
BY DEF IInv, AwaitInv, Quiet

\* A process between two instructions.
LEMMA RestingPlace ==
    ASSUME NEW p, p.phase \notin Moving, NEW d, NEW c, NEW txs
    PROVE  /\ PlaceInv(p, d, c)
           /\ (\A k \in DOMAIN txs : ~txs[k].awaited) => AwaitInv(p, txs)
           /\ (\A i \in Instrs : Script[i].op = "deploy" /\ Has(d, Script[i].name) =>
                   Backed(c, txs, AddrOf(d, Script[i].name), Script[i].name)) => NamedInv(d, c, txs, p)
BY DEF PlaceInv, AwaitInv, NamedInv, Moving

\* The process moves on, waits for nothing and names nothing.
LEMMA LocalStep ==
    ASSUME IInv, Quiet, NEW p \in Processes, p.phase \notin Moving, Step(p)
    PROVE  IInv'
<1>1. proc' = p /\ UNCHANGED <<db, chain, mempool, lost, announced, faults>>
  BY DEF Step
<1>2. TypesInv'
  BY <1>1 DEF IInv, TypesInv, FaultsOK
<1>3. PlaceInv(proc, db, chain)' /\ AwaitInv(proc, mempool)'
  BY <1>1, RestingPlace DEF Quiet
<1>4. ProxyInv(db, chain)' /\ RoleInv(db, chain, mempool)'
  BY <1>1 DEF IInv
<1>5. DeployInv'
  BY <1>1, RestingPlace DEF IInv, DeployInv, NamedInv
<1> QED
  BY <1>2, <1>3, <1>4, <1>5 DEF IInv

-----------------------------------------------------------------------------
(* Transactions that are sent.                                             *)

\* A transaction more at the end.
LEMMA AppendTx ==
    ASSUME NEW txs, txs \in Seq(Txs), NEW tx \in Txs
    PROVE  /\ Append(txs, tx) \in Seq(Txs) /\ Len(txs) \in Nat
           /\ DOMAIN txs = 1..Len(txs) /\ DOMAIN Append(txs, tx) = 1..(Len(txs) + 1)
           /\ \A k \in DOMAIN txs : Append(txs, tx)[k] = txs[k] /\ k \in DOMAIN Append(txs, tx) /\ k # Len(txs) + 1
           /\ Append(txs, tx)[Len(txs) + 1] = tx
           /\ \A k \in DOMAIN Append(txs, tx) : k \in DOMAIN txs \/ k = Len(txs) + 1
OBVIOUS

\* A transaction takes the first of the nonces that are free again.
LEMMA LostType ==
    ASSUME lost \in Seq(Nat), lost' = IF lost = <<>> THEN <<>> ELSE Tail(lost)
    PROVE  lost' \in Seq(Nat) /\ (lost = <<>> => lost' = <<>>)
OBVIOUS

\* What may be pending for a role.
RoleTxOK(d, tx) ==
    tx.op = "send" /\ tx.what \in SingletonRoles =>
       Has(d, AC) /\ tx.on = AddrOf(d, AC) /\ (tx.arg # NoAddr => Rightly(d, tx.what, tx.arg))

\* A transaction that is not a deployment.
LEMMA SubmitStep ==
    ASSUME IInv, Quiet, NEW tx \in Txs, tx.op # "deploy", RoleTxOK(db, tx),
           NEW q \in Processes, q.phase \notin {"recording", "naming"}, PlaceInv(q, db, chain),
           q.receipt.status = "none", tx.awaited => q.phase \in {"waiting", "finalizing"},
           tx.awaited /\ q.phase = "waiting" /\ In(q).op = "proxy" => tx.op = "proxy" /\ tx.what = In(q).impl,
           mempool' = Append(mempool, tx), lost' = IF lost = <<>> THEN <<>> ELSE Tail(lost),
           proc' = q, UNCHANGED <<db, chain, announced, faults>>
    PROVE  IInv'
<1>1. mempool \in Seq(Txs) /\ lost \in Seq(Nat)
  BY DEF IInv, TypesInv, MempoolOK
<1> DEFINE n == Len(mempool) + 1
<1>2. /\ mempool' \in Seq(Txs) /\ \A k \in DOMAIN mempool : mempool'[k] = mempool[k] /\ k \in DOMAIN mempool' /\ k # n
      /\ mempool'[n] = tx /\ n \in DOMAIN mempool' /\ \A k \in DOMAIN mempool' : k \in DOMAIN mempool \/ k = n
  BY <1>1, AppendTx
<1> HIDE DEF n
<1>3. lost' \in Seq(Nat) /\ (lost = <<>> => lost' = <<>>)
  BY <1>1, LostType
<1>4. MempoolOK(mempool)'
  BY <1>2 DEF IInv, TypesInv, MempoolOK
<1>5. TypesInv'
  BY <1>3, <1>4 DEF IInv, TypesInv, FaultsOK
<1>6. PlaceInv(proc, db, chain)' /\ ProxyInv(db, chain)'
  BY DEF IInv
<1>7. AwaitInv(proc, mempool)'
  BY <1>2 DEF AwaitInv, Quiet
<1>8. RoleInv(db, chain, mempool)'
  <2>1. /\ \A f \in chain.facts : f[2] \in DOMAIN chain.code
        /\ \A f \in chain.facts : f[1] \in SingletonRoles =>
              Has(db, AC) /\ f[2] = AddrOf(db, AC) /\ f[3] # NoAddr /\ Rightly(db, f[1], f[3])
        /\ \A k \in DOMAIN mempool : RoleTxOK(db, mempool[k])
    BY DEF IInv, RoleInv, RoleTxOK
  <2>2. \A k \in DOMAIN mempool' : RoleTxOK(db, mempool'[k])
    BY <1>2, <2>1
  <2>3. RoleInv(db, chain, mempool')
    BY <2>1, <2>2 DEF RoleInv, RoleTxOK
  <2> QED
    BY <2>3
<1>9. DeployInv'
  <2> SUFFICES ASSUME faults.drops = 0
               PROVE  lost' = <<>> /\ FreshInv(chain, mempool') /\ NamedInv(db, chain, mempool', q)
    BY DEF DeployInv
  <2>1. lost = <<>> /\ FreshInv(chain, mempool) /\ NamedInv(db, chain, mempool, proc)
    BY DEF IInv, DeployInv
  <2>2. FreshInv(chain, mempool')
    BY <1>2, <2>1 DEF FreshInv
  <2>3. ASSUME NEW a, NEW kind, Backed(chain, mempool, a, kind) PROVE Backed(chain, mempool', a, kind)
    BY <1>2, <2>3 DEF Backed
  <2>4. NamedInv(db, chain, mempool', q)
    BY <2>1, <2>3 DEF NamedInv
  <2> QED
    BY <1>3, <2>1, <2>2, <2>4
<1> QED
  BY <1>5, <1>6, <1>7, <1>8, <1>9 DEF IInv

\* A transaction that the process waits for, or that the node refuses.
LEMMA SendStep ==
    ASSUME IInv, NEW op, At(op), op \in {"proxy", "assign", "send"},
           NEW tx \in Txs, tx.op # "deploy", RoleTxOK(db, tx), SendAndWait(tx),
           op = "proxy" => tx.op = "proxy" /\ tx.what = Cur.impl /\ ~Has(db, Cur.name)
    PROVE  IInv'
<1>1. Quiet
  BY WhenQuiet DEF At
<1>2. proc \in Processes /\ proc.pc <= Len(Script)
  BY DEF IInv, TypesInv, At
<1> DEFINE q == [proc EXCEPT !.phase = "waiting", !.receipt = NoReceipt]
<1>3. CASE proc' = Throw(proc) /\ UNCHANGED <<mempool, lost>>
  <2>1. Step(Throw(proc))
    BY <1>3 DEF SendAndWait, Step
  <2> QED
    BY <1>1, <1>2, <2>1, ThrowType, LocalStep
<1>4. CASE Submit(tx, proc, "waiting")
  <2>1. q \in Processes /\ q.phase = "waiting" /\ q.receipt.status = "none" /\ q.pc = proc.pc
    BY <1>2, NoAddrIsZero DEF Processes, Phases
  <2>2. PlaceInv(q, db, chain)
    BY <1>2, <2>1 DEF PlaceInv, InScript, In, At, Cur
  <2>3. In(q).op = "proxy" => tx.op = "proxy" /\ tx.what = In(q).impl
    BY <2>1 DEF In, At, Cur
  <2>4. /\ mempool' = Append(mempool, tx) /\ lost' = IF lost = <<>> THEN <<>> ELSE Tail(lost)
        /\ proc' = q /\ UNCHANGED <<db, chain, announced, faults>>
    BY <1>4 DEF Submit, SendAndWait
  <2> HIDE DEF q
  <2> QED
    BY <1>1, <2>1, <2>2, <2>3, <2>4, SubmitStep
<1> QED
  BY <1>3, <1>4 DEF SendAndWait

-----------------------------------------------------------------------------
(* The instructions that look something up.                                *)

\* A process that is at an instruction.
LEMMA AtFacts ==
    ASSUME IInv, NEW op, At(op)
    PROVE  /\ proc \in Processes /\ proc.phase = "run" /\ proc.pc \in Instrs /\ proc.pc <= Len(Script)
           /\ Cur.op = op /\ Cur = Script[proc.pc] /\ Quiet /\ FileOK(db)
BY WhenQuiet, ScriptLength DEF IInv, TypesInv, At, Cur, Instrs, Processes

\* A step of the deployment begins.
LEMMA BeginStepStep == ASSUME IInv, BeginStep PROVE IInv'
<1>1. At("begin") /\ Step([Advance(proc) EXCEPT !.newDeploy = FALSE])
  BY DEF BeginStep
<1>2. Advance(proc) \in Processes /\ Advance(proc).phase = "run"
  BY <1>1, AtFacts, NextType
<1>3. [Advance(proc) EXCEPT !.newDeploy = FALSE] \in Processes /\ [Advance(proc) EXCEPT !.newDeploy = FALSE].phase = "run"
  BY <1>2 DEF Processes
<1> QED
  BY <1>1, <1>3, AtFacts, LocalStep DEF Moving

\* What the file names is not deployed again.
LEMMA FoundStep == ASSUME IInv, DeployFound \/ ProxyFound PROVE IInv'
<1>1. PICK op : At(op) /\ Step(Next1(proc, FALSE))
  BY DEF DeployFound, ProxyFound
<1>2. Next1(proc, FALSE) \in Processes /\ Next1(proc, FALSE).phase = "run"
  BY <1>1, AtFacts, NextType
<1> QED
  BY <1>1, <1>2, AtFacts, LocalStep DEF Moving

\* The ways a lookup can end without a transaction.
LEMMA LookedUp ==
    ASSUME IInv, NEW op, At(op),
           \/ Step(Throw(proc)) \/ Step(Advance(proc))
           \/ op \in {"default", "unless"} /\ Step(SkipTo(proc, 1 + Cur.skip))
    PROVE  IInv'
<1>1. proc \in Processes /\ proc.pc <= Len(Script) /\ Quiet /\ proc.phase = "run" /\ proc.pc \in Instrs
  BY AtFacts
<1>2. CASE Step(Throw(proc))
  BY <1>1, <1>2, ThrowType, LocalStep
<1>3. CASE Step(Advance(proc))
  BY <1>1, <1>3, NextType, LocalStep DEF Moving
<1>4. CASE op \in {"default", "unless"} /\ Step(SkipTo(proc, 1 + Cur.skip))
  <2>1. Cur.skip \in Nat /\ proc.pc + Cur.skip <= Len(Script)
    BY <1>1, <1>4, AtFacts, InstrTypes
  <2>2. 1 + Cur.skip \in Nat /\ proc.pc + (1 + Cur.skip) <= Len(Script) + 1
    BY <1>1, <2>1, ScriptLength DEF Instrs
  <2>3. SkipTo(proc, 1 + Cur.skip) \in Processes /\ SkipTo(proc, 1 + Cur.skip).phase = "run"
    BY <1>1, <2>2, SkipType
  <2> QED
    BY <1>1, <1>4, <2>3, LocalStep DEF Moving
<1> QED
  BY <1>2, <1>3, <1>4

\* A lookup finds what is there, finds nothing, or throws.
LEMMA LookupStep == ASSUME IInv, LookupDefault \/ Lookup PROVE IInv'
<1>1. PICK op \in {"default", "unless"} :
         At(op) /\ (Step(Throw(proc)) \/ Step(Advance(proc)) \/ Step(SkipTo(proc, 1 + Cur.skip)))
  BY DEF LookupDefault, Lookup
<1> QED
  BY <1>1, LookedUp

-----------------------------------------------------------------------------
(* The instructions that send something.                                   *)

\* The catalog is asked for a proxy, which the file does not name.
LEMMA ProxySendStep == ASSUME IInv, ProxySend PROVE IInv'
<1>1. At("proxy") /\ ~Has(db, Cur.name)
  BY DEF ProxySend
<1> DEFINE tx == NewTx("proxy", Cur.impl, Resolve(Catalog), NoAddr)
<1>2. CASE SendAndWait(tx)
  <2>1. Cur.impl \in STRING
    BY <1>1, AtFacts, InstrTypes
  <2>2. Resolve(Catalog) \in Int
    <3>1. FileOK(db)
      BY <1>1, AtFacts
    <3> QED
      BY <3>1, AddrTypes DEF Resolve
  <2>3. tx \in Txs /\ tx.op = "proxy" /\ tx.what = Cur.impl
    BY <2>1, <2>2, NoAddrIsZero DEF NewTx, Tx, Txs, Whats
  <2>4. RoleTxOK(db, tx)
    BY <2>3 DEF RoleTxOK
  <2> HIDE DEF tx
  <2> QED
    BY <1>1, <1>2, <2>3, <2>4, SendStep
<1>3. CASE Step(Throw(proc))
  BY <1>1, <1>3, LookedUp
<1> QED
  BY <1>2, <1>3 DEF ProxySend

\* A role is given to the contract that the file names for it.
LEMMA AssignRoleStep == ASSUME IInv, AssignRole PROVE IInv'
<1>1. At("assign")
  BY DEF AssignRole
<1> DEFINE tx == NewTx("send", Cur.role, Resolve(AC), Resolve(Cur.name))
<1>2. CASE SendAndWait(tx) /\ Has(db, AC)
  <2>1. Cur.role \in SingletonRoles
    <3>1. proc.pc \in Instrs /\ Cur = Script[proc.pc] /\ Cur.op = "assign"
      BY <1>1, AtFacts
    <3> QED
      BY <3>1, InstrTypes
  <2>2. Resolve(AC) \in Int /\ Resolve(Cur.name) \in Int
    <3>1. FileOK(db)
      BY <1>1, AtFacts
    <3> QED
      BY <3>1, AddrTypes DEF Resolve
  <2>3. tx \in Txs /\ tx.op = "send" /\ tx.what = Cur.role /\ tx.on = Resolve(AC) /\ tx.arg = Resolve(Cur.name)
    BY <2>1, <2>2 DEF NewTx, Tx, Txs, Whats
  <2>4. Rightly(db, Cur.role, Resolve(Cur.name))
    <3>1. proc.pc \in 1..Len(Script) /\ Cur = Script[proc.pc] /\ Cur.op = "assign"
      BY <1>1, AtFacts DEF Instrs
    <3> QED
      BY <3>1, ScriptAssumption DEF Rightly, Resolve, Instrs
  <2>5. RoleTxOK(db, tx)
    BY <1>2, <2>3, <2>4 DEF RoleTxOK, Resolve
  <2> HIDE DEF tx
  <2> QED
    BY <1>1, <1>2, <2>3, <2>5, SendStep
<1>3. CASE Step(Throw(proc)) \/ Step(Advance(proc))
  BY <1>1, <1>3, LookedUp
<1> QED
  BY <1>2, <1>3 DEF AssignRole

\* A call of the script has no role.
LEMMA SendTypes ==
    ASSUME IInv, At("send"), NEW awaited \in BOOLEAN
    PROVE  LET tx == Tx("send", Cur.item, Resolve(Cur.on), Resolve(Cur.arg), awaited)
           IN  tx \in Txs /\ tx.op = "send" /\ tx.what \notin SingletonRoles /\ tx.awaited = awaited
<1>1. Cur.item \in STRING \ SingletonRoles
  <2>1. proc.pc \in Instrs /\ Cur = Script[proc.pc] /\ Cur.op = "send"
    BY AtFacts
  <2> QED
    BY <2>1, InstrTypes
<1>2. Resolve(Cur.on) \in Int /\ Resolve(Cur.arg) \in Int
  <2>1. FileOK(db)
    BY AtFacts
  <2> QED
    BY <2>1, AddrTypes DEF Resolve
<1> QED
  BY <1>1, <1>2 DEF Tx, Txs, Whats

\* A call, whose receipt the process waits for.
LEMMA SendCallStep == ASSUME IInv, SendCall PROVE IInv'
<1>1. At("send")
  BY DEF SendCall
<1> DEFINE tx == NewTx("send", Cur.item, Resolve(Cur.on), Resolve(Cur.arg))
<1>2. CASE SendAndWait(tx)
  <2>1. tx \in Txs /\ tx.op = "send" /\ tx.what \notin SingletonRoles
    BY <1>1, SendTypes DEF NewTx
  <2>2. RoleTxOK(db, tx)
    BY <2>1 DEF RoleTxOK
  <2> HIDE DEF tx
  <2> QED
    BY <1>1, <1>2, <2>1, <2>2, SendStep
<1>3. CASE Step(Throw(proc))
  BY <1>1, <1>3, LookedUp
<1> QED
  BY <1>2, <1>3 DEF SendCall

\* A call that nobody waits for.
LEMMA SendCallOnlyStep == ASSUME IInv, SendCallOnly PROVE IInv'
<1>1. At("send") /\ UNCHANGED <<db, chain, announced, faults>>
  BY DEF SendCallOnly
<1> DEFINE tx == Tx("send", Cur.item, Resolve(Cur.on), Resolve(Cur.arg), FALSE)
           q == [Advance(proc) EXCEPT !.phase = "run", !.receipt = NoReceipt]
<1>2. CASE proc' = Throw(proc) /\ UNCHANGED <<mempool, lost>>
  <2>1. Step(Throw(proc))
    BY <1>1, <1>2 DEF Step
  <2> QED
    BY <1>1, <2>1, LookedUp
<1>3. CASE Submit(tx, Advance(proc), "run")
  <2>1. tx \in Txs /\ tx.op = "send" /\ tx.what \notin SingletonRoles /\ tx.awaited = FALSE
    BY <1>1, SendTypes
  <2>2. RoleTxOK(db, tx)
    BY <2>1 DEF RoleTxOK
  <2>3. q \in Processes /\ q.phase = "run" /\ q.receipt.status = "none"
    <3>1. Advance(proc) \in Processes /\ Advance(proc).phase = "run"
      BY <1>1, AtFacts, NextType
    <3> QED
      BY <3>1, NoAddrIsZero DEF Processes
  <2>4. /\ mempool' = Append(mempool, tx) /\ lost' = IF lost = <<>> THEN <<>> ELSE Tail(lost)
        /\ proc' = q
    BY <1>3 DEF Submit
  <2>5. PlaceInv(q, db, chain) /\ Quiet
    BY <1>1, <2>3, AtFacts, RestingPlace DEF Moving
  <2> HIDE DEF q, tx
  <2> QED
    BY <1>1, <2>1, <2>2, <2>3, <2>4, <2>5, SubmitStep
<1> QED
  BY <1>2, <1>3 DEF SendCallOnly

\* The process asks to have its roles taken back.
LEMMA FinalizeSendStep == ASSUME IInv, FinalizeSend PROVE IInv'
<1>1. proc.phase = "finalize" /\ UNCHANGED <<db, chain, announced, faults>> /\ proc \in Processes /\ Quiet
  BY WhenQuiet DEF FinalizeSend, IInv, TypesInv
<1> DEFINE tx == NewTx("send", "renounce", Resolve(AC), NoAddr)
           q == [proc EXCEPT !.phase = "finalizing", !.receipt = NoReceipt]
<1>2. CASE Submit(tx, proc, "finalizing")
  <2>1. Resolve(AC) \in Int
    BY AddrTypes DEF Resolve, IInv, TypesInv
  <2>2. tx \in Txs /\ tx.op = "send" /\ tx.what = "renounce"
    BY <2>1, NoAddrIsZero DEF NewTx, Tx, Txs, Whats
  <2>3. RoleTxOK(db, tx)
    BY <2>2 DEF RoleTxOK, SingletonRoles
  <2>4. q \in Processes /\ q.phase = "finalizing" /\ q.receipt.status = "none"
    BY <1>1, NoAddrIsZero DEF Processes, Phases
  <2>5. /\ mempool' = Append(mempool, tx) /\ lost' = IF lost = <<>> THEN <<>> ELSE Tail(lost)
        /\ proc' = q
    BY <1>2 DEF Submit
  <2>6. PlaceInv(q, db, chain)
    BY <2>4, RestingPlace DEF Moving
  <2> HIDE DEF q, tx
  <2> QED
    BY <1>1, <2>2, <2>3, <2>4, <2>5, <2>6, SubmitStep
<1>3. CASE proc' = [proc EXCEPT !.phase = "exit"] /\ UNCHANGED <<mempool, lost>>
  <2>1. [proc EXCEPT !.phase = "exit"] \in Processes /\ [proc EXCEPT !.phase = "exit"].phase = "exit"
    BY <1>1 DEF Processes, Phases
  <2> QED
    BY <1>1, <1>3, <2>1, LocalStep DEF Step, Moving
<1> QED
  BY <1>2, <1>3 DEF FinalizeSend

-----------------------------------------------------------------------------
(* Receipts, the tests, and the end.                                       *)

\* The receipt came, and the process goes on or throws.
LEMMA ReceiptStep == ASSUME IInv, ReceiptOk \/ ReceiptReverted PROVE IInv'
<1>1. /\ proc.phase = "waiting" /\ proc.receipt.status # "none" /\ proc \in Processes
      /\ proc.pc <= Len(Script)
  BY DEF ReceiptOk, ReceiptReverted, IInv, TypesInv, PlaceInv, InScript
<1>2. Quiet
  BY <1>1, WhenQuiet
<1>3. CASE Step(Next1(proc, TRUE))
  BY <1>1, <1>2, <1>3, NextType, LocalStep DEF Moving
<1>4. CASE Step(Throw(proc))
  BY <1>1, <1>2, <1>4, ThrowType, LocalStep
<1> QED
  BY <1>3, <1>4 DEF ReceiptOk, ReceiptReverted

\* The tests after the last step.
LEMMA TestStep == ASSUME IInv, StepsDone \/ AccessTest \/ SmokeTest \/ Summary PROVE IInv'
<1>1. proc.phase \in {"run", "access", "smoke", "summary"} /\ proc \in Processes /\ Quiet
  BY WhenQuiet DEF StepsDone, AccessTest, SmokeTest, Summary, IInv, TypesInv
<1>2. CASE \E phase \in {"access", "smoke", "summary"} : Step([proc EXCEPT !.phase = phase])
  <2>1. PICK phase \in {"access", "smoke", "summary"} : Step([proc EXCEPT !.phase = phase])
    BY <1>2
  <2>2. [proc EXCEPT !.phase = phase] \in Processes /\ [proc EXCEPT !.phase = phase].phase = phase
    BY <1>1 DEF Processes, Phases
  <2> QED
    BY <1>1, <2>1, <2>2, LocalStep DEF Moving
<1>3. CASE Step(Throw(proc))
  BY <1>1, <1>3, ThrowType, LocalStep
<1>4. CASE Step([Off("success") EXCEPT !.phase = "finalize"])
  <2>1. Off("success") \in Processes
    BY OffType
  <2>2. /\ [Off("success") EXCEPT !.phase = "finalize"] \in Processes
        /\ [Off("success") EXCEPT !.phase = "finalize"].phase = "finalize"
    BY <2>1 DEF Processes, Phases
  <2> QED
    BY <1>1, <1>4, <2>2, LocalStep DEF Moving
<1> QED
  BY <1>2, <1>3, <1>4 DEF StepsDone, AccessTest, SmokeTest, Summary

\* A process that ends, while it waits for nothing.
LEMMA OffStep ==
    ASSUME IInv, Quiet, NEW result \in {"none", "failed", "killed", "success"},
           proc' = Off(result), announced' \in BOOLEAN, UNCHANGED <<db, chain, mempool, lost, faults>>
    PROVE  IInv'
<1>1. Off(result) \in Processes /\ Off(result).phase = "off"
  BY OffType
<1>2. TypesInv'
  BY <1>1 DEF IInv, TypesInv, FaultsOK
<1>3. PlaceInv(proc, db, chain)' /\ AwaitInv(proc, mempool)'
  BY <1>1, RestingPlace DEF Quiet, Moving
<1>4. ProxyInv(db, chain)' /\ RoleInv(db, chain, mempool)'
  BY DEF IInv
<1>5. DeployInv'
  BY <1>1, RestingPlace DEF IInv, DeployInv, NamedInv, Moving
<1> QED
  BY <1>2, <1>3, <1>4, <1>5 DEF IInv

\* The process ends on its own.
LEMMA ExitStep == ASSUME IInv, Exit PROVE IInv'
<1>1. /\ proc.result \in {"none", "failed", "killed", "success"} /\ announced' \in BOOLEAN
      /\ proc' = Off(proc.result) /\ UNCHANGED <<db, chain, mempool, lost, faults>>
  BY DEF Exit, IInv, TypesInv, Processes
<1>2. Quiet
  BY WhenQuiet DEF Exit
<1> QED
  BY <1>1, <1>2, OffStep

\* A process that hangs waits for nothing that is still pending.
LEMMA AbandonStep == ASSUME IInv, Abandon PROVE IInv'
<1>1. Quiet
  BY WhenQuiet DEF Abandon, Hanging
<1> QED
  BY <1>1, OffStep DEF Abandon, Step, IInv, TypesInv

\* The next run keeps the file.
LEMMA StartIncrementalStep == ASSUME IInv, StartIncremental PROVE IInv'
<1>1. Quiet
  BY WhenQuiet DEF StartIncremental
<1> QED
  BY <1>1, StartedType, LocalStep DEF StartIncremental, Moving

-----------------------------------------------------------------------------
(* The writes of the file.                                                 *)

\* A deployment goes to an address of its own until the network loses one.
LEMMA DeploySendStep == ASSUME IInv, DeploySend PROVE IInv'
<1>1. /\ At("deploy") /\ ~Has(db, Cur.name) /\ UNCHANGED <<db, announced, faults>>
      /\ chain' = [chain EXCEPT !.deploys = IF NextAddress > @ THEN NextAddress ELSE @]
  BY DEF DeploySend
<1>2. /\ proc \in Processes /\ proc.pc \in Instrs /\ proc.pc <= Len(Script) /\ FileOK(db) /\ Quiet
      /\ Cur = Script[proc.pc] /\ Cur.op = "deploy"
  BY <1>1, AtFacts
<1>3. Cur.name \in STRING /\ Resolve(AC) \in Int
  BY <1>2, InstrTypes, AddrTypes DEF Resolve
<1>4. ChainOK(chain) /\ lost \in Seq(Nat) /\ mempool \in Seq(Txs)
  BY DEF IInv, TypesInv, MempoolOK
<1>5. NextAddress \in Nat /\ NextAddress > 0 /\ (lost = <<>> => NextAddress = chain.deploys + 1)
  BY <1>4, NoAddrIsZero DEF NextAddress, ChainOK
<1> DEFINE tx == NewTx("deploy", Cur.name, NextAddress, Resolve(AC))
           q == [proc EXCEPT !.addr = NextAddress, !.phase = "recording", !.receipt = NoReceipt]
           n == Len(mempool) + 1
<1>6. mempool' = Append(mempool, tx) /\ lost' = (IF lost = <<>> THEN <<>> ELSE Tail(lost)) /\ proc' = q
  BY <1>2 DEF DeploySend, Submit, Processes
<1>7. tx \in Txs /\ tx.op = "deploy" /\ tx.what = Cur.name /\ tx.on = NextAddress
  BY <1>3, <1>5 DEF NewTx, Tx, Txs, Whats
<1>8. q \in Processes /\ q.phase = "recording" /\ q.receipt.status = "none" /\ q.pc = proc.pc /\ q.addr = NextAddress
  <2>1. NextAddress \in Int /\ "recording" \in Phases
    BY <1>5 DEF Phases
  <2> HIDE DEF tx
  <2> QED
    BY <1>2, <2>1, NoAddrIsZero DEF Processes
<1> HIDE DEF tx, q
<1>9. /\ mempool' \in Seq(Txs) /\ \A k \in DOMAIN mempool : mempool'[k] = mempool[k] /\ k \in DOMAIN mempool' /\ k # n
      /\ mempool'[n] = tx /\ n \in DOMAIN mempool' /\ \A k \in DOMAIN mempool' : k \in DOMAIN mempool \/ k = n
  BY <1>4, <1>6, <1>7, AppendTx
<1> HIDE DEF n
<1>10. chain'.code = chain.code /\ chain'.facts = chain.facts
  BY <1>1, <1>4 DEF ChainOK
<1>11. ChainOK(chain')
  BY <1>1, <1>4, <1>5 DEF ChainOK, ProxiesInRow
<1>12. TypesInv'
  <2>1. MempoolOK(mempool')
    BY <1>5, <1>7, <1>9 DEF IInv, TypesInv, MempoolOK
  <2> QED
    BY <1>1, <1>4, <1>6, <1>8, <1>11, <2>1, LostType DEF IInv, TypesInv, FaultsOK
<1>13. PlaceInv(proc, db, chain)'
  BY <1>1, <1>2, <1>5, <1>6, <1>8 DEF PlaceInv, InScript, In
<1>14. AwaitInv(proc, mempool)'
  BY <1>2, <1>6, <1>8, <1>9 DEF AwaitInv, Quiet
<1>15. ProxyInv(db, chain)'
  BY <1>1, <1>10 DEF IInv, ProxyInv, IsA, HasCode
<1>16. RoleInv(db, chain, mempool)'
  BY <1>1, <1>7, <1>9, <1>10 DEF IInv, RoleInv
<1>17. DeployInv'
  <2> SUFFICES ASSUME faults.drops = 0
               PROVE  lost' = <<>> /\ FreshInv(chain', mempool') /\ NamedInv(db, chain', mempool', q)
    BY <1>1, <1>6 DEF DeployInv
  <2>1. lost = <<>> /\ FreshInv(chain, mempool) /\ NamedInv(db, chain, mempool, proc)
    BY DEF IInv, DeployInv
  <2>2. tx.on = chain.deploys + 1 /\ chain'.deploys = chain.deploys + 1 /\ chain.deploys \in Nat
    BY <1>1, <1>4, <1>5, <1>7, <2>1 DEF ChainOK
  <2>3. \A a \in DOMAIN chain.code : a \in Int /\ a <= chain.deploys
    BY <1>4, <2>1 DEF FreshInv, ChainOK, Addresses
  <2>4. \A k \in DOMAIN mempool : mempool[k].on \in Int
    <3>1. \A k \in DOMAIN mempool : mempool[k] \in Txs
      BY <1>4
    <3> QED
      BY <3>1 DEF Txs
  <2>5. FreshInv(chain', mempool')
    BY <1>9, <1>10, <2>1, <2>2, <2>3, <2>4 DEF FreshInv, HasCode
  <2>6. ASSUME NEW a, NEW kind, Backed(chain, mempool, a, kind) PROVE Backed(chain', mempool', a, kind)
    BY <1>9, <1>10, <2>6 DEF Backed, IsA, HasCode
  <2>7. Backed(chain', mempool', q.addr, Cur.name)
    BY <1>7, <1>8, <1>9 DEF Backed
  <2>8. In(q) = Cur
    BY <1>2, <1>8 DEF In
  <2>9. NamedInv(db, chain', mempool', q)
    BY <2>1, <2>6, <2>7, <2>8 DEF NamedInv
  <2> QED
    BY <1>6, <2>1, <2>5, <2>9
<1> QED
  BY <1>12, <1>13, <1>14, <1>15, <1>16, <1>17 DEF IInv

\* A write that names nothing.
LEMMA SameNames ==
    ASSUME NEW d, NEW D, D.named = d.named
    PROVE  /\ \A n : AddrOf(D, n) = AddrOf(d, n) /\ (Has(D, n) <=> Has(d, n))
           /\ \A role, a : Rightly(D, role, a) <=> Rightly(d, role, a)
BY DEF AddrOf, Has, Rightly

\* The invariant after one, which only the process sees.
LEMMA WriteStep ==
    ASSUME IInv, FileOK(db'), db'.named = db.named, proc' \in Processes, PlaceInv(proc', db', chain),
           AwaitInv(proc', mempool),
           proc'.phase \in {"recording", "naming"} =>
              proc.phase \in {"recording", "naming"} /\ proc'.addr = proc.addr /\ proc'.pc = proc.pc,
           UNCHANGED <<chain, mempool, lost, announced, faults>>
    PROVE  IInv'
<1>1. TypesInv'
  BY DEF IInv, TypesInv, FaultsOK
<1>2. PlaceInv(proc, db, chain)' /\ AwaitInv(proc, mempool)'
  OBVIOUS
<1>3. /\ \A n : AddrOf(db', n) = AddrOf(db, n) /\ (Has(db', n) <=> Has(db, n))
      /\ \A role, a : Rightly(db', role, a) <=> Rightly(db, role, a)
  BY SameNames
<1>4. ProxyInv(db, chain)'
  BY <1>3 DEF IInv, ProxyInv
<1>5. RoleInv(db, chain, mempool)'
  BY <1>3 DEF IInv, RoleInv
<1>6. DeployInv'
  BY <1>3 DEF IInv, DeployInv, NamedInv, In
<1> QED
  BY <1>1, <1>2, <1>4, <1>5, <1>6 DEF IInv

\* The first write of a deployment names nothing.
LEMMA DeployRecordStep == ASSUME IInv, DeployRecord PROVE IInv'
<1>1. /\ proc.phase = "recording" /\ proc \in Processes /\ FileOK(db) /\ PlaceInv(proc, db, chain)
      /\ proc' = [proc EXCEPT !.phase = "naming"] /\ db' = AddInstance(db, Cur.name, proc.addr)
      /\ UNCHANGED <<chain, mempool, lost, announced, faults>>
  BY DEF DeployRecord, IInv, TypesInv
<1>2. /\ proc' \in Processes /\ proc'.phase = "naming" /\ proc'.addr = proc.addr /\ proc'.pc = proc.pc
      /\ proc'.receipt = proc.receipt
  BY <1>1 DEF Processes, Phases
<1>3. proc.addr \in Int /\ proc.addr > 0
  BY <1>1 DEF PlaceInv, Processes
<1>4. FileOK(db') /\ db'.named = db.named
  BY <1>1, <1>3 DEF FileOK, AddInstance, Put
<1>5. PlaceInv(proc', db', chain)
  BY <1>1, <1>2, <1>4, SameNames DEF PlaceInv, InScript, In
<1>6. AwaitInv(proc', mempool)
  BY <1>1, <1>2 DEF AwaitInv, IInv
<1> QED
  BY <1>1, <1>2, <1>4, <1>5, <1>6, WriteStep

\* A name that is new to a file.
LEMMA Naming ==
    ASSUME NEW d, FileOK(d), NEW name, ~Has(d, name), NEW addr \in Addresses, NEW D, D = AddNamed(d, name, addr)
    PROVE  /\ FileOK(D)
           /\ \A n : AddrOf(D, n) = (IF n = name THEN addr ELSE AddrOf(d, n))
           /\ \A n : Has(D, n) <=> n = name \/ Has(d, n)
           /\ \A n \in DOMAIN d.named : n \in DOMAIN D.named /\ D.named[n] = d.named[n]
<1>1. name \notin DOMAIN d.named
  BY AddrTypes
<1> DEFINE r == [address |-> addr, count |-> 1]
<1>2. r \in NameRecords /\ r.address = addr
  BY DEF NameRecords
<1>3. D = [d EXCEPT !.named = Put(d.named, name, r)]
  BY <1>1 DEF AddNamed, NextCount, FileOK
<1> HIDE DEF r
<1>4. D.named = Put(d.named, name, r) /\ D.instance = d.instance /\ D.external = d.external /\ D.verified = d.verified
      /\ D = [named |-> D.named, instance |-> D.instance, external |-> D.external, verified |-> D.verified]
  BY <1>3 DEF FileOK
<1>5. /\ DOMAIN D.named = DOMAIN d.named \cup {name} /\ D.named[name] = r
      /\ \A n \in DOMAIN d.named : D.named[n] = d.named[n]
      /\ D.named = [n \in DOMAIN D.named |-> D.named[n]]
  BY <1>1, <1>4 DEF Put
<1>6. FileOK(D)
  BY <1>2, <1>4, <1>5 DEF FileOK
<1>7. \A n : AddrOf(D, n) = (IF n = name THEN addr ELSE AddrOf(d, n))
  BY <1>2, <1>5 DEF AddrOf
<1>8. \A n : Has(D, n) <=> n = name \/ Has(d, n)
  BY <1>7 DEF Has, Addresses
<1> QED
  BY <1>5, <1>6, <1>7, <1>8

\* What was right of a role stays right.
LEMMA StillRightly ==
    ASSUME NEW d, FileOK(d), NEW name, ~Has(d, name), NEW D,
           \A n : n # name => AddrOf(D, n) = AddrOf(d, n),
           NEW role, NEW a, a # NoAddr, Rightly(d, role, a)
    PROVE  Rightly(D, role, a)
BY DEF Rightly, Has

\* The invariant after a contract or proxy got its name.
LEMMA NameStep ==
    ASSUME IInv, NEW i \in Instrs, Script[i].op \in {"deploy", "proxy"}, ~Has(db, Script[i].name),
           NEW addr \in Addresses, db' = AddNamed(db, Script[i].name, addr),
           Script[i].op = "deploy" /\ faults.drops = 0 => Backed(chain, mempool, addr, Script[i].name),
           Script[i].op = "proxy" => addr < 0 /\ IsA(chain, addr, Script[i].impl),
           proc' \in Processes, proc'.phase \notin {"recording", "naming"}, PlaceInv(proc', db', chain),
           AwaitInv(proc', mempool), UNCHANGED <<chain, mempool, lost, announced, faults>>
    PROVE  IInv'
<1> DEFINE name == Script[i].name
<1>1. FileOK(db)
  BY DEF IInv, TypesInv
<1>2. /\ FileOK(db')
      /\ \A n : AddrOf(db', n) = (IF n = name THEN addr ELSE AddrOf(db, n))
      /\ \A n : Has(db', n) <=> n = name \/ Has(db, n)
  BY <1>1, Naming
<1>3. \A j \in Instrs : Script[j].op \in {"deploy", "proxy"} /\ Script[j].name = name =>
         Script[j].op = Script[i].op /\ (Script[i].op = "proxy" => Script[j].impl = Script[i].impl)
  BY ScriptAssumption DEF Instrs
<1> HIDE DEF name
<1>4. TypesInv'
  BY <1>2 DEF IInv, TypesInv, FaultsOK
<1>5. PlaceInv(proc, db, chain)' /\ AwaitInv(proc, mempool)'
  OBVIOUS
<1>6. ProxyInv(db, chain)'
  <2> SUFFICES ASSUME NEW j \in Instrs, Script[j].op = "proxy", Has(db', Script[j].name)
               PROVE  /\ AddrOf(db', Script[j].name) < 0
                      /\ IsA(chain, AddrOf(db', Script[j].name), Script[j].impl)
    BY DEF ProxyInv
  <2>1. CASE Script[j].name = name
    BY <1>2, <1>3, <2>1 DEF name
  <2>2. CASE Script[j].name # name
    BY <1>2, <2>2 DEF IInv, ProxyInv
  <2> QED
    BY <2>1, <2>2
<1>7. RoleInv(db, chain, mempool)'
  <2>1. ~Has(db, name) /\ \A n : n # name => AddrOf(db', n) = AddrOf(db, n)
    BY <1>2 DEF name
  <2>2. Has(db, AC) => Has(db', AC) /\ AddrOf(db', AC) = AddrOf(db, AC)
    BY <1>2, <2>1
  <2>3. \A role, a : a # NoAddr /\ Rightly(db, role, a) => Rightly(db', role, a)
    BY <1>1, <2>1, StillRightly
  <2>4. RoleInv(db', chain, mempool)
    BY <2>2, <2>3 DEF IInv, RoleInv
  <2> QED
    BY <2>4
<1>8. DeployInv'
  <2> SUFFICES ASSUME faults.drops = 0 PROVE NamedInv(db', chain, mempool, proc')
    BY DEF IInv, DeployInv
  <2>1. NamedInv(db, chain, mempool, proc)
    BY DEF IInv, DeployInv
  <2> SUFFICES ASSUME NEW j \in Instrs, Script[j].op = "deploy", Has(db', Script[j].name)
               PROVE  Backed(chain, mempool, AddrOf(db', Script[j].name), Script[j].name)
    BY DEF NamedInv
  <2>2. CASE Script[j].name = name
    BY <1>2, <1>3, <2>2 DEF name
  <2>3. CASE Script[j].name # name
    BY <1>2, <2>1, <2>3 DEF NamedInv
  <2> QED
    BY <2>2, <2>3
<1> QED
  BY <1>4, <1>5, <1>6, <1>7, <1>8 DEF IInv

\* The second write of a deployment names what is there or pending.
LEMMA DeployNameStep == ASSUME IInv, DeployName PROVE IInv'
<1>1. /\ proc.phase = "naming" /\ proc \in Processes /\ PlaceInv(proc, db, chain) /\ AwaitInv(proc, mempool)
      /\ proc' = [proc EXCEPT !.phase = "waiting"] /\ db' = AddNamed(db, Cur.name, proc.addr)
      /\ UNCHANGED <<chain, mempool, lost, announced, faults>>
  BY DEF DeployName, IInv, TypesInv
<1>2. proc' \in Processes /\ proc'.phase = "waiting" /\ proc'.pc = proc.pc /\ proc'.receipt = proc.receipt
  BY <1>1 DEF Processes, Phases
<1>3. /\ proc.pc \in Instrs /\ proc.pc <= Len(Script) /\ Cur = Script[proc.pc] /\ Cur.op = "deploy"
      /\ ~Has(db, Cur.name) /\ proc.addr > 0 /\ proc.addr \in Int
  BY <1>1, ScriptLength DEF PlaceInv, InScript, In, Cur, Instrs, Processes
<1>4. proc.addr \in Addresses
  BY <1>3, NoAddrIsZero DEF Addresses
<1>5. faults.drops = 0 => Backed(chain, mempool, proc.addr, Cur.name)
  BY <1>1 DEF IInv, DeployInv, NamedInv, In, Cur
<1>6. PlaceInv(proc', db', chain)
  BY <1>2, <1>3 DEF PlaceInv, InScript, In
<1>7. AwaitInv(proc', mempool)
  BY <1>1, <1>2, <1>3 DEF AwaitInv, In
<1> QED
  BY <1>1, <1>2, <1>3, <1>4, <1>5, <1>6, <1>7, NameStep

\* The first write of a proxy names nothing.
LEMMA ProxyRecordStep == ASSUME IInv, ProxyRecord PROVE IInv'
<1> DEFINE addr == proc.receipt.addr
           mid == AddProxy(db, Cur.name, addr, chain.code[addr].impl, Cur.impl)
<1>1. /\ proc.phase = "waiting" /\ Cur.op = "proxy" /\ proc.receipt.status = "ok"
      /\ proc \in Processes /\ FileOK(db) /\ PlaceInv(proc, db, chain) /\ Quiet
      /\ proc' = [proc EXCEPT !.phase = "namingProxy", !.addr = addr] /\ db' = SetNeedsSync(mid, addr, TRUE)
      /\ UNCHANGED <<chain, mempool, lost, announced, faults>>
  BY WhenQuiet DEF ProxyRecord, IInv, TypesInv
<1>2. addr \in Int /\ addr < 0 /\ IsA(chain, addr, Cur.impl) /\ InScript(proc) /\ ~Has(db, Cur.name)
  BY <1>1 DEF PlaceInv, Processes, Receipts, In, Cur
<1>3. proc' \in Processes /\ proc'.phase = "namingProxy" /\ proc'.pc = proc.pc /\ proc'.addr = addr
  BY <1>1, <1>2 DEF Processes, Phases
<1>4. FileOK(db') /\ db'.named = db.named
  <2>1. /\ mid = [named |-> mid.named, instance |-> mid.instance, external |-> mid.external, verified |-> mid.verified]
        /\ mid.named = db.named /\ mid.instance = db.instance /\ DOMAIN mid.external = DOMAIN db.external \cup {addr}
    BY <1>1 DEF FileOK, AddProxy, Put
  <2> HIDE DEF mid
  <2>2. /\ db' = [named |-> db'.named, instance |-> db'.instance, external |-> db'.external, verified |-> db'.verified]
        /\ db'.named = mid.named /\ db'.instance = mid.instance /\ DOMAIN db'.external = DOMAIN mid.external
    BY <1>1, <2>1 DEF SetNeedsSync
  <2> QED
    BY <1>1, <1>2, <2>1, <2>2 DEF FileOK
<1> HIDE DEF addr, mid
<1>5. PlaceInv(proc', db', chain)
  BY <1>1, <1>2, <1>3, <1>4, SameNames DEF PlaceInv, InScript, In, Cur
<1>6. AwaitInv(proc', mempool)
  BY <1>1 DEF AwaitInv, Quiet
<1> QED
  BY <1>1, <1>3, <1>4, <1>5, <1>6, WriteStep

\* The second write of a proxy names what is there.
LEMMA ProxyNameStep == ASSUME IInv, ProxyName PROVE IInv'
<1>1. /\ proc.phase = "namingProxy" /\ proc \in Processes /\ PlaceInv(proc, db, chain) /\ Quiet
      /\ proc' = Next1(proc, TRUE) /\ db' = AddNamed(db, Cur.name, proc.addr)
      /\ UNCHANGED <<chain, mempool, lost, announced, faults>>
  BY WhenQuiet DEF ProxyName, IInv, TypesInv
<1>2. /\ proc.pc \in Instrs /\ proc.pc <= Len(Script) /\ Cur = Script[proc.pc] /\ Cur.op = "proxy"
      /\ ~Has(db, Cur.name) /\ proc.addr < 0 /\ proc.addr \in Int /\ IsA(chain, proc.addr, Cur.impl)
  BY <1>1, ScriptLength DEF PlaceInv, InScript, In, Cur, Instrs, Processes
<1>3. proc' \in Processes /\ proc'.phase = "run"
  BY <1>1, <1>2, NextType
<1>4. proc.addr \in Addresses
  BY <1>2, NoAddrIsZero DEF Addresses
<1>5. PlaceInv(proc', db', chain) /\ AwaitInv(proc', mempool)
  BY <1>1, <1>3, RestingPlace DEF Moving, Quiet
<1> QED
  BY <1>1, <1>2, <1>3, <1>4, <1>5, NameStep

-----------------------------------------------------------------------------
(* The chain after an accepted transaction.                                *)

\* A deployment adds a contract at its address, and no proxy.
LEMMA Deployed ==
    ASSUME NEW c, ChainOK(c), NEW tx \in Txs, tx.op = "deploy", tx.on > 0, NEW C, C = Apply(c, tx)
    PROVE  /\ ChainOK(C) /\ C.deploys = c.deploys /\ C.facts = c.facts
           /\ DOMAIN C.code = DOMAIN c.code \cup {tx.on} /\ C.code[tx.on].kind = tx.what
           /\ \A a \in DOMAIN c.code : a # tx.on => C.code[a] = c.code[a]
<1> DEFINE entry == [kind |-> tx.what, ac |-> IF tx.arg = NoAddr THEN tx.on ELSE tx.arg, impl |-> NoAddr]
<1>1. C = [c EXCEPT !.code = Put(c.code, tx.on, entry)] /\ entry.kind = tx.what
  BY DEF Apply, ApplyDeploy, NewCode, ChainOK
<1> HIDE DEF entry
<1>2. /\ C = [code |-> C.code, facts |-> C.facts, deploys |-> C.deploys] /\ C.deploys = c.deploys /\ C.facts = c.facts
      /\ C.code = Put(c.code, tx.on, entry)
  BY <1>1 DEF ChainOK
<1>3. /\ DOMAIN C.code = DOMAIN c.code \cup {tx.on} /\ C.code[tx.on] = entry
      /\ \A a \in DOMAIN c.code : a # tx.on => C.code[a] = c.code[a]
  BY <1>2 DEF Put
<1>4. tx.on \in Addresses /\ ~(tx.on < 0)
  BY NoAddrIsZero DEF Txs, Addresses
<1>5. {a \in DOMAIN C.code : a < 0} = {a \in DOMAIN c.code : a < 0}
  BY <1>3, <1>4
<1> QED
  BY <1>1, <1>2, <1>3, <1>4, <1>5 DEF ChainOK, ProxiesInRow

\* The address of the next proxy is free, and next to the last one.
LEMMA NextProxy ==
    ASSUME NEW c, ChainOK(c)
    PROVE  /\ ProxyAddr(c) \in Addresses /\ ProxyAddr(c) < 0 /\ ProxyAddr(c) \notin DOMAIN c.code
           /\ \E n \in Nat : {a \in DOMAIN c.code : a < 0} \cup {ProxyAddr(c)} = (-n)..(-1)
<1>1. PICK n \in Nat : {a \in DOMAIN c.code : a < 0} = (-n)..(-1)
  BY DEF ChainOK, ProxiesInRow
<1>2. Cardinality((-n)..(-1)) = n
  BY FS_Interval
<1>3. ProxyAddr(c) = -(1 + n)
  BY <1>1, <1>2 DEF ProxyAddr
<1>4. ProxyAddr(c) \in Addresses /\ ProxyAddr(c) < 0 /\ ProxyAddr(c) \notin (-n)..(-1)
  BY <1>3, NoAddrIsZero DEF Addresses
<1>5. (-n)..(-1) \cup {ProxyAddr(c)} = (-(n + 1))..(-1) /\ n + 1 \in Nat
  BY <1>3
<1> QED
  BY <1>1, <1>4, <1>5

\* The catalog adds a proxy at the next address.
LEMMA ProxyCreated ==
    ASSUME NEW c, ChainOK(c), NEW tx \in Txs, tx.op = "proxy", NEW C, C = Apply(c, tx)
    PROVE  /\ ChainOK(C) /\ C.deploys = c.deploys /\ C.facts = c.facts
           /\ DOMAIN C.code = DOMAIN c.code \cup {ProxyAddr(c)} /\ C.code[ProxyAddr(c)].kind = tx.what
           /\ \A a \in DOMAIN c.code : C.code[a] = c.code[a]
<1> DEFINE impl == CHOOSE a \in DefaultImpl(c, tx.on, tx.what) : TRUE
           entry == [kind |-> tx.what, ac |-> c.code[tx.on].ac, impl |-> impl]
           addr == ProxyAddr(c)
<1>1. C = [c EXCEPT !.code = Put(c.code, addr, entry)] /\ entry.kind = tx.what
  BY DEF Apply, ApplyCreateProxy, NewCode, ChainOK
<1>2. addr \in Addresses /\ addr < 0 /\ addr \notin DOMAIN c.code
      /\ \E n \in Nat : {a \in DOMAIN c.code : a < 0} \cup {addr} = (-n)..(-1)
  BY NextProxy
<1> HIDE DEF entry, addr
<1>3. /\ C = [code |-> C.code, facts |-> C.facts, deploys |-> C.deploys] /\ C.deploys = c.deploys /\ C.facts = c.facts
      /\ C.code = Put(c.code, addr, entry)
  BY <1>1 DEF ChainOK
<1>4. /\ DOMAIN C.code = DOMAIN c.code \cup {addr} /\ C.code[addr] = entry
      /\ \A a \in DOMAIN c.code : C.code[a] = c.code[a]
  BY <1>2, <1>3 DEF Put
<1>5. {a \in DOMAIN C.code : a < 0} = {a \in DOMAIN c.code : a < 0} \cup {addr}
  BY <1>2, <1>4
<1>6. ChainOK(C)
  BY <1>2, <1>3, <1>4, <1>5 DEF ChainOK, ProxiesInRow
<1> QED
  BY <1>1, <1>3, <1>4, <1>6 DEF addr

\* What a transaction adds speaks of the contract that it calls.
LEMMA Called ==
    ASSUME NEW c, ChainOK(c), NEW tx \in Txs, tx.op = "send", Accepts(c, tx), NEW C, C = Apply(c, tx)
    PROVE  /\ ChainOK(C) /\ C.deploys = c.deploys /\ C.code = c.code
           /\ \A f \in C.facts : f \in c.facts \/
                 /\ f[2] = tx.on /\ HasCode(c, tx.on)
                 /\ f[1] \in SingletonRoles => f[1] = tx.what /\ f[3] = tx.arg /\ HasCode(c, tx.arg)
<1>1. C = ApplySend(c, tx) /\ AcceptsSend(c, tx)
  BY DEF Apply, Accepts
<1> DEFINE New(f) == /\ f[2] = tx.on /\ HasCode(c, tx.on)
                     /\ f[1] \in SingletonRoles => f[1] = tx.what /\ f[3] = tx.arg
<1>2. /\ C = [code |-> c.code, facts |-> C.facts, deploys |-> c.deploys]
      /\ \A f \in C.facts : f \in c.facts \/ New(f)
  <2>1. CASE ~HasCode(c, tx.on)
    <3>1. C = [c EXCEPT !.facts = c.facts]
      BY <1>1, <2>1 DEF ApplySend, ChainOK
    <3> QED
      BY <3>1 DEF ChainOK
  <2>2. CASE HasCode(c, tx.on) /\ tx.what = "tempAdmin"
    <3> DEFINE f == <<"tempAdmin", tx.on, NoAddr>>
    <3>1. C = WithFact(WithoutAdmin(c, tx.on), "tempAdmin", tx.on, NoAddr)
      BY <1>1, <2>2 DEF ApplySend, SingletonRoles
    <3>2. C = [c EXCEPT !.facts = (c.facts \ {f, <<"adminRoles", tx.on, NoAddr>>}) \cup {f}]
      BY <3>1 DEF WithFact, WithoutAdmin, ChainOK
    <3>3. New(f)
      BY <2>2 DEF SingletonRoles
    <3> HIDE DEF f, New
    <3> QED
      BY <3>2, <3>3 DEF ChainOK
  <2>3. CASE HasCode(c, tx.on) /\ tx.what = "renounce"
    <3>1. C = WithoutAdmin(c, tx.on)
      BY <1>1, <2>3 DEF ApplySend, SingletonRoles
    <3>2. C = [c EXCEPT !.facts = c.facts \ {<<"tempAdmin", tx.on, NoAddr>>, <<"adminRoles", tx.on, NoAddr>>}]
      BY <3>1 DEF WithoutAdmin, ChainOK
    <3> QED
      BY <3>2 DEF ChainOK
  <2>4. CASE HasCode(c, tx.on) /\ tx.what = "actuary"
    <3> DEFINE f == <<"actuary", tx.on, tx.arg>>
               copies == {<<item, tx.on, tx.arg>> :
                            item \in {i \in {"premiumConfig", "drawdownConfig", "globals"} : Fact(c, i, tx.on, NoAddr)}}
    <3>1. C = WithActuary(c, tx.on, tx.arg)
      BY <1>1, <2>4 DEF ApplySend, SingletonRoles
    <3>2. C = [c EXCEPT !.facts = c.facts \cup {f} \cup copies]
      BY <3>1 DEF WithActuary, ChainOK
    <3>3. New(f) /\ \A g \in copies : New(g)
      BY <2>4 DEF SingletonRoles
    <3> HIDE DEF f, copies, New
    <3> QED
      BY <3>2, <3>3 DEF ChainOK
  <2>5. CASE HasCode(c, tx.on) /\ tx.what \in SingletonRoles \cup {"borrowManager", "distributor"}
    <3> DEFINE f == <<tx.what, tx.on, tx.arg>>
    <3>1. C = WithSingle(c, tx.what, tx.on, tx.arg)
      BY <1>1, <2>5 DEF ApplySend, SingletonRoles
    <3>2. C = [c EXCEPT !.facts = {g \in c.facts : g[1] # tx.what \/ g[2] # tx.on} \cup {f}]
      BY <3>1 DEF WithSingle, ChainOK
    <3>3. New(f)
      BY <2>5
    <3> HIDE DEF f, New
    <3> QED
      BY <3>2, <3>3 DEF ChainOK
  <2>6. CASE /\ HasCode(c, tx.on)
             /\ tx.what \notin SingletonRoles \cup {"borrowManager", "distributor", "tempAdmin", "renounce", "actuary"}
    <3> DEFINE f == <<tx.what, tx.on, tx.arg>>
    <3>1. C = WithFact(c, tx.what, tx.on, tx.arg)
      BY <1>1, <2>6 DEF ApplySend
    <3>2. C = [c EXCEPT !.facts = c.facts \cup {f}]
      BY <3>1 DEF WithFact, ChainOK
    <3>3. New(f)
      BY <2>6
    <3> HIDE DEF f, New
    <3> QED
      BY <3>2, <3>3 DEF ChainOK
  <2> QED
    BY <2>1, <2>2, <2>3, <2>4, <2>5, <2>6
<1>3. /\ C = [code |-> C.code, facts |-> C.facts, deploys |-> C.deploys]
      /\ C.deploys = c.deploys /\ C.code = c.code
  BY <1>2
<1>4. ChainOK(C)
  BY <1>3 DEF ChainOK, ProxiesInRow
<1>5. HasCode(c, tx.on) /\ tx.what \in SingletonRoles => HasCode(c, tx.arg)
  BY <1>1 DEF AcceptsSend, AcceptsSetAddress
<1> QED
  BY <1>2, <1>3, <1>4, <1>5

-----------------------------------------------------------------------------
(* The transaction that is mined.                                          *)

\* The first transaction, and the others.
LEMMA HeadTail ==
    ASSUME NEW txs, txs \in Seq(Txs), txs # <<>>
    PROVE  /\ Head(txs) \in Txs /\ Head(txs) = txs[1] /\ 1 \in DOMAIN txs /\ Tail(txs) \in Seq(Txs)
           /\ \A k \in DOMAIN Tail(txs) : k + 1 \in DOMAIN txs /\ Tail(txs)[k] = txs[k + 1] /\ k \in Nat /\ k + 1 # 1
           /\ \A k \in DOMAIN txs : k = 1 \/ (k - 1 \in DOMAIN Tail(txs) /\ Tail(txs)[k - 1] = txs[k])
OBVIOUS

\* A chain C that has grown out of c: its proxies are still there.
Grown(c, C) ==
    /\ DOMAIN c.code \subseteq DOMAIN C.code
    /\ \A a \in DOMAIN c.code : a < 0 => C.code[a].kind = c.code[a].kind

\* What became of a transaction tx on a chain c, which is then C.
Mined(c, tx, C) ==
    /\ ChainOK(C) /\ C.deploys = c.deploys /\ Grown(c, C)
    /\ \A a \in DOMAIN c.code : a # tx.on \/ tx.op # "deploy" => C.code[a].kind = c.code[a].kind
    /\ \A a \in DOMAIN C.code : a \in DOMAIN c.code \/ (tx.op = "deploy" /\ a = tx.on) \/ (tx.op = "proxy" /\ a < 0)
    /\ tx.op = "deploy" => IsA(C, tx.on, tx.what)
    /\ \A f \in C.facts : f \in c.facts \/
          /\ tx.op = "send" /\ f[2] = tx.on /\ f[2] \in DOMAIN c.code
          /\ f[1] \in SingletonRoles => f[1] = tx.what /\ f[3] = tx.arg /\ f[3] # NoAddr

\* Whether it is accepted or not, a transaction takes nothing from the chain.
LEMMA MinedStep ==
    ASSUME NEW c, ChainOK(c), NEW tx \in Txs, tx.op = "deploy" => tx.on > 0,
           NEW C, C = IF Accepts(c, tx) THEN Apply(c, tx) ELSE c
    PROVE  /\ Mined(c, tx, C)
           /\ tx.op = "proxy" /\ Accepts(c, tx) => ProxyAddr(c) < 0 /\ ProxyAddr(c) \in Int /\ IsA(C, ProxyAddr(c), tx.what)
<1>1. CASE tx.op = "deploy"
  <2>1. C = Apply(c, tx)
    BY <1>1 DEF Accepts
  <2>2. /\ ChainOK(C) /\ C.deploys = c.deploys /\ C.facts = c.facts
        /\ DOMAIN C.code = DOMAIN c.code \cup {tx.on} /\ C.code[tx.on].kind = tx.what
        /\ \A a \in DOMAIN c.code : a # tx.on => C.code[a] = c.code[a]
    BY <1>1, <2>1, Deployed
  <2>3. ~(tx.on < 0)
    BY <1>1 DEF Txs
  <2> QED
    BY <1>1, <2>2, <2>3 DEF Mined, Grown, IsA, HasCode
<1>2. CASE tx.op = "proxy" /\ Accepts(c, tx)
  <2>1. /\ ChainOK(C) /\ C.deploys = c.deploys /\ C.facts = c.facts
        /\ DOMAIN C.code = DOMAIN c.code \cup {ProxyAddr(c)} /\ C.code[ProxyAddr(c)].kind = tx.what
        /\ \A a \in DOMAIN c.code : C.code[a] = c.code[a]
    BY <1>2, ProxyCreated
  <2>2. ProxyAddr(c) < 0 /\ ProxyAddr(c) \in Int
    BY NextProxy DEF Addresses
  <2> QED
    BY <1>2, <2>1, <2>2 DEF Mined, Grown, IsA, HasCode
<1>3. CASE tx.op = "send" /\ Accepts(c, tx)
  <2>1. /\ ChainOK(C) /\ C.deploys = c.deploys /\ C.code = c.code
        /\ \A f \in C.facts : f \in c.facts \/
              /\ f[2] = tx.on /\ HasCode(c, tx.on)
              /\ f[1] \in SingletonRoles => f[1] = tx.what /\ f[3] = tx.arg /\ HasCode(c, tx.arg)
    BY <1>3, Called
  <2>2. ~HasCode(c, NoAddr)
    BY DEF HasCode, ChainOK, Addresses
  <2> QED
    BY <1>3, <2>1, <2>2 DEF Mined, Grown, HasCode
<1>4. CASE tx.op # "deploy" /\ ~Accepts(c, tx)
  BY <1>4 DEF Mined, Grown
<1> QED
  BY <1>1, <1>2, <1>3, <1>4 DEF Txs

\* What was pending is there when its transaction is mined.
LEMMA MineStep == ASSUME IInv, Mine PROVE IInv'
<1> DEFINE tx == Head(mempool)
           ok == Accepts(chain, tx)
           T == Tail(mempool)
<1>1. /\ mempool # <<>> /\ chain' = (IF ok THEN Apply(chain, tx) ELSE chain) /\ mempool' = T
      /\ proc' = (IF tx.awaited THEN [proc EXCEPT !.receipt = ReceiptOf(tx, ok)] ELSE proc)
      /\ UNCHANGED <<db, lost, announced, faults>>
  BY DEF Mine
<1>2. /\ ChainOK(chain) /\ mempool \in Seq(Txs) /\ proc \in Processes
      /\ \A k \in DOMAIN mempool : mempool[k].op = "deploy" => mempool[k].on > 0
  BY DEF IInv, TypesInv, MempoolOK
<1>3. /\ tx \in Txs /\ tx = mempool[1] /\ 1 \in DOMAIN mempool /\ T \in Seq(Txs)
      /\ \A k \in DOMAIN T : k + 1 \in DOMAIN mempool /\ T[k] = mempool[k + 1] /\ k \in Nat /\ k + 1 # 1
      /\ \A k \in DOMAIN mempool : k = 1 \/ (k - 1 \in DOMAIN T /\ T[k - 1] = mempool[k])
  BY <1>1, <1>2, HeadTail
<1> HIDE DEF tx, T
<1>4. tx.op = "deploy" => tx.on > 0
  BY <1>2, <1>3
<1>5. /\ Mined(chain, tx, chain')
      /\ tx.op = "proxy" /\ ok => ProxyAddr(chain) < 0 /\ ProxyAddr(chain) \in Int /\ IsA(chain', ProxyAddr(chain), tx.what)
  BY <1>1, <1>2, <1>3, <1>4, MinedStep
<1> DEFINE r == ReceiptOf(tx, ok)
<1>6. r \in Receipts /\ r.status # "none" /\ (r.status = "ok" => ok) /\ (ok /\ tx.op = "proxy" => r.addr = ProxyAddr(chain))
  <2>1. IF ok /\ tx.op = "proxy" THEN ReceiptOf(tx, ok) = [status |-> "ok", addr |-> ProxyAddr(chain)]
        ELSE ReceiptOf(tx, ok) = [status |-> IF ok THEN "ok" ELSE "reverted", addr |-> NoAddr]
    BY DEF ReceiptOf
  <2> HIDE DEF ok
  <2> QED
    BY <1>5, <2>1, NoAddrIsZero DEF Receipts
<1> HIDE DEF r, ok
<1>7. proc' \in Processes /\ proc'.phase = proc.phase /\ proc'.pc = proc.pc /\ proc'.addr = proc.addr
      /\ proc'.receipt = IF tx.awaited THEN r ELSE proc.receipt
  BY <1>1, <1>2, <1>6 DEF Processes, r
<1>8. TypesInv'
  <2>1. MempoolOK(T)
    BY <1>2, <1>3 DEF MempoolOK
  <2> QED
    BY <1>1, <1>5, <1>7, <2>1 DEF IInv, TypesInv, FaultsOK, Mined
<1>9. \A a \in Int : \A kind : a < 0 /\ IsA(chain, a, kind) => IsA(chain', a, kind)
  BY <1>5 DEF Mined, Grown, IsA, HasCode
<1>10. PlaceInv(proc, db, chain)'
  <2>1. PlaceInv(proc, db, chain) /\ AwaitInv(proc, mempool)
    BY DEF IInv
  <2>2. ASSUME proc.phase = "waiting", In(proc).op = "proxy", proc'.receipt.status = "ok"
        PROVE  proc'.receipt.addr < 0 /\ IsA(chain', proc'.receipt.addr, In(proc).impl)
    <3>1. CASE tx.awaited
      <4>1. tx.op = "proxy" /\ tx.what = In(proc).impl
        BY <1>3, <2>1, <2>2, <3>1 DEF AwaitInv
      <4> QED
        BY <1>5, <1>6, <1>7, <2>2, <3>1, <4>1
    <3>2. CASE ~tx.awaited
      <4>1. proc.receipt.addr \in Int
        BY <1>2 DEF Processes, Receipts
      <4> QED
        BY <1>7, <1>9, <2>1, <2>2, <3>2, <4>1 DEF PlaceInv
    <3> QED
      BY <3>1, <3>2
  <2>3. proc.addr \in Int
    BY <1>2 DEF Processes
  <2>4. PlaceInv(proc', db, chain')
    BY <1>7, <1>9, <2>1, <2>2, <2>3 DEF PlaceInv, InScript, In
  <2> QED
    BY <1>1, <2>4
<1>11. AwaitInv(proc, mempool)'
  <2>1. AwaitInv(proc, mempool)
    BY DEF IInv
  <2>2. CASE tx.awaited
    <3>1. \A k \in DOMAIN T : ~T[k].awaited
      BY <1>3, <2>1, <2>2 DEF AwaitInv
    <3> QED
      BY <1>1, <3>1 DEF AwaitInv
  <2>3. CASE ~tx.awaited
    <3>1. \A k \in DOMAIN T : \A j \in DOMAIN T : T[k].awaited /\ T[j].awaited => j = k
      BY <1>3, <2>1 DEF AwaitInv
    <3>2. AwaitInv(proc, T)
      BY <1>3, <2>1, <3>1 DEF AwaitInv
    <3> QED
      BY <1>1, <2>3, <3>2
  <2> QED
    BY <2>2, <2>3
<1>12. ProxyInv(db, chain)'
  <2>1. FileOK(db)
    BY DEF IInv, TypesInv
  <2>2. \A n : AddrOf(db, n) \in Int
    BY <2>1, AddrTypes
  <2>3. ProxyInv(db, chain')
    BY <1>9, <2>2 DEF IInv, ProxyInv
  <2> QED
    BY <1>1, <2>3
<1>13. RoleInv(db, chain, mempool)'
  <2>1. RoleInv(db, chain, mempool)
    BY DEF IInv
  <2>2. \A f \in chain'.facts : f[2] \in DOMAIN chain'.code
    BY <1>5, <2>1 DEF RoleInv, Mined, Grown
  <2>3. ASSUME NEW f \in chain'.facts, f[1] \in SingletonRoles
        PROVE  Has(db, AC) /\ f[2] = AddrOf(db, AC) /\ f[3] # NoAddr /\ Rightly(db, f[1], f[3])
    <3>1. CASE f \in chain.facts
      BY <2>1, <2>3, <3>1 DEF RoleInv
    <3>2. CASE f \notin chain.facts
      <4>1. tx.op = "send" /\ f[2] = tx.on /\ f[1] = tx.what /\ f[3] = tx.arg /\ f[3] # NoAddr
        BY <1>5, <2>3, <3>2 DEF Mined
      <4> QED
        BY <1>3, <2>1, <2>3, <4>1 DEF RoleInv
    <3> QED
      BY <3>1, <3>2
  <2>4. RoleInv(db, chain', T)
    BY <1>3, <2>1, <2>2, <2>3 DEF RoleInv
  <2> QED
    BY <1>1, <2>4
<1>14. DeployInv'
  <2> SUFFICES ASSUME faults.drops = 0 PROVE FreshInv(chain', T) /\ NamedInv(db, chain', T, proc')
    BY <1>1 DEF IInv, DeployInv
  <2>1. FreshInv(chain, mempool) /\ NamedInv(db, chain, mempool, proc)
    BY DEF IInv, DeployInv
  <2>2. chain.deploys \in Nat /\ chain'.deploys = chain.deploys /\ \A a \in DOMAIN chain'.code : a \in Int
    BY <1>2, <1>5 DEF Mined, ChainOK, Addresses
  <2>3. FreshInv(chain', T)
    <3>1. \A a \in DOMAIN chain'.code : a <= chain'.deploys
      BY <1>3, <1>5, <2>1, <2>2 DEF FreshInv, Mined
    <3>2. ASSUME NEW k \in DOMAIN T, T[k].op = "deploy"
          PROVE  /\ T[k].on <= chain'.deploys /\ ~HasCode(chain', T[k].on)
                 /\ \A j \in DOMAIN T : T[j].op = "deploy" /\ T[j].on = T[k].on => j = k
      <4>1. k + 1 \in DOMAIN mempool /\ T[k] = mempool[k + 1] /\ k \in Nat /\ k + 1 # 1
        BY <1>3
      <4>2. T[k].on <= chain'.deploys /\ ~HasCode(chain, T[k].on) /\ T[k].on > 0
        BY <1>2, <2>1, <2>2, <3>2, <4>1 DEF FreshInv
      <4>3. tx.op = "deploy" => tx.on # T[k].on
        <5>1. mempool[1].op = "deploy" /\ mempool[1].on = mempool[k + 1].on => k + 1 = 1
          BY <1>3, <2>1, <3>2, <4>1 DEF FreshInv
        <5>2. tx = mempool[1] /\ T[k].on = mempool[k + 1].on
          BY <1>3, <4>1
        <5> QED
          BY <4>1, <5>1, <5>2
      <4>4. T[k].on \in Int
        <5>1. T[k] \in Txs
          BY <1>3
        <5> QED
          BY <5>1 DEF Txs
      <4>5. ~HasCode(chain', T[k].on)
        BY <1>5, <4>2, <4>3, <4>4 DEF Mined, HasCode
      <4>6. \A j \in DOMAIN T : T[j].op = "deploy" /\ T[j].on = T[k].on => j = k
        BY <1>3, <2>1, <3>2, <4>1 DEF FreshInv
      <4> QED
        BY <4>2, <4>5, <4>6
    <3> QED
      BY <3>1, <3>2 DEF FreshInv
  <2>4. ASSUME NEW a, NEW kind, Backed(chain, mempool, a, kind) PROVE Backed(chain', T, a, kind)
    <3>1. CASE IsA(chain, a, kind)
      <4>1. tx.op = "deploy" => a # tx.on
        BY <1>3, <2>1, <3>1 DEF FreshInv, IsA, HasCode
      <4> QED
        BY <1>5, <3>1, <4>1 DEF Mined, Grown, Backed, IsA, HasCode
    <3>2. CASE \E k \in DOMAIN mempool : mempool[k].op = "deploy" /\ mempool[k].on = a /\ mempool[k].what = kind
      <4>1. PICK k \in DOMAIN mempool : mempool[k].op = "deploy" /\ mempool[k].on = a /\ mempool[k].what = kind
        BY <3>2
      <4>2. CASE k = 1
        BY <1>3, <1>5, <4>1, <4>2 DEF Mined, Backed
      <4>3. CASE k # 1
        BY <1>3, <4>1, <4>3 DEF Backed
      <4> QED
        BY <4>2, <4>3
    <3> QED
      BY <2>4, <3>1, <3>2 DEF Backed
  <2>5. NamedInv(db, chain', T, proc')
    BY <1>7, <2>1, <2>4 DEF NamedInv, In
  <2> QED
    BY <2>3, <2>5
<1> QED
  BY <1>8, <1>10, <1>11, <1>12, <1>13, <1>14 DEF IInv

-----------------------------------------------------------------------------
(* Faults, and the start from nothing.                                     *)

\* The transactions of a process that was killed are still pending.
LEMMA OrphanedType ==
    ASSUME NEW txs, txs \in Seq(Txs)
    PROVE  /\ Orphaned(txs) \in Seq(Txs) /\ DOMAIN Orphaned(txs) = DOMAIN txs
           /\ \A k \in DOMAIN txs : /\ Orphaned(txs)[k].op = txs[k].op /\ Orphaned(txs)[k].what = txs[k].what
                                    /\ Orphaned(txs)[k].on = txs[k].on /\ Orphaned(txs)[k].arg = txs[k].arg
                                    /\ ~Orphaned(txs)[k].awaited
<1> DEFINE O(k) == [txs[k] EXCEPT !.awaited = FALSE]
<1>1. DOMAIN txs = 1..Len(txs) /\ Len(txs) \in Nat /\ \A k \in DOMAIN txs : txs[k] \in Txs
  OBVIOUS
<1>2. \A k \in DOMAIN txs : /\ O(k) \in Txs /\ O(k).op = txs[k].op /\ O(k).what = txs[k].what
                            /\ O(k).on = txs[k].on /\ O(k).arg = txs[k].arg /\ ~O(k).awaited
  BY <1>1 DEF Txs
<1>3. Orphaned(txs) = [k \in DOMAIN txs |-> O(k)]
  BY DEF Orphaned
<1> HIDE DEF O
<1>4. Orphaned(txs) \in Seq(Txs)
  BY <1>1, <1>2, <1>3
<1> QED
  BY <1>2, <1>3, <1>4

\* A kill leaves the file, the chain and what is pending.
LEMMA CrashStep == ASSUME IInv, Crash PROVE IInv'
<1>1. /\ proc' = Off("killed") /\ mempool' = Orphaned(mempool) /\ UNCHANGED <<db, chain, lost, announced>>
      /\ faults' = [faults EXCEPT !.crashes = @ + 1] /\ mempool \in Seq(Txs) /\ MempoolOK(mempool) /\ FaultsOK
  BY DEF Crash, IInv, TypesInv, MempoolOK
<1>2. proc' \in Processes /\ proc'.phase = "off"
  BY <1>1, OffType
<1>3. /\ mempool' \in Seq(Txs) /\ DOMAIN mempool' = DOMAIN mempool
      /\ \A k \in DOMAIN mempool : /\ mempool'[k].op = mempool[k].op /\ mempool'[k].what = mempool[k].what
                                   /\ mempool'[k].on = mempool[k].on /\ mempool'[k].arg = mempool[k].arg
                                   /\ ~mempool'[k].awaited
  BY <1>1, OrphanedType
<1>4. faults'.drops = faults.drops /\ FaultsOK'
  BY <1>1 DEF FaultsOK
<1>5. TypesInv'
  <2>1. MempoolOK(mempool')
    BY <1>1, <1>3 DEF MempoolOK
  <2> QED
    BY <1>1, <1>2, <1>4, <2>1 DEF IInv, TypesInv
<1>6. PlaceInv(proc, db, chain)' /\ AwaitInv(proc, mempool)'
  BY <1>2, <1>3, RestingPlace DEF Moving
<1>7. ProxyInv(db, chain)' /\ RoleInv(db, chain, mempool)'
  BY <1>1, <1>3 DEF IInv, RoleInv
<1>8. DeployInv'
  <2> SUFFICES ASSUME faults.drops = 0
               PROVE  lost' = <<>> /\ FreshInv(chain, mempool') /\ NamedInv(db, chain, mempool', proc')
    BY <1>1, <1>4 DEF DeployInv
  <2>1. lost = <<>> /\ FreshInv(chain, mempool) /\ NamedInv(db, chain, mempool, proc)
    BY DEF IInv, DeployInv
  <2>2. FreshInv(chain, mempool')
    BY <1>3, <2>1 DEF FreshInv
  <2>3. NamedInv(db, chain, mempool', proc')
    BY <1>2, <1>3, <2>1 DEF NamedInv, Backed
  <2> QED
    BY <1>1, <2>1, <2>2, <2>3
<1> QED
  BY <1>5, <1>6, <1>7, <1>8 DEF IInv

\* A loss ends what was pending, and with it what is known of deployments.
LEMMA DropStep == ASSUME IInv, Drop PROVE IInv'
<1>1. /\ mempool' = <<>> /\ UNCHANGED <<db, chain, proc, announced>> /\ lost' = Reusable(AddressesOf(mempool) \o lost)
      /\ faults' = [faults EXCEPT !.drops = @ + 1] /\ mempool \in Seq(Txs) /\ MempoolOK(mempool) /\ FaultsOK
      /\ lost \in Seq(Nat)
  BY DEF Drop, IInv, TypesInv, MempoolOK
<1>2. faults'.drops = faults.drops + 1 /\ FaultsOK' /\ faults.drops \in Nat
  BY <1>1 DEF FaultsOK
<1>3. lost' \in Seq(Nat)
  <2>1. DOMAIN mempool = 1..Len(mempool) /\ Len(mempool) \in Nat /\ \A k \in DOMAIN mempool : mempool[k] \in Txs
    BY <1>1
  <2>2. \A k \in DOMAIN mempool : (IF mempool[k].op = "deploy" THEN mempool[k].on ELSE NoAddr) \in Nat
    BY <1>1, <2>1, NoAddrIsZero DEF MempoolOK, Txs
  <2>3. AddressesOf(mempool) \in Seq(Nat)
    BY <2>1, <2>2 DEF AddressesOf
  <2>4. AddressesOf(mempool) \o lost \in Seq(Nat)
    BY <1>1, <2>3
  <2> QED
    BY <1>1, <2>4 DEF Reusable
<1>4. TypesInv'
  BY <1>1, <1>2, <1>3 DEF IInv, TypesInv, MempoolOK
<1>5. PlaceInv(proc, db, chain)' /\ AwaitInv(proc, mempool)'
  BY <1>1 DEF IInv, AwaitInv
<1>6. ProxyInv(db, chain)' /\ RoleInv(db, chain, mempool)'
  BY <1>1 DEF IInv, RoleInv
<1>7. DeployInv'
  BY <1>2 DEF DeployInv
<1> QED
  BY <1>4, <1>5, <1>6, <1>7 DEF IInv

\* Whoever ends the administration takes no role and no contract away.
LEMMA SeizeStep == ASSUME IInv, Seize PROVE IInv'
<1>1. PICK a \in DOMAIN chain.code : chain' = WithoutAdmin(chain, a)
  BY DEF Seize
<1>2. /\ faults' = [faults EXCEPT !.seizures = @ + 1] /\ UNCHANGED <<db, mempool, lost, proc, announced>>
      /\ ChainOK(chain) /\ FaultsOK
  BY DEF Seize, IInv, TypesInv
<1>3. faults'.drops = faults.drops /\ FaultsOK'
  BY <1>2 DEF FaultsOK
<1>4. /\ chain' = [code |-> chain'.code, facts |-> chain'.facts, deploys |-> chain'.deploys]
      /\ chain'.code = chain.code /\ chain'.deploys = chain.deploys /\ chain'.facts \subseteq chain.facts
  BY <1>1, <1>2 DEF WithoutAdmin, ChainOK
<1>5. ChainOK(chain')
  BY <1>2, <1>4 DEF ChainOK, ProxiesInRow
<1>6. TypesInv'
  BY <1>2, <1>3, <1>5 DEF IInv, TypesInv
<1>7. \A b, kind : IsA(chain', b, kind) <=> IsA(chain, b, kind)
  BY <1>4 DEF IsA, HasCode
<1>8. PlaceInv(proc, db, chain)' /\ AwaitInv(proc, mempool)' /\ ProxyInv(db, chain)'
  BY <1>2, <1>7 DEF IInv, PlaceInv, ProxyInv
<1>9. RoleInv(db, chain, mempool)'
  <2>1. RoleInv(db, chain', mempool)
    BY <1>4 DEF IInv, RoleInv
  <2> QED
    BY <1>2, <2>1
<1>10. DeployInv'
  <2>1. \A b, kind : Backed(chain', mempool, b, kind) <=> Backed(chain, mempool, b, kind)
    BY <1>7 DEF Backed
  <2>2. FreshInv(chain, mempool) => FreshInv(chain', mempool)
    BY <1>4 DEF FreshInv, HasCode
  <2>3. NamedInv(db, chain, mempool, proc) => NamedInv(db, chain', mempool, proc)
    BY <2>1 DEF NamedInv
  <2> QED
    BY <1>2, <1>3, <2>2, <2>3 DEF IInv, DeployInv
<1> QED
  BY <1>6, <1>8, <1>9, <1>10 DEF IInv

\* Before anything is deployed.
LEMMA Nothing ==
    /\ FileOK(EmptyDb) /\ ChainOK(EmptyChain) /\ MempoolOK(<<>>) /\ <<>> \in Seq(Nat)
    /\ ProxyInv(EmptyDb, EmptyChain) /\ RoleInv(EmptyDb, EmptyChain, <<>>) /\ FreshInv(EmptyChain, <<>>)
    /\ \A p : p.phase \notin Moving => NamedInv(EmptyDb, EmptyChain, <<>>, p)
<1>1. DOMAIN <<>> = {}
  OBVIOUS
<1>2. FileOK(EmptyDb)
  BY <1>1 DEF FileOK, EmptyDb
<1>3. ChainOK(EmptyChain)
  <2>1. {a \in DOMAIN EmptyChain.code : a < 0} = (-0)..(-1)
    BY <1>1 DEF EmptyChain
  <2> QED
    BY <1>1, <2>1 DEF ChainOK, EmptyChain, ProxiesInRow
<1>4. \A n : ~Has(EmptyDb, n)
  BY <1>1 DEF Has, AddrOf, EmptyDb
<1> QED
  BY <1>1, <1>2, <1>3, <1>4 DEF MempoolOK, ProxyInv, RoleInv, FreshInv, NamedInv, EmptyChain, Moving

\* A start from nothing forgets the file and its contracts together.
LEMMA StartCleanStep == ASSUME IInv, StartClean PROVE IInv'
<1>1. /\ db' = EmptyDb /\ chain' = EmptyChain /\ mempool' = <<>> /\ lost' = <<>> /\ announced' = FALSE
      /\ faults' = [faults EXCEPT !.cleans = IF proc.result = "none" THEN @ ELSE @ + 1] /\ FaultsOK
  BY DEF StartClean, IInv, TypesInv
<1>2. PICK secure \in BOOLEAN : proc' = Started(secure)
  BY DEF StartClean
<1>3. proc' \in Processes /\ proc'.phase = "run"
  BY <1>2, StartedType
<1>4. FaultsOK'
  BY <1>1 DEF FaultsOK
<1>5. TypesInv'
  <2>1. FileOK(db') /\ ChainOK(chain') /\ MempoolOK(mempool') /\ lost' \in Seq(Nat)
    BY <1>1, Nothing
  <2>2. announced' \in BOOLEAN
    BY <1>1
  <2> QED
    BY <1>3, <1>4, <2>1, <2>2 DEF TypesInv
<1>6. PlaceInv(proc, db, chain)' /\ AwaitInv(proc, mempool)'
  <2>1. DOMAIN mempool' = {}
    BY <1>1
  <2> QED
    BY <1>3, <2>1, RestingPlace DEF Moving, AwaitInv
<1>7. ProxyInv(db, chain)' /\ RoleInv(db, chain, mempool)'
  BY <1>1, Nothing
<1>8. DeployInv'
  BY <1>1, <1>3, Nothing DEF DeployInv, Moving
<1> QED
  BY <1>5, <1>6, <1>7, <1>8 DEF IInv

\* The invariant holds at first,
LEMMA InitIInv == Init => IInv
<1> SUFFICES ASSUME Init PROVE IInv
  OBVIOUS
<1>1. /\ db = EmptyDb /\ chain = EmptyChain /\ mempool = <<>> /\ lost = <<>> /\ announced = FALSE
      /\ proc = Off("none") /\ faults = [crashes |-> 0, drops |-> 0, seizures |-> 0, cleans |-> 0]
  BY DEF Init
<1>2. proc \in Processes /\ proc.phase = "off"
  BY <1>1, OffType
<1>3. TypesInv
  <2>1. FileOK(db) /\ ChainOK(chain) /\ MempoolOK(mempool) /\ lost \in Seq(Nat)
    BY <1>1, Nothing
  <2>2. announced \in BOOLEAN /\ FaultsOK
    BY <1>1 DEF FaultsOK
  <2> QED
    BY <1>2, <2>1, <2>2 DEF TypesInv
<1>4. PlaceInv(proc, db, chain) /\ AwaitInv(proc, mempool)
  <2>1. DOMAIN mempool = {}
    BY <1>1
  <2> QED
    BY <1>2, <2>1, RestingPlace DEF Moving, AwaitInv
<1>5. ProxyInv(db, chain) /\ RoleInv(db, chain, mempool)
  BY <1>1, Nothing
<1>6. DeployInv
  BY <1>1, <1>2, Nothing DEF DeployInv, Moving
<1> QED
  BY <1>3, <1>4, <1>5, <1>6 DEF IInv

-----------------------------------------------------------------------------
(* The theorems.                                                           *)

\* and every step keeps it.
LEMMA NextIInv == IInv /\ [Next]_vars => IInv'
<1> SUFFICES ASSUME IInv, [Next]_vars PROVE IInv'
  OBVIOUS
<1>1. CASE Work
  BY <1>1, BeginStepStep, FoundStep, DeploySendStep, DeployRecordStep, DeployNameStep, ProxySendStep,
     ProxyRecordStep, ProxyNameStep, AssignRoleStep, LookupStep, SendCallStep, SendCallOnlyStep, ReceiptStep,
     TestStep, FinalizeSendStep, ExitStep DEF Work
<1>2. CASE Mine
  BY <1>2, MineStep
<1>3. CASE StartIncremental \/ StartClean \/ Abandon
  BY <1>3, StartIncrementalStep, StartCleanStep, AbandonStep
<1>4. CASE Crash \/ Drop \/ Seize
  BY <1>4, CrashStep, DropStep, SeizeStep
<1>5. CASE UNCHANGED vars
  <2>1. UNCHANGED <<db, chain, mempool, lost, proc, announced, faults>>
    BY <1>5 DEF vars
  <2> QED
    BY <2>1 DEF IInv, TypesInv, FaultsOK, DeployInv
<1> QED
  BY <1>1, <1>2, <1>3, <1>4, <1>5 DEF Next

(***************************************************************************)
(* The inductive invariant holds in every state of every deployment.       *)
(***************************************************************************)
THEOREM DeploymentInvariant == Spec => []IInv
<1>1. Init => IInv
  BY InitIInv
<1>2. IInv /\ [Next]_vars => IInv'
  BY NextIInv
<1> QED
  BY <1>1, <1>2, PTL DEF Spec

\* Nobody waits for two transactions.
LEMMA OneAwaited ==
    ASSUME NEW p, NEW txs, AwaitInv(p, txs)
    PROVE  Cardinality({i \in DOMAIN txs : txs[i].awaited}) <= 1
<1> DEFINE S == {i \in DOMAIN txs : txs[i].awaited}
<1>1. CASE S = {}
  BY <1>1, FS_EmptySet
<1>2. CASE S # {}
  <2>1. PICK k \in S : TRUE
    BY <1>2
  <2>2. S = {k}
    BY <2>1 DEF AwaitInv
  <2>3. Cardinality({k}) = 1
    BY FS_Singleton
  <2> QED
    BY <2>2, <2>3
<1> QED
  BY <1>1, <1>2

\* The invariant implies the types,
LEMMA TypesImplied == IInv => TypeOK
<1> SUFFICES ASSUME IInv PROVE TypeOK
  OBVIOUS
<1>1. /\ proc \in Processes /\ announced \in BOOLEAN /\ FileOK(db) /\ ChainOK(chain)
      /\ Cardinality({i \in DOMAIN mempool : mempool[i].awaited}) <= 1
  BY OneAwaited DEF IInv, TypesInv
<1>2. /\ proc.phase \in Phases /\ proc.pc \in 1..(Len(Script) + 1) /\ proc.newDeploy \in BOOLEAN
      /\ proc.renounce \in BOOLEAN /\ proc.result \in {"none", "failed", "killed", "success"}
      /\ proc.receipt.status \in {"none", "ok", "reverted"}
  BY <1>1 DEF Processes, Receipts
<1>3. \A n \in DOMAIN db.named : db.named[n].address \in Int \ {NoAddr} /\ db.named[n].count \in Nat \ {0}
  BY <1>1 DEF FileOK, NameRecords, Addresses
<1>4. (\A a \in DOMAIN db.instance : a > 0) /\ (\A a \in DOMAIN db.external : a < 0)
  BY <1>1 DEF FileOK
<1>5. \A a \in DOMAIN chain.code : a \in Int \ {NoAddr}
  BY <1>1 DEF ChainOK, Addresses
<1> QED
  BY <1>1, <1>2, <1>3, <1>4, <1>5 DEF TypeOK

\* that what is recorded is deployed,
LEMMA DeployedImplied == IInv => RecordedIsDeployed
<1> SUFFICES ASSUME IInv, NEW i \in Instrs, Script[i].op \in {"deploy", "proxy"}, Has(db, Script[i].name)
             PROVE  LET a == Resolve(Script[i].name)
                        kind == IF Script[i].op = "deploy" THEN Script[i].name ELSE Script[i].impl
                    IN  \/ HasCode(chain, a) /\ chain.code[a].kind = kind
                        \/ Script[i].op = "deploy" /\ faults.drops > 0
                        \/ /\ ~HasCode(chain, a)
                           /\ \E k \in DOMAIN mempool : mempool[k].on = a /\ mempool[k].what = kind
  BY DEF RecordedIsDeployed
<1>1. CASE Script[i].op = "proxy"
  BY <1>1 DEF IInv, ProxyInv, IsA, Resolve
<1>2. CASE Script[i].op = "deploy" /\ faults.drops = 0
  <2>1. FreshInv(chain, mempool) /\ Backed(chain, mempool, AddrOf(db, Script[i].name), Script[i].name)
    BY <1>2 DEF IInv, DeployInv, NamedInv
  <2> QED
    BY <1>2, <2>1 DEF Backed, FreshInv, IsA, Resolve
<1>3. CASE Script[i].op = "deploy" /\ faults.drops # 0
  BY <1>3 DEF IInv, TypesInv, FaultsOK
<1> QED
  BY <1>1, <1>2, <1>3

\* and that the roles point to what is recorded.
LEMMA RolesImplied == IInv => RolesPointToRecorded
<1> SUFFICES ASSUME IInv, NEW i \in Instrs, Script[i].op = "assign",
                    NEW f \in chain.facts, f[1] = Script[i].role, f[2] = Resolve(AC)
             PROVE  f[3] = Resolve(Script[i].name)
  BY DEF RolesPointToRecorded, ArgsOf
<1>1. Script[i].role \in SingletonRoles
  BY InstrTypes
<1> QED
  BY <1>1 DEF IInv, RoleInv, Rightly, Resolve

(***************************************************************************)
(* However often the task is killed, loses its transactions or loses its   *)
(* administrator, at whatever point, and whatever steps it is made of: the *)
(* file names contracts that are there or about to be, of the right kind,  *)
(* and the roles of the access controller point to no others.              *)
(***************************************************************************)
THEOREM FileAgrees == Spec => []FileMatchesChain
<1>1. IInv => FileMatchesChain
  BY TypesImplied, DeployedImplied, RolesImplied DEF FileMatchesChain
<1> QED
  BY <1>1, DeploymentInvariant, PTL

\* The names that a step leaves as they were.
Kept(d, D) == \A n \in DOMAIN d.named : n \in DOMAIN D.named /\ D.named[n] = d.named[n]

\* A step writes a new name, or starts from nothing.
LEMMA NamesKept == IInv /\ [Next]_vars => db' = EmptyDb \/ Kept(db, db')
<1> SUFFICES ASSUME IInv, [Next]_vars PROVE db' = EmptyDb \/ Kept(db, db')
  OBVIOUS
<1>1. CASE UNCHANGED db
  BY <1>1 DEF Kept
<1>2. CASE StartClean
  BY <1>2 DEF StartClean
<1>3. CASE DeployRecord \/ ProxyRecord
  <2>1. FileOK(db)
    BY DEF IInv, TypesInv
  <2>2. db'.named = db.named
    BY <1>3, <2>1 DEF DeployRecord, ProxyRecord, AddInstance, AddProxy, SetNeedsSync, FileOK
  <2> QED
    BY <2>2 DEF Kept
<1>4. CASE DeployName \/ ProxyName
  <2>1. FileOK(db) /\ proc \in Processes /\ PlaceInv(proc, db, chain) /\ db' = AddNamed(db, Cur.name, proc.addr)
    BY <1>4 DEF DeployName, ProxyName, IInv, TypesInv
  <2>2. ~Has(db, Cur.name) /\ (proc.addr > 0 \/ proc.addr < 0)
    BY <1>4, <2>1 DEF DeployName, ProxyName, PlaceInv, In, Cur
  <2>3. proc.addr \in Addresses
    BY <2>1, <2>2, NoAddrIsZero DEF Addresses, Processes
  <2> QED
    BY <2>1, <2>2, <2>3, Naming DEF Kept
<1> QED
  BY <1>1, <1>2, <1>3, <1>4 DEF Next, Work, BeginStep, DeployFound, DeploySend, ProxyFound, ProxySend,
     AssignRole, LookupDefault, Lookup, SendCall, SendCallOnly, ReceiptOk, ReceiptReverted, StepsDone,
     AccessTest, SmokeTest, Summary, FinalizeSend, Exit, Mine, StartIncremental, Abandon, Crash, Drop, Seize,
     Step, SendAndWait, vars

(***************************************************************************)
(* No run that finds the file again, in whatever state an earlier one left *)
(* it, deploys what the file names a second time.                          *)
(***************************************************************************)
THEOREM NamesAreKept == Spec => NeverRedeployed
<1>1. IInv /\ [Next]_vars =>
        [ \/ db' = EmptyDb
          \/ \A n \in DOMAIN db.named : n \in DOMAIN db'.named /\ db'.named[n] = db.named[n] ]_vars
  BY NamesKept DEF Kept
<1> QED
  BY <1>1, DeploymentInvariant, PTL DEF Spec, NeverRedeployed

-----------------------------------------------------------------------------
(* The addresses of deployments, also after transactions were lost.        *)

\* A nonce that is free again stands for an address that nothing else is at.
LostInv(c, txs, nonces) ==
    \A k \in DOMAIN nonces : nonces[k] # NoAddr =>
       /\ nonces[k] <= c.deploys /\ ~HasCode(c, nonces[k])
       /\ \A j \in DOMAIN txs : txs[j].op = "deploy" => txs[j].on # nonces[k]
       /\ \A j \in DOMAIN nonces : nonces[j] = nonces[k] => j = k

Fresh(c, txs, nonces) == FreshInv(c, txs) /\ LostInv(c, txs, nonces)

\* A transaction more, of any kind, at the end.
LEMMA AppendAny ==
    ASSUME NEW txs \in Seq(Txs), NEW tx
    PROVE  /\ Len(txs) \in Nat /\ DOMAIN txs = 1..Len(txs) /\ DOMAIN Append(txs, tx) = 1..(Len(txs) + 1)
           /\ \A k \in DOMAIN txs : Append(txs, tx)[k] = txs[k]
           /\ Append(txs, tx)[Len(txs) + 1] = tx
OBVIOUS

\* The nonces that are left.
LEMMA NoncesLeft ==
    ASSUME NEW nonces \in Seq(Nat), nonces # <<>>
    PROVE  /\ Head(nonces) = nonces[1] /\ 1 \in DOMAIN nonces /\ Tail(nonces) \in Seq(Nat)
           /\ \A k \in DOMAIN Tail(nonces) : Tail(nonces)[k] = nonces[k + 1] /\ k + 1 \in DOMAIN nonces /\ k + 1 # 1
                                             /\ k \in Nat
OBVIOUS

LEMMA LostTail ==
    ASSUME NEW c, NEW txs, NEW nonces \in Seq(Nat), LostInv(c, txs, nonces)
    PROVE  LostInv(c, txs, IF nonces = <<>> THEN <<>> ELSE Tail(nonces))
<1>1. CASE nonces = <<>>
  BY <1>1
<1>2. CASE nonces # <<>>
  <2>1. \A k \in DOMAIN Tail(nonces) :
           Tail(nonces)[k] = nonces[k + 1] /\ k + 1 \in DOMAIN nonces /\ k \in Nat
    BY <1>2, NoncesLeft
  <2>2. LostInv(c, txs, Tail(nonces))
    BY <2>1 DEF LostInv
  <2> QED
    BY <1>2, <2>2
<1> QED
  BY <1>1, <1>2

\* A transaction that deploys nothing takes at most a nonce.
LEMMA SubmitFresh ==
    ASSUME TypesInv, Fresh(chain, mempool, lost), NEW tx, tx.op # "deploy", NEW p, NEW phase, Submit(tx, p, phase)
    PROVE  Fresh(chain, mempool', lost')
<1>1. mempool \in Seq(Txs) /\ lost \in Seq(Nat)
  BY DEF TypesInv, MempoolOK
<1>2. mempool' = Append(mempool, tx) /\ lost' = IF lost = <<>> THEN <<>> ELSE Tail(lost)
  BY DEF Submit
<1>3. \A k \in DOMAIN mempool' : mempool'[k].op = "deploy" => k \in DOMAIN mempool /\ mempool'[k] = mempool[k]
  BY <1>1, <1>2, AppendAny
<1>4. FreshInv(chain, mempool') /\ LostInv(chain, mempool', lost)
  BY <1>3 DEF Fresh, FreshInv, LostInv
<1> QED
  BY <1>1, <1>2, <1>4, LostTail DEF Fresh

\* A deployment goes to an address of its own: the next one, or one whose nonce is free again.
LEMMA DeployFresh ==
    ASSUME TypesInv, Fresh(chain, mempool, lost), DeploySend
    PROVE  Fresh(chain', mempool', lost')
<1> DEFINE addr == NextAddress
           tx == NewTx("deploy", Cur.name, addr, Resolve(AC))
<1>1. /\ mempool' = Append(mempool, tx) /\ lost' = (IF lost = <<>> THEN <<>> ELSE Tail(lost))
      /\ chain' = [chain EXCEPT !.deploys = IF addr > @ THEN addr ELSE @]
  BY DEF DeploySend, Submit
<1>2. mempool \in Seq(Txs) /\ lost \in Seq(Nat) /\ ChainOK(chain) /\ chain.deploys \in Nat
  BY DEF TypesInv, MempoolOK, ChainOK
<1>3. tx.op = "deploy" /\ tx.on = addr
  BY DEF NewTx, Tx
<1>4. /\ addr \in Nat /\ ~HasCode(chain, addr) /\ addr # NoAddr
      /\ \A j \in DOMAIN mempool : mempool[j].op = "deploy" => mempool[j].on # addr
      /\ \A k \in DOMAIN lost' : lost'[k] # addr
  <2>1. CASE lost # <<>> /\ Head(lost) # NoAddr
    <3>1. addr = lost[1] /\ 1 \in DOMAIN lost
      BY <1>2, <2>1, NoncesLeft DEF NextAddress
    <3>2. lost' = Tail(lost)
      BY <1>1, <2>1
    <3>3. \A k \in DOMAIN lost' : lost'[k] = lost[k + 1] /\ k + 1 \in DOMAIN lost /\ k + 1 # 1
      BY <1>2, <2>1, <3>2, NoncesLeft
    <3>4. addr # NoAddr /\ addr \in Nat
      BY <1>2, <2>1 DEF NextAddress
    <3> QED
      BY <3>1, <3>3, <3>4 DEF Fresh, LostInv
  <2>2. CASE ~(lost # <<>> /\ Head(lost) # NoAddr)
    <3>1. addr = chain.deploys + 1
      BY <2>2 DEF NextAddress
    <3>2. \A k \in DOMAIN lost' : lost'[k] \in Nat /\ (lost'[k] # NoAddr => lost'[k] <= chain.deploys)
      <4>1. LostInv(chain, mempool, lost')
        BY <1>1, <1>2, LostTail DEF Fresh
      <4>2. lost' \in Seq(Nat)
        BY <1>1, <1>2
      <4> QED
        BY <4>1, <4>2 DEF LostInv
    <3>3. addr # NoAddr /\ addr \in Nat
      BY <1>2, <3>1, NoAddrIsZero
    <3>4. \A j \in DOMAIN mempool : mempool[j].op = "deploy" => mempool[j].on \in Int /\ mempool[j].on <= chain.deploys
      <4>1. \A j \in DOMAIN mempool : mempool[j] \in Txs
        BY <1>2
      <4> QED
        BY <4>1 DEF Fresh, FreshInv, Txs
    <3> QED
      BY <1>2, <3>1, <3>2, <3>3, <3>4 DEF Fresh, FreshInv, HasCode
  <2> QED
    BY <2>1, <2>2
<1> HIDE DEF addr, tx
<1>5. /\ chain'.code = chain.code /\ chain'.deploys \in Nat
      /\ chain'.deploys >= chain.deploys /\ addr <= chain'.deploys
  BY <1>1, <1>2, <1>4 DEF ChainOK
<1>6. \A k \in DOMAIN mempool' : \/ k \in DOMAIN mempool /\ mempool'[k] = mempool[k]
                                 \/ k = Len(mempool) + 1 /\ mempool'[k] = tx
  BY <1>1, <1>2, AppendAny
<1>7. FreshInv(chain', mempool')
  <2>1. \A a \in DOMAIN chain'.code : a <= chain'.deploys
    BY <1>2, <1>5 DEF Fresh, FreshInv, ChainOK, Addresses
  <2>2. \A k \in DOMAIN mempool' : mempool'[k].op = "deploy" =>
           mempool'[k].on <= chain'.deploys /\ ~HasCode(chain', mempool'[k].on)
    <3>1. \A k \in DOMAIN mempool : mempool[k].on \in Int
      <4>1. \A k \in DOMAIN mempool : mempool[k] \in Txs
        BY <1>2
      <4> QED
        BY <4>1 DEF Txs
    <3> QED
      BY <1>2, <1>3, <1>4, <1>5, <1>6, <3>1 DEF Fresh, FreshInv, HasCode
  <2>3. \A k, j \in DOMAIN mempool' :
           mempool'[k].op = "deploy" /\ mempool'[j].op = "deploy" /\ mempool'[j].on = mempool'[k].on => j = k
    BY <1>3, <1>4, <1>6 DEF Fresh, FreshInv
  <2> QED
    BY <2>1, <2>2, <2>3 DEF FreshInv
<1>8. LostInv(chain', mempool', lost')
  <2>1. LostInv(chain, mempool, lost') /\ lost' \in Seq(Nat)
    BY <1>1, <1>2, LostTail DEF Fresh
  <2>2. ASSUME NEW k \in DOMAIN lost', lost'[k] # NoAddr
        PROVE  /\ lost'[k] <= chain'.deploys /\ ~HasCode(chain', lost'[k])
               /\ \A j \in DOMAIN mempool' : mempool'[j].op = "deploy" => mempool'[j].on # lost'[k]
               /\ \A j \in DOMAIN lost' : lost'[j] = lost'[k] => j = k
    <3>1. /\ lost'[k] <= chain.deploys /\ ~HasCode(chain, lost'[k]) /\ lost'[k] \in Nat
          /\ \A j \in DOMAIN mempool : mempool[j].op = "deploy" => mempool[j].on # lost'[k]
          /\ \A j \in DOMAIN lost' : lost'[j] = lost'[k] => j = k
      BY <2>1, <2>2 DEF LostInv
    <3>2. lost'[k] <= chain'.deploys /\ ~HasCode(chain', lost'[k])
      BY <1>2, <1>5, <3>1 DEF HasCode
    <3>3. \A j \in DOMAIN mempool' : mempool'[j].op = "deploy" => mempool'[j].on # lost'[k]
      BY <1>3, <1>4, <1>6, <2>2, <3>1
    <3> QED
      BY <3>1, <3>2, <3>3
  <2> QED
    BY <2>2 DEF LostInv
<1> QED
  BY <1>7, <1>8 DEF Fresh

\* What is mined was at an address of its own.
LEMMA MineFresh == ASSUME TypesInv, Fresh(chain, mempool, lost), Mine PROVE Fresh(chain', mempool', lost')
<1> DEFINE tx == Head(mempool)
           T == Tail(mempool)
<1>1. /\ mempool # <<>> /\ mempool' = T /\ lost' = lost
      /\ chain' = IF Accepts(chain, tx) THEN Apply(chain, tx) ELSE chain
  BY DEF Mine
<1>2. /\ ChainOK(chain) /\ mempool \in Seq(Txs) /\ lost \in Seq(Nat)
      /\ \A k \in DOMAIN mempool : mempool[k].op = "deploy" => mempool[k].on > 0
  BY DEF TypesInv, MempoolOK
<1>3. /\ tx \in Txs /\ tx = mempool[1] /\ 1 \in DOMAIN mempool /\ T \in Seq(Txs)
      /\ \A k \in DOMAIN T : k + 1 \in DOMAIN mempool /\ T[k] = mempool[k + 1] /\ k \in Nat /\ k + 1 # 1
  BY <1>1, <1>2, HeadTail
<1> HIDE DEF tx, T
<1>4. tx.op = "deploy" => tx.on > 0
  BY <1>2, <1>3
<1>5. Mined(chain, tx, chain')
  BY <1>1, <1>2, <1>3, <1>4, MinedStep
<1>6. chain'.deploys = chain.deploys /\ chain.deploys \in Nat
  BY <1>2, <1>5 DEF Mined, ChainOK
<1>7. \A a \in DOMAIN chain'.code : a \in DOMAIN chain.code \/ (tx.op = "deploy" /\ a = tx.on) \/ a < 0
  BY <1>5 DEF Mined
<1>8. FreshInv(chain', T)
  <2>1. \A a \in DOMAIN chain'.code : a <= chain'.deploys
    <3>1. \A a \in DOMAIN chain'.code : a \in Int
      BY <1>5 DEF Mined, ChainOK, Addresses
    <3> QED
      BY <1>3, <1>6, <1>7, <3>1 DEF Fresh, FreshInv
  <2>2. ASSUME NEW k \in DOMAIN T, T[k].op = "deploy"
        PROVE  /\ T[k].on <= chain'.deploys /\ ~HasCode(chain', T[k].on)
               /\ \A j \in DOMAIN T : T[j].op = "deploy" /\ T[j].on = T[k].on => j = k
    <3>1. k + 1 \in DOMAIN mempool /\ T[k] = mempool[k + 1] /\ k \in Nat /\ k + 1 # 1
      BY <1>3
    <3>2. T[k].on <= chain'.deploys /\ ~HasCode(chain, T[k].on) /\ T[k].on > 0
      BY <1>2, <1>6, <2>2, <3>1 DEF Fresh, FreshInv
    <3>3. tx.op = "deploy" => tx.on # T[k].on
      <4>1. mempool[1].op = "deploy" /\ mempool[1].on = mempool[k + 1].on => k + 1 = 1
        BY <1>3, <2>2, <3>1 DEF Fresh, FreshInv
      <4> QED
        BY <1>3, <3>1, <4>1
    <3>4. T[k].on \in Int
      <4>1. T[k] \in Txs
        BY <1>3
      <4> QED
        BY <4>1 DEF Txs
    <3>5. ~HasCode(chain', T[k].on)
      BY <1>7, <3>2, <3>3, <3>4 DEF HasCode
    <3>6. \A j \in DOMAIN T : T[j].op = "deploy" /\ T[j].on = T[k].on => j = k
      BY <1>3, <2>2, <3>1 DEF Fresh, FreshInv
    <3> QED
      BY <3>2, <3>5, <3>6
  <2> QED
    BY <2>1, <2>2 DEF FreshInv
<1>9. LostInv(chain', T, lost)
  <2> SUFFICES ASSUME NEW k \in DOMAIN lost, lost[k] # NoAddr
               PROVE  /\ lost[k] <= chain'.deploys /\ ~HasCode(chain', lost[k])
                      /\ \A j \in DOMAIN T : T[j].op = "deploy" => T[j].on # lost[k]
                      /\ \A j \in DOMAIN lost : lost[j] = lost[k] => j = k
    BY DEF LostInv
  <2>1. lost[k] \in Nat
    BY <1>2
  <2>2. tx.op = "deploy" => tx.on # lost[k]
    BY <1>3 DEF Fresh, LostInv
  <2>3. ~HasCode(chain', lost[k])
    BY <1>7, <2>1, <2>2 DEF Fresh, LostInv, HasCode
  <2> QED
    BY <1>3, <1>6, <2>3 DEF Fresh, LostInv
<1> QED
  BY <1>1, <1>8, <1>9 DEF Fresh

\* The nonces of what was lost are free again, each for its own address.
LEMMA DropFresh == ASSUME TypesInv, Fresh(chain, mempool, lost), Drop PROVE Fresh(chain', mempool', lost')
<1> DEFINE A == AddressesOf(mempool)
           n == Len(mempool)
<1>1. /\ mempool' = <<>> /\ chain' = chain
      /\ lost' = <<>> \/ lost' = A \o lost
  BY DEF Drop, Reusable
<1>2. mempool \in Seq(Txs) /\ lost \in Seq(Nat) /\ n \in Nat /\ DOMAIN mempool = 1..n
  BY DEF TypesInv, MempoolOK
<1>3. \A k \in 1..n : mempool[k] \in Txs /\ A[k] = IF mempool[k].op = "deploy" THEN mempool[k].on ELSE NoAddr
  BY <1>2 DEF AddressesOf
<1>4. A \in Seq(Int) /\ Len(A) = n /\ lost \in Seq(Int)
  <2>1. A = [i \in 1..n |-> IF mempool[i].op = "deploy" THEN mempool[i].on ELSE NoAddr]
    BY <1>2 DEF AddressesOf
  <2>2. \A i \in 1..n : A[i] \in Int
    BY <1>3, NoAddrIsZero DEF Txs
  <2> HIDE DEF A
  <2> QED
    BY <1>2, <2>1, <2>2
<1> HIDE DEF A, n
<1>5. \A k \in DOMAIN (A \o lost) :
         \/ k \in 1..n /\ (A \o lost)[k] = A[k]
         \/ k > n /\ k - n \in DOMAIN lost /\ (A \o lost)[k] = lost[k - n] /\ k \in Nat
  BY <1>2, <1>4
<1>6. \A k \in 1..n : A[k] # NoAddr =>
         /\ mempool[k].op = "deploy" /\ A[k] = mempool[k].on /\ k \in DOMAIN mempool
         /\ A[k] <= chain.deploys /\ ~HasCode(chain, A[k])
  BY <1>2, <1>3 DEF Fresh, FreshInv
<1>7. \A k, j \in 1..n : A[k] # NoAddr /\ A[j] = A[k] => j = k
  BY <1>6 DEF Fresh, FreshInv
<1>8. \A k \in 1..n : \A j \in DOMAIN lost : A[k] # NoAddr => lost[j] # A[k]
  BY <1>6 DEF Fresh, LostInv
<1>9. \A k \in DOMAIN lost : lost[k] # NoAddr =>
         /\ lost[k] <= chain.deploys /\ ~HasCode(chain, lost[k])
         /\ \A j \in DOMAIN lost : lost[j] = lost[k] => j = k
  BY DEF Fresh, LostInv
<1>10. LostInv(chain, <<>>, A \o lost)
  <2> SUFFICES ASSUME NEW k \in DOMAIN (A \o lost), (A \o lost)[k] # NoAddr
               PROVE  /\ (A \o lost)[k] <= chain.deploys /\ ~HasCode(chain, (A \o lost)[k])
                      /\ \A j \in DOMAIN (A \o lost) : (A \o lost)[j] = (A \o lost)[k] => j = k
    BY DEF LostInv
  <2>1. CASE k \in 1..n /\ (A \o lost)[k] = A[k]
    <3>1. ASSUME NEW j \in DOMAIN (A \o lost), (A \o lost)[j] = (A \o lost)[k] PROVE j = k
      BY <1>5, <1>7, <1>8, <2>1, <3>1
    <3> QED
      BY <1>6, <2>1, <3>1
  <2>2. CASE k > n /\ k - n \in DOMAIN lost /\ (A \o lost)[k] = lost[k - n] /\ k \in Nat
    <3>1. ASSUME NEW j \in DOMAIN (A \o lost), (A \o lost)[j] = (A \o lost)[k] PROVE j = k
      <4>1. CASE j \in 1..n /\ (A \o lost)[j] = A[j]
        BY <1>8, <2>2, <3>1, <4>1
      <4>2. CASE j > n /\ j - n \in DOMAIN lost /\ (A \o lost)[j] = lost[j - n] /\ j \in Nat
        <5>1. j - n = k - n
          BY <1>9, <2>2, <3>1, <4>2
        <5> QED
          BY <1>2, <2>2, <4>2, <5>1
      <4> QED
        BY <1>5, <4>1, <4>2
    <3> QED
      BY <1>9, <2>2, <3>1
  <2> QED
    BY <1>5, <2>1, <2>2
<1>11. FreshInv(chain, <<>>) /\ LostInv(chain, <<>>, <<>>)
  BY DEF Fresh, FreshInv, LostInv
<1> QED
  BY <1>1, <1>10, <1>11 DEF Fresh

\* Whatever happens, no two contracts ever have the same address.
LEMMA NextFresh == TypesInv /\ Fresh(chain, mempool, lost) /\ [Next]_vars => Fresh(chain, mempool, lost)'
<1> SUFFICES ASSUME TypesInv, Fresh(chain, mempool, lost), [Next]_vars PROVE Fresh(chain', mempool', lost')
  OBVIOUS
<1>1. CASE UNCHANGED <<chain, mempool, lost>>
  BY <1>1
<1>2. CASE ProxySend \/ AssignRole \/ SendCall
  <2>1. CASE UNCHANGED <<mempool, lost, chain>>
    BY <2>1
  <2>2. ASSUME NEW tx, tx.op # "deploy", Submit(tx, proc, "waiting"), chain' = chain
        PROVE  Fresh(chain', mempool', lost')
    BY <2>2, SubmitFresh
  <2>3. ASSUME NEW op, op # "deploy", NEW what, NEW on, NEW arg, SendAndWait(NewTx(op, what, on, arg))
        PROVE  Fresh(chain', mempool', lost')
    <3>1. NewTx(op, what, on, arg).op # "deploy"
      BY <2>3 DEF NewTx, Tx
    <3> QED
      BY <2>1, <2>2, <2>3, <3>1 DEF SendAndWait
  <2> QED
    BY <1>2, <2>1, <2>3 DEF ProxySend, AssignRole, SendCall, Step
<1>3. CASE SendCallOnly
  <2> DEFINE tx == Tx("send", Cur.item, Resolve(Cur.on), Resolve(Cur.arg), FALSE)
  <2>1. tx.op # "deploy"
    BY DEF Tx
  <2>2. chain' = chain /\ (UNCHANGED <<mempool, lost>> \/ Submit(tx, Advance(proc), "run"))
    BY <1>3 DEF SendCallOnly
  <2> HIDE DEF tx
  <2> QED
    BY <1>1, <2>1, <2>2, SubmitFresh
<1>4. CASE FinalizeSend
  <2> DEFINE tx == NewTx("send", "renounce", Resolve(AC), NoAddr)
  <2>1. tx.op # "deploy"
    BY DEF NewTx, Tx
  <2>2. chain' = chain /\ (UNCHANGED <<mempool, lost>> \/ Submit(tx, proc, "finalizing"))
    BY <1>4 DEF FinalizeSend
  <2> HIDE DEF tx
  <2> QED
    BY <1>1, <2>1, <2>2, SubmitFresh
<1>5. CASE StartClean
  <2>1. chain' = EmptyChain /\ mempool' = <<>> /\ lost' = <<>>
    BY <1>5 DEF StartClean
  <2>2. FreshInv(EmptyChain, <<>>)
    BY Nothing
  <2> QED
    BY <2>1, <2>2 DEF Fresh, LostInv
<1>6. CASE Crash
  <2>1. chain' = chain /\ lost' = lost /\ mempool' = [i \in DOMAIN mempool |-> [mempool[i] EXCEPT !.awaited = FALSE]]
    BY <1>6 DEF Crash, Orphaned
  <2>2. \A i \in DOMAIN mempool : mempool[i] \in Txs
    BY DEF TypesInv, MempoolOK
  <2>3. /\ DOMAIN mempool' = DOMAIN mempool
        /\ \A i \in DOMAIN mempool : mempool'[i].op = mempool[i].op /\ mempool'[i].on = mempool[i].on
    BY <2>1, <2>2 DEF Txs
  <2> QED
    BY <2>1, <2>3 DEF Fresh, FreshInv, LostInv
<1>7. CASE Seize
  <2>1. PICK a \in DOMAIN chain.code : chain' = WithoutAdmin(chain, a)
    BY <1>7 DEF Seize
  <2>2. chain'.code = chain.code /\ chain'.deploys = chain.deploys /\ mempool' = mempool /\ lost' = lost
    BY <1>7, <2>1 DEF Seize, WithoutAdmin, TypesInv, ChainOK
  <2> QED
    BY <2>2 DEF Fresh, FreshInv, LostInv, HasCode
<1> QED
  BY <1>1, <1>2, <1>3, <1>4, <1>5, <1>6, <1>7, DeployFresh, MineFresh, DropFresh DEF Next, Work, BeginStep,
     DeployFound, DeployRecord, DeployName, ProxyFound, ProxyRecord, ProxyName, LookupDefault, Lookup, ReceiptOk,
     ReceiptReverted, StepsDone, AccessTest, SmokeTest, Summary, Exit, StartIncremental, Abandon, Step, vars

(***************************************************************************)
(* Each contract has its address for itself, and no pending deployment     *)
(* goes to the address of a contract or of another one, in whatever order  *)
(* transactions are sent, lost, and followed by others with their nonces.  *)
(***************************************************************************)
THEOREM AddressesAreFresh == Spec => []FreshInv(chain, mempool)
<1>1. Init => Fresh(chain, mempool, lost)
  BY Nothing DEF Init, Fresh, LostInv
<1>2. IInv => TypesInv
  BY DEF IInv
<1>3. Fresh(chain, mempool, lost) => FreshInv(chain, mempool)
  BY DEF Fresh
<1> QED
  BY <1>1, <1>2, <1>3, NextFresh, DeploymentInvariant, PTL DEF Spec

-----------------------------------------------------------------------------
(* What is reached stays reached.                                          *)

\* What can be taken back: credentials, and addresses that a later call replaces.
Replaceable == {"tempAdmin", "adminRoles", "borrowManager", "distributor"}

(***************************************************************************)
(* An instruction that nothing undoes: a contract, a proxy, a role, or a   *)
(* setting whose argument has its address already.                         *)
(***************************************************************************)
Steady(in) ==
    \/ in.op \in {"deploy", "proxy", "assign"}
    \/ /\ in.op = "send" /\ in.item \notin Replaceable
       /\ \/ Has(db, in.arg)
          \/ \A j \in Instrs : Script[j].op \in {"deploy", "proxy"} => Script[j].name # in.arg

\* An accepted call takes no fact away but these, or the address that a role had before.
LEMMA FactStays ==
    ASSUME NEW c, ChainOK(c), NEW tx \in Txs, tx.op = "send", NEW C, C = Apply(c, tx),
           NEW item, NEW on, NEW arg, Fact(c, item, on, arg), item \notin Replaceable,
           item \in SingletonRoles /\ item = tx.what /\ on = tx.on => arg = tx.arg
    PROVE  Fact(C, item, on, arg)
<1> DEFINE f == <<item, on, arg>>
<1>1. C = ApplySend(c, tx) /\ c = [code |-> c.code, facts |-> c.facts, deploys |-> c.deploys]
  BY DEF Apply, ChainOK
<1>2. f \in c.facts /\ f[1] = item /\ f[2] = on
  BY DEF Fact
<1>3. CASE ~HasCode(c, tx.on)
  BY <1>1, <1>3 DEF ApplySend
<1>4. CASE HasCode(c, tx.on) /\ tx.what \in {"tempAdmin", "renounce"}
  <2>1. f \notin {<<"tempAdmin", tx.on, NoAddr>>, <<"adminRoles", tx.on, NoAddr>>}
    BY DEF Replaceable
  <2>2. \/ C = WithFact(WithoutAdmin(c, tx.on), "tempAdmin", tx.on, NoAddr)
        \/ C = WithoutAdmin(c, tx.on)
    BY <1>1, <1>4 DEF ApplySend, SingletonRoles
  <2> QED
    BY <1>1, <1>2, <2>1, <2>2 DEF WithFact, WithoutAdmin, Fact
<1>5. CASE HasCode(c, tx.on) /\ tx.what = "actuary"
  <2>1. C = WithActuary(c, tx.on, tx.arg)
    BY <1>1, <1>5 DEF ApplySend, SingletonRoles
  <2> QED
    BY <1>1, <1>2, <2>1 DEF WithActuary, Fact
<1>6. CASE HasCode(c, tx.on) /\ tx.what \in SingletonRoles \cup {"borrowManager", "distributor"}
  <2>1. C = [c EXCEPT !.facts = {g \in @ : g[1] # tx.what \/ g[2] # tx.on} \cup {<<tx.what, tx.on, tx.arg>>}]
    BY <1>1, <1>6 DEF ApplySend, SingletonRoles, WithSingle
  <2>2. CASE item = tx.what /\ on = tx.on
    BY <1>1, <1>6, <2>1, <2>2 DEF Fact, Replaceable
  <2>3. CASE item # tx.what \/ on # tx.on
    BY <1>1, <1>2, <2>1, <2>3 DEF Fact
  <2> QED
    BY <2>2, <2>3
<1>7. CASE /\ HasCode(c, tx.on)
           /\ tx.what \notin SingletonRoles \cup {"borrowManager", "distributor", "tempAdmin", "renounce", "actuary"}
  <2>1. C = WithFact(c, tx.what, tx.on, tx.arg)
    BY <1>1, <1>7 DEF ApplySend
  <2> QED
    BY <1>1, <1>2, <2>1 DEF WithFact, Fact
<1> QED
  BY <1>3, <1>4, <1>5, <1>6, <1>7

\* What a step leaves on the chain.
CodeStays == \A a, kind : IsA(chain, a, kind) => IsA(chain', a, kind)

FactsStay ==
    /\ \A item, on, arg : Fact(chain, item, on, arg) /\ item \notin Replaceable \cup SingletonRoles =>
          Fact(chain', item, on, arg)
    /\ \A i \in Instrs : Script[i].op = "assign" =>
          LET role == Script[i].role
              a == Resolve(Script[i].name)
          IN  Fact(chain, role, Resolve(AC), a) => Fact(chain', role, Resolve(AC), a)

\* A transaction that is mined overwrites no contract, and sets a role to the contract it has.
LEMMA MineKeeps == ASSUME IInv, FreshInv(chain, mempool), Mine PROVE FactsStay /\ CodeStays
<1> DEFINE tx == Head(mempool)
           ok == Accepts(chain, tx)
<1>1. mempool # <<>> /\ chain' = IF ok THEN Apply(chain, tx) ELSE chain
  BY DEF Mine
<1>2. /\ ChainOK(chain) /\ mempool \in Seq(Txs)
      /\ \A k \in DOMAIN mempool : mempool[k].op = "deploy" => mempool[k].on > 0
  BY DEF IInv, TypesInv, MempoolOK
<1>3. tx \in Txs /\ tx = mempool[1] /\ 1 \in DOMAIN mempool
  BY <1>1, <1>2, HeadTail
<1> HIDE DEF tx
<1>4. tx.op = "deploy" => tx.on > 0
  BY <1>2, <1>3
<1>5. Mined(chain, tx, chain')
  BY <1>1, <1>2, <1>3, <1>4, MinedStep
<1>6. CodeStays
  <2>1. tx.op = "deploy" => ~HasCode(chain, tx.on)
    BY <1>3 DEF FreshInv
  <2> QED
    BY <1>5, <2>1 DEF CodeStays, IsA, HasCode, Mined, Grown
<1>7. CASE ok /\ tx.op = "send"
  <2>1. ASSUME NEW item, NEW on, NEW arg, Fact(chain, item, on, arg), item \notin Replaceable \cup SingletonRoles
        PROVE  Fact(chain', item, on, arg)
    BY <1>1, <1>2, <1>3, <1>7, <2>1, FactStays
  <2>2. ASSUME NEW i \in Instrs, Script[i].op = "assign",
               Fact(chain, Script[i].role, Resolve(AC), Resolve(Script[i].name))
        PROVE  Fact(chain', Script[i].role, Resolve(AC), Resolve(Script[i].name))
    <3> DEFINE role == Script[i].role
               a == Resolve(Script[i].name)
    <3>1. role \in SingletonRoles /\ role \notin Replaceable
      BY <2>2, InstrTypes DEF SingletonRoles, Replaceable
    <3>2. ASSUME role = tx.what, Resolve(AC) = tx.on PROVE a = tx.arg
      <4>1. tx.arg # NoAddr => Rightly(db, tx.what, tx.arg)
        BY <1>3, <1>7, <3>1, <3>2 DEF IInv, RoleInv
      <4>2. HasCode(chain, tx.on)
        <5>1. <<role, tx.on, a>> \in chain.facts
          BY <2>2, <3>2 DEF Fact
        <5> QED
          BY <5>1 DEF IInv, RoleInv, HasCode
      <4>3. HasCode(chain, tx.arg)
        BY <1>7, <3>1, <3>2, <4>2 DEF Accepts, AcceptsSend, AcceptsSetAddress
      <4>4. tx.arg # NoAddr
        BY <1>2, <4>3 DEF HasCode, ChainOK, Addresses
      <4> QED
        BY <2>2, <3>2, <4>1, <4>4 DEF Rightly, Resolve
    <3> QED
      BY <1>1, <1>2, <1>3, <1>7, <2>2, <3>1, <3>2, FactStays
  <2> QED
    BY <1>6, <2>1, <2>2 DEF FactsStay
<1>8. CASE ~ok \/ tx.op # "send"
  <2>1. CASE ~ok
    BY <1>1, <1>6, <2>1 DEF FactsStay, Fact
  <2>2. CASE ok /\ tx.op \in {"deploy", "proxy"}
    <3>1. chain' = Apply(chain, tx)
      BY <1>1, <2>2
    <3>2. chain'.facts = chain.facts
      BY <1>2, <1>3, <1>4, <2>2, <3>1, Deployed, ProxyCreated
    <3> QED
      BY <1>6, <3>2 DEF FactsStay, Fact
  <2> QED
    BY <1>3, <1>8, <2>1, <2>2 DEF Txs
<1> QED
  BY <1>6, <1>7, <1>8

\* No other step takes anything from the chain either.
LEMMA ChainKeeps ==
    ASSUME IInv, FreshInv(chain, mempool), [Next]_vars, db' # EmptyDb
    PROVE  FactsStay /\ CodeStays
<1>1. CASE Mine
  BY <1>1, MineKeeps
<1>2. CASE chain'.code = chain.code /\ chain'.facts = chain.facts
  BY <1>2 DEF FactsStay, CodeStays, Fact, IsA, HasCode
<1>3. CASE Seize
  <2>1. PICK a \in DOMAIN chain.code : chain' = WithoutAdmin(chain, a)
    BY <1>3 DEF Seize
  <2>2. /\ chain'.code = chain.code
        /\ chain'.facts = chain.facts \ {<<"tempAdmin", a, NoAddr>>, <<"adminRoles", a, NoAddr>>}
    BY <2>1 DEF WithoutAdmin, IInv, TypesInv, ChainOK
  <2>3. \A item, on, arg : Fact(chain, item, on, arg) /\ item \notin Replaceable => Fact(chain', item, on, arg)
    BY <2>2 DEF Fact, Replaceable
  <2>4. \A i \in Instrs : Script[i].op = "assign" => Script[i].role \notin Replaceable
    BY InstrTypes DEF SingletonRoles, Replaceable
  <2> QED
    BY <2>2, <2>3, <2>4 DEF FactsStay, CodeStays, IsA, HasCode
<1>4. CASE DeploySend
  <2>1. chain'.code = chain.code /\ chain'.facts = chain.facts
    BY <1>4 DEF DeploySend, IInv, TypesInv, ChainOK
  <2> QED
    BY <1>2, <2>1
<1> QED
  BY <1>1, <1>2, <1>3, <1>4 DEF Next, Work, BeginStep, DeployFound, DeployRecord, DeployName, ProxyFound, ProxySend,
     ProxyRecord, ProxyName, AssignRole, LookupDefault, Lookup, SendCall, SendCallOnly, ReceiptOk, ReceiptReverted,
     StepsDone, AccessTest, SmokeTest, Summary, FinalizeSend, Exit, StartIncremental, StartClean, Abandon, Crash,
     Drop, Step, SendAndWait, vars

\* What is unchanged of the file: names that it has, and names that nobody gives.
LEMMA NamesStand ==
    ASSUME IInv, [Next]_vars, db' # EmptyDb, NEW n,
           Has(db, n) \/ \A j \in Instrs : Script[j].op \in {"deploy", "proxy"} => Script[j].name # n
    PROVE  AddrOf(db', n) = AddrOf(db, n) /\ (Has(db', n) <=> Has(db, n))
<1>1. Kept(db, db')
  BY NamesKept
<1>2. CASE Has(db, n)
  <2>1. n \in DOMAIN db.named /\ AddrOf(db, n) # NoAddr
    BY <1>2 DEF Has, AddrOf
  <2> QED
    BY <1>1, <2>1 DEF Kept, Has, AddrOf
<1>3. CASE db'.named = db.named
  BY <1>3 DEF Has, AddrOf
<1>4. CASE DeployName \/ ProxyName
  <2>1. FileOK(db) /\ proc \in Processes /\ PlaceInv(proc, db, chain) /\ db' = AddNamed(db, Cur.name, proc.addr)
    BY <1>4 DEF DeployName, ProxyName, IInv, TypesInv
  <2>2. /\ ~Has(db, Cur.name) /\ (proc.addr > 0 \/ proc.addr < 0)
        /\ proc.pc <= Len(Script) /\ Cur.op \in {"deploy", "proxy"}
    BY <1>4, <2>1 DEF DeployName, ProxyName, PlaceInv, InScript, In, Cur
  <2>3. proc.addr \in Addresses /\ proc.pc \in Instrs
    BY <2>1, <2>2, NoAddrIsZero DEF Addresses, Processes, Instrs
  <2>4. \A m : /\ AddrOf(db', m) = (IF m = Cur.name THEN proc.addr ELSE AddrOf(db, m))
               /\ Has(db', m) <=> m = Cur.name \/ Has(db, m)
    BY <2>1, <2>2, <2>3, Naming
  <2>5. ~Has(db, n) => n # Cur.name
    BY <2>2, <2>3 DEF Cur
  <2> QED
    BY <1>2, <2>4, <2>5
<1>5. CASE DeployRecord \/ ProxyRecord
  <2>1. FileOK(db)
    BY DEF IInv, TypesInv
  <2>2. db'.named = db.named
    BY <1>5, <2>1 DEF DeployRecord, ProxyRecord, AddInstance, AddProxy, SetNeedsSync, FileOK
  <2> QED
    BY <1>3, <2>2
<1>6. CASE UNCHANGED db
  BY <1>3, <1>6
<1> QED
  BY <1>4, <1>5, <1>6 DEF Next, Work, BeginStep, DeployFound, DeploySend, ProxyFound, ProxySend, AssignRole,
     LookupDefault, Lookup, SendCall, SendCallOnly, ReceiptOk, ReceiptReverted, StepsDone, AccessTest, SmokeTest,
     Summary, FinalizeSend, Exit, Mine, StartIncremental, StartClean, Abandon, Crash, Drop, Seize, Step, SendAndWait,
     vars

(***************************************************************************)
(* Whatever a deployment has reached, a contract, a proxy, a role or a     *)
(* setting, no later transaction, run or fault undoes, in any script,      *)
(* short of a start from nothing.                                          *)
(***************************************************************************)
THEOREM ReachedIsKept ==
    Spec => [][ \/ db' = EmptyDb
                \/ \A i \in Instrs : Steady(Script[i]) /\ Established(i) => Established(i)' ]_vars
<1>1. ASSUME IInv, FreshInv(chain, mempool), [Next]_vars, db' # EmptyDb, NEW i \in Instrs, Steady(Script[i]), Established(i)
      PROVE  Established(i)'
  <2> DEFINE in == Script[i]
  <2>1. FactsStay /\ CodeStays
    BY <1>1, ChainKeeps
  <2>2. \A n : Has(db, n) => AddrOf(db', n) = AddrOf(db, n) /\ Has(db', n)
    BY <1>1, NamesStand
  <2>3. CASE in.op = "deploy"
    BY <1>1, <2>1, <2>2, <2>3 DEF Steady, Established, CodeStays, IsA, Resolve
  <2>4. CASE in.op = "proxy"
    BY <1>1, <2>2, <2>4 DEF Established
  <2>5. CASE in.op = "assign"
    <3>1. Fact(chain, in.role, Resolve(AC), Resolve(in.name)) /\ Has(db, in.name)
      BY <1>1, <2>5 DEF Established
    <3>2. Fact(chain', in.role, Resolve(AC), Resolve(in.name)) /\ Has(db, AC)
      <4>1. in.role \in SingletonRoles
        BY <2>5, InstrTypes
      <4>2. <<in.role, Resolve(AC), Resolve(in.name)>> \in chain.facts
        BY <3>1 DEF Fact
      <4> QED
        BY <1>1, <2>1, <2>5, <3>1, <4>1, <4>2 DEF FactsStay, IInv, RoleInv
    <3> QED
      BY <2>2, <2>5, <3>1, <3>2 DEF Established, Resolve
  <2>6. CASE in.op = "send"
    <3>1. Fact(chain, in.item, Resolve(in.on), Resolve(in.arg)) /\ Has(db, in.on)
      BY <1>1, <2>6 DEF Established
    <3>2. in.item \notin Replaceable \cup SingletonRoles
      BY <1>1, <2>6, InstrTypes DEF Steady
    <3>3. AddrOf(db', in.arg) = AddrOf(db, in.arg)
      BY <1>1, <2>6, NamesStand DEF Steady
    <3> QED
      BY <2>1, <2>2, <2>6, <3>1, <3>2, <3>3 DEF Established, FactsStay, Resolve
  <2> QED
    BY <1>1, <2>3, <2>4, <2>5, <2>6 DEF Steady
<1>2. IInv /\ FreshInv(chain, mempool) /\ [Next]_vars =>
        [ \/ db' = EmptyDb
          \/ \A i \in Instrs : Steady(Script[i]) /\ Established(i) => Established(i)' ]_vars
  BY <1>1
<1> QED
  BY <1>2, DeploymentInvariant, AddressesAreFresh, PTL DEF Spec
=============================================================================
