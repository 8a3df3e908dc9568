------------------------------ MODULE DeployDb ------------------------------
(***************************************************************************)
(* helpers/deploy-db.ts: the JSON file in which the deployment tools keep  *)
(* what they deployed on a network.  It is the only state of the tools     *)
(* that survives their process.  A database is a record of four partial    *)
(* functions, one for each section of the file:                            *)
(*                                                                         *)
(*   named     contract name -> [address, count]                           *)
(*   instance  address -> entry, contracts deployed by the tools           *)
(*   external  address -> entry, proxies created by the proxy catalog      *)
(*   verified  address -> whether the explorer accepted the source         *)
(*                                                                         *)
(* The operators return the file as it is after the write.  verify.args    *)
(* is present for every contract the tools deploy and is left out.         *)
(***************************************************************************)
EXTENDS Naturals, FiniteSets

CONSTANT NoAddr    \* the value of an address that is undefined or zero

(***************************************************************************)
(* The write of one key of a section: db.set(path, value).write().         *)
(***************************************************************************)
Put(section, key, value) ==
    [k \in DOMAIN section \cup {key} |-> IF k = key THEN value ELSE section[k]]

\* DbInstanceEntry; impl is verify.impl, which only a proxy has.
Entry(id, factory, impl) ==
    [id |-> id, factory |-> factory, impl |-> impl, needsSync |-> FALSE]

\* cleanupJsonDb
EmptyDb == [named |-> <<>>, instance |-> <<>>, external |-> <<>>, verified |-> <<>>]

(***************************************************************************)
(* addContractAddrToJsonDb writes the instance first and the name after    *)
(* it: two writes of the file, between which the process may stop.         *)
(***************************************************************************)
AddInstance(db, id, addr) ==
    [db EXCEPT !.instance = Put(@, addr, Entry(id, id, NoAddr))]

NextCount(db, id) == IF id \in DOMAIN db.named THEN db.named[id].count + 1 ELSE 1

AddNamed(db, id, addr) ==
    [db EXCEPT !.named = Put(@, id, [address |-> addr, count |-> NextCount(db, id)])]

\* addProxyToJsonDb
AddProxy(db, id, addr, impl, factory) ==
    [db EXCEPT !.external = Put(@, addr, Entry(id, factory, impl))]

\* setExternalNeedsSync; the code throws when the address is not listed.
SetNeedsSync(db, addr, needed) ==
    [db EXCEPT !.external[addr].needsSync = needed]

NeedsSync(db, addr) == db.external[addr].needsSync

\* setVerifiedToJsonDb and getVerifiedFromJsonDb
SetVerified(db, addr, ok) == [db EXCEPT !.verified = Put(@, addr, ok)]

IsVerified(db, addr) == addr \in DOMAIN db.verified /\ db.verified[addr]

\* getAddrFromJsonDb
AddrOf(db, id) == IF id \in DOMAIN db.named THEN db.named[id].address ELSE NoAddr

\* hasInJsonDb
Has(db, id) == AddrOf(db, id) # NoAddr

(***************************************************************************)
(* printContracts: names with more than one deployment, the map of the     *)
(* other names, and the number of entries of both address sections.        *)
(***************************************************************************)
MultiNames(db) == {n \in DOMAIN db.named : db.named[n].count > 1}

SingleNames(db) == DOMAIN db.named \ MultiNames(db)

TotalCount(db) == Cardinality(DOMAIN db.instance) + Cardinality(DOMAIN db.external)

(***************************************************************************)
(* The warnings of the contract summary that deploy-full prints.           *)
(***************************************************************************)
HasWarnings(db) ==
    \/ MultiNames(db) # {}
    \/ Cardinality(SingleNames(db)) # TotalCount(db)
=============================================================================
