-------------------------- MODULE AccessController --------------------------
(***************************************************************************)
(* contracts/access/AccessControllerBase.sol: who holds which role of a    *)
(* market.  A role is a multilet (any number of holders), a singlet (one   *)
(* contract at a time), a protected singlet (set once) or not used yet.    *)
(* The roles of a holder are kept twice: as a mask per address, and as     *)
(* the holder or holders per role.                                         *)
(*                                                                         *)
(* The administrator may have calls made with roles that the caller holds  *)
(* only for their duration.  A batch of such calls is one transaction; it  *)
(* is modelled step by step because the contracts that are called may call *)
(* back.  A failing call reverts the whole batch.                          *)
(***************************************************************************)
EXTENDS SafeOwnable, Sequences, FiniteSets, Naturals

CONSTANTS
    Roles,         \* the bits of a mask
    Multilets,     \* nonSingletons of the constructor
    Singlets,      \* singletons of the constructor
    Protecteds,    \* protecteds of the constructor
    Contracts,     \* contracts other than the controller and its helper
    Helper,        \* the AccessCallHelper, from which batches are called
    Controller,    \* the access controller itself
    Masks,         \* the combinations of roles that are granted or revoked at once
    Limits,        \* the values of limitMultilets
    Batches        \* the batches that an administrator may send

Addresses == Accounts \cup Contracts \cup {Helper}

\* What a call may name: only contracts other than these two are called.
Callees == Addresses \cup {Controller}

ASSUME RolesAssumption ==
    /\ Multilets \subseteq Roles /\ Singlets \subseteq Roles
    /\ Masks \subseteq SUBSET Roles /\ Limits \subseteq Nat
    /\ Multilets \cap Singlets = {} /\ Protecteds \subseteq Singlets
    /\ Accounts \cap Contracts = {} /\ Helper \notin Accounts \cup Contracts
    /\ NoOne \notin Contracts \cup {Helper}

\* A batch is a sequence of calls: see BeginCalls.
ASSUME BatchesAssumption ==
    Batches \subseteq Seq([flags : SUBSET Roles, to : Callees, needs : SUBSET Roles])

VARIABLES
    masks,         \* address -> set of roles
    mode,          \* role -> None, Singlet, Protected or Multilet
    single,        \* role -> the address that is assigned, or NoOne
    multi,         \* role -> set of holders
    singletons,    \* the mask of all roles being singletons
    temp,          \* [admin, expired], the temporary administrator
    call           \* the batch that is being executed

roleVars == <<masks, single, multi>>
acVars == <<own, masks, mode, single, multi, singletons, temp, call>>

NoCall == [phase |-> "idle"]

ACInit ==
    /\ OwnInit
    /\ masks = [a \in Addresses |-> {}]
    /\ mode = [r \in Roles |-> IF r \in Protecteds THEN "Protected"
                               ELSE IF r \in Singlets THEN "Singlet"
                               ELSE IF r \in Multilets THEN "Multilet" ELSE "None"]
    /\ single = [r \in Roles |-> NoOne]
    /\ multi = [r \in Roles |-> {}]
    /\ singletons = Singlets
    /\ temp = [admin |-> NoOne, expired |-> FALSE]
    /\ call = NoCall

Idle == call.phase = "idle"

IsAdmin(a) == a # NoOne /\ (a = owner \/ (a = temp.admin /\ ~temp.expired))

-----------------------------------------------------------------------------
(* Grants and revocations.                                                 *)

\* _revokeRoles, _revokeAllRoles: flags are among the roles of the address.
Revocable(a, flags) == \A r \in flags : single[r] = a => mode[r] # "Protected"

\* A variant that leaves a singlet assigned.
FaultyRevoke(a, flags) ==
    /\ Revocable(a, flags)
    /\ masks' = [masks EXCEPT ![a] = @ \ flags]
    /\ multi' = [r \in Roles |-> IF r \in flags THEN multi[r] \ {a} ELSE multi[r]]
    /\ UNCHANGED single

Revoke(a, flags) ==
    /\ Revocable(a, flags)
    /\ masks' = [masks EXCEPT ![a] = @ \ flags]
    /\ single' = [r \in Roles |-> IF r \in flags /\ single[r] = a THEN NoOne ELSE single[r]]
    /\ multi' = [r \in Roles |-> IF r \in flags /\ single[r] # a THEN multi[r] \ {a} ELSE multi[r]]

\* A variant that revokes the roles of an expired administrator only.
FaultyRevokeTemp ==
    IF temp.admin = NoOne \/ ~temp.expired THEN UNCHANGED roleVars
    ELSE Revoke(temp.admin, masks[temp.admin])

RevokeTemp ==
    IF temp.admin = NoOne THEN UNCHANGED roleVars ELSE Revoke(temp.admin, masks[temp.admin])

SetTemporaryAdmin(by, a) ==
    /\ Idle /\ by = owner
    /\ RevokeTemp
    /\ temp' = [admin |-> a, expired |-> FALSE]
    /\ UNCHANGED <<own, mode, singletons, call>>

\* Anyone may renounce an expired administrator, in a call that is being made too.
RenounceTemporaryAdmin(by) ==
    /\ temp.admin # NoOne
    /\ by = temp.admin \/ temp.expired
    /\ RevokeTemp
    /\ temp' = [admin |-> NoOne, expired |-> FALSE]
    /\ UNCHANGED <<own, mode, singletons, call>>

Expire ==
    /\ Idle /\ temp.admin # NoOne /\ ~temp.expired
    /\ temp' = [temp EXCEPT !.expired = TRUE]
    /\ UNCHANGED <<own, roleVars, mode, singletons, call>>

\* _grantMultiRoles; a role without a mode becomes a multilet
GrantRoles(by, a, flags) ==
    /\ Idle /\ IsAdmin(by)
    /\ LET new == flags \ masks[a]
           added == {r \in new : single[r] # a}
       IN  /\ \A r \in added : mode[r] \in {"None", "Multilet"}
           /\ masks' = [masks EXCEPT ![a] = @ \cup new]
           /\ mode' = [r \in Roles |-> IF r \in added THEN "Multilet" ELSE mode[r]]
           /\ multi' = [r \in Roles |-> IF r \in added THEN multi[r] \cup {a} ELSE multi[r]]
    /\ UNCHANGED <<own, single, singletons, temp, call>>

\* revokeRoles, and revokeAllRoles when all roles are given
RevokeRoles(by, a, flags) ==
    /\ Idle /\ IsAdmin(by)
    /\ Revoke(a, flags \cap masks[a])
    /\ UNCHANGED <<own, mode, singletons, temp, call>>

(***************************************************************************)
(* revokeRolesFromAll takes the roles from their singlet holders and from  *)
(* at most `limit` other holders.  Which ones follows from the order that  *)
(* the sets of holders keep internally and is left open here.              *)
(***************************************************************************)
HoldersOf(flags) == UNION {multi[r] : r \in flags}

RevokeRolesFromAll(by, flags, limit) ==
    /\ Idle /\ IsAdmin(by)
    /\ \A r \in flags : single[r] # NoOne => mode[r] # "Protected"
    /\ \E victims \in SUBSET HoldersOf(flags) :
         /\ \/ Cardinality(victims) = limit
            \/ Cardinality(victims) < limit /\ victims = HoldersOf(flags)
         /\ masks' = [a \in Addresses |->
                        masks[a] \ {r \in flags : a \in victims \/ single[r] = a}]
         /\ multi' = [r \in Roles |-> IF r \in flags THEN multi[r] \ victims ELSE multi[r]]
    /\ single' = [r \in Roles |-> IF r \in flags THEN NoOne ELSE single[r]]
    /\ UNCHANGED <<own, mode, singletons, temp, call>>

\* A variant that does not look whether a protected address is there already.
FaultySetAddress(by, r, a) ==
    /\ Idle /\ IsAdmin(by)
    /\ a \in Contracts \cup {NoOne}
    /\ mode[r] # "Multilet"
    /\ mode' = [mode EXCEPT ![r] = IF @ = "None" THEN "Singlet" ELSE @]
    /\ singletons' = IF mode[r] = "None" THEN singletons \cup {r} ELSE singletons
    /\ masks' = [x \in Addresses |->
                   IF x = a THEN masks[x] \cup {r}
                   ELSE IF x = single[r] THEN masks[x] \ {r} ELSE masks[x]]
    /\ single' = [single EXCEPT ![r] = a]
    /\ UNCHANGED <<own, multi, temp, call>>

SetAddress(by, r, a) ==
    /\ Idle /\ IsAdmin(by)
    /\ a \in Contracts \cup {NoOne}
    /\ mode[r] # "Multilet"
    /\ mode[r] = "Protected" => single[r] = NoOne
    /\ mode' = [mode EXCEPT ![r] = IF @ = "None" THEN "Singlet" ELSE @]
    /\ singletons' = IF mode[r] = "None" THEN singletons \cup {r} ELSE singletons
    /\ masks' = [x \in Addresses |->
                   IF x = a THEN masks[x] \cup {r}
                   ELSE IF x = single[r] THEN masks[x] \ {r} ELSE masks[x]]
    /\ single' = [single EXCEPT ![r] = a]
    /\ UNCHANGED <<own, multi, temp, call>>

SetProtection(by, r, protection) ==
    /\ Idle /\ IsAdmin(by)
    /\ mode[r] # "Multilet"
    /\ mode' = [mode EXCEPT ![r] = IF protection THEN "Protected" ELSE "Singlet"]
    /\ UNCHANGED <<own, roleVars, singletons, temp, call>>

-----------------------------------------------------------------------------
(* Calls with roles.  A batch is a sequence of calls [flags, to, needs]:   *)
(* the roles that are lent, the contract, and the roles that its function  *)
(* demands of the caller.  In a direct call the contract called holds the  *)
(* roles itself, in another one the helper, which makes the call.          *)

State == [masks |-> masks, single |-> single, multi |-> multi, temp |-> temp]

BeginCalls(by, batch, direct) ==
    /\ Idle /\ IsAdmin(by)
    /\ call' = [phase |-> "next", batch |-> batch, at |-> 1, direct |-> direct,
                old |-> {}, saved |-> State]
    /\ UNCHANGED <<own, roleVars, mode, singletons, temp>>

CurCall == call.batch[call.at]

Grantee == IF call.direct THEN CurCall.to ELSE Helper

\* _beforeCallWithRoles
LendRoles ==
    /\ call.phase = "next" /\ call.at <= Len(call.batch)
    /\ CurCall.to \in Contracts
    /\ singletons \cap CurCall.flags = {}
    /\ masks' = [masks EXCEPT ![Grantee] = @ \cup CurCall.flags]
    /\ call' = [call EXCEPT !.phase = "lent", !.old = masks[Grantee]]
    /\ UNCHANGED <<own, single, multi, mode, singletons, temp>>

\* A variant that writes the mask back at the end of the batch only.
FaultyCallReturns ==
    /\ call.phase = "lent"
    /\ CurCall.needs \subseteq masks[Grantee]
    /\ masks' = IF call.at < Len(call.batch) THEN masks ELSE [masks EXCEPT ![Grantee] = call.old]
    /\ call' = [call EXCEPT !.phase = "next", !.at = @ + 1, !.old = {}]
    /\ UNCHANGED <<own, single, multi, mode, singletons, temp>>

\* The call returns; the mask is written back when roles were added to it.
CallReturns ==
    /\ call.phase = "lent"
    /\ CurCall.needs \subseteq masks[Grantee]
    /\ masks' = IF CurCall.flags \subseteq call.old THEN masks
                ELSE [masks EXCEPT ![Grantee] = call.old]
    /\ call' = [call EXCEPT !.phase = "next", !.at = @ + 1, !.old = {}]
    /\ UNCHANGED <<own, single, multi, mode, singletons, temp>>

(***************************************************************************)
(* The whole transaction reverts when a call fails, when it lacks a role,  *)
(* or when it may not be made.                                             *)
(***************************************************************************)
BatchReverts ==
    /\ \/ call.phase = "lent"
       \/ /\ call.phase = "next" /\ call.at <= Len(call.batch)
          /\ CurCall.to \notin Contracts \/ singletons \cap CurCall.flags # {}
    /\ masks' = call.saved.masks /\ single' = call.saved.single
    /\ multi' = call.saved.multi /\ temp' = call.saved.temp
    /\ call' = NoCall
    /\ UNCHANGED <<own, mode, singletons>>

BatchEnds ==
    /\ call.phase = "next" /\ call.at > Len(call.batch)
    /\ call' = NoCall
    /\ UNCHANGED <<own, roleVars, mode, singletons, temp>>

\* What a contract may do that is called: no more than anyone else.
CallBack == call.phase = "lent" /\ RenounceTemporaryAdmin(CurCall.to)

ChangeOwner ==
    /\ Idle /\ OwnNext
    /\ UNCHANGED <<roleVars, mode, singletons, temp, call>>

AdminNext ==
    \E by \in Accounts :
       \/ \E a \in Accounts \cup {NoOne} : SetTemporaryAdmin(by, a)
       \/ Idle /\ RenounceTemporaryAdmin(by)
       \/ \E a \in Accounts \cup Contracts : \E flags \in Masks :
             GrantRoles(by, a, flags) \/ RevokeRoles(by, a, flags)
       \/ \E flags \in Masks : \E limit \in Limits : RevokeRolesFromAll(by, flags, limit)
       \/ \E r \in Roles : \E a \in Contracts \cup {NoOne} : SetAddress(by, r, a)
       \/ \E r \in Roles : \E protection \in BOOLEAN : SetProtection(by, r, protection)
       \/ \E batch \in Batches : \E direct \in BOOLEAN : BeginCalls(by, batch, direct)

CallNext == LendRoles \/ CallReturns \/ BatchReverts \/ BatchEnds \/ CallBack

ACNext == ChangeOwner \/ Expire \/ AdminNext \/ CallNext

ACSpec == ACInit /\ [][ACNext]_acVars
=============================================================================
