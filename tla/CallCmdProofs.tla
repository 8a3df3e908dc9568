---------------------------- MODULE CallCmdProofs ----------------------------
(***************************************************************************)
(* Proofs about the access controller and about the call commands together *)
(* with it, for every set of accounts, contracts and roles, every          *)
(* configuration of the constructor, all batches, files and lines: the     *)
(* controller keeps its promises, the commands that are written are those  *)
(* that are called, and the controller keeps its invariant whatever lines  *)
(* are sent to it.                                                         *)
(***************************************************************************)
EXTENDS CallCmd, AccessControllerProperties, FoldLemmas


Calls == [flags : SUBSET Roles, to : Callees, needs : SUBSET Roles]

Saved ==
    [masks : [Addresses -> SUBSET Roles], single : [Roles -> Contracts \cup {NoOne}],
     multi : [Roles -> SUBSET Addresses], temp : [admin : Accounts \cup {NoOne}, expired : BOOLEAN]]

Running ==
    [phase : {"next", "lent"}, batch : Seq(Calls), at : Nat \ {0}, direct : BOOLEAN,
     old : SUBSET Roles, saved : Saved]

-----------------------------------------------------------------------------
(* The inductive invariant.                                                *)

\* Roles are kept by kind, in a list of holders s, m.
Apart(s, m) ==
    \A r \in Roles :
       /\ s[r] # NoOne => mode[r] \in {"Singlet", "Protected"}
       /\ m[r] # {} => mode[r] = "Multilet"

\* The helper is never granted anything.
HelperHolds(m) == \E r \in Roles : Helper \in m[r]

\* Masks agree with the holders at every address but those of S.
AgreeBut(S, k, s, m) ==
    \A a \in Addresses \ S : \A r \in Roles : r \in k[a] <=> Holds(a, r, s, m)

(***************************************************************************)
(* While a call is made, the address that was lent roles has those on top  *)
(* of its own, which are kept aside.                                       *)
(***************************************************************************)
MasksInv ==
    /\ call.phase # "lent" => AgreeBut({}, masks, single, multi)
    /\ call.phase = "lent" =>
          /\ CurCall.to \in Contracts /\ call.at <= Len(call.batch)
          /\ AgreeBut({Grantee}, masks, single, multi)
          /\ masks[Grantee] = call.old \cup CurCall.flags
          /\ \A r \in Roles : r \in call.old <=> Holds(Grantee, r, single, multi)

(***************************************************************************)
(* What a revert brings back is sound too, and no other than what there is *)
(* now but for a temporary administrator who has left, and whose roles     *)
(* were no singlets.                                                       *)
(***************************************************************************)
CallInv ==
    \/ call = NoCall
    \/ /\ call \in Running
       /\ call.saved.single = single
       /\ temp.admin = NoOne \/ temp = call.saved.temp
       /\ AgreeBut({}, call.saved.masks, single, call.saved.multi)
       /\ Apart(single, call.saved.multi)
       /\ ~HelperHolds(call.saved.multi)

BooksInv == ACTypeOK /\ Apart(single, multi) /\ ~HelperHolds(multi)

IInv == BooksInv /\ CallInv /\ MasksInv /\ OwnershipHeld

-----------------------------------------------------------------------------
USE AccountsAssumption, RolesAssumption, BatchesAssumption

\* The helper and the accounts are no contracts, and nobody is the zero address.
LEMMA Distinct ==
    /\ Helper \notin Contracts /\ Helper \notin Accounts
    /\ \A a \in Accounts : a \notin Contracts /\ a # NoOne /\ a # Helper
    /\ \A a \in Addresses : a # NoOne
    /\ NoOne \notin Addresses
BY DEF Addresses

LEMMA InitIInv == ACInit => IInv
<1> SUFFICES ASSUME ACInit PROVE IInv
  OBVIOUS
<1>1. OwnTypeOK /\ OwnershipHeld
  BY DEF ACInit, OwnInit, OwnTypeOK, OwnershipHeld
<1>2. ACTypeOK
  BY <1>1 DEF ACInit, ACTypeOK, Modes
<1>3. Apart(single, multi) /\ ~HelperHolds(multi)
  BY DEF ACInit, Apart, HelperHolds
<1>4. call = NoCall /\ call.phase = "idle"
  BY DEF ACInit, NoCall
<1>5. AgreeBut({}, masks, single, multi)
  BY Distinct DEF ACInit, AgreeBut, Holds
<1> QED
  BY <1>1, <1>2, <1>3, <1>4, <1>5 DEF IInv, BooksInv, CallInv, MasksInv

(***************************************************************************)
(* A revocation keeps the books in order, and concerns one address.        *)
(***************************************************************************)
LEMMA RevokeKeepsBooks ==
    ASSUME BooksInv, NEW a \in Addresses, NEW flags \in SUBSET Roles, Revoke(a, flags)
    PROVE  /\ masks' \in [Addresses -> SUBSET Roles]
           /\ single' \in [Roles -> Contracts \cup {NoOne}]
           /\ multi' \in [Roles -> SUBSET Addresses]
           /\ Apart(single', multi') /\ ~HelperHolds(multi')
           /\ \A b \in Addresses \ {a} : masks'[b] = masks[b]
           /\ \A b \in Addresses \ {a} : \A r \in Roles :
                 Holds(b, r, single', multi') <=> Holds(b, r, single, multi)
           /\ masks'[a] = masks[a] \ flags
           /\ \A r \in Roles :
                 Holds(a, r, single', multi') <=> Holds(a, r, single, multi) /\ r \notin flags
<1> USE DEF BooksInv, ACTypeOK
<1>1. /\ masks' = [masks EXCEPT ![a] = @ \ flags]
      /\ single' = [r \in Roles |-> IF r \in flags /\ single[r] = a THEN NoOne ELSE single[r]]
      /\ multi' = [r \in Roles |-> IF r \in flags /\ single[r] # a THEN multi[r] \ {a} ELSE multi[r]]
  BY DEF Revoke
<1>2. masks' \in [Addresses -> SUBSET Roles] /\ masks'[a] = masks[a] \ flags
  BY <1>1
<1>3. single' \in [Roles -> Contracts \cup {NoOne}]
  BY <1>1
<1>4. multi' \in [Roles -> SUBSET Addresses]
  BY <1>1
<1>5. Apart(single', multi')
  BY <1>1 DEF Apart
<1>6. ~HelperHolds(multi')
  BY <1>1 DEF HelperHolds
<1>7. \A b \in Addresses \ {a} : masks'[b] = masks[b]
  BY <1>1
<1>8. ASSUME NEW b \in Addresses \ {a}, NEW r \in Roles
      PROVE  Holds(b, r, single', multi') <=> Holds(b, r, single, multi)
  BY <1>1, Distinct DEF Holds
<1>9. ASSUME NEW r \in Roles
      PROVE  Holds(a, r, single', multi') <=> Holds(a, r, single, multi) /\ r \notin flags
  BY <1>1, Distinct DEF Holds, Apart
<1> QED
  BY <1>2, <1>3, <1>4, <1>5, <1>6, <1>7, <1>8, <1>9

LEMMA RevokeKeepsAgreement ==
    ASSUME BooksInv, NEW a \in Addresses, NEW flags \in SUBSET Roles, Revoke(a, flags),
           NEW S \in SUBSET Addresses, AgreeBut(S, masks, single, multi)
    PROVE  AgreeBut(S, masks', single', multi')
<1> SUFFICES ASSUME NEW b \in Addresses \ S, NEW r \in Roles
             PROVE  r \in masks'[b] <=> Holds(b, r, single', multi')
  BY DEF AgreeBut
<1>1. r \in masks[b] <=> Holds(b, r, single, multi)
  BY DEF AgreeBut
<1>2. CASE b = a
  BY <1>1, <1>2, RevokeKeepsBooks
<1>3. CASE b # a
  BY <1>1, <1>3, RevokeKeepsBooks
<1> QED
  BY <1>2, <1>3

(***************************************************************************)
(* The roles of a temporary administrator, who is no contract, are no      *)
(* singlets: no assigned address changes when they are taken.              *)
(***************************************************************************)
LEMMA RevokeTempKeepsBooks ==
    ASSUME BooksInv, RevokeTemp
    PROVE  /\ masks' \in [Addresses -> SUBSET Roles]
           /\ multi' \in [Roles -> SUBSET Addresses]
           /\ single' = single
           /\ Apart(single, multi') /\ ~HelperHolds(multi')
           /\ \A b \in Addresses : b # temp.admin =>
                 /\ masks'[b] = masks[b]
                 /\ \A r \in Roles : Holds(b, r, single, multi') <=> Holds(b, r, single, multi)
           /\ temp.admin # NoOne => masks'[temp.admin] = {}
           /\ \A S \in SUBSET Addresses :
                 AgreeBut(S, masks, single, multi) => AgreeBut(S, masks', single, multi')
<1>1. CASE temp.admin = NoOne
  BY <1>1 DEF RevokeTemp, roleVars, BooksInv, ACTypeOK
<1>2. CASE temp.admin # NoOne
  <2> DEFINE a == temp.admin
  <2>1. a \in Accounts /\ a \in Addresses
    BY <1>2 DEF BooksInv, ACTypeOK, Addresses
  <2>2. masks[a] \in SUBSET Roles
    BY <2>1 DEF BooksInv, ACTypeOK
  <2>3. Revoke(a, masks[a])
    BY <1>2 DEF RevokeTemp
  <2>4. single' = single
    <3>1. single' = [r \in Roles |-> IF r \in masks[a] /\ single[r] = a THEN NoOne ELSE single[r]]
      BY <2>3 DEF Revoke
    <3>2. \A r \in Roles : single[r] # a
      BY <2>1, Distinct DEF BooksInv, ACTypeOK
    <3>3. single \in [Roles -> Contracts \cup {NoOne}]
      BY DEF BooksInv, ACTypeOK
    <3> QED
      BY <3>1, <3>2, <3>3
  <2>5. \A S \in SUBSET Addresses :
           AgreeBut(S, masks, single, multi) => AgreeBut(S, masks', single, multi')
    BY <2>1, <2>2, <2>3, <2>4, RevokeKeepsAgreement
  <2>6. masks'[a] = {}
    BY <2>1, <2>2, <2>3, RevokeKeepsBooks
  <2> HIDE DEF a
  <2>7. /\ masks' \in [Addresses -> SUBSET Roles]
        /\ multi' \in [Roles -> SUBSET Addresses]
        /\ Apart(single, multi') /\ ~HelperHolds(multi')
    BY <2>1, <2>2, <2>3, <2>4, RevokeKeepsBooks
  <2>8. \A b \in Addresses \ {a} :
           /\ masks'[b] = masks[b]
           /\ \A r \in Roles : Holds(b, r, single, multi') <=> Holds(b, r, single, multi)
    BY <2>1, <2>2, <2>3, <2>4, RevokeKeepsBooks
  <2> QED
    BY <2>4, <2>5, <2>6, <2>7, <2>8 DEF a
<1> QED
  BY <1>1, <1>2

-----------------------------------------------------------------------------
(* Transactions that find no call under way.                               *)

LEMMA NoCallWhenIdle == CallInv /\ Idle => call = NoCall
BY DEF CallInv, Idle, Running

LEMMA IdleStep ==
    ASSUME IInv, Idle, UNCHANGED call, BooksInv', OwnershipHeld',
           AgreeBut({}, masks', single', multi')
    PROVE  IInv'
<1>1. call = NoCall /\ call' = NoCall /\ call'.phase = "idle"
  BY NoCallWhenIdle DEF IInv, NoCall
<1>2. CallInv'
  BY <1>1 DEF CallInv
<1>3. MasksInv'
  BY <1>1 DEF MasksInv
<1> QED
  BY <1>2, <1>3 DEF IInv

LEMMA IdleAgreement == IInv /\ Idle => AgreeBut({}, masks, single, multi)
BY DEF IInv, MasksInv, Idle

LEMMA OwnStep ==
    ASSUME OwnTypeOK, OwnershipHeld, OwnNext
    PROVE  OwnTypeOK' /\ OwnershipHeld'
<1> SUFFICES ASSUME NEW by \in Accounts,
                    \/ \E new \in Accounts \cup {NoOne} : TransferOwnership(by, new)
                    \/ AcceptOwnershipTransfer(by)
                    \/ RecoverOwnership(by)
             PROVE  OwnTypeOK' /\ OwnershipHeld'
  BY DEF OwnNext
<1>1. ASSUME NEW new \in Accounts \cup {NoOne}, TransferOwnership(by, new)
      PROVE  OwnTypeOK' /\ OwnershipHeld'
  BY <1>1, Distinct DEF TransferOwnership, OwnTypeOK, OwnershipHeld
<1>2. CASE AcceptOwnershipTransfer(by)
  BY <1>2, Distinct DEF AcceptOwnershipTransfer, OwnTypeOK, OwnershipHeld
<1>3. CASE RecoverOwnership(by)
  BY <1>3, Distinct DEF RecoverOwnership, OwnTypeOK, OwnershipHeld
<1> QED
  BY <1>1, <1>2, <1>3

LEMMA ChangeOwnerStep == IInv /\ ChangeOwner => IInv'
<1> SUFFICES ASSUME IInv, ChangeOwner PROVE IInv'
  OBVIOUS
<1>1. OwnTypeOK' /\ OwnershipHeld'
  BY OwnStep DEF ChangeOwner, IInv, BooksInv, ACTypeOK
<1>2. BooksInv'
  BY <1>1 DEF ChangeOwner, IInv, BooksInv, ACTypeOK, roleVars, Apart, HelperHolds, Modes
<1>3. AgreeBut({}, masks', single', multi')
  BY IdleAgreement DEF ChangeOwner, roleVars
<1> QED
  BY <1>1, <1>2, <1>3, IdleStep DEF ChangeOwner

LEMMA ExpireStep == IInv /\ Expire => IInv'
<1> SUFFICES ASSUME IInv, Expire PROVE IInv'
  OBVIOUS
<1>1. temp' \in [admin : Accounts \cup {NoOne}, expired : BOOLEAN]
  BY DEF Expire, IInv, BooksInv, ACTypeOK
<1>2. BooksInv' /\ OwnershipHeld'
  BY <1>1 DEF Expire, IInv, BooksInv, ACTypeOK, OwnTypeOK, OwnershipHeld, roleVars, Apart,
              HelperHolds, Modes
<1>3. AgreeBut({}, masks', single', multi')
  BY IdleAgreement DEF Expire, roleVars
<1> QED
  BY <1>2, <1>3, IdleStep DEF Expire

LEMMA SetTemporaryAdminStep ==
    ASSUME IInv, NEW by \in Accounts, NEW a \in Accounts \cup {NoOne}, SetTemporaryAdmin(by, a)
    PROVE  IInv'
<1>1. BooksInv /\ RevokeTemp /\ Idle
  BY DEF IInv, SetTemporaryAdmin
<1>2. AgreeBut({}, masks', single', multi')
  BY <1>1, IdleAgreement, RevokeTempKeepsBooks
<1>3. BooksInv'
  BY <1>1, RevokeTempKeepsBooks
     DEF SetTemporaryAdmin, BooksInv, ACTypeOK, OwnTypeOK, Apart, HelperHolds, Modes
<1>4. OwnershipHeld'
  BY DEF SetTemporaryAdmin, IInv, OwnershipHeld
<1> QED
  BY <1>1, <1>2, <1>3, <1>4, IdleStep DEF SetTemporaryAdmin

LEMMA GrantRolesStep ==
    ASSUME IInv, NEW by \in Accounts, NEW a \in Accounts \cup Contracts, NEW flags \in Masks,
           GrantRoles(by, a, flags)
    PROVE  IInv'
<1> DEFINE new == flags \ masks[a]
           added == {r \in new : single[r] # a}
<1>1. /\ Idle /\ a \in Addresses /\ a # Helper /\ flags \in SUBSET Roles
      /\ \A r \in added : mode[r] \in {"None", "Multilet"}
      /\ masks' = [masks EXCEPT ![a] = @ \cup new]
      /\ mode' = [r \in Roles |-> IF r \in added THEN "Multilet" ELSE mode[r]]
      /\ multi' = [r \in Roles |-> IF r \in added THEN multi[r] \cup {a} ELSE multi[r]]
      /\ UNCHANGED <<own, single, singletons, temp, call>>
  BY Distinct DEF GrantRoles, Addresses
<1>2. AgreeBut({}, masks, single, multi)
  BY <1>1, IdleAgreement
<1>3. added = new
  BY <1>1, <1>2, Distinct DEF AgreeBut, Holds
<1> HIDE DEF added
<1>4. AgreeBut({}, masks', single', multi')
  <2> SUFFICES ASSUME NEW b \in Addresses, NEW r \in Roles
               PROVE  r \in masks'[b] <=> Holds(b, r, single, multi')
    BY <1>1 DEF AgreeBut
  <2>1. r \in masks[b] <=> Holds(b, r, single, multi)
    BY <1>2 DEF AgreeBut
  <2>2. masks'[b] = IF b = a THEN masks[a] \cup new ELSE masks[b]
    BY <1>1 DEF IInv, BooksInv, ACTypeOK
  <2>3. multi'[r] = IF r \in new THEN multi[r] \cup {a} ELSE multi[r]
    BY <1>1, <1>3
  <2> QED
    BY <1>1, <2>1, <2>2, <2>3 DEF Holds
<1>5. BooksInv'
  <2>1. masks' \in [Addresses -> SUBSET Roles] /\ multi' \in [Roles -> SUBSET Addresses]
    BY <1>1, <1>3 DEF IInv, BooksInv, ACTypeOK
  <2>2. mode' \in [Roles -> Modes]
    BY <1>1 DEF IInv, BooksInv, ACTypeOK, Modes
  <2>3. Apart(single, multi)'
    BY <1>1, <1>3 DEF IInv, BooksInv, ACTypeOK, Apart
  <2>4. ~HelperHolds(multi)'
    BY <1>1 DEF IInv, BooksInv, HelperHolds
  <2> QED
    BY <1>1, <2>1, <2>2, <2>3, <2>4 DEF IInv, BooksInv, ACTypeOK, OwnTypeOK
<1>6. OwnershipHeld'
  BY <1>1 DEF IInv, OwnershipHeld
<1> QED
  BY <1>1, <1>4, <1>5, <1>6, IdleStep

LEMMA RevokeRolesStep ==
    ASSUME IInv, NEW by \in Accounts, NEW a \in Accounts \cup Contracts, NEW flags \in Masks,
           RevokeRoles(by, a, flags)
    PROVE  IInv'
<1>1. /\ BooksInv /\ Idle /\ a \in Addresses /\ flags \cap masks[a] \in SUBSET Roles
      /\ Revoke(a, flags \cap masks[a])
      /\ UNCHANGED <<own, mode, singletons, temp, call>>
  BY DEF IInv, RevokeRoles, Addresses
<1>2. AgreeBut({}, masks', single', multi')
  BY <1>1, IdleAgreement, RevokeKeepsAgreement
<1>3. BooksInv'
  BY <1>1, RevokeKeepsBooks DEF BooksInv, ACTypeOK, OwnTypeOK, Apart, HelperHolds, Modes
<1>4. OwnershipHeld'
  BY <1>1 DEF IInv, OwnershipHeld
<1> QED
  BY <1>1, <1>2, <1>3, <1>4, IdleStep

LEMMA RevokeRolesFromAllStep ==
    ASSUME IInv, NEW by \in Accounts, NEW flags \in Masks, NEW limit \in Limits,
           RevokeRolesFromAll(by, flags, limit)
    PROVE  IInv'
<1> PICK victims \in SUBSET HoldersOf(flags) :
         /\ masks' = [a \in Addresses |->
                        masks[a] \ {r \in flags : a \in victims \/ single[r] = a}]
         /\ multi' = [r \in Roles |-> IF r \in flags THEN multi[r] \ victims ELSE multi[r]]
  BY DEF RevokeRolesFromAll
<1>1. /\ Idle /\ flags \in SUBSET Roles
      /\ single' = [r \in Roles |-> IF r \in flags THEN NoOne ELSE single[r]]
      /\ UNCHANGED <<own, mode, singletons, temp, call>>
  BY DEF RevokeRolesFromAll
<1>2. AgreeBut({}, masks, single, multi)
  BY <1>1, IdleAgreement
<1>3. AgreeBut({}, masks', single', multi')
  <2> SUFFICES ASSUME NEW b \in Addresses, NEW r \in Roles
               PROVE  r \in masks'[b] <=> Holds(b, r, single', multi')
    BY DEF AgreeBut
  <2>1. r \in masks[b] <=> single[r] = b \/ b \in multi[r]
    BY <1>2 DEF AgreeBut, Holds
  <2>2. r \in masks'[b] <=> r \in masks[b] /\ ~(r \in flags /\ (b \in victims \/ single[r] = b))
    OBVIOUS
  <2>3. single'[r] = IF r \in flags THEN NoOne ELSE single[r]
    BY <1>1
  <2>4. multi'[r] = IF r \in flags THEN multi[r] \ victims ELSE multi[r]
    OBVIOUS
  <2>5. single[r] = b => multi[r] = {}
    BY Distinct DEF IInv, BooksInv, Apart
  <2> QED
    BY <2>1, <2>2, <2>3, <2>4, <2>5, Distinct DEF Holds
<1>4. BooksInv'
  <2>1. masks' \in [Addresses -> SUBSET Roles] /\ multi' \in [Roles -> SUBSET Addresses]
    BY DEF IInv, BooksInv, ACTypeOK
  <2>2. single' \in [Roles -> Contracts \cup {NoOne}]
    BY <1>1 DEF IInv, BooksInv, ACTypeOK
  <2>3. Apart(single, multi)'
    BY <1>1 DEF IInv, BooksInv, ACTypeOK, Apart
  <2>4. ~HelperHolds(multi)'
    BY DEF IInv, BooksInv, HelperHolds
  <2> QED
    BY <1>1, <2>1, <2>2, <2>3, <2>4 DEF IInv, BooksInv, ACTypeOK, OwnTypeOK, Modes
<1>5. OwnershipHeld'
  BY <1>1 DEF IInv, OwnershipHeld
<1> QED
  BY <1>1, <1>3, <1>4, <1>5, IdleStep

LEMMA SetAddressStep ==
    ASSUME IInv, NEW by \in Accounts, NEW r \in Roles, NEW a \in Contracts \cup {NoOne},
           SetAddress(by, r, a)
    PROVE  IInv'
<1>1. /\ Idle /\ mode[r] # "Multilet"
      /\ mode' = [mode EXCEPT ![r] = IF @ = "None" THEN "Singlet" ELSE @]
      /\ singletons' = IF mode[r] = "None" THEN singletons \cup {r} ELSE singletons
      /\ masks' = [x \in Addresses |->
                     IF x = a THEN masks[x] \cup {r}
                     ELSE IF x = single[r] THEN masks[x] \ {r} ELSE masks[x]]
      /\ single' = [single EXCEPT ![r] = a]
      /\ UNCHANGED <<own, multi, temp, call>>
  BY DEF SetAddress
<1>2. AgreeBut({}, masks, single, multi) /\ multi[r] = {}
  BY <1>1, IdleAgreement DEF IInv, BooksInv, Apart
<1>3. AgreeBut({}, masks', single', multi')
  <2> SUFFICES ASSUME NEW b \in Addresses, NEW q \in Roles
               PROVE  q \in masks'[b] <=> Holds(b, q, single', multi)
    BY <1>1 DEF AgreeBut
  <2>1. q \in masks[b] <=> Holds(b, q, single, multi)
    BY <1>2 DEF AgreeBut
  <2>2. single'[q] = IF q = r THEN a ELSE single[q]
    BY <1>1 DEF IInv, BooksInv, ACTypeOK
  <2>3. masks'[b] = IF b = a THEN masks[b] \cup {r}
                    ELSE IF b = single[r] THEN masks[b] \ {r} ELSE masks[b]
    BY <1>1
  <2> QED
    BY <1>2, <2>1, <2>2, <2>3 DEF Holds
<1>4. BooksInv'
  <2>1. masks' \in [Addresses -> SUBSET Roles] /\ single' \in [Roles -> Contracts \cup {NoOne}]
    BY <1>1 DEF IInv, BooksInv, ACTypeOK
  <2>2. mode' \in [Roles -> Modes] /\ singletons' \subseteq Roles
    BY <1>1 DEF IInv, BooksInv, ACTypeOK, Modes
  <2>3. Apart(single, multi)'
    BY <1>1, <1>2 DEF IInv, BooksInv, ACTypeOK, Apart, Modes
  <2>4. ~HelperHolds(multi)'
    BY <1>1 DEF IInv, BooksInv, HelperHolds
  <2> QED
    BY <1>1, <2>1, <2>2, <2>3, <2>4 DEF IInv, BooksInv, ACTypeOK, OwnTypeOK
<1>5. OwnershipHeld'
  BY <1>1 DEF IInv, OwnershipHeld
<1> QED
  BY <1>1, <1>3, <1>4, <1>5, IdleStep

LEMMA SetProtectionStep ==
    ASSUME IInv, NEW by \in Accounts, NEW r \in Roles, NEW protection \in BOOLEAN,
           SetProtection(by, r, protection)
    PROVE  IInv'
<1>1. /\ Idle /\ mode[r] # "Multilet"
      /\ mode' = [mode EXCEPT ![r] = IF protection THEN "Protected" ELSE "Singlet"]
      /\ UNCHANGED <<own, roleVars, singletons, temp, call>>
  BY DEF SetProtection
<1>2. AgreeBut({}, masks', single', multi')
  BY <1>1, IdleAgreement DEF roleVars
<1>3. mode' \in [Roles -> Modes]
  BY <1>1 DEF IInv, BooksInv, ACTypeOK, Modes
<1>4. Apart(single, multi)'
  BY <1>1 DEF IInv, BooksInv, ACTypeOK, Apart, roleVars
<1>5. BooksInv'
  BY <1>1, <1>3, <1>4 DEF IInv, BooksInv, ACTypeOK, OwnTypeOK, HelperHolds, roleVars
<1>6. OwnershipHeld'
  BY <1>1 DEF IInv, OwnershipHeld
<1> QED
  BY <1>1, <1>2, <1>5, <1>6, IdleStep

-----------------------------------------------------------------------------
(* Calls with roles, and what may happen in the midst of one.              *)

LEMMA CurrentCall ==
    ASSUME call \in Running, call.at <= Len(call.batch)
    PROVE  CurCall \in Calls
BY DEF Running, CurCall

LEMMA LentIsRunning ==
    ASSUME IInv, call.phase = "lent"
    PROVE  call \in Running /\ CurCall \in Calls /\ Grantee \in Contracts \cup {Helper}
<1>1. call \in Running
  BY DEF IInv, CallInv, NoCall
<1> QED
  BY <1>1, CurrentCall DEF IInv, MasksInv, Grantee

LEMMA RenounceStep ==
    ASSUME IInv, NEW by, RenounceTemporaryAdmin(by)
    PROVE  IInv'
<1>1. /\ BooksInv /\ RevokeTemp /\ temp.admin \in Accounts
      /\ temp' = [admin |-> NoOne, expired |-> FALSE]
      /\ UNCHANGED <<own, mode, singletons, call>>
  BY DEF IInv, BooksInv, ACTypeOK, RenounceTemporaryAdmin
<1>2. BooksInv'
  BY <1>1, RevokeTempKeepsBooks DEF BooksInv, ACTypeOK, OwnTypeOK, Apart, HelperHolds, Modes
<1>3. single' = single
  BY <1>1, RevokeTempKeepsBooks
<1>4. CallInv'
  BY <1>1, <1>3 DEF IInv, CallInv, AgreeBut, Apart, Holds
<1>5. MasksInv'
  <2>1. CASE call.phase # "lent"
    <3>1. AgreeBut({}, masks, single, multi)
      BY <2>1 DEF IInv, MasksInv
    <3>2. AgreeBut({}, masks', single', multi')
      BY <1>1, <1>3, <3>1, RevokeTempKeepsBooks
    <3> QED
      BY <1>1, <2>1, <3>2 DEF MasksInv
  <2>2. CASE call.phase = "lent"
    <3>1. Grantee \in Contracts \cup {Helper} /\ Grantee' = Grantee /\ CurCall' = CurCall
      BY <1>1, <2>2, LentIsRunning DEF Grantee, CurCall
    <3>2. Grantee \in Addresses /\ Grantee # temp.admin /\ {Grantee} \in SUBSET Addresses
      BY <1>1, <3>1, Distinct DEF Addresses
    <3>3. AgreeBut({Grantee}, masks', single', multi')
      BY <1>1, <1>3, <2>2, <3>2, RevokeTempKeepsBooks DEF IInv, MasksInv
    <3>4. /\ masks'[Grantee] = masks[Grantee]
          /\ \A r \in Roles : Holds(Grantee, r, single', multi') <=> Holds(Grantee, r, single, multi)
      BY <1>1, <1>3, <3>2, RevokeTempKeepsBooks
    <3> QED
      BY <1>1, <2>2, <3>1, <3>3, <3>4 DEF IInv, MasksInv
  <2> QED
    BY <2>1, <2>2
<1>6. OwnershipHeld'
  BY <1>1 DEF IInv, OwnershipHeld
<1> QED
  BY <1>2, <1>4, <1>5, <1>6 DEF IInv

LEMMA BeginCallsStep ==
    ASSUME IInv, NEW by \in Accounts, NEW batch \in Seq(Calls), NEW direct \in BOOLEAN,
           BeginCalls(by, batch, direct)
    PROVE  IInv'
<1>1. /\ Idle
      /\ call' = [phase |-> "next", batch |-> batch, at |-> 1, direct |-> direct,
                  old |-> {}, saved |-> State]
      /\ UNCHANGED <<own, masks, single, multi, mode, singletons, temp>>
  BY DEF BeginCalls, roleVars
<1>2. AgreeBut({}, masks, single, multi)
  BY <1>1, IdleAgreement
<1>3. State \in Saved
  BY DEF State, Saved, IInv, BooksInv, ACTypeOK
<1>4. call' \in Running
  BY <1>1, <1>3 DEF Running
<1>5. CallInv'
  <2>1. /\ call'.saved.single = single /\ call'.saved.masks = masks
        /\ call'.saved.multi = multi /\ call'.saved.temp = temp
    BY <1>1 DEF State
  <2> QED
    BY <1>1, <1>2, <1>4, <2>1 DEF CallInv, AgreeBut, Holds, Apart, IInv, BooksInv, HelperHolds
<1>6. MasksInv'
  BY <1>1, <1>2 DEF MasksInv, AgreeBut, Holds
<1>7. BooksInv' /\ OwnershipHeld'
  BY <1>1 DEF IInv, BooksInv, ACTypeOK, OwnTypeOK, OwnershipHeld, Apart, HelperHolds, Modes
<1> QED
  BY <1>5, <1>6, <1>7 DEF IInv

LEMMA LendRolesStep == IInv /\ LendRoles => IInv'
<1> SUFFICES ASSUME IInv, LendRoles PROVE IInv'
  OBVIOUS
<1>1. /\ call.phase = "next" /\ call.at <= Len(call.batch) /\ CurCall.to \in Contracts
      /\ masks' = [masks EXCEPT ![Grantee] = @ \cup CurCall.flags]
      /\ call' = [call EXCEPT !.phase = "lent", !.old = masks[Grantee]]
      /\ UNCHANGED <<own, single, multi, mode, singletons, temp>>
  BY DEF LendRoles
<1>2. call \in Running
  BY <1>1 DEF IInv, CallInv, NoCall
<1>3. CurCall \in Calls /\ Grantee \in Addresses
  BY <1>1, <1>2, CurrentCall DEF Grantee, Addresses
<1>4. AgreeBut({}, masks, single, multi) /\ masks \in [Addresses -> SUBSET Roles]
  BY <1>1 DEF IInv, MasksInv, BooksInv, ACTypeOK
<1>5. /\ call' \in Running /\ call'.phase = "lent" /\ call'.batch = call.batch /\ call'.at = call.at
      /\ call'.direct = call.direct /\ call'.saved = call.saved /\ call'.old = masks[Grantee]
  BY <1>1, <1>2, <1>3, <1>4 DEF Running
<1>6. CurCall' = CurCall /\ Grantee' = Grantee
  BY <1>5 DEF CurCall, Grantee
<1>7. MasksInv'
  <2>1. AgreeBut({Grantee}, masks', single, multi)
    BY <1>1, <1>3, <1>4 DEF AgreeBut
  <2>2. masks'[Grantee] = call'.old \cup CurCall.flags
    BY <1>1, <1>3, <1>4, <1>5
  <2>3. \A r \in Roles : r \in call'.old <=> Holds(Grantee, r, single, multi)
    BY <1>3, <1>4, <1>5 DEF AgreeBut
  <2> QED
    BY <1>1, <1>5, <1>6, <2>1, <2>2, <2>3 DEF MasksInv, AgreeBut, Holds
<1>8. CallInv'
  <2>1. call # NoCall
    BY <1>1 DEF NoCall
  <2> QED
    BY <1>1, <1>5, <2>1 DEF IInv, CallInv, AgreeBut, Holds, Apart, HelperHolds
<1>9. BooksInv' /\ OwnershipHeld'
  <2>1. masks' \in [Addresses -> SUBSET Roles]
    BY <1>1, <1>3, <1>4 DEF Calls
  <2> QED
    BY <1>1, <2>1 DEF IInv, BooksInv, ACTypeOK, OwnTypeOK, OwnershipHeld, Apart, HelperHolds, Modes
<1> QED
  BY <1>7, <1>8, <1>9 DEF IInv

LEMMA CallReturnsStep == IInv /\ CallReturns => IInv'
<1> SUFFICES ASSUME IInv, CallReturns PROVE IInv'
  OBVIOUS
<1>1. /\ call.phase = "lent"
      /\ masks' = IF CurCall.flags \subseteq call.old THEN masks
                  ELSE [masks EXCEPT ![Grantee] = call.old]
      /\ call' = [call EXCEPT !.phase = "next", !.at = @ + 1, !.old = {}]
      /\ UNCHANGED <<own, single, multi, mode, singletons, temp>>
  BY DEF CallReturns
<1>2. call \in Running /\ Grantee \in Addresses
  BY <1>1, LentIsRunning DEF Addresses
<1>3. /\ AgreeBut({Grantee}, masks, single, multi)
      /\ masks[Grantee] = call.old \cup CurCall.flags
      /\ \A r \in Roles : r \in call.old <=> Holds(Grantee, r, single, multi)
      /\ masks \in [Addresses -> SUBSET Roles] /\ call.old \in SUBSET Roles
  BY <1>1, <1>2 DEF IInv, MasksInv, BooksInv, ACTypeOK, Running
<1>4. masks' \in [Addresses -> SUBSET Roles] /\ masks' = [masks EXCEPT ![Grantee] = call.old]
  BY <1>1, <1>2, <1>3
<1>5. AgreeBut({}, masks', single, multi)
  BY <1>2, <1>3, <1>4 DEF AgreeBut
<1>6. call' \in Running /\ call'.phase = "next" /\ call'.saved = call.saved
  <2>1. call.at + 1 \in Nat \ {0} /\ {} \in SUBSET Roles
    BY <1>2 DEF Running
  <2>2. call' = [call EXCEPT !.phase = "next", !.at = call.at + 1, !.old = {}]
    BY <1>1
  <2> QED
    BY <1>2, <2>1, <2>2 DEF Running
<1>7. MasksInv'
  BY <1>1, <1>5, <1>6 DEF MasksInv, AgreeBut, Holds
<1>8. CallInv'
  <2>1. call # NoCall
    BY <1>1 DEF NoCall
  <2> QED
    BY <1>1, <1>6, <2>1 DEF IInv, CallInv, AgreeBut, Holds, Apart, HelperHolds
<1>9. BooksInv' /\ OwnershipHeld'
  BY <1>1, <1>4 DEF IInv, BooksInv, ACTypeOK, OwnTypeOK, OwnershipHeld, Apart, HelperHolds, Modes
<1> QED
  BY <1>7, <1>8, <1>9 DEF IInv

LEMMA BatchRevertsStep == IInv /\ BatchReverts => IInv'
<1> SUFFICES ASSUME IInv, BatchReverts PROVE IInv'
  OBVIOUS
<1>1. /\ call.phase \in {"next", "lent"}
      /\ masks' = call.saved.masks /\ single' = call.saved.single
      /\ multi' = call.saved.multi /\ temp' = call.saved.temp
      /\ call' = NoCall
      /\ UNCHANGED <<own, mode, singletons>>
  BY DEF BatchReverts
<1>2. call # NoCall
  BY <1>1 DEF NoCall
<1>3. /\ call \in Running /\ call.saved.single = single
      /\ AgreeBut({}, call.saved.masks, single, call.saved.multi)
      /\ Apart(single, call.saved.multi) /\ ~HelperHolds(call.saved.multi)
  BY <1>2 DEF IInv, CallInv
<1>4. call.saved \in Saved
  BY <1>3 DEF Running
<1>5. BooksInv'
  BY <1>1, <1>3, <1>4
     DEF Saved, IInv, BooksInv, ACTypeOK, OwnTypeOK, Apart, HelperHolds, Modes
<1>6. OwnershipHeld'
  BY <1>1 DEF IInv, OwnershipHeld
<1>7. CallInv' /\ MasksInv'
  BY <1>1, <1>3 DEF CallInv, MasksInv, NoCall, AgreeBut, Holds
<1> QED
  BY <1>5, <1>6, <1>7 DEF IInv

LEMMA BatchEndsStep == IInv /\ BatchEnds => IInv'
<1> SUFFICES ASSUME IInv, BatchEnds PROVE IInv'
  OBVIOUS
<1>1. /\ call.phase = "next" /\ call' = NoCall
      /\ UNCHANGED <<own, masks, single, multi, mode, singletons, temp>>
  BY DEF BatchEnds, roleVars
<1>2. BooksInv' /\ OwnershipHeld'
  BY <1>1 DEF IInv, BooksInv, ACTypeOK, OwnTypeOK, OwnershipHeld, Apart, HelperHolds, Modes
<1>3. AgreeBut({}, masks, single, multi)
  BY <1>1 DEF IInv, MasksInv
<1>4. CallInv' /\ MasksInv'
  BY <1>1, <1>3 DEF CallInv, MasksInv, NoCall, AgreeBut, Holds
<1> QED
  BY <1>2, <1>4 DEF IInv

-----------------------------------------------------------------------------
(* The invariants.                                                         *)

LEMMA AdminStep == IInv /\ AdminNext => IInv'
<1> SUFFICES ASSUME IInv, NEW by \in Accounts,
                    \/ \E a \in Accounts \cup {NoOne} : SetTemporaryAdmin(by, a)
                    \/ Idle /\ RenounceTemporaryAdmin(by)
                    \/ \E a \in Accounts \cup Contracts : \E flags \in Masks :
                          GrantRoles(by, a, flags) \/ RevokeRoles(by, a, flags)
                    \/ \E flags \in Masks : \E limit \in Limits : RevokeRolesFromAll(by, flags, limit)
                    \/ \E r \in Roles : \E a \in Contracts \cup {NoOne} : SetAddress(by, r, a)
                    \/ \E r \in Roles : \E protection \in BOOLEAN : SetProtection(by, r, protection)
                    \/ \E batch \in Batches : \E direct \in BOOLEAN : BeginCalls(by, batch, direct)
             PROVE  IInv'
  BY DEF AdminNext
<1>1. CASE \E a \in Accounts \cup {NoOne} : SetTemporaryAdmin(by, a)
  BY <1>1, SetTemporaryAdminStep
<1>2. CASE Idle /\ RenounceTemporaryAdmin(by)
  BY <1>2, RenounceStep
<1>3. CASE \E a \in Accounts \cup Contracts : \E flags \in Masks :
              GrantRoles(by, a, flags) \/ RevokeRoles(by, a, flags)
  BY <1>3, GrantRolesStep, RevokeRolesStep
<1>4. CASE \E flags \in Masks : \E limit \in Limits : RevokeRolesFromAll(by, flags, limit)
  BY <1>4, RevokeRolesFromAllStep
<1>5. CASE \E r \in Roles : \E a \in Contracts \cup {NoOne} : SetAddress(by, r, a)
  BY <1>5, SetAddressStep
<1>6. CASE \E r \in Roles : \E protection \in BOOLEAN : SetProtection(by, r, protection)
  BY <1>6, SetProtectionStep
<1>7. CASE \E batch \in Batches : \E direct \in BOOLEAN : BeginCalls(by, batch, direct)
  <2>1. \A batch \in Batches : batch \in Seq(Calls)
    BY DEF Calls, BatchesAssumption
  <2> QED
    BY <1>7, <2>1, BeginCallsStep
<1> QED
  BY <1>1, <1>2, <1>3, <1>4, <1>5, <1>6, <1>7

LEMMA NextIInv == IInv /\ [ACNext]_acVars => IInv'
<1> SUFFICES ASSUME IInv, [ACNext]_acVars PROVE IInv'
  OBVIOUS
<1>1. CASE ChangeOwner
  BY <1>1, ChangeOwnerStep
<1>2. CASE Expire
  BY <1>2, ExpireStep
<1>3. CASE AdminNext
  BY <1>3, AdminStep
<1>4. CASE LendRoles \/ CallReturns \/ BatchReverts \/ BatchEnds
  BY <1>4, LendRolesStep, CallReturnsStep, BatchRevertsStep, BatchEndsStep
<1>5. CASE CallBack
  BY <1>5, RenounceStep DEF CallBack
<1>6. CASE UNCHANGED acVars
  BY <1>6 DEF acVars, IInv, BooksInv, ACTypeOK, OwnTypeOK, OwnershipHeld, Apart, HelperHolds,
              Modes, CallInv, MasksInv, AgreeBut, Holds, Grantee, CurCall
<1> QED
  BY <1>1, <1>2, <1>3, <1>4, <1>5, <1>6 DEF ACNext, CallNext

(***************************************************************************)
(* The strengthening is inductive: the books, the call in progress, the    *)
(* masks and the kind of ownership agree in every reachable state.         *)
(***************************************************************************)
THEOREM Invariance == ACSpec => []IInv
BY InitIInv, NextIInv, PTL DEF ACSpec

(***************************************************************************)
(* Masks, holders, modes and administrators are always of their types.     *)
(***************************************************************************)
THEOREM TypeCorrect == ACSpec => []ACTypeOK
<1>1. IInv => ACTypeOK
  BY DEF IInv, BooksInv
<1> QED
  BY <1>1, Invariance, PTL

(***************************************************************************)
(* Between transactions the mask of every address tells exactly the roles  *)
(* that it holds (AccessControllerBase.sol:136-313), whatever was granted, *)
(* revoked, lent or reverted.                                              *)
(***************************************************************************)
THEOREM HoldersAgree == ACSpec => []HoldersMatchMasks
<1>1. IInv => HoldersMatchMasks
  BY DEF IInv, MasksInv, Idle, HoldersMatchMasks, Agree, AgreeBut
<1> QED
  BY <1>1, Invariance, PTL

(***************************************************************************)
(* The helper has no roles but while it makes a call: nothing that was     *)
(* lent to it for one administrator (:341-359) is left for the next.       *)
(***************************************************************************)
THEOREM HelperIsClean == ACSpec => []HelperKeepsNothing
<1>1. ASSUME IInv, call.phase = "idle" \/ call.phase = "next"
      PROVE  masks[Helper] = {}
  <2>1. AgreeBut({}, masks, single, multi)
    BY <1>1 DEF IInv, MasksInv
  <2>2. masks[Helper] \in SUBSET Roles /\ Helper \in Addresses
    BY <1>1 DEF IInv, BooksInv, ACTypeOK, Addresses
  <2>3. \A r \in Roles : ~Holds(Helper, r, single, multi)
    BY <1>1, Distinct DEF IInv, BooksInv, ACTypeOK, HelperHolds, Holds
  <2> QED
    BY <2>1, <2>2, <2>3 DEF AgreeBut
<1>2. IInv => HelperKeepsNothing
  BY <1>1 DEF HelperKeepsNothing, Idle
<1> QED
  BY <1>2, Invariance, PTL

(***************************************************************************)
(* An assigned address is never also among the holders of a multilet, and  *)
(* every role has holders of one kind only.                                *)
(***************************************************************************)
THEOREM KindsApart == ACSpec => []KindsKeptApart
<1>1. IInv => KindsKeptApart
  BY DEF IInv, BooksInv, Apart, KindsKeptApart
<1> QED
  BY <1>1, Invariance, PTL

(***************************************************************************)
(* The ownership is somebody's, in both steps of a hand-over, until it is  *)
(* renounced and that is confirmed (SafeOwnable.sol:75-118).               *)
(***************************************************************************)
THEOREM OwnershipIsHeld == ACSpec => []OwnershipHeld
<1>1. IInv => OwnershipHeld
  BY DEF IInv
<1> QED
  BY <1>1, Invariance, PTL

-----------------------------------------------------------------------------
(* What a step may never do.                                               *)

\* The only steps that touch the temporary administrator.
LEMMA OfficeStep ==
    ASSUME IInv, [ACNext]_acVars, temp.admin # NoOne, temp'.admin # temp.admin
    PROVE  masks'[temp.admin] = {}
<1>1. BooksInv
  BY DEF IInv
<1>2. CASE BatchReverts
  <2>1. call # NoCall
    BY <1>2 DEF BatchReverts, NoCall
  <2>2. temp = call.saved.temp
    BY <2>1 DEF IInv, CallInv
  <2> QED
    BY <1>2, <2>2 DEF BatchReverts
<1>3. CASE RevokeTemp
  BY <1>1, <1>3, RevokeTempKeepsBooks
<1>4. CASE ChangeOwner \/ Expire
  BY <1>1, <1>4 DEF ChangeOwner, Expire, BooksInv, ACTypeOK
<1>5. CASE AdminNext
  <2>1. temp' = temp \/ RevokeTemp
    BY <1>5 DEF AdminNext, SetTemporaryAdmin, RenounceTemporaryAdmin, GrantRoles, RevokeRoles,
                RevokeRolesFromAll, SetAddress, SetProtection, BeginCalls
  <2> QED
    BY <1>3, <2>1
<1>6. CASE LendRoles \/ CallReturns \/ BatchEnds
  BY <1>6 DEF LendRoles, CallReturns, BatchEnds
<1>7. CASE CallBack
  BY <1>3, <1>7 DEF CallBack, RenounceTemporaryAdmin
<1>8. CASE UNCHANGED acVars
  BY <1>8 DEF acVars
<1> QED
  BY <1>2, <1>4, <1>5, <1>6, <1>7, <1>8 DEF ACNext, CallNext

(***************************************************************************)
(* A temporary administrator whose office ends, by whatever transaction,   *)
(* keeps none of its roles (:98-132).                                      *)
(***************************************************************************)
THEOREM OfficeEndsClean == ACSpec => OfficeLeavesNothing
<1>1. IInv /\ [ACNext]_acVars =>
         [temp.admin # NoOne /\ temp'.admin # temp.admin => masks'[temp.admin] = {}]_acVars
  BY OfficeStep
<1> QED
  BY <1>1, Invariance, PTL DEF ACSpec, OfficeLeavesNothing

LEMMA ProtectedStep ==
    ASSUME IInv, [ACNext]_acVars, NEW r \in Roles, mode[r] = "Protected", single[r] # NoOne
    PROVE  single'[r] = single[r]
<1>1. BooksInv
  BY DEF IInv
<1>2. CASE RevokeTemp
  BY <1>1, <1>2, RevokeTempKeepsBooks
<1>3. CASE BatchReverts
  <2>1. call # NoCall
    BY <1>3 DEF BatchReverts, NoCall
  <2> QED
    BY <1>3, <2>1 DEF BatchReverts, IInv, CallInv
<1>4. CASE AdminNext
  <2> PICK by \in Accounts :
           \/ \E a \in Accounts \cup {NoOne} : SetTemporaryAdmin(by, a)
           \/ Idle /\ RenounceTemporaryAdmin(by)
           \/ \E a \in Accounts \cup Contracts : \E flags \in Masks :
                 GrantRoles(by, a, flags) \/ RevokeRoles(by, a, flags)
           \/ \E flags \in Masks : \E limit \in Limits : RevokeRolesFromAll(by, flags, limit)
           \/ \E q \in Roles : \E a \in Contracts \cup {NoOne} : SetAddress(by, q, a)
           \/ \E q \in Roles : \E protection \in BOOLEAN : SetProtection(by, q, protection)
           \/ \E batch \in Batches : \E direct \in BOOLEAN : BeginCalls(by, batch, direct)
    BY <1>4 DEF AdminNext
  <2>1. CASE \E a \in Accounts \cup {NoOne} : SetTemporaryAdmin(by, a)
    BY <1>2, <2>1 DEF SetTemporaryAdmin
  <2>2. CASE RenounceTemporaryAdmin(by)
    BY <1>2, <2>2 DEF RenounceTemporaryAdmin
  <2>3. ASSUME NEW a \in Accounts \cup Contracts, NEW flags \in Masks,
               GrantRoles(by, a, flags) \/ RevokeRoles(by, a, flags)
        PROVE  single'[r] = single[r]
    BY <2>3 DEF GrantRoles, RevokeRoles, Revoke, Revocable
  <2>4. ASSUME NEW flags \in Masks, NEW limit \in Limits, RevokeRolesFromAll(by, flags, limit)
        PROVE  single'[r] = single[r]
    BY <2>4 DEF RevokeRolesFromAll
  <2>5. ASSUME NEW q \in Roles, NEW a \in Contracts \cup {NoOne}, SetAddress(by, q, a)
        PROVE  single'[r] = single[r]
    BY <1>1, <2>5 DEF SetAddress, BooksInv, ACTypeOK
  <2>6. ASSUME NEW q \in Roles, NEW protection \in BOOLEAN, SetProtection(by, q, protection)
        PROVE  single'[r] = single[r]
    BY <2>6 DEF SetProtection, roleVars
  <2>7. ASSUME NEW batch \in Batches, NEW direct \in BOOLEAN, BeginCalls(by, batch, direct)
        PROVE  single'[r] = single[r]
    BY <2>7 DEF BeginCalls, roleVars
  <2> QED
    BY <2>1, <2>2, <2>3, <2>4, <2>5, <2>6, <2>7
<1>5. CASE ChangeOwner \/ Expire \/ LendRoles \/ CallReturns \/ BatchEnds
  BY <1>5 DEF ChangeOwner, Expire, LendRoles, CallReturns, BatchEnds, roleVars
<1>6. CASE CallBack
  BY <1>2, <1>6 DEF CallBack, RenounceTemporaryAdmin
<1>7. CASE UNCHANGED acVars
  BY <1>7 DEF acVars
<1> QED
  BY <1>3, <1>4, <1>5, <1>6, <1>7 DEF ACNext, CallNext

(***************************************************************************)
(* A protected address stays as it was set until its protection is lifted: *)
(* no revocation, no call and no revert changes it (:200, :238, :304).     *)
(***************************************************************************)
THEOREM ProtectedIsKept == ACSpec => ProtectedStays
<1>1. IInv /\ [ACNext]_acVars =>
         [\A r \in Roles :
             mode[r] = "Protected" /\ single[r] # NoOne => single'[r] = single[r]]_acVars
  BY ProtectedStep
<1> QED
  BY <1>1, Invariance, PTL DEF ACSpec, ProtectedStays

(***************************************************************************)
(* There is no way back from a renounced and confirmed ownership           *)
(* (SafeOwnable.sol:75-118): nobody is then an administrator for longer    *)
(* than the temporary one.                                                 *)
(***************************************************************************)
THEOREM RenouncedForGood == ACSpec => RenouncedIsFinal
<1>1. ASSUME IInv, [ACNext]_acVars, Renounced
      PROVE  UNCHANGED own
  <2>1. OwnTypeOK /\ own.pending = NoOne
    BY <1>1 DEF IInv, BooksInv, ACTypeOK, OwnershipHeld, Renounced
  <2>2. ~OwnNext
    BY <1>1, <2>1, Distinct DEF Renounced, OwnNext, TransferOwnership, AcceptOwnershipTransfer,
                                RecoverOwnership
  <2>3. ~ChangeOwner
    BY <2>2 DEF ChangeOwner
  <2>4. CASE AdminNext
    BY <2>4 DEF AdminNext, SetTemporaryAdmin, RenounceTemporaryAdmin, GrantRoles, RevokeRoles,
                RevokeRolesFromAll, SetAddress, SetProtection, BeginCalls
  <2>5. CASE Expire \/ CallNext
    BY <2>5 DEF Expire, CallNext, LendRoles, CallReturns, BatchReverts, BatchEnds, CallBack,
                RenounceTemporaryAdmin
  <2> QED
    BY <1>1, <2>3, <2>4, <2>5 DEF ACNext, acVars
<1>2. IInv /\ [ACNext]_acVars => [Renounced => UNCHANGED own]_own
  BY <1>1
<1> QED
  BY <1>2, Invariance, PTL DEF ACSpec, RenouncedIsFinal


-----------------------------------------------------------------------------
(* How a line is cut.                                                      *)

All(line) == Append(line, Separator)

Commands(S) == [word : S, args : Seq(S)]

\* What j may point at, which is a token as long as there is one.
Words(line) == {All(line)[k] : k \in 1..(Len(line) + 2)}

Accs(line) == [j : 1..(Len(line) + 2), cmds : Seq(Commands(Words(line)))]

\* The commands that end at t or before.
Upto(line, t) == {g \in Written(line) : g[2] <= t}

Place(line, g) == Cardinality(Upto(line, g[2]))

CommandOf(line, g) ==
    [word |-> All(line)[g[1] + 1], args |-> SubSeq(All(line), g[1] + 2, g[2] - 1)]

\* These are the commands up to t, and none of them is empty.
CutsAre(line, cmds, t) ==
    /\ Len(cmds) = Cardinality(Upto(line, t))
    /\ \A g \in Upto(line, t) :
         /\ g[2] > g[1] + 1 /\ Place(line, g) \in 1..Len(cmds)
         /\ cmds[Place(line, g)] = CommandOf(line, g)

\* A separator that is taken for a word is never lost again.
WordsOnly(cmds) == \A c \in 1..Len(cmds) : cmds[c].word.kind = "word"

\* The first i tokens are cut up to the token before j, behind which there is no
\* separator, or one at j itself.
CutInv(line, acc, i) ==
    WordsOnly(acc.cmds) =>
       LET t == acc.j - 1 IN
         /\ t \in Bounds(All(line)) /\ t <= i
         /\ \A k \in Bounds(All(line)) : k <= t \/ k = t + 1 \/ k > i
         /\ CutsAre(line, acc.cmds, t)

LEMMA LineType ==
    ASSUME NEW line \in Lines
    PROVE  /\ Len(line) \in Nat /\ All(line) \in Seq(ToSet(All(line)))
           /\ Len(All(line)) = Len(line) + 1 /\ DOMAIN All(line) = 1..(Len(line) + 1)
           /\ All(line)[Len(line) + 1] = Separator
           /\ \A k \in 1..Len(line) : All(line)[k] = line[k]
           /\ DOMAIN line = 1..Len(line)
<1>1. line \in Seq(ToSet(line))
  BY CallAssumption
<1> DEFINE S == ToSet(line) \cup {Separator}
<1>2. line \in Seq(S)
  BY <1>1
<1>3. All(line) \in Seq(S)
  BY <1>2 DEF All
<1> HIDE DEF S
<1>4. All(line) \in Seq(ToSet(All(line)))
  BY <1>3 DEF ToSet
<1> QED
  BY <1>2, <1>3, <1>4 DEF All

\* The separators, and the commands between them.
LEMMA WrittenType ==
    ASSUME NEW line \in Lines
    PROVE  LET B == Bounds(All(line)) IN
           /\ B \subseteq 0..(Len(line) + 1) /\ 0 \in B /\ Len(line) + 1 \in B
           /\ \A k \in 1..(Len(line) + 1) : k \in B <=> All(line)[k] = Separator
           /\ \A t : IsFiniteSet(Upto(line, t))
           /\ \A g : g \in Written(line) <=>
                 /\ g \in B \X B /\ g[2] > g[1]
                 /\ \A k \in B : k <= g[1] \/ k >= g[2]
<1> DEFINE B == Bounds(All(line))
           n == Len(line) + 1
<1>1. n \in Nat \ {0} /\ DOMAIN All(line) = 1..n /\ All(line)[n] = Separator
  BY LineType
<1>2. B \subseteq 0..n /\ 0 \in B /\ n \in B /\ \A k \in 1..n : k \in B <=> All(line)[k] = Separator
  BY <1>1 DEF Bounds
<1>3. \A g : g \in Written(line) <=> /\ g \in B \X B /\ g[2] > g[1]
                                     /\ \A k \in B : k <= g[1] \/ k >= g[2]
  BY DEF Written, All
<1>4. IsFiniteSet(B \X B)
  <2>1. IsFiniteSet(0..n)
    BY <1>1, FS_Interval
  <2>2. IsFiniteSet(B)
    BY <1>2, <2>1, FS_Subset
  <2> QED
    BY <2>2, FS_Product
<1>5. ASSUME NEW t PROVE IsFiniteSet(Upto(line, t))
  <2>1. Upto(line, t) \subseteq B \X B
    BY <1>3 DEF Upto
  <2> QED
    BY <1>4, <2>1, FS_Subset
<1> QED
  BY <1>2, <1>3, <1>5

\* One command more.
LEMMA UptoGrows ==
    ASSUME NEW line \in Lines, NEW t \in Bounds(All(line)), NEW i \in Bounds(All(line)), t < i,
           \A k \in Bounds(All(line)) : k <= t \/ k >= i
    PROVE  /\ Upto(line, i) = Upto(line, t) \cup {<<t, i>>}
           /\ Cardinality(Upto(line, t)) \in Nat
           /\ Cardinality(Upto(line, i)) = Cardinality(Upto(line, t)) + 1
<1> DEFINE B == Bounds(All(line))
<1>1. /\ B \subseteq Nat
      /\ \A g : g \in Written(line) <=> /\ g \in B \X B /\ g[2] > g[1]
                                        /\ \A k \in B : k <= g[1] \/ k >= g[2]
      /\ IsFiniteSet(Upto(line, t))
  BY WrittenType, LineType
<1> HIDE DEF B
<1>2. t \in B /\ i \in B /\ \A k \in B : k <= t \/ k >= i
  BY DEF B
<1>3. <<t, i>> \in Upto(line, i) /\ <<t, i>> \notin Upto(line, t)
  BY <1>1, <1>2 DEF Upto
<1>4. ASSUME NEW g \in Upto(line, i) PROVE g \in Upto(line, t) \cup {<<t, i>>}
  <2>1. g \in Written(line) /\ g[2] <= i /\ g[1] \in B /\ g[2] \in B /\ g = <<g[1], g[2]>>
    BY <1>1, <1>4 DEF Upto
  <2>2. CASE g[2] <= t
    BY <2>1, <2>2 DEF Upto
  <2>3. CASE g[2] = i
    <3>1. g[1] <= t
      BY <1>1, <1>2, <2>1, <2>3
    <3>2. t <= g[1] \/ t >= g[2]
      BY <1>1, <1>2, <2>1
    <3>3. g[1] = t
      BY <1>1, <1>2, <2>1, <2>3, <3>1, <3>2
    <3> QED
      BY <2>1, <2>3, <3>3
  <2> QED
    BY <1>1, <1>2, <2>1, <2>2, <2>3
<1>5. ASSUME NEW g \in Upto(line, t) PROVE g \in Upto(line, i)
  <2>1. g \in Written(line) /\ g[2] <= t /\ g[2] \in B
    BY <1>1 DEF Upto
  <2>2. g[2] \in Nat /\ t \in Nat /\ i \in Nat
    BY <1>1, <1>2, <2>1
  <2>3. g[2] <= i
    BY <2>1, <2>2
  <2> QED
    BY <2>1, <2>3 DEF Upto
<1>6. Upto(line, i) = Upto(line, t) \cup {<<t, i>>}
  BY <1>3, <1>4, <1>5
<1> QED
  BY <1>1, <1>3, <1>6, FS_CardinalityType, FS_AddElement

\* The words of the commands are tokens of the line.
Worded(line, acc) ==
    \A c \in 1..Len(acc.cmds) : acc.cmds[c].word \in ToSet(All(line))

CutType(line, acc, i) == acc.j <= i + 1 /\ Worded(line, acc)

LEMMA CutAtType ==
    ASSUME NEW line \in Lines, NEW acc \in Accs(line), NEW i \in 1..(Len(line) + 1)
    PROVE  CutAt(All(line), acc, i) \in Accs(line)
<1>1. Len(line) \in Nat /\ All(line) \in Seq(ToSet(All(line))) /\ Len(All(line)) = Len(line) + 1
  BY LineType
<1>2. acc.j \in 1..(Len(line) + 2) /\ acc.cmds \in Seq(Commands(Words(line)))
  BY DEF Accs
<1>3. All(line)[acc.j] \in Words(line)
  BY <1>2 DEF Words
<1>4. SubSeq(All(line), acc.j + 1, i - 1) \in Seq(ToSet(All(line)))
  BY <1>1, <1>2
<1>5. [word |-> All(line)[acc.j], args |-> SubSeq(All(line), acc.j + 1, i - 1)] \in Commands(Words(line))
  <2>1. ToSet(All(line)) \subseteq Words(line)
    BY <1>1, LineType DEF ToSet, Words
  <2> QED
    BY <1>3, <1>4, <2>1 DEF Commands
<1> QED
  BY <1>1, <1>2, <1>5 DEF CutAt, Accs

LEMMA CutAtKeeps ==
    ASSUME NEW line \in Lines, NEW acc \in Accs(line), NEW i \in 1..(Len(line) + 1),
           CutType(line, acc, i - 1), CutInv(line, acc, i - 1)
    PROVE  /\ CutType(line, CutAt(All(line), acc, i), i)
           /\ CutInv(line, CutAt(All(line), acc, i), i)
<1> DEFINE all == All(line)
           B == Bounds(all)
           t == acc.j - 1
           new == CutAt(all, acc, i)
           c == [word |-> all[acc.j], args |-> SubSeq(all, acc.j + 1, i - 1)]
<1>1. /\ Len(line) \in Nat /\ i \in Nat \ {0} /\ i - 1 + 1 = i
      /\ DOMAIN all = 1..(Len(line) + 1)
      /\ B \subseteq 0..(Len(line) + 1) /\ \A k \in 1..(Len(line) + 1) : k \in B <=> all[k] = Separator
  BY LineType, WrittenType
<1>2. acc.j \in 1..i /\ acc.cmds \in Seq(Commands(Words(line))) /\ Len(acc.cmds) \in Nat
  BY <1>1 DEF Accs, CutType
<1>3. CASE all[i] # Separator \/ i = acc.j
  <2>1. new = acc
    BY <1>3 DEF CutAt
  <2>2. CutType(line, acc, i)
    BY <1>1, <1>2 DEF CutType
  <2>3. ASSUME WordsOnly(acc.cmds)
        PROVE  /\ t \in B /\ t <= i /\ \A k \in B : k <= t \/ k = t + 1 \/ k > i
               /\ CutsAre(line, acc.cmds, t)
    <3>1. /\ t \in B /\ t <= i - 1 /\ \A k \in B : k <= t \/ k = t + 1 \/ k > i - 1
          /\ CutsAre(line, acc.cmds, t)
      BY <2>3 DEF CutInv
    <3>2. i \in B => i = t + 1
      BY <1>1, <1>2, <1>3
    <3>3. \A k \in B : k > i - 1 => k = i \/ k > i
      BY <1>1
    <3>4. t <= i
      BY <1>1, <1>2
    <3> HIDE DEF B, t
    <3> QED
      BY <3>1, <3>2, <3>3, <3>4
  <2>4. CutInv(line, acc, i)
    BY ONLY <2>3 DEF CutInv
  <2> HIDE DEF new
  <2> QED
    BY <2>1, <2>2, <2>4 DEF new
<1>4. CASE all[i] = Separator /\ i # acc.j
  <2>1. new = [j |-> i + 1, cmds |-> Append(acc.cmds, c)]
    BY <1>4 DEF CutAt
  <2>2. /\ new.j = i + 1 /\ new.cmds = Append(acc.cmds, c)
        /\ Len(new.cmds) = Len(acc.cmds) + 1
        /\ \A k \in 1..Len(acc.cmds) : new.cmds[k] = acc.cmds[k]
        /\ new.cmds[Len(acc.cmds) + 1] = c
    BY <1>2, <2>1
  <2>3. acc.j \in 1..(Len(line) + 1) /\ acc.j < i
    BY <1>1, <1>2, <1>4
  <2>4. CutType(line, new, i)
    <3>1. all[acc.j] \in ToSet(all)
      BY <1>1, <2>3 DEF ToSet
    <3>2. c.word = all[acc.j]
      OBVIOUS
    <3> HIDE DEF new, c, all
    <3>3. Worded(line, new)
      BY <1>2, <2>2, <3>1, <3>2 DEF CutType, Worded, all
    <3> QED
      BY <1>1, <2>2, <3>3 DEF CutType
  <2>5. ASSUME WordsOnly(new.cmds)
        PROVE  /\ i \in B /\ i <= i /\ \A k \in B : k <= i \/ k = i + 1 \/ k > i
               /\ CutsAre(line, new.cmds, i)
    <3>1. WordsOnly(acc.cmds) /\ c.word.kind = "word"
      <4> HIDE DEF new, c
      <4> QED
        BY <1>2, <2>2, <2>5 DEF WordsOnly
    <3>2. acc.j \notin B
      <4>1. Separator.kind = "sep"
        BY DEF Separator, Token
      <4>2. all[acc.j] # Separator
        BY <3>1, <4>1
      <4> QED
        BY <1>1, <2>3, <4>2
    <3>3. /\ t \in B /\ \A k \in B : k <= t \/ k = t + 1 \/ k > i - 1
          /\ CutsAre(line, acc.cmds, t)
      BY <3>1 DEF CutInv
    <3>4. i \in B /\ t < i /\ t + 1 = acc.j /\ t + 1 < i
      BY <1>1, <1>2, <1>4, <2>3
    <3>5. \A k \in B : k <= t \/ k >= i
      <4> HIDE DEF B
      <4> QED
        BY <1>1, <3>2, <3>3, <3>4
    <3>6. /\ Upto(line, i) = Upto(line, t) \cup {<<t, i>>}
          /\ Cardinality(Upto(line, t)) \in Nat
          /\ Cardinality(Upto(line, i)) = Cardinality(Upto(line, t)) + 1
      <4> HIDE DEF t
      <4> QED
        BY <3>3, <3>4, <3>5, UptoGrows
    <3>7. c = CommandOf(line, <<t, i>>)
      <4>1. CommandOf(line, <<t, i>>) = [word |-> all[t + 1], args |-> SubSeq(all, t + 2, i - 1)]
        BY DEF CommandOf
      <4>2. t + 1 = acc.j /\ t + 2 = acc.j + 1
        BY <1>2
      <4> QED
        BY <4>1, <4>2
    <3> HIDE DEF new, c, t, all
    <3>8. CutsAre(line, new.cmds, i)
      <4>1. Len(acc.cmds) = Cardinality(Upto(line, t))
        BY <3>3 DEF CutsAre
      <4>2. ASSUME NEW g \in Upto(line, t)
            PROVE  /\ g[2] > g[1] + 1 /\ Place(line, g) \in 1..Len(new.cmds)
                   /\ new.cmds[Place(line, g)] = CommandOf(line, g)
        BY <1>2, <2>2, <3>3 DEF CutsAre
      <4>3. Place(line, <<t, i>>) = Len(acc.cmds) + 1
        BY <3>6, <4>1 DEF Place
      <4>4. <<t, i>>[2] > <<t, i>>[1] + 1
        BY <3>4
      <4>5. /\ Place(line, <<t, i>>) \in 1..Len(new.cmds)
            /\ new.cmds[Place(line, <<t, i>>)] = CommandOf(line, <<t, i>>)
        BY <1>2, <2>2, <3>7, <4>3
      <4>6. \A g \in Upto(line, i) : g \in Upto(line, t) \/ g = <<t, i>>
        BY <3>6
      <4>7. Len(new.cmds) = Cardinality(Upto(line, i))
        BY <2>2, <3>6, <4>1
      <4> HIDE DEF Upto, Place, CommandOf
      <4> QED
        BY ONLY <4>2, <4>4, <4>5, <4>6, <4>7 DEF CutsAre
    <3> QED
      BY <1>1, <3>4, <3>8
  <2> HIDE DEF new
  <2>6. new.j - 1 = i
    BY <1>1, <2>2
  <2>7. CutInv(line, new, i)
    BY ONLY <2>5, <2>6 DEF CutInv
  <2> QED
    BY <2>4, <2>7 DEF new
<1> QED
  BY <1>3, <1>4

\* What the loop has after each token.
CutBy(it, line) ==
    /\ it \in [0..(Len(line) + 1) -> Accs(line)]
    /\ it[0] = [j |-> 1, cmds |-> <<>>] /\ PrepareArgs(line) = it[Len(line) + 1].cmds
    /\ \A k \in 1..(Len(line) + 1) : it[k] = CutAt(All(line), it[k - 1], k)

LEMMA CutByStep == ASSUME NEW line \in Lines PROVE \E it : CutBy(it, line)
<1> DEFINE n == Len(line) + 1
           D == Accs(line)
           base == [j |-> 1, cmds |-> <<>>]
           step == [p \in (1..n) \X D |-> CutAt(All(line), p[2], p[1])]
           tokens == [i \in DOMAIN All(line) |-> i]
           Def(it) == it = [T \in SUBSET (1..n) |-> IF T = {} THEN base
                               ELSE CutAt(All(line), it[T \ {Max(T)}], tokens[Max(T)])]
           loop == CHOOSE it : Def(it)
<1>1. n \in Nat /\ DOMAIN All(line) = 1..n /\ Len(line) \in Nat
  BY LineType
<1>2. base \in D
  <2>1. 1 \in 1..(Len(line) + 2)
    BY <1>1
  <2> QED
    BY <2>1 DEF Accs
<1>3. step \in [(1..n) \X D -> D]
  BY CutAtType
<1>4. Len(tokens) = n /\ DOMAIN tokens = 1..n /\ \A i \in 1..n : tokens[i] = i
  BY <1>1
<1>5. ASSUME NEW T \in SUBSET (1..n), T # {} PROVE Max(T) \in 1..n
  BY <1>1, <1>5, MaxIsIn
<1>6. PICK it : LoopBy(it, n, D, base, step)
  <2> HIDE DEF step, base, D, n
  <2> QED
    BY <1>1, <1>2, <1>3, LoopIsDefined
<1>7. Def(it)
  <2>1. it \in [SUBSET (1..n) -> D] /\ it[{}] = base
    BY <1>6 DEF LoopBy
  <2>2. ASSUME NEW T \in SUBSET (1..n), T # {}
        PROVE  it[T] = CutAt(All(line), it[T \ {Max(T)}], tokens[Max(T)])
    <3>1. it[T] = step[<<Max(T), it[T \ {Max(T)}]>>]
      BY <1>6, <2>2 DEF LoopBy
    <3>2. Max(T) \in 1..n /\ it[T \ {Max(T)}] \in D /\ tokens[Max(T)] = Max(T)
      BY <1>4, <1>5, <2>1, <2>2
    <3> HIDE DEF D, n, tokens
    <3> QED
      BY <3>1, <3>2
  <2> HIDE DEF step, D, n, base, tokens
  <2> QED
    BY <2>1, <2>2
<1>8. Def(loop)
  BY <1>7
<1>9. PrepareArgs(line) = loop[1..n].cmds
  BY <1>4 DEF PrepareArgs, FoldLeftDomain, FoldLeft, MapThenFoldSet, All
<1> HIDE DEF loop
<1>10. ASSUME NEW T \in SUBSET (1..n), T # {}, loop[T \ {Max(T)}] \in D
       PROVE  loop[T] = step[<<Max(T), loop[T \ {Max(T)}]>>]
  <2>1. loop[T] = CutAt(All(line), loop[T \ {Max(T)}], Max(T))
    BY <1>4, <1>5, <1>8, <1>10
  <2> QED
    BY <1>5, <1>10, <2>1
<1>11. Loops(loop, n, D, base, step)
  <2>1. loop[{}] = base
    BY <1>8
  <2> HIDE DEF step, D, n, base
  <2> QED
    BY <1>10, <2>1 DEF Loops
<1>12. PICK st : StepsOf(st, n, D, base, step, loop[1..n])
  <2> HIDE DEF step, D, n, base
  <2> QED
    BY <1>1, <1>2, <1>3, <1>11, LoopSteps
<1>13. ASSUME NEW k \in 1..n PROVE st[k] = CutAt(All(line), st[k - 1], k)
  <2>1. k - 1 \in 0..n
    BY <1>1
  <2>2. st[k - 1] \in D /\ st[k] = step[<<k, st[k - 1]>>]
    BY <1>12, <2>1 DEF StepsOf
  <2> HIDE DEF D
  <2> QED
    BY <2>2
<1>14. st \in [0..n -> D] /\ st[0] = base /\ st[n] = loop[1..n]
  BY <1>12 DEF StepsOf
<1> HIDE DEF step
<1> QED
  BY <1>9, <1>13, <1>14 DEF CutBy

LEMMA CutIsRight ==
    ASSUME NEW line \in Lines
    PROVE  \E acc \in Accs(line) :
              /\ PrepareArgs(line) = acc.cmds
              /\ CutType(line, acc, Len(line) + 1) /\ CutInv(line, acc, Len(line) + 1)
<1> DEFINE n == Len(line) + 1
<1>1. n \in Nat /\ Len(line) \in Nat
  BY LineType
<1>2. PICK it : CutBy(it, line)
  BY CutByStep
<1> DEFINE G == {k \in 0..n : CutType(line, it[k], k) /\ CutInv(line, it[k], k)}
<1>3. 0 \in G
  <2>1. it[0].j = 1 /\ it[0].cmds = <<>> /\ Len(it[0].cmds) = 0
    BY <1>2 DEF CutBy
  <2>2. CutType(line, it[0], 0)
    BY <2>1 DEF CutType, Worded
  <2>3. Upto(line, 0) = {}
    BY WrittenType, <1>1 DEF Upto
  <2>4. CutsAre(line, it[0].cmds, 0)
    BY <2>1, <2>3, FS_EmptySet DEF CutsAre
  <2>5. \A k \in Bounds(All(line)) : k <= 0 \/ k = 0 + 1 \/ k > 0
    BY WrittenType, <1>1
  <2>6. it[0].j - 1 = 0 /\ 0 \in Bounds(All(line))
    BY <2>1, WrittenType
  <2>7. CutInv(line, it[0], 0)
    BY ONLY <2>4, <2>5, <2>6 DEF CutInv
  <2> QED
    BY <1>1, <2>2, <2>7
<1>4. ASSUME NEW k \in 0..(n - 1), k \in G PROVE k + 1 \in G
  <2>1. k + 1 \in 1..n /\ (k + 1) - 1 = k /\ k \in 0..n
    BY <1>1
  <2>2. it[k] \in Accs(line) /\ it[k + 1] = CutAt(All(line), it[k], k + 1)
    BY <1>2, <2>1 DEF CutBy
  <2>3. CutType(line, it[k], (k + 1) - 1) /\ CutInv(line, it[k], (k + 1) - 1)
    BY <1>4, <2>1
  <2>4. CutType(line, it[k + 1], k + 1) /\ CutInv(line, it[k + 1], k + 1)
    BY <2>1, <2>2, <2>3, CutAtKeeps
  <2> QED
    BY <1>1, <2>1, <2>4
<1>5. 0..n \subseteq G
  <2> HIDE DEF G, n
  <2> QED
    BY <1>1, <1>3, <1>4, UpToInduction
<1>6. n \in 0..n
  BY <1>1
<1> QED
  BY <1>2, <1>5, <1>6 DEF CutBy

\* The commands of a line that is accepted.
Groups(line) == {g \in Written(line) : g[2] <= Len(line) \/ g[1] < Len(line)}

\* No command is lost, and none is cut wrong.
LEMMA CutIsWritten ==
    ASSUME NEW line \in Lines, WordsOnly(PrepareArgs(line))
    PROVE  /\ Cardinality(Groups(line)) = Len(PrepareArgs(line))
           /\ \A g \in Groups(line) :
                 /\ g[1] + 1 \in 1..Len(line) /\ g[1] \in Nat /\ g[2] \in Nat
                 /\ g[1] + 1 < g[2] /\ g[2] <= Len(line) + 1
                 /\ {h \in Groups(line) : h[2] <= g[2]} = Upto(line, g[2])
                 /\ Place(line, g) \in 1..Len(PrepareArgs(line))
                 /\ PrepareArgs(line)[Place(line, g)] = CommandOf(line, g)
<1> DEFINE n == Len(line) + 1
           B == Bounds(All(line))
<1>1. n \in Nat /\ Len(line) \in Nat
  BY LineType
<1>2. /\ B \subseteq 0..n /\ n \in B
      /\ \A g \in Written(line) : /\ g[1] \in B /\ g[2] \in B /\ g[2] > g[1]
                                  /\ \A k \in B : k <= g[1] \/ k >= g[2]
  BY WrittenType
<1>3. PICK acc \in Accs(line) :
        /\ PrepareArgs(line) = acc.cmds
        /\ CutInv(line, acc, n)
  BY CutIsRight
<1>4. PICK t \in B : (\A k \in B : k <= t \/ k = t + 1 \/ k > n) /\ CutsAre(line, acc.cmds, t)
  BY <1>3 DEF CutInv
<1> HIDE DEF B
<1>5. t = n \/ t = Len(line)
  BY <1>1, <1>2, <1>4
<1>6. ASSUME NEW g \in Upto(line, t) PROVE g \in Groups(line)
  <2>1. g \in Written(line) /\ g[2] > g[1] + 1 /\ g[1] \in 0..n /\ g[2] \in 0..n
    BY <1>2, <1>4 DEF CutsAre, Upto
  <2>2. g[2] <= Len(line) \/ g[1] < Len(line)
    BY <1>1, <2>1
  <2> QED
    BY <2>1, <2>2 DEF Groups
<1>7. ASSUME NEW g \in Groups(line) PROVE g \in Upto(line, t)
  <2>1. g \in Written(line) /\ (g[2] <= Len(line) \/ g[1] < Len(line))
    BY DEF Groups
  <2>2. g[1] \in 0..n /\ g[2] \in 0..n /\ (t <= g[1] \/ t >= g[2])
    BY <1>2, <2>1
  <2>3. g[2] <= t
    BY <1>1, <1>5, <2>1, <2>2
  <2> QED
    BY <2>1, <2>3 DEF Upto
<1>8. Groups(line) = Upto(line, t)
  BY <1>6, <1>7
<1>9. ASSUME NEW g \in Groups(line)
      PROVE  /\ g[1] \in Nat /\ g[2] \in Nat /\ g[2] <= n /\ g[2] <= t
             /\ g[1] + 1 \in 1..Len(line) /\ g[1] + 1 < g[2]
  <2>1. g \in Written(line) /\ g[2] > g[1] + 1 /\ g[1] \in 0..n /\ g[2] \in 0..n /\ g[2] <= t
    BY <1>2, <1>4, <1>8 DEF CutsAre, Upto
  <2> QED
    BY <1>1, <2>1
<1>10. ASSUME NEW g \in Groups(line)
       PROVE  {h \in Groups(line) : h[2] <= g[2]} = Upto(line, g[2])
  <2>1. ASSUME NEW h \in Upto(line, g[2]) PROVE h \in Groups(line) /\ h[2] <= g[2]
    <3>1. h \in Written(line) /\ h[2] <= g[2] /\ h[2] \in 0..n
      BY <1>2 DEF Upto
    <3>2. g[2] \in Nat /\ g[2] <= t /\ t \in Nat
      BY <1>1, <1>5, <1>9
    <3>3. h[2] <= t
      BY <1>1, <3>1, <3>2
    <3> QED
      BY <1>8, <3>1, <3>3 DEF Upto
  <2>2. ASSUME NEW h \in Groups(line), h[2] <= g[2] PROVE h \in Upto(line, g[2])
    BY <2>2 DEF Groups, Upto
  <2> QED
    BY <2>1, <2>2
<1>11. /\ Len(acc.cmds) = Cardinality(Groups(line))
       /\ \A g \in Groups(line) : /\ Place(line, g) \in 1..Len(acc.cmds)
                                  /\ acc.cmds[Place(line, g)] = CommandOf(line, g)
  BY <1>4, <1>8 DEF CutsAre
<1> QED
  BY <1>3, <1>9, <1>10, <1>11

\* What is cut is a sequence of commands, whose words are known.
LEMMA CutIsKnown ==
    ASSUME NEW line \in Lines
    PROVE  LET cmds == PrepareArgs(line) IN
           /\ Len(cmds) \in Nat /\ DOMAIN cmds = 1..Len(cmds)
           /\ \A c \in 1..Len(cmds) : cmds[c].word.kind = "word" => WordIsKnown(cmds[c].word)
<1>1. PICK acc \in Accs(line) : PrepareArgs(line) = acc.cmds /\ CutType(line, acc, Len(line) + 1)
  BY CutIsRight
<1>2. Len(acc.cmds) \in Nat /\ DOMAIN acc.cmds = 1..Len(acc.cmds)
  BY DEF Accs
<1>3. ASSUME NEW c \in 1..Len(acc.cmds), acc.cmds[c].word.kind = "word"
      PROVE  WordIsKnown(acc.cmds[c].word)
  <2>1. PICK k \in 1..(Len(line) + 1) : acc.cmds[c].word = All(line)[k]
    <3>1. acc.cmds[c].word \in ToSet(All(line))
      BY <1>1, <1>3 DEF CutType, Worded
    <3>2. DOMAIN All(line) = 1..(Len(line) + 1)
      BY LineType
    <3> QED BY <3>1, <3>2 DEF ToSet
  <2>2. All(line)[k] # Separator
    BY <1>3, <2>1 DEF Separator, Token
  <2>3. k \in DOMAIN line /\ All(line)[k] = line[k]
    <3>1. line \in Seq(ToSet(line))
      BY CallAssumption
    <3>2. k \in 1..Len(line) /\ DOMAIN line = 1..Len(line)
      BY <2>2, <3>1, LineType
    <3> QED
      BY <3>2, LineType
  <2> QED
    BY <1>3, <2>1, <2>3, CallAssumption
<1> QED
  BY <1>1, <1>2, <1>3
-----------------------------------------------------------------------------
\* The tool sends nothing but calls.
ToolInv ==
    /\ {"phase", "line", "roles", "calls"} \subseteq DOMAIN tool
    /\ tool.phase \in {"ready", "sent"} => tool.calls \in Seq(Calls)

\* What is found once is found.
LEMMA OneIsSome == ASSUME NEW S, Cardinality(S) = 1 PROVE S # {}
<1>1. Cardinality({}) = 0
  BY FS_EmptySet
<1>2. S = {} => Cardinality(S) = Cardinality({})
  OBVIOUS
<1> QED
  BY <1>1, <1>2

LEMMA FoundIsCallee ==
    ASSUME ACTypeOK, NEW word, WordIsKnown(word), Cardinality(FindObject(word.obj)) = 1
    PROVE  FindObject(word.obj) \subseteq Callees
<1>1. CASE word.obj.by = "alias"
  BY <1>1 DEF FindObject, Callees
<1>2. CASE word.obj.by = "name"
  <2>1. FindObject(word.obj) = FindByName(word.obj.of)
    BY <1>2 DEF FindObject
  <2> QED
    BY <1>2, <2>1 DEF WordIsKnown
<1>3. CASE word.obj.by = "role"
  <2>1. FindByRole(word.obj.of) \subseteq Callees
    BY DEF FindByRole, ACTypeOK, Callees, Addresses
  <2> QED
    BY <1>3, <2>1 DEF FindObject
<1>4. CASE word.obj.by = "address"
  BY <1>4 DEF FindObject, WordIsKnown
<1>5. CASE word.obj.by = "none"
  BY <1>5 DEF FindObject
<1> QED
  BY <1>1, <1>2, <1>3, <1>4, <1>5 DEF WordIsKnown

LEMMA CallOfIsCall ==
    ASSUME ACTypeOK, NEW cmd, NEW roleList, Parsed(cmd), WordIsKnown(cmd.word),
           KnownRoles(cmd, roleList)
    PROVE  CallOf(cmd, roleList) \in Calls
<1>1. FindObject(cmd.word.obj) # {}
  BY OneIsSome DEF Parsed
<1>2. (CHOOSE a \in FindObject(cmd.word.obj) : TRUE) \in Callees
  BY <1>1, FoundIsCallee DEF Parsed
<1>3. cmd.word.roles \cup roleList \in SUBSET Roles
  BY DEF KnownRoles
<1>4. cmd.word.fn.needs \in SUBSET Roles
  BY DEF WordIsKnown
<1> QED
  BY <1>2, <1>3, <1>4 DEF CallOf, Calls

LEMMA InvokeStep == ACTypeOK /\ Invoke => ToolInv'
<1> SUFFICES ASSUME ACTypeOK, Invoke PROVE ToolInv'
  OBVIOUS
<1>1. PICK line \in Lines, roleList \in RoleLists, m \in ToolModes :
        LET cmds == PrepareArgs(line)
            good == \A i \in DOMAIN cmds :
                       Parsed(cmds[i]) /\ KnownRoles(cmds[i], roleList) /\ Encodable(cmds[i])
            calls == [i \in DOMAIN cmds |-> CallOf(cmds[i], roleList)]
            views == AllFlags(calls) = {} /\ \A i \in DOMAIN cmds : cmds[i].word.fn.static
        IN  tool' = IF ~good THEN Ended("failed")
                    ELSE IF m # "call" \/ views THEN Ended("done")
                    ELSE [phase |-> "ready", line |-> line, roles |-> roleList, calls |-> calls]
  BY DEF Invoke
<1> DEFINE cmds == PrepareArgs(line)
           calls == [i \in DOMAIN cmds |-> CallOf(cmds[i], roleList)]
<1>2. CASE tool' = Ended("failed") \/ tool' = Ended("done")
  BY <1>2 DEF Ended, ToolInv
<1>3. CASE /\ \A i \in DOMAIN cmds : Parsed(cmds[i]) /\ KnownRoles(cmds[i], roleList)
           /\ tool' = [phase |-> "ready", line |-> line, roles |-> roleList, calls |-> calls]
  <2>1. \A i \in DOMAIN cmds : CallOf(cmds[i], roleList) \in Calls
    <3> SUFFICES ASSUME NEW i \in DOMAIN cmds PROVE CallOf(cmds[i], roleList) \in Calls
      OBVIOUS
    <3>1. cmds[i].word.kind = "word"
      BY <1>3 DEF Parsed
    <3>2. WordIsKnown(cmds[i].word)
      BY <3>1, CutIsKnown
    <3> HIDE DEF cmds
    <3> QED
      BY <1>3, <3>2, CallOfIsCall
  <2>2. Len(cmds) \in Nat /\ DOMAIN cmds = 1..Len(cmds)
    BY CutIsKnown
  <2> HIDE DEF cmds
  <2>3. calls \in Seq(Calls)
    BY <2>1, <2>2
  <2> QED
    BY <1>3, <2>3 DEF ToolInv
<1> QED
  BY <1>1, <1>2, <1>3

\* The other steps of the tool send what it found or end.
LEMMA NextToolInv == ACTypeOK /\ ToolInv /\ [Next]_vars => ToolInv'
<1> SUFFICES ASSUME ACTypeOK, ToolInv, [Next]_vars PROVE ToolInv'
  OBVIOUS
<1>1. CASE Invoke
  BY <1>1, InvokeStep
<1>2. CASE \E phase : tool' = Ended(phase) /\ phase \in {"done", "failed"}
  BY <1>2 DEF Ended, ToolInv
<1>3. CASE tool.phase = "ready" /\ tool' = [tool EXCEPT !.phase = "sent"]
  BY <1>3 DEF ToolInv
<1>4. CASE tool' = tool
  BY <1>4 DEF ToolInv
<1> QED
  BY <1>1, <1>2, <1>3, <1>4
     DEF Next, CallDirectly, SendBatch, BatchRefused, Outcome, vars

LEMMA NextKeepsController == IInv /\ ToolInv /\ [Next]_vars => IInv'
<1> SUFFICES ASSUME IInv, ToolInv, [Next]_vars PROVE IInv'
  OBVIOUS
<1>1. CASE SendBatch
  <2>1. tool.calls \in Seq(Calls) /\ Caller \in Accounts /\ FALSE \in BOOLEAN
    BY <1>1, CallAssumption DEF SendBatch, ToolInv
  <2> QED
    BY <1>1, <2>1, BeginCallsStep DEF SendBatch
<1>2. CASE [ACNext]_acVars
  BY <1>2, NextIInv
<1> QED
  BY <1>1, <1>2 DEF Next, ACNext, CallNext, Invoke, CallDirectly, BatchRefused, vars

CmdInv == IInv /\ ToolInv

LEMMA CmdInvariance == Spec => []CmdInv
<1>1. Init => CmdInv
  BY InitIInv DEF Init, CmdInv, ToolInv, Ended
<1>2. CmdInv /\ [Next]_vars => CmdInv'
  BY NextToolInv, NextKeepsController DEF CmdInv, IInv, BooksInv
<1> QED
  BY <1>1, <1>2, PTL DEF Spec

(***************************************************************************)
(* Roles are lent for one call of a line: while it runs the helper has     *)
(* those and no others, and between calls and after a batch, also one that *)
(* was reverted, it has none (_callWithRoles).                             *)
(***************************************************************************)
THEOREM RolesAreLent == Spec => []LentForOneCall
<1>1. ASSUME IInv PROVE \A r \in Roles : ~Holds(Helper, r, single, multi)
  BY <1>1, Distinct DEF IInv, BooksInv, HelperHolds, Holds, ACTypeOK, Addresses
<1>2. ASSUME IInv, call.phase = "idle" \/ call.phase = "next" PROVE masks[Helper] = {}
  <2>1. AgreeBut({}, masks, single, multi)
    BY <1>2 DEF IInv, MasksInv
  <2>2. masks[Helper] \in SUBSET Roles /\ Helper \in Addresses
    BY <1>2 DEF IInv, BooksInv, ACTypeOK, Addresses
  <2> QED
    BY <1>1, <1>2, <2>1, <2>2 DEF AgreeBut
<1>3. ASSUME IInv, call.phase = "lent", ~call.direct PROVE masks[Helper] = CurCall.flags
  <2>1. call \in Running /\ Grantee = Helper
    BY <1>3, LentIsRunning DEF Grantee
  <2>2. call.old = {}
    BY <1>1, <1>3, <2>1 DEF IInv, MasksInv, Running
  <2> QED
    BY <1>3, <2>1, <2>2 DEF IInv, MasksInv
<1>4. IInv => LentForOneCall
  BY <1>2, <1>3 DEF LentForOneCall, HelperKeepsNothing, RolesNotCarried, Idle
<1> QED
  BY <1>4, CmdInvariance, PTL DEF CmdInv

(***************************************************************************)
(* Masks and holders of roles agree between transactions, whatever lines   *)
(* the tool sends and whatever administrators do meanwhile.                *)
(***************************************************************************)
THEOREM HoldersAgreeStill == Spec => []HoldersMatchMasks
<1>1. IInv => HoldersMatchMasks
  BY DEF IInv, MasksInv, Idle, HoldersMatchMasks, Agree, AgreeBut
<1> QED
  BY <1>1, CmdInvariance, PTL DEF CmdInv

\* A step of the composition is one of the controller, or a batch of the tool begins.
LEMMA StepOfController ==
    ASSUME [Next]_vars
    PROVE  [ACNext]_acVars \/ (temp' = temp /\ single' = single /\ mode' = mode)
<1>1. SendBatch => temp' = temp /\ single' = single /\ mode' = mode
  BY DEF SendBatch, BeginCalls, roleVars
<1> QED
  BY <1>1 DEF Next, ACNext, CallNext, Invoke, CallDirectly, BatchRefused, vars

(***************************************************************************)
(* A temporary administrator whose office ends keeps none of its roles,    *)
(* also when it ends between the lookup and the batch of a line, or in one *)
(* of its calls (AccessControllerBase.sol:98-132).                         *)
(***************************************************************************)
THEOREM OfficeEndsCleanStill == Spec => OfficeLeavesNothing
<1>1. CmdInv /\ [Next]_vars =>
         [temp.admin # NoOne /\ temp'.admin # temp.admin => masks'[temp.admin] = {}]_acVars
  BY StepOfController, OfficeStep DEF CmdInv
<1> QED
  BY <1>1, CmdInvariance, PTL DEF Spec, OfficeLeavesNothing

(***************************************************************************)
(* A protected address stays as it was set, whatever lines are sent and    *)
(* reverted (:200, :238, :304).                                            *)
(***************************************************************************)
THEOREM ProtectedIsKeptStill == Spec => ProtectedStays
<1>1. CmdInv /\ [Next]_vars =>
         [\A r \in Roles :
             mode[r] = "Protected" /\ single[r] # NoOne => single'[r] = single[r]]_acVars
  BY StepOfController, ProtectedStep DEF CmdInv
<1> QED
  BY <1>1, CmdInvariance, PTL DEF Spec, ProtectedStays

-----------------------------------------------------------------------------
(* What is sent is what was written.                                       *)

LineInv ==
    /\ tool.phase \in {"idle", "ready", "sent", "done", "failed"}
    /\ ops \in 0..MaxOps
    /\ tool.phase = "sent" => call.phase # "idle" /\ call.batch = tool.calls
    /\ tool.phase \in {"ready", "sent"} => AsWritten(tool.line, tool.roles, tool.calls)

\* The arguments between a word and the separator behind them.
LEMMA BetweenLength ==
    ASSUME NEW S, NEW s \in Seq(S), NEW a \in Nat, NEW b \in Nat, a + 1 < b, b <= Len(s)
    PROVE  Len(SubSeq(s, a + 2, b - 1)) = b - a - 2
<1>1. a + 2 <= b
  OBVIOUS
<1>2. CASE a + 2 = b
  BY <1>2
<1>3. CASE a + 2 < b
  <2>1. /\ a + 2 \in Nat \ {0} /\ b - 1 \in Nat /\ a + 2 <= b - 1 /\ b - 1 <= Len(s)
        /\ (b - 1) - (a + 2) + 1 = b - a - 2
    BY <1>3
  <2> QED
    BY <2>1
<1> QED
  BY <1>1, <1>2, <1>3

\* What is resolved are the commands of the line.
LEMMA ResolvedAsWritten ==
    ASSUME NEW line \in Lines, NEW roleList,
           \A c \in DOMAIN PrepareArgs(line) :
              Parsed(PrepareArgs(line)[c]) /\ Encodable(PrepareArgs(line)[c])
    PROVE  AsWritten(line, roleList,
                     [c \in DOMAIN PrepareArgs(line) |-> CallOf(PrepareArgs(line)[c], roleList)])
<1> DEFINE cmds == PrepareArgs(line)
           calls == [c \in DOMAIN cmds |-> CallOf(cmds[c], roleList)]
<1>1. Len(cmds) \in Nat /\ DOMAIN cmds = 1..Len(cmds)
  BY CutIsKnown
<1>2. WordsOnly(cmds)
  BY <1>1 DEF WordsOnly, Parsed
<1>3. Cardinality(Groups(line)) = Len(cmds)
  BY <1>2, CutIsWritten
<1>4. ASSUME NEW g \in Groups(line)
      PROVE  /\ g[1] + 1 \in 1..Len(line) /\ g[1] \in Nat /\ g[2] \in Nat
             /\ g[1] + 1 < g[2] /\ g[2] <= Len(line) + 1
             /\ Cardinality({h \in Groups(line) : h[2] <= g[2]}) = Place(line, g)
             /\ Place(line, g) \in 1..Len(cmds) /\ cmds[Place(line, g)] = CommandOf(line, g)
  BY <1>2, CutIsWritten DEF Place
<1>5. ASSUME NEW c \in 1..Len(cmds)
      PROVE  Parsed(cmds[c]) /\ Encodable(cmds[c]) /\ calls[c] = CallOf(cmds[c], roleList)
  BY <1>1
<1>6. Len(calls) = Len(cmds)
  BY <1>1
<1> HIDE DEF cmds, calls
<1>7. ASSUME NEW g \in Groups(line)
      PROVE  /\ line[g[1] + 1].kind = "word"
             /\ calls[Place(line, g)].flags = line[g[1] + 1].roles \cup roleList
             /\ calls[Place(line, g)].needs = line[g[1] + 1].fn.needs
             /\ g[2] - g[1] - 2 = line[g[1] + 1].fn.arity
  <2> DEFINE cmd == cmds[Place(line, g)]
  <2>1. cmd.word = All(line)[g[1] + 1] /\ cmd.args = SubSeq(All(line), g[1] + 2, g[2] - 1)
    <3>1. cmd = CommandOf(line, g)
      BY <1>4
    <3> HIDE DEF cmd
    <3> QED
      BY ONLY <3>1 DEF CommandOf
  <2>2. Parsed(cmd) /\ Encodable(cmd) /\ calls[Place(line, g)] = CallOf(cmd, roleList)
    BY <1>4, <1>5
  <2> HIDE DEF cmd
  <2>3. All(line)[g[1] + 1] = line[g[1] + 1]
    BY <1>4, LineType
  <2>4. Len(SubSeq(All(line), g[1] + 2, g[2] - 1)) = g[2] - g[1] - 2
    <3>1. All(line) \in Seq(ToSet(All(line))) /\ Len(All(line)) = Len(line) + 1
      BY LineType
    <3>2. g[1] \in Nat /\ g[2] \in Nat /\ g[1] + 1 < g[2] /\ g[2] <= Len(line) + 1
      BY <1>4
    <3> QED
      BY <3>1, <3>2, BetweenLength
  <2>5. /\ cmd.word.kind = "word" /\ Len(cmd.args) = cmd.word.fn.arity
        /\ calls[Place(line, g)].flags = cmd.word.roles \cup roleList
        /\ calls[Place(line, g)].needs = cmd.word.fn.needs
    BY <2>2 DEF Parsed, Encodable, CallOf
  <2> QED
    BY <2>1, <2>3, <2>4, <2>5
<1>8. AsWritten(line, roleList, calls)
  BY <1>3, <1>4, <1>6, <1>7 DEF AsWritten, Groups
<1> QED
  BY <1>8 DEF calls, cmds

LEMMA InvokeKeepsLine == LineInv /\ Invoke => LineInv'
<1> SUFFICES ASSUME LineInv, Invoke PROVE LineInv'
  OBVIOUS
<1>1. PICK line \in Lines, roleList \in RoleLists, m \in ToolModes :
        LET cmds == PrepareArgs(line)
            good == \A i \in DOMAIN cmds :
                       Parsed(cmds[i]) /\ KnownRoles(cmds[i], roleList) /\ Encodable(cmds[i])
            calls == [i \in DOMAIN cmds |-> CallOf(cmds[i], roleList)]
            views == AllFlags(calls) = {} /\ \A i \in DOMAIN cmds : cmds[i].word.fn.static
        IN  tool' = IF ~good THEN Ended("failed")
                    ELSE IF m # "call" \/ views THEN Ended("done")
                    ELSE [phase |-> "ready", line |-> line, roles |-> roleList, calls |-> calls]
  BY DEF Invoke
<1>2. ops' \in 0..MaxOps
  BY CallAssumption DEF Invoke, Spend, LineInv
<1> DEFINE cmds == PrepareArgs(line)
           calls == [i \in DOMAIN cmds |-> CallOf(cmds[i], roleList)]
<1>3. CASE tool' = Ended("failed") \/ tool' = Ended("done")
  BY <1>2, <1>3 DEF Ended, LineInv
<1>4. CASE /\ \A i \in DOMAIN cmds : Parsed(cmds[i]) /\ Encodable(cmds[i])
           /\ tool' = [phase |-> "ready", line |-> line, roles |-> roleList, calls |-> calls]
  <2>1. AsWritten(line, roleList, calls)
    BY <1>4, ResolvedAsWritten
  <2> HIDE DEF cmds, calls
  <2>2. /\ tool'.phase = "ready" /\ tool'.line = line /\ tool'.roles = roleList
        /\ tool'.calls = calls
    BY <1>4
  <2> QED
    BY <1>2, <2>1, <2>2 DEF LineInv
<1> QED
  BY <1>1, <1>3, <1>4

\* A batch that was sent is the one that runs, until it ends.
LEMMA NextKeepsLine == IInv /\ ToolInv /\ LineInv /\ [Next]_vars => LineInv'
<1> SUFFICES ASSUME IInv, ToolInv, LineInv, [Next]_vars PROVE LineInv'
  OBVIOUS
<1>1. CASE Invoke
  BY <1>1, InvokeKeepsLine
<1>2. CASE \E phase \in {"done", "failed"} : tool' = Ended(phase) /\ ops' = ops
  BY <1>2 DEF Ended, LineInv
<1>3. CASE SendBatch
  <2>1. call'.phase = "next" /\ call'.batch = tool.calls /\ ops' = ops
    BY <1>3 DEF SendBatch, BeginCalls
  <2>2. /\ tool'.phase = "sent" /\ tool'.line = tool.line /\ tool'.roles = tool.roles
        /\ tool'.calls = tool.calls /\ tool.phase = "ready"
    BY <1>3 DEF SendBatch, ToolInv
  <2> QED
    BY <2>1, <2>2 DEF LineInv
<1>4. CASE (LendRoles \/ CallReturns \/ CallBack) /\ UNCHANGED <<tool, ops>>
  <2>1. call \in Running
    BY <1>4, LentIsRunning DEF IInv, CallInv, NoCall, LendRoles, CallReturns, CallBack
  <2>2. call'.phase # "idle" /\ call'.batch = call.batch
    BY <1>4, <2>1 DEF LendRoles, CallReturns, CallBack, RenounceTemporaryAdmin, Running
  <2> QED
    BY <1>4, <2>2 DEF LineInv
<1>5. CASE (BatchEnds \/ BatchReverts) /\ tool.phase # "sent" /\ UNCHANGED <<tool, ops>>
  BY <1>5 DEF LineInv
<1>6. CASE (ChangeOwner \/ Expire \/ AdminNext) /\ Spend /\ UNCHANGED tool
  <2>1. Idle
    BY <1>6 DEF ChangeOwner, Expire, AdminNext, SetTemporaryAdmin, GrantRoles, RevokeRoles,
                RevokeRolesFromAll, SetAddress, SetProtection, BeginCalls
  <2>2. ops' \in 0..MaxOps
    BY <1>6, CallAssumption DEF Spend, LineInv
  <2> QED
    BY <1>6, <2>1, <2>2 DEF Idle, LineInv
<1>7. CASE UNCHANGED vars
  BY <1>7 DEF vars, acVars, LineInv
<1> QED
  BY <1>1, <1>2, <1>3, <1>4, <1>5, <1>6, <1>7
     DEF Next, CallDirectly, BatchRefused, Outcome

(***************************************************************************)
(* What reaches the controller is what was written: the calls of a line    *)
(* are its commands, in their order, each with its roles, its function and *)
(* as many arguments as the function takes, and while a batch runs it is   *)
(* the one that was made of the line (prepareArgs, parseCommand,           *)
(* callContract).                                                          *)
(***************************************************************************)
THEOREM CommandsAreCalled == Spec => []CalledAsWritten
<1>1. Init => LineInv
  BY CallAssumption DEF Init, LineInv, Ended
<1>2. CmdInv /\ LineInv /\ [Next]_vars => LineInv'
  BY NextKeepsLine DEF CmdInv
<1>3. CmdInv /\ LineInv => CalledAsWritten
  BY DEF CmdInv, IInv, BooksInv, LineInv, CalledAsWritten, ToolTypeOK
<1> QED
  BY <1>1, <1>2, <1>3, CmdInvariance, PTL DEF Spec
=============================================================================
