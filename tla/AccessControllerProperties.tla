--------------------- MODULE AccessControllerProperties ---------------------
(***************************************************************************)
(* What is checked of the access controller: see module AccessController.  *)
(***************************************************************************)
EXTENDS AccessController

Modes == {"None", "Singlet", "Protected", "Multilet"}

ACTypeOK ==
    /\ OwnTypeOK
    /\ masks \in [Addresses -> SUBSET Roles]
    /\ mode \in [Roles -> Modes]
    /\ single \in [Roles -> Contracts \cup {NoOne}]
    /\ multi \in [Roles -> SUBSET Addresses]
    /\ singletons \subseteq Roles
    /\ temp \in [admin : Accounts \cup {NoOne}, expired : BOOLEAN]

\* r is assigned to a, or a is among its holders
Holds(a, r, s, m) == s[r] = a \/ a \in m[r]

\* The masks agree with the sets of holders.
Agree(k, s, m) ==
    \A a \in Addresses : \A r \in Roles : r \in k[a] <=> Holds(a, r, s, m)

(***************************************************************************)
(* The mask of an address, by which every contract of the market decides,  *)
(* and the holders of a role, which the tools list, always tell the same,  *)
(* after any sequence of grants, revocations and calls with roles.         *)
(***************************************************************************)
HoldersMatchMasks == Idle => Agree(masks, single, multi)

(***************************************************************************)
(* Roles that were lent for a call are gone after it, whether the batch    *)
(* ended or was reverted at any of its calls: the helper, which everybody  *)
(* with a batch shares, keeps none.                                        *)
(***************************************************************************)
HelperKeepsNothing == (Idle \/ call.phase = "next") => masks[Helper] = {}

\* The roles that a single address was given, kept by singlets and by no sets.
KindsKeptApart ==
    \A r \in Roles :
       /\ single[r] # NoOne => mode[r] \in {"Singlet", "Protected"}
       /\ multi[r] # {} => mode[r] = "Multilet"

(***************************************************************************)
(* A temporary administrator takes nothing along: when the office passes   *)
(* on, is renounced, or ends in the midst of a call with roles, the roles  *)
(* the administrator had are revoked with it.                              *)
(***************************************************************************)
OfficeLeavesNothing ==
    [][temp.admin # NoOne /\ temp'.admin # temp.admin
          => masks'[temp.admin] = {}]_acVars

(***************************************************************************)
(* A protected address, once set, is changed only after its protection was *)
(* lifted by an administrator.                                             *)
(***************************************************************************)
ProtectedStays ==
    [][\A r \in Roles :
          mode[r] = "Protected" /\ single[r] # NoOne => single'[r] = single[r]]_acVars
=============================================================================
