----------------------------- MODULE SafeOwnable -----------------------------
(***************************************************************************)
(* contracts/tools/SafeOwnable.sol: ownership that is handed over in two   *)
(* steps.  While a hand-over is under way there is no active owner; the    *)
(* last owner can take the ownership back until the new one accepts.  The  *)
(* actions are parameterised by the sender of the transaction.             *)
(***************************************************************************)
CONSTANTS
    Accounts,    \* externally owned accounts
    Deployer,    \* the account that creates the contract
    NoOne        \* the zero address

ASSUME AccountsAssumption == Deployer \in Accounts /\ NoOne \notin Accounts

VARIABLE own     \* [last, active, pending]

OwnInit == own = [last |-> NoOne, active |-> Deployer, pending |-> Deployer]

owner == own.active

\* _initiateOwnershipTransfer; renounceOwnership does it with the zero address
TransferOwnership(by, new) ==
    /\ own.active = by
    /\ own' = [last |-> by, active |-> NoOne, pending |-> new]

AcceptOwnershipTransfer(by) ==
    /\ own.active = NoOne
    /\ own.pending = by \/ (own.pending = NoOne /\ own.last = by)
    /\ own' = [own EXCEPT !.last = NoOne, !.active = own.pending]

RecoverOwnership(by) ==
    /\ own.active = NoOne /\ own.last = by
    /\ own' = [last |-> NoOne, active |-> by, pending |-> by]

OwnNext ==
    \E by \in Accounts :
       \/ \E new \in Accounts \cup {NoOne} : TransferOwnership(by, new)
       \/ AcceptOwnershipTransfer(by)
       \/ RecoverOwnership(by)

-----------------------------------------------------------------------------

OwnTypeOK ==
    own \in [last : Accounts \cup {NoOne}, active : Accounts \cup {NoOne},
             pending : Accounts \cup {NoOne}]

(***************************************************************************)
(* Between the two steps of a hand-over the last owner is known and can    *)
(* take it back; an ownership without anyone is one that was renounced and *)
(* confirmed, and there is no way back from it.                            *)
(***************************************************************************)
OwnershipHeld ==
    /\ own.active # NoOne => own.last = NoOne /\ own.pending = own.active
    /\ own.active = NoOne /\ own.last = NoOne => own.pending = NoOne

\* A renounced ownership is final.
Renounced == own.active = NoOne /\ own.last = NoOne

RenouncedIsFinal == [][Renounced => UNCHANGED own]_own
=============================================================================
