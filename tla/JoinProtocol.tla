---------------------------- MODULE JoinProtocol ----------------------------
(***************************************************************************)
(* How an insured (insured/InsuredJoinBase.sol) becomes a member of an     *)
(* insurer (insurer/InsurerJoinBase.sol) and leaves it again.  Each side   *)
(* keeps its own record of the membership: the insurer a status by         *)
(* insured, the insured an account status by insurer and two lists of      *)
(* insurers.  They call each other within a transaction: joinPool calls    *)
(* requestJoin, which may call joinProcessed at once; an acceptance then   *)
(* calls pullCoverageDemand, which calls addCoverageDemand.  An action is  *)
(* one transaction; one that reverts changes nothing and is not an action. *)
(***************************************************************************)
EXTENDS Integers, Sequences

CONSTANTS
    Insureds,      \* insured policies
    Pools,         \* insurers
    Chartered,     \* insurers that ask for demand, the others get offers
    Governed,      \* insurers whose governor is a contract
    STATUS_MAX     \* type(uint16).max, smaller to reach the limit

ASSUME JoinAssumption ==
    /\ Chartered \subseteq Pools /\ Governed \subseteq Pools
    /\ STATUS_MAX \in Nat /\ STATUS_MAX > 3

VARIABLES
    status,             \* insurer: status of an insured
    accountStatus,      \* insured: status of an insurer
    genericInsurers,    \* insured: insurers not chartered
    charteredInsurers,  \* insured: chartered insurers
    cancelledInsureds,  \* insureds with a _cancelledAt
    demanded            \* insurer: insureds with demand or coverage

vars == <<status, accountStatus, genericInsurers, charteredInsurers, cancelledInsureds, demanded>>

-----------------------------------------------------------------------------
(* NotApplicable is an answer to a query and never stored. *)
MemberStatus == {"Unknown", "JoinCancelled", "JoinRejected", "JoinFailed", "Declined",
                 "Joining", "Accepted", "Banned"}

STATUS_NOT_JOINED == STATUS_MAX
STATUS_PENDING    == STATUS_MAX - 1
INDEX_MAX         == STATUS_MAX - 2

isIndex(s) == 0 < s /\ s <= INDEX_MAX
Insurers(i) == {genericInsurers[i][k] : k \in DOMAIN genericInsurers[i]} \union
               {charteredInsurers[i][k] : k \in DOMAIN charteredInsurers[i]}

(* A definition named Faulty... is its neighbour with a mistake put in: the *)
(* properties are shown to notice it.                                      *)

(* Status of the next insurer in a list of the insured. *)
FaultyNextIndex(i, p) == IF p \in Chartered THEN 2 * Len(charteredInsurers[i]) + 1
                         ELSE 2 * Len(genericInsurers[i])
nextIndex(i, p) == IF p \in Chartered THEN 2 * Len(charteredInsurers[i]) + 1
                   ELSE 2 * (Len(genericInsurers[i]) + 1)

(* The index is below INDEX_MAX. *)
hasRoom(i, p) == nextIndex(i, p) < INDEX_MAX

FaultyMayAsk(s) == s # STATUS_PENDING
mayAsk(s) == s \in {0, STATUS_NOT_JOINED}

(* Requests that an insurer ignores, status >= Joining. *)
FaultyIgnoresRequest(s) == s \in {"Joining", "Accepted"}
ignoresRequest(s) == s \in {"Joining", "Accepted", "Banned"}

(* internalInitiateJoin: without a contract as governor the decision comes *)
(* later, by approveJoiner.  A governor may answer anything, and the       *)
(* answer Unknown reverts.                                                 *)
initiateJoin(p) ==
    IF p \in Governed THEN (MemberStatus \ {"Unknown"}) \union {"NotApplicable"} ELSE {"Joining"}

(* An insurer that cancels the coverage of an insured ends its demand too. *)
FaultyLeave(i, p) == demanded
leave(i, p) == [demanded EXCEPT ![p] = @ \ {i}]

-----------------------------------------------------------------------------
Init ==
    /\ status = [p \in Pools |-> [i \in Insureds |-> "Unknown"]]
    /\ accountStatus = [i \in Insureds |-> [p \in Pools |-> 0]]
    /\ genericInsurers = [i \in Insureds |-> <<>>]
    /\ charteredInsurers = [i \in Insureds |-> <<>>]
    /\ cancelledInsureds = {}
    /\ demanded = [p \in Pools |-> {}]

(***************************************************************************)
(* The insurer accepts: joinProcessed(true) puts it into a list of the     *)
(* insured, which fails at the limit of the index, then demand may be      *)
(* pulled.                                                                 *)
(***************************************************************************)
acceptJoin(i, p) ==
    /\ hasRoom(i, p)
    /\ status' = [status EXCEPT ![p][i] = "Accepted"]
    /\ accountStatus' = [accountStatus EXCEPT ![i][p] = nextIndex(i, p)]
    /\ genericInsurers' = [genericInsurers EXCEPT ![i] = IF p \in Chartered THEN @ ELSE Append(@, p)]
    /\ charteredInsurers' = [charteredInsurers EXCEPT ![i] = IF p \in Chartered THEN Append(@, p) ELSE @]
    /\ \E pulled \in {{}, {i}} : demanded' = [demanded EXCEPT ![p] = @ \union pulled]
    /\ UNCHANGED cancelledInsureds

(* The insurer rejects: a failure of joinProcessed(false) is caught. *)
rejectJoin(i, p, newStatus, isPending) ==
    /\ status' = [status EXCEPT ![p][i] = newStatus]
    /\ accountStatus' = [accountStatus EXCEPT ![i][p] = IF isPending THEN STATUS_NOT_JOINED ELSE @]
    /\ UNCHANGED <<genericInsurers, charteredInsurers, cancelledInsureds, demanded>>

(***************************************************************************)
(* _updateInsuredStatus of an insured that is Joining.  It may be rejected *)
(* on acceptance too, when there are no approved parameters for it         *)
(* (internalPrepareJoin).                                                  *)
(***************************************************************************)
updateInsuredStatus(i, p, decision, isPending) ==
    \/ decision = "Accepted" /\ isPending /\ acceptJoin(i, p)
    \/ rejectJoin(i, p, IF decision = "Banned" THEN "Banned" ELSE "JoinRejected", isPending)

-----------------------------------------------------------------------------
(* Transactions of the insured.                                            *)

(* The insurer does not take the request, and will not answer. *)
joinIgnored(i, p) ==
    /\ mayAsk(accountStatus[i][p])
    /\ ignoresRequest(status[p][i])
    /\ accountStatus' = [accountStatus EXCEPT ![i][p] = STATUS_PENDING]
    /\ UNCHANGED <<status, genericInsurers, charteredInsurers, cancelledInsureds, demanded>>

joinRequested(i, p) ==
    /\ mayAsk(accountStatus[i][p])
    /\ ~ignoresRequest(status[p][i])
    /\ "Joining" \in initiateJoin(p)
    /\ status' = [status EXCEPT ![p][i] = "Joining"]
    /\ accountStatus' = [accountStatus EXCEPT ![i][p] = STATUS_PENDING]
    /\ UNCHANGED <<genericInsurers, charteredInsurers, cancelledInsureds, demanded>>

(* The governor decides at once: the account is pending in the callback. *)
joinDecided(i, p) ==
    /\ mayAsk(accountStatus[i][p])
    /\ ~ignoresRequest(status[p][i])
    /\ \E decision \in initiateJoin(p) \ {"Joining"} : updateInsuredStatus(i, p, decision, TRUE)

joinPool(i, p) == joinIgnored(i, p) \/ joinRequested(i, p) \/ joinDecided(i, p)

cancelJoin(i, p) ==
    /\ status[p][i] = "Joining"
    /\ status' = [status EXCEPT ![p][i] = "JoinCancelled"]
    /\ UNCHANGED <<accountStatus, genericInsurers, charteredInsurers, cancelledInsureds, demanded>>

(* pushCoverageDemandTo, and pullCoverageDemand when the insurer calls it. *)
addCoverageDemand(i, p) ==
    /\ isIndex(accountStatus[i][p])
    /\ status[p][i] = "Accepted"
    /\ demanded' = [demanded EXCEPT ![p] = @ \union {i}]
    /\ UNCHANGED <<status, accountStatus, genericInsurers, charteredInsurers, cancelledInsureds>>

(* Every insurer in the lists must cancel, or the transaction reverts. *)
canCancelCoverage(i) ==
    /\ i \notin cancelledInsureds
    /\ \A p \in Insurers(i) : status[p][i] = "Accepted"

cancelCoverage(i) ==
    /\ canCancelCoverage(i)
    /\ status' = [p \in Pools |-> [status[p] EXCEPT ![i] = IF p \in Insurers(i) THEN "Declined" ELSE @]]
    /\ demanded' = [p \in Pools |-> IF p \in Insurers(i) THEN demanded[p] \ {i} ELSE demanded[p]]
    /\ cancelledInsureds' = cancelledInsureds \union {i}
    /\ UNCHANGED <<accountStatus, genericInsurers, charteredInsurers>>

-----------------------------------------------------------------------------
(* Transactions of the insurer's governor or operator.                     *)

approveJoiner(p, i, accepted) ==
    /\ status[p][i] = "Joining"
    /\ updateInsuredStatus(i, p, IF accepted THEN "Accepted" ELSE "JoinRejected",
                           accountStatus[i][p] = STATUS_PENDING)

(* Cancellation that is not called by the insured: it is not told. *)
enforceCancel(p, i) ==
    /\ status[p][i] = "Accepted"
    /\ status' = [status EXCEPT ![p][i] = "Declined"]
    /\ demanded' = leave(i, p)
    /\ UNCHANGED <<accountStatus, genericInsurers, charteredInsurers, cancelledInsureds>>

Next ==
    \E i \in Insureds :
        \/ cancelCoverage(i)
        \/ \E p \in Pools :
              \/ joinPool(i, p)
              \/ cancelJoin(i, p)
              \/ addCoverageDemand(i, p)
              \/ \E accepted \in BOOLEAN : approveJoiner(p, i, accepted)
              \/ enforceCancel(p, i)

Spec == Init /\ [][Next]_vars

-----------------------------------------------------------------------------
(* The type invariant, with the bound that keeps the indexes of the lists  *)
(* clear of the codes for pending and not joined.                          *)
TypeOK ==
    /\ status \in [Pools -> [Insureds -> MemberStatus]]
    /\ accountStatus \in [Insureds -> [Pools -> 0..STATUS_MAX]]
    /\ genericInsurers \in [Insureds -> Seq(Pools)]
    /\ charteredInsurers \in [Insureds -> Seq(Pools)]
    /\ cancelledInsureds \subseteq Insureds
    /\ demanded \in [Pools -> SUBSET Insureds]
    /\ \A i \in Insureds : /\ 2 * Len(charteredInsurers[i]) - 1 < INDEX_MAX
                          /\ 2 * Len(genericInsurers[i]) < INDEX_MAX

(***************************************************************************)
(* The two records of a membership agree, whatever the order of requests,  *)
(* cancellations and decisions: an insurer that has a request waits for is *)
(* waited for by the insured, so its answer cannot fail; an insurer counts *)
(* as one for the insured if and only if it accepted the insured, even     *)
(* when it left it since; and one never asked knows nothing of it.         *)
(***************************************************************************)
MembershipAgreed ==
    \A i \in Insureds, p \in Pools :
        /\ status[p][i] = "Joining" => accountStatus[i][p] = STATUS_PENDING
        /\ isIndex(accountStatus[i][p]) <=> status[p][i] \in {"Accepted", "Declined"}
        /\ accountStatus[i][p] = 0 => status[p][i] = "Unknown"

(***************************************************************************)
(* The account status of an insurer is its place in the lists of the       *)
(* insured, odd in the chartered and even in the generic one, so that no   *)
(* insurer is listed twice and none is mistaken for another.               *)
(***************************************************************************)
IndexLocatesInsurer ==
    \A i \in Insureds :
        /\ \A k \in DOMAIN charteredInsurers[i] : accountStatus[i][charteredInsurers[i][k]] = 2 * k - 1
        /\ \A k \in DOMAIN genericInsurers[i] : accountStatus[i][genericInsurers[i][k]] = 2 * k
        /\ \A p \in Pools : isIndex(accountStatus[i][p]) => p \in Insurers(i)

(***************************************************************************)
(* Demand and coverage at an insurer belong to members, and the insurer is *)
(* a holder of the insured's premium tokens: premium can be collected.     *)
(***************************************************************************)
DemandOfMembersOnly ==
    \A p \in Pools : \A i \in demanded[p] :
        status[p][i] = "Accepted" /\ isIndex(accountStatus[i][p])

(* A membership that ended, and a ban, is final; and the insured never     *)
(* moves an insurer in its lists.                                          *)
MembershipIsFinal ==
    [][\A i \in Insureds, p \in Pools :
          /\ status[p][i] \in {"Declined", "Banned"} => status'[p][i] = status[p][i]
          /\ isIndex(accountStatus[i][p]) => accountStatus'[i][p] = accountStatus[i][p]]_vars

(* An insured with insurers can cancel its coverage. *)
CoverageCanBeCancelled ==
    \A i \in Insureds : i \notin cancelledInsureds => canCancelCoverage(i)

(* An insured that cancelled its coverage has no insurer. *)
CancelledHasNoInsurer ==
    \A i \in cancelledInsureds, p \in Pools : status[p][i] # "Accepted"
=============================================================================
