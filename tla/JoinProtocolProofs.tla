------------------------- MODULE JoinProtocolProofs -------------------------
(***************************************************************************)
(* Proofs about JoinProtocol, for every set of insureds and of insurers.   *)
(* The invariants are inductive together: an insurer in a list is known to *)
(* the insured by its index (IndexLocatesInsurer), an index means that the *)
(* insurer accepted the insured (MembershipAgreed), so a request, which    *)
(* needs an account without an index, never meets a listed insurer.        *)
(***************************************************************************)
EXTENDS JoinProtocol, SequenceTheorems, TLAPS

IInv == TypeOK /\ MembershipAgreed /\ IndexLocatesInsurer /\ DemandOfMembersOnly

-----------------------------------------------------------------------------
(* The codes of InsuredJoinBase.sol:11-14 are distinct and are no index.   *)
LEMMA StatusCodes ==
    /\ STATUS_NOT_JOINED \in 0..STATUS_MAX /\ STATUS_PENDING \in 0..STATUS_MAX /\ INDEX_MAX \in Nat
    /\ ~isIndex(0) /\ ~isIndex(STATUS_PENDING) /\ ~isIndex(STATUS_NOT_JOINED)
    /\ STATUS_PENDING # 0 /\ STATUS_NOT_JOINED # 0 /\ STATUS_PENDING # STATUS_NOT_JOINED
    /\ \A s \in Int : isIndex(s) => s \in 0..STATUS_MAX
  BY JoinAssumption DEF STATUS_NOT_JOINED, STATUS_PENDING, INDEX_MAX, isIndex

(* An insurer in a list of the insured has an index as its account status. *)
LEMMA ListedHasIndex ==
    ASSUME TypeOK, IndexLocatesInsurer, NEW i \in Insureds, NEW p \in Insurers(i)
    PROVE  isIndex(accountStatus[i][p])
<1>1. CASE \E k \in DOMAIN charteredInsurers[i] : p = charteredInsurers[i][k]
  <2>1. PICK k \in DOMAIN charteredInsurers[i] : p = charteredInsurers[i][k]
    BY <1>1
  <2>2. accountStatus[i][p] = 2 * k - 1
    BY <2>1 DEF IndexLocatesInsurer
  <2>3. k \in 1..Len(charteredInsurers[i]) /\ Len(charteredInsurers[i]) \in Nat
    BY <2>1 DEF TypeOK
  <2>4. 2 * Len(charteredInsurers[i]) - 1 < INDEX_MAX
    BY DEF TypeOK
  <2>. QED
    BY <2>2, <2>3, <2>4, StatusCodes DEF isIndex
<1>2. CASE \E k \in DOMAIN genericInsurers[i] : p = genericInsurers[i][k]
  <2>1. PICK k \in DOMAIN genericInsurers[i] : p = genericInsurers[i][k]
    BY <1>2
  <2>2. accountStatus[i][p] = 2 * k
    BY <2>1 DEF IndexLocatesInsurer
  <2>3. k \in 1..Len(genericInsurers[i]) /\ Len(genericInsurers[i]) \in Nat
    BY <2>1 DEF TypeOK
  <2>4. 2 * Len(genericInsurers[i]) < INDEX_MAX
    BY DEF TypeOK
  <2>. QED
    BY <2>2, <2>3, <2>4, StatusCodes DEF isIndex
<1>. QED
  BY <1>1, <1>2 DEF Insurers

(* A change of the account status of an insurer that is not listed leaves  *)
(* the lists as they locate their insurers.                                *)
LEMMA UnlistedChange ==
    ASSUME TypeOK, IndexLocatesInsurer,
           NEW i \in Insureds, NEW p \in Pools, NEW s \in 0..STATUS_MAX,
           ~isIndex(accountStatus[i][p]), ~isIndex(s),
           accountStatus' = [accountStatus EXCEPT ![i][p] = s],
           UNCHANGED <<genericInsurers, charteredInsurers>>
    PROVE  IndexLocatesInsurer'
<1>. SUFFICES ASSUME NEW j \in Insureds
     PROVE /\ \A k \in DOMAIN charteredInsurers[j] : accountStatus'[j][charteredInsurers[j][k]] = 2 * k - 1
           /\ \A k \in DOMAIN genericInsurers[j] : accountStatus'[j][genericInsurers[j][k]] = 2 * k
           /\ \A q \in Pools : isIndex(accountStatus'[j][q]) => q \in Insurers(j)
  BY DEF IndexLocatesInsurer, Insurers, isIndex
<1>1. p \notin Insurers(i)
  BY ListedHasIndex
<1>2. \A q \in Pools : (j # i \/ q # p) => accountStatus'[j][q] = accountStatus[j][q]
  BY DEF TypeOK
<1>3. accountStatus'[i][p] = s
  BY DEF TypeOK
<1>4. \A q \in Insurers(j) : q \in Pools /\ (j # i \/ q # p)
  BY <1>1 DEF Insurers, TypeOK
<1>5. \A q \in Insurers(j) : accountStatus'[j][q] = accountStatus[j][q]
  BY <1>2, <1>4
<1>. QED
  BY <1>2, <1>3, <1>5 DEF IndexLocatesInsurer, Insurers

-----------------------------------------------------------------------------
(* Joining: the insurer accepts an insured that it did not accept before.  *)
LEMMA AcceptKeepsIInv ==
    ASSUME IInv, NEW i \in Insureds, NEW p \in Pools,
           status[p][i] \notin {"Accepted", "Declined"}, acceptJoin(i, p)
    PROVE  IInv'
<1>. DEFINE index == nextIndex(i, p)
<1>. USE DEF acceptJoin
<1>1. /\ index \in Nat /\ isIndex(index) /\ index \in 0..STATUS_MAX
      /\ p \in Chartered => index = 2 * (Len(charteredInsurers[i]) + 1) - 1
      /\ p \notin Chartered => index = 2 * (Len(genericInsurers[i]) + 1)
  <2>1. Len(charteredInsurers[i]) \in Nat /\ Len(genericInsurers[i]) \in Nat
    BY DEF IInv, TypeOK
  <2>. QED
    BY <2>1, JoinAssumption DEF nextIndex, hasRoom, isIndex, INDEX_MAX
<1>2. /\ ~isIndex(accountStatus[i][p])
      /\ p \notin Insurers(i)
  BY ListedHasIndex DEF IInv, MembershipAgreed
<1>3. TypeOK'
  <2>1. /\ status' \in [Pools -> [Insureds -> MemberStatus]]
        /\ accountStatus' \in [Insureds -> [Pools -> 0..STATUS_MAX]]
        /\ cancelledInsureds' \subseteq Insureds
        /\ demanded' \in [Pools -> SUBSET Insureds]
    BY <1>1 DEF IInv, TypeOK, MemberStatus
  <2>2. /\ genericInsurers' \in [Insureds -> Seq(Pools)]
        /\ charteredInsurers' \in [Insureds -> Seq(Pools)]
    BY DEF IInv, TypeOK
  <2>3. ASSUME NEW j \in Insureds
        PROVE  /\ 2 * Len(charteredInsurers'[j]) - 1 < INDEX_MAX
               /\ 2 * Len(genericInsurers'[j]) < INDEX_MAX
    BY <1>1 DEF IInv, TypeOK, hasRoom
  <2>. QED
    BY <2>1, <2>2, <2>3 DEF TypeOK, INDEX_MAX
<1>4. \A j \in Insureds, q \in Pools :
         IF j = i /\ q = p THEN status'[q][j] = "Accepted" /\ accountStatus'[j][q] = index
         ELSE status'[q][j] = status[q][j] /\ accountStatus'[j][q] = accountStatus[j][q]
  BY DEF IInv, TypeOK
<1>5. MembershipAgreed'
  <2>. SUFFICES ASSUME NEW j \in Insureds, NEW q \in Pools
       PROVE /\ status'[q][j] = "Joining" => accountStatus'[j][q] = STATUS_PENDING
             /\ isIndex(accountStatus'[j][q]) <=> status'[q][j] \in {"Accepted", "Declined"}
             /\ accountStatus'[j][q] = 0 => status'[q][j] = "Unknown"
    BY DEF MembershipAgreed, isIndex, STATUS_PENDING, INDEX_MAX
  <2>1. CASE j = i /\ q = p
    BY <2>1, <1>1, <1>4, StatusCodes
  <2>2. CASE ~(j = i /\ q = p)
    BY <2>2, <1>4 DEF IInv, MembershipAgreed
  <2>. QED
    BY <2>1, <2>2
<1>6. IndexLocatesInsurer'
  <2>. SUFFICES ASSUME NEW j \in Insureds
       PROVE /\ \A k \in DOMAIN charteredInsurers'[j] : accountStatus'[j][charteredInsurers'[j][k]] = 2 * k - 1
             /\ \A k \in DOMAIN genericInsurers'[j] : accountStatus'[j][genericInsurers'[j][k]] = 2 * k
             /\ \A q \in Pools : isIndex(accountStatus'[j][q]) => q \in Insurers(j)'
    BY DEF IndexLocatesInsurer, isIndex, INDEX_MAX
  <2>1. CASE j # i
    <3>1. /\ charteredInsurers'[j] = charteredInsurers[j]
          /\ genericInsurers'[j] = genericInsurers[j]
          /\ accountStatus'[j] = accountStatus[j]
      BY <2>1 DEF IInv, TypeOK
    <3>2. Insurers(j)' = Insurers(j)
      BY <3>1 DEF Insurers
    <3>. HIDE DEF acceptJoin
    <3>. QED
      BY <3>1, <3>2 DEF IInv, IndexLocatesInsurer
  <2>2. CASE j = i
    <3>1. \A q \in Insurers(i) : q \in Pools /\ accountStatus'[i][q] = accountStatus[i][q]
      BY <1>2, <1>4 DEF Insurers, IInv, TypeOK
    <3>2. CASE p \in Chartered
      <4>. DEFINE list == charteredInsurers[i]
      <4>1. list \in Seq(Pools) /\ genericInsurers'[i] = genericInsurers[i] /\ charteredInsurers'[i] = Append(list, p)
        BY <3>2 DEF IInv, TypeOK
      <4>2. /\ DOMAIN Append(list, p) = 1..(Len(list) + 1)
            /\ \A k \in 1..Len(list) : Append(list, p)[k] = list[k]
            /\ Append(list, p)[Len(list) + 1] = p
            /\ DOMAIN list = 1..Len(list) /\ Len(list) \in Nat
        BY <4>1, AppendProperties
      <4>3. \A k \in 1..Len(list) : accountStatus'[i][list[k]] = 2 * k - 1
        BY <3>1, <4>2 DEF Insurers, IInv, IndexLocatesInsurer
      <4>4. accountStatus'[i][p] = 2 * (Len(list) + 1) - 1
        BY <1>1, <1>4, <3>2
      <4>5. ASSUME NEW k \in 1..(Len(list) + 1)
            PROVE  accountStatus'[i][Append(list, p)[k]] = 2 * k - 1
        <5>. HIDE DEF list, acceptJoin
        <5>1. k \in 1..Len(list) \/ k = Len(list) + 1
          BY <4>2
        <5>. QED
          BY <5>1, <4>2, <4>3, <4>4
      <4>6. \A k \in DOMAIN genericInsurers[i] : accountStatus'[i][genericInsurers[i][k]] = 2 * k
        BY <3>1 DEF Insurers, IInv, IndexLocatesInsurer
      <4>7. Insurers(i) \union {p} \subseteq Insurers(i)'
        BY <4>1, <4>2 DEF Insurers
      <4>8. \A q \in Pools : isIndex(accountStatus'[i][q]) => q \in Insurers(i)'
        BY <4>7, <1>4 DEF IInv, IndexLocatesInsurer
      <4>. QED
        BY <2>2, <4>1, <4>2, <4>5, <4>6, <4>8
    <3>3. CASE p \notin Chartered
      <4>. DEFINE list == genericInsurers[i]
      <4>1. list \in Seq(Pools) /\ charteredInsurers'[i] = charteredInsurers[i] /\ genericInsurers'[i] = Append(list, p)
        BY <3>3 DEF IInv, TypeOK
      <4>2. /\ DOMAIN Append(list, p) = 1..(Len(list) + 1)
            /\ \A k \in 1..Len(list) : Append(list, p)[k] = list[k]
            /\ Append(list, p)[Len(list) + 1] = p
            /\ DOMAIN list = 1..Len(list) /\ Len(list) \in Nat
        BY <4>1, AppendProperties
      <4>3. \A k \in 1..Len(list) : accountStatus'[i][list[k]] = 2 * k
        BY <3>1, <4>2 DEF Insurers, IInv, IndexLocatesInsurer
      <4>4. accountStatus'[i][p] = 2 * (Len(list) + 1)
        BY <1>1, <1>4, <3>3
      <4>5. \A k \in 1..(Len(list) + 1) : accountStatus'[i][Append(list, p)[k]] = 2 * k
        BY <4>2, <4>3, <4>4
      <4>6. \A k \in DOMAIN charteredInsurers[i] : accountStatus'[i][charteredInsurers[i][k]] = 2 * k - 1
        BY <3>1 DEF Insurers, IInv, IndexLocatesInsurer
      <4>7. Insurers(i) \union {p} \subseteq Insurers(i)'
        BY <4>1, <4>2 DEF Insurers
      <4>8. \A q \in Pools : isIndex(accountStatus'[i][q]) => q \in Insurers(i)'
        BY <4>7, <1>4 DEF IInv, IndexLocatesInsurer
      <4>. QED
        BY <2>2, <4>1, <4>2, <4>5, <4>6, <4>8
    <3>. QED
      BY <3>2, <3>3
  <2>. QED
    BY <2>1, <2>2
<1>7. DemandOfMembersOnly'
  <2>. SUFFICES ASSUME NEW q \in Pools, NEW j \in demanded'[q]
       PROVE status'[q][j] = "Accepted" /\ isIndex(accountStatus'[j][q])
    BY DEF DemandOfMembersOnly, isIndex, INDEX_MAX
  <2>1. j \in Insureds /\ ((j = i /\ q = p) \/ j \in demanded[q])
    BY DEF IInv, TypeOK
  <2>. QED
    BY <2>1, <1>1, <1>4 DEF IInv, DemandOfMembersOnly
<1>. QED
  BY <1>3, <1>5, <1>6, <1>7 DEF IInv

(* Any other step of a pair without a membership: a request, a rejection   *)
(* or a withdrawal, after which there is still no membership.              *)
LEMMA UnlistedKeepsIInv ==
    ASSUME IInv, NEW i \in Insureds, NEW p \in Pools,
           NEW code \in 0..STATUS_MAX, NEW answer \in MemberStatus,
           status[p][i] \notin {"Accepted", "Declined"}, ~isIndex(code),
           answer \notin {"Accepted", "Declined"},
           answer = "Joining" => code = STATUS_PENDING,
           code = 0 => answer = "Unknown",
           accountStatus' = [accountStatus EXCEPT ![i][p] = code],
           status' = [status EXCEPT ![p][i] = answer],
           UNCHANGED <<genericInsurers, charteredInsurers, cancelledInsureds, demanded>>
    PROVE  IInv'
<1>1. ~isIndex(accountStatus[i][p])
  BY DEF IInv, MembershipAgreed
<1>2. TypeOK'
  BY DEF IInv, TypeOK, INDEX_MAX
<1>3. \A j \in Insureds, q \in Pools :
         IF j = i /\ q = p THEN status'[q][j] = answer /\ accountStatus'[j][q] = code
         ELSE status'[q][j] = status[q][j] /\ accountStatus'[j][q] = accountStatus[j][q]
  BY DEF IInv, TypeOK
<1>4. MembershipAgreed'
  <2>. SUFFICES ASSUME NEW j \in Insureds, NEW q \in Pools
       PROVE /\ status'[q][j] = "Joining" => accountStatus'[j][q] = STATUS_PENDING
             /\ isIndex(accountStatus'[j][q]) <=> status'[q][j] \in {"Accepted", "Declined"}
             /\ accountStatus'[j][q] = 0 => status'[q][j] = "Unknown"
    BY DEF MembershipAgreed, isIndex, STATUS_PENDING, INDEX_MAX
  <2>1. CASE j = i /\ q = p
    BY <2>1, <1>3
  <2>2. CASE ~(j = i /\ q = p)
    BY <2>2, <1>3 DEF IInv, MembershipAgreed
  <2>. QED
    BY <2>1, <2>2
<1>5. IndexLocatesInsurer'
  BY <1>1, UnlistedChange DEF IInv
<1>6. DemandOfMembersOnly'
  <2>. SUFFICES ASSUME NEW q \in Pools, NEW j \in demanded[q]
       PROVE status'[q][j] = "Accepted" /\ isIndex(accountStatus'[j][q])
    BY DEF DemandOfMembersOnly, isIndex, INDEX_MAX
  <2>1. j \in Insureds /\ status[q][j] = "Accepted" /\ isIndex(accountStatus[j][q])
    BY DEF IInv, TypeOK, DemandOfMembersOnly
  <2>. QED
    BY <2>1, <1>3
<1>. QED
  BY <1>2, <1>4, <1>5, <1>6 DEF IInv

(* The decision on an insured whose account is pending, in any way.        *)
LEMMA DecisionKeepsIInv ==
    ASSUME IInv, NEW i \in Insureds, NEW p \in Pools, NEW decision, NEW isPending \in BOOLEAN,
           status[p][i] \notin {"Accepted", "Declined"}, isPending,
           updateInsuredStatus(i, p, decision, isPending)
    PROVE  IInv'
<1>1. CASE acceptJoin(i, p)
  BY <1>1, AcceptKeepsIInv
<1>2. CASE rejectJoin(i, p, IF decision = "Banned" THEN "Banned" ELSE "JoinRejected", isPending)
  <2>. DEFINE answer == IF decision = "Banned" THEN "Banned" ELSE "JoinRejected"
  <2>1. /\ accountStatus' = [accountStatus EXCEPT ![i][p] = STATUS_NOT_JOINED]
        /\ status' = [status EXCEPT ![p][i] = answer]
        /\ UNCHANGED <<genericInsurers, charteredInsurers, cancelledInsureds, demanded>>
    BY <1>2 DEF rejectJoin
  <2>2. answer \in MemberStatus /\ answer \notin {"Accepted", "Declined", "Joining"}
    BY DEF MemberStatus
  <2>. QED
    BY <2>1, <2>2, StatusCodes, UnlistedKeepsIInv
<1>. QED
  BY <1>1, <1>2 DEF updateInsuredStatus

-----------------------------------------------------------------------------
(* Leaving: the insureds in gone lose their membership with the insurers   *)
(* that are paired with them, and their demand there with it.              *)
LEMMA LeavingKeepsIInv ==
    ASSUME IInv, NEW gone \in [Pools -> SUBSET Insureds],
           \A q \in Pools : \A j \in gone[q] : status[q][j] = "Accepted",
           status' = [q \in Pools |-> [j \in Insureds |-> IF j \in gone[q] THEN "Declined" ELSE status[q][j]]],
           demanded' = [q \in Pools |-> demanded[q] \ gone[q]],
           cancelledInsureds' \subseteq Insureds,
           UNCHANGED <<accountStatus, genericInsurers, charteredInsurers>>
    PROVE  IInv'
<1>1. TypeOK'
  BY DEF IInv, TypeOK, MemberStatus, INDEX_MAX
<1>2. MembershipAgreed'
  <2>. SUFFICES ASSUME NEW j \in Insureds, NEW q \in Pools
       PROVE /\ status'[q][j] = "Joining" => accountStatus[j][q] = STATUS_PENDING
             /\ isIndex(accountStatus[j][q]) <=> status'[q][j] \in {"Accepted", "Declined"}
             /\ accountStatus[j][q] = 0 => status'[q][j] = "Unknown"
    BY DEF MembershipAgreed, isIndex, STATUS_PENDING, INDEX_MAX
  <2>1. CASE j \in gone[q]
    <3>1. status[q][j] = "Accepted" /\ status'[q][j] = "Declined"
      BY <2>1
    <3>. QED
      BY <3>1 DEF IInv, MembershipAgreed
  <2>2. CASE j \notin gone[q]
    <3>1. status'[q][j] = status[q][j]
      BY <2>2
    <3>. QED
      BY <3>1 DEF IInv, MembershipAgreed
  <2>. QED
    BY <2>1, <2>2
<1>3. IndexLocatesInsurer'
  BY DEF IInv, IndexLocatesInsurer, Insurers, isIndex, INDEX_MAX
<1>4. DemandOfMembersOnly'
  <2>. SUFFICES ASSUME NEW q \in Pools, NEW j \in demanded'[q]
       PROVE status'[q][j] = "Accepted" /\ isIndex(accountStatus[j][q])
    BY DEF DemandOfMembersOnly, isIndex, INDEX_MAX
  <2>1. j \in demanded[q] /\ j \notin gone[q] /\ j \in Insureds
    BY DEF IInv, TypeOK
  <2>. QED
    BY <2>1 DEF IInv, DemandOfMembersOnly
<1>. QED
  BY <1>1, <1>2, <1>3, <1>4 DEF IInv

-----------------------------------------------------------------------------
(* An insured may ask an insurer that it has no answer of, or whose        *)
(* rejection it got: it is not a member there.                             *)
LEMMA AskerIsNoMember ==
    ASSUME IInv, NEW i \in Insureds, NEW p \in Pools, mayAsk(accountStatus[i][p])
    PROVE  status[p][i] \notin {"Joining", "Accepted", "Declined"}
  BY StatusCodes DEF IInv, MembershipAgreed, mayAsk

LEMMA InitIInv == Init => IInv
<1>. SUFFICES ASSUME Init PROVE IInv
  OBVIOUS
<1>1. TypeOK
  <2>1. <<>> \in Seq(Pools) /\ Len(<<>>) = 0
    OBVIOUS
  <2>2. 0 \in 0..STATUS_MAX /\ 0 < INDEX_MAX
    BY JoinAssumption DEF INDEX_MAX
  <2>. QED
    BY <2>1, <2>2, StatusCodes DEF Init, TypeOK, MemberStatus
<1>2. MembershipAgreed
  BY StatusCodes DEF Init, MembershipAgreed
<1>3. IndexLocatesInsurer
  <2>. SUFFICES ASSUME NEW i \in Insureds
       PROVE /\ DOMAIN charteredInsurers[i] = {} /\ DOMAIN genericInsurers[i] = {}
             /\ \A p \in Pools : ~isIndex(accountStatus[i][p])
    BY DEF IndexLocatesInsurer
  <2>1. charteredInsurers[i] = <<>> /\ genericInsurers[i] = <<>>
    BY DEF Init
  <2>. QED
    BY <2>1, StatusCodes DEF Init
<1>4. DemandOfMembersOnly
  BY DEF Init, DemandOfMembersOnly
<1>. QED
  BY <1>1, <1>2, <1>3, <1>4 DEF IInv

LEMMA JoinPoolKeepsIInv ==
    ASSUME IInv, NEW i \in Insureds, NEW p \in Pools, joinPool(i, p)
    PROVE  IInv'
<1>1. CASE joinIgnored(i, p)
  <2>. DEFINE answer == status[p][i]
  <2>1. answer \in MemberStatus
    BY DEF IInv, TypeOK
  <2>2. answer \notin {"Joining", "Accepted", "Declined"}
    BY <1>1, AskerIsNoMember DEF joinIgnored
  <2>3. status' = [status EXCEPT ![p][i] = answer]
    BY <1>1 DEF joinIgnored, IInv, TypeOK
  <2>4. /\ accountStatus' = [accountStatus EXCEPT ![i][p] = STATUS_PENDING]
        /\ UNCHANGED <<genericInsurers, charteredInsurers, cancelledInsureds, demanded>>
    BY <1>1 DEF joinIgnored
  <2>5. status[p][i] \notin {"Accepted", "Declined"}
    BY <2>2
  <2>. HIDE DEF answer
  <2>. QED
    BY <2>1, <2>2, <2>3, <2>4, <2>5, StatusCodes, UnlistedKeepsIInv
<1>2. CASE joinRequested(i, p)
  <2>1. status[p][i] \notin {"Joining", "Accepted", "Declined"}
    BY <1>2, AskerIsNoMember DEF joinRequested
  <2>2. "Joining" \in MemberStatus
    BY DEF MemberStatus
  <2>. QED
    BY <1>2, <2>1, <2>2, StatusCodes, UnlistedKeepsIInv DEF joinRequested
<1>3. CASE joinDecided(i, p)
  <2>1. status[p][i] \notin {"Joining", "Accepted", "Declined"}
    BY <1>3, AskerIsNoMember DEF joinDecided
  <2>2. PICK decision \in initiateJoin(p) \ {"Joining"} : updateInsuredStatus(i, p, decision, TRUE)
    BY <1>3 DEF joinDecided
  <2>. QED
    BY <2>1, <2>2, DecisionKeepsIInv
<1>. QED
  BY <1>1, <1>2, <1>3 DEF joinPool

LEMMA CancelJoinKeepsIInv ==
    ASSUME IInv, NEW i \in Insureds, NEW p \in Pools, cancelJoin(i, p)
    PROVE  IInv'
<1>1. accountStatus[i][p] = STATUS_PENDING /\ status[p][i] = "Joining"
  BY DEF cancelJoin, IInv, MembershipAgreed
<1>2. accountStatus' = [accountStatus EXCEPT ![i][p] = STATUS_PENDING]
  BY <1>1 DEF cancelJoin, IInv, TypeOK
<1>3. "JoinCancelled" \in MemberStatus
  BY DEF MemberStatus
<1>. QED
  BY <1>1, <1>2, <1>3, StatusCodes, UnlistedKeepsIInv DEF cancelJoin

LEMMA AddDemandKeepsIInv ==
    ASSUME IInv, NEW i \in Insureds, NEW p \in Pools, addCoverageDemand(i, p)
    PROVE  IInv'
<1>1. TypeOK'
  BY DEF addCoverageDemand, IInv, TypeOK, INDEX_MAX
<1>2. MembershipAgreed' /\ IndexLocatesInsurer'
  BY DEF addCoverageDemand, IInv, MembershipAgreed, IndexLocatesInsurer, Insurers,
         isIndex, INDEX_MAX, STATUS_PENDING
<1>3. DemandOfMembersOnly'
  BY DEF addCoverageDemand, IInv, TypeOK, DemandOfMembersOnly, isIndex, INDEX_MAX
<1>. QED
  BY <1>1, <1>2, <1>3 DEF IInv

LEMMA CancelCoverageKeepsIInv ==
    ASSUME IInv, NEW i \in Insureds, cancelCoverage(i)
    PROVE  IInv'
<1>. DEFINE gone == [q \in Pools |-> IF q \in Insurers(i) THEN {i} ELSE {}]
<1>1. /\ gone \in [Pools -> SUBSET Insureds]
      /\ \A q \in Pools : \A j \in gone[q] : status[q][j] = "Accepted"
  BY DEF cancelCoverage, canCancelCoverage
<1>2. status' = [q \in Pools |-> [j \in Insureds |-> IF j \in gone[q] THEN "Declined" ELSE status[q][j]]]
  BY DEF cancelCoverage, IInv, TypeOK
<1>3. demanded' = [q \in Pools |-> demanded[q] \ gone[q]]
  BY DEF cancelCoverage, IInv, TypeOK
<1>4. cancelledInsureds' \subseteq Insureds
  BY DEF cancelCoverage, IInv, TypeOK
<1>5. UNCHANGED <<accountStatus, genericInsurers, charteredInsurers>>
  BY DEF cancelCoverage
<1>. HIDE DEF gone
<1>. QED
  BY <1>1, <1>2, <1>3, <1>4, <1>5, LeavingKeepsIInv

LEMMA EnforceCancelKeepsIInv ==
    ASSUME IInv, NEW i \in Insureds, NEW p \in Pools, enforceCancel(p, i)
    PROVE  IInv'
<1>. DEFINE gone == [q \in Pools |-> IF q = p THEN {i} ELSE {}]
<1>1. /\ gone \in [Pools -> SUBSET Insureds]
      /\ \A q \in Pools : \A j \in gone[q] : status[q][j] = "Accepted"
  BY DEF enforceCancel
<1>2. status' = [q \in Pools |-> [j \in Insureds |-> IF j \in gone[q] THEN "Declined" ELSE status[q][j]]]
  BY DEF enforceCancel, IInv, TypeOK
<1>3. demanded' = [q \in Pools |-> demanded[q] \ gone[q]]
  BY DEF enforceCancel, leave, IInv, TypeOK
<1>4. cancelledInsureds' \subseteq Insureds
  BY DEF enforceCancel, IInv, TypeOK
<1>5. UNCHANGED <<accountStatus, genericInsurers, charteredInsurers>>
  BY DEF enforceCancel
<1>. HIDE DEF gone
<1>. QED
  BY <1>1, <1>2, <1>3, <1>4, <1>5, LeavingKeepsIInv

LEMMA ApproveJoinerKeepsIInv ==
    ASSUME IInv, NEW i \in Insureds, NEW p \in Pools, NEW accepted \in BOOLEAN, approveJoiner(p, i, accepted)
    PROVE  IInv'
<1>1. accountStatus[i][p] = STATUS_PENDING /\ status[p][i] = "Joining"
  BY DEF approveJoiner, IInv, MembershipAgreed
<1>2. updateInsuredStatus(i, p, IF accepted THEN "Accepted" ELSE "JoinRejected", TRUE)
  BY <1>1 DEF approveJoiner
<1>. QED
  BY <1>1, <1>2, DecisionKeepsIInv

LEMMA NextKeepsIInv == IInv /\ [Next]_vars => IInv'
<1>. SUFFICES ASSUME IInv, [Next]_vars PROVE IInv'
  OBVIOUS
<1>1. CASE UNCHANGED vars
  BY <1>1 DEF vars, IInv, TypeOK, MembershipAgreed, IndexLocatesInsurer, DemandOfMembersOnly,
              Insurers, isIndex, INDEX_MAX, STATUS_PENDING
<1>2. ASSUME NEW i \in Insureds, cancelCoverage(i)
      PROVE  IInv'
  BY <1>2, CancelCoverageKeepsIInv
<1>3. ASSUME NEW i \in Insureds, NEW p \in Pools,
             \/ joinPool(i, p) \/ cancelJoin(i, p) \/ addCoverageDemand(i, p)
             \/ (\E accepted \in BOOLEAN : approveJoiner(p, i, accepted))
             \/ enforceCancel(p, i)
      PROVE  IInv'
  BY <1>3, JoinPoolKeepsIInv, CancelJoinKeepsIInv, AddDemandKeepsIInv, ApproveJoinerKeepsIInv,
     EnforceCancelKeepsIInv
<1>. QED
  BY <1>1, <1>2, <1>3 DEF Next

-----------------------------------------------------------------------------
(* The theorems: what holds in every state of every instance.              *)

LEMMA Invariant == Spec => []IInv
  BY InitIInv, NextKeepsIInv, PTL DEF Spec

(* Every variable has its type and no index reaches the codes of pending   *)
(* and not joined (InsuredJoinBase.internalJoinProcessed).                 *)
THEOREM TypeCorrect == Spec => []TypeOK
<1>1. IInv => TypeOK
  BY DEF IInv
<1>. QED
  BY <1>1, Invariant, PTL

(* The status at the insurer and the account status at the insured agree.  *)
THEOREM MembershipIsAgreed == Spec => []MembershipAgreed
<1>1. IInv => MembershipAgreed
  BY DEF IInv
<1>. QED
  BY <1>1, Invariant, PTL

(* The account status of an insurer is its place in the insured's lists.   *)
THEOREM IndexIsPlace == Spec => []IndexLocatesInsurer
<1>1. IInv => IndexLocatesInsurer
  BY DEF IInv
<1>. QED
  BY <1>1, Invariant, PTL

(* Only members have demand or coverage at an insurer.                     *)
THEOREM OnlyMembersDemand == Spec => []DemandOfMembersOnly
<1>1. IInv => DemandOfMembersOnly
  BY DEF IInv
<1>. QED
  BY <1>1, Invariant, PTL

(* No step undoes an end of membership or a ban, or moves an insurer in    *)
(* the insured's lists.                                                    *)
THEOREM FinalMembership == Spec => MembershipIsFinal
<1>. DEFINE Final == \A i \in Insureds, p \in Pools :
              /\ status[p][i] \in {"Declined", "Banned"} => status'[p][i] = status[p][i]
              /\ isIndex(accountStatus[i][p]) => accountStatus'[i][p] = accountStatus[i][p]
<1>1. ASSUME IInv, Next PROVE Final
  <2>. SUFFICES ASSUME NEW i \in Insureds, NEW p \in Pools
       PROVE /\ status[p][i] \in {"Declined", "Banned"} => status'[p][i] = status[p][i]
             /\ isIndex(accountStatus[i][p]) => accountStatus'[i][p] = accountStatus[i][p]
    OBVIOUS
  <2>1. ASSUME NEW j \in Insureds, cancelCoverage(j)
        PROVE  /\ status[p][i] \in {"Declined", "Banned"} => status'[p][i] = status[p][i]
               /\ accountStatus'[i][p] = accountStatus[i][p]
    BY <1>1, <2>1 DEF cancelCoverage, canCancelCoverage, IInv, TypeOK
  <2>2. ASSUME NEW j \in Insureds, NEW q \in Pools, joinPool(j, q)
        PROVE  /\ status[p][i] \in {"Declined", "Banned"} => status'[p][i] = status[p][i]
               /\ isIndex(accountStatus[i][p]) => accountStatus'[i][p] = accountStatus[i][p]
    <3>1. mayAsk(accountStatus[j][q]) /\ ~isIndex(accountStatus[j][q])
      BY <2>2, StatusCodes DEF joinPool, joinIgnored, joinRequested, joinDecided, mayAsk
    <3>2. status[q][j] \notin {"Joining", "Accepted", "Declined"}
      BY <1>1, <3>1, AskerIsNoMember
    <3>3. CASE i # j \/ p # q
      BY <1>1, <2>2, <3>3 DEF IInv, TypeOK, joinPool, joinIgnored, joinRequested, joinDecided,
            updateInsuredStatus, acceptJoin, rejectJoin
    <3>4. CASE i = j /\ p = q
      BY <1>1, <2>2, <3>1, <3>2, <3>4 DEF IInv, TypeOK, joinPool, joinIgnored, joinRequested, joinDecided,
            ignoresRequest
    <3>. QED
      BY <3>3, <3>4
  <2>3. ASSUME NEW j \in Insureds, NEW q \in Pools, cancelJoin(j, q)
        PROVE  /\ status[p][i] \in {"Declined", "Banned"} => status'[p][i] = status[p][i]
               /\ accountStatus'[i][p] = accountStatus[i][p]
    BY <1>1, <2>3 DEF cancelJoin, IInv, TypeOK
  <2>4. ASSUME NEW j \in Insureds, NEW q \in Pools, NEW accepted \in BOOLEAN, approveJoiner(q, j, accepted)
        PROVE  /\ status[p][i] \in {"Declined", "Banned"} => status'[p][i] = status[p][i]
               /\ isIndex(accountStatus[i][p]) => accountStatus'[i][p] = accountStatus[i][p]
    <3>1. status[q][j] = "Joining" /\ ~isIndex(accountStatus[j][q])
      BY <1>1, <2>4 DEF approveJoiner, IInv, MembershipAgreed
    <3>2. i # j \/ p # q => status'[p][i] = status[p][i] /\ accountStatus'[i][p] = accountStatus[i][p]
      <4>1. CASE acceptJoin(j, q)
        BY <1>1, <4>1 DEF IInv, TypeOK, acceptJoin
      <4>2. ASSUME NEW answer, NEW isPending, rejectJoin(j, q, answer, isPending)
            PROVE  i # j \/ p # q => status'[p][i] = status[p][i] /\ accountStatus'[i][p] = accountStatus[i][p]
        BY <1>1, <4>2 DEF IInv, TypeOK, rejectJoin
      <4>. QED
        BY <2>4, <4>1, <4>2 DEF approveJoiner, updateInsuredStatus
    <3>. QED
      BY <3>1, <3>2
  <2>5. ASSUME NEW j \in Insureds, NEW q \in Pools, enforceCancel(q, j) \/ addCoverageDemand(j, q)
        PROVE  /\ status[p][i] \in {"Declined", "Banned"} => status'[p][i] = status[p][i]
               /\ accountStatus'[i][p] = accountStatus[i][p]
    <3>1. CASE enforceCancel(q, j)
      <4>1. status[q][j] = "Accepted" /\ status' = [status EXCEPT ![q][j] = "Declined"] /\ accountStatus' = accountStatus
        BY <3>1 DEF enforceCancel
      <4>. QED
        BY <1>1, <4>1 DEF IInv, TypeOK
    <3>2. CASE addCoverageDemand(j, q)
      BY <3>2 DEF addCoverageDemand
    <3>. QED
      BY <2>5, <3>1, <3>2
  <2>. QED
    BY <1>1, <2>1, <2>2, <2>3, <2>4, <2>5 DEF Next
<1>2. IInv /\ [Next]_vars => [Final]_vars
  BY <1>1
<1>. QED
  BY <1>2, Invariant, PTL DEF Spec, MembershipIsFinal
=============================================================================
