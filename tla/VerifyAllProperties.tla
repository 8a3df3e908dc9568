------------------------ MODULE VerifyAllProperties ------------------------
(***************************************************************************)
(* What is checked of the verification of contracts: see module VerifyAll. *)
(***************************************************************************)
EXTENDS VerifyAll

VerifyTypeOK ==
    /\ \A a \in DOMAIN db.verified : db.verified[a] = TRUE
    /\ explorer.sources \subseteq DOMAIN ImplOf /\ explorer.links \subseteq DOMAIN ImplOf
    /\ trouble \in 0..MaxTrouble
    /\ \A w \in Workers :
         LET p == worker[w] IN
           /\ p.phase \in Phases /\ p.i \in 1..(Len(List(w)) + 1)
           /\ p.hasFirst \in BOOLEAN /\ p.full \in BOOLEAN
           /\ p.outcome \in Outcomes /\ (p.outcome # "none" <=> p.phase \in {"settle", "write"})
           /\ p.tries \in 0..(IF p.phase = "poll" THEN MaxPolls ELSE MaxTries - 1)
           /\ p.summary \subseteq ToSet(List(w))

\* The explorer has the source of a contract, or shows the implementation of a proxy.
Accepted(a) == a \in IF IsProxy(a) THEN explorer.links ELSE explorer.sources

(***************************************************************************)
(* A contract that the file notes as verified was accepted by the          *)
(* explorer, and a proxy among them really has the recorded                *)
(* implementation, whatever answers were lost and however the writes of    *)
(* two workers fell together.                                              *)
(***************************************************************************)
VerifiedIsTrue ==
    /\ VerifyTypeOK
    /\ \A a \in DOMAIN db.verified : Accepted(a) /\ (IsProxy(a) => IsTrue(a))

(***************************************************************************)
(* The summary tells the truth: an entry of a worker that has finished is  *)
(* among its issues, or was accepted by the explorer.                      *)
(***************************************************************************)
SummaryIsComplete ==
    \A w \in Workers :
       worker[w].phase = "ended" =>
          \A a \in ToSet(List(w)) : a \in worker[w].summary \/ Accepted(a)

FirstProxy == SelectInSeq(Order, LAMBDA a : IsProxy(a))

(***************************************************************************)
(* The mode auto verifies the source of one proxy only.  That proxy is     *)
(* the first one of the file, and it is not noted before the explorer has  *)
(* its source: until then every run tries the source again.                *)
(***************************************************************************)
FirstProxyHasSource ==
    (\A w \in Workers : Args[w].proxy # "min") /\ FirstProxy # 0 /\ IsVerified(db, Order[FirstProxy])
       => Order[FirstProxy] \in explorer.sources

(***************************************************************************)
(* Every contract that a worker lists is noted as verified in the end and  *)
(* stays so, except a proxy whose implementation is another one by now:    *)
(* what a kill, an exhausted retry or the write of another worker has      *)
(* lost, a later run makes good.                                           *)
(***************************************************************************)
EventuallyVerified ==
    \A w \in Workers : \A a \in ToSet(List(w)) :
       (IsProxy(a) => IsTrue(a)) => <>[]IsVerified(db, a)

-----------------------------------------------------------------------------

(***************************************************************************)
(* "Batch index, 0 <= n < total number of batches" (verify-all.ts:24):     *)
(* when the workers are the batches of one file, each of its contracts is  *)
(* in a batch.  The code does not do that: see AddEntry.                   *)
(***************************************************************************)
BatchesCoverFile ==
    (\E w \in Workers : worker[w].phase = "ended") =>
       \A a \in Listed : \E w \in Workers : a \in ToSet(List(w))
=============================================================================
