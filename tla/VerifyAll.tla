------------------------------ MODULE VerifyAll ------------------------------
(***************************************************************************)
(* The task verify:all-contracts: processes ("workers") that go through    *)
(* the contracts of the deployment file, have an explorer verify them, and *)
(* note in the file what it accepted.  A worker handles a batch or a       *)
(* filtered part of the file; several may run at a time, may be killed and *)
(* are started again.  One action is one request to the explorer, or one   *)
(* access to the file.                                                     *)
(*                                                                         *)
(*   db        the file (module DeployDb)                                  *)
(*   explorer  what it knows: contracts whose source it has, proxies that  *)
(*             it shows with their implementation                          *)
(*   worker    worker -> its process                                       *)
(*   trouble   the number of faults so far                                 *)
(***************************************************************************)
EXTENDS DeployDb, Sequences, SequencesExt

CONSTANTS
    Workers,       \* the processes
    Args,          \* worker -> [n, of, addrs, ids, proxy, force], its parameters
    Order,         \* the addresses in the order of the file, instances first
    ImplOf,        \* address -> verify.impl of its entry, NoAddr if it has none
    Actual,        \* address -> the implementation the proxy really has
    IdOf,          \* address -> id of its entry
    MaxPolls,      \* a submission is polled at most MaxPolls + 1 times (20 in the code)
    MaxTries,      \* a web form is requested at most MaxTries times (10 in the code)
    MaxTrouble     \* bound of the faults of an execution

VARIABLES db, explorer, worker, trouble

vars == <<db, explorer, worker, trouble>>

IsProxy(a) == ImplOf[a] # NoAddr

Listed == ToSet(Order)

Outcomes == {"none", "ok", "failed"}

Phases == {"off", "pick", "source", "submit", "poll", "getForm", "verifyForm",
           "saveForm", "settle", "write", "ended"}

-----------------------------------------------------------------------------
(* The list of a worker.                                                   *)

\* The filter holds addresses and ids.
Matches(args, a) ==
    (args.addrs # {} \/ args.ids # {}) => a \in args.addrs \/ IdOf[a] \in args.ids

(***************************************************************************)
(* addEntry counts the entries it takes, not the entries it sees: after    *)
(* the first one of batch 0 the count stays at 1, and batches 1, 2, ...    *)
(* never find their first one.                                             *)
(***************************************************************************)
AddEntry(args, acc, a) ==
    IF Matches(args, a) /\ acc.batchIndex % args.of = args.n
    THEN [batchIndex |-> acc.batchIndex + 1, list |-> Append(acc.list, a)]
    ELSE acc

\* Contracts named by their address that the file does not list come last.
ListOf(args) ==
    LET Add(acc, a) == AddEntry(args, acc, a)
        known == FoldLeft(Add, [batchIndex |-> 0, list |-> <<>>], Order)
        others == SetToSeq({a \in args.addrs : a \notin Listed})
    IN  FoldLeft(Add, known, others).list

List(w) == ListOf(Args[w])

\* The file lists a contract once; every contract is tried at least once.
ASSUME VerifyAssumption ==
    /\ MaxPolls \in Nat /\ MaxTries \in Nat \ {0} /\ MaxTrouble \in Nat
    /\ Order \in Seq(DOMAIN ImplOf)
    /\ \A i, j \in DOMAIN Order : Order[i] = Order[j] => i = j
    /\ \A w \in Workers :
         /\ Args[w].addrs \subseteq DOMAIN ImplOf /\ IsFiniteSet(Args[w].addrs)
         /\ Args[w].proxy \in {"auto", "full", "min"}

Addr(w) == List(w)[worker[w].i]

-----------------------------------------------------------------------------

Ended(phase) ==
    [phase |-> phase, i |-> 1, hasFirst |-> FALSE, full |-> TRUE, tries |-> 0,
     outcome |-> "none", copy |-> <<>>, summary |-> {}]

Init ==
    /\ db = [EmptyDb EXCEPT
               !.instance = [a \in {x \in Listed : ~IsProxy(x)} |-> Entry(IdOf[a], IdOf[a], NoAddr)],
               !.external = [a \in {x \in Listed : IsProxy(x)} |-> Entry(IdOf[a], IdOf[a], ImplOf[a])]]
    /\ explorer = [sources |-> {}, links |-> {}]
    /\ worker = [w \in Workers |-> Ended("off")]
    /\ trouble = 0

Move(w, p) == worker' = [worker EXCEPT ![w] = p]

To(w, phase) == [worker[w] EXCEPT !.phase = phase, !.tries = 0]

Settle(w, outcome) == [worker[w] EXCEPT !.phase = "settle", !.outcome = outcome, !.tries = 0]

\* A worker is started as long as something of its list is not verified.
Start(w) ==
    /\ worker[w].phase \in {"off", "ended"}
    /\ \E i \in DOMAIN List(w) : ~IsVerified(db, List(w)[i])
    /\ Move(w, [Ended("pick") EXCEPT !.i = 1])
    /\ UNCHANGED <<db, explorer, trouble>>

\* A variant that leaves out the first proxy and not the others.
FaultyFilterProxy(mode, hasFirst) == mode = "full" \/ (mode = "auto" /\ hasFirst)

(***************************************************************************)
(* filterProxy: in mode auto the source of the first proxy is verified     *)
(* only, the explorer recognises the others by their equal code.           *)
(***************************************************************************)
FilterProxy(mode, hasFirst) == mode = "full" \/ (mode = "auto" /\ ~hasFirst)

\* The mode auto is used up by the first proxy, even when that is verified already.
Pick(w) ==
    /\ worker[w].phase = "pick" /\ worker[w].i <= Len(List(w))
    /\ LET a == Addr(w)
           full == IsProxy(a) => FilterProxy(Args[w].proxy, worker[w].hasFirst)
           skip == ~Args[w].force /\ IsVerified(db, a)
           p == [worker[w] EXCEPT !.hasFirst = @ \/ IsProxy(a), !.full = full]
       IN  Move(w, IF skip THEN [p EXCEPT !.i = @ + 1]
                   ELSE [p EXCEPT !.phase = IF full THEN "source" ELSE "submit"])
    /\ UNCHANGED <<db, explorer, trouble>>

Finish(w) ==
    /\ worker[w].phase = "pick" /\ worker[w].i > Len(List(w))
    /\ Move(w, [Ended("ended") EXCEPT !.summary = worker[w].summary])
    /\ UNCHANGED <<db, explorer, trouble>>

-----------------------------------------------------------------------------
(* The requests.  A request whose answer is bad or lost may have had its   *)
(* effect.                                                                 *)

Knows(set, a) == [explorer EXCEPT ![set] = @ \cup {a}]

Trouble == trouble < MaxTrouble /\ trouble' = trouble + 1

\* The explorer accepts for both what it has already.
AfterSource(w) == IF IsProxy(Addr(w)) THEN To(w, "submit") ELSE Settle(w, "ok")

\* A variant that takes "already verified" for a failure.
FaultyVerifySource(w) ==
    /\ worker[w].phase = "source"
    /\ explorer' = Knows("sources", Addr(w))
    /\ Move(w, IF Addr(w) \in explorer.sources THEN Settle(w, "failed") ELSE AfterSource(w))
    /\ UNCHANGED <<db, trouble>>

VerifySource(w) ==
    /\ worker[w].phase = "source"
    /\ \/ /\ explorer' = Knows("sources", Addr(w))
          /\ Move(w, AfterSource(w))
          /\ UNCHANGED trouble
       \/ /\ Trouble
          /\ explorer' \in {explorer, Knows("sources", Addr(w))}
          /\ Move(w, Settle(w, "failed"))
    /\ UNCHANGED db

\* verifyproxycontract; without an implementation the web form is tried
SubmitProxy(w) ==
    /\ worker[w].phase = "submit"
    /\ \/ Move(w, To(w, "poll")) /\ UNCHANGED trouble
       \/ Move(w, To(w, "getForm")) /\ UNCHANGED trouble
       \/ Trouble /\ Move(w, Settle(w, "failed"))
    /\ UNCHANGED <<db, explorer>>

IsTrue(a) == Actual[a] = ImplOf[a]

(***************************************************************************)
(* checkproxyverification: accepted, pending, not detected, or a failure.  *)
(***************************************************************************)
Poll(w) ==
    /\ worker[w].phase = "poll"
    /\ \/ /\ IsTrue(Addr(w)) /\ explorer' = Knows("links", Addr(w))
          /\ Move(w, Settle(w, "ok"))
          /\ UNCHANGED trouble
       \/ /\ ~IsTrue(Addr(w)) /\ Move(w, Settle(w, "failed"))
          /\ UNCHANGED <<explorer, trouble>>
       \/ /\ Trouble
          /\ Move(w, IF worker[w].tries >= MaxPolls THEN Settle(w, "failed")
                     ELSE [worker[w] EXCEPT !.tries = @ + 1])
          /\ UNCHANGED explorer
       \/ /\ Move(w, To(w, "getForm"))
          /\ UNCHANGED <<explorer, trouble>>
       \/ /\ Trouble
          /\ explorer' = IF IsTrue(Addr(w)) THEN Knows("links", Addr(w)) ELSE explorer
          /\ Move(w, Settle(w, "failed"))
    /\ UNCHANGED db

\* A variant that takes the end of the retries for an answer.
FaultyBusy(w) ==
    /\ worker[w].phase \in {"getForm", "verifyForm", "saveForm"}
    /\ Trouble
    /\ Move(w, IF worker[w].tries + 1 >= MaxTries THEN Settle(w, "ok")
               ELSE [worker[w] EXCEPT !.tries = @ + 1])
    /\ UNCHANGED <<db, explorer>>

\* sendRequest: the servers are busy, up to the last try
Busy(w) ==
    /\ worker[w].phase \in {"getForm", "verifyForm", "saveForm"}
    /\ Trouble
    /\ Move(w, IF worker[w].tries + 1 >= MaxTries THEN Settle(w, "failed")
               ELSE [worker[w] EXCEPT !.tries = @ + 1])
    /\ UNCHANGED <<db, explorer>>

\* A page without the fields of the form, or an unexpected status.
Garbled(w) ==
    /\ worker[w].phase \in {"getForm", "verifyForm", "saveForm"}
    /\ Trouble
    /\ Move(w, Settle(w, "failed"))
    /\ explorer' \in IF worker[w].phase = "saveForm"
                     THEN {explorer, Knows("links", Addr(w))} ELSE {explorer}
    /\ UNCHANGED db

GetForm(w) ==
    /\ worker[w].phase = "getForm"
    /\ Move(w, To(w, "verifyForm"))
    /\ UNCHANGED <<db, explorer, trouble>>

\* A variant that does not compare the implementations.
FaultyVerifyForm(w) ==
    /\ worker[w].phase = "verifyForm"
    /\ Move(w, To(w, "saveForm"))
    /\ UNCHANGED <<db, explorer, trouble>>

\* The implementation the page names is compared with the recorded one.
VerifyForm(w) ==
    /\ worker[w].phase = "verifyForm"
    /\ Move(w, IF IsTrue(Addr(w)) THEN To(w, "saveForm") ELSE Settle(w, "failed"))
    /\ UNCHANGED <<db, explorer, trouble>>

SaveForm(w) ==
    /\ worker[w].phase = "saveForm"
    /\ explorer' = Knows("links", Addr(w))
    /\ Move(w, Settle(w, "ok"))
    /\ UNCHANGED <<db, trouble>>

-----------------------------------------------------------------------------
(* The note in the file: setVerifiedToJsonDb reads the whole file, changes *)
(* its copy and writes it back.  That two workers overlap here, so that    *)
(* one overwrites the note of the other, is counted among the faults.      *)

NextEntry(p) == [p EXCEPT !.phase = "pick", !.i = @ + 1, !.outcome = "none", !.copy = <<>>]

ReadFile(w) ==
    /\ worker[w].phase = "settle" /\ worker[w].outcome = "ok"
    /\ IF \E v \in Workers : worker[v].phase = "write" THEN Trouble ELSE UNCHANGED trouble
    /\ Move(w, [worker[w] EXCEPT !.phase = "write", !.copy = db.verified])
    /\ UNCHANGED <<db, explorer>>

WriteFile(w) ==
    /\ worker[w].phase = "write"
    /\ db' = SetVerified([db EXCEPT !.verified = worker[w].copy], Addr(w), TRUE)
    /\ Move(w, NextEntry(worker[w]))
    /\ UNCHANGED <<explorer, trouble>>

Report(w) ==
    /\ worker[w].phase = "settle" /\ worker[w].outcome = "failed"
    /\ Move(w, [NextEntry(worker[w]) EXCEPT !.summary = @ \cup {Addr(w)}])
    /\ UNCHANGED <<db, explorer, trouble>>

-----------------------------------------------------------------------------

Kill(w) ==
    /\ worker[w].phase \notin {"off", "ended"}
    /\ Trouble
    /\ Move(w, Ended("off"))
    /\ UNCHANGED <<db, explorer>>

Work(w) ==
    \/ Pick(w) \/ Finish(w)
    \/ VerifySource(w) \/ SubmitProxy(w) \/ Poll(w)
    \/ GetForm(w) \/ VerifyForm(w) \/ SaveForm(w) \/ Busy(w) \/ Garbled(w)
    \/ ReadFile(w) \/ WriteFile(w) \/ Report(w)

Next == \E w \in Workers : Start(w) \/ Work(w) \/ Kill(w)

(***************************************************************************)
(* Workers run, and are started as long as something is left for them.     *)
(***************************************************************************)
Fairness == \A w \in Workers : WF_vars(Work(w)) /\ WF_vars(Start(w))

Spec == Init /\ [][Next]_vars

FairSpec == Spec /\ Fairness
=============================================================================
