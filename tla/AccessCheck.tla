---------------------------- MODULE AccessCheck ----------------------------
(***************************************************************************)
(* The access test of a deployment (tasks/deploy/full/97-access-test.ts    *)
(* with helpers/access-verify/): a stranger calls every mutable function   *)
(* of every recorded contract, directly and through the proxies, and every *)
(* call must be refused for the reason the catalog of exceptions expects.  *)
(*                                                                         *)
(* The loops of the task are a queue of contracts to look at, with the     *)
(* delegates of a contract put in front of the rest.  Calls are static, so *)
(* the contracts do not change under the test; a call may also be lost by  *)
(* the provider, whose message then stands for a reason.                   *)
(***************************************************************************)
EXTENDS Naturals, SequencesExt

CONSTANTS
    Networks,       \* choices of the network
    Instances,      \* recorded contracts, in the order of the file
    FactoryOf,      \* the factory of each
    Externals,      \* recorded proxies and foreign contracts, in order
    Impls,          \* choices of what is recorded as their implementations
    Functions,      \* the interface of a factory: [name, short, mutable]
    Access,         \* the catalog of exceptions, by factory
    Answers,        \* choices of how contracts answer a stranger
    KnownFactories  \* choices of the factories the program knows

VARIABLES
    network,        \* the one that is deployed to
    hasUser,        \* there is a second account, the stranger
    implOf,         \* recorded implementation of an external, 0 if none
    known,          \* factories the program has
    answers,        \* <<address, function>> -> "open", a reason, ...
    checkAll,       \* go on after an error
    queue,          \* contracts to look at, the first one is looked at
    pos,            \* the next function of the first one
    hasErrors,      \* of verifyMutableAccess
    hasUnknown,     \* hasErorrs of the task
    lost,           \* the provider failed a call
    result

checkVars == <<network, hasUser, implOf, known, answers, checkAll, queue, pos, hasErrors,
          hasUnknown, lost, result>>
chosen == <<network, hasUser, implOf, known, answers, checkAll>>

\* Answers that are no reason of a contract: the call went through; it was
\* reverted without a reason; it reached an address without code.
Open == "open"
NoReason == ""
NullCall == "function call to a non-contract account"
Lost == "timeout"
Skip == "true"

DEFAULT_REVERTS ==
    {"AccessDenied", "CallerNotEmergencyAdmin", "Ownable: caller is not the owner"}

NoExceptions ==
    [functions |-> <<>>, implOverride |-> <<>>, reasons |-> {}, delegates |-> <<>>]

ExceptionsOf(factory) ==
    IF factory \in DOMAIN Access THEN Access[factory] ELSE NoExceptions

(***************************************************************************)
(* What to look at: the contract at an address as one of a factory, called *)
(* directly or as a proxy.  One of the externals whose implementation is   *)
(* not recorded as an instance has no factory.                             *)
(***************************************************************************)
Contract(at, factory, proxy) == [at |-> at, factory |-> factory, proxy |-> proxy]

NoFactory == ""

ImplFactory(a) ==
    IF implOf[a] \in DOMAIN FactoryOf THEN FactoryOf[implOf[a]] ELSE NoFactory

Entries ==
    [i \in DOMAIN Instances |-> Contract(Instances[i], FactoryOf[Instances[i]], FALSE)]
    \o [i \in DOMAIN Externals |-> Contract(Externals[i], ImplFactory(Externals[i]), TRUE)]

\* An external that is no proxy: no implementation is recorded of it.
IsForeign(c) == c.proxy /\ implOf[c.at] = 0

FaultyIsImpl(c) == ExceptionsOf(c.factory).implOverride # <<>>

\* An implementation refuses its initializer for another reason than a proxy,
\* and calls through addresses it was never given.
IsImpl(c) == ~c.proxy /\ ExceptionsOf(c.factory).implOverride # <<>>

ExceptionList(c) ==
    LET x == ExceptionsOf(c.factory)
    IN  IF IsImpl(c) THEN [f \in DOMAIN x.implOverride \cup DOMAIN x.functions |->
                             IF f \in DOMAIN x.implOverride
                             THEN x.implOverride[f] ELSE x.functions[f]]
        ELSE x.functions

\* An exception is found by the name with parameter types, then without.
Exception(c, fn) ==
    LET list == ExceptionList(c)
    IN  CASE fn.name \in DOMAIN list -> list[fn.name]
          [] fn.name \notin DOMAIN list /\ fn.short \in DOMAIN list -> list[fn.short]
          [] OTHER -> "undefined"

ExpectedReverts(c) ==
    LET reasons == ExceptionsOf(c.factory).reasons
    IN  IF reasons = {} THEN DEFAULT_REVERTS ELSE reasons

\* extractReason: a revert without a reason has none; of other failures that
\* have no reason string, the text counts as one except at an implementation.
\* NullCall stands for the two texts that are treated so: a call of an address
\* without code and a redirect to one.
HasReason(c, answer) ==
    /\ answer # NoReason
    /\ answer = NullCall => ~IsImpl(c)

IsExpectedError(c, fn, answer) ==
    IF HasReason(c, answer)
    THEN \/ Exception(c, fn) = "undefined" /\ answer \in ExpectedReverts(c)
         \/ Exception(c, fn) = answer
    ELSE IsImpl(c) /\ answer = NullCall
-----------------------------------------------------------------------------
ReasonsIn(list) == {list[name] : name \in DOMAIN list}

\* The interfaces and the catalog belong together: what an entry or a delegate
\* is a contract of has an interface, if the program has it at all.
ASSUME FactoriesAssumption ==
    /\ NoFactory \notin DOMAIN Functions
    /\ \A names \in KnownFactories : names \subseteq DOMAIN Functions
    /\ \A f \in DOMAIN Functions :
          /\ Functions[f] \in Seq([name : STRING, short : STRING, mutable : BOOLEAN])
          /\ ExceptionsOf(f).delegates \in Seq(DOMAIN Functions)

ASSUME RecordsAssumption ==
    /\ Instances \in Seq(DOMAIN FactoryOf) /\ 0 \notin DOMAIN FactoryOf
    /\ Externals \in Seq(Nat)

(***************************************************************************)
(* The catalog of exceptions: no contract reverts with a message of the    *)
(* provider; a function is listed by its short name, with the types only   *)
(* to let everyone call it; what an implementation refuses in its own way  *)
(* is not public.                                                          *)
(***************************************************************************)
ASSUME CatalogAssumption ==
    \A f \in DOMAIN Functions :
      LET x == ExceptionsOf(f)
      IN  /\ (x.reasons \cup ReasonsIn(x.functions) \cup ReasonsIn(x.implOverride))
                 \cap {Open, NoReason, Lost} = {}
          /\ Skip \notin ReasonsIn(x.implOverride)
          /\ \A fn \in ToSet(Functions[f]) :
                /\ fn.name \notin DOMAIN x.implOverride
                /\ fn.name \in DOMAIN x.functions => x.functions[fn.name] = Skip
                /\ fn.short \in DOMAIN x.implOverride \cap DOMAIN x.functions
                      => x.functions[fn.short] # Skip
-----------------------------------------------------------------------------
\* Networks where the test returns at once, and nothing is looked at.
UNSUPPORTED == {"kovan", "arbitrum_testnet"}
Supported == network \notin UNSUPPORTED

CheckInit ==
    /\ network \in Networks /\ hasUser \in BOOLEAN
    /\ implOf \in Impls /\ known \in KnownFactories
    /\ answers \in Answers /\ checkAll \in BOOLEAN
    /\ queue = Entries /\ pos = 1
    /\ hasErrors = FALSE /\ hasUnknown = FALSE /\ lost = FALSE
    /\ result = "starting"

Begin(outcome) ==
    /\ result = "starting" /\ result' = outcome
    /\ UNCHANGED <<chosen, queue, pos, hasErrors, hasUnknown, lost>>

SkipTest == ~Supported /\ Begin("skipped")
NoStranger == Supported /\ ~hasUser /\ Begin("failed")
StartTest == Supported /\ hasUser /\ Begin("running")

Current == Head(queue)
Looking == result = "running" /\ queue # <<>>
Known == Current.factory \in known
Function == Functions[Current.factory][pos]
HasFunction == pos <= Len(Functions[Current.factory])

Calls(c, fn) == fn.mutable /\ Exception(c, fn) # Skip

\* The interface of a factory that is gone cannot be called.
UnknownFactory ==
    /\ Looking /\ Current.factory # NoFactory /\ ~Known
    /\ IF checkAll
       THEN hasUnknown' = TRUE /\ queue' = Tail(queue) /\ UNCHANGED result
       ELSE result' = "failed" /\ UNCHANGED <<hasUnknown, queue>>
    /\ UNCHANGED <<chosen, pos, hasErrors, lost>>

SkipForeign ==
    /\ Looking /\ Current.factory = NoFactory /\ IsForeign(Current)
    /\ queue' = Tail(queue)
    /\ UNCHANGED <<chosen, pos, hasErrors, hasUnknown, lost, result>>

\* The entry of the implementation is read before it is known to exist.
UnknownImplementation ==
    /\ Looking /\ Current.factory = NoFactory /\ ~IsForeign(Current)
    /\ result' = "failed"
    /\ UNCHANGED <<chosen, queue, pos, hasErrors, hasUnknown, lost>>

SkipFunction ==
    /\ Looking /\ Known /\ HasFunction /\ ~Calls(Current, Function)
    /\ pos' = pos + 1
    /\ UNCHANGED <<chosen, queue, hasErrors, hasUnknown, lost, result>>

CallFunction ==
    /\ Looking /\ Known /\ HasFunction /\ Calls(Current, Function)
    /\ \E answer \in {answers[<<Current.at, Function.name>>], Lost} :
          /\ lost' = (lost \/ answer = Lost)
          /\ IF answer # Open /\ IsExpectedError(Current, Function, answer)
             THEN pos' = pos + 1 /\ UNCHANGED <<hasErrors, result>>
             ELSE IF checkAll
             THEN pos' = pos + 1 /\ hasErrors' = TRUE /\ UNCHANGED result
             ELSE result' = "failed" /\ UNCHANGED <<pos, hasErrors>>
    /\ UNCHANGED <<chosen, queue, hasUnknown>>

FaultyDelegates(c) == <<>>

\* The delegates of a contract are looked at next, at its address.
Delegates(c) ==
    LET factories == ExceptionsOf(c.factory).delegates
    IN  [i \in DOMAIN factories |-> Contract(c.at, factories[i], c.proxy)]

EndContract ==
    /\ Looking /\ Known /\ ~HasFunction
    /\ IF hasErrors
       THEN result' = "failed" /\ UNCHANGED <<queue, pos>>
       ELSE queue' = Delegates(Current) \o Tail(queue) /\ pos' = 1 /\ UNCHANGED result
    /\ UNCHANGED <<chosen, hasErrors, hasUnknown, lost>>

EndTask ==
    /\ result = "running" /\ queue = <<>>
    /\ result' = IF hasUnknown THEN "failed" ELSE "passed"
    /\ UNCHANGED <<chosen, queue, pos, hasErrors, hasUnknown, lost>>

CheckNext ==
    \/ SkipTest \/ NoStranger \/ StartTest
    \/ UnknownFactory \/ SkipForeign \/ UnknownImplementation
    \/ SkipFunction \/ CallFunction
    \/ EndContract \/ EndTask

\* A script that runs goes on: calls return or time out.
CheckSpec == CheckInit /\ [][CheckNext]_checkVars /\ WF_checkVars(CheckNext)
-----------------------------------------------------------------------------
(***************************************************************************)
(* What the test is about: all that is reached from the file, which is the *)
(* smallest set that has the entries and the delegates of what it has.     *)
(***************************************************************************)
FactoriesBelow(factory) ==
    LET closed == {S \in SUBSET DOMAIN Functions :
                     factory \in S /\ \A f \in S : ToSet(ExceptionsOf(f).delegates) \subseteq S}
    IN  {f \in DOMAIN Functions : \A S \in closed : f \in S}

Surface ==
    UNION {{Contract(e.at, f, e.proxy) : f \in FactoriesBelow(e.factory)} :
             e \in {x \in ToSet(Entries) : x.factory \in DOMAIN Functions}}

\* The catalog lets anyone call the function of the contract.
IsPublic(c, fn) ==
    LET list == ExceptionsOf(c.factory).functions
    IN  \E f \in {fn.name, fn.short} : f \in DOMAIN list /\ list[f] = Skip

(***************************************************************************)
(* A stranger can change something: a function that is neither a view nor  *)
(* public goes through, of any contract in the file, directly or through a *)
(* proxy, also one that is reached by a delegate's interface only.         *)
(***************************************************************************)
StrangerGetsIn ==
    \E c \in Surface : \E fn \in ToSet(Functions[c.factory]) :
       fn.mutable /\ ~IsPublic(c, fn) /\ answers[<<c.at, fn.name>>] = Open

\* What the deployment does after the task: it goes on when that returns.
GoesOn == result \in {"passed", "skipped"}

(***************************************************************************)
(* The test finds every hole: whatever else is in the file, the deployment *)
(* does not go on when a stranger gets in, with or without checkAll.  This *)
(* is so on networks that support the test; on kovan and arbitrum_testnet  *)
(* every deployment goes on, with any hole.                                *)
(***************************************************************************)
HolesAreFound == Supported /\ StrangerGetsIn ~> [](result = "failed")

ReasonFor(c, fn) ==
    LET x == ExceptionsOf(c.factory)
        lists == IF c.proxy \/ fn.short \notin DOMAIN x.implOverride
                 THEN x.functions ELSE x.implOverride
    IN  IF fn.short \in DOMAIN lists THEN {lists[fn.short]}
        ELSE IF x.reasons = {} THEN DEFAULT_REVERTS ELSE x.reasons

Proper ==
    /\ \A c \in ToSet(Entries) :
          IsForeign(c) \/ (c.factory \in known /\ FactoriesBelow(c.factory) \subseteq known)
    /\ \A c \in Surface : \A fn \in ToSet(Functions[c.factory]) :
          fn.mutable /\ ~IsPublic(c, fn) => answers[<<c.at, fn.name>>] \in ReasonFor(c, fn)

(***************************************************************************)
(* The test lets a proper deployment through: when there is an account to  *)
(* call with, initializers are locked at implementations and used up at    *)
(* proxies, and everything else that is not public refuses a stranger for  *)
(* a reason of the catalog, the test passes, or is skipped if it is not    *)
(* supported, unless a call is lost or a recorded contract is not known.   *)
(***************************************************************************)
ProperPasses ==
    [](Proper /\ hasUser => <>(lost \/ result = IF Supported THEN "passed" ELSE "skipped"))
=============================================================================
