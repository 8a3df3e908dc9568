--------------------------- MODULE MCAccessCheck ---------------------------
(* A pool with its extension, deployed and behind a proxy, and a contract  *)
(* that anybody may call.  At most two calls are answered improperly.      *)
EXTENDS AccessCheck, TLC

Fn(name, short, mutable) == [name |-> name, short |-> short, mutable |-> mutable]

MCNetworks == {"main", "kovan", "arbitrum_testnet"}
MCFactories == {"Pool", "Extension", "Front"}
MCInstances == <<1, 2>>
MCFactoryOf == <<"Pool", "Front">>
MCExternals == <<3>>
MCImpls == {3 :> impl : impl \in {0, 1, 9}}

MCFunctions ==
    [Pool |-> <<Fn("transfer(a)", "transfer", TRUE), Fn("initialize(a)", "initialize", TRUE),
               Fn("setLimit(a)", "setLimit", TRUE), Fn("limit()", "limit", FALSE)>>,
     Extension |-> <<Fn("cancel(a)", "cancel", TRUE)>>,
     Front |-> <<Fn("sync()", "sync", TRUE), Fn("attach(a)", "attach", TRUE)>>]

MCAccess ==
    [Pool |-> [functions |-> [transfer |-> Skip, initialize |-> "AlreadyInitialized"],
               implOverride |-> [initialize |-> "InitializerBlockedOff"],
               reasons |-> {}, delegates |-> <<"Extension">>],
     Front |-> [NoExceptions EXCEPT !.functions = ("sync()" :> Skip),
                                    !.reasons = {"CallerNotOracleAdmin"}]]

MCKnown == {MCFactories, MCFactories \ {"Front"}}

Called ==
    (({1, 3} \X {"initialize(a)", "setLimit(a)", "cancel(a)", "limit()"}) \cup {<<2, "attach(a)">>})
Right ==
    [c \in Called |-> CASE c = <<1, "initialize(a)">> -> "InitializerBlockedOff"
                        [] c = <<3, "initialize(a)">> -> "AlreadyInitialized"
                        [] c = <<2, "attach(a)">> -> "CallerNotOracleAdmin"
                        [] OTHER -> "AccessDenied"]
Public == {1, 3} \X {"transfer(a)"} \cup {<<2, "sync()">>}
MCAnswers ==
    {[c \in Called \cup Public |->
        IF c = wrong1 THEN answer ELSE IF c = wrong2 THEN Open
        ELSE IF c \in Public THEN Open ELSE Right[c]] :
       wrong1 \in Called, wrong2 \in Called,
       answer \in {Open, NoReason, NullCall, "AccessDenied", "AlreadyInitialized"}}
    \cup {[c \in Called \cup Public |-> IF c \in Public THEN Open ELSE Right[c]]}
=============================================================================
