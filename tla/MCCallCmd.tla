----------------------------- MODULE MCCallCmd -----------------------------
(* A file with a fund and a pool, of which the pool is listed by its id    *)
(* only, and a second pool under an ambiguous id.                          *)
EXTENDS CallCmd, TLC

MCFile ==
    [EmptyDb EXCEPT
       !.named = "FUND" :> [address |-> "fund", count |-> 1],
       !.instance = "fund" :> Entry("FUND", "Fund", NoAddr),
       !.external = ("pool" :> Entry("POOL", "Pool", "impl"))
                    @@ ("twin1" :> Entry("TWIN", "Pool", "impl"))
                    @@ ("twin2" :> Entry("TWIN", "Pool", "impl"))]

Set == Word({"m"}, "name", "FUND", Fn({"m"}, 1, FALSE))
Pause == Word({"f"}, "address", "pool", Fn({"f"}, 0, FALSE))
Sneak == Word({}, "name", "POOL", Fn({"m"}, 0, FALSE))
Holder == Word({"m"}, "role", "p", Fn({}, 0, FALSE))
Ask == Word({}, "alias", "AC", Fn({}, 0, TRUE))
Twin == Word({}, "name", "TWIN", Fn({}, 0, FALSE))
Plain == Word({}, "none", "x", Fn({}, 0, FALSE))

MCLines ==
    {<<>>, <<Set, Argument>>, <<Set, Argument, Separator, Pause, Separator>>,
     <<Set, Argument, Separator, Sneak>>, <<Sneak>>, <<Ask>>, <<Holder>>,
     <<Separator, Set, Argument>>, <<Set, Argument, Separator, Separator, Pause>>,
     <<Set, Argument, Argument>>, <<Twin>>, <<Plain>>, <<Pause, Separator, Ask>>}

MCRoleLists == {{}, {"m"}}
MCMasks == {{"m"}, {"m", "f"}, {"p", "f"}, {"m", "s", "p", "f"}}
MCLimits == {0, 1, 4}

\* A batch of another administrator.
MCBatches == {<<[flags |-> {"f"}, to |-> "fund", needs |-> {"m"}]>>}
=============================================================================
