---------------------------- MODULE MCVerifyAll ----------------------------
(* A file with an instance and two proxies, one of them upgraded since   *)
(* it was recorded, and a contract the file does not list.                 *)
EXTENDS VerifyAllProperties, TLC

\* Addresses: instances are positive, proxies negative, as in SetupContracts.
MCOrder == <<1, -1, -2>>
MCImplOf == (1 :> 0) @@ (2 :> 0) @@ (-1 :> 1) @@ (-2 :> 1)
MCActual == (1 :> 0) @@ (2 :> 0) @@ (-1 :> 1) @@ (-2 :> 2)
MCIdOf == (1 :> "impl") @@ (2 :> "other") @@ (-1 :> "fund") @@ (-2 :> "pool")

\* One worker for all, one for a proxy and an address.
MCWorkers == {1, 2}
MCArgs ==
    (1 :> [n |-> 0, of |-> 1, addrs |-> {}, ids |-> {}, proxy |-> "auto", force |-> FALSE])
    @@ (2 :> [n |-> 0, of |-> 1, addrs |-> {2}, ids |-> {"fund"},
             proxy |-> "full", force |-> TRUE])

\* Two batches of the file.
MCBatches ==
    [w \in MCWorkers |->
       [n |-> w - 1, of |-> 2, addrs |-> {}, ids |-> {}, proxy |-> "auto", force |-> FALSE]]
=============================================================================
