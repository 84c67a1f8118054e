---------------------------- MODULE MCLifecycle ----------------------------
(* Two expansions in two groups; clients add one, remove it or close.   *)
EXTENDS Lifecycle, TLC

CONSTANTS x, y, g, h

MCGroupOf == (x :> g) @@ (y :> h)

MCRequests ==
    {[kind |-> "add", entry |-> x], [kind |-> "remove", entry |-> x], [kind |-> "close"]}

MCSymmetry == Permutations(Texcs) \cup Permutations(Clients) \cup Permutations(Ports)
============================================================================
