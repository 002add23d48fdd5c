----------------------------- MODULE MCUpstream -----------------------------
(* Upstream for TLC: servers are interchangeable before they are added,    *)
(* and so are addresses.                                                   *)
EXTENDS Upstream, TLC

MCModes == {<<"weighted", TRUE>>, <<"consistent", FALSE>>}

Symmetric == Permutations(Servers) \cup Permutations(Addresses)
=============================================================================
