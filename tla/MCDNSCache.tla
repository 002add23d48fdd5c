----------------------------- MODULE MCDNSCache -----------------------------
(* DNSCache for TLC: handles, tasks and hosts are interchangeable.         *)
EXTENDS DNSCache, TLC

(* Limited by the time to live alone, and by the time for retries alone.   *)
MCLives == {<<0, Forever>>, <<Forever, 0>>}

Symmetric == Permutations(Handles) \cup Permutations(Routers) \cup Permutations(Keys)
=============================================================================
