-------------------------- MODULE MCHostOperations --------------------------
(* Instances of HostOperations for TLC. *)
EXTENDS HostOperations, TLC

CONSTANTS p1, p2
Procs == Permutations({p1, p2})

Req(kind, expected, key) ==
  [kind |-> kind, expected |-> expected, key |-> key, provider |-> "v1"]

\* A login with one of two keys, a setup with a key, two writes through the journal, two
\* settings patches made for the same revision and one for the next, a shutdown.
FewOffers ==
  << {Req("login", 0, "k1"), Req("logout", 0, NoKey)},
     {Req("setup", 0, "k2"), Req("setup", 0, NoKey)},
     {Req("consent", 0, NoKey)},
     {Req("consent", 0, NoKey)},
     {Req("settings", 0, NoKey), Req("settings", 1, NoKey)},
     {Req("settings", 0, NoKey)},
     {Req("shutdown", 0, NoKey)} >>
=============================================================================
