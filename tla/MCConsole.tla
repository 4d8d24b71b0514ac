----------------------------- MODULE MCConsole ------------------------------
(* Instances of Console for TLC. *)
EXTENDS Console, TLC

MCEnvConfig == [server |-> "env", secret |-> "seed"]

(* Signing in and out from everywhere, or two that save. *)
MCTraffic == {{"page", "setup", "login", "change", "logout", "reset"},
              {"setup", "login", "put", "import"}}

(* Browsers and slots are only compared with one another. *)
Symmetry == Permutations(Browsers) \cup Permutations(Slots)

=============================================================================
