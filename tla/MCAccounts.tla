----------------------------- MODULE MCAccounts -----------------------------
(* Workloads and symmetry for Accounts: any two operations, and three of the *)
(* kinds that meet on one account's passwords, links, identities or seat, on *)
(* several instances; on one instance, three that open or end the sessions   *)
(* of an identity.                                                           *)
EXTENDS Accounts, TLC

MCWorkloads ==
  {[kinds |-> AllKinds, size |-> 2, stores |-> "many"]} \cup
  {[kinds |-> k, size |-> 3, stores |-> "many"] :
     k \in {{"request", "reset", "update"},
            {"login", "change", "reset", "request"},
            {"sso", "unlink", "deprovision"},
            {"sso", "update"}, {"sso", "save"}, {"login", "update"},
            {"register", "change", "login", "god"}}} \cup
  {[kinds |-> {"sso", "unlink", "save", "deprovision"}, size |-> 3, stores |-> "one"]}

Symmetric == Permutations(Ops) \cup Permutations(Founders)
=============================================================================
