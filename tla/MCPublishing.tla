---------------------------- MODULE MCPublishing ----------------------------
(* Operations of every kind on one API, which may have been published before. *)
EXTENDS Publishing, TLC

CONSTANTS o1, o2, o3

\* A gated API that is enforced and an open one that is documented only.
MCShapes == {[auth |-> "key", acl |-> TRUE, level |-> "routes"],
             [auth |-> "key", acl |-> FALSE, level |-> "docs"]}

Symmetric == Permutations(Ops)
=============================================================================
