------------------------------- MODULE MCLease -------------------------------
(* Lease on small instances: scripts of at most three statements. *)
EXTENDS Lease

AllStatements == {"read", "write", "bad", "commit", "rollback", "begin", "set", "set_config"}
=============================================================================
